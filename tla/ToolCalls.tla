------------------------------ MODULE ToolCalls ------------------------------
(* What happens around every tool call: installAuthorization in              *)
(* src/auth/authorization.ts decides and audits the decision, the handler    *)
(* runs the operation in a driver that audits it, recordToolCall in          *)
(* src/core/observability.ts counts the call, and src/core/alerts.ts         *)
(* evaluates it and posts to the webhook, which nobody waits for.            *)
(*                                                                           *)
(* Calls interleave while their operations are at the servers and while the  *)
(* webhook is being called.  The policy's decision is any.  An operation is  *)
(* of a tool, on a connection, and stands for the last statement it runs;    *)
(* which operations there are is a parameter, and so is what of them their   *)
(* driver audits.  The audit log is RingLog, its Records the Entries.        *)
EXTENDS RingLog, FiniteSets

CONSTANTS
  Calls,
  Conns,         \* connection ids
  Default,       \* the default connection of the registry
  NoConnection,  \* in place of a connection: none is known
  Operations,    \* what is called for
  CachedTools,   \* tools that look in the query cache first
  Cooldown,      \* DB_ALERT_COOLDOWN_MS
  AlertTimeout,  \* DB_ALERT_TIMEOUT_MS
  SlowTime,      \* DB_ALERT_SLOW_TOOL_MS
  MinCalls,      \* DB_ALERT_TOOL_ERROR_RATE_MIN_CALLS
  Threshold,     \* DB_ALERT_TOOL_ERROR_RATE_THRESHOLD
  MaxTime        \* bound: the last time a call may start or end

\* A tool names one connection, or two that it compares, or none: a transaction's.
\* Of an operation a driver audits the outcome (SQL statements), that it succeeded
\* (MongoDB and Redis), or nothing: counting, listing collections, scanning, pings,
\* the ends of a transaction and, in the pooled drivers, its statements.
OperationTypes ==
  [tool : STRING, names : {"one", "two", "none"}, conn : Conns,
   audited : {"outcome", "success", "never"}]

\* What metrics are kept for and alerts are about: a tool and a connection.
Keys == {o.tool : o \in Operations} \X (Conns \cup {NoConnection})

\* What is audited of a call: the decision, and what came of the operation.
Entries == [call : Calls, op : {"authorization", "operation"}, success : {"true", "false", "unset"}]

ASSUME ToolCallsAssumption ==
  /\ IsFiniteSet(Calls) /\ Entries \subseteq Records
  /\ Default \in Conns /\ NoConnection \notin Conns /\ Operations \subseteq OperationTypes
  /\ NoConnection \notin Operations
  /\ Cooldown \in Nat \ {0} /\ AlertTimeout \in Nat \ {0} /\ MaxTime \in Nat
  /\ MaxPushes = 2 * Cardinality(Calls)
  /\ SlowTime \in Nat /\ MinCalls \in Nat \ {0} /\ Threshold \in 1..100

VARIABLES
  pc,          \* "idle", "running", "executed", "answered"
  call,        \* of each call: its operation, the connectionId of the decision, its start, its answer
  unsettled,   \* answered calls whose operation may still happen at the server
  effects,     \* calls whose operation took effect
  metrics,     \* toolMetrics
  alert,       \* of each call: where its alert evaluation is and what it evaluates
  lastAlertAt, \* when an alert of each kind was last sent for a key
  sent,        \* history: alerts posted to the webhook
  due,         \* history: evaluations of a failure rate over the threshold
  now

alertVars == <<metrics, alert, lastAlertAt, sent, due>>
callVars == <<pc, call, unsettled, effects, vars, alertVars, now>>

Never == -1
Blank == [op |-> NoConnection, connectionId |-> NoConnection, started |-> 0, answer |-> "none"]
KeyOf(c) == <<call[c].op.tool, call[c].connectionId>>

Evaluated == [stage |-> "none", total |-> 0, failed |-> 0, since |-> 0]

CallsInit ==
  /\ pc = [c \in Calls |-> "idle"] /\ call = [c \in Calls |-> Blank]
  /\ unsettled = {} /\ effects = {}
  /\ Init
  /\ metrics = [k \in Keys |-> [total |-> 0, failed |-> 0]]
  /\ alert = [c \in Calls |-> Evaluated]
  /\ lastAlertAt = [k \in {"slow", "rate"} \X Keys |-> Never]
  /\ sent = {} /\ due = {} /\ now = 0

AuditLog(c, op, success) == Push([call |-> c, op |-> op, success |-> success])

-----------------------------------------------------------------------------
(* Alerts.                                                                   *)

\* Faulty variants: the key leaves out the connection; the time of the alert is
\* not remembered.
KeyWithoutConnection(kind, k) == <<kind, <<k[1], NoConnection>>>>
MarkNothing(key) == UNCHANGED lastAlertAt

DedupeKey(kind, k) == <<kind, k>>
MarkSent(key) == lastAlertAt' = [lastAlertAt EXCEPT ![key] = now]

ShouldSend(key) == lastAlertAt[key] = Never \/ now - lastAlertAt[key] >= Cooldown

\* Post the alert about a call; its evaluation waits for the webhook.
Send(c, k, kind, metric) ==
  /\ MarkSent(DedupeKey(kind, k))
  /\ sent' = sent \cup {[call |-> c, kind |-> kind, key |-> k, at |-> now]}
  /\ alert' = [alert EXCEPT ![c] = [stage |-> kind, total |-> metric.total,
                                    failed |-> metric.failed, since |-> now]]

\* Math.round of the percentage of failed calls.
FailureRate(metric) == (200 * metric.failed + metric.total) \div (2 * metric.total)

\* The second half of publishToolObservationAlerts, with the counts the call left.
CheckRate(c, k, failed, metric) ==
  LET over == failed /\ metric.total >= MinCalls /\ FailureRate(metric) >= Threshold
  IN  /\ due' = IF over THEN due \cup {[call |-> c, key |-> k, at |-> now]} ELSE due
      /\ IF over /\ ShouldSend(DedupeKey("rate", k)) THEN Send(c, k, "rate", metric)
         ELSE alert' = [alert EXCEPT ![c] = Evaluated] /\ UNCHANGED <<lastAlertAt, sent>>

\* recordToolCall, and the first half of publishToolObservationAlerts.
RecordToolCall(c, k, failed, since) ==
  LET metric == [total |-> metrics[k].total + 1,
                 failed |-> metrics[k].failed + (IF failed THEN 1 ELSE 0)]
  IN  /\ metrics' = [metrics EXCEPT ![k] = metric]
      /\ IF SlowTime > 0 /\ now - since >= SlowTime /\ ShouldSend(DedupeKey("slow", k))
         THEN Send(c, k, "slow", metric) /\ UNCHANGED due
         ELSE CheckRate(c, k, failed, metric)

\* The webhook answered, refused or timed out.
DispatchEnds(c) ==
  /\ alert[c].stage \in {"slow", "rate"}
  /\ IF alert[c].stage = "slow"
     THEN CheckRate(c, KeyOf(c), call[c].answer = "error", alert[c])
     ELSE alert' = [alert EXCEPT ![c] = Evaluated] /\ UNCHANGED <<lastAlertAt, sent, due>>
  /\ UNCHANGED <<pc, call, unsettled, effects, vars, metrics, now>>

-----------------------------------------------------------------------------
(* Calls.                                                                    *)

\* The connectionId of the decision.  A tool that names one connection lists two
\* fields for it; a call that gives the first goes on to the second, which it never
\* gives, and is taken to mean the default connection.
ConnectionIdOf(o) ==
  CASE o.names = "one" -> Default [] o.names = "two" -> o.conn [] o.names = "none" -> NoConnection

Answer(c, answer) ==
  /\ pc' = [pc EXCEPT ![c] = "answered"]
  /\ call' = [call EXCEPT ![c].answer = answer, ![c].started = 0]
  /\ RecordToolCall(c, KeyOf(c), answer = "error", call[c].started)

Arrive(c, o, id, answer) ==
  /\ pc[c] = "idle" /\ now <= MaxTime
  /\ call' = [call EXCEPT ![c] = [op |-> o, connectionId |-> id, started |-> now, answer |-> answer]]
  /\ pc' = [pc EXCEPT ![c] = IF answer = "none" THEN "running" ELSE "answered"]

\* Resolving the connection throws before anything is audited, and the call is
\* counted without a connection.
UnknownConnection(c, o) ==
  /\ o.names # "none"
  /\ Arrive(c, o, NoConnection, "error")
  /\ RecordToolCall(c, <<o.tool, NoConnection>>, TRUE, now)
  /\ UNCHANGED <<unsettled, effects, vars, now>>

\* Faulty variant: a refused call returns before it is counted.
DenyUncounted(c, o) ==
  /\ Arrive(c, o, ConnectionIdOf(o), "error")
  /\ AuditLog(c, "authorization", "false")
  /\ UNCHANGED <<unsettled, effects, alertVars, now>>

Deny(c, o) ==
  /\ Arrive(c, o, ConnectionIdOf(o), "error")
  /\ AuditLog(c, "authorization", "false")
  /\ RecordToolCall(c, <<o.tool, ConnectionIdOf(o)>>, TRUE, now)
  /\ UNCHANGED <<unsettled, effects, now>>

Allow(c, o) ==
  /\ Arrive(c, o, ConnectionIdOf(o), "none")
  /\ AuditLog(c, "authorization", "true")
  /\ UNCHANGED <<unsettled, effects, alertVars, now>>

\* A guard of the tool or the driver answers an error; no driver audits that.
Refuse(c) ==
  /\ pc[c] = "running"
  /\ Answer(c, "error")
  /\ UNCHANGED <<unsettled, effects, vars, now>>

\* The rows of an earlier query are answered; no driver is asked.
CacheHit(c) ==
  /\ pc[c] = "running" /\ call[c].op.tool \in CachedTools
  /\ Answer(c, "ok")
  /\ UNCHANGED <<unsettled, effects, vars, now>>

Executed(c) ==
  /\ pc[c] = "running" \/ c \in unsettled
  /\ pc' = [pc EXCEPT ![c] = IF @ = "running" THEN "executed" ELSE @]
  /\ effects' = effects \cup {c}
  /\ unsettled' = unsettled \ {c}
  /\ UNCHANGED <<call, vars, alertVars, now>>

\* Faulty variant: the statement is audited when it is sent.
OutcomeUnknown(c, ok) == TRUE

\* Does the driver know the operation to have succeeded, and is it audited?
Outcome(c, ok) == ok
Audits(c, ok) ==
  call[c].op.audited = "outcome" \/ (ok /\ call[c].op.audited = "success")

AuditOperation(c, ok) ==
  IF ~Audits(c, ok) THEN UNCHANGED vars
  ELSE AuditLog(c, "operation", IF call[c].op.audited = "success" THEN "unset"
                                ELSE IF Outcome(c, ok) THEN "true" ELSE "false")

Succeed(c) ==
  /\ pc[c] = "executed"
  /\ AuditOperation(c, TRUE)
  /\ Answer(c, "ok")
  /\ UNCHANGED <<unsettled, effects, now>>

\* The server refuses, the reply is lost, or withTimeout does not wait any longer
\* for an operation that may still happen.
Fail(c) ==
  /\ pc[c] \in {"running", "executed"}
  /\ AuditOperation(c, FALSE)
  /\ Answer(c, "error")
  /\ unsettled' \in {unsettled} \cup (IF pc[c] = "running" THEN {unsettled \cup {c}} ELSE {})
  /\ UNCHANGED <<effects, now>>

\* A webhook call is aborted after AlertTimeout.
Tick ==
  /\ now < MaxTime + AlertTimeout
  /\ \A c \in Calls : alert[c].stage \in {"slow", "rate"} => now - alert[c].since < AlertTimeout
  /\ now' = now + 1
  /\ UNCHANGED <<pc, call, unsettled, effects, vars, alertVars>>

-----------------------------------------------------------------------------
CallsNext ==
  \/ Tick
  \/ \E c \in Calls :
       \/ Refuse(c) \/ CacheHit(c) \/ Executed(c) \/ Succeed(c) \/ Fail(c)
       \/ DispatchEnds(c)
       \/ \E o \in Operations : UnknownConnection(c, o) \/ Deny(c, o) \/ Allow(c, o)

CallsSpec == CallsInit /\ [][CallsNext]_callVars

-----------------------------------------------------------------------------
(* Properties.                                                               *)

EntriesOf(c, op) == {i \in 1..Len(pushed) : pushed[i].call = c /\ pushed[i].op = op}

\* The audit log tells what happened: an operation took effect only after the entry
\* that allowed it, one reported as a success did take effect, and one that took
\* effect and was answered ok has its entry, after its authorization.  An answer from
\* the cache has none, nor have the operations that are never audited.
AuditTells ==
  /\ \A c \in effects : \E i \in EntriesOf(c, "authorization") : pushed[i].success = "true"
  /\ \A c \in Calls : \A i \in EntriesOf(c, "operation") :
       /\ \E j \in EntriesOf(c, "authorization") : j < i
       /\ pushed[i].success = "true" => c \in effects
  /\ \A c \in effects :
       call[c].answer = "ok" /\ call[c].op.audited # "never" => EntriesOf(c, "operation") # {}

\* The metrics of a tool and a connection count every call the authorization took to
\* be on it once, and those answered with an error as failed, denied calls included.
\* A call that names its connection is taken to be on the default one.
MetricsMatch ==
  \A k \in Keys :
    LET answered == {c \in Calls : pc[c] = "answered" /\ KeyOf(c) = k}
    IN  /\ metrics[k].total = Cardinality(answered)
        /\ metrics[k].failed = Cardinality({c \in answered : call[c].answer = "error"})

\* CONFIG.md: alerts of one kind about one tool and connection, as the authorization
\* has it, are at least a cooldown apart, however evaluations that wait for the webhook
\* interleave.
AlertsSpaced ==
  \A a, b \in sent :
    a # b /\ a.kind = b.kind /\ a.key = b.key =>
      a.at - b.at >= Cooldown \/ b.at - a.at >= Cooldown

\* A failure rate over the threshold never goes unreported: when it is evaluated an
\* alert about its tool and connection, as the authorization has it, is posted or was
\* within the cooldown.
StormReported ==
  \A d \in due : \E a \in sent :
    a.kind = "rate" /\ a.key = d.key /\ d.at - a.at \in 0..Cooldown - 1
=============================================================================
