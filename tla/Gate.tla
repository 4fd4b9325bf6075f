-------------------------------- MODULE Gate --------------------------------
(* What stands between a caller and a connection: the policy, the rate       *)
(* limiter, the kind and the readonly flag of the connection, and the        *)
(* masking of what comes back, for the tools of src/tools/sql.ts,            *)
(* src/tools/mongo.ts and src/tools/masking.ts in one server.                *)
(*                                                                           *)
(* A call first passes the policy.  If it is refused nothing changes, so     *)
(* only calls that pass are steps; the conditions of the rule that decided   *)
(* stay with the call.  A read is two steps, because the masking in force is *)
(* looked up after the driver has answered.  Data is whether a call changed  *)
(* it, told by event, which holds what the last step did.                    *)
EXTENDS RateLimiter, Access, Masking, FiniteSets

CONSTANTS
  Engine,         \* engine of each connection
  ReadonlyConns,  \* connections configured readonly
  Intents,        \* by name: options of the authorization, and what each subject may change
                  \* under them, each [policy, bearer, defaultAllows, changes]
  Started,        \* masking modes the server may be started with
  Nothing,        \* a model value
  MaxCalls        \* bound: calls that pass the policy

\* A connection of the name "masking" could not be told from the masking in event.
ASSUME GateAssumption ==
  /\ Keys = Conns /\ "masking" \notin Conns
  /\ ReadonlyConns \subseteq Conns
  /\ Started \subseteq Modes
  /\ Builtin \in Seq(Range(Builtin))
  /\ MaxCalls \in Nat

VARIABLES
  intent,   \* the name of the policy the server was started with
  masking,  \* maskingConfig, of the process
  cached,   \* per connection: the rows kept for one query, or Nothing
  open,     \* per connection: the transaction begun, [by, wrote], where by is history, or Nothing
  asking,   \* per subject: the read it waits for, or Nothing
  event,    \* what the last step did, or Nothing
  left      \* bound: calls left

gateVars == <<vars, intent, masking, cached, open, asking, event, left>>

IsSql(c) == Engine[c] # "mongodb"

-----------------------------------------------------------------------------
(* Policy.                                                                   *)

\* The masking modes under which a policy lets a subject call a tool, for some number
\* of rows asked and some time of day.  To leave out the connection names the default one.
Permits ==
  [i \in DOMAIN Intents |-> [s \in Subjects |-> [t \in Tools |-> [c \in Conns |->
     {mode \in Modes \cup {"none"} : \E rows \in {0, 50, 500}, inWindow \in BOOLEAN :
        LET decision == Authorize(Intents[i], s, t, {c}, rows, inWindow)
        IN  decision.allowed /\ decision.conditions.maskingMode = mode}]]]]

\* Subject s calls tool t on connection c under a rule that forces a masking mode.
Calls(s, t, c, forced) ==
  /\ left > 0 /\ left' = left - 1
  /\ asking[s] = Nothing
  /\ forced \in Permits[intent][s][t][c]
  /\ UNCHANGED intent

-----------------------------------------------------------------------------
(* Reading.                                                                  *)

\* The rows as the driver returns them hold a field of every sort.
Rows == Fields

Shown(rows, config) == {f \in rows : ~Masked(f, config)}

\* Faulty variant: the cache keeps what the first caller was shown.
AsFirstShown(rows, config) == Shown(rows, config)

\* What queryCache.set keeps: the rows before masking.
Stored(rows, config) == rows

Answer(forced, rows) ==
  [kind |-> "answer", forced |-> forced,
   clear |-> Shown(rows, EffectiveMaskingConfig(masking, forced))]

\* A read of which the rows are kept as those of a connection, or of Nothing.
Ask(s, forced, keptFor) ==
  asking' = [asking EXCEPT ![s] = [forced |-> forced, keptFor |-> keptFor]]

\* sql_query: the rate limit, the kind of connection, and without page and limit the
\* cache, where an entry may have expired or been evicted.
Query(s, c, forced, paged) ==
  LET passes == Level(c) >= Token /\ IsSql(c)
      miss == Ask(s, forced, IF paged THEN Nothing ELSE c) /\ event' = Nothing
      hit == /\ ~paged /\ cached[c] # Nothing
             /\ event' = Answer(forced, cached[c])
             /\ UNCHANGED asking
  IN  /\ Calls(s, "sql_query", c, forced)
      /\ Allow(c)
      /\ IF passes THEN hit \/ miss ELSE event' = Nothing /\ UNCHANGED asking
      /\ UNCHANGED <<masking, cached, open>>

\* sql_export_query and sql_sample_table.
ReadLimited(s, t, c, forced) ==
  /\ t \in {"sql_export_query", "sql_sample_table"}
  /\ Calls(s, t, c, forced)
  /\ Allow(c)
  /\ IF Level(c) >= Token /\ IsSql(c) THEN Ask(s, forced, Nothing) ELSE UNCHANGED asking
  /\ event' = Nothing
  /\ UNCHANGED <<masking, cached, open>>

\* mongo_find and mongo_aggregate without an output stage.
ReadDocuments(s, t, c, forced) ==
  /\ t \in {"mongo_find", "mongo_aggregate"}
  /\ Calls(s, t, c, forced) /\ ~IsSql(c)
  /\ Ask(s, forced, Nothing)
  /\ event' = Nothing
  /\ UNCHANGED <<vars, masking, cached, open>>

\* The driver answers: sql_query without page and limit keeps the rows, and all of them mask.
Answers(s) ==
  LET a == asking[s]
      config == EffectiveMaskingConfig(masking, a.forced)
  IN  /\ a # Nothing
      /\ event' = Answer(a.forced, Rows)
      /\ cached' = IF a.keptFor = Nothing THEN cached
                    ELSE [cached EXCEPT ![a.keptFor] = Stored(Rows, config)]
      /\ asking' = [asking EXCEPT ![s] = Nothing]
      /\ UNCHANGED <<vars, intent, masking, open, left>>

\* The driver reports an error or throws.
Fails(s) ==
  /\ asking[s] # Nothing
  /\ asking' = [asking EXCEPT ![s] = Nothing] /\ event' = Nothing
  /\ UNCHANGED <<vars, intent, masking, cached, open, left>>

-----------------------------------------------------------------------------
(* Writing.                                                                  *)

\* A change by a tool, on the account of who called it or, for a commit, of who began.
Change(t, target, by) == [kind |-> "change", tool |-> t, target |-> target, by |-> by]

\* Faulty variant: sql_create_index does not look at the flag.
IndexUnguarded == {"sql_execute", "sql_batch_execute"}

\* The SQL tools that refuse a readonly connection themselves.
RefuseReadonly == {"sql_execute", "sql_batch_execute", "sql_create_index"}

\* The drivers that refuse a readonly connection in execute; the others look at its mode.
DriverRefuses(c) == Engine[c] \in {"sqlite", "duckdb"}

\* CALL, EXEC or a block; for the other engines it is a SELECT, which changes nothing.
ProcedureMayWrite(c) == Engine[c] \in {"mysql", "postgres", "mssql", "oracle"}

SqlMayChange(t, c) ==
  /\ t \in {"sql_execute", "sql_batch_execute", "sql_create_index", "sql_call_procedure"}
  /\ t = "sql_call_procedure" => ProcedureMayWrite(c)
  /\ c \in ReadonlyConns => t \notin RefuseReadonly /\ ~DriverRefuses(c)

\* The MongoDB tools that write go straight to a method of the driver, which refuses a
\* readonly connection; filters that hold $where and the like are left out.
WriteOneDocument ==
  {"mongo_insert_one", "mongo_insert_many", "mongo_update_one", "mongo_delete_one"}
WriteManyDocuments ==
  {"mongo_update_many", "mongo_delete_many", "mongo_find_one_and_update", "mongo_find_one_and_delete"}
AlterCollection == {"mongo_create_index", "mongo_drop_collection", "mongo_rename_collection"}

MongoMayChange(t, c) ==
  t \in UNION {WriteOneDocument, WriteManyDocuments, AlterCollection} /\ c \notin ReadonlyConns

MayChange(t, c) == IF IsSql(c) THEN SqlMayChange(t, c) ELSE MongoMayChange(t, c)

\* The tools that write at once, without asking the rate limiter as sql_execute does.
WriteAtOnce ==
  {"sql_batch_execute", "sql_create_index", "sql_call_procedure"}
    \cup WriteOneDocument \cup WriteManyDocuments \cup AlterCollection

Write(s, t, c, forced) ==
  /\ t \in WriteAtOnce
  /\ Calls(s, t, c, forced) /\ MayChange(t, c)
  /\ event' = Change(t, c, s)
  /\ UNCHANGED <<vars, masking, cached, open, asking>>

Execute(s, c, forced) ==
  /\ Calls(s, "sql_execute", c, forced)
  /\ Allow(c)
  /\ event' = IF Level(c) >= Token /\ MayChange("sql_execute", c)
              THEN Change("sql_execute", c, s) ELSE Nothing
  /\ UNCHANGED <<masking, cached, open, asking>>

\* An aggregation that ends in $out or $merge, which nothing refuses.
AggregateInto(s, c, forced) ==
  /\ Calls(s, "mongo_aggregate", c, forced) /\ ~IsSql(c)
  /\ event' = Change("mongo_aggregate", c, s)
  /\ UNCHANGED <<vars, masking, cached, open, asking>>

\* The four tools of a transaction, of either family.
TxTools(c) ==
  IF IsSql(c) THEN [begin |-> "sql_begin_transaction", execute |-> "sql_execute_in_transaction",
                    commit |-> "sql_commit", rollback |-> "sql_rollback"]
  ELSE [begin |-> "mongo_begin_transaction", execute |-> "mongo_execute_in_transaction",
        commit |-> "mongo_commit", rollback |-> "mongo_rollback"]

\* Of the drivers only those of MongoDB and DuckDB refuse to begin.
RefusesBegin(c) == c \in ReadonlyConns /\ Engine[c] \in {"mongodb", "duckdb"}

Begin(s, c, forced) ==
  /\ Calls(s, TxTools(c).begin, c, forced)
  /\ open[c] = Nothing /\ ~RefusesBegin(c)
  /\ open' = [open EXCEPT ![c] = [by |-> s, wrote |-> FALSE]] /\ event' = Nothing
  /\ UNCHANGED <<vars, masking, cached, asking>>

\* Whoever may call the tool names the transaction; its connection is asked of nobody.
ExecuteInTransaction(s, c, forced) ==
  /\ Calls(s, TxTools(c).execute, c, forced)
  /\ open[c] # Nothing
  /\ open' = [open EXCEPT ![c].wrote = TRUE] /\ event' = Nothing
  /\ UNCHANGED <<vars, masking, cached, asking>>

Commit(s, c, forced) ==
  /\ Calls(s, TxTools(c).commit, c, forced)
  /\ open[c] # Nothing
  /\ event' = IF open[c].wrote THEN Change(TxTools(c).commit, c, open[c].by) ELSE Nothing
  /\ open' = [open EXCEPT ![c] = Nothing]
  /\ UNCHANGED <<vars, masking, cached, asking>>

\* By the tool or by the cleanup interval.
Rollback(c) ==
  /\ open[c] # Nothing
  /\ \/ \E s \in Subjects : \E forced \in Permits[intent][s][TxTools(c).rollback][c] :
          Calls(s, TxTools(c).rollback, c, forced)
     \/ UNCHANGED <<intent, left>>
  /\ open' = [open EXCEPT ![c] = Nothing] /\ event' = Nothing
  /\ UNCHANGED <<vars, masking, cached, asking>>

-----------------------------------------------------------------------------
(* The masking tools.                                                        *)

ChangeMasking(s, t, forced, config) ==
  /\ \E c \in Conns : Calls(s, t, c, forced)
  /\ masking' = config
  /\ event' = Change(t, "masking", s)
  /\ UNCHANGED <<vars, cached, open, asking>>

SetMaskingMode(s, forced, mode) == ChangeMasking(s, "set_masking_mode", forced, SetMode(masking, mode))

ManageMaskingRules(s, forced, r) ==
  \/ CanAdd(masking, r) /\ ChangeMasking(s, "manage_masking_rules", forced, AddRule(masking, r))
  \/ CanRemove(masking, r) /\ ChangeMasking(s, "manage_masking_rules", forced, RemoveRule(masking, r))

-----------------------------------------------------------------------------

GateInit ==
  /\ Init
  /\ intent \in DOMAIN Intents
  /\ masking \in [mode : Started, rules : {Builtin}]
  /\ cached = [c \in Conns |-> Nothing]
  /\ open = [c \in Conns |-> Nothing]
  /\ asking = [s \in Subjects |-> Nothing]
  /\ event = Nothing /\ left = MaxCalls

\* The limiter's clock and its cleanup interval.
Clock ==
  /\ Cleanup \/ (\E d \in Delays : Tick(d))
  /\ event' = Nothing
  /\ UNCHANGED <<intent, masking, cached, open, asking, left>>

CallOf(s, c, forced) ==
  \/ \E paged \in BOOLEAN : Query(s, c, forced, paged)
  \/ \E t \in {"sql_export_query", "sql_sample_table"} : ReadLimited(s, t, c, forced)
  \/ \E t \in {"mongo_find", "mongo_aggregate"} : ReadDocuments(s, t, c, forced)
  \/ \E t \in WriteAtOnce : Write(s, t, c, forced)
  \/ Execute(s, c, forced) \/ AggregateInto(s, c, forced)
  \/ Begin(s, c, forced) \/ ExecuteInTransaction(s, c, forced) \/ Commit(s, c, forced)

MaskingCall(s, forced) ==
  \/ \E mode \in Modes : SetMaskingMode(s, forced, mode)
  \/ \E r \in Custom : ManageMaskingRules(s, forced, r)

GateNext ==
  \/ \E s \in Subjects, c \in Conns, forced \in Modes \cup {"none"} : CallOf(s, c, forced)
  \/ \E s \in Subjects, forced \in Modes \cup {"none"} : MaskingCall(s, forced)
  \/ \E s \in Subjects : Answers(s) \/ Fails(s)
  \/ \E c \in Conns : Rollback(c)
  \/ Clock

GateSpec == GateInit /\ [][GateNext]_gateVars

-----------------------------------------------------------------------------
(* Properties.                                                               *)

IsAnswer == event # Nothing /\ event.kind = "answer"
IsChange == event # Nothing /\ event.kind = "change"

\* An answer shows its caller what asking alone would have shown: neither the rows kept for
\* another caller, nor a change of the masking since they were kept, adds or takes a field.
AnswersAsForOneself ==
  IsAnswer => event.clear = Shown(Rows, EffectiveMaskingConfig(masking, event.forced))

\* The mode a policy demands and the mode of the server do not undo each other: a field
\* that either of them would mask alone stays masked.  The exception is loose beside strict
\* or strict-v2, from whichever side: loose looks at values and the others at names, the
\* mode of higher rank is taken, and a field that only its value gives away is shown.
ModesMaskTogether ==
  IsAnswer =>
    \A mode \in {masking.mode, event.forced} \ {"none"} :
      \/ event.clear \subseteq Shown(Rows, [masking EXCEPT !.mode = mode])
      \/ mode = "loose" /\ {masking.mode, event.forced} \cap {"strict", "strict-v2"} # {}

\* No sequence of calls changes what single calls may not: whoever changes something may
\* change it, and what is committed may be changed by whoever began the transaction.  Those
\* who write and commit in it are asked for the tool only, and may be others; the policy
\* does not know its connection again.  An aggregation that writes its output counts as reading.
NoChangeBeyondIntent ==
  IsChange /\ event.tool # "mongo_aggregate" => event.target \in Intents[intent].changes[event.by]

\* A readonly connection changes only through a procedure or a transaction, of whose
\* statements only the driver could know, or through an aggregation.
ReadonlyHolds ==
  IsChange /\ event.target \in ReadonlyConns =>
    event.tool \in {"sql_call_procedure", "sql_commit", "mongo_aggregate"}

\* Adding a rule never shows a field that was masked before, in any mode.
AddingRuleNeverUnmasks ==
  [][Len(masking'.rules) > Len(masking.rules) =>
       \A mode \in Modes, f \in Fields :
         Masked(f, [masking EXCEPT !.mode = mode]) => Masked(f, [masking' EXCEPT !.mode = mode])]_gateVars
=============================================================================
