------------------------------- MODULE Access -------------------------------
(* Who may call which tool: src/core/tool-action-map.ts, src/auth/rbac.ts    *)
(* and the decision of src/auth/authorization.ts.                            *)
(*                                                                           *)
(* A resource is <<"tool", name>> or <<"connection", id>>, where the id "*"  *)
(* stands for all connections at once.  A pattern of a rule or a binding is  *)
(* the set of what it matches, so "*" and "connection:pg*" need no text.     *)
EXTENDS Naturals, Sequences, SequencesExt

CONSTANTS
  Conns,     \* connection ids
  Default,   \* the default connection of the registry
  Subjects,  \* who calls, each [name, transport]
  NoPolicy   \* a model value: the server was given no policy

-----------------------------------------------------------------------------
(* The table of tools.                                                       *)

Actions == {"read", "write", "admin", "diagnose", "export", "replay"}

SqlReadTools ==
  {"sql_query", "sql_sample_table", "sql_list_tables", "sql_describe_table", "sql_list_views",
   "sql_describe_view", "sql_generate_types", "sql_list_indexes", "sql_explain"}
MongoReadTools ==
  {"mongo_find", "mongo_aggregate", "mongo_count", "mongo_list_collections",
   "mongo_list_indexes", "mongo_schema_analysis"}
RedisReadTools ==
  {"redis_get", "redis_hget", "redis_hgetall", "redis_lrange", "redis_llen", "redis_smembers",
   "redis_scard", "redis_sismember", "redis_zrange", "redis_zcard", "redis_zscore",
   "redis_type", "redis_ttl", "redis_scan"}
OtherReadTools == {"query_optimize", "query_suggest", "schema_diff"}

SqlTxTools   == {"sql_execute_in_transaction", "sql_commit", "sql_rollback"}
MongoTxTools == {"mongo_execute_in_transaction", "mongo_commit", "mongo_rollback"}

SqlWriteTools == {"sql_execute", "sql_batch_execute", "sql_begin_transaction", "sql_call_procedure"}
MongoWriteTools ==
  {"mongo_insert_one", "mongo_insert_many", "mongo_update_one", "mongo_update_many",
   "mongo_delete_one", "mongo_delete_many", "mongo_find_one_and_update",
   "mongo_find_one_and_delete", "mongo_begin_transaction"}
RedisWriteTools ==
  {"redis_set", "redis_del", "redis_hset", "redis_hdel", "redis_lpush", "redis_rpush",
   "redis_lpop", "redis_rpop", "redis_sadd", "redis_srem", "redis_zadd", "redis_zrem",
   "redis_expire", "redis_pipeline"}

AdminTools ==
  {"sql_create_index", "mongo_create_index", "mongo_drop_collection",
   "mongo_rename_collection", "set_masking_mode", "manage_masking_rules"}
DiagnoseTools ==
  {"alert_test", "auth_policy_template", "auth_policy_validate", "auth_whoami",
   "connection_diagnose", "connection_stats", "get_masking_config", "health_check",
   "list_connections", "prometheus_metrics", "redis_blocked_commands", "server_info",
   "sql_cache_stats", "test_connection", "validate_connection_config"}
ExportTools ==
  {"audit_filter", "audit_get_recent", "audit_stats", "export_audit", "schema_export",
   "sql_export_query"}
ReplayTools == {"query_diff", "query_history", "query_replay"}

ReadTools  == SqlReadTools \cup MongoReadTools \cup RedisReadTools \cup OtherReadTools
WriteTools == SqlTxTools \cup MongoTxTools \cup SqlWriteTools \cup MongoWriteTools \cup RedisWriteTools

Tools == ReadTools \cup WriteTools \cup AdminTools \cup DiagnoseTools \cup ExportTools \cup ReplayTools

\* Faulty variant: creating an index counts as reading.
IndexingReads(tool) ==
  CASE tool \in ReadTools \cup {"mongo_create_index"} -> "read"
    [] tool \in WriteTools -> "write"
    [] tool \in DiagnoseTools -> "diagnose"
    [] OTHER -> "admin"

\* A tool that is not in the table needs the action admin.
ActionOf(tool) ==
  CASE tool \in ReadTools     -> "read"
    [] tool \in WriteTools    -> "write"
    [] tool \in DiagnoseTools -> "diagnose"
    [] tool \in ExportTools   -> "export"
    [] tool \in ReplayTools   -> "replay"
    [] OTHER                  -> "admin"

\* Tools that work on all connections, and those whose input names none: what is done
\* inside a transaction is asked of the policy without its connection.
AllConnections == {"connection_stats", "health_check"}
NoConnection ==
  UNION {SqlTxTools, MongoTxTools, {"query_diff", "set_masking_mode", "manage_masking_rules"},
         ExportTools \ {"schema_export", "sql_export_query"},
         DiagnoseTools \ {"connection_diagnose", "test_connection"}}

\* Tools whose input calls the connection connectionId; the others call it connection_id.
CallItConnectionId == {"query_optimize", "query_suggest", "query_history", "query_replay"}

\* The connections that a call is decided by, where named are those its input names.  The
\* loop looks for connection_id and then for connectionId, and at the first that is not
\* given it takes the default connection and ends: a call that names a connection is
\* decided by the default one as well, and by that alone if it calls it connectionId.
DecidedBy(tool, named) ==
  CASE tool = "schema_diff"          -> named
    [] tool \in CallItConnectionId   -> {Default}
    [] tool \in NoConnection         -> {}
    [] OTHER                         -> named \cup {Default}

\* resolveConnectionResources
ResourcesOf(tool, named) ==
  {<<"tool", tool>>} \cup
    IF tool \in AllConnections THEN {<<"connection", "*">>}
    ELSE {<<"connection", c>> : c \in DecidedBy(tool, named)}

-----------------------------------------------------------------------------
(* Policies.                                                                 *)

AllTools == {<<"tool", t>> : t \in Tools}
EveryConnection == {<<"connection", c>> : c \in Conns \cup {"*"}}

\* What a condition that is not given would be.
NoLimit == 100000
Unconditional ==
  [maxRows |-> NoLimit, maskingMode |-> "none", transport |-> {"stdio", "http"}, window |-> FALSE]

Rule(resources, actions, effect, conditions) ==
  [resources |-> resources, actions |-> actions, effect |-> effect, conditions |-> conditions]

Template(role, subjects, actions, conditions) ==
  [roles |-> [r \in {role} |->
                <<Rule(AllTools \cup EveryConnection, actions, "allow", conditions)>>],
   bindings |-> <<[subjects |-> subjects, roles |-> <<role>>]>>]

HttpOnly(rows) ==
  [Unconditional EXCEPT !.maxRows = rows, !.maskingMode = "strict-v2", !.transport = {"http"}]

ReadonlyHttp ==
  Template("readonly_analyst", Subjects, {"read", "diagnose", "export", "replay"}, HttpOnly(1000))

DiagnosticReadonly ==
  Template("diagnostic_reader", Subjects, {"diagnose", "read"}, HttpOnly(100))

LocalAdmin ==
  Template("local_admin", {s \in Subjects : s.name = "local:stdio"}, Actions,
           [Unconditional EXCEPT !.transport = {"stdio"}])

ASSUME AccessAssumption ==
  /\ Default \in Conns
  /\ NoPolicy \notin {ReadonlyHttp, DiagnosticReadonly, LocalAdmin}

-----------------------------------------------------------------------------
(* The decision.  A request is [subject, action, resources, rows, inWindow], *)
(* where rows is what the input asks for, or 0 if it asks for nothing, and   *)
(* inWindow tells whether the clock is inside the time window of a rule.     *)

\* Where the loops look for a subject: at its bindings, the roles of each and their rules.
\* A role that is bound twice is looked at once, at its first place, which decides the same.
Places(policy, subject) ==
  LET given(b) == policy.bindings[b].roles
      rules(b) == UNION {{r} \X DOMAIN policy.roles[given(b)[r]] : r \in DOMAIN given(b)}
  IN  UNION {{b} \X rules(b) : b \in {n \in DOMAIN policy.bindings :
                                       subject \in policy.bindings[n].subjects}}

RuleAt(policy, place) == policy.roles[policy.bindings[place[1]].roles[place[2][1]]][place[2][2]]

\* The order of the loops.
Before(p, q) ==
  \/ p[1] < q[1]
  \/ p[1] = q[1] /\ p[2][1] < q[2][1]
  \/ p[1] = q[1] /\ p[2][1] = q[2][1] /\ p[2][2] <= q[2][2]

Matches(rule, request) ==
  request.action \in rule.actions /\ rule.resources \cap request.resources # {}

ConditionsAllow(conditions, request) ==
  /\ request.subject.transport \in conditions.transport
  /\ request.rows <= conditions.maxRows
  /\ conditions.window => request.inWindow

\* Role by role and rule by rule, the first rule that matches decides; a condition of it
\* that does not hold denies, and what comes after it is not looked at.
AuthorizeWithPolicy(policy, request, defaultAllows) ==
  LET matching == {p \in Places(policy, request.subject) : Matches(RuleAt(policy, p), request)}
  IN  IF matching = {} THEN [allowed |-> defaultAllows, conditions |-> Unconditional]
      ELSE LET rule == RuleAt(policy, CHOOSE p \in matching : \A q \in matching : Before(p, q))
           IN  [allowed    |-> rule.effect = "allow" /\ ConditionsAllow(rule.conditions, request),
                conditions |-> rule.conditions]

\* authorize, under options [policy, bearer, defaultAllows]: without a policy the mode of
\* authentication decides, and where no rule matches the default effect does.
Authorize(options, subject, tool, named, rows, inWindow) ==
  IF options.policy = NoPolicy THEN [allowed |-> ~options.bearer, conditions |-> Unconditional]
  ELSE AuthorizeWithPolicy(options.policy,
         [subject |-> subject, action |-> ActionOf(tool), resources |-> ResourcesOf(tool, named),
          rows |-> rows, inWindow |-> inWindow], options.defaultAllows)
=============================================================================
