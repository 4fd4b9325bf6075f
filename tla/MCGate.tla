------------------------------- MODULE MCGate -------------------------------
(* One connection of each way to treat the readonly flag, a person at the    *)
(* HTTP transport and the local one, and the policies of the server.         *)
EXTENDS Gate

CONSTANTS main, replica, docs, phone, badge

MCEngine == (main :> "mysql") @@ (replica :> "mysql") @@ (docs :> "mongodb")
MCReadonly == {replica}

alice == [name |-> "alice", transport |-> "http"]
local == [name |-> "local:stdio", transport |-> "stdio"]
MCSubjects == {alice, local}

MCBuiltin == <<phone>>

\* Three roles.  Operators write on main.  Supporters write, but not on main, and read few rows
\* with loose masking.  Auditors read in their hours, strictly masked.
Team ==
  [roles |->
     [operator |-> <<Rule({<<"connection", main>>}, {"write", "admin"}, "allow", Unconditional)>>,
      support |-> <<Rule({<<"connection", main>>}, {"write", "admin"}, "deny", Unconditional),
                    Rule(AllTools, {"read", "write"}, "allow",
                         [Unconditional EXCEPT !.maxRows = 50, !.maskingMode = "loose"])>>,
      auditor |-> <<Rule(EveryConnection, {"read", "export"}, "allow",
                         [Unconditional EXCEPT !.maskingMode = "strict", !.window = TRUE])>>],
   bindings |-> <<[subjects |-> {local}, roles |-> <<"operator">>],
                  [subjects |-> {alice}, roles |-> <<"support">>],
                  [subjects |-> {local, alice}, roles |-> <<"auditor", "support">>]>>]

\* One rule for alice: she writes on a connection.
WritesOn(c) ==
  [roles |-> [writer |-> <<Rule({<<"connection", c>>}, {"write"}, "allow", Unconditional)>>],
   bindings |-> <<[subjects |-> {alice}, roles |-> <<"writer">>]>>]

\* Alice may not write on main, and nobody reads.
KeepsOffMain ==
  [roles |->
     [guest |-> <<Rule({<<"connection", main>>}, {"write", "admin"}, "deny", Unconditional)>>,
      writer |-> <<Rule(AllTools, {"read", "export"}, "deny", Unconditional)>>],
   bindings |-> <<[subjects |-> {alice}, roles |-> <<"guest">>],
                  [subjects |-> MCSubjects, roles |-> <<"writer">>]>>]

Nobody == [s \in MCSubjects |-> {}]
Everybody == [s \in MCSubjects |-> Conns \cup {"masking"}]

Options(policy, bearer, defaultAllows, changes) ==
  [policy |-> policy, bearer |-> bearer, defaultAllows |-> defaultAllows, changes |-> changes]

\* A rule about the default connection decides calls on all of them, so who writes there
\* writes anywhere.
MCIntents ==
  [open_server   |-> Options(NoPolicy, FALSE, FALSE, Everybody),
   bearer_only   |-> Options(NoPolicy, TRUE, FALSE, Nobody),
   readonly_http |-> Options(ReadonlyHttp, TRUE, FALSE, Nobody),
   diagnostic    |-> Options(DiagnosticReadonly, TRUE, FALSE, Nobody),
   local_admin   |-> Options(LocalAdmin, FALSE, FALSE, [Nobody EXCEPT ![local] = Conns \cup {"masking"}]),
   team          |-> Options(Team, TRUE, FALSE, [s \in MCSubjects |-> IF s = local THEN Conns ELSE Conns \ {main}]),
   on_main       |-> Options(WritesOn(main), TRUE, FALSE, [Nobody EXCEPT ![alice] = {main}]),
   on_default    |-> Options(WritesOn(Default), TRUE, FALSE, [Nobody EXCEPT ![alice] = Conns]),
   off_main      |-> Options(KeepsOffMain, TRUE, TRUE, [Everybody EXCEPT ![alice] = @ \ {main}])]
=============================================================================
