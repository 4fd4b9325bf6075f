# Formal models of polyglot-db-mcp-server

The server gives an MCP client about a hundred tools on MySQL, PostgreSQL, SQL
Server, Oracle, SQLite, DuckDB, MongoDB and Redis.  It is one Node.js process: a
handler runs without interruption from one `await` to the next, and what can go
wrong goes wrong between them, in the pools and databases it waits for, in timers,
and when the process is told to stop.  The modules here model that behaviour, TLC
checks it on small instances, and TLAPS proves for all instances the safety properties
that they are found to have, with the exceptions each property states.

## 1. The system

| Component | Source | State | Operations | What is hard | What makes it correct |
|---|---|---|---|---|---|
| Interactive transactions and batches | `tools/sql.ts`, `drivers/sql/{mysql,postgres}-driver.ts` | `activeTransactions`, the pool, the server's sessions | begin, execute, commit, rollback, batch, cleanup interval | two callers ending one handle, refused statements, timeouts, deadlocks, waiting for the pool | leases are exclusive, connections come back clean, a batch is atomic, answers are true, who holds a connection gives it back |
| SQLite transactions | `tools/sql.ts`, `drivers/sql/sqlite-driver.ts` | one database handle, a `finalised` flag per transaction | the same, and `sql_execute` beside them | everybody shares the handle | one owner at a time, the handle leaves every transaction |
| Query path | `tools/sql.ts`, `core/query-cache.ts`, `drivers/sql/timeout.ts`, `executeWithRetry` | cache, attempts in flight | `sql_query`, `sql_execute` | late answers, lost connections, slow reads that store over newer ones | writes happen as told, staleness is bounded, every call is answered |
| Rate limiter | `core/rate-limiter.ts` | buckets | `allow`, `cleanup` | lazy refill against forgetting | no stretch of time allows too many calls |
| Rings | `core/audit.ts`, `core/query-replay.ts` | array, head, count | push, slice, `getById` | wrap-around | exactly the newest records |
| Lifecycle | `index.ts`, `bootstrap.ts` | registry, transport, exit | start, SIGHUP, SIGINT, SIGTERM, timer | procedures interleave at awaits, closes hang or fail | accepted calls keep their connections, a clean exit of one procedure closed everything, every signal has its end |
| MongoDB transactions | `tools/mongo.ts`, `drivers/mongo/mongo-driver.ts` | `activeMongoTransactions`, the library's session | begin, execute, commit, rollback, cleanup interval | the library decides when it sends, replies are lost, the server ends transactions | nothing outside the transaction, committed is true, sessions end |
| Around every call | `auth/authorization.ts`, `core/observability.ts`, `core/alerts.ts`, `core/audit.ts` | audit ring, metrics, alert times | decide, audit, count, alert | calls overlap, operations outlive their timeout, the webhook is slow | the log tells what happened, the metrics count it where the authorization has it, alerts keep their distance, none is missed |
| HTTP transport | `transports/http.ts` | `sessions`, the listening server | POST, close | requests in flight make sessions and call tools while close goes through those it knows | what close can know of is closed, accepted calls keep their connections |
| Policy | `core/tool-action-map.ts`, `auth/rbac.ts`, `auth/authorization.ts` | none | decide | overlapping rules, tools that name no connection, the default connection in every decision | nobody changes what the author of the policy did not mean to be changed |
| Masking | `core/data-masking.ts`, `tools/{masking,result-masking}.ts` | `maskingConfig` | mask, set mode, add and remove rules | two orders of strictness, rows cached for another caller | everybody is shown what asking alone would show; two modes mask together |
| Redis | `drivers/redis/redis-driver.ts`, `tools/redis.ts`, `core/redis-guards.ts` | the ioredis client | one command each, pipeline | requests sent again after a reconnect, pipelines that break in the middle, three lists of guards | no guard lets a write through, answers tell what the server did, every call is answered |
| Registry | `core/registry.ts`, `bootstrap.ts` | handles by id | look up, make, close | replaced by a reload | (inside the models of lifecycle and policy) |
| DuckDB, SQL Server, Oracle | `drivers/sql/` | one connection; pools | the transaction handle | as above, with other libraries | not modelled, see section 6 |
| JWT, stdio, guards on SQL text, advisor, schema, reports, telemetry, CLI | `auth/`, `core/`, `tools/` | flags, text | verifying, rewriting, rendering | little | not modelled, see section 6 |

How they interact.  `index.ts` makes the registry (`bootstrap.ts`), then a
transport.  The HTTP transport makes one MCP server per session, with tools, a
limiter and a cache of its own.  A request reaches `installAuthorization`, which decides, audits
and counts it around the tool's handler.  The SQL tools ask the limiter, then the
cache, then a driver, and mask what comes back; the transaction tools look the
handle up in a table that the cleanup interval also edits.  Drivers audit into the
ring.  Counting a call may start an alert that nobody waits for.  A signal closes
the transport, every session it knows, and then every connection, whoever is using it.

`PROJECT.json` lists every component with its status and, under `hazards`, what
in this code is hard to test, at the line where it bites.

## 2. Modules

| Module | Models | Composition |
|---|---|---|
| `AtomicStore` | the promise of explicit transactions: a handle's statements become permanent in one step, or never | abstract; implemented by the next two |
| `PooledTransactions` (`MCPooledTransactions`, `PooledTransactionsProofs`) | the transaction tools, the MySQL and PostgreSQL handles, the pool and the server | `Promise == INSTANCE AtomicStore` |
| `SqliteTransactions` (`SqliteTransactionsProofs`) | the same tools on the shared SQLite handle | `Promise == INSTANCE AtomicStore` |
| `QueryPath` (`QueryPathProofs`) | cache, retry and timeout of one connection | |
| `TokenBucket` | a bucket that always fills and forgets nothing | abstract |
| `RateLimiter` (proofs in `GateProofs`) | `allow` and `cleanup` | `Bucket == INSTANCE TokenBucket` |
| `Access` | the table of tools, the policy templates and the decision, as operators | |
| `Masking` | which fields of a row a configuration masks, as operators | |
| `Gate` (`MCGate`, `GateProofs`) | what lies between a caller and a connection: decision, limiter, readonly flags, cache, masking | extends the three above |
| `HttpTransport` | requests, sessions and the steps of `close` | |
| `Lifecycle` (`LifecycleProofs`) | start, reload and shutdown of the process | extends `HttpTransport`, whose close its shutdowns run |
| `MongoTransactions` (`MongoTransactionsProofs`) | the MongoDB transaction tools, the library's session, the server | |
| `RingLog` (proofs in `ToolCallsProofs`) | both ring buffers | |
| `ToolCalls` (`MCToolCalls`, `ToolCallsProofs`) | decision, audit, metrics and alerts around every call | extends `RingLog`, into which it logs |
| `RedisCommands` | the tools, guards and commands, as operators on a key's value | |
| `RedisConnection` (`MCRedisConnection`, `RedisConnectionProofs`) | calls on a client that queues and sends again, and the server | extends `RedisCommands` |

An action is what a handler does from one await to the next. In `PooledTransactions` a
call in flight is the command it waits for in its connection's queue; the action that
answers the command runs the handler's continuation (`Conclude`, `AfterStatement`). In
`SqliteTransactions` the database answers at once, and the awaits that remain are those
between a driver call and the removal of the table entry (`ending`). In
`MongoTransactions` a request is "called" until the library sends it, then where the
server and the reply are (`req`, `ending`). In `Lifecycle` each of `main`, the SIGHUP
handler and the two shutdowns has a program counter, and a request of `HttpTransport`
has a stage. In `Gate` a call that is not a read is one step: nothing it looks at
changes between its awaits but the data; a read is two, since the masking is looked up
when the rows are there. In `RedisConnection` a call has the results of its commands,
and each command not yet answered an entry of `queue`; the history variable `once` holds
the keys as they were had each command run its first time only. The comments at the
variables name the code's variables; `map` in `PROJECT.json` names the lines of each
definition. Operators announced as "faulty variant" are not part of the model: each is a
plausible bug with which a property must fail.

What the models take from the libraries and servers, which are not in this
repository:

- mysql2's pool pushes a released connection on its free list without looking,
  pg-pool throws when a client is released that is already free; both serve
  waiters in order.  mysql2's `end` does not wait for connections in use, pg-pool's
  does, and pg-pool rejects a second `end` at once.
- a connection answers its commands in order; PostgreSQL aborts a transaction at
  the first error and answers its COMMIT by rolling back; MySQL undoes the
  statement, or the transaction on a deadlock; BEGIN inside a transaction commits
  it on MySQL.
- better-sqlite3 is synchronous and commits a statement by itself outside a
  transaction.
- the mongodb library's session is `starting`, then `in_progress` with the first
  operation sent; `commitTransaction` makes it `committed` whatever the reply,
  `abortTransaction` hides the server's errors, and an operation sent after either
  has no transaction.
- `AbortController` ends a webhook call at its timeout.
- ioredis keeps requests in the order they were made and sends those without a reply
  again after a reconnect, except the rest of a pipeline of which a reply has come; it
  fails what waits when `maxRetriesPerRequest` attempts to connect have failed, and
  when it is closed.
- the MCP SDK's transport runs a tool whose session was closed meanwhile and drops
  its answer; node's `server.close` calls back when every socket is closed.

## 3. What is checked

| Run | Instance | Shows |
|---|---|---|
| `pool_mysql` | one connection, two interactive handles, a batch of two, every fault | no lease is shared and no connection comes back with a transaction in it; what is pending belongs to the holder; no connection is lost but by a refused BEGIN; answers are true (a batch is all or nothing, committed is durable, rolled back is undone), and only a handle's own COMMIT makes its writes durable: for handles that are ended once; and, for handles ended twice too, whoever has a connection gives it back, or the interval finds it |
| `pool_postgres` | two connections, a handle, two batches, refused BEGINs, statements and COMMITs, timeouts, callers the pool gives up on | the same machine with aborted transactions and the double-release check keeps the promise of `AtomicStore` |
| `sqlite` | one handle, two transactions, a batch of two, a plain write, refused statements, no refused COMMIT | one owner, true answers about handles whose ends do not overlap, never stuck, and a refinement of `AtomicStore`, overlapping commits and rollbacks included |
| `gate` | a writable MySQL connection, a readonly one that is the default, and a MongoDB one, two subjects, three calls that pass the policy, nine options: no policy (with and without bearer tokens), the three templates, a team's policy of three roles, a rule for one connection, a rule for the default connection, and prohibitions under the default effect allow; a server started with loose or strict masking | answers show what asking alone would show, two modes mask together except loose beside a strict one, no history of calls changes what single calls of the caller may not, the readonly flag holds but for what the run's property names, adding a rule unmasks nothing; under these calls the limiter keeps `RateBound` and refines `TokenBucket` |
| `query_path` | two readers calling for ever, a write, two keys and a paged query, a cache of one, two attempts | writes are as told, staleness is at most a time-to-live and a query timeout, every call is answered |
| `lifecycle` | two connections, one a strict pool, two HTTP requests, the three signals, every fault | accepted calls keep their connections until a reload goes ahead, close leaves no session open that it could know of, a clean exit closed everything unless two procedures were closing at once, a failed reload keeps the old connections and closes the new ones if all could be made, every handled signal has its end |
| `mongo` | one transaction, three operations, refusals, lost replies, a server that ends it | until a commit fails nothing takes effect but by one; committed is true, and rolled_back unless another call was ending the transaction too; no session is forgotten but after a failed commit |
| `tool_calls` | three calls of a SQL query that may be answered from the cache, without an entry, and of a MongoDB operation audited when it succeeds; unknown connections; a ring of four, a webhook that takes as long as it may | the ring tells the newest entries, the audit log tells what happened of what is audited, the metrics count every call where the authorization has it, alerts are a cooldown apart and no storm is missed |
| `redis` | a writable or a readonly connection with a prefix, two calls of three commands, a loss, every command alone and pipelines of two | guards hold, also for what is sent again; answers tell what the server did; sending again shows only in commands that are not repeatable; every call is answered |
| `pg_commit_lies` | a refused statement | **violated**: after it `sql_commit` answers committed and nothing is durable |
| `batch_partial` | three batches on one connection, a refused COMMIT | **violated**: the second release of the first batch makes another's release throw after its COMMIT |
| `mongo_autocommit` | a refused operation | **violated**: after the failed commit the next operation runs outside the transaction |

Why the bounds suffice.  Leases are disturbed by the handle before, the handle
after and one that overlaps: three handles on one connection; two connections
are needed to tell a connection from the pool.  A handle is used once, so the
number of handles bounds `txCounter`; one or two statements per handle
distinguish first, later and none.  MongoDB transactions share nothing but the
table, so one is enough, with three operations for one before, one overlapping and one
after its end.  A cache of one and two keys evict on every store.  In `ToolCalls`
two calls overlap and the third meets what they left; the audit ring holds
what two of them write, so that entries are both kept and dropped; the operations
are on connections other than the default one, and audited in two of the three ways: an
answer from the cache is what an operation that is never audited would be.  The
clocks of `QueryPath` are ages that stop where more time makes no difference, so
nothing but the one write bounds that model and its liveness is checked on real cycles.
In `Gate` three calls are begin, write and commit by different subjects, or a
query, a change of the masking and the query again; its clock moves by 900 ms, which
leaves a remainder of a token, or by 2 s, past `IdleTtl`, which is a second
there.  Its policies are those the server ships, one in which a role forbids what
another allows and demands a mode of masking, and the smallest ones that name one
connection: the default, another, and one that is forbidden while the default effect
allows.  What each caller may change under them is written down in `MCIntents`, by hand.  In `HttpTransport` the second request comes while the
first one's session is used, closed or forgotten.  A Redis connection is lost
once, at every point of two calls; a second loss repeats the first one's choices.

Deadlock is not checked: every bounded model stops when its clients have made
their calls, and the process of `Lifecycle` exits.  That nothing is stuck is stated by
the liveness properties instead, and for the pools by `ConnectionsReturn`.

Symmetry is declared for interchangeable handles (`pool_mysql` and the violation
runs of that module) and calls (`tool_calls`), in runs without liveness only.

### Fairness

- Pools: none is assumed and nothing temporal claimed.  `ConnectionsReturn` is what safety
  has of it: behind every connection that is not free an end is on its way, or an entry
  from which the interval (`sql.ts:40`) makes one, unless a refused BEGIN leaked it.
  That the server answers and the pool lends on is theirs.  On
  PostgreSQL a waiting caller need not be served at all: pg-pool gives up on it
  after a minute (`connectionTimeoutMillis`, `postgres-driver.ts:24`), the interval
  on an abandoned transaction after five or six.
- SQLite: the event loop resumes begun handlers and batches, and the interval fires.
- Query path: resolved promises run their continuation, timers fire and time goes
  on; the server owes nothing, it may never answer.
- Lifecycle: the procedures go on, pools settle their close once nothing is lent,
  tools give connections back (an assumption a reload depends on, having no timer),
  the shutdown timer fires.  The transport need never drain, and HTTP requests owe nothing.
- Redis: the server runs and answers what reaches it, and the client goes on trying
  to connect (`retryStrategy` of ioredis); that an attempt succeeds is not assumed.
  A server that hangs on a live connection is assumed away: no command timeout is configured.

## 4. What is proved

For every value of the constants that the modules' named assumptions allow (any
sets of handles, connections, calls and requests, any sizes, times and bounds, any
set of faults unless said otherwise):

- `PooledTransactionsProofs`: `TypeCorrect`; `LeaseInvariant` and from it
  `LeasesExclusive`, `HandoutsClean`, `TransactionsIsolated` and
  `ConnectionsConserved`.  The stated properties are not inductive: that a
  connection in the free list is clean follows only if nothing can still be
  written to it.  `LeaseInv` says where every handle and connection is: a waiting
  handle is queued once and has no connection, a free connection has an empty
  queue and a session in autocommit with nothing pending, a held one has exactly one holder,
  all its commands are that holder's and a COMMIT or ROLLBACK is the last of
  them, and what is pending is the holder's.  It holds while no handle was ended
  twice (`Disciplined`), which the tools do not enforce (section 5 says what happens
  then); each action has a lemma (`GrantLease`, `WaitTimesOutLease`, `IssueLease`,
  `BeginOkLease`, `StmtLease`, `EndLease`, `TimeoutLease`...).
  On top of it `AnswerInvariant` gives `AnswersTrue`, `OnlyOwnCommits` and
  `PoolImplementsAtomicStore`.  `AnswerInv` adds what a command outstanding may be
  (`Sensible`), that a batch has one outstanding and that all statements before it
  are pending (`InOrder`), that a transaction whose BEGIN was answered stays open
  until one of its statements fails and holds whatever its client was told
  succeeded (`OpenFor`), and that nothing of a handle is durable before it ends
  unless a deadlock ended its transaction (`ToldOK`).
  `ConnectionsComeBack` is about every behaviour, disciplined or not, so it has an
  invariant of its own, `ReturnInv`: commands only go to the connection their handle
  has, which a second end does not change, a connection is free, held or leaked
  (`Kept`), and of who holds one an end is coming (`Coming`).
- `SqliteTransactionsProofs`, under the assumption that SQLite refuses nothing but
  statements, so neither a COMMIT nor a transaction as a whole (`StatementFaults`):
  `SqliteSoleOwner`, `SqliteAnswersTrue` (for handles whose ends do not overlap) and
  `SqliteImplementsAtomicStore` (for all).  The invariant says who owns the transaction that
  is open: the one handle that is live and not finalised; what is pending is
  that owner's or a plain write, what is durable a finalised handle's or a plain
  write, and what is about to be answered is already true (`Promised`).
- `QueryPathProofs`: `WritesHappenAsTold` and `RowsAreFresh`.  The invariant
  follows a statement through its attempts: how often it was executed against what
  the connection has told of it, and the age of the rows in an attempt, in the
  cache and in an answer against the time they have left.
- `GateProofs`, the limiter: `RateBounded` from `RateInvariant`, and
  `LimiterImplementsTokenBucket`.  `RateBound` speaks of pairs of past calls; the
  inductive part is `Budget`: the calls allowed since the i-th, with what the
  bucket holds now, are within a full bucket plus the refill since.  Cleanup
  drops only buckets that are full again (`CleanupKeepsLevels`), which needs
  `IdleTtl >= 1000`, as its constant in the code is.  The gate takes the limiter's
  steps or none (`GateLimits`), so both hold under its calls: `GateRateBounded`,
  `GateImplementsTokenBucket`.
- `GateProofs`, the gate: for any connections, subjects, policies and lists of rules,
  `AnsweredAsForOneself` and `ReadonlyConnectionsHold` from `GateInvariant`.  `GateInv`
  says that the rows in the cache are the driver's own, not yet masked, that an
  answer masks them for its caller, and that no MongoDB transaction is open on a
  readonly connection.
  `NeitherModeUnmasks` adds `ForcedMasksMore`: the higher rank of two modes masks
  what either masks, except that loose is not below the strict ones in what it masks.  `AddedRulesMaskMore` is about the first
  rule that fits a field (`FirstInAppend`, by the least element of a set of numbers):
  an added rule comes last.
- `GateProofs`, the policies: `TemplatesDecide` says in closed form what each shipped template
  permits or leaves to the default effect, and `ReadersOnlyRead` that under those for
  readers with the default effect deny nothing is ever changed, but by an aggregation.
  `IntentsKept` lifts the options of a server from calls to histories: if each single
  call that they permit a caller, decided as the code does it, with the default connection
  among the resources, stays within what this caller may change (`PermitsOnly`),
  so does every sequence.  That is not immediate, because execute, commit and rollback
  are not asked with their connection: the invariant says that a transaction is open only
  where who began it may change.
- `LifecycleProofs`: `TransportClosesSessions`, `CallsKeepConnections`,
  `SuccessMeansClosed` (for one closing procedure) and `FailedReloadIsHarmless` (for
  reloads that could make every connection).  The invariant says which MCP
  servers the map still names or has been through, and for each procedure what
  must have happened to the connections when it is where it is.
- `MongoTransactionsProofs`: `MongoOnlyCommitPersists`, `MongoAnswersTrue` (its second
  half for transactions that one call is ending) and `MongoSessionsEnd`.  The invariant relates three views of a session: the
  library's, the server's, and what the tools in flight still await.
- `ToolCallsProofs`, the rings: `RingKeepsNewest`, `RingSlices`, `RingFinds` and `RingTells`
  from `RingInvariant`: slot `(head + i) % MaxSize` holds the record i places after
  the oldest one kept.
- `ToolCallsProofs`, the calls: the five properties of the run, `AuditLogTells`, `MetricsCount`,
  `AlertsKeepDistance`, `StormsAreReported` and, by the lemmas about the rings,
  `CallsRingTells`, for any operations and whatever of them is audited.  Metrics and
  alerts are those of the connection the authorization has a call on (`ConnectionIdOf`).
  The invariant says which entries a call at each stage has
  written, that the metrics count the calls that were answered, and that the time
  remembered for an alert is that of the last one sent of its kind and connection.
- `RedisConnectionProofs`: for any keys, calls, pipelines and losses, `RepliesAreTrue` and
  `GuardsAreKept` from `RedisInvariant`, `AnswersStay` (an answer is final), and
  `ResendsStayInvisible`.  The steps are of three kinds, which is all the later proofs
  see of them: requests are queued (`Calling`), the server runs the next (`Running`),
  the oldest are answered and the rest may have to run again (`Dropping`).  `Inv`: a request
  waits once and unanswered, has run if it has a reply, and ran before only if it was
  sent again; a call consists only of what the guards let through.  `OrderInv`: the
  queue is in the order of the calls, what has a reply precedes what has none, what ever
  ran precedes what never did, and what is not in the queue was answered and is
  older than all that is.  `ResendInv` is the heart of the last theorem: of the commands on a key,
  consider the one that was the last to change it had each run once.  No later
  command changes what it left, it leaves the same on whatever value it finds
  (`RepeatableIsConstant`), and either it waits to run again or the key
  already holds what it left.  Where it met a value of another type, its caller
  will be told an error, or it will run again.

Assumptions are those named in the modules (`PoolAssumption`, `SqliteAssumption`,
`QueryAssumption`, `LimiterAssumption`, `AccessAssumption`, `GateAssumption`,
`LifecycleAssumption`, `HttpAssumption`, `MongoAssumption`, `RingAssumption`,
`ToolCallsAssumption`, `OwnAssumption`, `RedisBounds`), which TLC evaluates in the runs.
The constants that bound a model (`MaxCalls`, `MaxLosses`, `MaxPushes` and the like)
are any numbers in the theorems.

Only model-checked: liveness under fairness (`NeverWedged`, `EveryCallAnswered`, `HandlersFinish`, `CallsAnswered`), which needs `ENABLED` and is
out of the prover's reach.  Every invariant, action property and refinement of a
passing run is a theorem.  The runs that end in a violation are
counterexamples and have nothing to prove.

## 5. Where the code and its documents disagree

Shown by a run (`findings` in `PROJECT.json`): `pg_commit_lies`, `batch_partial`,
`mongo_autocommit`.  Also met while modelling, without a run of their own:

Transactions and queries

- A pooled handle ended by a client while the interval is ending it releases its
  connection twice on MySQL (`sql.ts:853`, the entry is deleted after the await).  Two
  callers may then be lent the connection, and the BEGIN of one commits what the other is
  told it rolled back, against `docs/API.md:294`.  The properties of the pool are stated
  for handles ended once, but for `ConnectionsReturn`.
- SQLite: after a refused COMMIT the handle is finalised, so a second `sql_commit`
  answers committed and nothing is durable, against `docs/API.md:282`; the run `sqlite`
  leaves refused COMMITs out.
- SQLite: with `"commit"` among the faults (`CommitThrows`) a batch answers failure and
  stays open on the shared handle, and so does a transaction whose `sql_rollback` finds
  it finalised: `NeverWedged` fails too.  With `"abort"`, later statements of an
  interactive transaction commit by themselves.  A `sql_commit` and a `sql_rollback` in
  flight together both answer success.
- Cleanup counts a transaction's age from its begin, `PRD-001:129` speaks of idleness.
- Cache: a `set` on a present key leaves it at its old place in the eviction
  order, although `query-cache.ts:2` calls the cache LRU.
- The limiter and the cache belong to an HTTP session, so the limit of a connection
  does not hold over the sessions of one client; the limiter's interval outlives its session.

Policy, masking and readonly

- `docs/CONFIG.md:357` says a policy cannot weaken the server's masking.
  A server that masks loosely looks at values; a policy's
  `strict` or `strict-v2` looks at names first, and shows a field that only its value gives
  away.  The same holds the other way round: a policy that demands loose of a server in
  `strict` or `strict-v2` gets the server's mode, and such fields are shown.
  `ModesMaskTogether` exempts both and claims the rest.
- Tools that name one connection list two fields for it, and a call that gives the first
  is decided by the default connection as well (`DecidedBy`, `authorization.ts:71`); the
  advisor and replay tools, whose field is the second, by the default one alone.  So a
  rule about the default connection, allow or deny, decides calls on every other,
  and the call is counted, alerted on and audited as one on the
  default connection (`ConnectionIdOf`).
- `excludeConnections` of the masking configuration is stored and shown but read by no
  masking, and the argument `enabled` of `set_masking_mode` is overwritten by the mode.
- Rows of `sql_execute_in_transaction`, `sql_call_procedure` and
  `mongo_find_one_and_*` are not masked.
- `maxRows` of a policy is compared with the number a call asks for; a call that
  names none passes.
- The transaction tools are authorised without their connection, so a rule about a
  connection does not reach what is done in a transaction that another role began there.
- A readonly connection changes through `sql_call_procedure`, through the transaction
  tools where the driver does not refuse to begin, and through output stages of
  `mongo_aggregate` (which is also a reading tool to the policies), although
  `docs/API.md:79` tells of a refusal on readonly connections; `ReadonlyHolds` names them.
- Who writes in a transaction need not be who began it: nothing ties a transaction id to
  its caller.  `NoChangeBeyondIntent` lays what is committed to the account of who began.

Around calls

- `audit_stats` counts MongoDB and Redis entries as failed (`audit.ts:227`), and
  `audit_filter` by operation or connection never finds drivers' entries, which name
  both differently (`tools/audit.ts:43`); a refusal by `readonly` is not audited
  (`PRD-001:123` says it is).
- Counting and listing in MongoDB, `redis_scan`, rows from the query cache and the
  statements of pooled transactions are never audited, nor are failures of MongoDB and
  Redis; `AuditTells` is about operations that are.
- `sql_query` never enters the query history, so the replay tools find nothing, and
  `recordRequest` is never called.
- An alert's cooldown begins before it is delivered and ignores its severity.

Process

- Two shutdowns at once, or a shutdown beside a reload: the second to close does not wait
  for pools the first one is closing, and exits with success before they are closed
  (`ExitsClosed` exempts it).
- A reload of which one connection cannot be made leaves the others open
  (`Promise.all`, `bootstrap.ts:46`; `FailedReloadHarmless` exempts them).
- `mongo_rollback` answers rolled_back although an overlapping `mongo_commit` took effect.
- After a failed reload the next SIGHUP kills the process (`process.once`,
  `index.ts:102`), although `CHANGELOG.md:312` announces reloads.
- A shutdown closes sessions under the calls they are running: the answers are never
  sent and the tools run on until the connections are closed under them.
- Sessions initialised after `close` cleared the map stay open; DELETE is answered
  405 and `lastSeenAt` is not read, so nothing else ever ends a session.
- The socket timeout `requestTimeoutMs` also bounds how long a tool may take.
- `readyz` answers from the pings made at the start.
- Redis: a push, pop or `expire` that is sent again after a reconnect may run twice
  (`ResendsInvisible` leaves these commands out), and any command may be answered what its
  second run returned (deleted 0 for a key its first run deleted), which no property
  here forbids.

## 6. Not modelled

- DuckDB: its transaction protocol is SQLite's, but on a connection that answers
  asynchronously; the order in which the native binding runs statements, and what
  `interrupt` hits, are not determined by this repository.
- SQL Server and Oracle: how their libraries end a transaction and give back its
  connection after an error is not visible from how the code uses them.
- JWT verification is one call of a library, of which `HttpTransport` has the
  outcome; the stdio transport is a fixed sequence of calls of the SDK, and
  `Lifecycle` without requests is what shutdown does under it.
- SQL text and the regular expressions that guard it, EXPLAIN, schemas, diagnoses,
  generated types, suggestions, audit filters and statistics, the comparison of replayed
  results, metrics in Prometheus form: they compute an answer from what they read and
  keep nothing.
- The command line, which runs before the server exists; telemetry and logging, which
  only write; the parsing of the environment, policies and requests.
- Of what is modelled: rounding of the limiter's floating point and a clock that steps
  back; delivery and severity of alerts; cursors, ranges and values of Redis, and a
  reconnect that breaks before the client is ready; filters, projections and pages of
  queries; fields that the masking configuration excludes, and a `DB_MASKING_MODE` that is
  none of the four modes, which the code does not refuse.
