# Verification of rust-todo

TLA+ models of the todo API of this repository, the TLC runs which check them
on small instances, and proofs of the invariants which the TLA+ proof system
checks for every size. All paths of the code are relative to the repository.

## The system

The program is a REST API over PostgreSQL (actix-web and Diesel). Every handler
in `src/web_api.rs` is an `async fn` without an `await`: a worker thread of the
server runs it from start to end, blocking while the database works. A handler
opens a connection of its own and calls the functions of `src/core.rs`, each of
which sends one SQL statement or a short sequence of them. Nothing opens a
transaction, so every statement commits by itself under READ COMMITTED. The
server keeps no state between requests; all of it is in four tables. So the
whole concurrency of the program is this: the statements of handlers on
different workers (or of several server processes) interleave in any order, and
what a handler decides upon may have changed when it acts.

| Component | State | Operations | Used by |
|---|---|---|---|
| Database (`schema.rs`, `migrations`, queries in `core.rs`) | users, auth_keys, tasks, task_shares; a sequence per table; the server's clock | SELECT, INSERT, UPDATE, DELETE, upsert | all handlers |
| Accounts and keys (`web_api.rs`) | none between requests | `create_user`, `create_auth_key`, `delete_auth_key`, `get_current_user`, `get_user` | clients |
| Tasks (`web_api.rs`) | " | `get_tasks`, `add_task`, `get_task_by_id`, `update_task_by_id` | clients |
| Shares (`web_api.rs`) | " | `get_task_shares`, `put_share`, `delete_share` | clients |
| Error answers (`ApplicationError`) | none | status, `WWW-Authenticate` challenge | all handlers |
| Extraction (headers, path, query, body) | none | 400, 401, 404, 405 before a handler runs | actix-web |
| Server (`lib.rs`, `main.rs`), health | worker threads | accept, run, answer; `GET /health` | clients, deployment |
| Migrations, container | schema version | up, down, start | deployment |

What makes each of them correct:

- Database: unique names, shares and primary keys; keys, tasks and shares refer
  to rows which exist; keys are never drawn twice.
- Accounts and keys: a key works from its creation to its revocation or its
  expiration and for one account; a refusal does not tell an unknown name from
  a wrong password; a name has one account.
- Tasks: only a caller who may read a task sees it, in the list as well as by
  id; only one who may write it changes it; a PATCH changes the fields it names.
- Shares: only the owner of a task sees and changes its shares; a PUT is one
  assignment, and tells truthfully whether it created the share.
- Error answers: a task's existence does not show; the challenge fits the
  refusal; no password hash is ever shown.
- Extraction: a request gets to the handler its method and path name, with
  fields of the right types, or is told what to fix about it; a `Location` leads
  back to what was made.
- Server: a crash loses no confirmed write; requests end; the health probe
  depends on nothing but its worker.
- Clients: what may be repeated can be repeated; what may not tells afterwards
  what happened.
- Migrations, container: the server only runs on the schema it was built for.

What is hard to test in this code is listed under `hazards` in `PROJECT.json`,
each at its line.

## Modules

| Module | What it is | Code |
|---|---|---|
| `Store` | the database: rows as records, tables as sets of rows, one operator per query, one action per write | `schema.rs`, migrations, the statements of `core.rs` |
| `HttpErrors` | an `ApplicationError` as a status and a challenge | `web_api.rs` 27-287 |
| `Api` | the handlers as threads: `pc[w]` is the statement worker `w` sends next | `web_api.rs` 577-1298, `core.rs` |
| `ApiAudit` | `Api` with two history variables, and what the API promises | properties |
| `ShareAssign` | what PUT and DELETE on one share promise: one assignment each | doc of `ShareWrite`, `add_share_for_task` |
| `ShareUpsert` | how PostgreSQL runs the two statements on one row, with versions and locks | `core.rs` 787-917 |
| `Routing` | from a request on the wire to the arguments of a handler: the routing table, the extractors in their order, 401, 404, 405 and 400 before a handler runs; pure operators | `lib.rs` 9-59, `web_api.rs` 181-560, `domain_types.rs` |
| `Gateway` | `Api` behind `Routing`: requests on the wire go in, replies with their headers come out | `web_api.rs`, `lib.rs` |
| `Retries` | `Api` with clients which send a request again | clients, from what the handlers do |
| `Server` | worker threads, connections of clients and to the database, row locks, the health probe, crash and restart | `lib.rs` 65-72, `core.rs` 438-453, `web_api.rs` 815-824 |
| `Migrations` | every `up.sql` and `down.sql`, containers which migrate and then serve, rolling back | `migrations`, `Dockerfile`, `run_from_container.sh`, `schema.rs` |
| `ApiTheorems`, `AuditTheorems`, `ShareUpsertTheorems`, `ServerTheorems`, `RoutingTheorems`, `GatewayTheorems`, `RetriesTheorems`, `MigrationsTheorems` | the proofs; those about `Store` are the first part of `ApiTheorems` | |
| `MCAccounts`, `MCSharing`, `MCShareUpsert`, `MCGateway`, `MCRetries`, `MCServer`, `MCMigrations` | instances for TLC | |

`Api` extends `Store` and `HttpErrors`; `ApiAudit` extends `Api`; `ShareUpsert`
is refined to `ShareAssign`, and justifies that `Api` takes the upsert and the
deletion of a share for one atomic step each. `Gateway` extends `Api` and
`Routing` and is shown to implement `Api` (`ImplementsApi`): what gets through
the extractors is what `Api` assumes of its requests. `Retries` extends `Api`.
`Server` stands beside `Api`: it has every handler's waiting and none of its
decisions. `Migrations` ends where the other modules begin, with the schema
which `Store` takes for granted.

### How the state and the actions correspond to the code

- `users`, `auth_keys`, `tasks` and `task_shares` are the tables, `sequence` the
  serial columns (a drawn id is never given back, also when the INSERT fails),
  `now` the database's clock, `minted` the UUIDs drawn so far.
- `request[w]` is the request worker `w` serves, with what the extractors left
  of it; `caller[w]` is the `User` that `auth_key_to_user` returned, `target[w]`
  the one `get_user_by_name` returned, `answer[w]` the response.
- One action is one statement and the code which runs on its result, up to the
  next statement or the answer: `Receive` covers all a handler does before its
  first statement (`Username::new`, `TaskTitle::new`, `from_stored_text`, "at
  least one field"), `Authenticate` is `auth_key_to_user`, `LoadTask` and
  `LoadShare` are the two statements of `get_task_permission`, `ReadTask` is the
  second read in `get_task_by_id`, `CheckOwner` is `require_task_owner`, and
  so on. The order of the statements is the code's.
- `Fail` stands for a connection which cannot be opened and for a statement
  which fails without effect; `AnswerWrite` also answers 500 after a statement
  that was committed when the connection failed before its result arrived.
- `Crash` ends every handler under way; the database keeps what was committed.
- A response is its status, its challenge and the set of representations in its
  body. `Gateway` adds the media type, `Allow` and `Location`. Request ids and
  messages are left out.
- A password's hash reveals only whether a cleartext verifies. A UUID which is
  drawn is new and not one a client made up: collisions of 122 random bits are
  excluded. `OtherKeys` are the texts clients make up.
- Usernames longer than 255 characters are of two kinds (PostgreSQL's varchar):
  if the excess is blanks the name is cut, otherwise the INSERT fails.
  `Varchar255` says which name becomes what.

`ShareUpsert` goes one level down. A row is a list of versions with the
transaction which wrote each (`xmin`) and the one which ended it (`xmax`). The
PUT draws an id, looks for a conflict, inserts or locks and updates, and starts
again when the conflict has gone; the DELETE finds a version in its snapshot,
waits for the lock, and follows the row to a newer version. A transaction
commits or aborts at any point. This is PostgreSQL's documented behaviour as
the comment on `add_share_for_task` relies on it, and is marked external where
no line of this repository says it.

`Routing` and `Gateway`. A text is a sequence of pieces with a colon between
them, since the Basic scheme splits there; a path is the sequence of its
decoded segments; a body is a function from field names to values. `resources`
is the table of `build_app!`, and a path belongs to the first resource it
matches. `Extractors` lists the arguments of each handler: the first which
refuses decides the answer, and `Extracted` is what the handler is called with.
`Numeral` says which texts spell which number and `MaxI32` where an i32 ends.
`AsSegments` says how a username is read when it is put into a URI as it is
(`share_uri` does not encode it), and `Unprintable` holds the names no header
value can carry. `wire[w]` is the request worker `w` has read and `reply[w]` what
it sends; between them `Dispatch` starts a handler of `Api`, and `Respond` turns
its answer into a reply. What actix-web itself does (the empty 404, the plain
404 of a bad id, the 500 of a header which cannot be built) is external.

`Server`. `stage[c]` is how far client `c`'s request is, `worker[c]` the worker its
connection was given to, `thread[w]` the client whose handler worker `w` runs,
`conn[c]` the handler's database connection and `busy[b]` what PostgreSQL's
process for it does. A handler which waits does not give up its thread. `Crash`
ends the process and leaves the backends, which notice when their statement has
ended.

`Retries`. `patience[c]` is how often client `c` may send its request, `attempts[c]`
and `flying[c]` count what it has sent and what no worker has read; `Tell` brings the answer or loses it; a 500 is no answer. The
clients are not part of the repository, the handlers they meet are.

`Migrations`. The schema is a set of columns and constraints, `Fails` says why
PostgreSQL refuses a statement, `Execute` what one which it accepts does, and a
migration is all of its statements (`Completes`) or none together with its record
in `applied`. A version, which is a date in the code, is the migration's place in
the order of the dates. `pending[k]` holds the versions container `k` found to be
run when it started; it takes the least one first (`IsNext`). Of the rows only what can make a migration fail is kept:
duplicate names, texts of more than 80 characters, missing values.

## Runs

| Run | Instance | What it shows |
|---|---|---|
| `accounts` | 2 workers, empty database, 4 names (one padded over 255, one too long), 2 ids per table, 2 keys and one made up, keys live one tick, clock to 2 | registrations race, keys expire and are revoked: the schema holds, every grant and refusal is justified, a confirmed account or key works, a revoked key never comes back |
| `sharing` | 2 workers, 2 users with a task each, 20 requests, among them PATCHes of two fields of one task, at most 2 draws of a share id | permissions change under readers and writers: the answer was right at a moment of the request, an edit was permitted at one and undoes no other, a task's existence stays hidden, only owners touch shares |
| `share_upsert` | 3 PUTs and 1 DELETE at once on one share which is there (with "read") or not | the statements implement `ShareAssign`, creation is told once, every statement ends |
| `revocation` | `sharing` with a PATCH and a revocation of the same key only | counterexample: the PATCH is written after the revocation was answered |
| `gateway` | 1 worker, 4 users at most, among them `alice` with the password `p:q`, `alice:p` with `q`, and `al:ice` once it is registered; about 430 requests: 7 methods at 24 paths, 18 headers at 13 endpoints, numbers around `MaxI32 = 4`, queries and bodies which lack or mistype something | challenges advise rightly, paths name their row, `/users/me` is the caller, accounts can log in, a `Location` leads back, and `Gateway` implements `Api` |
| `retries` | 2 workers; PUT of one share up to 3 times with DELETE of another and a PATCH up to twice, or a task and a revocation up to 3 times each, or one name registered by two clients up to 3 times each | no attempt is refused because an earlier one succeeded; what was confirmed stays although late copies are handled; no task without an attempt; a name is whose 201 says so; what a 409 means |
| `server` | 2 workers, 2 database connections, 3 clients of which 1 is a probe, 1 row | every request ends if the database goes on; none is refused a connection which the server wastes; the probe depends on its worker's thread only |
| `migrations` | 2 containers, all migrations | the schema is what the record says, servers run on the declared schema, a container fails only for a reason, and only long texts keep a migration from being taken back |
| `image` | `migrations` with those the image carries | counterexample: a server without the tables of tasks |
| `colon_username` | `gateway` | counterexample: `al:ice` registers, and its own username and password are answered 401 |
| `share_location` | `gateway` with two accounts whose names hold a percent sign and a control character | counterexample: a share which is created without a `Location` that names it |
| `long_username` | `accounts` | counterexample: an unusable name is a 500 |

The bounds. A handler relies on at most what one other request can change
between two of its statements, so two workers show every pair of handlers
interleaved; since every write is one statement and a worker may serve several
requests between two statements of the other, they also show two writers under one
reader. Workers take any number of requests one after another, so the sequences are as long as
the tables' `MaxId` lets them be; a request which writes no row is not bounded.
`MaxId` is a bound on draws and is at the same time the code's own bound, the
end of an int4 column: an INSERT beyond it can only fail. In `accounts` two ids
allow two accounts, or one and a failed registration; two keys allow a
revocation and a new login. `Lifetime = 1` and `MaxTime = 2` let a key be minted
at 0 or 1 and expire before, between and after the statements of a request.
`MaxTime = 0` in `sharing`: expiration is covered by `accounts`; and no new task is
made there, which `retries` does.
In `gateway` the clock may tick once; which key a header presents decides there,
not when it expires.
One worker is enough in `gateway`: routing and extraction read nothing which
another worker writes, and what handlers do to each other is the subject of the
other runs. Its paths and headers are chosen so that each extractor of each
handler refuses alone and together with others. In `server` three clients are one
more than workers and than connections, so that a client waits for each, and
with two clients on one worker a third is behind it. A migration runs once per
container and there are nine, so `migrations` has no bound. In `retries` a client
which has given up on one copy and was told of another still has a third under
way; the clients which are there together are those whose requests could meet.
Workers are interchangeable in `Api`, and the safety runs use that symmetry; the
run with a liveness property does not.

The properties, all in `ApiAudit` unless noted:

- `TypeOK`, `Integrity`, `HandlersKnowledgeHolds` (`Api`): types; the schema's
  constraints; what an earlier statement read still holds where it is used.
- `GrantsJustified`, `RefusalsJustified`: each success and each 401, 403, 404
  and 409 states something that was true while the request was under way.
- `TaskExistenceHidden`: whoever cannot read a task gets an answer which a task
  that does not exist gets.
- `ReadsAreSnapshots`: the list, a task and a task's shares are exact at one
  moment. `Level` restates the README's permission rule apart from the two
  places the code has it, so that the run compares three versions of it.
- `ConfirmedWritesHold`: what a 201 or a 204 confirmed is so when the answer is
  sent.
- `EditsAuthorizedAndNarrow`, `OnlyOwnersShare`, `NothingIsTakenAway`: what no
  step may do.
- `OneShareCreatedOnce`, `ImplementsAssign`, `EveryWriteEnds` (`ShareUpsert`).
- `ChallengesAdvise`, `PathsNameTheirRow`, `MeIsTheCaller`, `AccountsCanLogIn`,
  `LocationNamesWhatWasMade`, `ImplementsApi` (`Gateway`): what a client may read
  from a status, a challenge and a `Location`, and what a handler may rely on.
  Two of them name the moment they are about, so that they are true of any number
  of workers. `MeIsTheCaller` stays true of a reply until it is sent: a key which
  was refused does not work later either, and one which was revoked meanwhile was
  the account's all the same. `AccountsCanLogIn` is about the step which settles
  the answer (an extractor's refusal or the handler's statement): if an account
  whose name has no colon is there at this step and the header holds its name and
  password, the key which is created is this account's, or the database failed;
  and no other header makes a key. A moment later another worker may register the
  name, and a refusal made before would not contradict that. What becomes of
  accounts whose names have a colon is under Disagreements.
- `RetriesAreNotRefused`, `LateCopiesChangeNothing`, `NoTaskWithoutAnAttempt`,
  `RegistrationsAreSettled` (`Retries`). The first two are about clients nobody
  else interferes with (`Undisturbed`): with another writer of the same share
  there is nothing to promise, since the last one wins, and a late copy of a PUT
  brings back a share which its own client removes with a later request. A
  request which would be refused the first time is refused again, hence
  `Entitled` in the first. The third counts a client's tasks by their title, so
  `OwnTitle` says that nobody else gives a task this title. In the fourth, a
  registration is under the name the column makes of it (`StoredName`), and that a
  409 about the client's own account takes two attempts needs `Alone`: two clients
  who register one name with one password cannot tell whose account it is. Every
  client of the run satisfies the condition of each property about it. The clock
  stands still in `Retries`: a key which expires between two attempts is
  `accounts`' subject.
- `RefusedBecauseOfLeftOvers`, `EveryRequestEnds`, `HealthWaitsForItsWorkerOnly`
  (`Server`). The first holds as long as PostgreSQL allows as many connections as
  there are workers, which the instance has.
- `SchemaIsOnRecord`, `ServedSchemaIsDeclared`, `ExitsForAReason`,
  `OnlyLongTextsKeepFromReverting` (`Migrations`). What the first `i` migrations
  make of an empty database is written down a second time, as the versions in
  which each table, column and constraint exists (`Built`), and so is what
  `schema.rs` declares; the runs and the proofs compare both with the scripts.

`facts[w]` collects what is true before each step from the moment `w` has a
request, and about the caller from the moment it is known. "Justified at some
moment" is what a handler without transactions can promise: a share withdrawn
after the check and before the read does not spoil the read (README.md:188 of
the repository says when access is lost, and the handler in flight is the
exception), while an answer no moment supports would be a fault.

### Fairness

In `ShareUpsert`, `FairSpec` is weak fairness of every
statement's steps: PostgreSQL runs every backend and wakes one which waits once
the transaction it waits for has ended. Nothing obliges a transaction to abort.
`EveryWriteEnds` holds with one DELETE at most: in general a PUT starts again
each time another request removes the conflicting row, and only finitely many
requests are under way at a time.

In `Server`, `FairSpec` takes of the runtime that it resumes a handler which can
go on and delivers its answer (weak fairness), and takes up a client's request
if its worker is free again and again (strong fairness: the worker's ready tasks
are queued). Nothing obliges a client to send or the process to crash, and of
the database nothing is assumed. `EveryRequestEnds` therefore names what it
takes: that PostgreSQL grants a row's lock in the order of the requests for it
(strong fairness of `Grant`), that statements and leftover backends end, and
that nobody else keeps a lock for ever. Without the last it does not hold, since
no statement of the server has a timeout. `HealthWaitsForItsWorkerOnly` takes the
runtime's fairness alone.

### Disagreements

- `revocation`: "it stops working immediately" (README.md:288-289) and "at once"
  (README.md:300). A handler looks the key up once; a write which follows in
  another statement happens although the revocation was answered in between.
- `long_username`: "`400` if the username is unusable" (README.md:228-229).
  `Username::new` refuses blank names only; a name the column refuses comes back
  as an error of the database and is answered 500.
- `image`: "Manually specify each migration" (Dockerfile:26). The five which are
  specified are not the nine there are, so the tables of tasks and shares, which
  `schema.rs` declares, are missing where the container serves.
- `share_location`: "`201 Created`, with a `Location` ... naming the share's own
  URI" (README.md:179-180). The name is put into the URI as it is: a control
  character makes a 500 of the answer to a share which was created, and `%62ob`
  is read as `bob`.
- `colon_username`: the credentials are "the ones belonging to the account"
  (README.md:268-269). `Username::new` lets a name have a colon, and the header is
  split at the first one, so the credentials of `al:ice` are taken for those of
  `al` and refused, and those of `alice:p` make a key of `alice` if they read
  like hers. `AccountsCanLogIn`, which holds with these accounts present, says who
  gets a key instead.

Others were met while modelling and are kept out of the passing runs rather than
given one of their own:

- "Diesel migrations in this repo are reversible"
  (tickets/013-etag-and-conditional-requests.md:99). Every account has a hash of
  97 characters, which `down.sql` of 2025-07-12 wants in 80: the exception in
  `OnlyLongTextsKeepFromReverting`.
- "for as long as the server is running" (README.md:313, of `GET /health`). The
  probe waits behind a handler which waits for a lock: the condition in
  `HealthWaitsForItsWorkerOnly`.
- "All responses (aside from `/health`)" have a request id (README.md:24). A 204
  has no body, and the 404s of actix-web are not the application's: they are the
  replies with no `json` in `Routing`.

## Proofs

Eight modules hold the theorems. They hold for every value of the constants: any
number of workers, writers, clients, connections and containers, any requests, any
texts on the wire, any initial database which satisfies the schema, and any bounds. Each follows the same plan:
an inductive invariant, one lemma per action which shows that the action keeps
it, and the theorem by `PTL`.

| theorem | statement |
|---|---|
| `ApiTheorems.TypeCorrect` | `Spec => []TypeOK` |
| `ApiTheorems.IntegrityHolds` | `Spec => []Integrity` |
| `ApiTheorems.KnowledgeHolds` | `Spec => []HandlersKnowledgeHolds` |
| `AuditTheorems.GrantsAreRight` | `AuditSpec => []GrantsJustified` |
| `AuditTheorems.RefusalsAreRight` | `AuditSpec => []RefusalsJustified` |
| `AuditTheorems.TasksAreHidden` | `AuditSpec => []TaskExistenceHidden` |
| `AuditTheorems.ReadsAreExact` | `AuditSpec => []ReadsAreSnapshots` |
| `AuditTheorems.ConfirmedWritesAreKept` | `AuditSpec => []ConfirmedWritesHold` |
| `AuditTheorems.NothingTaken` | `AuditSpec => NothingIsTakenAway` |
| `AuditTheorems.EditsAreRight` | `AuditSpec => EditsAuthorizedAndNarrow` |
| `AuditTheorems.SharesBelongToOwners` | `AuditSpec => OnlyOwnersShare` |
| `ShareUpsertTheorems.ShareUpsertTypes` | `Spec => []TypeOK` |
| `ShareUpsertTheorems.OneShareAtATime` | `Spec => []OneShareCreatedOnce` |
| `ShareUpsertTheorems.StatementsAssign` | `Spec => ImplementsAssign` |
| `ServerTheorems.ServerTypes` | `Spec => []TypeOK` |
| `ServerTheorems.RefusedBecauseOfOthersOnly` | `Spec => []RefusedBecauseOfLeftOvers` |
| `ServerTheorems.ProbesAreNeverRefused` | no client which sends a health probe is refused |
| `GatewayTheorems.GatewayInvariant` | `GatewaySpec => []GInv` |
| `GatewayTheorems.RepliesAreTyped` | `GatewaySpec => []GatewayTypeOK` |
| `GatewayTheorems.ChallengesAreRight` | `GatewaySpec => []ChallengesAdvise` |
| `GatewayTheorems.RowsAreNamed` | `GatewaySpec => []PathsNameTheirRow` |
| `GatewayTheorems.GatewayImplementsApi` | `GatewaySpec => ImplementsApi` |
| `GatewayTheorems.CallersAreTold` | `GatewaySpec => []MeIsTheCaller` |
| `GatewayTheorems.LocationsLeadBack` | `GatewaySpec => []LocationNamesWhatWasMade`, if `PlainUsernames` |
| `GatewayTheorems.AccountsLogIn` | `GatewaySpec => AccountsCanLogIn` |
| `RetriesTheorems.RetryInvariant` | `RetrySpec => []RInv` |
| `RetriesTheorems.LateCopiesAreHarmless` | `RetrySpec => []LateCopiesChangeNothing` |
| `RetriesTheorems.RepeatedAttemptsAreWelcome` | `RetrySpec => []RetriesAreNotRefused` |
| `RetriesTheorems.NamesAreSettled` | `RetrySpec => []RegistrationsAreSettled` |
| `RetriesTheorems.TasksAreAttempted` | `RetrySpec => []NoTaskWithoutAnAttempt` |
| `MigrationsTheorems.DownUndoesUp` | each `up.sql` makes version `i` out of version `i - 1`, each `down.sql` takes it back, and when either fails |
| `MigrationsTheorems.SchemaStaysOnRecord` | `Spec => []SchemaIsOnRecord` |
| `MigrationsTheorems.ServersFindTheirSchema` | `Spec => []ServedSchemaIsDeclared`, if `Carried = Everything` |
| `MigrationsTheorems.LatestCanBeReverted` | `Spec => []OnlyLongTextsKeepFromReverting` |
| `MigrationsTheorems.ExitsAreExplained` | `Spec => ExitsForAReason` |

**The database and the handlers** (`ApiTheorems`). `Safety` is
the invariance of `IInv`, the conjunction of `TypeOK`, `Integrity` and
`HandlersKnowledgeHolds`. None of the three is inductive alone. `Integrity` needs
that the task, the owner and the target of a share are there when it is inserted,
and they were read by earlier statements: that is `HandlersKnowledgeHolds`. This
in turn holds only because no statement of another worker takes an account or a
task away or gives a task to somebody else; and both need the types.
The first part proves of each write that it keeps the database well formed,
under the conditions the caller has to bring (a new id, a name nobody has, rows
that exist), and that it is `Lasting`: it removes no account and no task and
changes no owner. The second shows that the handlers bring those conditions,
and uses one of the lemmas `WorkerStep`, `AnswerStep`, `ContinueStep` and
`WriteStep`, which say once what a step of one worker means for the others: what
they know lasts.

**What a request saw** (`AuditTheorems`). The history variables of `ApiAudit`
collect the facts which were true of a request since it arrived. `AInv` is `IInv`
and, of each worker, `Account`: by the time its handler is at a statement it has
seen what the statements before it decided on (`Progress`: at `update_task` the
caller was the owner or had read_write, at `upsert_share` the owner and the name
were seen, ...); its answer is `Justified` by what was seen; and a confirmed
write holds (`WritesHold`). The step of the worker itself is one lemma per
statement, `...Account`, each from the lemma which says which fact the state
makes true at that moment. For the others (`WaitingAccount`), facts only
grow, and what the property says of a confirmed write is `Durable`: a key stays
revoked because keys are drawn once, and accounts, tasks and their owners stay. The three action properties follow from `AInv` at the two statements which
change the tables they speak of.

**One share** (`ShareUpsertTheorems`). `UInv` describes the row versions as
PostgreSQL leaves them. `Chain`: a version is ended only after it counted; two
versions which may yet count are one and its replacement by a transaction under
way; whatever is before a version which counted is dead. `Phase` and `Knowledge`
say what a statement has done and found: in particular, as long as the share has
not been absent since a DELETE started, the updates lead from the version it saw
to the one which counts, so a DELETE which finds nothing more to follow may say
Removed. `Ids`: nobody else's version has the id a writer drew until its creation
is committed. `Absences` says who was under way while the share was not there. `Removals` gives
`OneShareCreatedOnce` its second half: a row which has counted counts still or was
removed by a DELETE which told so, and since one row counts at most, one of two
which were created was removed. `Extends` says once what a
write does to the versions (ends the live one, appends at most one), and
`ChainExtended`, `OthersKnowledge`, `IdsExtended` and `RemovalsExtended` what
follows. In the refinement a statement's steps are stutters until its transaction
ends: an abort is `GiveUp`, and a commit is `Create`, `Replace`, `Remove` or
`FindGone`, by what the statement has done (`Knowledge`) and with the effect it
claims, since the version it ended was the one which counted and the one it put
in its place is the only one after (`Chain`).

**Connections** (`ServerTheorems`). `SInv`: a request which is under way is on
exactly one thread (`Holdings`), exactly the handlers past
`establish_connection` have a connection and no two the same, a backend which
talks to a handler is not free (`Engaged`), and a probe never takes a connection
(`ProbesStayOut`). A refusal means that no backend is free. The others' threads
which hold connections are fewer than all the threads, because the refused one
holds none; by counting them there is a backend no handler talks to, and that one
is left over from a request which is gone.

**From the wire to a reply** (`RoutingTheorems`, `GatewayTheorems`). The first
module proves what the pure operators give: which resource claims a path
(`Claimed`), which extractor refuses first (`Refused`), and for each handler the
record it is called with (`Arguments_...`). `Passed` concludes that what gets
through is one of the requests the handlers take and is about the key, the number
and the name on the wire (`Extracts`). `HInv` adds to `IInv` that the answer of a
handler fits its request (`Fits`: the challenge, the rows, the one row of a 201),
with a lemma `...Fits` per statement. `GInv` is `HInv` and, of each worker: it
handles what was extracted from the request on the wire (`TakesUp`), and its reply
is right about this request (`RepliesTo`). A refusal is right when it is made
(`UnroutedIsRight`, `RefusalIsRight`), an answer because it fits
(`OutgoingIsRight`). It stays right while others write, because a task stays and a
key which was drawn or made up and does not work never works again
(`DeadKeysStayDead`): the latter is why `OnTheWire` is part of the invariant. The
refinement is `GatewayStepIsStep`: `Dispatch` is a `Receive` by `Passed`,
`Respond` a `Deliver`, and the rest are stutters or the handlers' own steps.

Three more theorems take up what a client does with a reply. `ActingInv` says of a
handler which writes a share that its target has the name in the path, and so has
the share its 201 shows; and of one for `/users/me` that what it tells of the key
is true (`Tells`). This lasts (`TellsStill`), since a user keeps the account and no
other row ever holds the key, and `CallersAreTold` follows. For `LocationsLeadBack` the first module proves where a path ends up: the
patterns which match it, the one of them registered first (`RoutedTo`), and that
the number or the name a handler would read from a `Location` is the one it was
built from (`TaskLocation`, `UserLocation`, `AuthKeyLocation`, `ShareLocation`). Its hypothesis
`PlainUsernames` is that a name which is put into a URI can be a header's value
and is read back as it is, without which `share_location` shows the opposite.
`AccountsLogIn` splits the step which settles an answer. An extractor refuses
nothing in a header which holds the name and password of an account, and if the
name has no colon the two are what the handler is called with, since the first
colon of the text is the one after the name (`HalvesOfText`, `AccountPresented`);
of the handler's statements only the two which look for the account and insert the
key settle anything, the first of them only if there is no such account
(`LoginDecided`). The other way round, a handler which inserts a key has found the
account whose name and password it was called with (`AtKeyInv`), and these, joined
by a colon, are what the header holds (`AccountHeld`, `KeysGoToAccounts`); by
unique names it is the only one without a colon the header holds
(`OneAccountHeld`).

**Clients which retry** (`RetriesTheorems`). `RInv` is `IInv` and, of each worker,
that it serves a client's request and has what its next statement relies on
(`Ready`: the account it found has the name it was given, the task is there); and
of each client at something idempotent which nobody disturbs: if it was told that
this is done, or an answer under way says so, then it is done. "Done" is `Effect`,
which reads the tables directly; `AchievedIsEffect` connects it with what a read
would show. An answer under way must be part of it, since the client may hear it
after other copies were handled. That it is kept has two halves: a write of the
client's own request brings its effect about and so does not undo it
(`...Achieves`), and a write of another client's, being undisturbed, is of another
row (`UndisturbedByOthers`, `OthersKeepEffects`). A key which is gone stays gone
because keys are drawn once, which takes that the key a client sends is not one
still to be drawn (`Sendable`). `AInv` adds for an entitled client that its key,
its account, its task and its target stay, and that each handler on its request
has been granted every step so far. `GInv` keeps what answers say of a name true
and counts copies: one which is at `insert_user` was sent, two are two, and if the
client's account exists there is one more, which made it; two is as far as
"more than once" needs. `TInv` is a balance: a client's tasks, the workers which
handle its request and the copies nobody has read are together at most its
attempts, so an insertion moves one from the second count to the first; the tasks
of others stay out of it because the only tasks others change were there before
(`NewTasks`).

**The schema** (`MigrationsTheorems`). One lemma for each kind of statement says
when it succeeds and what it does to a schema, whatever else is in it
(`TableIsCreated`, `TableIsDropped`, `BothAreRetyped`, ...). With the tables of each version
and the tables these refer to (`TheTables`) they give one lemma for each
directory of `migrations`, and `DownUndoesUp` puts these together. The invariant
`MigrationsInv` adds to `SchemaIsOnRecord` what a container knows (`Pending`): once it is
up, its list contains all it carries that is not on record, and is empty if it
serves. This is what makes a race harmless: if the first on the list is not on
record it is the very next one (`NextInLine`), so the schema is the one its `up.sql`
was written for; otherwise the migration fails on the record's key. It stays
true because nobody rolls back while a container is up. `ExitsAreExplained` and
`ServersFindTheirSchema` follow from the same two facts, the latter by comparing the last
version with `schema.rs` table by table (`LastVersion`).

The assumptions are the named `ASSUME`s of the modules: `None` and `Blank` are no
texts, no clients and no users; `Varchar255` yields a name or `TooLong`; bounds
are numbers; the initial database satisfies the schema; requests are of the ten
kinds; a client asks about a row or about none; the writers are finitely many,
none of them is `Nobody` or `Setup`, and each writes one of the two permissions
or deletes. `Gateway` assumes that serial columns are i32 and that the texts on
the wire are among those the handlers are asked about (`WireAssumption`); what is
missing, mistyped, out of range or in the wrong place is not excluded. A number is
read back from its digits, and neither `me` nor nothing is a number
(`DigitsAssumption`); a username and a password have at least one piece each (`TextAssumption`). An
image carries the earliest migrations, without a gap (`CarriedAssumption`). TLC
evaluates them in every run on these modules.
Three theorems have a hypothesis besides, and each has a run which satisfies it.
`RefusedBecauseOfOthersOnly` has `EnoughBackends`: finitely many threads and no
fewer connections, the configuration it is about. `LocationsLeadBack`
and `ServersFindTheirSchema` have `PlainUsernames` and `Carried = Everything`, which the code does not see to: what happens without them
is under Disagreements.

Model-checked only: every liveness property (`EveryRequestEnds`, `EveryWriteEnds`,
the second half of `HealthWaitsForItsWorkerOnly`), since the prover has no
`ENABLED`, hence no fairness. Every safety property of a passing run is proved.

## Not modelled

- In paths: numbers with a sign, and percent-encoding as such (segments are
  decoded already). In bodies: duplicate fields, and arrays in place of objects.
- The command line, the environment and `DATABASE_URL`; without it every
  connection fails, which is `Fail`.
- Zeroizing of secrets, logging, response bodies as text.
- In `Api`, a statement which PostgreSQL finishes after the server has died: at a
  crash it either has had its effect or has none. `Server` has the backends which
  are left over, and in `Retries` a late copy of a request has the same effect.
- The variant `Unauthorized` of `ApplicationError`, of which `HttpErrors` has the
  answer, is constructed nowhere, and since no statement deletes a task the 404
  of the second read in `get_task_by_id` is never given.
- More than 2^31 - 1 rows: `HasIds` and `Fail` stand for the end of a sequence.

## Plan

Done, in this order: `Store`, `HttpErrors`, `Api`, `ApiAudit` with the runs on
accounts and sharing; `ShareAssign` and `ShareUpsert`; the proofs of the
inductive invariant; `Routing` and `Gateway`; `Server`; `Retries`; `Migrations`;
the proofs of `ApiAudit`, `ShareUpsert`, `Server`, `Gateway`, `Retries` and
`Migrations`.

An abstract specification in which every request takes effect in one step is
not among the modules: the checked writes do not do so (`revocation` shows it),
and for the others `GrantsJustified` and `ReadsAreSnapshots` say as much.

Nothing is left of what was planned. Whoever changes the code would first change
the operator or the action `PROJECT.json` maps to it, then run TLC, which finds
most mistakes within a minute, and only then the proofs.
