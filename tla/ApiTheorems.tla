----------------------------- MODULE ApiTheorems -----------------------------
(***************************************************************************)
(* The safety of the handlers, for any number of workers, any requests and *)
(* any database the schema admits.  The invariant is inductive as a whole: *)
(* the constraints of the schema need that what a handler has read still   *)
(* holds when it writes, which needs in turn that no statement of another  *)
(* worker takes an account or a task away.                                 *)
(***************************************************************************)
EXTENDS Api, TLAPS

(***************************************************************************)
(* The database.  Every statement which writes keeps it well formed, as    *)
(* long as the caller supplies what the schema cannot check for itself,    *)
(* and none of them takes an account or a task away or gives a task to     *)
(* somebody else.                                                          *)
(***************************************************************************)

WellFormed ==
  /\ TypedDatabase(users, auth_keys, tasks, task_shares, sequence, minted)
  /\ ConsistentDatabase(users, auth_keys, tasks, task_shares, sequence, minted)
  /\ now \in Nat

\* What no statement takes away.
Lasting ==
  /\ users \subseteq users'
  /\ \A t \in tasks : \E u \in tasks' : u.id = t.id /\ u.owner = t.owner

\* A step which leaves the database alone.
LEMMA UnchangedKeeps ==
  ASSUME WellFormed, UNCHANGED database
  PROVE  WellFormed' /\ Lasting
<1>1. WellFormed'
  BY DEF WellFormed, TypedDatabase, ConsistentDatabase, database, PrimaryKey,
         UniqueUsernames, UniqueKeys, UniqueShares, MintedKeys,
         KeysReferToUsers, TasksReferToUsers, SharesReferToTasks,
         SharesReferToUsers
<1>2. Lasting
  BY DEF Lasting, database
<1> QED
  BY <1>1, <1>2

\* The start of the server on a database which satisfies the schema.
LEMMA InitialWellFormed ==
  ASSUME StoreInit
  PROVE  WellFormed
BY InitialAssumption DEF StoreInit, WellFormed

\* Drawing an id moves this table's sequence on, and no other.
LEMMA DrawMovesOn ==
  ASSUME sequence \in [Tables -> Nat], NEW table \in Tables, DrawId(table)
  PROVE  /\ sequence' \in [Tables -> Nat]
         /\ sequence'[table] = sequence[table] + 1
         /\ \A t \in Tables \ {table} : sequence'[t] = sequence[t]
BY DEF DrawId

\* A new row with the id which was drawn leaves the ids a primary key.
LEMMA PrimaryKeyGrows ==
  ASSUME NEW table, NEW n \in Nat, PrimaryKey(table, n),
         \A row \in table : row.id \in Nat, NEW new, new.id = n
  PROVE  PrimaryKey(table \cup {new}, n + 1)
BY DEF PrimaryKey

\* A drawn id which is not used does no harm.
LEMMA PrimaryKeySkips ==
  ASSUME NEW table, NEW n \in Nat, PrimaryKey(table, n),
         \A row \in table : row.id \in Nat
  PROVE  PrimaryKey(table, n + 1)
BY DEF PrimaryKey

\* Every row of a typed database has a number for its id.
LEMMA IdsAreNumbers ==
  ASSUME WellFormed
  PROVE  /\ \A row \in users : row.id \in Nat
         /\ \A row \in auth_keys : row.id \in Nat
         /\ \A row \in tasks : row.id \in Nat
         /\ \A row \in task_shares : row.id \in Nat
         /\ sequence \in [Tables -> Nat]
BY DEF WellFormed, TypedDatabase, User, AuthKey, Task, TaskShare

------------------------------------------------------------------------------
\* An account with a new id and a name nobody has.
LEMMA InsertUserKeeps ==
  ASSUME WellFormed, NEW row \in User, row.id = next_id("users"),
         get_user_by_name(row.username) = {}, insert_user(row)
  PROVE  WellFormed' /\ Lasting
<1> USE DEF WellFormed, TypedDatabase, ConsistentDatabase
<1>1. /\ users' = users \cup {row}
      /\ UNCHANGED <<auth_keys, tasks, task_shares, minted, now>>
  BY DEF insert_user
<1>2. /\ sequence' \in [Tables -> Nat]
      /\ sequence'["users"] = sequence["users"] + 1
      /\ \A t \in Tables \ {"users"} : sequence'[t] = sequence[t]
  BY DrawMovesOn DEF insert_user, Tables
<1>3. PrimaryKey(users, sequence["users"])'
  BY <1>1, <1>2, IdsAreNumbers, PrimaryKeyGrows DEF next_id, Tables
<1>4. UniqueUsernames(users)'
  BY <1>1 DEF UniqueUsernames, get_user_by_name
<1>5. /\ KeysReferToUsers(auth_keys, users)'
      /\ TasksReferToUsers(tasks, users)'
      /\ SharesReferToUsers(task_shares, users)'
  BY <1>1 DEF KeysReferToUsers, TasksReferToUsers, SharesReferToUsers
<1>6. /\ PrimaryKey(auth_keys, sequence["auth_keys"])'
      /\ PrimaryKey(tasks, sequence["tasks"])'
      /\ PrimaryKey(task_shares, sequence["task_shares"])'
  BY <1>1, <1>2 DEF PrimaryKey, Tables
<1>7. /\ UniqueKeys(auth_keys)' /\ MintedKeys(auth_keys, minted)'
      /\ UniqueShares(task_shares)' /\ SharesReferToTasks(task_shares, tasks)'
  BY <1>1 DEF UniqueKeys, MintedKeys, UniqueShares, SharesReferToTasks
<1> QED
  BY <1>1, <1>2, <1>3, <1>4, <1>5, <1>6, <1>7 DEF Lasting

\* An insertion of an account which failed after its id was drawn.
LEMMA DrawUserIdKeeps ==
  ASSUME WellFormed, DrawUserId
  PROVE  WellFormed' /\ Lasting
<1> USE DEF WellFormed, TypedDatabase, ConsistentDatabase
<1>1. UNCHANGED <<users, auth_keys, tasks, task_shares, minted, now>>
  BY DEF DrawUserId
<1>2. /\ sequence' \in [Tables -> Nat]
      /\ sequence'["users"] = sequence["users"] + 1
      /\ \A t \in Tables \ {"users"} : sequence'[t] = sequence[t]
  BY DrawMovesOn DEF DrawUserId, Tables
<1>3. PrimaryKey(users, sequence["users"])'
  BY <1>1, <1>2, IdsAreNumbers, PrimaryKeySkips DEF Tables
<1>4. /\ PrimaryKey(auth_keys, sequence["auth_keys"])'
      /\ PrimaryKey(tasks, sequence["tasks"])'
      /\ PrimaryKey(task_shares, sequence["task_shares"])'
  BY <1>1, <1>2 DEF PrimaryKey, Tables
<1>5. /\ UniqueUsernames(users)' /\ UniqueKeys(auth_keys)'
      /\ MintedKeys(auth_keys, minted)' /\ UniqueShares(task_shares)'
      /\ KeysReferToUsers(auth_keys, users)' /\ TasksReferToUsers(tasks, users)'
      /\ SharesReferToTasks(task_shares, tasks)'
      /\ SharesReferToUsers(task_shares, users)'
  BY <1>1 DEF UniqueUsernames, UniqueKeys, MintedKeys, UniqueShares,
     KeysReferToUsers, TasksReferToUsers, SharesReferToTasks, SharesReferToUsers
<1> QED
  BY <1>1, <1>2, <1>3, <1>4, <1>5 DEF Lasting

\* A key which was never drawn before, for an account which exists.
LEMMA InsertAuthKeyKeeps ==
  ASSUME WellFormed, NEW user \in users, NEW key \in fresh_keys,
         insert_auth_key(user.id, key)
  PROVE  WellFormed' /\ Lasting
<1> USE DEF WellFormed, TypedDatabase, ConsistentDatabase
<1> DEFINE row == [id |-> next_id("auth_keys"), user_id |-> user.id, key |-> key,
                   expiration |-> now + Lifetime]
<1>1. /\ auth_keys' = auth_keys \cup {row} /\ minted' = minted \cup {key}
      /\ UNCHANGED <<users, tasks, task_shares, now>>
  BY DEF insert_auth_key
<1>2. /\ sequence' \in [Tables -> Nat]
      /\ sequence'["auth_keys"] = sequence["auth_keys"] + 1
      /\ \A t \in Tables \ {"auth_keys"} : sequence'[t] = sequence[t]
  BY DrawMovesOn DEF insert_auth_key, Tables
<1>3. row \in AuthKey /\ row.id = sequence["auth_keys"] /\ minted' \subseteq Keys
  BY <1>1, IdsAreNumbers, BoundAssumption
     DEF next_id, Tables, AuthKey, fresh_keys
<1>4. PrimaryKey(auth_keys, sequence["auth_keys"])'
  <2>1. sequence["auth_keys"] \in Nat
    BY IdsAreNumbers DEF Tables
  <2>2. PrimaryKey(auth_keys \cup {row}, sequence["auth_keys"] + 1)
    BY <2>1, <1>3, IdsAreNumbers, PrimaryKeyGrows
  <2> QED
    BY <2>2, <1>1, <1>2
<1>5. UniqueKeys(auth_keys)' /\ MintedKeys(auth_keys, minted)'
  BY <1>1 DEF UniqueKeys, MintedKeys, fresh_keys
<1>6. KeysReferToUsers(auth_keys, users)'
  BY <1>1 DEF KeysReferToUsers
<1>7. /\ PrimaryKey(users, sequence["users"])'
      /\ PrimaryKey(tasks, sequence["tasks"])'
      /\ PrimaryKey(task_shares, sequence["task_shares"])'
  BY <1>1, <1>2 DEF PrimaryKey, Tables
<1>8. /\ UniqueUsernames(users)' /\ UniqueShares(task_shares)'
      /\ TasksReferToUsers(tasks, users)'
      /\ SharesReferToTasks(task_shares, tasks)'
      /\ SharesReferToUsers(task_shares, users)'
  BY <1>1 DEF UniqueUsernames, UniqueShares, TasksReferToUsers,
     SharesReferToTasks, SharesReferToUsers
<1> QED
  BY <1>1, <1>2, <1>3, <1>4, <1>5, <1>6, <1>7, <1>8 DEF Lasting

\* Revoking a key takes its row and nothing else.
LEMMA RevokeAuthKeyKeeps ==
  ASSUME WellFormed, NEW key, revoke_auth_key(key)
  PROVE  WellFormed' /\ Lasting
<1> USE DEF WellFormed, TypedDatabase, ConsistentDatabase
<1>1. /\ auth_keys' \subseteq auth_keys
      /\ UNCHANGED <<users, tasks, task_shares, sequence, minted, now>>
  BY DEF revoke_auth_key
<1>2. /\ PrimaryKey(auth_keys, sequence["auth_keys"])' /\ UniqueKeys(auth_keys)'
      /\ MintedKeys(auth_keys, minted)' /\ KeysReferToUsers(auth_keys, users)'
  BY <1>1 DEF PrimaryKey, UniqueKeys, MintedKeys, KeysReferToUsers
<1> QED
  BY <1>1, <1>2 DEF Lasting, PrimaryKey, UniqueUsernames, UniqueShares,
     TasksReferToUsers, SharesReferToTasks, SharesReferToUsers

------------------------------------------------------------------------------
\* A task with a new id, of an owner who exists.
LEMMA InsertTaskKeeps ==
  ASSUME WellFormed, NEW row \in Task, row.id = next_id("tasks"),
         NEW owner \in users, row.owner = owner.id, insert_task(row)
  PROVE  WellFormed' /\ Lasting
<1> USE DEF WellFormed, TypedDatabase, ConsistentDatabase
<1>1. /\ tasks' = tasks \cup {row}
      /\ UNCHANGED <<users, auth_keys, task_shares, minted, now>>
  BY DEF insert_task
<1>2. /\ sequence' \in [Tables -> Nat]
      /\ sequence'["tasks"] = sequence["tasks"] + 1
      /\ \A t \in Tables \ {"tasks"} : sequence'[t] = sequence[t]
  BY DrawMovesOn DEF insert_task, Tables
<1>3. PrimaryKey(tasks, sequence["tasks"])'
  BY <1>1, <1>2, IdsAreNumbers, PrimaryKeyGrows DEF next_id, Tables
<1>4. TasksReferToUsers(tasks, users)' /\ SharesReferToTasks(task_shares, tasks)'
  BY <1>1 DEF TasksReferToUsers, SharesReferToTasks
<1>5. /\ PrimaryKey(users, sequence["users"])'
      /\ PrimaryKey(auth_keys, sequence["auth_keys"])'
      /\ PrimaryKey(task_shares, sequence["task_shares"])'
  BY <1>1, <1>2 DEF PrimaryKey, Tables
<1>6. /\ UniqueUsernames(users)' /\ UniqueKeys(auth_keys)'
      /\ MintedKeys(auth_keys, minted)' /\ UniqueShares(task_shares)'
      /\ KeysReferToUsers(auth_keys, users)'
      /\ SharesReferToUsers(task_shares, users)'
  BY <1>1 DEF UniqueUsernames, UniqueKeys, MintedKeys, UniqueShares,
     KeysReferToUsers, SharesReferToUsers
<1> QED
  BY <1>1, <1>2, <1>3, <1>4, <1>5, <1>6 DEF Lasting

\* The changeset of a PATCH: a field is None or has the type of its column.
Changes(changes) ==
  /\ changes.title \in Titles \cup {None}
  /\ changes.description \in Descriptions \cup {None}
  /\ changes.completed \in BOOLEAN \cup {None}

\* An update gives the task new fields and leaves it the id and the owner.
LEMMA ChangedTask ==
  ASSUME NEW t \in Task, NEW changes, Changes(changes)
  PROVE  /\ changed(t, changes) \in Task
         /\ changed(t, changes).id = t.id
         /\ changed(t, changes).owner = t.owner
BY DEF Changes, changed, Task

LEMMA UpdateTaskKeeps ==
  ASSUME WellFormed, NEW id, NEW changes, Changes(changes),
         update_task(id, changes)
  PROVE  WellFormed' /\ Lasting
<1> USE DEF WellFormed, TypedDatabase, ConsistentDatabase
<1> DEFINE after(t) == IF t.id = id THEN changed(t, changes) ELSE t
<1>1. /\ tasks' = {after(t) : t \in tasks}
      /\ UNCHANGED <<users, auth_keys, task_shares, sequence, minted, now>>
  BY DEF update_task
<1>2. ASSUME NEW t \in tasks
      PROVE  after(t) \in Task /\ after(t).id = t.id /\ after(t).owner = t.owner
  BY ChangedTask
<1> HIDE DEF after
<1>3. PrimaryKey(tasks, sequence["tasks"])'
  BY <1>1, <1>2 DEF PrimaryKey
<1>4. TasksReferToUsers(tasks, users)' /\ SharesReferToTasks(task_shares, tasks)'
  BY <1>1, <1>2 DEF TasksReferToUsers, SharesReferToTasks
<1>5. tasks' \subseteq Task
  BY <1>1, <1>2
<1>6. Lasting
  BY <1>1, <1>2 DEF Lasting
<1> QED
  BY <1>1, <1>3, <1>4, <1>5, <1>6 DEF PrimaryKey, UniqueUsernames, UniqueKeys,
     MintedKeys, UniqueShares, KeysReferToUsers, SharesReferToUsers

------------------------------------------------------------------------------
\* A share of a task and with a user which exist, when there is no other.
LEMMA InsertShareKeeps ==
  ASSUME WellFormed, NEW row \in TaskShare, row.id = next_id("task_shares"),
         NEW t \in tasks, row.task_id = t.id, NEW u \in users, row.user_id = u.id,
         conflict(row.task_id, row.user_id) = {}, insert_share(row)
  PROVE  WellFormed' /\ Lasting
<1> USE DEF WellFormed, TypedDatabase, ConsistentDatabase
<1>1. /\ task_shares' = task_shares \cup {row}
      /\ UNCHANGED <<users, auth_keys, tasks, minted, now>>
  BY DEF insert_share
<1>2. /\ sequence' \in [Tables -> Nat]
      /\ sequence'["task_shares"] = sequence["task_shares"] + 1
      /\ \A x \in Tables \ {"task_shares"} : sequence'[x] = sequence[x]
  BY DrawMovesOn DEF insert_share, Tables
<1>3. PrimaryKey(task_shares, sequence["task_shares"])'
  BY <1>1, <1>2, IdsAreNumbers, PrimaryKeyGrows DEF next_id, Tables
<1>4. UniqueShares(task_shares)'
  BY <1>1 DEF UniqueShares, conflict, shares_of
<1>5. /\ SharesReferToTasks(task_shares, tasks)'
      /\ SharesReferToUsers(task_shares, users)'
  BY <1>1 DEF SharesReferToTasks, SharesReferToUsers
<1>6. /\ PrimaryKey(users, sequence["users"])'
      /\ PrimaryKey(auth_keys, sequence["auth_keys"])'
      /\ PrimaryKey(tasks, sequence["tasks"])'
  BY <1>1, <1>2 DEF PrimaryKey, Tables
<1>7. /\ UniqueUsernames(users)' /\ UniqueKeys(auth_keys)'
      /\ MintedKeys(auth_keys, minted)'
      /\ KeysReferToUsers(auth_keys, users)' /\ TasksReferToUsers(tasks, users)'
  BY <1>1 DEF UniqueUsernames, UniqueKeys, MintedKeys, KeysReferToUsers,
     TasksReferToUsers
<1> QED
  BY <1>1, <1>2, <1>3, <1>4, <1>5, <1>6, <1>7 DEF Lasting

\* A conflicting share keeps its id, its task and its user.
LEMMA ReplaceShareKeeps ==
  ASSUME WellFormed, NEW share \in task_shares, NEW permission \in SharePermission,
         replace_share(share, permission)
  PROVE  WellFormed' /\ Lasting
<1> USE DEF WellFormed, TypedDatabase, ConsistentDatabase
<1> DEFINE new == [share EXCEPT !.permission = permission]
<1>1. /\ task_shares' = (task_shares \ {share}) \cup {new}
      /\ UNCHANGED <<users, auth_keys, tasks, minted, now>>
  BY DEF replace_share
<1>2. /\ new \in TaskShare /\ new.id = share.id
      /\ new.task_id = share.task_id /\ new.user_id = share.user_id
  BY DEF TaskShare
<1> HIDE DEF new
<1>3. /\ sequence' \in [Tables -> Nat]
      /\ sequence'["task_shares"] = sequence["task_shares"] + 1
      /\ \A x \in Tables \ {"task_shares"} : sequence'[x] = sequence[x]
  BY DrawMovesOn DEF replace_share, Tables
<1>4. PrimaryKey(task_shares', sequence["task_shares"] + 1)
  <2>1. PrimaryKey(task_shares', sequence["task_shares"])
    BY <1>1, <1>2 DEF PrimaryKey
  <2>2. sequence["task_shares"] \in Nat /\ \A row \in task_shares' : row.id \in Nat
    BY <1>1, <1>2, IdsAreNumbers DEF Tables
  <2> QED
    BY <2>1, <2>2, PrimaryKeySkips
<1>5. UniqueShares(task_shares)'
  BY <1>1, <1>2 DEF UniqueShares
<1>6. /\ SharesReferToTasks(task_shares, tasks)'
      /\ SharesReferToUsers(task_shares, users)'
  BY <1>1, <1>2 DEF SharesReferToTasks, SharesReferToUsers
<1>7. /\ PrimaryKey(users, sequence["users"])'
      /\ PrimaryKey(auth_keys, sequence["auth_keys"])'
      /\ PrimaryKey(tasks, sequence["tasks"])'
  BY <1>1, <1>3 DEF PrimaryKey, Tables
<1>8. /\ UniqueUsernames(users)' /\ UniqueKeys(auth_keys)'
      /\ MintedKeys(auth_keys, minted)'
      /\ KeysReferToUsers(auth_keys, users)' /\ TasksReferToUsers(tasks, users)'
  BY <1>1 DEF UniqueUsernames, UniqueKeys, MintedKeys, KeysReferToUsers,
     TasksReferToUsers
<1> QED
  BY <1>1, <1>2, <1>3, <1>4, <1>5, <1>6, <1>7, <1>8 DEF Lasting

\* Removing a share takes its row and nothing else.
LEMMA DeleteShareKeeps ==
  ASSUME WellFormed, NEW task, NEW user, delete_share(task, user)
  PROVE  WellFormed' /\ Lasting
<1> USE DEF WellFormed, TypedDatabase, ConsistentDatabase
<1>1. /\ task_shares' \subseteq task_shares
      /\ UNCHANGED <<users, auth_keys, tasks, sequence, minted, now>>
  BY DEF delete_share
<1>2. /\ PrimaryKey(task_shares, sequence["task_shares"])'
      /\ UniqueShares(task_shares)' /\ SharesReferToTasks(task_shares, tasks)'
      /\ SharesReferToUsers(task_shares, users)'
  BY <1>1 DEF PrimaryKey, UniqueShares, SharesReferToTasks, SharesReferToUsers
<1> QED
  BY <1>1, <1>2 DEF Lasting, PrimaryKey, UniqueUsernames, UniqueKeys, MintedKeys,
     KeysReferToUsers, TasksReferToUsers

\* Time passes and the rows stay as they are.
LEMMA TickKeeps ==
  ASSUME WellFormed, Tick
  PROVE  WellFormed' /\ Lasting
<1>1. /\ now' \in Nat
      /\ UNCHANGED <<users, auth_keys, tasks, task_shares, sequence, minted>>
  BY DEF WellFormed, Tick
<1> QED
  BY <1>1 DEF WellFormed, TypedDatabase, ConsistentDatabase, Lasting, PrimaryKey,
     UniqueUsernames, UniqueKeys, UniqueShares, MintedKeys, KeysReferToUsers,
     TasksReferToUsers, SharesReferToTasks, SharesReferToUsers

------------------------------------------------------------------------------
\* The handlers.
IInv == TypeOK /\ Integrity /\ HandlersKnowledgeHolds

LEMMA IInvWellFormed ==
  ASSUME IInv
  PROVE  WellFormed
BY DEF IInv, TypeOK, Integrity, WellFormed

------------------------------------------------------------------------------
\* Every request is one of the ten kinds, and its op says which.
LEMMA RequestKinds ==
  ASSUME NEW r \in Requests
  PROVE  \/ r \in UserRegistration /\ r.op = "create_user"
         \/ r \in Credentials /\ r.op = "create_auth_key"
         \/ r \in KeyOnly /\ r.op \in {"delete_auth_key", "get_current_user"}
         \/ r \in TasksQuery /\ r.op = "get_tasks"
         \/ r \in AddTaskPayload /\ r.op = "add_task"
         \/ r \in TaskPath /\ r.op \in {"get_task_by_id", "get_task_shares"}
         \/ r \in UpdateTaskPayload /\ r.op = "update_task_by_id"
         \/ r \in SharePayload /\ r.op = "put_share"
         \/ r \in SharePath /\ r.op = "delete_share"
         \/ r \in UserPath /\ r.op = "get_user"
<1>1. r \in AllRequests
  BY RequestAssumption
<1> QED
  BY <1>1 DEF AllRequests, UserRegistration, Credentials, KeyOnly, TasksQuery,
     AddTaskPayload, TaskPath, UpdateTaskPayload, SharePayload, SharePath, UserPath

\* The statement a worker is at says which operations it may be serving.
LEMMA OperationAt ==
  ASSUME NEW r \in Requests, NEW statement \in Statements(r.op)
  PROVE  /\ statement = "insert_user" => r \in UserRegistration
         /\ statement \in {"find_account", "insert_key"} => r \in Credentials
         /\ statement = "delete_key" => r \in KeyOnly
         /\ statement = "find_user" => r \in UserPath
         /\ statement = "list_tasks" => r \in TasksQuery
         /\ statement = "insert_task" => r \in AddTaskPayload
         /\ statement \in {"load_task", "load_share"} =>
              r.op \in {"get_task_by_id", "update_task_by_id"}
         /\ statement = "update_task" => r \in UpdateTaskPayload
         /\ statement \in {"check_owner"} =>
              r.op \in {"get_task_shares", "put_share", "delete_share"}
         /\ statement = "find_target" => r.op \in {"put_share", "delete_share"}
         /\ statement = "upsert_share" => r \in SharePayload
         /\ statement \notin {"idle", "answered"}
         /\ statement \in ProgramPoints
<1> USE DEF Statements, ProgramPoints
<1>1. CASE r \in UserRegistration /\ r.op = "create_user"
  BY <1>1
<1>2. CASE r \in Credentials /\ r.op = "create_auth_key"
  BY <1>2
<1>3. CASE r \in KeyOnly /\ r.op \in {"delete_auth_key", "get_current_user"}
  BY <1>3
<1>4. CASE r \in TasksQuery /\ r.op = "get_tasks"
  BY <1>4
<1>5. CASE r \in AddTaskPayload /\ r.op = "add_task"
  BY <1>5
<1>6. CASE r \in TaskPath /\ r.op \in {"get_task_by_id", "get_task_shares"}
  BY <1>6
<1>7. CASE r \in UpdateTaskPayload /\ r.op = "update_task_by_id"
  BY <1>7
<1>8. CASE r \in SharePayload /\ r.op = "put_share"
  BY <1>8
<1>9. CASE r \in SharePath /\ r.op = "delete_share"
  BY <1>9
<1>10. CASE r \in UserPath /\ r.op = "get_user"
  BY <1>10
<1> HIDE DEF Statements, ProgramPoints
<1> QED
  BY <1>1, <1>2, <1>3, <1>4, <1>5, <1>6, <1>7, <1>8, <1>9, <1>10, RequestKinds

------------------------------------------------------------------------------
\* Every response has its status and its challenge, and shows no more than
\* representations.
LEMMA PlainResponses ==
  ASSUME NEW status \in {200, 201, 204}, NEW body \in SUBSET Representations
  PROVE  Response(status, body) \in Responses
BY DEF Response, Responses, Challenges

LEMMA ErrorStatus ==
  ASSUME NEW e \in ApplicationError
  PROVE  \E status \in {400, 401, 403, 404, 409, 500} :
           into_status_response(e) =
             [status |-> status, challenge |-> "none", body |-> {}]
BY DEF ApplicationError, into_status_response, Response

LEMMA ChallengedResponses ==
  ASSUME NEW status \in {400, 401, 403, 404, 409, 500}, NEW challenge \in Challenges
  PROVE  with_challenge([status |-> status, challenge |-> "none", body |-> {}],
                        challenge) \in Responses
<1> DEFINE plain == [status |-> status, challenge |-> "none", body |-> {}]
           challenged == [status |-> status, challenge |-> challenge, body |-> {}]
<1>1. ASSUME NEW c \in Challenges
      PROVE  [status |-> status, challenge |-> c, body |-> {}] \in Responses
  BY DEF Responses
<1>2. "none" \in Challenges
  BY DEF Challenges
<1>3. plain \in Responses /\ challenged \in Responses
  BY <1>1, <1>2
<1>4. with_challenge(plain, challenge) \in {plain, challenged}
  BY DEF with_challenge
<1> QED
  BY <1>3, <1>4

LEMMA ErrorResponses ==
  ASSUME NEW e \in ApplicationError
  PROVE  into_http_response(e) \in Responses /\ into_basic_http_response(e) \in Responses
<1>1. bearer_challenge(e) \in Challenges /\ "Basic" \in Challenges
  BY DEF bearer_challenge, Challenges
<1> QED
  BY <1>1, ErrorStatus, ChallengedResponses
     DEF into_http_response, into_basic_http_response

LEMMA BasicRefusal == with_challenge(Response(401, {}), "Basic") \in Responses
<1>1. Response(401, {}) = [status |-> 401, challenge |-> "none", body |-> {}]
  BY DEF Response
<1>2. "Basic" \in Challenges
  BY DEF Challenges
<1> QED
  BY <1>1, <1>2, ChallengedResponses

------------------------------------------------------------------------------
(***************************************************************************)
(* The shape of a step: worker w moves to a program point, and the rest of *)
(* the state is as good as before because no statement takes away what     *)
(* another handler relies on.                                              *)
(***************************************************************************)
KnowledgeAfter(statement, r, user, named) ==
  /\ statement \in AfterCaller => user \in users'
  /\ statement \in AfterTarget => named \in users'
  /\ statement \in AfterOwner =>
       \E t \in tasks' : t.id = r.task /\ t.owner = user.id

LEMMA KnowledgeLasts ==
  ASSUME NEW l, NEW r, NEW c, NEW t, Knowledge(l, r, c, t), Lasting
  PROVE  KnowledgeAfter(l, r, c, t)
BY DEF Knowledge, KnowledgeAfter, Lasting

LEMMA NothingToKnow ==
  ASSUME NEW l \in {"idle", "answered"}, NEW r, NEW c, NEW t
  PROVE  KnowledgeAfter(l, r, c, t)
BY DEF KnowledgeAfter, AfterCaller, AfterOwner, AfterTarget

LEMMA WorkerStep ==
  ASSUME IInv, WellFormed', Lasting, NEW w \in Workers,
         NEW l \in ProgramPoints, pc' = [pc EXCEPT ![w] = l],
         NEW r \in Requests \cup {None}, request' = [request EXCEPT ![w] = r],
         NEW c \in User \cup {None}, caller' = [caller EXCEPT ![w] = c],
         NEW t \in User \cup {None}, target' = [target EXCEPT ![w] = t],
         NEW a \in Responses \cup {None}, answer' = [answer EXCEPT ![w] = a],
         ThreadOK(l, r, a), KnowledgeAfter(l, r, c, t)
  PROVE  IInv'
<1>1. /\ pc' \in [Workers -> ProgramPoints]
      /\ request' \in [Workers -> Requests \cup {None}]
      /\ caller' \in [Workers -> User \cup {None}]
      /\ target' \in [Workers -> User \cup {None}]
      /\ answer' \in [Workers -> Responses \cup {None}]
  BY DEF IInv, TypeOK
<1>2. /\ pc'[w] = l /\ request'[w] = r /\ caller'[w] = c /\ target'[w] = t
      /\ answer'[w] = a
      /\ \A v \in Workers \ {w} :
           /\ pc'[v] = pc[v] /\ request'[v] = request[v]
           /\ caller'[v] = caller[v] /\ target'[v] = target[v]
           /\ answer'[v] = answer[v]
  BY DEF IInv, TypeOK
<1>3. \A v \in Workers : ThreadOK(pc'[v], request'[v], answer'[v])
  BY <1>2 DEF IInv, TypeOK
<1>4. TypeOK'
  BY <1>1, <1>3 DEF TypeOK, WellFormed, ThreadOK
<1>5. HandlersKnowledgeHolds'
  <2> SUFFICES ASSUME NEW v \in Workers
               PROVE  Knowledge(pc[v], request[v], caller[v], target[v])'
    BY DEF HandlersKnowledgeHolds
  <2>1. CASE v = w
    BY <2>1, <1>2 DEF Knowledge, KnowledgeAfter
  <2>2. CASE v # w
    <3>1. Knowledge(pc[v], request[v], caller[v], target[v])
      BY DEF IInv, HandlersKnowledgeHolds
    <3> QED
      BY <2>2, <3>1, <1>2 DEF Knowledge, Lasting
  <2> QED
    BY <2>1, <2>2
<1> QED
  BY <1>4, <1>5 DEF IInv, Integrity, WellFormed

\* A handler which answers needs to know nothing any more.
LEMMA AnswerStep ==
  ASSUME IInv, WellFormed', Lasting, NEW w \in Workers, request[w] \in Requests,
         NEW a \in Responses, Answer(w, a), UNCHANGED <<request, caller, target>>
  PROVE  IInv'
<1>1. /\ request' = [request EXCEPT ![w] = request[w]]
      /\ caller' = [caller EXCEPT ![w] = caller[w]]
      /\ target' = [target EXCEPT ![w] = target[w]]
      /\ caller[w] \in User \cup {None} /\ target[w] \in User \cup {None}
  BY DEF IInv, TypeOK
<1>2. /\ pc' = [pc EXCEPT ![w] = "answered"]
      /\ answer' = [answer EXCEPT ![w] = a]
  BY DEF Answer
<1>3. /\ "answered" \in ProgramPoints
      /\ ThreadOK("answered", request[w], a)
      /\ KnowledgeAfter("answered", request[w], caller[w], target[w])
  BY DEF ProgramPoints, ThreadOK, KnowledgeAfter, AfterCaller, AfterOwner, AfterTarget
<1> QED
  BY <1>1, <1>2, <1>3, WorkerStep

\* A handler which goes on takes along what it has just read.
LEMMA ContinueStep ==
  ASSUME IInv, WellFormed', Lasting, NEW w \in Workers, request[w] \in Requests,
         ~Invalid(request[w]),
         NEW l \in Statements(request[w].op), Continue(w, l), UNCHANGED request,
         NEW c \in User \cup {None}, caller' = [caller EXCEPT ![w] = c],
         NEW t \in User \cup {None}, target' = [target EXCEPT ![w] = t],
         KnowledgeAfter(l, request[w], c, t)
  PROVE  IInv'
<1>1. /\ request' = [request EXCEPT ![w] = request[w]]
      /\ answer' = [answer EXCEPT ![w] = answer[w]]
      /\ answer[w] \in Responses \cup {None}
  BY DEF IInv, TypeOK, Continue
<1>2. pc' = [pc EXCEPT ![w] = l] /\ l \in ProgramPoints
  BY OperationAt DEF Continue
<1>3. ThreadOK(l, request[w], answer[w])
  BY DEF ThreadOK
<1> QED
  BY <1>1, <1>2, <1>3, WorkerStep

\* What the invariant says of a worker which is at a statement.
LEMMA Serving ==
  ASSUME IInv, NEW w \in Workers, Busy(w)
  PROVE  /\ request[w] \in Requests /\ ~Invalid(request[w])
         /\ pc[w] \in Statements(request[w].op)
         /\ caller[w] \in User \cup {None} /\ target[w] \in User \cup {None}
         /\ Knowledge(pc[w], request[w], caller[w], target[w])
         /\ caller = [caller EXCEPT ![w] = caller[w]]
         /\ target = [target EXCEPT ![w] = target[w]]
<1>1. ThreadOK(pc[w], request[w], answer[w])
  BY DEF IInv, TypeOK
<1> QED
  BY <1>1 DEF IInv, TypeOK, HandlersKnowledgeHolds, ThreadOK, Busy

------------------------------------------------------------------------------
(***************************************************************************)
(* Every action keeps the invariant.                                       *)
(***************************************************************************)
LEMMA ReadingKeeps ==
  ASSUME IInv, UNCHANGED database
  PROVE  WellFormed' /\ Lasting
BY IInvWellFormed, UnchangedKeeps

LEMMA FirstStatementServes ==
  ASSUME NEW r \in Requests
  PROVE  /\ FirstStatement(r.op) \in Statements(r.op)
         /\ FirstStatement(r.op) \notin AfterCaller \cup AfterTarget \cup AfterOwner
<1> USE DEF FirstStatement, Statements, AfterCaller, AfterTarget, AfterOwner
<1>1. CASE r.op = "create_user"
  BY <1>1
<1>2. CASE r.op = "create_auth_key"
  BY <1>2
<1>3. CASE r.op \in {"delete_auth_key", "get_current_user", "get_user"}
  BY <1>3
<1>4. CASE r.op \in {"get_tasks", "add_task"}
  BY <1>4
<1>5. CASE r.op \in {"get_task_by_id", "update_task_by_id"}
  BY <1>5
<1>6. CASE r.op \in {"get_task_shares", "put_share", "delete_share"}
  BY <1>6
<1> HIDE DEF FirstStatement, Statements, AfterCaller, AfterTarget, AfterOwner
<1> QED
  BY <1>1, <1>2, <1>3, <1>4, <1>5, <1>6, RequestKinds

LEMMA ReceiveStep ==
  ASSUME IInv, NEW w \in Workers, Receive(w)
  PROVE  IInv'
<1>1. PICK r \in Requests :
        /\ request' = [request EXCEPT ![w] = r]
        /\ \/ /\ Invalid(r)
              /\ Answer(w, into_http_response("InvalidData"))
           \/ /\ ~Invalid(r)
              /\ Continue(w, FirstStatement(r.op))
  BY DEF Receive, Begin
<1>2. WellFormed' /\ Lasting
  BY ReadingKeeps DEF Receive, Begin
<1>3. /\ caller' = [caller EXCEPT ![w] = caller[w]]
      /\ target' = [target EXCEPT ![w] = target[w]]
      /\ caller[w] \in User \cup {None} /\ target[w] \in User \cup {None}
      /\ answer[w] \in Responses \cup {None}
      /\ answer = [answer EXCEPT ![w] = answer[w]]
  BY DEF Receive, Begin, IInv, TypeOK
<1>4. CASE Invalid(r) /\ Answer(w, into_http_response("InvalidData"))
  <2> DEFINE a == into_http_response("InvalidData")
  <2>1. a \in Responses
    BY ErrorResponses DEF ApplicationError
  <2>2. pc' = [pc EXCEPT ![w] = "answered"] /\ answer' = [answer EXCEPT ![w] = a]
    BY <1>4 DEF Answer
  <2>3. /\ "answered" \in ProgramPoints /\ ThreadOK("answered", r, a)
        /\ KnowledgeAfter("answered", r, caller[w], target[w])
    BY <2>1 DEF ProgramPoints, ThreadOK, KnowledgeAfter, AfterCaller, AfterOwner,
       AfterTarget
  <2> HIDE DEF a
  <2> QED
    BY <1>1, <1>2, <1>3, <2>1, <2>2, <2>3, WorkerStep
<1>5. CASE ~Invalid(r) /\ Continue(w, FirstStatement(r.op))
  <2> DEFINE l == FirstStatement(r.op)
  <2>1. l \in Statements(r.op) /\ l \notin AfterCaller \cup AfterTarget \cup AfterOwner
    BY FirstStatementServes
  <2>2. pc' = [pc EXCEPT ![w] = l] /\ answer' = [answer EXCEPT ![w] = answer[w]]
    BY <1>5, <1>3 DEF Continue
  <2>3. /\ l \in ProgramPoints /\ ThreadOK(l, r, answer[w])
        /\ KnowledgeAfter(l, r, caller[w], target[w])
    BY <2>1, <1>5, OperationAt DEF ThreadOK, KnowledgeAfter
  <2> HIDE DEF l
  <2> QED
    BY <1>1, <1>2, <1>3, <2>2, <2>3, WorkerStep
<1> QED
  BY <1>1, <1>4, <1>5

LEMMA AfterAuthenticationServes ==
  ASSUME NEW r \in Requests, "authenticate" \in Statements(r.op),
         r.op # "get_current_user"
  PROVE  /\ AfterAuthentication(r.op) \in Statements(r.op)
         /\ AfterAuthentication(r.op) \notin AfterTarget \cup AfterOwner
<1> USE DEF AfterAuthentication, Statements, AfterTarget, AfterOwner
<1>1. CASE r.op \in {"create_user", "create_auth_key", "delete_auth_key"}
  BY <1>1
<1>2. CASE r.op \in {"get_user", "get_tasks", "add_task"}
  BY <1>2
<1>3. CASE r.op \in {"get_task_by_id", "update_task_by_id"}
  BY <1>3
<1>4. CASE r.op \in {"get_task_shares", "put_share", "delete_share"}
  BY <1>4
<1> HIDE DEF AfterAuthentication, Statements, AfterTarget, AfterOwner
<1> QED
  BY <1>1, <1>2, <1>3, <1>4, RequestKinds

LEMMA RepresentationsOfUsers ==
  ASSUME NEW user \in User
  PROVE  {UserRepresentation(user)} \in SUBSET Representations
BY DEF User, UserRepresentation, Representations

LEMMA AuthenticateStep ==
  ASSUME IInv, NEW w \in Workers, Authenticate(w)
  PROVE  IInv'
<1>1. WellFormed' /\ Lasting /\ UNCHANGED users
  BY ReadingKeeps DEF Authenticate, database
<1>2. /\ request[w] \in Requests /\ ~Invalid(request[w])
      /\ "authenticate" \in Statements(request[w].op)
      /\ target[w] \in User \cup {None}
      /\ target = [target EXCEPT ![w] = target[w]]
  BY Serving DEF Authenticate, Busy
<1>3. CASE Answer(w, into_http_response("InvalidAuthKey")) /\ UNCHANGED caller
  <2>1. into_http_response("InvalidAuthKey") \in Responses
    BY ErrorResponses DEF ApplicationError
  <2> QED
    BY <1>1, <1>2, <1>3, <2>1, AnswerStep DEF Authenticate
<1>4. ASSUME NEW user \in auth_key_to_user(request[w].key),
             caller' = [caller EXCEPT ![w] = user],
             Answer(w, Response(200, {UserRepresentation(user)}))
      PROVE  IInv'
  <2> DEFINE a == Response(200, {UserRepresentation(user)})
  <2>1. user \in users /\ user \in User
    BY DEF auth_key_to_user, IInv, TypeOK, TypedDatabase
  <2>2. a \in Responses
    BY <2>1, RepresentationsOfUsers, PlainResponses
  <2>3. /\ "answered" \in ProgramPoints /\ ThreadOK("answered", request[w], a)
        /\ KnowledgeAfter("answered", request[w], user, target[w])
    BY <1>2, <2>2 DEF ProgramPoints, ThreadOK, KnowledgeAfter, AfterCaller, AfterOwner,
       AfterTarget
  <2>4. /\ pc' = [pc EXCEPT ![w] = "answered"]
        /\ answer' = [answer EXCEPT ![w] = a]
        /\ request' = [request EXCEPT ![w] = request[w]]
        /\ target' = [target EXCEPT ![w] = target[w]]
    BY <1>2, <1>4 DEF Answer, Authenticate, IInv, TypeOK
  <2> HIDE DEF a
  <2> QED
    BY <1>1, <1>2, <1>4, <2>1, <2>2, <2>3, <2>4, WorkerStep
<1>5. ASSUME NEW user \in auth_key_to_user(request[w].key),
             caller' = [caller EXCEPT ![w] = user],
             request[w].op # "get_current_user",
             Continue(w, AfterAuthentication(request[w].op))
      PROVE  IInv'
  <2>1. user \in users /\ user \in User
    BY DEF auth_key_to_user, IInv, TypeOK, TypedDatabase
  <2>2. AfterAuthentication(request[w].op) \in Statements(request[w].op)
    BY <1>2, <1>5, AfterAuthenticationServes
  <2>3. KnowledgeAfter(AfterAuthentication(request[w].op), request[w], user, target[w])
    BY <1>1, <1>2, <1>5, <2>1, AfterAuthenticationServes DEF KnowledgeAfter
  <2>4. UNCHANGED request /\ target' = [target EXCEPT ![w] = target[w]]
    BY <1>2 DEF Authenticate
  <2> QED
    BY <1>1, <1>2, <1>5, <2>1, <2>2, <2>3, <2>4, ContinueStep
<1> QED
  BY <1>3, <1>4, <1>5 DEF Authenticate

------------------------------------------------------------------------------
\* A statement which wrote is answered, or its result is lost.
LEMMA WriteStep ==
  ASSUME IInv, WellFormed', Lasting, NEW w \in Workers, request[w] \in Requests,
         NEW a \in Responses, AnswerWrite(w, a),
         UNCHANGED <<request, caller, target>>
  PROVE  IInv'
<1>1. into_http_response("QueryFailed") \in Responses
  BY ErrorResponses DEF ApplicationError
<1> QED
  BY <1>1, AnswerStep DEF AnswerWrite

LEMMA InsertUserStep ==
  ASSUME IInv, NEW w \in Workers, InsertUser(w)
  PROVE  IInv'
<1> DEFINE name == Varchar255[request[w].username]
           row == [id |-> next_id("users"), username |-> name,
                   password |-> hash_password(request[w].password)]
<1>1. request[w] \in Requests /\ request[w] \in UserRegistration
      /\ ~Invalid(request[w])
  BY Serving, OperationAt DEF InsertUser, Busy
<1>2. WellFormed
  BY IInvWellFormed
<1>3. request[w].username \in Usernames /\ request[w].password \in Passwords
  BY <1>1 DEF UserRegistration, Invalid
<1>4. name \in Usernames \cup {TooLong}
  BY <1>3, ColumnAssumption
<1>5. CASE name = TooLong /\ (DrawUserId \/ UNCHANGED database)
           /\ Answer(w, into_http_response("QueryFailed"))
  <2>1. WellFormed' /\ Lasting
    BY <1>2, <1>5, DrawUserIdKeeps, UnchangedKeeps
  <2>2. into_http_response("QueryFailed") \in Responses
    BY ErrorResponses DEF ApplicationError
  <2> QED
    BY <1>1, <1>5, <2>1, <2>2, AnswerStep DEF InsertUser
<1>6. CASE name # TooLong /\ username_taken(name) /\ DrawUserId
           /\ Answer(w, into_http_response("UserExists"))
  <2>1. WellFormed' /\ Lasting
    BY <1>2, <1>6, DrawUserIdKeeps
  <2>2. into_http_response("UserExists") \in Responses
    BY ErrorResponses DEF ApplicationError
  <2> QED
    BY <1>1, <1>6, <2>1, <2>2, AnswerStep DEF InsertUser
<1>7. CASE name # TooLong /\ ~username_taken(name) /\ insert_user(row)
           /\ AnswerWrite(w, Response(201, {UserRepresentation(row)}))
  <2>1. next_id("users") \in Nat
    BY <1>2, IdsAreNumbers DEF next_id, Tables
  <2>2. row \in User /\ row.id = next_id("users") /\ row.username = name
    BY <1>3, <1>4, <1>7, <2>1 DEF User, HashedPassword, hash_password
  <2>3. get_user_by_name(row.username) = {}
    BY <1>7, <2>2 DEF username_taken
  <2>4. WellFormed' /\ Lasting
    BY <1>2, <1>7, <2>2, <2>3, InsertUserKeeps
  <2>5. Response(201, {UserRepresentation(row)}) \in Responses
    BY <2>2, RepresentationsOfUsers, PlainResponses
  <2> HIDE DEF row
  <2> QED
    BY <1>1, <1>7, <2>4, <2>5, WriteStep DEF InsertUser
<1> QED
  BY <1>5, <1>6, <1>7 DEF InsertUser

LEMMA FindAccountStep ==
  ASSUME IInv, NEW w \in Workers, FindAccount(w)
  PROVE  IInv'
<1>1. /\ request[w] \in Requests /\ request[w] \in Credentials
      /\ ~Invalid(request[w])
      /\ caller[w] \in User \cup {None}
      /\ caller = [caller EXCEPT ![w] = caller[w]]
  BY Serving, OperationAt DEF FindAccount, Busy
<1>2. WellFormed' /\ Lasting /\ users' = users
  BY ReadingKeeps DEF FindAccount, database
<1>3. CASE Answer(w, with_challenge(Response(401, {}), "Basic")) /\ UNCHANGED target
  BY <1>1, <1>2, <1>3, BasicRefusal, AnswerStep DEF FindAccount
<1>4. CASE Answer(w, into_basic_http_response("InvalidPassword"))
           /\ UNCHANGED target
  <2>1. into_basic_http_response("InvalidPassword") \in Responses
    BY ErrorResponses DEF ApplicationError
  <2> QED
    BY <1>1, <1>2, <1>4, <2>1, AnswerStep DEF FindAccount
<1>5. ASSUME NEW user \in get_user_by_name(request[w].username),
             target' = [target EXCEPT ![w] = user], Continue(w, "insert_key")
      PROVE  IInv'
  <2>1. user \in users /\ user \in User
    BY DEF get_user_by_name, IInv, TypeOK, TypedDatabase
  <2>2. "insert_key" \in Statements(request[w].op)
    BY <1>1 DEF Credentials, Statements
  <2>3. KnowledgeAfter("insert_key", request[w], caller[w], user)
    BY <1>2, <2>1 DEF KnowledgeAfter, AfterCaller, AfterOwner
  <2>4. UNCHANGED request /\ caller' = [caller EXCEPT ![w] = caller[w]]
    BY <1>1 DEF FindAccount
  <2> QED
    BY <1>1, <1>2, <1>5, <2>1, <2>2, <2>3, <2>4, ContinueStep
<1> QED
  BY <1>3, <1>4, <1>5 DEF FindAccount

LEMMA InsertKeyStep ==
  ASSUME IInv, NEW w \in Workers, InsertKey(w)
  PROVE  IInv'
<1>1. request[w] \in Requests /\ target[w] \in users
  BY Serving DEF InsertKey, Busy, Knowledge, AfterTarget
<1>2. PICK key \in fresh_keys :
        /\ insert_auth_key(target[w].id, key)
        /\ AnswerWrite(w, Response(201, {[id |-> next_id("auth_keys"),
                                          auth_key |-> key]}))
  BY DEF InsertKey
<1>3. WellFormed' /\ Lasting
  BY <1>1, <1>2, IInvWellFormed, InsertAuthKeyKeeps
<1> DEFINE shown == [id |-> next_id("auth_keys"), auth_key |-> key]
<1>4. shown \in Representations
  BY IInvWellFormed, IdsAreNumbers
     DEF next_id, Tables, fresh_keys, Representations
<1>5. Response(201, {shown}) \in Responses
  BY <1>4, PlainResponses
<1> HIDE DEF shown
<1> QED
  BY <1>1, <1>2, <1>3, <1>5, WriteStep DEF InsertKey, shown

LEMMA DeleteKeyStep ==
  ASSUME IInv, NEW w \in Workers, DeleteKey(w)
  PROVE  IInv'
<1>1. request[w] \in Requests
  BY Serving DEF DeleteKey, Busy
<1>2. WellFormed' /\ Lasting
  BY IInvWellFormed, RevokeAuthKeyKeeps DEF DeleteKey
<1>3. Response(204, {}) \in Responses
  BY PlainResponses
<1> QED
  BY <1>1, <1>2, <1>3, WriteStep DEF DeleteKey

LEMMA FindUserStep ==
  ASSUME IInv, NEW w \in Workers, FindUser(w)
  PROVE  IInv'
<1>1. request[w] \in Requests
  BY Serving DEF FindUser, Busy
<1>2. WellFormed' /\ Lasting
  BY ReadingKeeps DEF FindUser
<1>3. CASE Answer(w, into_http_response("NotFound"))
  <2>1. into_http_response("NotFound") \in Responses
    BY ErrorResponses DEF ApplicationError
  <2> QED
    BY <1>1, <1>2, <1>3, <2>1, AnswerStep DEF FindUser
<1>4. ASSUME NEW user \in get_user_by_id(request[w].user),
             Answer(w, Response(200, {UserRepresentation(user)}))
      PROVE  IInv'
  <2>1. user \in User
    BY DEF get_user_by_id, IInv, TypeOK, TypedDatabase
  <2>2. Response(200, {UserRepresentation(user)}) \in Responses
    BY <2>1, RepresentationsOfUsers, PlainResponses
  <2> QED
    BY <1>1, <1>2, <1>4, <2>2, AnswerStep DEF FindUser
<1> QED
  BY <1>3, <1>4 DEF FindUser

------------------------------------------------------------------------------
LEMMA ListTasksStep ==
  ASSUME IInv, NEW w \in Workers, ListTasks(w)
  PROVE  IInv'
<1> DEFINE listed == get_tasks_for_user(caller[w].id, request[w].completed)
<1>1. request[w] \in Requests
  BY Serving DEF ListTasks, Busy
<1>2. WellFormed' /\ Lasting
  BY ReadingKeeps DEF ListTasks
<1>3. listed \subseteq Representations
  BY DEF get_tasks_for_user, IInv, TypeOK, TypedDatabase, Representations
<1>4. Response(200, listed) \in Responses
  BY <1>3, PlainResponses
<1> QED
  BY <1>1, <1>2, <1>4, AnswerStep DEF ListTasks

LEMMA InsertTaskStep ==
  ASSUME IInv, NEW w \in Workers, InsertTask(w)
  PROVE  IInv'
<1> DEFINE row == [id |-> next_id("tasks"), owner |-> caller[w].id,
                   title |-> request[w].title,
                   description |-> request[w].description, completed |-> FALSE]
<1>1. /\ request[w] \in Requests /\ request[w] \in AddTaskPayload
      /\ ~Invalid(request[w])
      /\ Knowledge(pc[w], request[w], caller[w], target[w])
  BY Serving, OperationAt DEF InsertTask, Busy
<1>2. caller[w] \in users /\ caller[w] \in User
  BY <1>1 DEF InsertTask, Knowledge, AfterCaller, IInv, TypeOK, TypedDatabase
<1>3. request[w].title \in Titles /\ request[w].description \in Descriptions \cup {None}
  BY <1>1 DEF AddTaskPayload, Invalid
<1>4. next_id("tasks") \in Nat
  BY IInvWellFormed, IdsAreNumbers DEF next_id, Tables
<1>5. row \in Task /\ row.id = next_id("tasks") /\ row.owner = caller[w].id
  BY <1>2, <1>3, <1>4 DEF Task, User
<1>6. insert_task(row) /\ AnswerWrite(w, Response(201, {row}))
  BY DEF InsertTask
<1> HIDE DEF row
<1>7. Response(201, {row}) \in Responses
  <2>1. {row} \in SUBSET Representations
    BY <1>5 DEF Representations
  <2> QED
    BY <2>1, PlainResponses
<1>8. WellFormed' /\ Lasting
  BY <1>2, <1>5, <1>6, IInvWellFormed, InsertTaskKeeps
<1> QED
  BY <1>1, <1>6, <1>7, <1>8, WriteStep DEF InsertTask

\* The two handlers which ask for the permission go on to their own statement.
LEMMA PermittedServes ==
  ASSUME NEW r \in Requests, r.op \in {"get_task_by_id", "update_task_by_id"}
  PROVE  /\ Permitted(r.op) \in Statements(r.op)
         /\ "load_share" \in Statements(r.op)
         /\ Permitted(r.op) \in AfterCaller
         /\ Permitted(r.op) \notin AfterTarget \cup AfterOwner
BY DEF Permitted, Statements, AfterCaller, AfterTarget, AfterOwner

LEMMA PermissionStep ==
  ASSUME IInv, NEW w \in Workers, pc[w] \in {"load_task", "load_share"},
         NEW l \in {Permitted(request[w].op), "load_share"}, Continue(w, l),
         UNCHANGED <<request, caller, target, database>>
  PROVE  IInv'
<1>1. Busy(w)
  BY DEF Busy
<1>2. /\ request[w] \in Requests /\ ~Invalid(request[w])
      /\ request[w].op \in {"get_task_by_id", "update_task_by_id"}
      /\ caller[w] \in User \cup {None} /\ target[w] \in User \cup {None}
      /\ caller' = [caller EXCEPT ![w] = caller[w]]
      /\ target' = [target EXCEPT ![w] = target[w]]
      /\ Knowledge(pc[w], request[w], caller[w], target[w])
  BY <1>1, Serving, OperationAt
<1>3. WellFormed' /\ Lasting
  BY ReadingKeeps
<1>4. caller[w] \in users'
  BY <1>2 DEF Knowledge, AfterCaller, database
<1>5. l \in Statements(request[w].op) /\ l \notin AfterTarget \cup AfterOwner
  BY <1>2, PermittedServes DEF AfterTarget, AfterOwner
<1>6. KnowledgeAfter(l, request[w], caller[w], target[w])
  BY <1>4, <1>5 DEF KnowledgeAfter
<1> QED
  BY <1>2, <1>3, <1>5, <1>6, ContinueStep

LEMMA LoadTaskStep ==
  ASSUME IInv, NEW w \in Workers, LoadTask(w)
  PROVE  IInv'
<1>1. request[w] \in Requests
  BY Serving DEF LoadTask, Busy
<1>2. WellFormed' /\ Lasting
  BY ReadingKeeps DEF LoadTask
<1>3. CASE Answer(w, into_http_response(HideMissing("NotFound")))
  <2>1. into_http_response(HideMissing("NotFound")) \in Responses
    BY ErrorResponses DEF ApplicationError, HideMissing
  <2> QED
    BY <1>1, <1>2, <1>3, <2>1, AnswerStep DEF LoadTask
<1>4. CASE \/ Continue(w, Permitted(request[w].op))
           \/ Continue(w, "load_share")
  BY <1>4, PermissionStep DEF LoadTask
<1> QED
  BY <1>3, <1>4 DEF LoadTask

LEMMA LoadShareStep ==
  ASSUME IInv, NEW w \in Workers, LoadShare(w)
  PROVE  IInv'
<1>1. request[w] \in Requests
  BY Serving DEF LoadShare, Busy
<1>2. WellFormed' /\ Lasting
  BY ReadingKeeps DEF LoadShare
<1>3. CASE Answer(w, into_http_response("Forbidden"))
  <2>1. into_http_response("Forbidden") \in Responses
    BY ErrorResponses DEF ApplicationError
  <2> QED
    BY <1>1, <1>2, <1>3, <2>1, AnswerStep DEF LoadShare
<1>4. CASE Continue(w, Permitted(request[w].op))
  BY <1>4, PermissionStep DEF LoadShare
<1> QED
  BY <1>3, <1>4 DEF LoadShare

LEMMA ReadTaskStep ==
  ASSUME IInv, NEW w \in Workers, ReadTask(w)
  PROVE  IInv'
<1>1. request[w] \in Requests
  BY Serving DEF ReadTask, Busy
<1>2. WellFormed' /\ Lasting
  BY ReadingKeeps DEF ReadTask
<1>3. PICK task \in get_task_by_id(request[w].task) :
        Answer(w, Response(200, {task}))
  BY DEF ReadTask
<1>4. {task} \in SUBSET Representations
  BY DEF get_task_by_id, IInv, TypeOK, TypedDatabase, Representations
<1>5. Response(200, {task}) \in Responses
  BY <1>4, PlainResponses
<1> QED
  BY <1>1, <1>2, <1>3, <1>5, AnswerStep DEF ReadTask

LEMMA UpdateTaskStep ==
  ASSUME IInv, NEW w \in Workers, UpdateTask(w)
  PROVE  IInv'
<1>1. /\ request[w] \in Requests /\ request[w] \in UpdateTaskPayload
      /\ ~Invalid(request[w])
  BY Serving, OperationAt DEF UpdateTask, Busy
<1>2. Changes(request[w])
  BY <1>1 DEF UpdateTaskPayload, Invalid, Changes
<1>3. WellFormed' /\ Lasting
  BY <1>2, IInvWellFormed, UpdateTaskKeeps DEF UpdateTask
<1>4. Response(200, {}) \in Responses
  BY PlainResponses
<1> QED
  BY <1>1, <1>3, <1>4, WriteStep DEF UpdateTask

------------------------------------------------------------------------------
\* The handlers of shares, and the statements which follow the owner's check.
LEMMA ShareOperations ==
  ASSUME NEW r \in Requests,
         r.op \in {"get_task_shares", "put_share", "delete_share"}
  PROVE  /\ (IF r.op = "get_task_shares" THEN "list_shares" ELSE "find_target")
              \in Statements(r.op) \cap (AfterOwner \ AfterTarget)
         /\ r.op # "get_task_shares" =>
              (IF r.op = "put_share" THEN "upsert_share" ELSE "delete_share")
                \in Statements(r.op) \cap AfterOwner \cap AfterTarget
BY DEF Statements, AfterOwner, AfterTarget

LEMMA SharesShown ==
  ASSUME NEW share \in TaskShare, NEW user \in User
  PROVE  Share(share, user) \in Representations
<1>1. /\ share.id \in Nat /\ share.permission \in SharePermission
      /\ user.username \in Usernames
  BY DEF TaskShare, User
<1> QED
  BY <1>1 DEF Share, Representations

LEMMA CheckOwnerStep ==
  ASSUME IInv, NEW w \in Workers, CheckOwner(w)
  PROVE  IInv'
<1> DEFINE owned == require_task_owner(caller[w].id, request[w].task)
           l == IF request[w].op = "get_task_shares"
                THEN "list_shares" ELSE "find_target"
<1>1. /\ request[w] \in Requests /\ ~Invalid(request[w])
      /\ request[w].op \in {"get_task_shares", "put_share", "delete_share"}
      /\ caller[w] \in User \cup {None} /\ target[w] \in User \cup {None}
      /\ caller' = [caller EXCEPT ![w] = caller[w]]
      /\ target' = [target EXCEPT ![w] = target[w]]
      /\ Knowledge("check_owner", request[w], caller[w], target[w])
  BY Serving, OperationAt DEF CheckOwner, Busy
<1>2. WellFormed' /\ Lasting /\ users' = users /\ tasks' = tasks
  BY ReadingKeeps DEF CheckOwner, database
<1>3. CASE Answer(w, into_http_response("Forbidden"))
  <2>1. into_http_response("Forbidden") \in Responses
    BY ErrorResponses DEF ApplicationError
  <2> QED
    BY <1>1, <1>2, <1>3, <2>1, AnswerStep DEF CheckOwner
<1>4. CASE owned # {} /\ Continue(w, l)
  <2>1. \E t \in tasks : t.id = request[w].task /\ t.owner = caller[w].id
    BY <1>4 DEF require_task_owner, get_task_by_id
  <2>2. caller[w] \in users
    BY <1>1 DEF Knowledge, AfterCaller
  <2>3. l \in Statements(request[w].op) \cap (AfterOwner \ AfterTarget)
    BY <1>1, ShareOperations
  <2>4. KnowledgeAfter(l, request[w], caller[w], target[w])
    BY <1>2, <2>1, <2>2, <2>3 DEF KnowledgeAfter
  <2>5. UNCHANGED request
    BY DEF CheckOwner
  <2> HIDE DEF l
  <2> QED
    BY <1>1, <1>2, <1>4, <2>3, <2>4, <2>5, ContinueStep
<1> QED
  BY <1>3, <1>4 DEF CheckOwner

LEMMA ListSharesStep ==
  ASSUME IInv, NEW w \in Workers, ListShares(w)
  PROVE  IInv'
<1> DEFINE listed == list_shares_for_task(request[w].task)
<1>1. request[w] \in Requests
  BY Serving DEF ListShares, Busy
<1>2. WellFormed' /\ Lasting
  BY ReadingKeeps DEF ListShares
<1>3. ASSUME NEW p \in with_its_user(request[w].task)
      PROVE  Share(p[1], p[2]) \in Representations
  BY SharesShown DEF with_its_user, IInv, TypeOK, TypedDatabase
<1>4. listed \in SUBSET Representations
  BY <1>3 DEF list_shares_for_task
<1>5. Response(200, listed) \in Responses
  BY <1>4, PlainResponses
<1> QED
  BY <1>1, <1>2, <1>5, AnswerStep DEF ListShares

LEMMA FindTargetStep ==
  ASSUME IInv, NEW w \in Workers, FindTarget(w)
  PROVE  IInv'
<1> DEFINE l == IF request[w].op = "put_share"
                THEN "upsert_share" ELSE "delete_share"
<1>1. /\ request[w] \in Requests /\ ~Invalid(request[w])
      /\ request[w].op \in {"put_share", "delete_share"}
      /\ caller[w] \in User \cup {None}
      /\ caller = [caller EXCEPT ![w] = caller[w]]
      /\ Knowledge("find_target", request[w], caller[w], target[w])
  BY Serving, OperationAt DEF FindTarget, Busy
<1>2. WellFormed' /\ Lasting /\ users' = users /\ tasks' = tasks
  BY ReadingKeeps DEF FindTarget, database
<1>3. CASE Answer(w, into_http_response("NotFound")) /\ UNCHANGED target
  <2>1. into_http_response("NotFound") \in Responses
    BY ErrorResponses DEF ApplicationError
  <2> QED
    BY <1>1, <1>2, <1>3, <2>1, AnswerStep DEF FindTarget
<1>4. ASSUME NEW user \in get_user_by_name(request[w].username),
             target' = [target EXCEPT ![w] = user], Continue(w, l)
      PROVE  IInv'
  <2>1. user \in users /\ user \in User
    BY DEF get_user_by_name, IInv, TypeOK, TypedDatabase
  <2>2. l \in Statements(request[w].op) \cap AfterOwner \cap AfterTarget
    BY <1>1, ShareOperations
  <2>3. KnowledgeAfter(l, request[w], caller[w], user)
    BY <1>1, <1>2, <2>1 DEF Knowledge, KnowledgeAfter, AfterCaller, AfterOwner
  <2>4. UNCHANGED request /\ caller' = [caller EXCEPT ![w] = caller[w]]
    BY <1>1 DEF FindTarget
  <2> HIDE DEF l
  <2> QED
    BY <1>1, <1>2, <1>4, <2>1, <2>2, <2>3, <2>4, ContinueStep
<1> QED
  BY <1>3, <1>4 DEF FindTarget

\* Inserting or replacing a share, for the owner and a target who is there.
LEMMA UpsertShareStep ==
  ASSUME IInv, NEW w \in Workers, UpsertShare(w)
  PROVE  IInv'
<1> DEFINE row == [id |-> next_id("task_shares"), task_id |-> request[w].task,
                   user_id |-> target[w].id, permission |-> request[w].permission]
           present == conflict(request[w].task, target[w].id)
<1>1. /\ request[w] \in Requests /\ request[w] \in SharePayload
      /\ ~Invalid(request[w])
      /\ Knowledge("upsert_share", request[w], caller[w], target[w])
  BY Serving, OperationAt DEF UpsertShare, Busy
<1>2. /\ target[w] \in users /\ target[w] \in User
      /\ \E t \in tasks : t.id = request[w].task
  BY <1>1 DEF Knowledge, AfterTarget, AfterOwner, IInv, TypeOK, TypedDatabase
<1>3. request[w].task \in Nat /\ request[w].permission \in SharePermission
  BY <1>1 DEF SharePayload, Invalid
<1>4. next_id("task_shares") \in Nat
  BY IInvWellFormed, IdsAreNumbers DEF next_id, Tables
<1>5. /\ row \in TaskShare /\ row.id = next_id("task_shares")
      /\ row.task_id = request[w].task /\ row.user_id = target[w].id
  BY <1>2, <1>3, <1>4 DEF TaskShare, User
<1> HIDE DEF row
<1>6. CASE present = {} /\ insert_share(row)
           /\ AnswerWrite(w, Response(201, {Share(row, target[w])}))
  <2>1. WellFormed' /\ Lasting
    BY <1>2, <1>5, <1>6, IInvWellFormed, InsertShareKeeps
  <2>2. Response(201, {Share(row, target[w])}) \in Responses
    BY <1>2, <1>5, SharesShown, PlainResponses
  <2> QED
    BY <1>1, <1>6, <2>1, <2>2, WriteStep DEF UpsertShare
<1>7. ASSUME NEW share \in present,
             replace_share(share, request[w].permission),
             AnswerWrite(w, Response(200, {Share([row EXCEPT !.id = share.id],
                                                 target[w])}))
      PROVE  IInv'
  <2> DEFINE replaced == [row EXCEPT !.id = share.id]
  <2>1. share \in task_shares /\ share \in TaskShare
    BY DEF conflict, shares_of, IInv, TypeOK, TypedDatabase
  <2>2. WellFormed' /\ Lasting
    BY <1>3, <1>7, <2>1, IInvWellFormed, ReplaceShareKeeps
  <2>3. replaced \in TaskShare
    BY <1>5, <2>1 DEF TaskShare
  <2> HIDE DEF replaced
  <2>4. Response(200, {Share(replaced, target[w])}) \in Responses
    BY <1>2, <2>3, SharesShown, PlainResponses
  <2> QED
    BY <1>1, <1>7, <2>2, <2>4, WriteStep DEF UpsertShare, replaced
<1> QED
  BY <1>6, <1>7 DEF UpsertShare, row

LEMMA DeleteShareStep ==
  ASSUME IInv, NEW w \in Workers, DeleteShare(w)
  PROVE  IInv'
<1>1. request[w] \in Requests
  BY Serving DEF DeleteShare, Busy
<1>2. WellFormed' /\ Lasting
  BY IInvWellFormed, DeleteShareKeeps DEF DeleteShare
<1>3. Response(204, {}) \in Responses
  BY PlainResponses
<1> QED
  BY <1>1, <1>2, <1>3, WriteStep DEF DeleteShare

------------------------------------------------------------------------------
LEMMA FailStep ==
  ASSUME IInv, NEW w \in Workers, Fail(w)
  PROVE  IInv'
<1>1. request[w] \in Requests
  BY Serving DEF Fail
<1>2. WellFormed' /\ Lasting
  BY ReadingKeeps DEF Fail
<1>3. into_http_response("QueryFailed") \in Responses
  BY ErrorResponses DEF ApplicationError
<1> QED
  BY <1>1, <1>2, <1>3, AnswerStep DEF Fail

LEMMA DeliverStep ==
  ASSUME IInv, NEW w \in Workers, Deliver(w)
  PROVE  IInv'
<1>1. WellFormed' /\ Lasting
  BY ReadingKeeps DEF Deliver, Reset
<1>2. "idle" \in ProgramPoints /\ ThreadOK("idle", None, None)
  BY DEF ProgramPoints, ThreadOK
<1>3. KnowledgeAfter("idle", None, None, None)
  BY NothingToKnow
<1> QED
  BY <1>1, <1>2, <1>3, WorkerStep DEF Deliver, Reset

LEMMA NoHandlers ==
  ASSUME WellFormed',
         pc' = [w \in Workers |-> "idle"],
         request' = [w \in Workers |-> None],
         caller' = [w \in Workers |-> None],
         target' = [w \in Workers |-> None],
         answer' = [w \in Workers |-> None]
  PROVE  IInv'
<1>1. TypeOK'
  BY DEF TypeOK, WellFormed, ThreadOK, ProgramPoints
<1>2. HandlersKnowledgeHolds'
  BY DEF HandlersKnowledgeHolds, Knowledge, AfterCaller, AfterTarget, AfterOwner
<1> QED
  BY <1>1, <1>2 DEF IInv, Integrity, WellFormed

LEMMA CrashStep ==
  ASSUME IInv, Crash
  PROVE  IInv'
BY ReadingKeeps, NoHandlers DEF Crash

\* A step which leaves every handler where it is.
LEMMA HandlersWait ==
  ASSUME IInv, WellFormed', Lasting, UNCHANGED threads
  PROVE  IInv'
<1>1. TypeOK'
  BY DEF IInv, TypeOK, WellFormed, threads
<1>2. HandlersKnowledgeHolds'
  BY DEF IInv, HandlersKnowledgeHolds, Knowledge, Lasting, threads
<1> QED
  BY <1>1, <1>2 DEF IInv, Integrity, WellFormed

LEMMA PassTimeStep ==
  ASSUME IInv, PassTime
  PROVE  IInv'
BY IInvWellFormed, TickKeeps, HandlersWait DEF PassTime

------------------------------------------------------------------------------
LEMMA InitialIInv ==
  ASSUME Init
  PROVE  IInv
<1>1. WellFormed
  BY InitialWellFormed DEF Init
<1>2. TypeOK
  BY <1>1 DEF Init, TypeOK, WellFormed, ThreadOK, ProgramPoints
<1>3. HandlersKnowledgeHolds
  BY DEF Init, HandlersKnowledgeHolds, Knowledge, AfterCaller, AfterTarget,
     AfterOwner
<1> QED
  BY <1>1, <1>2, <1>3 DEF IInv, Integrity, WellFormed

LEMMA StatementStep ==
  ASSUME IInv, NEW w \in Workers, Statement(w)
  PROVE  IInv'
BY AuthenticateStep, InsertUserStep, FindAccountStep, InsertKeyStep,
   DeleteKeyStep, FindUserStep, ListTasksStep, InsertTaskStep, LoadTaskStep,
   LoadShareStep, ReadTaskStep, UpdateTaskStep, CheckOwnerStep, ListSharesStep,
   FindTargetStep, UpsertShareStep, DeleteShareStep
   DEF Statement

\* Every step of every worker, a crash and the passing of time keep the
\* invariant.
LEMMA NextKeepsIInv ==
  ASSUME IInv, [Next]_vars
  PROVE  IInv'
<1>1. CASE \E w \in Workers :
             Receive(w) \/ Statement(w) \/ Fail(w) \/ Deliver(w)
  BY <1>1, ReceiveStep, StatementStep, FailStep, DeliverStep
<1>2. CASE Crash
  BY <1>2, CrashStep
<1>3. CASE PassTime
  BY <1>3, PassTimeStep
<1>4. CASE UNCHANGED vars
  BY <1>4, ReadingKeeps, HandlersWait DEF vars, threads
<1> QED
  BY <1>1, <1>2, <1>3, <1>4 DEF Next

\* The invariant of the handlers: whatever requests arrive and however the
\* workers interleave, fail or die, the state has its types, the database
\* satisfies its schema, and no handler acts on something which is gone.
THEOREM Safety == Spec => []IInv
<1>1. Init => IInv
  BY InitialIInv
<1>2. IInv /\ [Next]_vars => IInv'
  BY NextKeepsIInv
<1> QED
  BY <1>1, <1>2, PTL DEF Spec

\* Every response has one of the statuses and challenges of web_api.rs, and
\* shows representations only: a password's hash never leaves the server.
THEOREM TypeCorrect == Spec => []TypeOK
<1>1. IInv => TypeOK
  BY DEF IInv
<1> QED
  BY <1>1, Safety, PTL

\* The handlers alone keep every constraint of the schema: the unique names,
\* keys and shares, the primary keys and the foreign keys.
THEOREM IntegrityHolds == Spec => []Integrity
<1>1. IInv => Integrity
  BY DEF IInv
<1> QED
  BY <1>1, Safety, PTL

\* What a handler checked in an earlier statement is still true at the one
\* which relies on it: its caller and target exist, and its caller owns the
\* task whose shares it reads or writes.
THEOREM KnowledgeHolds == Spec => []HandlersKnowledgeHolds
<1>1. IInv => HandlersKnowledgeHolds
  BY DEF IInv
<1> QED
  BY <1>1, Safety, PTL

------------------------------------------------------------------------------
(***************************************************************************)
(* What a step can do to the tables.                                       *)
(***************************************************************************)
Rows == <<users, auth_keys, tasks, task_shares, minted>>

\* A handler is at a statement of its own which changes rows.
Writing(w) ==
  \/ InsertUser(w) \/ InsertKey(w) \/ DeleteKey(w) \/ InsertTask(w)
  \/ UpdateTask(w) \/ UpsertShare(w) \/ DeleteShare(w)

\* Only seven statements change rows, and only handlers send them.
LEMMA OnlyStatementsWrite ==
  ASSUME [Next]_vars, ~UNCHANGED Rows
  PROVE  \E w \in Workers : Writing(w)
<1>1. ASSUME NEW w \in Workers, Receive(w) \/ Fail(w) \/ Deliver(w)
      PROVE  FALSE
  BY <1>1 DEF Receive, Begin, Fail, Deliver, Reset, database, Rows
<1>2. ASSUME NEW w \in Workers, Statement(w)
      PROVE  Writing(w)
  BY <1>2 DEF Statement, Writing, Authenticate, FindAccount, FindUser, ListTasks,
     LoadTask, LoadShare, ReadTask, CheckOwner, ListShares, FindTarget, database,
     Rows
<1>3. ~Crash /\ ~PassTime /\ ~UNCHANGED vars
  BY DEF Crash, PassTime, Tick, vars, database, Rows
<1> QED
  BY <1>1, <1>2, <1>3 DEF Next

\* What the accounts of finished requests rely on: accounts and tasks stay, and
\* a key which was once drawn, or which a client made up, gets no new row.
Durable ==
  /\ Lasting
  /\ minted \subseteq minted'
  /\ \A k \in auth_keys' : k \in auth_keys \/ k.key \notin minted \cup OtherKeys

LEMMA StatementsAreDurable ==
  ASSUME IInv, NEW w \in Workers, Writing(w)
  PROVE  Durable
<1>1. CASE InsertUser(w)
  BY <1>1 DEF InsertUser, insert_user, DrawUserId, Durable, Lasting, database
<1>2. CASE InsertKey(w)
  BY <1>2 DEF InsertKey, insert_auth_key, fresh_keys, Durable, Lasting
<1>3. CASE DeleteKey(w)
  BY <1>3 DEF DeleteKey, revoke_auth_key, Durable, Lasting
<1>4. CASE InsertTask(w)
  BY <1>4 DEF InsertTask, insert_task, Durable, Lasting
<1>5. CASE UpdateTask(w)
  <2>1. request[w] \in UpdateTaskPayload /\ ~Invalid(request[w])
    BY <1>5, Serving, OperationAt DEF UpdateTask, Busy
  <2>2. Changes(request[w])
    BY <2>1 DEF UpdateTaskPayload, Invalid, Changes
  <2>3. Lasting
    BY <1>5, <2>2, IInvWellFormed, UpdateTaskKeeps DEF UpdateTask
  <2> QED
    BY <1>5, <2>3 DEF UpdateTask, update_task, Durable
<1>6. CASE UpsertShare(w)
  BY <1>6 DEF UpsertShare, insert_share, replace_share, Durable, Lasting
<1>7. CASE DeleteShare(w)
  BY <1>7 DEF DeleteShare, delete_share, Durable, Lasting
<1> QED
  BY <1>1, <1>2, <1>3, <1>4, <1>5, <1>6, <1>7 DEF Writing

LEMMA StepsAreDurable ==
  ASSUME IInv, [Next]_vars
  PROVE  Durable
<1>1. CASE UNCHANGED Rows
  BY <1>1 DEF Durable, Lasting, Rows
<1>2. CASE ~UNCHANGED Rows
  BY <1>2, OnlyStatementsWrite, StatementsAreDurable
<1> QED
  BY <1>1, <1>2

------------------------------------------------------------------------------
(***************************************************************************)
(* What is known of the worker which takes a step, and of the others.      *)
(***************************************************************************)
\* A worker which has authenticated its caller knows who it is.
LEMMA CallerIsKnown ==
  ASSUME IInv, NEW w \in Workers, pc[w] \in AfterCaller
  PROVE  caller[w] \in users /\ caller[w] \in User /\ caller[w] # None
<1>1. caller[w] \in users
  BY DEF IInv, HandlersKnowledgeHolds, Knowledge
<1>2. users \subseteq User
  BY DEF IInv, TypeOK, TypedDatabase
<1> QED
  BY <1>1, <1>2, NoneAssumption

LEMMA TargetIsKnown ==
  ASSUME IInv, NEW w \in Workers, pc[w] \in AfterTarget
  PROVE  target[w] \in users /\ target[w] \in User
BY DEF IInv, HandlersKnowledgeHolds, Knowledge, TypeOK, TypedDatabase

\* The statement a worker is at says which operation it serves.
LEMMA ServedOperation ==
  ASSUME NEW r \in Requests, NEW statement \in Statements(r.op)
  PROVE  /\ statement = "authenticate" =>
              r.op \notin {"create_user", "create_auth_key", "delete_auth_key"}
         /\ statement = "insert_user" => r.op = "create_user"
         /\ statement \in {"find_account", "insert_key"} => r.op = "create_auth_key"
         /\ statement = "delete_key" => r.op = "delete_auth_key"
         /\ statement = "find_user" => r.op = "get_user"
         /\ statement = "list_tasks" => r.op = "get_tasks"
         /\ statement = "insert_task" => r.op = "add_task"
         /\ statement \in {"load_task", "load_share"} =>
              r.op \in {"get_task_by_id", "update_task_by_id"}
         /\ statement = "read_task" => r.op = "get_task_by_id"
         /\ statement = "update_task" => r.op = "update_task_by_id"
         /\ statement = "check_owner" =>
              r.op \in {"get_task_shares", "put_share", "delete_share"}
         /\ statement = "list_shares" => r.op = "get_task_shares"
         /\ statement = "find_target" => r.op \in {"put_share", "delete_share"}
         /\ statement = "upsert_share" => r.op = "put_share"
         /\ statement = "delete_share" => r.op = "delete_share"
<1> USE DEF Statements
<1>1. CASE r.op \in {"create_user", "create_auth_key", "delete_auth_key"}
  BY <1>1
<1>2. CASE r.op \in {"get_current_user", "get_user", "get_tasks", "add_task"}
  BY <1>2
<1>3. CASE r.op \in {"get_task_by_id", "update_task_by_id"}
  BY <1>3
<1>4. CASE r.op \in {"get_task_shares", "put_share", "delete_share"}
  BY <1>4
<1> HIDE DEF Statements
<1> QED
  BY <1>1, <1>2, <1>3, <1>4, RequestKinds

\* The status of each error.
LEMMA ErrorAnswers ==
  /\ into_http_response("QueryFailed").status = 500
  /\ into_http_response("InvalidData").status = 400
  /\ into_http_response("InvalidAuthKey").status = 401
  /\ into_http_response("Forbidden").status = 403
  /\ into_http_response("NotFound").status = 404
  /\ into_http_response("UserExists").status = 409
  /\ into_basic_http_response("InvalidPassword").status = 401
  /\ with_challenge(Response(401, {}), "Basic").status = 401
<1>1. ASSUME NEW status, NEW challenge
      PROVE  with_challenge(Response(status, {}), challenge).status = status
  <2>1. Response(status, {}) =
          [status |-> status, challenge |-> "none", body |-> {}]
    BY DEF Response
  <2> QED
    BY <2>1 DEF with_challenge
<1>2. /\ into_status_response("QueryFailed") = Response(500, {})
      /\ into_status_response("InvalidData") = Response(400, {})
      /\ into_status_response("InvalidAuthKey") = Response(401, {})
      /\ into_status_response("InvalidPassword") = Response(401, {})
  BY DEF into_status_response
<1>3. /\ into_status_response("Forbidden") = Response(403, {})
      /\ into_status_response("NotFound") = Response(404, {})
      /\ into_status_response("UserExists") = Response(409, {})
  BY DEF into_status_response
<1> QED
  BY <1>1, <1>2, <1>3 DEF into_http_response, into_basic_http_response

\* A worker's step leaves the threads of the others alone.
OthersWait(w) ==
  \A v \in Workers \ {w} :
    /\ pc'[v] = pc[v] /\ request'[v] = request[v] /\ caller'[v] = caller[v]
    /\ target'[v] = target[v] /\ answer'[v] = answer[v]

LEMMA OthersWaitForOne ==
  ASSUME IInv, NEW w \in Workers,
         Receive(w) \/ Statement(w) \/ Fail(w) \/ Deliver(w)
  PROVE  OthersWait(w)
<1> USE DEF IInv, TypeOK, OthersWait, Answer, Continue, AnswerWrite
<1>1. CASE Receive(w)
  BY <1>1 DEF Receive, Begin
<1>2. CASE Fail(w)
  BY <1>2 DEF Fail
<1>3. CASE Deliver(w)
  BY <1>3 DEF Deliver, Reset
<1>4. CASE Authenticate(w)
  <2>1. ASSUME NEW user, caller' = [caller EXCEPT ![w] = user],
               NEW statement, pc' = [pc EXCEPT ![w] = statement],
               NEW response, \/ UNCHANGED answer
                             \/ answer' = [answer EXCEPT ![w] = response],
               UNCHANGED <<request, target>>
        PROVE  OthersWait(w)
    BY <2>1
  <2>2. CASE UNCHANGED caller /\ Answer(w, into_http_response("InvalidAuthKey"))
    BY <1>4, <2>2 DEF Authenticate
  <2> QED
    BY <1>4, <2>1, <2>2 DEF Authenticate
<1>5. CASE InsertUser(w)
  BY <1>5 DEF InsertUser
<1>6. CASE FindAccount(w)
  BY <1>6 DEF FindAccount
<1>7. CASE InsertKey(w)
  BY <1>7 DEF InsertKey
<1>8. CASE DeleteKey(w)
  BY <1>8 DEF DeleteKey
<1>9. CASE FindUser(w)
  BY <1>9 DEF FindUser
<1>10. CASE ListTasks(w)
  BY <1>10 DEF ListTasks
<1>11. CASE InsertTask(w)
  BY <1>11 DEF InsertTask
<1>12. CASE LoadTask(w)
  BY <1>12 DEF LoadTask
<1>13. CASE LoadShare(w)
  BY <1>13 DEF LoadShare
<1>14. CASE ReadTask(w)
  BY <1>14 DEF ReadTask
<1>15. CASE UpdateTask(w)
  BY <1>15 DEF UpdateTask
<1>16. CASE CheckOwner(w)
  BY <1>16 DEF CheckOwner
<1>17. CASE ListShares(w)
  BY <1>17 DEF ListShares
<1>18. CASE FindTarget(w)
  BY <1>18 DEF FindTarget
<1>19. CASE UpsertShare(w)
  BY <1>19 DEF UpsertShare
<1>20. CASE DeleteShare(w)
  BY <1>20 DEF DeleteShare
<1> QED
  BY <1>1, <1>2, <1>3, <1>4, <1>5, <1>6, <1>7, <1>8, <1>9, <1>10, <1>11,
     <1>12, <1>13, <1>14, <1>15, <1>16, <1>17, <1>18, <1>19, <1>20
     DEF Statement

==============================================================================
