-------------------------------- MODULE Store --------------------------------
(***************************************************************************)
(* The PostgreSQL database behind the todo API: the four tables the        *)
(* migrations create, with the rows they hold, the sequences which number  *)
(* them and the clock the server reads as now().  Every statement the code *)
(* sends is its own transaction, so one statement is one atomic change of  *)
(* this state; the queries are operators and the writes are actions, and   *)
(* module Api says which handler issues which of them, in what order.      *)
(***************************************************************************)
EXTENDS Naturals

CONSTANTS
  Usernames,        \* texts which pass Username::new
  Passwords,        \* cleartext passwords
  Keys,             \* version 4 UUIDs, as texts
  OtherKeys,        \* texts clients present as keys which are never drawn
  Titles,           \* texts which pass TaskTitle::new
  Descriptions,     \* task descriptions
  None,             \* Option::None, and NULL in a column
  TooLong,          \* what varchar(255) makes of a text it refuses
  Varchar255,       \* what varchar(255) stores for each username
  Lifetime,         \* how long an auth key works: 30 days
  MaxTime,          \* BOUND on the clock
  MaxId,            \* the last value of each serial column
  InitialDatabase   \* the rows the server starts on

VARIABLES
  users, auth_keys, tasks, task_shares,   \* the tables, as sets of rows
  sequence,                               \* next value of each table's serial
  minted,                                 \* every UUID generated so far
  now                                     \* the database server's clock

database == <<users, auth_keys, tasks, task_shares, sequence, minted, now>>

Tables == {"users", "auth_keys", "tasks", "task_shares"}

SharePermission == {"read", "read_write"}

\* A stored password is an argon2 hash; it reveals only whether a cleartext
\* password verifies against it.
HashedPassword == [hash_of : Passwords]
hash_password(password) == [hash_of |-> password]
verify_password(password, hashed) == hashed.hash_of = password

User == [id : Nat, username : Usernames, password : HashedPassword]
AuthKey == [id : Nat, user_id : Nat, key : Keys, expiration : Nat]
Task == [id : Nat, owner : Nat, title : Titles,
         description : Descriptions \cup {None}, completed : BOOLEAN]
TaskShare == [id : Nat, task_id : Nat, user_id : Nat,
              permission : SharePermission]

------------------------------------------------------------------------------
(***************************************************************************)
(* What the schema asks of the tables.                                     *)
(***************************************************************************)
PrimaryKey(table, next) ==
  /\ \A row \in table : row.id < next
  /\ \A r, s \in table : r.id = s.id => r = s

UniqueUsernames(us) == \A u, v \in us : u.username = v.username => u = v

UniqueKeys(ks) == \A k, l \in ks : k.key = l.key => k = l

UniqueShares(ss) ==
  \A r, s \in ss : r.task_id = s.task_id /\ r.user_id = s.user_id => r = s

KeysReferToUsers(ks, us) == \A k \in ks : \E u \in us : k.user_id = u.id

TasksReferToUsers(ts, us) == \A t \in ts : \E u \in us : t.owner = u.id

SharesReferToTasks(ss, ts) == \A s \in ss : \E t \in ts : s.task_id = t.id

SharesReferToUsers(ss, us) == \A s \in ss : \E u \in us : s.user_id = u.id

\* A key which is in the table was generated by the server before.
MintedKeys(ks, generated) == \A k \in ks : k.key \in generated

TypedDatabase(us, ks, ts, ss, next, generated) ==
  /\ us \subseteq User
  /\ ks \subseteq AuthKey
  /\ ts \subseteq Task
  /\ ss \subseteq TaskShare
  /\ next \in [Tables -> Nat]
  /\ generated \subseteq Keys

ConsistentDatabase(us, ks, ts, ss, next, generated) ==
  /\ PrimaryKey(us, next["users"]) /\ UniqueUsernames(us)
  /\ PrimaryKey(ks, next["auth_keys"]) /\ UniqueKeys(ks)
  /\ MintedKeys(ks, generated)
  /\ KeysReferToUsers(ks, us)
  /\ PrimaryKey(ts, next["tasks"])
  /\ TasksReferToUsers(ts, us)
  /\ PrimaryKey(ss, next["task_shares"]) /\ UniqueShares(ss)
  /\ SharesReferToTasks(ss, ts)
  /\ SharesReferToUsers(ss, us)

ASSUME NoneAssumption ==
  /\ None \notin Titles
  /\ None \notin Descriptions
  /\ None \notin BOOLEAN
  /\ None \notin User

ASSUME ColumnAssumption ==
  /\ TooLong \notin Usernames
  /\ Varchar255 \in [Usernames -> Usernames \cup {TooLong}]

ASSUME BoundAssumption ==
  /\ Lifetime \in Nat
  /\ MaxTime \in Nat
  /\ MaxId \in [Tables -> Nat]

ASSUME InitialAssumption ==
  LET db == InitialDatabase IN
    /\ TypedDatabase(db.users, db.auth_keys, db.tasks, db.task_shares,
                     db.sequence, db.minted)
    /\ ConsistentDatabase(db.users, db.auth_keys, db.tasks, db.task_shares,
                          db.sequence, db.minted)

StoreInit ==
  /\ users = InitialDatabase.users
  /\ auth_keys = InitialDatabase.auth_keys
  /\ tasks = InitialDatabase.tasks
  /\ task_shares = InitialDatabase.task_shares
  /\ sequence = InitialDatabase.sequence
  /\ minted = InitialDatabase.minted
  /\ now = 0

------------------------------------------------------------------------------
(***************************************************************************)
(* The SELECT statements, one operator per query of core.rs.               *)
(***************************************************************************)
\* Mutant: the filter on the expiration is missing.
auth_key_to_user_IgnoringExpiration(key) ==
  {u \in users : \E k \in auth_keys : k.key = key /\ k.user_id = u.id}

\* Mutant: the clocks which write and read the expiration differ.
auth_key_to_user_HourOff(key) ==
  {u \in users : \E k \in auth_keys : /\ k.key = key
                                      /\ k.user_id = u.id
                                      /\ k.expiration > now + 1}

auth_key_to_user(key) ==
  {u \in users : \E k \in auth_keys : /\ k.key = key
                                      /\ k.user_id = u.id
                                      /\ k.expiration > now}

get_user_by_id(id) == {u \in users : u.id = id}

get_user_by_name(name) == {u \in users : u.username = name}

\* Mutant: the table has no unique constraint.
username_taken_Unconstrained(name) == FALSE

\* The constraint usernames_are_unique refuses this name.
username_taken(name) == get_user_by_name(name) # {}

get_task_by_id(id) == {t \in tasks : t.id = id}

\* Mutant: whoever may write the task passes for its owner.
require_task_owner_OrWriter(user, task) ==
  {t \in get_task_by_id(task) :
     \/ t.owner = user
     \/ \E s \in task_shares : /\ s.task_id = task /\ s.user_id = user
                               /\ s.permission = "read_write"}

\* The task, when this user owns it.
require_task_owner(user, task) == {t \in get_task_by_id(task) : t.owner = user}

\* The share rows get_task_permission loads for a user who is not the owner.
shares_of(task, user) ==
  {s \in task_shares : s.task_id = task /\ s.user_id = user}

\* Mutant: the table has no unique constraint.
conflict_Unconstrained(task, user) == {}

\* The row which is in the way of inserting a share: UNIQUE (task_id, user_id).
conflict(task, user) == shares_of(task, user)

shares_with(user) == {s \in task_shares : s.user_id = user}

shared_task_ids(user) == {s.task_id : s \in shares_with(user)}

\* Mutant: the filter binds to the shared tasks only.
get_tasks_for_user_Precedence(user, completed) ==
  {t \in tasks : \/ t.owner = user
                 \/ /\ t.id \in shared_task_ids(user)
                    /\ completed = None \/ t.completed = completed}

get_tasks_for_user(user, completed) ==
  {t \in tasks : /\ t.owner = user \/ t.id \in shared_task_ids(user)
                 /\ completed = None \/ t.completed = completed}

\* task_shares joined with users: each share with the name of its user.
Share(share, user) ==
  [id |-> share.id, username |-> user.username, permission |-> share.permission]

with_its_user(task) ==
  {p \in task_shares \X users : p[1].task_id = task /\ p[1].user_id = p[2].id}

list_shares_for_task(task) == {Share(p[1], p[2]) : p \in with_its_user(task)}

------------------------------------------------------------------------------
(***************************************************************************)
(* The statements which write.  Each INSERT first draws the id from the    *)
(* table's sequence, which is not transactional: a draw is never undone.   *)
(***************************************************************************)
next_id(table) == sequence[table]

HasIds(table) == sequence[table] <= MaxId[table]

DrawId(table) == sequence' = [sequence EXCEPT ![table] = @ + 1]

insert_user(row) ==
  /\ users' = users \cup {row}
  /\ DrawId("users")
  /\ UNCHANGED <<auth_keys, tasks, task_shares, minted, now>>

\* An INSERT into users which fails after its id was drawn.
DrawUserId ==
  /\ DrawId("users")
  /\ UNCHANGED <<users, auth_keys, tasks, task_shares, minted, now>>

\* Mutant: a key is new only among the rows there are.
fresh_keys_AmongRowsOnly == Keys \ ({k.key : k \in auth_keys} \cup OtherKeys)

\* What Uuid::new_v4 may draw: never a text which was a key before, nor one a
\* client made up.
fresh_keys == Keys \ (minted \cup OtherKeys)

insert_auth_key(user, key) ==
  /\ auth_keys' = auth_keys \cup
       {[id |-> next_id("auth_keys"), user_id |-> user, key |-> key,
         expiration |-> now + Lifetime]}
  /\ minted' = minted \cup {key}
  /\ DrawId("auth_keys")
  /\ UNCHANGED <<users, tasks, task_shares, now>>

\* Mutant: the row is made to expire instead of deleted.
revoke_auth_key_ByExpiring(key) ==
  /\ auth_keys' = {IF k.key = key THEN [k EXCEPT !.expiration = now + 1] ELSE k
                     : k \in auth_keys}
  /\ UNCHANGED <<users, tasks, task_shares, sequence, minted, now>>

revoke_auth_key(key) ==
  /\ auth_keys' = {k \in auth_keys : k.key # key}
  /\ UNCHANGED <<users, tasks, task_shares, sequence, minted, now>>

insert_task(row) ==
  /\ tasks' = tasks \cup {row}
  /\ DrawId("tasks")
  /\ UNCHANGED <<users, auth_keys, task_shares, minted, now>>

\* Mutant: a description which is not given is cleared.
changed_NoneIsNull(task, changes) ==
  [task EXCEPT
     !.title = IF changes.title = None THEN @ ELSE changes.title,
     !.description = changes.description,
     !.completed = IF changes.completed = None THEN @ ELSE changes.completed]

\* Mutant: completing a task which is completed opens it again.
changed_Toggling(task, changes) ==
  [task EXCEPT
     !.title = IF changes.title = None THEN @ ELSE changes.title,
     !.description = IF changes.description = None THEN @ ELSE changes.description,
     !.completed = IF changes.completed = None THEN @ ELSE @ # changes.completed]

\* The row an UPDATE with this changeset leaves: a field which is None is left
\* out of the SET clause.
changed(task, changes) ==
  [task EXCEPT
     !.title = IF changes.title = None THEN @ ELSE changes.title,
     !.description = IF changes.description = None THEN @ ELSE changes.description,
     !.completed = IF changes.completed = None THEN @ ELSE changes.completed]

update_task(id, changes) ==
  /\ tasks' = {IF t.id = id THEN changed(t, changes) ELSE t : t \in tasks}
  /\ UNCHANGED <<users, auth_keys, task_shares, sequence, minted, now>>

\* INSERT ... ON CONFLICT (task_id, user_id) DO UPDATE: both outcomes draw an
\* id, and only the insertion uses it.
insert_share(row) ==
  /\ task_shares' = task_shares \cup {row}
  /\ DrawId("task_shares")
  /\ UNCHANGED <<users, auth_keys, tasks, minted, now>>

replace_share(share, permission) ==
  /\ task_shares' = (task_shares \ {share})
                      \cup {[share EXCEPT !.permission = permission]}
  /\ DrawId("task_shares")
  /\ UNCHANGED <<users, auth_keys, tasks, minted, now>>

delete_share(task, user) ==
  /\ task_shares' = task_shares \ shares_of(task, user)
  /\ UNCHANGED <<users, auth_keys, tasks, sequence, minted, now>>

\* Time passes, up to the bound.
Tick ==
  /\ now < MaxTime
  /\ now' = now + 1
  /\ UNCHANGED <<users, auth_keys, tasks, task_shares, sequence, minted>>

==============================================================================
