---------------------------- MODULE RetriesTheorems ----------------------------
(***************************************************************************)
(* What clients which send their request again can rely on, whatever the   *)
(* copies do which they gave up on and which are handled later: what was   *)
(* told is done stays done (RInv), a repeated attempt is not refused       *)
(* (AInv), a registration was settled by some attempt (GInv), and there    *)
(* are no more tasks than attempts to add one (TInv).                      *)
(***************************************************************************)
EXTENDS Retries, ApiTheorems, FiniteSetTheorems

Done == {200, 201, 204}

------------------------------------------------------------------------------
(***************************************************************************)
(* What the requests which may be repeated ask for, read from the tables.  *)
(***************************************************************************)
\* The rows of the share of a task with the account of this name.
NamedShares(task, name) ==
  {s \in task_shares :
     s.task_id = task /\ \E u \in users : u.id = s.user_id /\ u.username = name}

PermissionsOf(task, name) == {s.permission : s \in NamedShares(task, name)}

Effect(r) ==
  \/ r.op = "delete_auth_key" /\ \A k \in auth_keys : k.key # r.key
  \/ r.op = "update_task_by_id" /\ \E t \in tasks : t.id = r.task /\ changed(t, r) = t
  \/ r.op = "put_share" /\ PermissionsOf(r.task, r.username) = {r.permission}
  \/ r.op = "delete_share" /\ PermissionsOf(r.task, r.username) = {}

\* The list of a task's shares names the account each row refers to.
LEMMA ListedPermissions ==
  ASSUME NEW task, NEW name
  PROVE  {share.permission : share \in {share \in list_shares_for_task(task) :
                                          share.username = name}}
           = PermissionsOf(task, name)
<1> DEFINE listed == {share \in list_shares_for_task(task) : share.username = name}
<1>1. ASSUME NEW s \in task_shares, NEW u \in users
      PROVE  /\ Share(s, u).permission = s.permission
             /\ Share(s, u).username = u.username
             /\ <<s, u>> \in with_its_user(task) <=>
                  s.task_id = task /\ s.user_id = u.id
  BY DEF Share, with_its_user
<1>2. ASSUME NEW share \in listed
      PROVE  share.permission \in PermissionsOf(task, name)
  <2>1. PICK p \in with_its_user(task) : share = Share(p[1], p[2])
    BY DEF list_shares_for_task
  <2>2. /\ p = <<p[1], p[2]>> /\ p[1] \in task_shares /\ p[2] \in users
        /\ p[1].task_id = task /\ p[1].user_id = p[2].id
    BY DEF with_its_user
  <2>3. p[2].username = name /\ share.permission = p[1].permission
    BY <2>1, <2>2, <1>1
  <2>4. p[1] \in NamedShares(task, name)
    BY <2>2, <2>3 DEF NamedShares
  <2> QED
    BY <2>3, <2>4 DEF PermissionsOf
<1>3. ASSUME NEW s \in NamedShares(task, name)
      PROVE  \E share \in listed : share.permission = s.permission
  <2>1. PICK u \in users : u.id = s.user_id /\ u.username = name
    BY DEF NamedShares
  <2>2. s \in task_shares /\ s.task_id = task
    BY DEF NamedShares
  <2>3. <<s, u>> \in with_its_user(task)
    BY <2>1, <2>2, <1>1
  <2>4. Share(s, u) \in list_shares_for_task(task)
    <3> DEFINE p == <<s, u>>
    <3>1. p \in with_its_user(task) /\ Share(p[1], p[2]) = Share(s, u)
      BY <2>3
    <3> HIDE DEF p
    <3> QED
      BY <3>1 DEF list_shares_for_task
  <2>5. Share(s, u).username = name /\ Share(s, u).permission = s.permission
    BY <2>1, <2>2, <1>1
  <2>6. Share(s, u) \in listed
    BY <2>4, <2>5
  <2> HIDE DEF listed
  <2> QED
    BY <2>5, <2>6
<1> HIDE DEF listed
<1>4. {share.permission : share \in listed} = PermissionsOf(task, name)
  BY <1>2, <1>3 DEF PermissionsOf
<1> QED
  BY <1>4 DEF listed

\* The goals, by their op.
LEMMA AchievedIsEffect ==
  ASSUME NEW c \in Clients, Idempotent(c)
  PROVE  Achieved(c) <=> Effect(Goal[c])
<1> DEFINE r == Goal[c]
<1>1. CASE r.op = "delete_auth_key"
  BY <1>1 DEF Achieved, Effect
<1>2. CASE r.op = "update_task_by_id"
  BY <1>2 DEF Achieved, Effect, get_task_by_id
<1>3. CASE r.op \in {"put_share", "delete_share"}
  BY <1>3, ListedPermissions DEF Achieved, Effect
<1> QED
  BY <1>1, <1>2, <1>3 DEF Idempotent

LEMMA WrittenByOp ==
  ASSUME NEW r
  PROVE  /\ r.op = "delete_auth_key" => Written(r) = <<"key", r.key>>
         /\ r.op = "update_task_by_id" => Written(r) = <<"task", r.task>>
         /\ r.op \in {"put_share", "delete_share"} =>
              Written(r) = <<"share", r.task, r.username>>
BY DEF Written

------------------------------------------------------------------------------
(***************************************************************************)
(* What one statement does to what another request asked for.              *)
(***************************************************************************)
\* A worker at a statement which writes one of the rows a request is about.
Writes(w, r) ==
  \/ pc[w] = "update_task" /\ r.op = "update_task_by_id" /\ request[w].task = r.task
  \/ /\ pc[w] \in {"upsert_share", "delete_share"}
     /\ r.op \in {"put_share", "delete_share"}
     /\ request[w].task = r.task /\ target[w].username = r.username

\* An update twice is an update once.
LEMMA ChangedOnce ==
  ASSUME NEW t \in Task, NEW changes, Changes(changes)
  PROVE  changed(changed(t, changes), changes) = changed(t, changes)
BY NoneAssumption DEF Changes, changed, Task

\* A key which is gone is not drawn again.
LEMMA GoneKeysStayGone ==
  ASSUME Durable, NEW r \in Requests, r.op = "delete_auth_key", Sendable(r),
         \A k \in auth_keys : k.key # r.key
  PROVE  \A k \in auth_keys' : k.key # r.key
<1>1. r \in KeyOnly
  BY RequestKinds
<1>2. r.key \in minted \cup OtherKeys
  BY <1>1 DEF Sendable, KeyOnly
<1> QED
  BY <1>2 DEF Durable

\* Only an update of the same row changes what an update left.
LEMMA UpdatesStay ==
  ASSUME IInv, NEW w \in Workers, Writing(w), NEW r, ~Writes(w, r),
         r.op = "update_task_by_id", NEW t \in tasks, t.id = r.task
  PROVE  t \in tasks'
<1>1. CASE UpdateTask(w)
  <2>1. pc[w] = "update_task" /\ update_task(request[w].task, request[w])
    BY <1>1 DEF UpdateTask
  <2>2. request[w].task # t.id
    BY <2>1 DEF Writes
  <2> QED
    BY <2>1, <2>2 DEF update_task
<1>2. CASE InsertTask(w)
  BY <1>2 DEF InsertTask, insert_task
<1>3. CASE InsertUser(w)
  BY <1>3 DEF InsertUser, insert_user, DrawUserId, database
<1>4. CASE InsertKey(w) \/ DeleteKey(w) \/ UpsertShare(w) \/ DeleteShare(w)
  BY <1>4 DEF InsertKey, insert_auth_key, DeleteKey, revoke_auth_key, UpsertShare,
     insert_share, replace_share, DeleteShare, delete_share
<1> QED
  BY <1>1, <1>2, <1>3, <1>4 DEF Writing

\* The account a share's row refers to.
LEMMA NamesOfShares ==
  ASSUME IInv, NEW u \in users, NEW s \in task_shares, s.user_id = u.id, NEW task,
         NEW name
  PROVE  s \in NamedShares(task, name) <=> s.task_id = task /\ u.username = name
BY DEF NamedShares, IInv, Integrity, ConsistentDatabase, PrimaryKey

\* A new account takes over no share.
LEMMA NewAccountsHaveNoShares ==
  ASSUME IInv, NEW row \in User, row.id = next_id("users"),
         users' = users \cup {row}, UNCHANGED task_shares, NEW task, NEW name
  PROVE  NamedShares(task, name)' = NamedShares(task, name)
<1>1. ASSUME NEW s \in task_shares
      PROVE  s.user_id # row.id
  <2>1. PICK u \in users : s.user_id = u.id
    BY DEF IInv, Integrity, ConsistentDatabase, SharesReferToUsers
  <2>2. u.id < sequence["users"] /\ u.id \in Nat /\ sequence["users"] \in Nat
    BY IInvWellFormed, IdsAreNumbers
       DEF IInv, Integrity, ConsistentDatabase, PrimaryKey, Tables
  <2> QED
    BY <2>1, <2>2 DEF next_id
<1> QED
  BY <1>1 DEF NamedShares

\* What an upsert does to the table, whichever of its outcomes it has.
LEMMA UpsertedRow ==
  ASSUME IInv, NEW w \in Workers, UpsertShare(w)
  PROVE  \E new \in task_shares' :
           /\ new.task_id = request[w].task /\ new.user_id = target[w].id
           /\ new.permission = request[w].permission
           /\ task_shares' \ task_shares \subseteq {new}
           /\ task_shares \ task_shares' \subseteq shares_of(request[w].task, target[w].id)
           /\ UNCHANGED users
<1> DEFINE row == [id |-> next_id("task_shares"), task_id |-> request[w].task,
                   user_id |-> target[w].id, permission |-> request[w].permission]
<1>1. CASE insert_share(row)
  BY <1>1 DEF insert_share
<1>2. ASSUME NEW share \in conflict(request[w].task, target[w].id),
             replace_share(share, request[w].permission)
      PROVE  \E new \in task_shares' :
               /\ new.task_id = request[w].task /\ new.user_id = target[w].id
               /\ new.permission = request[w].permission
               /\ task_shares' \ task_shares \subseteq {new}
               /\ task_shares \ task_shares' \subseteq shares_of(request[w].task, target[w].id)
               /\ UNCHANGED users
  <2> DEFINE new == [share EXCEPT !.permission = request[w].permission]
  <2>1. share \in TaskShare /\ share.task_id = request[w].task
        /\ share.user_id = target[w].id
    BY DEF conflict, shares_of, IInv, TypeOK, TypedDatabase
  <2>2. /\ new.task_id = request[w].task /\ new.user_id = target[w].id
        /\ new.permission = request[w].permission
    BY <2>1 DEF TaskShare
  <2>3. task_shares' = (task_shares \ {share}) \cup {new} /\ UNCHANGED users
    BY <1>2 DEF replace_share
  <2> HIDE DEF new
  <2> QED
    BY <1>2, <2>2, <2>3 DEF conflict
<1>3. \/ insert_share(row)
      \/ \E share \in conflict(request[w].task, target[w].id) :
           replace_share(share, request[w].permission)
  BY DEF UpsertShare
<1> HIDE DEF row
<1> QED
  BY <1>1, <1>2, <1>3

\* Only a write of the same share changes the share of this task and name.
LEMMA SharesStay ==
  ASSUME IInv, NEW w \in Workers, Writing(w), NEW r, ~Writes(w, r),
         r.op \in {"put_share", "delete_share"}
  PROVE  PermissionsOf(r.task, r.username)' = PermissionsOf(r.task, r.username)
<1> DEFINE task == request[w].task
           named == NamedShares(r.task, r.username)
<1>1. CASE InsertUser(w)
  <2>1. CASE UNCHANGED <<users, task_shares>>
    BY <2>1 DEF PermissionsOf, NamedShares
  <2>2. CASE ~UNCHANGED <<users, task_shares>>
    <3> DEFINE row == [id |-> next_id("users"),
                       username |-> Varchar255[request[w].username],
                       password |-> hash_password(request[w].password)]
    <3>1. insert_user(row) /\ row.username # TooLong
      BY <1>1, <2>2 DEF InsertUser, DrawUserId, database
    <3>2. row \in User /\ row.id = next_id("users")
      <4>1. request[w] \in UserRegistration /\ ~Invalid(request[w])
        BY <1>1, Serving, OperationAt DEF InsertUser, Busy
      <4>2. request[w].username \in Usernames /\ request[w].password \in Passwords
        BY <4>1 DEF UserRegistration, Invalid
      <4>3. row.username \in Usernames /\ next_id("users") \in Nat
        BY <4>2, <3>1, ColumnAssumption, IInvWellFormed, IdsAreNumbers
           DEF next_id, Tables
      <4> QED
        BY <4>2, <4>3 DEF User, hash_password, HashedPassword
    <3>3. users' = users \cup {row} /\ UNCHANGED task_shares
      BY <3>1 DEF insert_user
    <3> HIDE DEF row
    <3>4. NamedShares(r.task, r.username)' = named
      BY <3>2, <3>3, NewAccountsHaveNoShares
    <3>5. UNCHANGED r
      OBVIOUS
    <3> QED
      BY <3>4 DEF PermissionsOf
  <2> QED
    BY <2>1, <2>2
<1>2. CASE UpsertShare(w) \/ DeleteShare(w)
  <2>1. /\ pc[w] \in {"upsert_share", "delete_share"}
        /\ task # r.task \/ target[w].username # r.username
    BY <1>2 DEF UpsertShare, DeleteShare, Writes
  <2>2. target[w] \in users /\ UNCHANGED users
    BY <1>2, <2>1, TargetIsKnown
       DEF AfterTarget, UpsertShare, DeleteShare, insert_share, replace_share,
           delete_share
  <2>3. \A s : s \in task_shares' \ task_shares \/ s \in task_shares \ task_shares' =>
          s.task_id = task /\ s.user_id = target[w].id
    <3>1. CASE UpsertShare(w)
      BY <3>1, UpsertedRow DEF shares_of
    <3>2. CASE DeleteShare(w)
      BY <3>2 DEF DeleteShare, delete_share, shares_of
    <3> QED
      BY <1>2, <3>1, <3>2
  <2>4. ASSUME NEW s, s.task_id = task, s.user_id = target[w].id
        PROVE  ~(/\ s.task_id = r.task
                 /\ \E u \in users : u.id = s.user_id /\ u.username = r.username)
    BY <2>1, <2>2, <2>4 DEF IInv, Integrity, ConsistentDatabase, PrimaryKey
  <2> QED
    BY <2>2, <2>3, <2>4 DEF PermissionsOf, NamedShares
<1>3. CASE \/ InsertKey(w) \/ DeleteKey(w) \/ InsertTask(w) \/ UpdateTask(w)
  BY <1>3 DEF InsertKey, insert_auth_key, DeleteKey, revoke_auth_key, InsertTask,
     insert_task, UpdateTask, update_task, PermissionsOf, NamedShares
<1> QED
  BY <1>1, <1>2, <1>3 DEF Writing

\* A statement which writes other rows leaves what a request asked for.
LEMMA OthersKeepEffects ==
  ASSUME IInv, NEW w \in Workers, Writing(w), NEW r \in Requests, Sendable(r),
         ~Writes(w, r), Effect(r)
  PROVE  Effect(r)'
<1>1. CASE r.op = "delete_auth_key"
  BY <1>1, StatementsAreDurable, GoneKeysStayGone DEF Effect
<1>2. CASE r.op = "update_task_by_id"
  BY <1>2, UpdatesStay DEF Effect
<1>3. CASE r.op \in {"put_share", "delete_share"}
  BY <1>3, SharesStay DEF Effect
<1> QED
  BY <1>1, <1>2, <1>3 DEF Effect

\* The statement an idempotent request is for brings about what it asked for.
LEMMA DeleteKeyAchieves ==
  ASSUME IInv, NEW w \in Workers, DeleteKey(w), NEW r, r = request[w],
         r.op = "delete_auth_key"
  PROVE  Effect(r)'
BY DEF DeleteKey, revoke_auth_key, Effect

LEMMA UpdateTaskAchieves ==
  ASSUME IInv, NEW w \in Workers, UpdateTask(w), NEW r, r = request[w],
         r.op = "update_task_by_id", get_task_by_id(r.task) # {}
  PROVE  Effect(r)'
<1>1. update_task(r.task, r)
  BY DEF UpdateTask
<1>2. PICK t \in tasks : t.id = r.task
  BY DEF get_task_by_id
<1>3. Changes(r)
  <2>1. r \in UpdateTaskPayload /\ ~Invalid(r)
    BY Serving, OperationAt DEF UpdateTask, Busy
  <2> QED
    BY <2>1 DEF UpdateTaskPayload, Invalid, Changes
<1>4. t \in Task
  BY DEF IInv, TypeOK, TypedDatabase
<1>5. changed(changed(t, r), r) = changed(t, r) /\ changed(t, r).id = r.task
  BY <1>2, <1>3, <1>4, ChangedOnce, ChangedTask
<1>6. changed(t, r) \in tasks'
  BY <1>1, <1>2 DEF update_task
<1> QED
  BY <1>1, <1>5, <1>6 DEF Effect

\* The rows of the share with an account, by the account's id.
LEMMA SharesOfNamed ==
  ASSUME IInv, NEW u \in users, NEW task
  PROVE  NamedShares(task, u.username) = shares_of(task, u.id)
BY DEF NamedShares, shares_of, IInv, Integrity, ConsistentDatabase, PrimaryKey,
   UniqueUsernames

LEMMA UpsertShareAchieves ==
  ASSUME IInv, IInv', NEW w \in Workers, UpsertShare(w), NEW r, r = request[w],
         r.op = "put_share", target[w].username = r.username
  PROVE  Effect(r)'
<1> DEFINE u == target[w]
<1>1. UNCHANGED <<u, users>> /\ u \in users
  BY TargetIsKnown DEF UpsertShare, insert_share, replace_share, AfterTarget
<1>2. (NamedShares(r.task, r.username) = shares_of(r.task, u.id))'
  BY <1>1 DEF NamedShares, shares_of, IInv, Integrity, ConsistentDatabase,
     PrimaryKey, UniqueUsernames
<1>3. PICK new \in task_shares' :
        new.task_id = r.task /\ new.user_id = u.id /\ new.permission = r.permission
  BY UpsertedRow
<1>4. shares_of(r.task, u.id)' = {new}
  BY <1>1, <1>3 DEF shares_of, IInv, Integrity, ConsistentDatabase, UniqueShares
<1> QED
  BY <1>1, <1>2, <1>3, <1>4 DEF Effect, PermissionsOf

LEMMA DeleteShareAchieves ==
  ASSUME IInv, NEW w \in Workers, DeleteShare(w), NEW r, r = request[w],
         r.op = "delete_share", target[w].username = r.username
  PROVE  Effect(r)'
<1> DEFINE u == target[w]
<1>1. UNCHANGED <<u, users>> /\ u \in users
  BY TargetIsKnown DEF DeleteShare, delete_share, AfterTarget
<1>2. task_shares' = task_shares \ NamedShares(r.task, r.username)
  BY <1>1, SharesOfNamed DEF DeleteShare, delete_share
<1>3. NamedShares(r.task, r.username)' = {}
  BY <1>1, <1>2 DEF NamedShares
<1> QED
  BY <1>1, <1>3 DEF Effect, PermissionsOf

------------------------------------------------------------------------------
(***************************************************************************)
(* The statements of one handler.                                          *)
(***************************************************************************)
\* What the statements which write rely on: the account they found has the name
\* they were given, and the task is there.
Ready(statement, r, named) ==
  /\ statement \in {"upsert_share", "delete_share"} => named.username = r.username
  /\ statement \in {"load_share", "update_task"} => get_task_by_id(r.task) # {}

Achieving(w) == DeleteKey(w) \/ UpdateTask(w) \/ UpsertShare(w) \/ DeleteShare(w)

\* The statements after which the handler has always answered.
Answering(w) ==
  \/ InsertUser(w) \/ InsertKey(w) \/ FindUser(w) \/ ListTasks(w) \/ InsertTask(w)
  \/ ReadTask(w) \/ ListShares(w) \/ Achieving(w)

Deciding(w) ==
  \/ Authenticate(w) \/ FindAccount(w) \/ LoadTask(w) \/ LoadShare(w)
  \/ CheckOwner(w) \/ FindTarget(w)

LEMMA StatementKinds ==
  ASSUME NEW w \in Workers, Statement(w)
  PROVE  Answering(w) \/ Deciding(w)
BY DEF Statement, Answering, Deciding, Achieving

LEMMA AnsweringAnswers ==
  ASSUME IInv, NEW w \in Workers, Answering(w) \/ Fail(w)
  PROVE  /\ pc'[w] = "answered" /\ request' = request
         /\ Busy(w)
<1> USE DEF IInv, TypeOK, Answer, AnswerWrite, Busy
<1>1. CASE InsertUser(w) \/ InsertKey(w)
  BY <1>1 DEF InsertUser, InsertKey
<1>2. CASE FindUser(w) \/ ListTasks(w) \/ InsertTask(w)
  BY <1>2 DEF FindUser, ListTasks, InsertTask
<1>3. CASE ReadTask(w) \/ ListShares(w) \/ Fail(w)
  BY <1>3 DEF ReadTask, ListShares, Fail
<1>4. CASE DeleteKey(w) \/ UpdateTask(w)
  BY <1>4 DEF DeleteKey, UpdateTask
<1>5. CASE UpsertShare(w) \/ DeleteShare(w)
  BY <1>5 DEF UpsertShare, DeleteShare
<1> QED
  BY <1>1, <1>2, <1>3, <1>4, <1>5 DEF Answering, Achieving

\* A worker which decides where to go on has changed no row, and refuses or goes
\* on with a statement whose needs are met.
Decides(w) ==
  /\ Busy(w) /\ UNCHANGED <<request, database>>
  /\ Ready(pc'[w], request[w], target'[w])
  /\ pc'[w] = "answered" =>
       \/ answer'[w].status \notin Done
       \/ request[w].op = "get_current_user"

LEMMA RefusedOrGoesOn ==
  ASSUME IInv, NEW w \in Workers, Busy(w), UNCHANGED <<request, database>>,
         \/ \E e : Answer(w, e) /\ e.status \notin Done
         \/ \E l : Continue(w, l) /\ l # "answered" /\ Ready(l, request[w], target'[w])
  PROVE  Decides(w)
<1>1. CASE \E e : Answer(w, e) /\ e.status \notin Done
  BY <1>1 DEF Answer, Decides, Ready, IInv, TypeOK
<1>2. CASE \E l : Continue(w, l) /\ l # "answered" /\ Ready(l, request[w], target'[w])
  BY <1>2 DEF Continue, Decides, IInv, TypeOK
<1> QED
  BY <1>1, <1>2

LEMMA AuthenticateDecides ==
  ASSUME IInv, NEW w \in Workers, Authenticate(w)
  PROVE  Decides(w)
<1> DEFINE l == AfterAuthentication(request[w].op)
<1>1. /\ Busy(w) /\ UNCHANGED <<request, database>>
      /\ request[w] \in Requests /\ "authenticate" \in Statements(request[w].op)
  BY Serving DEF Authenticate, Busy
<1>2. CASE request[w].op = "get_current_user"
  <2>1. Busy(w) /\ pc'[w] = "answered"
    BY <1>1, <1>2 DEF Authenticate, Answer, IInv, TypeOK
  <2> QED
    BY <1>1, <1>2, <2>1 DEF Decides, Ready
<1>3. CASE request[w].op # "get_current_user"
  <2>1. l \in Statements(request[w].op) /\ l \notin AfterTarget
    BY <1>1, <1>3, AfterAuthenticationServes
  <2>2. l \notin {"answered", "load_share", "update_task"}
    <3>1. request[w].op \in {"get_user", "get_tasks", "add_task", "get_task_by_id",
                           "update_task_by_id", "get_task_shares", "put_share",
                           "delete_share"}
      BY <1>1, <1>3, RequestKinds, ServedOperation
    <3> QED
      BY <3>1 DEF AfterAuthentication
  <2>3. Ready(l, request[w], target'[w])
    BY <2>1, <2>2 DEF Ready, AfterTarget
  <2>4. Answer(w, into_http_response("InvalidAuthKey")) \/ Continue(w, l)
    BY <1>3 DEF Authenticate
  <2> HIDE DEF l
  <2> QED
    BY <1>1, <2>2, <2>3, <2>4, ErrorAnswers, RefusedOrGoesOn DEF Done
<1> QED
  BY <1>2, <1>3

LEMMA FindAccountDecides ==
  ASSUME IInv, NEW w \in Workers, FindAccount(w)
  PROVE  Decides(w)
<1>1. Busy(w) /\ UNCHANGED <<request, database>>
  BY DEF FindAccount, Busy
<1>2. \/ Answer(w, with_challenge(Response(401, {}), "Basic"))
      \/ Answer(w, into_basic_http_response("InvalidPassword"))
      \/ Continue(w, "insert_key")
  BY DEF FindAccount
<1>3. "insert_key" # "answered" /\ Ready("insert_key", request[w], target'[w])
  BY DEF Ready
<1> QED
  BY <1>1, <1>2, <1>3, ErrorAnswers, RefusedOrGoesOn DEF Done

LEMMA LoadTaskDecides ==
  ASSUME IInv, NEW w \in Workers, LoadTask(w)
  PROVE  Decides(w)
<1> DEFINE l == Permitted(request[w].op)
<1>1. Busy(w) /\ UNCHANGED <<request, database>>
  BY DEF LoadTask, Busy
<1>2. request[w].op \in {"get_task_by_id", "update_task_by_id"}
  BY <1>1, Serving, ServedOperation DEF LoadTask
<1>3. l \in {"read_task", "update_task"}
  BY <1>2 DEF Permitted
<1>4. CASE get_task_by_id(request[w].task) = {}
  <2>1. Answer(w, into_http_response("Forbidden"))
    BY <1>4 DEF LoadTask, HideMissing
  <2> QED
    BY <1>1, <2>1, ErrorAnswers, RefusedOrGoesOn DEF Done
<1>5. CASE get_task_by_id(request[w].task) # {}
  <2>1. Continue(w, l) \/ Continue(w, "load_share")
    BY <1>5 DEF LoadTask
  <2>2. Ready(l, request[w], target'[w]) /\ Ready("load_share", request[w], target'[w])
    BY <1>3, <1>5 DEF Ready
  <2>3. l # "answered" /\ "load_share" # "answered"
    BY <1>3
  <2> HIDE DEF l
  <2> QED
    BY <1>1, <2>1, <2>2, <2>3, RefusedOrGoesOn
<1> QED
  BY <1>4, <1>5

LEMMA LoadShareDecides ==
  ASSUME IInv, NEW w \in Workers, LoadShare(w), Ready(pc[w], request[w], target[w])
  PROVE  Decides(w)
<1> DEFINE l == Permitted(request[w].op)
<1>1. Busy(w) /\ UNCHANGED <<request, database>> /\ pc[w] = "load_share"
  BY DEF LoadShare, Busy
<1>2. request[w].op \in {"get_task_by_id", "update_task_by_id"}
  BY <1>1, Serving, ServedOperation
<1>3. l \in {"read_task", "update_task"}
  BY <1>2 DEF Permitted
<1>4. Answer(w, into_http_response("Forbidden")) \/ Continue(w, l)
  BY DEF LoadShare
<1>5. Ready(l, request[w], target'[w])
  BY <1>1, <1>3 DEF Ready
<1>6. l # "answered"
  BY <1>3
<1> HIDE DEF l
<1> QED
  BY <1>1, <1>4, <1>5, <1>6, ErrorAnswers, RefusedOrGoesOn DEF Done

LEMMA CheckOwnerDecides ==
  ASSUME IInv, NEW w \in Workers, CheckOwner(w)
  PROVE  Decides(w)
<1> DEFINE l == IF request[w].op = "get_task_shares" THEN "list_shares" ELSE "find_target"
<1>1. Busy(w) /\ UNCHANGED <<request, database>>
  BY DEF CheckOwner, Busy
<1>2. Answer(w, into_http_response("Forbidden")) \/ Continue(w, l)
  BY DEF CheckOwner
<1>3. l # "answered" /\ Ready(l, request[w], target'[w])
  BY DEF Ready
<1> HIDE DEF l
<1> QED
  BY <1>1, <1>2, <1>3, ErrorAnswers, RefusedOrGoesOn DEF Done

LEMMA FindTargetDecides ==
  ASSUME IInv, NEW w \in Workers, FindTarget(w)
  PROVE  Decides(w)
<1> DEFINE l == IF request[w].op = "put_share" THEN "upsert_share" ELSE "delete_share"
<1>1. Busy(w) /\ UNCHANGED <<request, database>>
  BY DEF FindTarget, Busy
<1>2. CASE Answer(w, into_http_response("NotFound"))
  BY <1>1, <1>2, ErrorAnswers, RefusedOrGoesOn DEF Done
<1>3. ASSUME NEW user \in get_user_by_name(request[w].username),
             target' = [target EXCEPT ![w] = user], Continue(w, l)
      PROVE  Decides(w)
  <2>1. target'[w].username = request[w].username
    BY <1>3 DEF get_user_by_name, IInv, TypeOK
  <2>2. l # "answered" /\ Ready(l, request[w], target'[w])
    BY <2>1 DEF Ready
  <2> HIDE DEF l
  <2> QED
    BY <1>1, <1>3, <2>2, RefusedOrGoesOn
<1> QED
  BY <1>2, <1>3 DEF FindTarget

LEMMA DecidingDecides ==
  ASSUME IInv, NEW w \in Workers, Deciding(w), Ready(pc[w], request[w], target[w])
  PROVE  Decides(w)
BY AuthenticateDecides, FindAccountDecides, LoadTaskDecides, LoadShareDecides,
   CheckOwnerDecides, FindTargetDecides DEF Deciding

------------------------------------------------------------------------------
(***************************************************************************)
(* The inductive invariant.  A copy being handled is its client's request, *)
(* and a client which was told, or is about to be told, that something is  *)
(* done finds it done.                                                     *)
(***************************************************************************)
RetryTypeOK ==
  /\ patience \in [Clients -> Nat]
  /\ attempts \in [Clients -> Nat]
  /\ flying \in [Clients -> Nat]
  /\ serves \in [Workers -> Clients \cup {None}]
  /\ heard \in [Clients -> Responses \cup {None}]

Known(w) ==
  /\ Ready(pc[w], request[w], target[w])
  /\ pc[w] # "idle" =>
       /\ serves[w] \in Clients
       /\ request[w] = Goal[serves[w]]
       /\ Sendable(request[w])

Confirmed(w) == pc[w] = "answered" /\ answer[w].status \in Done

Told(c) ==
  \/ heard[c] # None /\ heard[c].status \in Done
  \/ \E w \in Workers : serves[w] = c /\ Confirmed(w)

Settled(c) == Told(c) => Effect(Goal[c]) /\ Sendable(Goal[c])

RInv ==
  /\ IInv
  /\ RetryTypeOK
  /\ \A c \in Clients : flying[c] > 0 => Sendable(Goal[c])
  /\ \A w \in Workers : Known(w)
  /\ \A c \in Clients : Idempotent(c) /\ Undisturbed(c) => Settled(c)

LEMMA RetryStepsAreSteps ==
  ASSUME RInv, [RetryNext]_retryVars
  PROVE  [Next]_vars
<1>1. ASSUME NEW c \in Clients, NEW w \in Workers, Take(w, c)
      PROVE  Receive(w)
  BY <1>1, GoalAssumption DEF Take, Receive, RInv
<1> QED
  BY <1>1 DEF RetryNext, Try, Tell, Restart, Next, retryVars

LEMMA SendableStays ==
  ASSUME Durable, NEW r, Sendable(r)
  PROVE  Sendable(r)'
BY DEF Durable, Sendable

LEMMA EffectUnchanged ==
  ASSUME UNCHANGED Rows, NEW r, Effect(r)
  PROVE  Effect(r)'
BY DEF Rows, Effect, PermissionsOf, NamedShares

LEMMA ReadyStays ==
  ASSUME Lasting, NEW statement, NEW r, NEW named, Ready(statement, r, named)
  PROVE  Ready(statement, r, named)'
BY DEF Lasting, Ready, get_task_by_id

\* A worker whose thread did not move knows what it knew.
LEMMA KnownStays ==
  ASSUME Durable, NEW v \in Workers, Known(v),
         UNCHANGED <<pc[v], request[v], target[v], serves[v]>>
  PROVE  Known(v)'
BY SendableStays, ReadyStays DEF Known, Durable

\* A statement of one worker.
LEMMA ReadyAfterStatement ==
  ASSUME IInv, NEW w \in Workers, Statement(w) \/ Fail(w), Known(w)
  PROVE  /\ Busy(w) /\ request' = request
         /\ Ready(pc'[w], request[w], target'[w])
<1>1. CASE Answering(w) \/ Fail(w)
  BY <1>1, AnsweringAnswers DEF Ready
<1>2. CASE Deciding(w)
  BY <1>2, DecidingDecides DEF Decides, Known
<1> QED
  BY <1>1, <1>2, StatementKinds

LEMMA StatementKeepsKnown ==
  ASSUME RInv, NEW w \in Workers, Statement(w) \/ Fail(w), UNCHANGED serves, Durable
  PROVE  \A v \in Workers : Known(v)'
<1>1. \A v \in Workers : Known(v)
  BY DEF RInv
<1>2. ASSUME NEW v \in Workers \ {w}
      PROVE  Known(v)'
  <2>1. UNCHANGED <<pc[v], request[v], target[v], serves[v]>>
    BY OthersWaitForOne DEF RInv, OthersWait
  <2> QED
    BY <1>1, <2>1, KnownStays
<1>3. Known(w)'
  <2>1. Busy(w) /\ request' = request /\ Ready(pc'[w], request[w], target'[w])
    BY <1>1, ReadyAfterStatement DEF RInv
  <2>2. Ready(pc[w], request[w], target[w])'
    BY <2>1 DEF Ready, get_task_by_id, Durable, Lasting
  <2>3. /\ serves[w] \in Clients /\ request[w] = Goal[serves[w]]
        /\ Sendable(request[w])
    BY <1>1, <2>1 DEF Known, Busy
  <2>4. Sendable(request[w])'
    BY <2>1, <2>3 DEF Sendable, Durable
  <2> QED
    BY <2>1, <2>2, <2>3, <2>4 DEF Known
<1> QED
  BY <1>2, <1>3

\* Of an idempotent request only the write itself is confirmed, and it does what
\* was asked for.
LEMMA ConfirmationsAreEarned ==
  ASSUME IInv, IInv', NEW w \in Workers, Statement(w) \/ Fail(w), Known(w),
         NEW r, r = request[w],
         r.op \in {"delete_auth_key", "update_task_by_id", "put_share", "delete_share"},
         Writing(w) \/ Confirmed(w)'
  PROVE  Effect(r)'
<1>1. pc[w] \in Statements(r.op) /\ r \in Requests /\ Busy(w)
  BY ReadyAfterStatement, Serving
<1>2. CASE Achieving(w)
  <2>1. CASE DeleteKey(w)
    BY <2>1, <1>1, ServedOperation, DeleteKeyAchieves DEF DeleteKey
  <2>2. CASE UpdateTask(w)
    BY <2>2, <1>1, ServedOperation, UpdateTaskAchieves DEF UpdateTask, Known, Ready
  <2>3. CASE UpsertShare(w)
    BY <2>3, <1>1, ServedOperation, UpsertShareAchieves DEF UpsertShare, Known, Ready
  <2>4. CASE DeleteShare(w)
    BY <2>4, <1>1, ServedOperation, DeleteShareAchieves DEF DeleteShare, Known, Ready
  <2> QED
    BY <1>2, <2>1, <2>2, <2>3, <2>4 DEF Achieving
<1>3. CASE Answering(w) /\ ~Achieving(w)
  <2>1. \/ pc[w] \in {"insert_user", "insert_key", "find_user", "list_tasks"}
        \/ pc[w] \in {"insert_task", "read_task", "list_shares"}
    BY <1>3 DEF Answering, InsertUser, InsertKey, FindUser, ListTasks, InsertTask,
       ReadTask, ListShares
  <2>2. r.op \in {"create_user", "create_auth_key", "get_user", "get_tasks",
                 "add_task", "get_task_by_id", "get_task_shares"}
    BY <1>1, <2>1, ServedOperation
  <2> QED
    BY <2>2
<1>4. CASE Deciding(w)
  <2>1. Decides(w)
    BY <1>4, DecidingDecides DEF Known
  <2>2. ~Confirmed(w)'
    BY <2>1 DEF Decides, Confirmed
  <2>3. ~Writing(w)
    BY <1>4 DEF Deciding, Writing, Authenticate, FindAccount, LoadTask, LoadShare,
       CheckOwner, FindTarget, InsertUser, InsertKey, DeleteKey, InsertTask,
       UpdateTask, UpsertShare, DeleteShare
  <2> QED
    BY <2>2, <2>3
<1>5. CASE Fail(w) /\ ~Statement(w)
  <2>1. answer'[w].status = 500
    BY <1>5, ErrorAnswers DEF Fail, Answer, IInv, TypeOK
  <2> QED
    BY <1>5, <2>1 DEF Confirmed, Done, Statement, Writing
<1> QED
  BY <1>2, <1>3, <1>4, <1>5, StatementKinds

\* A statement of a copy of another client's request does not write what an
\* undisturbed client asked for.
LEMMA UndisturbedByOthers ==
  ASSUME RInv, NEW w \in Workers, Busy(w), NEW c \in Clients, c # serves[w],
         Idempotent(c), Undisturbed(c)
  PROVE  ~Writes(w, Goal[c])
<1> DEFINE d == serves[w]
<1>1. /\ d \in Clients /\ request[w] = Goal[d] /\ Goal[d] \in Requests
      /\ Ready(pc[w], request[w], target[w])
  BY GoalAssumption DEF RInv, Known, Busy
<1>2. pc[w] \in Statements(Goal[d].op)
  BY <1>1, Serving DEF RInv
<1>3. Written(Goal[d]) # Written(Goal[c])
  BY <1>1 DEF Undisturbed
<1>4. CASE pc[w] = "update_task" /\ Goal[c].op = "update_task_by_id"
  <2>1. Goal[d].op = "update_task_by_id"
    BY <1>1, <1>2, <1>4, ServedOperation
  <2>2. <<"task", Goal[d].task>> # <<"task", Goal[c].task>>
    BY <1>3, <1>4, <2>1, WrittenByOp
  <2> QED
    BY <1>1, <1>4, <2>2 DEF Writes
<1>5. CASE /\ pc[w] \in {"upsert_share", "delete_share"}
           /\ Goal[c].op \in {"put_share", "delete_share"}
  <2>1. Goal[d].op \in {"put_share", "delete_share"}
    BY <1>1, <1>2, <1>5, ServedOperation
  <2>2. <<"share", Goal[d].task, Goal[d].username>>
          # <<"share", Goal[c].task, Goal[c].username>>
    BY <1>3, <1>5, <2>1, WrittenByOp
  <2>3. target[w].username = Goal[d].username
    BY <1>1, <1>5 DEF Ready
  <2> QED
    BY <1>1, <1>5, <2>2, <2>3 DEF Writes
<1> QED
  BY <1>4, <1>5 DEF Writes

LEMMA StatementKeepsSettled ==
  ASSUME RInv, IInv', NEW w \in Workers, Statement(w) \/ Fail(w),
         UNCHANGED <<serves, heard>>, Durable,
         NEW c \in Clients, Idempotent(c), Undisturbed(c), Told(c)'
  PROVE  Effect(Goal[c])' /\ Sendable(Goal[c])'
<1>1. /\ Busy(w) /\ request' = request /\ Known(w) /\ IInv /\ Goal[c] \in Requests
      /\ serves[w] \in Clients /\ request[w] = Goal[serves[w]] /\ Sendable(request[w])
      /\ Settled(c)
  BY ReadyAfterStatement, GoalAssumption DEF RInv, Known, Busy
<1>2. CASE serves[w] = c /\ (Writing(w) \/ Confirmed(w)')
  <2>1. request[w] = Goal[c] /\ Sendable(Goal[c])
    BY <1>1, <1>2
  <2>2. Effect(Goal[c])'
    BY <2>1, <1>1, <1>2, ConfirmationsAreEarned DEF Idempotent
  <2> QED
    BY <2>1, <2>2, SendableStays
<1>3. CASE ~(serves[w] = c /\ (Writing(w) \/ Confirmed(w)'))
  <2>1. Told(c)
    <3>1. ASSUME NEW v \in Workers, serves[v] = c, Confirmed(v)'
          PROVE  Confirmed(v)
      <4>1. v # w
        BY <1>3, <3>1
      <4> QED
        BY <3>1, <4>1, <1>1, OthersWaitForOne DEF Confirmed, OthersWait
    <3> QED
      BY <3>1 DEF Told
  <2>2. Effect(Goal[c]) /\ Sendable(Goal[c])
    BY <2>1, <1>1 DEF Settled
  <2>3. CASE Writing(w)
    BY <2>2, <2>3, <1>1, <1>3, UndisturbedByOthers, OthersKeepEffects, SendableStays
  <2>4. CASE ~Writing(w)
    <3>1. UNCHANGED Rows
      BY <2>4 DEF Statement, Fail, Writing, Authenticate, FindAccount, FindUser,
         ListTasks, LoadTask, LoadShare, ReadTask, CheckOwner, ListShares,
         FindTarget, database, Rows
    <3> QED
      BY <2>2, <3>1, EffectUnchanged, SendableStays
  <2> QED
    BY <2>3, <2>4
<1> QED
  BY <1>2, <1>3

\* A step which writes no row, and after which nobody is told more than before.
LEMMA ReadingKeepsSettled ==
  ASSUME UNCHANGED Rows, Durable, NEW c \in Clients, Settled(c), Told(c)' => Told(c)
  PROVE  Settled(c)'
BY EffectUnchanged, SendableStays DEF Settled

------------------------------------------------------------------------------
LEMMA StatementKeepsRInv ==
  ASSUME RInv, IInv', Durable, NEW w \in Workers, Statement(w) \/ Fail(w),
         UNCHANGED <<patience, attempts, flying, serves, heard>>
  PROVE  RInv'
<1>1. RetryTypeOK'
  BY DEF RInv, RetryTypeOK
<1>2. \A c \in Clients : flying'[c] > 0 => Sendable(Goal[c])'
  BY SendableStays DEF RInv
<1>3. \A v \in Workers : Known(v)'
  BY StatementKeepsKnown
<1>4. \A c \in Clients : Idempotent(c) /\ Undisturbed(c) => Settled(c)'
  BY StatementKeepsSettled DEF Settled
<1> QED
  BY <1>1, <1>2, <1>3, <1>4 DEF RInv

LEMMA TryKeepsRInv ==
  ASSUME RInv, IInv', Durable, NEW c \in Clients, Try(c)
  PROVE  RInv'
<1>1. UNCHANGED <<pc, request, target, answer, serves, heard, Rows>>
  BY DEF Try, vars, Rows, database
<1>2. RetryTypeOK' /\ \A d \in Clients : flying'[d] > 0 => flying[d] > 0 \/ d = c
  BY DEF Try, RInv, RetryTypeOK
<1>3. \A d \in Clients : flying'[d] > 0 => Sendable(Goal[d])'
  BY <1>2, SendableStays DEF RInv, Try
<1>4. \A v \in Workers : Known(v)'
  BY <1>1, KnownStays DEF RInv
<1>5. \A d \in Clients : Told(d)' => Told(d)
  BY <1>1 DEF Told, Confirmed
<1>6. \A d \in Clients : Idempotent(d) /\ Undisturbed(d) => Settled(d)'
  BY <1>1, <1>5, ReadingKeepsSettled DEF RInv
<1> QED
  BY <1>2, <1>3, <1>4, <1>6 DEF RInv

LEMMA TakeKeepsRInv ==
  ASSUME RInv, IInv', Durable, NEW c \in Clients, NEW w \in Workers, Take(w, c)
  PROVE  RInv'
<1> DEFINE r == Goal[c]
<1>1. /\ r \in Requests /\ Sendable(r) /\ UNCHANGED <<Rows, target, heard>>
      /\ serves' = [serves EXCEPT ![w] = c] /\ request' = [request EXCEPT ![w] = r]
      /\ Receive(w)
  BY GoalAssumption DEF Take, Begin, RInv, Rows, database, Receive
<1>2. OthersWait(w)
  BY <1>1, OthersWaitForOne DEF RInv
<1>3. /\ RetryTypeOK'
      /\ \A d \in Clients : flying'[d] > 0 => flying[d] > 0
  BY <1>1 DEF Take, RInv, RetryTypeOK
<1>4. \A d \in Clients : flying'[d] > 0 => Sendable(Goal[d])'
  BY <1>3, SendableStays DEF RInv
<1>5. ~Confirmed(w)' /\ Ready(pc'[w], request'[w], target'[w])
  <2>1. CASE Answer(w, into_http_response("InvalidData"))
    <3>1. answer'[w].status = 400 /\ pc'[w] = "answered"
      BY <2>1, ErrorAnswers DEF Answer, RInv, IInv, TypeOK
    <3> QED
      BY <3>1 DEF Confirmed, Done, Ready
  <2>2. CASE Continue(w, FirstStatement(r.op))
    <3>1. FirstStatement(r.op) \in {"insert_user", "find_account", "delete_key",
                                   "authenticate"}
      BY DEF FirstStatement
    <3>2. pc'[w] = FirstStatement(r.op)
      BY <2>2 DEF Continue, RInv, IInv, TypeOK
    <3> QED
      BY <3>1, <3>2 DEF Confirmed, Ready
  <2> QED
    BY <2>1, <2>2 DEF Take, Begin
<1>6. ASSUME NEW v \in Workers
      PROVE  Known(v)'
  <2>1. CASE v # w
    <3>1. UNCHANGED <<pc[v], request[v], target[v], serves[v]>>
      BY <1>1, <1>2, <2>1 DEF OthersWait, RInv, RetryTypeOK
    <3> QED
      BY <3>1, KnownStays DEF RInv
  <2>2. CASE v = w
    <3>1. serves'[w] = c /\ request'[w] = r
      BY <1>1 DEF RInv, RetryTypeOK, IInv, TypeOK
    <3>2. UNCHANGED tasks
      BY <1>1 DEF Rows
    <3>3. Ready(pc[w], request[w], target[w])'
      BY <1>5, <3>2 DEF Ready, get_task_by_id
    <3>4. Sendable(request[w])'
      BY <1>1, <3>1 DEF Durable, Sendable
    <3> QED
      BY <2>2, <3>1, <3>3, <3>4 DEF Known
  <2> QED
    BY <2>1, <2>2
<1>7. ASSUME NEW d \in Clients, Told(d)'
      PROVE  Told(d)
  <2>1. ASSUME NEW v \in Workers, serves'[v] = d, Confirmed(v)'
        PROVE  serves[v] = d /\ Confirmed(v)
    <3>1. v # w
      BY <1>5, <2>1
    <3> QED
      BY <1>1, <1>2, <2>1, <3>1 DEF OthersWait, Confirmed, RInv, RetryTypeOK
  <2> QED
    BY <1>1, <1>7, <2>1 DEF Told
<1>8. \A d \in Clients : Idempotent(d) /\ Undisturbed(d) => Settled(d)'
  BY <1>1, <1>7, ReadingKeepsSettled DEF RInv
<1> QED
  BY <1>3, <1>4, <1>6, <1>8 DEF RInv

LEMMA TellKeepsRInv ==
  ASSUME RInv, IInv', Durable, NEW w \in Workers, Tell(w)
  PROVE  RInv'
<1>1. /\ UNCHANGED Rows /\ pc[w] = "answered" /\ pc' = [pc EXCEPT ![w] = "idle"]
      /\ Known(w) /\ serves' = [serves EXCEPT ![w] = None] /\ UNCHANGED flying
  BY DEF Tell, Deliver, Reset, RInv, Rows, database
<1>2. OthersWait(w)
  BY OthersWaitForOne DEF RInv, Tell
<1>3. serves[w] \in Clients /\ answer[w] \in Responses
  <2>1. ThreadOK(pc[w], request[w], answer[w])
    BY DEF RInv, IInv, TypeOK
  <2>2. ~(request[w] \in Requests /\ pc[w] \in Statements(request[w].op))
    BY <1>1, RequestKinds DEF Statements
  <2> QED
    BY <1>1, <2>1, <2>2 DEF ThreadOK, Known
<1>4. RetryTypeOK'
  BY <1>1, <1>3 DEF Tell, RInv, RetryTypeOK
<1>5. \A d \in Clients : flying'[d] > 0 => Sendable(Goal[d])'
  BY <1>1, SendableStays DEF RInv
<1>6. pc'[w] = "idle" /\ ~Confirmed(w)'
  BY <1>1 DEF RInv, IInv, TypeOK, Confirmed
<1>7. ASSUME NEW v \in Workers
      PROVE  Known(v)'
  <2>1. CASE v # w
    <3>1. UNCHANGED <<pc[v], request[v], target[v], serves[v]>>
      BY <1>1, <1>2, <2>1 DEF OthersWait, RInv, RetryTypeOK
    <3> QED
      BY <3>1, KnownStays DEF RInv
  <2>2. CASE v = w
    BY <1>6, <2>2 DEF Known, Ready
  <2> QED
    BY <2>1, <2>2
<1>8. ASSUME NEW d \in Clients, Told(d)'
      PROVE  Told(d)
  <2>1. ASSUME NEW v \in Workers, serves'[v] = d, Confirmed(v)'
        PROVE  serves[v] = d /\ Confirmed(v)
    <3>1. v # w
      BY <1>6, <2>1
    <3> QED
      BY <1>1, <1>2, <2>1, <3>1 DEF OthersWait, Confirmed, RInv, RetryTypeOK
  <2>2. ASSUME heard'[d] # None, heard'[d].status \in Done, heard'[d] # heard[d]
        PROVE  serves[w] = d /\ Confirmed(w)
    BY <1>1, <2>2 DEF Tell, Confirmed, RInv, RetryTypeOK
  <2> QED
    BY <1>8, <2>1, <2>2 DEF Told
<1>9. \A d \in Clients : Idempotent(d) /\ Undisturbed(d) => Settled(d)'
  BY <1>1, <1>8, ReadingKeepsSettled DEF RInv
<1> QED
  BY <1>4, <1>5, <1>7, <1>9 DEF RInv

LEMMA RestartKeepsRInv ==
  ASSUME RInv, IInv', Durable, Restart
  PROVE  RInv'
<1>1. /\ UNCHANGED <<Rows, flying, heard>> /\ pc' = [w \in Workers |-> "idle"]
  BY DEF Restart, Crash, Rows, database
<1>2. RetryTypeOK'
  BY DEF Restart, RInv, RetryTypeOK
<1>3. \A d \in Clients : flying'[d] > 0 => Sendable(Goal[d])'
  BY <1>1, SendableStays DEF RInv
<1>4. \A v \in Workers : Known(v)' /\ ~Confirmed(v)'
  BY <1>1 DEF Known, Ready, Confirmed
<1>5. \A d \in Clients : Told(d)' => Told(d)
  BY <1>1, <1>4 DEF Told
<1>6. \A d \in Clients : Idempotent(d) /\ Undisturbed(d) => Settled(d)'
  BY <1>1, <1>5, ReadingKeepsSettled DEF RInv
<1> QED
  BY <1>2, <1>3, <1>4, <1>6 DEF RInv

LEMMA StutterKeepsRInv ==
  ASSUME RInv, IInv', Durable, UNCHANGED retryVars
  PROVE  RInv'
<1>1. UNCHANGED <<pc, request, target, answer, Rows>>
  BY DEF retryVars, vars, Rows, database
<1>2. UNCHANGED <<patience, attempts, flying, serves, heard>>
  BY DEF retryVars
<1>3. RetryTypeOK' /\ \A d \in Clients : flying'[d] > 0 => Sendable(Goal[d])'
  BY <1>2, SendableStays DEF RInv, RetryTypeOK
<1>4. \A v \in Workers : Known(v)'
  BY <1>1, <1>2, KnownStays DEF RInv
<1>5. \A d \in Clients : Told(d)' => Told(d)
  BY <1>1, <1>2 DEF Told, Confirmed
<1>6. \A d \in Clients : Idempotent(d) /\ Undisturbed(d) => Settled(d)'
  BY <1>1, <1>5, ReadingKeepsSettled DEF RInv
<1> QED
  BY <1>3, <1>4, <1>6 DEF RInv

------------------------------------------------------------------------------
LEMMA InitialRInv ==
  ASSUME RetryInit
  PROVE  RInv
<1>1. IInv
  BY InitialIInv DEF RetryInit
<1>2. RetryTypeOK
  BY GoalAssumption DEF RetryInit, RetryTypeOK
<1>3. \A w \in Workers : Known(w) /\ ~Confirmed(w)
  BY DEF RetryInit, Init, Known, Ready, Confirmed
<1>4. \A c \in Clients : flying[c] = 0 /\ ~Told(c)
  BY <1>3 DEF RetryInit, Told
<1> QED
  BY <1>1, <1>2, <1>3, <1>4 DEF RInv, Settled

LEMMA RetryNextKeepsRInv ==
  ASSUME RInv, [RetryNext]_retryVars
  PROVE  RInv'
<1>1. [Next]_vars
  BY RetryStepsAreSteps
<1>2. IInv' /\ Durable
  BY <1>1, NextKeepsIInv, StepsAreDurable DEF RInv
<1>3. CASE \E c \in Clients : Try(c) \/ \E w \in Workers : Take(w, c)
  BY <1>2, <1>3, TryKeepsRInv, TakeKeepsRInv
<1>4. CASE \E w \in Workers :
             \/ Tell(w)
             \/ /\ Statement(w) \/ Fail(w)
                /\ UNCHANGED <<patience, attempts, flying, serves, heard>>
  BY <1>2, <1>4, TellKeepsRInv, StatementKeepsRInv
<1>5. CASE Restart
  BY <1>2, <1>5, RestartKeepsRInv
<1>6. CASE UNCHANGED retryVars
  BY <1>2, <1>6, StutterKeepsRInv
<1> QED
  BY <1>3, <1>4, <1>5, <1>6 DEF RetryNext

\* The inductive invariant holds whatever copies are handled, in whatever order.
THEOREM RetryInvariant == RetrySpec => []RInv
<1>1. RetryInit => RInv
  BY InitialRInv
<1>2. RInv /\ [RetryNext]_retryVars => RInv'
  BY RetryNextKeepsRInv
<1> QED
  BY <1>1, <1>2, PTL DEF RetrySpec

\* Once a client has been told that a revocation, an update, a share or its
\* removal is done it stays done, although copies it gave up on are handled
\* later.
THEOREM LateCopiesAreHarmless == RetrySpec => []LateCopiesChangeNothing
<1>1. RInv => LateCopiesChangeNothing
  BY AchievedIsEffect
     DEF RInv, LateCopiesChangeNothing, Settled, Told, Done
<1> QED
  BY <1>1, RetryInvariant, PTL

------------------------------------------------------------------------------
(***************************************************************************)
(* Why no attempt is refused: what entitles a client is still there, and   *)
(* the worker which serves it has found it so far.                         *)
(***************************************************************************)
Owns(user, task) == \E t \in tasks : t.id = task /\ t.owner = user.id

Allowed(r) ==
  /\ r.op # "delete_auth_key" =>
       \E k \in auth_keys, u \in users :
         k.key = r.key /\ k.expiration > now /\ k.user_id = u.id /\ Owns(u, r.task)
  /\ r.op \in {"put_share", "delete_share"} => \E u \in users : u.username = r.username

Granted(statement, r, user, response) ==
  /\ statement # "load_share"
  /\ statement \in AfterCaller => Owns(user, r.task)
  /\ statement = "answered" => response.status \in {200, 201, 204, 500}

\* The clients the property is about.
Repeating(c) == Idempotent(c) /\ Undisturbed(c) /\ Entitled(c)

AInv ==
  /\ RInv
  /\ \A c \in Clients : Repeating(c) =>
       /\ Allowed(Goal[c])
       /\ \A w \in Workers :
            serves[w] = c /\ pc[w] # "idle" =>
              Granted(pc[w], Goal[c], caller[w], answer[w])

LEMMA AllowedAtFirst ==
  ASSUME StoreInit, NEW c \in Clients, Repeating(c)
  PROVE  Allowed(Goal[c])
BY DEF StoreInit, Repeating, Entitled, Allowed, Owns

LEMMA OwnsStays ==
  ASSUME Lasting, NEW user, NEW task, Owns(user, task)
  PROVE  Owns(user, task)'
BY DEF Lasting, Owns

\* Nobody takes away the key of an undisturbed client.
LEMMA AllowedStays ==
  ASSUME RInv, Durable, [RetryNext]_retryVars,
         NEW c \in Clients, Repeating(c), Allowed(Goal[c])
  PROVE  Allowed(Goal[c])'
<1> DEFINE r == Goal[c]
<1>1. ASSUME NEW w \in Workers, DeleteKey(w), r.op # "delete_auth_key"
      PROVE  request[w].key # r.key
  <2>1. /\ pc[w] = "delete_key" /\ request[w] \in Requests
        /\ pc[w] \in Statements(request[w].op)
    BY <1>1, Serving DEF DeleteKey, Busy, RInv
  <2>2. request[w].op = "delete_auth_key"
    BY <2>1, ServedOperation
  <2>3. serves[w] \in Clients /\ request[w] = Goal[serves[w]]
    BY <2>1 DEF RInv, Known
  <2> QED
    BY <1>1, <2>2, <2>3 DEF Repeating, Undisturbed
<1>2. now' = now
  <2>1. ASSUME NEW w \in Workers, Statement(w)
        PROVE  now' = now
    <3> USE DEF database
    <3>1. CASE Deciding(w)
      BY <3>1 DEF Deciding, Authenticate, FindAccount, LoadTask, LoadShare, CheckOwner,
         FindTarget
    <3>2. CASE Achieving(w)
      BY <3>2 DEF Achieving, DeleteKey, revoke_auth_key, UpdateTask, update_task,
         UpsertShare, insert_share, replace_share, DeleteShare, delete_share
    <3>3. CASE Answering(w) /\ ~Achieving(w)
      BY <3>3 DEF Answering, InsertUser, insert_user, DrawUserId, InsertKey,
         insert_auth_key, FindUser, ListTasks, InsertTask, insert_task, ReadTask,
         ListShares
    <3> QED
      BY <2>1, <3>1, <3>2, <3>3, StatementKinds
  <2> QED
    BY <2>1 DEF RetryNext, Try, Take, Begin, Tell, Deliver, Reset, Fail, Restart, Crash,
       retryVars, vars, database
<1>3. ASSUME NEW k \in auth_keys, k.key = r.key, r.op # "delete_auth_key"
      PROVE  k \in auth_keys'
  <2>1. [Next]_vars
    BY RetryStepsAreSteps
  <2>2. CASE UNCHANGED Rows
    BY <2>2 DEF Rows
  <2>3. ASSUME NEW w \in Workers, Writing(w)
        PROVE  k \in auth_keys'
    <3>1. CASE DeleteKey(w)
      BY <1>1, <1>3, <3>1 DEF DeleteKey, revoke_auth_key
    <3>2. CASE InsertUser(w) \/ InsertKey(w)
      BY <3>2 DEF InsertUser, insert_user, DrawUserId, InsertKey, insert_auth_key,
         database
    <3>3. CASE InsertTask(w) \/ UpdateTask(w) \/ UpsertShare(w) \/ DeleteShare(w)
      BY <3>3 DEF InsertTask, insert_task, UpdateTask, update_task, UpsertShare,
         insert_share, replace_share, DeleteShare, delete_share
    <3> QED
      BY <2>3, <3>1, <3>2, <3>3 DEF Writing
  <2> QED
    BY <2>1, <2>2, <2>3, OnlyStatementsWrite
<1>4. users \subseteq users' /\ Lasting
  BY DEF Durable, Lasting
<1>5. CASE r.op = "delete_auth_key"
  BY <1>5 DEF Allowed
<1>6. CASE r.op # "delete_auth_key"
  <2>1. PICK k \in auth_keys, u \in users :
          k.key = r.key /\ k.expiration > now /\ k.user_id = u.id /\ Owns(u, r.task)
    BY <1>6 DEF Allowed
  <2>2. k \in auth_keys' /\ u \in users' /\ Owns(u, r.task)' /\ k.expiration > now'
    BY <1>2, <1>3, <1>4, <1>6, <2>1, OwnsStays
  <2> QED
    BY <1>4, <2>1, <2>2 DEF Allowed
<1> QED
  BY <1>5, <1>6

------------------------------------------------------------------------------
\* A worker which serves such a client goes on, statement by statement.
LEMMA AuthenticateGrants ==
  ASSUME IInv, NEW w \in Workers, Authenticate(w), NEW r, r = request[w], Allowed(r),
         r.op \in {"update_task_by_id", "put_share", "delete_share"}
  PROVE  Granted(pc'[w], r, caller'[w], answer'[w])
<1>1. PICK k \in auth_keys, u \in users :
        k.key = r.key /\ k.expiration > now /\ k.user_id = u.id /\ Owns(u, r.task)
  BY DEF Allowed
<1>2. u \in auth_key_to_user(r.key)
  BY <1>1 DEF auth_key_to_user
<1>3. ASSUME NEW v \in auth_key_to_user(r.key)
      PROVE  Owns(v, r.task)
  <2>1. v.id = u.id
    BY <1>1 DEF auth_key_to_user, IInv, Integrity, ConsistentDatabase, UniqueKeys
  <2> QED
    BY <1>1, <2>1 DEF Owns
<1>4. PICK v \in auth_key_to_user(r.key) :
        caller' = [caller EXCEPT ![w] = v] /\ Continue(w, AfterAuthentication(r.op))
  BY <1>2 DEF Authenticate
<1>5. caller'[w] = v /\ pc'[w] = AfterAuthentication(r.op)
  BY <1>4 DEF Continue, IInv, TypeOK
<1>6. AfterAuthentication(r.op) \in {"load_task", "check_owner"}
  BY DEF AfterAuthentication
<1> QED
  BY <1>3, <1>5, <1>6 DEF Granted

LEMMA LoadTaskGrants ==
  ASSUME IInv, NEW w \in Workers, LoadTask(w), NEW r, r = request[w],
         r.op = "update_task_by_id", Owns(caller[w], r.task)
  PROVE  Granted(pc'[w], r, caller'[w], answer'[w])
<1>1. PICK t \in tasks : t.id = r.task /\ t.owner = caller[w].id
  BY DEF Owns
<1>2. get_task_by_id(r.task) = {t}
  BY <1>1 DEF get_task_by_id, IInv, Integrity, ConsistentDatabase, PrimaryKey
<1>3. Continue(w, Permitted(r.op)) /\ caller' = caller
  BY <1>1, <1>2 DEF LoadTask
<1>4. pc'[w] = "update_task"
  BY <1>3 DEF Continue, Permitted, IInv, TypeOK
<1> QED
  BY <1>3, <1>4 DEF Granted

LEMMA CheckOwnerGrants ==
  ASSUME IInv, NEW w \in Workers, CheckOwner(w), NEW r, r = request[w],
         r.op \in {"put_share", "delete_share"}, Owns(caller[w], r.task)
  PROVE  Granted(pc'[w], r, caller'[w], answer'[w])
<1>1. require_task_owner(caller[w].id, r.task) # {}
  BY DEF Owns, require_task_owner, get_task_by_id
<1>2. Continue(w, "find_target") /\ caller' = caller
  BY <1>1 DEF CheckOwner
<1>3. pc'[w] = "find_target"
  BY <1>2 DEF Continue, IInv, TypeOK
<1> QED
  BY <1>2, <1>3 DEF Granted

LEMMA FindTargetGrants ==
  ASSUME IInv, NEW w \in Workers, FindTarget(w), NEW r, r = request[w], Allowed(r),
         r.op \in {"put_share", "delete_share"}, Owns(caller[w], r.task)
  PROVE  Granted(pc'[w], r, caller'[w], answer'[w])
<1> DEFINE l == IF r.op = "put_share" THEN "upsert_share" ELSE "delete_share"
<1>1. get_user_by_name(r.username) # {}
  BY DEF Allowed, get_user_by_name
<1>2. Continue(w, l) /\ caller' = caller
  BY <1>1 DEF FindTarget
<1>3. pc'[w] = l
  BY <1>2 DEF Continue, IInv, TypeOK
<1>4. l # "load_share" /\ l # "answered"
  OBVIOUS
<1> HIDE DEF l
<1> QED
  BY <1>2, <1>3, <1>4 DEF Granted

LEMMA WriteGrants ==
  ASSUME IInv, NEW w \in Workers, NEW a, a.status \in {200, 201, 204},
         AnswerWrite(w, a), NEW r
  PROVE  Granted(pc'[w], r, caller'[w], answer'[w])
<1>1. /\ pc'[w] = "answered"
      /\ answer'[w] = a \/ answer'[w] = into_http_response("QueryFailed")
  BY DEF AnswerWrite, Answer, IInv, TypeOK
<1>2. answer'[w].status \in {200, 201, 204, 500}
  BY <1>1, ErrorAnswers
<1> QED
  BY <1>1, <1>2 DEF Granted, AfterCaller, AfterOwner

LEMMA AchievingGrants ==
  ASSUME IInv, NEW w \in Workers, Achieving(w), NEW r
  PROVE  Granted(pc'[w], r, caller'[w], answer'[w])
<1>1. ASSUME NEW status \in {200, 201, 204}, NEW body
      PROVE  Response(status, body).status \in {200, 201, 204}
  BY DEF Response
<1>2. CASE DeleteKey(w)
  <2>1. AnswerWrite(w, Response(204, {}))
    BY <1>2 DEF DeleteKey
  <2> QED
    BY <1>1, <2>1, WriteGrants
<1>3. CASE UpdateTask(w)
  <2>1. AnswerWrite(w, Response(200, {}))
    BY <1>3 DEF UpdateTask
  <2> QED
    BY <1>1, <2>1, WriteGrants
<1>4. CASE UpsertShare(w)
  <2>1. \E body : AnswerWrite(w, Response(201, body)) \/ AnswerWrite(w, Response(200, body))
    BY <1>4 DEF UpsertShare
  <2> QED
    BY <1>1, <2>1, WriteGrants
<1>5. CASE DeleteShare(w)
  <2>1. AnswerWrite(w, Response(204, {}))
    BY <1>5 DEF DeleteShare
  <2> QED
    BY <1>1, <2>1, WriteGrants
<1> QED
  BY <1>2, <1>3, <1>4, <1>5 DEF Achieving

LEMMA FailGrants ==
  ASSUME IInv, NEW w \in Workers, Fail(w), NEW r
  PROVE  Granted(pc'[w], r, caller'[w], answer'[w])
<1>1. pc'[w] = "answered" /\ answer'[w].status = 500
  BY ErrorAnswers DEF Fail, Answer, IInv, TypeOK
<1> QED
  BY <1>1 DEF Granted, AfterCaller, AfterOwner

\* One statement of a worker which serves such a client.
LEMMA StatementGrants ==
  ASSUME AInv, NEW w \in Workers, Statement(w) \/ Fail(w),
         NEW c \in Clients, serves[w] = c, Repeating(c)
  PROVE  Granted(pc'[w], Goal[c], caller'[w], answer'[w])
<1> DEFINE r == Goal[c]
<1>1. /\ IInv /\ Known(w) /\ Busy(w) /\ r = request[w] /\ Allowed(r)
      /\ Granted(pc[w], r, caller[w], answer[w])
      /\ r.op \in {"delete_auth_key", "update_task_by_id", "put_share", "delete_share"}
  BY ReadyAfterStatement DEF AInv, RInv, Known, Busy, Repeating, Idempotent
<1>2. r \in Requests /\ pc[w] \in Statements(r.op)
  BY <1>1, Serving
<1>3. CASE Fail(w) \/ Achieving(w)
  BY <1>1, <1>3, FailGrants, AchievingGrants
<1>4. CASE Answering(w) /\ ~Achieving(w)
  <2>1. pc[w] \in {"insert_user", "insert_key", "find_user", "list_tasks", "insert_task",
                  "read_task", "list_shares"}
    BY <1>4 DEF Answering, InsertUser, InsertKey, FindUser, ListTasks, InsertTask,
       ReadTask, ListShares
  <2> QED
    BY <1>1, <1>2, <2>1, ServedOperation
<1>5. CASE Authenticate(w)
  <2>1. r.op # "delete_auth_key"
    BY <1>2, <1>5, ServedOperation DEF Authenticate
  <2> QED
    BY <1>1, <1>5, <2>1, AuthenticateGrants
<1>6. CASE FindAccount(w) \/ LoadShare(w)
  <2>1. pc[w] \in {"find_account", "load_share"}
    BY <1>6 DEF FindAccount, LoadShare
  <2> QED
    BY <1>1, <1>2, <2>1, ServedOperation DEF Granted
<1>7. CASE LoadTask(w)
  <2>1. pc[w] = "load_task" /\ r.op = "update_task_by_id"
    BY <1>1, <1>2, <1>7, ServedOperation DEF LoadTask
  <2>2. Owns(caller[w], r.task)
    BY <1>1, <2>1 DEF Granted, AfterCaller
  <2> QED
    BY <1>1, <1>7, <2>1, <2>2, LoadTaskGrants
<1>8. CASE CheckOwner(w) \/ FindTarget(w)
  <2>1. pc[w] \in {"check_owner", "find_target"}
    BY <1>8 DEF CheckOwner, FindTarget
  <2>2. r.op \in {"put_share", "delete_share"}
    BY <1>1, <1>2, <2>1, ServedOperation
  <2>3. Owns(caller[w], r.task)
    BY <1>1, <2>1 DEF Granted, AfterCaller, AfterOwner
  <2> QED
    BY <1>1, <1>8, <2>2, <2>3, CheckOwnerGrants, FindTargetGrants
<1> QED
  BY <1>3, <1>4, <1>5, <1>6, <1>7, <1>8, StatementKinds DEF Deciding

LEMMA TakeGrants ==
  ASSUME IInv, NEW w \in Workers, NEW c \in Clients, Take(w, c), Repeating(c)
  PROVE  Granted(pc'[w], Goal[c], caller'[w], answer'[w])
<1>1. Continue(w, FirstStatement(Goal[c].op))
  BY DEF Take, Begin, Repeating, Entitled
<1>2. pc'[w] \in {"delete_key", "authenticate"}
  BY <1>1 DEF Continue, FirstStatement, Repeating, Idempotent, IInv, TypeOK
<1> QED
  BY <1>2 DEF Granted, AfterCaller, AfterOwner

\* A worker whose thread did not move.
LEMMA WaitingGranted ==
  ASSUME AInv, Lasting, NEW v \in Workers, NEW c \in Clients, Repeating(c),
         serves[v] = c, pc[v] # "idle",
         UNCHANGED <<pc[v], caller[v], answer[v]>>
  PROVE  Granted(pc[v], Goal[c], caller[v], answer[v])'
<1>1. Granted(pc[v], Goal[c], caller[v], answer[v])
  BY DEF AInv
<1>2. Granted(pc[v], Goal[c], caller[v], answer[v])
        => Granted(pc'[v], Goal[c], caller'[v], answer'[v])
  OBVIOUS
<1> QED
  BY <1>1, OwnsStays DEF Granted

LEMMA GrantedThen ==
  ASSUME Lasting, NEW w \in Workers, NEW c \in Clients,
         Granted(pc'[w], Goal[c], caller'[w], answer'[w])
  PROVE  Granted(pc[w], Goal[c], caller[w], answer[w])'
BY DEF Granted, Owns, Lasting

LEMMA StepGrants ==
  ASSUME AInv, Lasting, [RetryNext]_retryVars,
         NEW v \in Workers, NEW c \in Clients, Repeating(c),
         serves'[v] = c, pc'[v] # "idle"
  PROVE  Granted(pc[v], Goal[c], caller[v], answer[v])'
<1>1. IInv /\ RetryTypeOK
  BY DEF AInv, RInv
<1>2. ASSUME NEW w \in Workers, Statement(w) \/ Fail(w), UNCHANGED serves
      PROVE  Granted(pc[v], Goal[c], caller[v], answer[v])'
  <2>1. CASE v = w
    BY <1>2, <2>1, StatementGrants, GrantedThen
  <2>2. CASE v # w
    <3>1. UNCHANGED <<pc[v], caller[v], answer[v]>>
      BY <1>1, <1>2, <2>2, OthersWaitForOne DEF OthersWait
    <3> QED
      BY <1>2, <3>1, WaitingGranted
  <2> QED
    BY <2>1, <2>2
<1>3. ASSUME NEW w \in Workers, NEW d \in Clients, Take(w, d)
      PROVE  Granted(pc[v], Goal[c], caller[v], answer[v])'
  <2>1. CASE v = w
    <3>1. d = c
      BY <1>1, <1>3, <2>1 DEF Take, RetryTypeOK
    <3> QED
      BY <1>1, <1>3, <2>1, <3>1, TakeGrants, GrantedThen
  <2>2. CASE v # w
    <3>1. UNCHANGED <<pc[v], caller[v], answer[v], serves[v]>>
      BY <1>1, <1>3, <2>2
         DEF Take, Begin, Answer, Continue, RetryTypeOK, IInv, TypeOK
    <3> QED
      BY <3>1, WaitingGranted
  <2> QED
    BY <2>1, <2>2
<1>4. ASSUME NEW w \in Workers, Tell(w)
      PROVE  Granted(pc[v], Goal[c], caller[v], answer[v])'
  <2>1. v # w
    BY <1>1, <1>4 DEF Tell, Deliver, Reset, IInv, TypeOK
  <2>2. UNCHANGED <<pc[v], caller[v], answer[v], serves[v]>>
    BY <1>1, <1>4, <2>1 DEF Tell, Deliver, Reset, RetryTypeOK, IInv, TypeOK
  <2> QED
    BY <2>2, WaitingGranted
<1>5. CASE \/ \E d \in Clients : Try(d)
           \/ UNCHANGED retryVars
  <2>1. UNCHANGED <<pc, caller, answer, serves>>
    BY <1>5 DEF Try, vars, retryVars
  <2> QED
    BY <2>1, WaitingGranted
<1>6. ~Restart
  BY DEF Restart, Crash
<1> QED
  BY <1>2, <1>3, <1>4, <1>5, <1>6 DEF RetryNext

LEMMA InitialAInv ==
  ASSUME RetryInit
  PROVE  AInv
<1>1. RInv /\ \A w \in Workers : pc[w] = "idle"
  BY InitialRInv DEF RetryInit, Init
<1> QED
  BY <1>1, AllowedAtFirst DEF AInv, RetryInit, Init

LEMMA RetryNextKeepsAInv ==
  ASSUME AInv, [RetryNext]_retryVars
  PROVE  AInv'
<1>1. RInv /\ RInv'
  BY RetryNextKeepsRInv DEF AInv
<1>2. Durable /\ Lasting
  BY <1>1, RetryStepsAreSteps, StepsAreDurable DEF RInv, Durable
<1>3. \A c \in Clients : Repeating(c) => Allowed(Goal[c])'
  BY <1>1, <1>2, AllowedStays DEF AInv
<1>4. \A c \in Clients, v \in Workers :
        Repeating(c) /\ serves'[v] = c /\ pc'[v] # "idle"
          => Granted(pc[v], Goal[c], caller[v], answer[v])'
  BY <1>2, StepGrants
<1> QED
  BY <1>1, <1>3, <1>4 DEF AInv

\* No attempt of an entitled and undisturbed client at something idempotent is
\* refused, however many of its earlier attempts succeeded.
THEOREM RepeatedAttemptsAreWelcome == RetrySpec => []RetriesAreNotRefused
<1>1. RetryInit => AInv
  BY InitialAInv
<1>2. AInv /\ [RetryNext]_retryVars => AInv'
  BY RetryNextKeepsAInv
<1>3. AInv => RetriesAreNotRefused
  BY DEF AInv, RInv, Known, Granted, Repeating, RetriesAreNotRefused
<1> QED
  BY <1>1, <1>2, <1>3, PTL DEF RetrySpec

------------------------------------------------------------------------------
(***************************************************************************)
(* Registrations.  What a client was told of its name stays true, and the  *)
(* copies of its request are counted as far as two of them.                *)
(***************************************************************************)
Settles(c, response) ==
  /\ response.status \in {201, 409, 500}
  /\ response.status # 500 => Named(c) # {}
  /\ response.status = 201 => Named(c) = OwnAccount(c)
  /\ response.status = 409 /\ Alone(c) /\ OwnAccount(c) # {} => attempts[c] > 1

Pending(w, c) == serves[w] = c /\ pc[w] = "insert_user"

\* Every copy under way, and the one which made the account, was sent.
Counted(c) ==
  /\ attempts[c] >= flying[c]
  /\ \A w \in Workers : Pending(w, c) => attempts[c] >= flying[c] + 1
  /\ \A v, w \in Workers :
       v # w /\ Pending(v, c) /\ Pending(w, c) => attempts[c] >= flying[c] + 2
  /\ Alone(c) /\ OwnAccount(c) # {} =>
       /\ attempts[c] >= flying[c] + 1
       /\ \A w \in Workers : Pending(w, c) => attempts[c] >= flying[c] + 2

Answered(c) ==
  /\ \A w \in Workers : serves[w] = c =>
       \/ pc[w] \in {"idle", "insert_user"}
       \/ pc[w] = "answered" /\ Settles(c, answer[w])
  /\ heard[c] # None => Settles(c, heard[c]) /\ heard[c].status # 500

\* A name which is taken stays with the account which has it.
LEMMA NamesStay ==
  ASSUME IInv, IInv', Lasting, NEW c \in Clients, Named(c) # {}
  PROVE  Named(c)' = Named(c) /\ OwnAccount(c)' = OwnAccount(c)
<1>1. PICK u \in users : u.username = StoredName(c)
  BY DEF Named
<1>2. u \in users' /\ UniqueUsernames(users) /\ UniqueUsernames(users')
  BY DEF Lasting, IInv, Integrity, ConsistentDatabase
<1>3. Named(c) = {u} /\ Named(c)' = {u}
  BY <1>1, <1>2 DEF Named, UniqueUsernames, StoredName
<1> QED
  BY <1>3 DEF OwnAccount

LEMMA SettlesStays ==
  ASSUME IInv, IInv', Lasting, RetryTypeOK, RetryTypeOK', NEW c \in Clients,
         attempts'[c] >= attempts[c], NEW response, Settles(c, response)
  PROVE  Settles(c, response)'
<1>1. attempts[c] \in Nat /\ attempts'[c] \in Nat
  BY DEF RetryTypeOK
<1>2. CASE response.status = 500
  BY <1>2 DEF Settles
<1>3. CASE response.status # 500
  <2>1. Named(c) # {} /\ Named(c)' = Named(c) /\ OwnAccount(c)' = OwnAccount(c)
    BY <1>3, NamesStay DEF Settles
  <2>2. attempts[c] > 1 => attempts'[c] > 1
    BY <1>1
  <2> QED
    BY <2>1, <2>2 DEF Settles
<1> QED
  BY <1>2, <1>3

\* The registration a worker at insert_user serves.
LEMMA RegistrationAt ==
  ASSUME RInv, NEW w \in Workers, InsertUser(w)
  PROVE  /\ serves[w] \in Clients /\ Registering(serves[w])
         /\ request[w] = Goal[serves[w]]
<1>1. pc[w] = "insert_user" /\ Busy(w)
  BY DEF InsertUser, Busy
<1>2. request[w] \in Requests /\ pc[w] \in Statements(request[w].op) /\ ~Invalid(request[w])
  BY <1>1, Serving DEF RInv
<1>3. request[w].op = "create_user"
  BY <1>1, <1>2, ServedOperation
<1>4. serves[w] \in Clients /\ request[w] = Goal[serves[w]]
  BY <1>1 DEF RInv, Known
<1> QED
  BY <1>2, <1>3, <1>4 DEF Registering, Invalid

\* Only a client itself makes its account, when it is alone.
LEMMA OwnIsMade ==
  ASSUME RInv, [Next]_vars, NEW c \in Clients, Alone(c), OwnAccount(c) = {},
         OwnAccount(c)' # {}
  PROVE  \E w \in Workers : serves[w] = c /\ InsertUser(w)
<1>1. users' # users
  BY DEF OwnAccount, Named, StoredName
<1>2. PICK w \in Workers : Writing(w)
  BY <1>1, OnlyStatementsWrite DEF Rows
<1>3. InsertUser(w)
  BY <1>1, <1>2 DEF Writing, InsertKey, insert_auth_key, DeleteKey, revoke_auth_key,
     InsertTask, insert_task, UpdateTask, update_task, UpsertShare, insert_share,
     replace_share, DeleteShare, delete_share
<1> DEFINE d == serves[w]
           row == [id |-> next_id("users"), username |-> StoredName(d),
                   password |-> hash_password(Goal[d].password)]
<1>4. d \in Clients /\ Registering(d) /\ request[w] = Goal[d]
  BY <1>3, RegistrationAt
<1>5. users' = users \cup {row}
  BY <1>1, <1>3, <1>4 DEF InsertUser, insert_user, DrawUserId, StoredName, database
<1>6. row.username = StoredName(d) /\ row.password = hash_password(Goal[d].password)
  OBVIOUS
<1> HIDE DEF row, d
<1>7. PICK u \in users' :
        u.username = StoredName(c) /\ u.password = hash_password(Goal[c].password)
  BY DEF OwnAccount, Named, StoredName
<1>8. u = row
  BY <1>5, <1>7 DEF OwnAccount, Named
<1>9. StoredName(d) = StoredName(c) /\ Goal[d].password = Goal[c].password
  BY <1>6, <1>7, <1>8 DEF hash_password
<1>10. d = c
  BY <1>4, <1>9 DEF Alone
<1> QED
  BY <1>3, <1>10 DEF d

\* What the insertion answers.
LEMMA InsertUserSettles ==
  ASSUME RInv, IInv', NEW w \in Workers, InsertUser(w), NEW c \in Clients,
         serves[w] = c, Counted(c), UNCHANGED attempts
  PROVE  pc'[w] = "answered" /\ Settles(c, answer[w])'
<1> DEFINE row == [id |-> next_id("users"), username |-> StoredName(c),
                   password |-> hash_password(Goal[c].password)]
           a == Response(201, {UserRepresentation(row)})
<1>1. request[w] = Goal[c] /\ IInv
  BY RegistrationAt DEF RInv
<1>2. ASSUME NEW e, Answer(w, e)
      PROVE  pc'[w] = "answered" /\ answer'[w] = e
  BY <1>1, <1>2 DEF Answer, IInv, TypeOK
<1>3. CASE Answer(w, into_http_response("QueryFailed"))
  <2>1. answer'[w].status = 500 /\ pc'[w] = "answered"
    BY <1>2, <1>3, ErrorAnswers
  <2> QED
    BY <2>1 DEF Settles
<1>4. CASE /\ username_taken(StoredName(c)) /\ DrawUserId
           /\ Answer(w, into_http_response("UserExists"))
  <2>1. answer'[w].status = 409 /\ pc'[w] = "answered"
    BY <1>2, <1>4, ErrorAnswers
  <2>2. Named(c) # {} /\ Named(c)' = Named(c) /\ OwnAccount(c)' = OwnAccount(c)
    BY <1>4 DEF username_taken, get_user_by_name, DrawUserId, Named, OwnAccount, StoredName
  <2>3. Alone(c) /\ OwnAccount(c) # {} => attempts[c] > 1
    <3>1. Pending(w, c)
      BY DEF InsertUser, Pending
    <3>2. attempts[c] \in Nat /\ flying[c] \in Nat
      BY DEF RInv, RetryTypeOK
    <3> QED
      BY <3>1, <3>2 DEF Counted
  <2> QED
    BY <2>1, <2>2, <2>3 DEF Settles
<1>5. CASE insert_user(row) /\ Answer(w, a)
  <2>1. answer'[w].status = 201 /\ pc'[w] = "answered"
    BY <1>2, <1>5 DEF Response
  <2>2. row \in users' /\ row.username = StoredName(c)
        /\ row.password = hash_password(Goal[c].password)
    BY <1>5 DEF insert_user
  <2> HIDE DEF row
  <2>3. Named(c)' = {row}
    BY <2>2 DEF Named, StoredName, IInv, Integrity, ConsistentDatabase, UniqueUsernames
  <2>4. Named(c)' # {} /\ OwnAccount(c)' = Named(c)'
    BY <2>2, <2>3 DEF OwnAccount
  <2> QED
    BY <2>1, <2>4 DEF Settles
<1> QED
  <2>1. \/ Answer(w, into_http_response("QueryFailed"))
        \/ /\ username_taken(StoredName(c)) /\ DrawUserId
           /\ Answer(w, into_http_response("UserExists"))
        \/ insert_user(row) /\ Answer(w, a)
    BY <1>1 DEF InsertUser, AnswerWrite, StoredName
  <2> QED
    BY <2>1, <1>3, <1>4, <1>5

\* A step in which no copy of the client's request is sent or read, and its
\* account is not made.
LEMMA CountedStays ==
  ASSUME NEW c \in Clients, Counted(c), UNCHANGED <<attempts, flying>>,
         \A w \in Workers : Pending(w, c)' => Pending(w, c),
         Alone(c) /\ OwnAccount(c)' # {} => OwnAccount(c) # {}
  PROVE  Counted(c)'
BY DEF Counted

LEMMA AnsweredStays ==
  ASSUME IInv, IInv', Lasting, RetryTypeOK, RetryTypeOK', NEW c \in Clients,
         attempts'[c] >= attempts[c], NEW v \in Workers,
         serves[v] = c =>
           \/ pc[v] \in {"idle", "insert_user"}
           \/ pc[v] = "answered" /\ Settles(c, answer[v]),
         UNCHANGED <<pc[v], answer[v], serves[v]>>, serves'[v] = c
  PROVE  \/ pc'[v] \in {"idle", "insert_user"}
         \/ pc'[v] = "answered" /\ Settles(c, answer[v])'
<1>1. CASE pc[v] \in {"idle", "insert_user"}
  BY <1>1
<1>2. CASE pc[v] = "answered" /\ Settles(c, answer[v])
  <2>1. PICK a : a = answer[v]
    OBVIOUS
  <2>2. Settles(c, a)' /\ answer'[v] = a
    BY <1>2, <2>1, SettlesStays
  <2> QED
    BY <1>2, <2>2 DEF Settles
<1> QED
  BY <1>1, <1>2

\* What a client has heard does not change its meaning.
LEMMA HeardStays ==
  ASSUME IInv, IInv', Lasting, RetryTypeOK, RetryTypeOK', NEW c \in Clients,
         attempts'[c] >= attempts[c], UNCHANGED heard,
         heard[c] # None => Settles(c, heard[c]) /\ heard[c].status # 500
  PROVE  heard'[c] # None => Settles(c, heard[c])' /\ heard'[c].status # 500
<1>1. PICK a : a = heard[c]
  OBVIOUS
<1>2. a # None => Settles(c, a)' /\ heard'[c] = a
  BY <1>1, SettlesStays
<1> QED
  BY <1>1, <1>2 DEF Settles

GInv ==
  /\ RInv
  /\ \A c \in Clients : Registering(c) => Counted(c) /\ Answered(c)

LEMMA OneInsertion ==
  ASSUME IInv, NEW v \in Workers, NEW w \in Workers, InsertUser(v),
         Statement(w) \/ Fail(w)
  PROVE  v = w
<1>1. pc[v] = "insert_user" /\ pc'[v] = "answered"
  BY AnsweringAnswers DEF InsertUser, Answering
<1> QED
  BY <1>1, OthersWaitForOne DEF OthersWait

LEMMA StatementKeepsRegistrations ==
  ASSUME GInv, RInv', Lasting, NEW w \in Workers, Statement(w) \/ Fail(w),
         UNCHANGED <<attempts, flying, serves, heard>>,
         NEW c \in Clients, Registering(c)
  PROVE  Counted(c)' /\ Answered(c)'
<1>1. /\ RInv /\ Counted(c) /\ Answered(c) /\ IInv /\ IInv' /\ RetryTypeOK /\ RetryTypeOK'
      /\ attempts[c] \in Nat /\ flying[c] \in Nat /\ Busy(w)
  BY ReadyAfterStatement DEF GInv, RInv, RetryTypeOK
<1>2. attempts'[c] >= attempts[c]
  BY <1>1
<1>3. heard'[c] # None => Settles(c, heard[c])' /\ heard'[c].status # 500
  BY <1>1, <1>2, HeardStays DEF Answered
<1>4. ASSUME NEW v \in Workers, v # w
      PROVE  UNCHANGED <<pc[v], answer[v], serves[v]>>
  BY <1>1, <1>4, OthersWaitForOne DEF OthersWait
<1>5. ASSUME NEW v \in Workers, v # w, serves'[v] = c
      PROVE  \/ pc'[v] \in {"idle", "insert_user"}
             \/ pc'[v] = "answered" /\ Settles(c, answer[v])'
  BY <1>1, <1>2, <1>4, <1>5, AnsweredStays DEF Answered
<1>6. CASE serves[w] = c /\ InsertUser(w)
  <2>1. pc'[w] = "answered" /\ Settles(c, answer[w])'
    BY <1>1, <1>6, InsertUserSettles
  <2>2. Pending(w, c)
    BY <1>6 DEF InsertUser, Pending
  <2>3. ASSUME NEW v \in Workers, Pending(v, c)'
        PROVE  v # w /\ Pending(v, c)
    BY <1>4, <2>1, <2>3 DEF Pending
  <2>4. Counted(c)'
    <3>1. attempts[c] >= flying[c] + 1
      BY <1>1, <2>2 DEF Counted
    <3>2. \A v \in Workers : Pending(v, c)' => attempts[c] >= flying[c] + 2
      BY <1>1, <2>2, <2>3 DEF Counted
    <3> QED
      BY <1>1, <3>1, <3>2 DEF Counted
  <2> QED
    BY <1>3, <1>5, <2>1, <2>4 DEF Answered
<1>7. CASE ~(serves[w] = c /\ InsertUser(w))
  <2>1. Alone(c) /\ OwnAccount(c)' # {} => OwnAccount(c) # {}
    <3>1. [Next]_vars
      BY DEF Next
    <3> QED
      BY <1>1, <1>7, <3>1, OwnIsMade, OneInsertion
  <2>2. ASSUME serves[w] = c
        PROVE  pc'[w] = "answered" /\ Settles(c, answer[w])'
    <3>1. pc[w] = "insert_user"
      BY <1>1, <2>2 DEF Answered, Busy
    <3>2. Fail(w)
      BY <1>7, <2>2, <3>1 DEF Statement, Authenticate, FindAccount, InsertKey, DeleteKey,
         FindUser, ListTasks, InsertTask, LoadTask, LoadShare, ReadTask, UpdateTask,
         CheckOwner, ListShares, FindTarget, UpsertShare, DeleteShare
    <3>3. pc'[w] = "answered" /\ answer'[w].status = 500
      BY <1>1, <3>2, ErrorAnswers DEF Fail, Answer, IInv, TypeOK
    <3> QED
      BY <3>3 DEF Settles
  <2>3. \A v \in Workers : Pending(v, c)' => Pending(v, c)
    BY <1>4, <2>2 DEF Pending
  <2>4. Counted(c)'
    BY <1>1, <2>1, <2>3, CountedStays
  <2> QED
    BY <1>3, <1>5, <2>2, <2>4 DEF Answered
<1> QED
  BY <1>6, <1>7

LEMMA NoNewAccounts ==
  ASSUME UNCHANGED Rows, NEW c \in Clients
  PROVE  OwnAccount(c)' = OwnAccount(c)
BY DEF Rows, OwnAccount, Named, StoredName

LEMMA TryKeepsRegistrations ==
  ASSUME GInv, RInv', Lasting, NEW d \in Clients, Try(d), NEW c \in Clients,
         Registering(c)
  PROVE  Counted(c)' /\ Answered(c)'
<1>1. /\ Counted(c) /\ Answered(c) /\ IInv /\ IInv' /\ RetryTypeOK /\ RetryTypeOK'
      /\ attempts[c] \in Nat /\ flying[c] \in Nat
  BY DEF GInv, RInv, RetryTypeOK
<1>2. UNCHANGED <<Rows, pc, answer, serves, heard>>
  BY DEF Try, vars, Rows, database
<1>3. /\ OwnAccount(c)' = OwnAccount(c)
      /\ \A w \in Workers : Pending(w, c)' <=> Pending(w, c)
  BY <1>2, NoNewAccounts DEF Pending
<1>4. \/ attempts'[c] = attempts[c] /\ flying'[c] = flying[c]
      \/ attempts'[c] = attempts[c] + 1 /\ flying'[c] = flying[c] + 1
  BY <1>1 DEF Try, RetryTypeOK
<1>5. Counted(c)'
  BY <1>1, <1>3, <1>4 DEF Counted
<1>6. attempts'[c] >= attempts[c]
  BY <1>1, <1>4
<1> QED
  BY <1>1, <1>2, <1>5, <1>6, HeardStays, AnsweredStays DEF Answered

LEMMA TakeKeepsRegistrations ==
  ASSUME GInv, RInv', Lasting, NEW d \in Clients, NEW w \in Workers, Take(w, d),
         NEW c \in Clients, Registering(c)
  PROVE  Counted(c)' /\ Answered(c)'
<1>1. /\ Counted(c) /\ Answered(c) /\ IInv /\ IInv' /\ RetryTypeOK /\ RetryTypeOK'
      /\ attempts[c] \in Nat /\ flying[c] \in Nat /\ Goal[c] \in Requests
  BY GoalAssumption DEF GInv, RInv, RetryTypeOK
<1>2. /\ UNCHANGED <<Rows, attempts, heard>> /\ serves'[w] = d /\ pc[w] = "idle"
      /\ serves' = [serves EXCEPT ![w] = d]
  BY <1>1 DEF Take, Begin, Rows, database, RetryTypeOK
<1>3. ASSUME NEW v \in Workers, v # w
      PROVE  UNCHANGED <<pc[v], answer[v], serves[v]>>
  BY <1>1, <1>2, <1>3 DEF Take, Begin, Answer, Continue, RetryTypeOK, IInv, TypeOK
<1>4. OwnAccount(c)' = OwnAccount(c) /\ attempts'[c] >= attempts[c]
  BY <1>1, <1>2, NoNewAccounts
<1>5. heard'[c] # None => Settles(c, heard[c])' /\ heard'[c].status # 500
  BY <1>1, <1>2, <1>4, HeardStays DEF Answered
<1>6. ASSUME NEW v \in Workers, v # w, serves'[v] = c
      PROVE  \/ pc'[v] \in {"idle", "insert_user"}
             \/ pc'[v] = "answered" /\ Settles(c, answer[v])'
  BY <1>1, <1>3, <1>4, <1>6, AnsweredStays DEF Answered
<1>7. CASE d = c
  <2>1. ~Invalid(Goal[c])
    BY <1>1 DEF Registering, Invalid
  <2>2. pc'[w] = "insert_user"
    BY <1>1, <1>7, <2>1
       DEF Take, Begin, Continue, FirstStatement, Registering, IInv, TypeOK
  <2>3. flying[c] > 0 /\ flying'[c] = flying[c] - 1
    BY <1>1, <1>7 DEF Take, RetryTypeOK
  <2>4. ASSUME NEW v \in Workers, v # w, Pending(v, c)'
        PROVE  Pending(v, c)
    BY <1>3, <2>4 DEF Pending
  <2>5. Counted(c)'
    <3>1. attempts[c] >= flying'[c] + 1
      BY <1>1, <2>3 DEF Counted
    <3>2. \A v \in Workers : v # w /\ Pending(v, c)' => attempts[c] >= flying'[c] + 2
      BY <1>1, <2>3, <2>4 DEF Counted
    <3>3. Alone(c) /\ OwnAccount(c) # {} => attempts[c] >= flying'[c] + 2
      BY <1>1, <2>3 DEF Counted
    <3>4. flying'[c] \in Nat /\ attempts'[c] = attempts[c]
      BY <1>1, <1>2, <2>3
    <3> QED
      BY <1>1, <1>4, <3>1, <3>2, <3>3, <3>4 DEF Counted
  <2> QED
    BY <1>5, <1>6, <2>2, <2>5 DEF Answered
<1>8. CASE d # c
  <2>1. flying'[c] = flying[c]
    BY <1>1, <1>8 DEF Take, RetryTypeOK
  <2>2. \A v \in Workers : Pending(v, c)' => Pending(v, c)
    BY <1>2, <1>3, <1>8 DEF Pending
  <2>3. Counted(c)'
    BY <1>1, <1>2, <1>4, <2>1, <2>2 DEF Counted
  <2> QED
    BY <1>2, <1>5, <1>6, <1>8, <2>3 DEF Answered
<1> QED
  BY <1>7, <1>8

LEMMA TellKeepsRegistrations ==
  ASSUME GInv, RInv', Lasting, NEW w \in Workers, Tell(w), NEW c \in Clients,
         Registering(c)
  PROVE  Counted(c)' /\ Answered(c)'
<1>1. /\ Counted(c) /\ Answered(c) /\ IInv /\ IInv' /\ RetryTypeOK /\ RetryTypeOK'
      /\ attempts[c] \in Nat /\ flying[c] \in Nat /\ Known(w)
  BY DEF GInv, RInv, RetryTypeOK
<1>2. /\ UNCHANGED <<Rows, attempts, flying>> /\ pc[w] = "answered" /\ pc'[w] = "idle"
  BY <1>1 DEF Tell, Deliver, Reset, Rows, database, IInv, TypeOK
<1>3. ASSUME NEW v \in Workers, v # w
      PROVE  UNCHANGED <<pc[v], answer[v], serves[v]>>
  BY <1>1, <1>3 DEF Tell, Deliver, Reset, RetryTypeOK, IInv, TypeOK
<1>4. OwnAccount(c)' = OwnAccount(c) /\ attempts'[c] >= attempts[c]
  BY <1>1, <1>2, NoNewAccounts
<1>5. heard'[c] # None => Settles(c, heard[c])' /\ heard'[c].status # 500
  <2>1. PICK a : a = heard'[c]
    OBVIOUS
  <2>2. a # None => Settles(c, a) /\ a.status # 500
    <3>1. CASE heard'[c] = heard[c]
      BY <1>1, <2>1, <3>1 DEF Answered
    <3>2. CASE heard'[c] # heard[c]
      <4>1. serves[w] = c /\ a = answer[w] /\ answer[w].status # 500
        BY <1>1, <2>1, <3>2 DEF Tell, RetryTypeOK
      <4> QED
        BY <1>1, <1>2, <4>1 DEF Answered
    <3> QED
      BY <3>1, <3>2
  <2>3. a # None => Settles(c, a)'
    BY <1>1, <1>4, <2>2, SettlesStays
  <2> QED
    BY <2>1, <2>2, <2>3 DEF Settles
<1>6. \A v \in Workers : Pending(v, c)' => Pending(v, c)
  BY <1>2, <1>3 DEF Pending
<1>7. Counted(c)'
  BY <1>1, <1>2, <1>4, <1>6, CountedStays
<1>8. ASSUME NEW v \in Workers, v # w, serves'[v] = c
      PROVE  \/ pc'[v] \in {"idle", "insert_user"}
             \/ pc'[v] = "answered" /\ Settles(c, answer[v])'
  BY <1>1, <1>3, <1>4, <1>8, AnsweredStays DEF Answered
<1> QED
  BY <1>2, <1>5, <1>7, <1>8 DEF Answered

LEMMA RestartKeepsRegistrations ==
  ASSUME GInv, RInv', Lasting, Restart, NEW c \in Clients, Registering(c)
  PROVE  Counted(c)' /\ Answered(c)'
<1>1. /\ Counted(c) /\ Answered(c) /\ IInv /\ IInv' /\ RetryTypeOK /\ RetryTypeOK'
      /\ attempts[c] \in Nat
  BY DEF GInv, RInv, RetryTypeOK
<1>2. /\ UNCHANGED <<Rows, attempts, flying, heard>> /\ pc' = [w \in Workers |-> "idle"]
  BY DEF Restart, Crash, Rows, database
<1>3. heard'[c] # None => Settles(c, heard[c])' /\ heard'[c].status # 500
  BY <1>1, <1>2, HeardStays DEF Answered
<1>4. Counted(c)'
  BY <1>1, <1>2, NoNewAccounts, CountedStays DEF Pending
<1> QED
  BY <1>2, <1>3, <1>4 DEF Answered

LEMMA StutterKeepsRegistrations ==
  ASSUME GInv, RInv', Lasting, UNCHANGED retryVars, NEW c \in Clients, Registering(c)
  PROVE  Counted(c)' /\ Answered(c)'
<1>1. /\ Counted(c) /\ Answered(c) /\ IInv /\ IInv' /\ RetryTypeOK /\ RetryTypeOK'
      /\ attempts[c] \in Nat
  BY DEF GInv, RInv, RetryTypeOK
<1>2. UNCHANGED <<Rows, attempts, flying, heard, serves, pc, answer>>
  BY DEF retryVars, vars, Rows, database
<1>3. Counted(c)'
  BY <1>1, <1>2, NoNewAccounts, CountedStays DEF Pending
<1> QED
  BY <1>1, <1>2, <1>3, HeardStays, AnsweredStays DEF Answered

LEMMA RetryNextKeepsGInv ==
  ASSUME GInv, [RetryNext]_retryVars
  PROVE  GInv'
<1>1. RInv /\ RInv'
  BY RetryNextKeepsRInv DEF GInv
<1>2. Lasting
  BY <1>1, RetryStepsAreSteps, StepsAreDurable DEF RInv, Durable
<1>3. ASSUME NEW c \in Clients, Registering(c)
      PROVE  Counted(c)' /\ Answered(c)'
  <2>1. CASE \E d \in Clients : Try(d) \/ \E w \in Workers : Take(w, d)
    BY <1>1, <1>2, <1>3, <2>1, TryKeepsRegistrations, TakeKeepsRegistrations
  <2>2. CASE \E w \in Workers :
               \/ Tell(w)
               \/ /\ Statement(w) \/ Fail(w)
                  /\ UNCHANGED <<patience, attempts, flying, serves, heard>>
    BY <1>1, <1>2, <1>3, <2>2, TellKeepsRegistrations, StatementKeepsRegistrations
  <2>3. CASE Restart \/ UNCHANGED retryVars
    BY <1>1, <1>2, <1>3, <2>3, RestartKeepsRegistrations, StutterKeepsRegistrations
  <2> QED
    BY <2>1, <2>2, <2>3 DEF RetryNext
<1> QED
  BY <1>1, <1>3 DEF GInv

LEMMA InitialGInv ==
  ASSUME RetryInit
  PROVE  GInv
<1>1. /\ RInv /\ \A w \in Workers : pc[w] = "idle"
      /\ \A c \in Clients : attempts[c] = 0 /\ flying[c] = 0 /\ heard[c] = None
  BY InitialRInv DEF RetryInit, Init
<1>2. ASSUME NEW c \in Clients, Alone(c)
      PROVE  OwnAccount(c) = {}
  BY <1>2 DEF RetryInit, Init, StoreInit, Alone, OwnAccount, Named
<1> QED
  BY <1>1, <1>2 DEF GInv, Counted, Answered, Pending

\* A name belongs to whoever was told 201 for it, whatever copies of other
\* registrations are handled later, and who was told 409 about an account of its
\* own has sent its request more than once.
THEOREM NamesAreSettled == RetrySpec => []RegistrationsAreSettled
<1>1. RetryInit => GInv
  BY InitialGInv
<1>2. GInv /\ [RetryNext]_retryVars => GInv'
  BY RetryNextKeepsGInv
<1>3. GInv => RegistrationsAreSettled
  BY DEF GInv, Answered, Settles, RegistrationsAreSettled
<1> QED
  BY <1>1, <1>2, <1>3, PTL DEF RetrySpec

------------------------------------------------------------------------------
(***************************************************************************)
(* Creations.  A client's tasks, the copies being handled and the copies   *)
(* under way are together no more than it has sent.                        *)
(***************************************************************************)
Creating(c) == Goal[c].op = "add_task" /\ OwnTitle(c)

Under(c) == {w \in Workers : serves[w] = c /\ pc[w] \notin {"idle", "answered"}}

Created(c, response) == response.status = 201 => response.body \subseteq TasksOf(c)

FirstId == InitialDatabase.sequence["tasks"]

Balanced(c) ==
  /\ IsFiniteSet(TasksOf(c)) /\ IsFiniteSet(Under(c))
  /\ Cardinality(TasksOf(c)) + Cardinality(Under(c)) + flying[c] <= attempts[c]

NewTasks(c) == \A t \in TasksOf(c) : t.id >= FirstId

Shown(c) ==
  /\ \A w \in Workers :
       serves[w] = c /\ pc[w] = "answered" => Created(c, answer[w])
  /\ heard[c] # None => Created(c, heard[c])

TInv ==
  /\ RInv
  /\ FirstId <= sequence["tasks"]
  /\ \A c \in Clients : Creating(c) => Balanced(c) /\ NewTasks(c) /\ Shown(c)

LEMMA FirstIdIsANumber == FirstId \in Nat
BY InitialAssumption DEF FirstId, TypedDatabase, Tables

\* Ids are never drawn again.
LEMMA SequenceGrows ==
  ASSUME IInv, [Next]_vars
  PROVE  sequence'["tasks"] >= sequence["tasks"]
<1>1. sequence \in [Tables -> Nat] /\ "tasks" \in Tables /\ sequence["tasks"] \in Nat
  BY IInvWellFormed, IdsAreNumbers DEF Tables
<1>2. CASE UNCHANGED sequence
  BY <1>1, <1>2
<1>3. ASSUME NEW table \in Tables, DrawId(table)
      PROVE  sequence'["tasks"] >= sequence["tasks"]
  BY <1>1, <1>3 DEF DrawId
<1>4. ASSUME NEW w \in Workers, Statement(w)
      PROVE  UNCHANGED sequence \/ \E table \in Tables : DrawId(table)
  <2>1. CASE Deciding(w)
    BY <2>1 DEF Deciding, Authenticate, FindAccount, LoadTask, LoadShare, CheckOwner,
       FindTarget, database
  <2>2. CASE Achieving(w)
    BY <2>2 DEF Achieving, DeleteKey, revoke_auth_key, UpdateTask, update_task,
       UpsertShare, insert_share, replace_share, DeleteShare, delete_share, Tables
  <2>3. CASE Answering(w) /\ ~Achieving(w)
    BY <2>3 DEF Answering, InsertUser, insert_user, DrawUserId, InsertKey,
       insert_auth_key, FindUser, ListTasks, InsertTask, insert_task, ReadTask,
       ListShares, database, Tables
  <2> QED
    BY <1>4, <2>1, <2>2, <2>3, StatementKinds
<1>5. UNCHANGED sequence \/ \E w \in Workers : Statement(w)
  BY DEF Next, Receive, Begin, Fail, Deliver, Reset, Crash, PassTime, Tick, vars, database
<1> QED
  BY <1>2, <1>3, <1>4, <1>5

\* The creation a worker at insert_task serves.
LEMMA CreationAt ==
  ASSUME RInv, NEW w \in Workers, InsertTask(w)
  PROVE  /\ serves[w] \in Clients /\ request[w] = Goal[serves[w]]
         /\ Goal[serves[w]].op = "add_task"
<1>1. pc[w] = "insert_task" /\ Busy(w)
  BY DEF InsertTask, Busy
<1>2. request[w] \in Requests /\ pc[w] \in Statements(request[w].op)
  BY <1>1, Serving DEF RInv
<1>3. serves[w] \in Clients /\ request[w] = Goal[serves[w]]
  BY <1>1 DEF RInv, Known
<1> QED
  BY <1>1, <1>2, <1>3, ServedOperation

\* Who changes a task which was there at first leaves the client's alone.
LEMMA UpdatesOfOthers ==
  ASSUME RInv, NEW w \in Workers, UpdateTask(w), NEW c \in Clients, Creating(c),
         NewTasks(c)
  PROVE  TasksOf(c)' = TasksOf(c)
<1> DEFINE d == serves[w]
           r == request[w]
<1>1. /\ d \in Clients /\ r = Goal[d] /\ r.op = "update_task_by_id"
      /\ update_task(r.task, r)
  <2>1. pc[w] = "update_task" /\ Busy(w)
    BY DEF UpdateTask, Busy
  <2>2. r \in Requests /\ pc[w] \in Statements(r.op)
    BY <2>1, Serving DEF RInv
  <2>3. d \in Clients /\ r = Goal[d]
    BY <2>1 DEF RInv, Known
  <2> QED
    BY <2>1, <2>2, <2>3, ServedOperation DEF UpdateTask
<1>2. d # c
  BY <1>1 DEF Creating
<1>3. r.title # Goal[c].title /\ r.task < FirstId
  BY <1>1, <1>2 DEF Creating, OwnTitle, FirstId
<1>4. r.task \in Nat
  <2>1. r \in UpdateTaskPayload
    BY <1>1, GoalAssumption, RequestKinds
  <2> QED
    BY <2>1 DEF UpdateTaskPayload
<1>5. ASSUME NEW t \in tasks
      PROVE  t \in Task /\ (t.id = r.task => changed(t, r).title # Goal[c].title)
  <2>1. t \in Task /\ t.id \in Nat
    BY DEF RInv, IInv, TypeOK, TypedDatabase, Task
  <2>2. t.id = r.task => t.title # Goal[c].title
    BY <1>3, <1>4, <2>1, FirstIdIsANumber DEF NewTasks, TasksOf
  <2>3. changed(t, r).title = IF r.title = None THEN t.title ELSE r.title
    BY <2>1 DEF changed, Task
  <2> QED
    BY <1>3, <2>1, <2>2, <2>3
<1>6. ASSUME NEW t \in tasks, t.id = r.task
      PROVE  t.title # Goal[c].title
  <2>1. t.id \in Nat
    BY DEF RInv, IInv, TypeOK, TypedDatabase, Task
  <2> QED
    BY <1>3, <1>4, <1>6, <2>1, FirstIdIsANumber DEF NewTasks, TasksOf
<1>7. tasks' = {IF t.id = r.task THEN changed(t, r) ELSE t : t \in tasks}
  BY <1>1 DEF update_task
<1> HIDE DEF r, d
<1> QED
  BY <1>5, <1>6, <1>7 DEF TasksOf

\* A client's tasks change by its own insertions only.
LEMMA TasksOfStep ==
  ASSUME RInv, [Next]_vars, NEW c \in Clients, Creating(c), NewTasks(c)
  PROVE  \/ TasksOf(c)' = TasksOf(c)
         \/ \E w \in Workers : serves[w] = c /\ InsertTask(w)
<1>1. CASE UNCHANGED tasks
  BY <1>1 DEF TasksOf
<1>2. ASSUME NEW w \in Workers, InsertTask(w), serves[w] # c
      PROVE  TasksOf(c)' = TasksOf(c)
  <2> DEFINE d == serves[w]
             row == [id |-> next_id("tasks"), owner |-> caller[w].id,
                     title |-> request[w].title,
                     description |-> request[w].description, completed |-> FALSE]
  <2>1. d \in Clients /\ request[w] = Goal[d] /\ Goal[d].op = "add_task"
    BY <1>2, CreationAt
  <2>2. Goal[d].title # Goal[c].title
    BY <1>2, <2>1 DEF Creating, OwnTitle
  <2>3. tasks' = tasks \cup {row} /\ row.title = request[w].title
    BY <1>2 DEF InsertTask, insert_task
  <2> HIDE DEF row
  <2> QED
    BY <2>1, <2>2, <2>3 DEF TasksOf
<1>3. CASE ~UNCHANGED tasks
  <2>1. PICK w \in Workers : Writing(w)
    BY <1>3, OnlyStatementsWrite DEF Rows
  <2>2. InsertTask(w) \/ UpdateTask(w)
    BY <1>3, <2>1 DEF Writing, InsertUser, insert_user, DrawUserId, database, InsertKey,
       insert_auth_key, DeleteKey, revoke_auth_key, UpsertShare, insert_share,
       replace_share, DeleteShare, delete_share
  <2> QED
    BY <1>2, <2>2, UpdatesOfOthers
<1> QED
  BY <1>1, <1>3

\* The insertion of a client's task, and what the worker answers.
LEMMA OwnInsertion ==
  ASSUME RInv, NEW w \in Workers, InsertTask(w), NEW c \in Clients, serves[w] = c
  PROVE  /\ pc'[w] = "answered" /\ Created(c, answer[w])'
         /\ \E row : row.id = sequence["tasks"] /\ TasksOf(c)' = TasksOf(c) \cup {row}
<1> DEFINE row == [id |-> next_id("tasks"), owner |-> caller[w].id,
                   title |-> request[w].title,
                   description |-> request[w].description, completed |-> FALSE]
<1>1. request[w] = Goal[c] /\ IInv
  BY CreationAt DEF RInv
<1>2. tasks' = tasks \cup {row} /\ AnswerWrite(w, Response(201, {row}))
  BY DEF InsertTask, insert_task
<1>3. row.title = Goal[c].title /\ row.id = sequence["tasks"]
  BY <1>1 DEF next_id
<1> HIDE DEF row
<1>4. TasksOf(c)' = TasksOf(c) \cup {row}
  BY <1>2, <1>3 DEF TasksOf
<1>5. /\ pc'[w] = "answered"
      /\ answer'[w] = Response(201, {row}) \/ answer'[w] = into_http_response("QueryFailed")
  BY <1>1, <1>2 DEF AnswerWrite, Answer, IInv, TypeOK
<1>6. Response(201, {row}).body = {row}
  BY DEF Response
<1>7. Created(c, answer[w])'
  <2>1. CASE answer'[w] = Response(201, {row})
    BY <1>4, <1>6, <2>1 DEF Created
  <2>2. CASE answer'[w] = into_http_response("QueryFailed")
    <3>1. answer'[w].status # 201
      BY <2>2, ErrorAnswers
    <3> QED
      BY <3>1 DEF Created
  <2> QED
    BY <1>5, <2>1, <2>2
<1> QED
  BY <1>3, <1>4, <1>5, <1>7

LEMMA OneMore ==
  ASSUME NEW S, NEW x, IsFiniteSet(S)
  PROVE  /\ IsFiniteSet(S \cup {x})
         /\ Cardinality(S) \in Nat
         /\ Cardinality(S \cup {x}) <= Cardinality(S) + 1
<1>1. Cardinality(S) \in Nat
  BY FS_CardinalityType
<1>2. /\ IsFiniteSet(S \cup {x})
      /\ Cardinality(S \cup {x}) = IF x \in S THEN Cardinality(S) ELSE Cardinality(S) + 1
  BY FS_AddElement
<1>3. /\ x \in S => Cardinality(S \cup {x}) = Cardinality(S)
      /\ x \notin S => Cardinality(S \cup {x}) = Cardinality(S) + 1
  BY <1>2
<1> DEFINE n == Cardinality(S)
           m == Cardinality(S \cup {x})
<1>4. n \in Nat /\ (m = n \/ m = n + 1)
  BY <1>1, <1>3
<1> HIDE DEF n, m
<1>5. m <= n + 1
  BY <1>4
<1> QED
  BY <1>1, <1>2, <1>5 DEF n, m

\* Nothing is counted twice when a copy moves on.
LEMMA BalanceKept ==
  ASSUME RetryTypeOK, RetryTypeOK', NEW c \in Clients, Balanced(c),
         UNCHANGED TasksOf(c), Under(c)' \subseteq Under(c),
         attempts'[c] - flying'[c] >= attempts[c] - flying[c]
  PROVE  Balanced(c)'
<1>1. /\ attempts[c] \in Nat /\ flying[c] \in Nat
      /\ attempts'[c] \in Nat /\ flying'[c] \in Nat
  BY DEF RetryTypeOK
<1>2. /\ IsFiniteSet(TasksOf(c)) /\ IsFiniteSet(Under(c))
      /\ Cardinality(TasksOf(c)) + Cardinality(Under(c)) + flying[c] <= attempts[c]
  BY DEF Balanced
<1> DEFINE left == Under(c)'
<1>3. left \in SUBSET Under(c)
  OBVIOUS
<1> HIDE DEF left
<1>4. IsFiniteSet(left) /\ Cardinality(left) <= Cardinality(Under(c))
  BY <1>2, <1>3, FS_Subset
<1>5. /\ Cardinality(TasksOf(c)) \in Nat /\ Cardinality(Under(c)) \in Nat
      /\ Cardinality(left) \in Nat
  BY <1>2, <1>4, FS_CardinalityType
<1>6. Cardinality(TasksOf(c)) + Cardinality(left) + flying'[c] <= attempts'[c]
  BY <1>1, <1>2, <1>4, <1>5
<1> QED
  BY <1>2, <1>4, <1>6 DEF Balanced, left

\* A copy which is read was under way before.
LEMMA BalanceTaken ==
  ASSUME RetryTypeOK, NEW c \in Clients, Balanced(c), UNCHANGED <<TasksOf(c), attempts>>,
         NEW w, Under(c)' \subseteq Under(c) \cup {w}, flying[c] > 0,
         flying'[c] = flying[c] - 1
  PROVE  Balanced(c)'
<1>1. attempts[c] \in Nat /\ flying[c] \in Nat
  BY DEF RetryTypeOK
<1>2. /\ IsFiniteSet(TasksOf(c)) /\ IsFiniteSet(Under(c))
      /\ Cardinality(TasksOf(c)) + Cardinality(Under(c)) + flying[c] <= attempts[c]
  BY DEF Balanced
<1> DEFINE after == Under(c)'
           more == Under(c) \cup {w}
<1>3. after \in SUBSET more
  OBVIOUS
<1> HIDE DEF after
<1>4. IsFiniteSet(more) /\ Cardinality(more) <= Cardinality(Under(c)) + 1
      /\ Cardinality(Under(c)) \in Nat
  BY <1>2, OneMore
<1> HIDE DEF more
<1>5. IsFiniteSet(after) /\ Cardinality(after) <= Cardinality(more)
  BY <1>3, <1>4, FS_Subset
<1>6. /\ Cardinality(TasksOf(c)) \in Nat /\ Cardinality(more) \in Nat
      /\ Cardinality(after) \in Nat
  BY <1>2, <1>4, <1>5, FS_CardinalityType
<1>7. Cardinality(TasksOf(c)) + Cardinality(after) + flying'[c] <= attempts[c]
  BY <1>1, <1>2, <1>4, <1>5, <1>6
<1> QED
  BY <1>2, <1>5, <1>7 DEF Balanced, after

\* A copy which is inserted was under way before.
LEMMA BalanceInserted ==
  ASSUME RetryTypeOK, NEW c \in Clients, Balanced(c), UNCHANGED <<flying, attempts>>,
         NEW row, TasksOf(c)' = TasksOf(c) \cup {row},
         NEW w \in Under(c), Under(c)' \subseteq Under(c) \ {w}
  PROVE  Balanced(c)'
<1>1. attempts[c] \in Nat /\ flying[c] \in Nat
  BY DEF RetryTypeOK
<1>2. /\ IsFiniteSet(TasksOf(c)) /\ IsFiniteSet(Under(c))
      /\ Cardinality(TasksOf(c)) + Cardinality(Under(c)) + flying[c] <= attempts[c]
  BY DEF Balanced
<1> DEFINE left == Under(c)'
           fewer == Under(c) \ {w}
           more == TasksOf(c) \cup {row}
<1>3. left \in SUBSET fewer
  OBVIOUS
<1>4. IsFiniteSet(fewer) /\ Cardinality(fewer) = Cardinality(Under(c)) - 1
  BY <1>2, FS_RemoveElement
<1>5. IsFiniteSet(more) /\ Cardinality(more) <= Cardinality(TasksOf(c)) + 1
  BY <1>2, OneMore
<1>6. TasksOf(c)' = more
  OBVIOUS
<1> HIDE DEF left, fewer, more
<1>7. IsFiniteSet(left) /\ Cardinality(left) <= Cardinality(fewer)
  BY <1>3, <1>4, FS_Subset
<1>8. /\ Cardinality(TasksOf(c)) \in Nat /\ Cardinality(Under(c)) \in Nat
      /\ Cardinality(more) \in Nat /\ Cardinality(left) \in Nat
      /\ Cardinality(fewer) \in Nat
  BY <1>2, <1>4, <1>5, <1>7, FS_CardinalityType
<1>9. Cardinality(more) + Cardinality(left) + flying[c] <= attempts[c]
  BY <1>1, <1>2, <1>4, <1>5, <1>7, <1>8
<1> QED
  BY <1>5, <1>6, <1>7, <1>9 DEF Balanced, left

\* A client's tasks are not taken from it.
LEMMA CreatedStays ==
  ASSUME NEW c, TasksOf(c) \subseteq TasksOf(c)', NEW response, Created(c, response)
  PROVE  Created(c, response)'
BY DEF Created

\* A worker whose thread did not move, and a client which heard nothing new.
LEMMA ShownStays ==
  ASSUME NEW c \in Clients, Shown(c), TasksOf(c) \subseteq TasksOf(c)',
         \A w \in Workers : serves'[w] = c /\ pc'[w] = "answered" =>
           serves[w] = c /\ pc[w] = "answered" /\ answer'[w] = answer[w],
         heard'[c] # None =>
           \/ heard'[c] = heard[c]
           \/ \E w \in Workers :
                serves[w] = c /\ pc[w] = "answered" /\ heard'[c] = answer[w]
  PROVE  Shown(c)'
<1>1. ASSUME NEW w \in Workers, serves'[w] = c, pc'[w] = "answered"
      PROVE  Created(c, answer[w])'
  BY <1>1 DEF Shown, Created
<1>2. ASSUME heard'[c] # None
      PROVE  Created(c, heard[c])'
  BY <1>2 DEF Shown, Created
<1> QED
  BY <1>1, <1>2 DEF Shown

\* A worker which serves a creation and does not insert its task does not say
\* that it did.
LEMMA NotCreatedNotSaid ==
  ASSUME RInv, NEW w \in Workers, Statement(w) \/ Fail(w), ~InsertTask(w),
         NEW c \in Clients, serves[w] = c, Goal[c].op = "add_task", pc'[w] = "answered"
  PROVE  Created(c, answer[w])'
<1>1. /\ IInv /\ Known(w) /\ Busy(w) /\ request[w] = Goal[c]
      /\ Ready(pc[w], request[w], target[w])
  BY ReadyAfterStatement DEF RInv, Known, Busy
<1>2. Goal[c] \in Requests /\ pc[w] \in Statements(Goal[c].op)
  BY <1>1, Serving
<1>3. CASE Fail(w)
  <2>1. answer'[w].status = 500
    BY <1>1, <1>3, ErrorAnswers DEF Fail, Answer, IInv, TypeOK
  <2> QED
    BY <2>1 DEF Created
<1>4. CASE Deciding(w)
  <2>1. Decides(w)
    BY <1>1, <1>4, DecidingDecides
  <2>2. answer'[w].status \notin Done
    BY <1>1, <2>1 DEF Decides
  <2> QED
    BY <2>2 DEF Created, Done
<1>5. CASE Answering(w)
  <2>1. pc[w] \in {"insert_user", "insert_key", "find_user", "list_tasks", "read_task",
                  "list_shares", "delete_key", "update_task", "upsert_share",
                  "delete_share"}
    BY <1>5 DEF Answering, Achieving, InsertUser, InsertKey, FindUser, ListTasks,
       ReadTask, ListShares, DeleteKey, UpdateTask, UpsertShare, DeleteShare
  <2> QED
    BY <1>1, <1>2, <2>1, ServedOperation
<1> QED
  BY <1>3, <1>4, <1>5, StatementKinds

LEMMA OneCreation ==
  ASSUME IInv, NEW v \in Workers, NEW w \in Workers, InsertTask(v),
         Statement(w) \/ Fail(w)
  PROVE  v = w
<1>1. pc[v] = "insert_task" /\ pc'[v] = "answered"
  BY AnsweringAnswers DEF InsertTask, Answering
<1> QED
  BY <1>1, OthersWaitForOne DEF OthersWait

LEMMA StatementKeepsTasks ==
  ASSUME TInv, RInv', NEW w \in Workers, Statement(w) \/ Fail(w),
         UNCHANGED <<attempts, flying, serves, heard>>,
         NEW c \in Clients, Creating(c)
  PROVE  Balanced(c)' /\ NewTasks(c)' /\ Shown(c)'
<1>1. /\ RInv /\ IInv /\ RetryTypeOK /\ RetryTypeOK' /\ Busy(w)
      /\ Balanced(c) /\ NewTasks(c) /\ Shown(c) /\ FirstId <= sequence["tasks"]
  BY ReadyAfterStatement DEF TInv, RInv
<1>2. ASSUME NEW v \in Workers, v # w
      PROVE  UNCHANGED <<pc[v], answer[v], serves[v]>>
  BY <1>1, <1>2, OthersWaitForOne DEF OthersWait
<1>3. Under(c)' \subseteq Under(c)
  BY <1>1, <1>2 DEF Under, Busy
<1>4. CASE serves[w] = c /\ InsertTask(w)
  <2>1. pc'[w] = "answered" /\ Created(c, answer[w])'
    BY <1>1, <1>4, OwnInsertion
  <2>2. PICK row : row.id = sequence["tasks"] /\ TasksOf(c)' = TasksOf(c) \cup {row}
    BY <1>1, <1>4, OwnInsertion
  <2>3. w \in Under(c) /\ Under(c)' \subseteq Under(c) \ {w}
    BY <1>1, <1>3, <1>4, <2>1 DEF Under, Busy
  <2>4. Balanced(c)'
    BY <1>1, <2>2, <2>3, BalanceInserted
  <2>5. NewTasks(c)'
    <3>1. sequence["tasks"] >= FirstId
      <4>1. sequence["tasks"] \in Nat
        BY <1>1, IInvWellFormed, IdsAreNumbers DEF Tables
      <4> QED
        BY <1>1, <4>1, FirstIdIsANumber
    <3>2. \A t \in TasksOf(c) \cup {row} : t.id >= FirstId
      BY <1>1, <2>2, <3>1 DEF NewTasks
    <3> QED
      BY <2>2, <3>2 DEF NewTasks, FirstId
  <2>6. ASSUME NEW v \in Workers, serves'[v] = c, pc'[v] = "answered"
        PROVE  Created(c, answer[v])'
    <3>1. CASE v = w
      BY <2>1, <3>1
    <3>2. CASE v # w
      BY <1>1, <1>2, <2>2, <2>6, <3>2 DEF Shown, Created
    <3> QED
      BY <3>1, <3>2
  <2>7. heard'[c] # None => Created(c, heard[c])'
    BY <1>1, <2>2 DEF Shown, Created
  <2> QED
    BY <2>4, <2>5, <2>6, <2>7 DEF Shown
<1>5. CASE ~(serves[w] = c /\ InsertTask(w))
  <2>1. TasksOf(c)' = TasksOf(c)
    <3>1. [Next]_vars
      BY DEF Next
    <3> QED
      BY <1>1, <1>5, <3>1, TasksOfStep, OneCreation
  <2>2. attempts'[c] - flying'[c] >= attempts[c] - flying[c]
    BY <1>1 DEF RetryTypeOK
  <2>3. Balanced(c)'
    BY <1>1, <1>3, <2>1, <2>2, BalanceKept
  <2>4. ASSUME NEW v \in Workers, serves'[v] = c, pc'[v] = "answered"
        PROVE  Created(c, answer[v])'
    <3>1. CASE v = w
      BY <1>1, <1>5, <2>4, <3>1, NotCreatedNotSaid DEF Creating
    <3>2. CASE v # w
      BY <1>1, <1>2, <2>1, <2>4, <3>2 DEF Shown, Created
    <3> QED
      BY <3>1, <3>2
  <2>5. heard'[c] # None => Created(c, heard[c])'
    BY <1>1, <2>1 DEF Shown, Created
  <2>6. NewTasks(c)'
    BY <1>1, <2>1 DEF NewTasks, FirstId
  <2> QED
    BY <2>3, <2>4, <2>5, <2>6 DEF Shown
<1> QED
  BY <1>4, <1>5

LEMMA TakeKeepsTasks ==
  ASSUME TInv, RInv', NEW d \in Clients, NEW w \in Workers, Take(w, d),
         NEW c \in Clients, Creating(c)
  PROVE  Balanced(c)' /\ NewTasks(c)' /\ Shown(c)'
<1>1. /\ RInv /\ IInv /\ RetryTypeOK /\ RetryTypeOK'
      /\ Balanced(c) /\ NewTasks(c) /\ Shown(c)
  BY DEF TInv, RInv
<1>2. /\ UNCHANGED <<tasks, attempts, heard>> /\ pc[w] = "idle"
      /\ serves' = [serves EXCEPT ![w] = d] /\ serves'[w] = d
  BY <1>1 DEF Take, Begin, database, RetryTypeOK
<1>3. ASSUME NEW v \in Workers, v # w
      PROVE  UNCHANGED <<pc[v], answer[v], serves[v]>>
  BY <1>1, <1>2, <1>3 DEF Take, Begin, Answer, Continue, RetryTypeOK, IInv, TypeOK
<1>4. TasksOf(c)' = TasksOf(c) /\ NewTasks(c)'
  BY <1>1, <1>2 DEF TasksOf, NewTasks, FirstId
<1>5. Balanced(c)'
  <2>1. Under(c)' \subseteq Under(c) \cup {w}
    BY <1>3 DEF Under
  <2>2. CASE d = c
    <3>1. flying[c] > 0 /\ flying'[c] = flying[c] - 1
      BY <1>1, <2>2 DEF Take, RetryTypeOK
    <3> QED
      BY <1>1, <1>2, <1>4, <2>1, <3>1, BalanceTaken
  <2>3. CASE d # c
    <3>1. Under(c)' \subseteq Under(c)
      BY <1>2, <1>3, <2>3 DEF Under
    <3>2. flying'[c] = flying[c]
      BY <1>1, <2>3 DEF Take, RetryTypeOK
    <3>3. attempts'[c] - flying'[c] >= attempts[c] - flying[c]
      BY <1>1, <1>2, <3>2 DEF RetryTypeOK
    <3> QED
      BY <1>1, <1>4, <3>1, <3>3, BalanceKept
  <2> QED
    BY <2>2, <2>3
<1>6. ASSUME NEW v \in Workers, serves'[v] = c, pc'[v] = "answered"
      PROVE  Created(c, answer[v])'
  <2>1. CASE v = w
    <3>1. Answer(w, into_http_response("InvalidData"))
      <4>1. FirstStatement(Goal[d].op) # "answered"
        BY DEF FirstStatement
      <4> QED
        BY <1>1, <1>6, <2>1, <4>1 DEF Take, Begin, Continue, IInv, TypeOK
    <3>2. answer'[w].status = 400
      BY <1>1, <3>1, ErrorAnswers DEF Answer, IInv, TypeOK
    <3> QED
      BY <2>1, <3>2 DEF Created
  <2>2. CASE v # w
    BY <1>1, <1>3, <1>4, <1>6, <2>2 DEF Shown, Created
  <2> QED
    BY <2>1, <2>2
<1>7. heard'[c] # None => Created(c, heard[c])'
  BY <1>1, <1>2, <1>4 DEF Shown, Created
<1> QED
  BY <1>4, <1>5, <1>6, <1>7 DEF Shown

\* A step which reads no copy and writes no row.
LEMMA OthersKeepTasks ==
  ASSUME TInv, RInv', NEW c \in Clients, Creating(c),
         \/ \E d \in Clients : Try(d)
         \/ \E w \in Workers : Tell(w)
         \/ Restart
         \/ UNCHANGED retryVars
  PROVE  Balanced(c)' /\ NewTasks(c)' /\ Shown(c)'
<1>1. /\ RInv /\ IInv /\ RetryTypeOK /\ RetryTypeOK'
      /\ Balanced(c) /\ NewTasks(c) /\ Shown(c)
      /\ attempts[c] \in Nat /\ flying[c] \in Nat
  BY DEF TInv, RInv, RetryTypeOK
<1>2. UNCHANGED tasks
  BY DEF Try, Tell, Deliver, Reset, Restart, Crash, retryVars, vars, database
<1>3. TasksOf(c)' = TasksOf(c) /\ NewTasks(c)'
  BY <1>1, <1>2 DEF TasksOf, NewTasks, FirstId
<1>4. attempts'[c] - flying'[c] >= attempts[c] - flying[c]
  <2>1. ASSUME NEW d \in Clients, Try(d)
        PROVE  \/ attempts'[c] = attempts[c] /\ flying'[c] = flying[c]
               \/ attempts'[c] = attempts[c] + 1 /\ flying'[c] = flying[c] + 1
    BY <1>1, <2>1 DEF Try, RetryTypeOK
  <2>2. CASE UNCHANGED <<attempts, flying>>
    BY <1>1, <2>2
  <2> QED
    BY <1>1, <2>1, <2>2 DEF Tell, Restart, retryVars
<1>5. ASSUME NEW w \in Workers, Tell(w)
      PROVE  /\ pc[w] = "answered" /\ pc'[w] = "idle"
             /\ \A v \in Workers \ {w} : UNCHANGED <<pc[v], answer[v], serves[v]>>
             /\ heard'[c] = heard[c] \/ (serves[w] = c /\ heard'[c] = answer[w])
  <2>1. pc[w] = "answered" /\ pc'[w] = "idle"
    BY <1>1, <1>5 DEF Tell, Deliver, Reset, IInv, TypeOK
  <2>2. \A v \in Workers \ {w} : UNCHANGED <<pc[v], answer[v], serves[v]>>
    BY <1>1, <1>5 DEF Tell, Deliver, Reset, RetryTypeOK, IInv, TypeOK
  <2>3. heard'[c] = heard[c] \/ (serves[w] = c /\ heard'[c] = answer[w])
    BY <1>1, <1>5 DEF Tell, RetryTypeOK
  <2> QED
    BY <2>1, <2>2, <2>3
<1>6. CASE \E w \in Workers : Tell(w)
  <2>1. Under(c)' \subseteq Under(c)
    BY <1>5, <1>6 DEF Under
  <2>2. Balanced(c)'
    BY <1>1, <1>3, <1>4, <2>1, BalanceKept
  <2>3. Shown(c)'
    BY <1>1, <1>3, <1>5, <1>6, ShownStays
  <2> QED
    BY <1>3, <2>2, <2>3
<1>7. CASE Restart
  <2>1. pc' = [w \in Workers |-> "idle"] /\ UNCHANGED heard
    BY <1>7 DEF Restart, Crash
  <2>2. Under(c)' \subseteq Under(c)
    BY <2>1 DEF Under
  <2>3. Balanced(c)'
    BY <1>1, <1>3, <1>4, <2>2, BalanceKept
  <2>4. Shown(c)'
    BY <1>1, <1>3, <2>1, ShownStays
  <2> QED
    BY <1>3, <2>3, <2>4
<1>8. CASE (\E d \in Clients : Try(d)) \/ UNCHANGED retryVars
  <2>1. UNCHANGED <<pc, answer, serves, heard>>
    BY <1>8 DEF Try, vars, retryVars
  <2>2. Under(c)' \subseteq Under(c)
    BY <2>1 DEF Under
  <2>3. Balanced(c)'
    BY <1>1, <1>3, <1>4, <2>2, BalanceKept
  <2>4. Shown(c)'
    BY <1>1, <1>3, <2>1, ShownStays
  <2> QED
    BY <1>3, <2>3, <2>4
<1> QED
  BY <1>6, <1>7, <1>8

LEMMA RetryNextKeepsTInv ==
  ASSUME TInv, [RetryNext]_retryVars
  PROVE  TInv'
<1>1. RInv /\ RInv'
  BY RetryNextKeepsRInv DEF TInv
<1>2. FirstId <= sequence'["tasks"]
  <2>1. sequence'["tasks"] >= sequence["tasks"] /\ FirstId <= sequence["tasks"]
    BY <1>1, RetryStepsAreSteps, SequenceGrows DEF RInv, TInv
  <2>2. sequence["tasks"] \in Nat /\ sequence'["tasks"] \in Nat
    BY <1>1 DEF RInv, IInv, TypeOK, TypedDatabase, Tables
  <2> QED
    BY <2>1, <2>2, FirstIdIsANumber
<1>3. ASSUME NEW c \in Clients, Creating(c)
      PROVE  Balanced(c)' /\ NewTasks(c)' /\ Shown(c)'
  <2>1. CASE \E d \in Clients, w \in Workers : Take(w, d)
    BY <1>1, <1>3, <2>1, TakeKeepsTasks
  <2>2. CASE \E w \in Workers :
               /\ Statement(w) \/ Fail(w)
               /\ UNCHANGED <<patience, attempts, flying, serves, heard>>
    BY <1>1, <1>3, <2>2, StatementKeepsTasks
  <2>3. CASE \/ \E d \in Clients : Try(d)
             \/ \E w \in Workers : Tell(w)
             \/ Restart
             \/ UNCHANGED retryVars
    BY <1>1, <1>3, <2>3, OthersKeepTasks
  <2> QED
    BY <2>1, <2>2, <2>3 DEF RetryNext
<1> QED
  BY <1>1, <1>2, <1>3 DEF TInv, FirstId

LEMMA InitialTInv ==
  ASSUME RetryInit
  PROVE  TInv
<1>1. /\ RInv /\ \A w \in Workers : pc[w] = "idle"
      /\ \A c \in Clients : attempts[c] = 0 /\ flying[c] = 0 /\ heard[c] = None
  BY InitialRInv DEF RetryInit, Init
<1>2. FirstId <= sequence["tasks"]
  BY FirstIdIsANumber DEF RetryInit, Init, StoreInit, FirstId
<1>3. ASSUME NEW c \in Clients, Creating(c)
      PROVE  Balanced(c) /\ NewTasks(c) /\ Shown(c)
  <2>1. TasksOf(c) = {}
    BY <1>3 DEF RetryInit, Init, StoreInit, Creating, OwnTitle, TasksOf
  <2>2. Under(c) = {}
    BY <1>1 DEF Under
  <2>3. Balanced(c)
    BY <1>1, <2>1, <2>2, FS_EmptySet DEF Balanced
  <2> QED
    BY <1>1, <2>1, <2>3 DEF NewTasks, Shown
<1> QED
  BY <1>1, <1>2, <1>3 DEF TInv

\* However often a creation is sent, no more tasks come of it than copies of it
\* were read, and the one its client was told of is one of them.
THEOREM TasksAreAttempted == RetrySpec => []NoTaskWithoutAnAttempt
<1>1. RetryInit => TInv
  BY InitialTInv
<1>2. TInv /\ [RetryNext]_retryVars => TInv'
  BY RetryNextKeepsTInv
<1>3. TInv => NoTaskWithoutAnAttempt
  <2> SUFFICES ASSUME TInv, NEW c \in Clients, Creating(c)
               PROVE  /\ Cardinality(TasksOf(c)) + flying[c] <= attempts[c]
                      /\ heard[c] # None /\ heard[c].status = 201 =>
                           heard[c].body \subseteq TasksOf(c)
    BY DEF NoTaskWithoutAnAttempt, Creating
  <2>1. Balanced(c) /\ Shown(c) /\ RetryTypeOK
    BY DEF TInv, RInv
  <2>2. /\ Cardinality(TasksOf(c)) \in Nat /\ Cardinality(Under(c)) \in Nat
        /\ flying[c] \in Nat /\ attempts[c] \in Nat
    BY <2>1, FS_CardinalityType DEF Balanced, RetryTypeOK
  <2>3. Cardinality(TasksOf(c)) + flying[c] <= attempts[c]
    BY <2>1, <2>2 DEF Balanced
  <2> QED
    BY <2>1, <2>3 DEF Shown, Created
<1> QED
  BY <1>1, <1>2, <1>3, PTL DEF RetrySpec

================================================================================
