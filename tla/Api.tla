---------------------------------- MODULE Api ----------------------------------
(***************************************************************************)
(* The request handlers of web_api.rs over the database of module Store.   *)
(* A worker thread of the server runs one handler at a time, from start to *)
(* end, and a handler is a short sequence of SQL statements with a         *)
(* decision after each.  pc[w] names the statement worker w sends next;    *)
(* one action is one statement together with the code which runs on its    *)
(* result.  Handlers of different workers interleave between statements.   *)
(***************************************************************************)
EXTENDS Store, HttpErrors

CONSTANTS
  Workers,    \* the server's worker threads
  Requests,   \* the requests clients send
  Blank       \* a text Username::new and TaskTitle::new refuse

VARIABLES pc, request, caller, target, answer

threads == <<pc, request, caller, target, answer>>
vars == <<pc, request, caller, target, answer, database>>

------------------------------------------------------------------------------
(***************************************************************************)
(* The requests, after their path, query and body have been extracted.     *)
(***************************************************************************)
UserRegistration ==
  [op : {"create_user"}, username : Usernames \cup {Blank}, password : Passwords]
Credentials ==
  [op : {"create_auth_key"}, username : Usernames \cup {Blank},
   password : Passwords]
KeyOnly == [op : {"delete_auth_key", "get_current_user"}, key : Keys]
TasksQuery ==
  [op : {"get_tasks"}, key : Keys, completed : BOOLEAN \cup {None}]
AddTaskPayload ==
  [op : {"add_task"}, key : Keys, title : Titles \cup {Blank},
   description : Descriptions \cup {None}]
TaskPath == [op : {"get_task_by_id", "get_task_shares"}, key : Keys, task : Nat]
UpdateTaskPayload ==
  [op : {"update_task_by_id"}, key : Keys, task : Nat,
   completed : BOOLEAN \cup {None}, title : Titles \cup {Blank, None},
   description : Descriptions \cup {None}]
SharePayload ==
  [op : {"put_share"}, key : Keys, task : Nat,
   username : Usernames \cup {Blank},
   permission : SharePermission \cup {"unknown"}]
SharePath ==
  [op : {"delete_share"}, key : Keys, task : Nat,
   username : Usernames \cup {Blank}]
UserPath == [op : {"get_user"}, key : Keys, user : Nat]

AllRequests ==
  UserRegistration \cup Credentials \cup KeyOnly \cup TasksQuery
    \cup AddTaskPayload \cup TaskPath \cup UpdateTaskPayload
    \cup SharePayload \cup SharePath \cup UserPath

ASSUME RequestAssumption == Requests \subseteq AllRequests

\* A UUID cannot be presented before the server has drawn it.
Sendable(r) == "key" \in DOMAIN r => r.key \in minted \cup OtherKeys

ASSUME BlankAssumption == Blank \notin Usernames \cup Titles \cup {None}

\* What the handler refuses with a 400 before it opens a connection.
Invalid(r) ==
  \/ /\ r.op \in {"create_user", "create_auth_key", "put_share", "delete_share"}
     /\ r.username = Blank
  \/ r.op = "put_share" /\ r.permission \notin SharePermission
  \/ r.op \in {"add_task", "update_task_by_id"} /\ r.title = Blank
  \/ /\ r.op = "update_task_by_id"
     /\ r.completed = None /\ r.title = None /\ r.description = None

\* The statement a handler starts with, and the one which follows
\* authentication.
FirstStatement(op) ==
  CASE op = "create_user" -> "insert_user"
    [] op = "create_auth_key" -> "find_account"
    [] op = "delete_auth_key" -> "delete_key"
    [] OTHER -> "authenticate"

\* Mutant: the writes to a share skip the check of the owner.
AfterAuthentication_OwnerUnchecked(op) ==
  CASE op = "get_tasks" -> "list_tasks"
    [] op = "add_task" -> "insert_task"
    [] op \in {"get_task_by_id", "update_task_by_id"} -> "load_task"
    [] op = "get_task_shares" -> "check_owner"
    [] op \in {"put_share", "delete_share"} -> "find_target"
    [] op = "get_user" -> "find_user"

AfterAuthentication(op) ==
  CASE op = "get_tasks" -> "list_tasks"
    [] op = "add_task" -> "insert_task"
    [] op \in {"get_task_by_id", "update_task_by_id"} -> "load_task"
    [] op \in {"get_task_shares", "put_share", "delete_share"} -> "check_owner"
    [] op = "get_user" -> "find_user"

------------------------------------------------------------------------------
Init ==
  /\ StoreInit
  /\ pc = [w \in Workers |-> "idle"]
  /\ request = [w \in Workers |-> None]
  /\ caller = [w \in Workers |-> None]
  /\ target = [w \in Workers |-> None]
  /\ answer = [w \in Workers |-> None]

\* The steps of a handler: go on with the next statement, or answer.
Continue(w, statement) ==
  /\ pc' = [pc EXCEPT ![w] = statement]
  /\ UNCHANGED answer

Answer(w, response) ==
  /\ pc' = [pc EXCEPT ![w] = "answered"]
  /\ answer' = [answer EXCEPT ![w] = response]

\* The answer to a statement which wrote: the handler's, or a 500 when the
\* statement was committed and the connection failed before its result came.
AnswerWrite(w, response) ==
  \/ Answer(w, response)
  \/ Answer(w, into_http_response("QueryFailed"))

\* Mutant: the row is sent as it is, hash included.
UserRepresentation_WholeRow(user) == user

UserRepresentation(user) == [id |-> user.id, username |-> user.username]

------------------------------------------------------------------------------
(***************************************************************************)
(* Every handler: a request arrives, and is either refused without a       *)
(* statement or started.                                                   *)
(***************************************************************************)
Begin(w, r) ==
  /\ pc[w] = "idle"
  /\ request' = [request EXCEPT ![w] = r]
  /\ \/ /\ Invalid(r)
        /\ Answer(w, into_http_response("InvalidData"))
     \/ /\ ~Invalid(r)
        /\ Continue(w, FirstStatement(r.op))
  /\ UNCHANGED <<caller, target, database>>

Receive(w) == \E r \in Requests : Sendable(r) /\ Begin(w, r)

\* auth_key_to_user: whose key is it, and does it still work?
Authenticate(w) ==
  /\ pc[w] = "authenticate"
  /\ \/ /\ auth_key_to_user(request[w].key) = {}
        /\ Answer(w, into_http_response("InvalidAuthKey"))
        /\ UNCHANGED caller
     \/ \E user \in auth_key_to_user(request[w].key) :
          /\ caller' = [caller EXCEPT ![w] = user]
          /\ \/ /\ request[w].op = "get_current_user"
                /\ Answer(w, Response(200, {UserRepresentation(user)}))
             \/ /\ request[w].op # "get_current_user"
                /\ Continue(w, AfterAuthentication(request[w].op))
  /\ UNCHANGED <<request, target, database>>

------------------------------------------------------------------------------
(***************************************************************************)
(* Accounts and auth keys.                                                 *)
(***************************************************************************)
InsertUser(w) ==
  LET name == Varchar255[request[w].username]
      row == [id |-> next_id("users"), username |-> name,
              password |-> hash_password(request[w].password)]
  IN /\ pc[w] = "insert_user"
     /\ HasIds("users")
     /\ \/ /\ name = TooLong   \* refused before or after the id was drawn
           /\ DrawUserId \/ UNCHANGED database
           /\ Answer(w, into_http_response("QueryFailed"))
        \/ /\ name # TooLong /\ username_taken(name)
           /\ DrawUserId
           /\ Answer(w, into_http_response("UserExists"))
        \/ /\ name # TooLong /\ ~username_taken(name)
           /\ insert_user(row)
           /\ AnswerWrite(w, Response(201, {UserRepresentation(row)}))
     /\ UNCHANGED <<request, caller, target>>

FindAccount(w) ==
  LET accounts == get_user_by_name(request[w].username)
  IN /\ pc[w] = "find_account"
     /\ \/ /\ accounts = {}
           /\ Answer(w, with_challenge(Response(401, {}), "Basic"))
           /\ UNCHANGED target
        \/ \E user \in accounts :
             \/ /\ verify_password(request[w].password, user.password)
                /\ target' = [target EXCEPT ![w] = user]
                /\ Continue(w, "insert_key")
             \/ /\ ~verify_password(request[w].password, user.password)
                /\ Answer(w, into_basic_http_response("InvalidPassword"))
                /\ UNCHANGED target
     /\ UNCHANGED <<request, caller, database>>

InsertKey(w) ==
  /\ pc[w] = "insert_key"
  /\ HasIds("auth_keys")
  /\ \E key \in fresh_keys :
       /\ insert_auth_key(target[w].id, key)
       /\ AnswerWrite(w, Response(201, {[id |-> next_id("auth_keys"),
                                         auth_key |-> key]}))
  /\ UNCHANGED <<request, caller, target>>

\* Mutant: a key which is gone is reported as one which does not work.
DeleteKey_GoneIsInvalid(w) ==
  /\ pc[w] = "delete_key"
  /\ revoke_auth_key(request[w].key)
  /\ IF \E k \in auth_keys : k.key = request[w].key
     THEN AnswerWrite(w, Response(204, {}))
     ELSE Answer(w, into_http_response("InvalidAuthKey"))
  /\ UNCHANGED <<request, caller, target>>

DeleteKey(w) ==
  /\ pc[w] = "delete_key"
  /\ revoke_auth_key(request[w].key)
  /\ AnswerWrite(w, Response(204, {}))
  /\ UNCHANGED <<request, caller, target>>

FindUser(w) ==
  LET found == get_user_by_id(request[w].user)
  IN /\ pc[w] = "find_user"
     /\ \/ /\ found = {}
           /\ Answer(w, into_http_response("NotFound"))
        \/ \E user \in found : Answer(w, Response(200, {UserRepresentation(user)}))
     /\ UNCHANGED <<request, caller, target, database>>

------------------------------------------------------------------------------
(***************************************************************************)
(* Tasks.  get_task_permission is two statements: the task, and, when the  *)
(* caller does not own it, the caller's share of it.                       *)
(***************************************************************************)
ListTasks(w) ==
  /\ pc[w] = "list_tasks"
  /\ Answer(w, Response(200, get_tasks_for_user(caller[w].id,
                                                request[w].completed)))
  /\ UNCHANGED <<request, caller, target, database>>

\* Mutant: the handler sends its statement again when the result was lost.
InsertTask_SentAgain(w) ==
  LET row == [id |-> next_id("tasks"), owner |-> caller[w].id,
              title |-> request[w].title,
              description |-> request[w].description, completed |-> FALSE]
  IN /\ pc[w] = "insert_task"
     /\ HasIds("tasks")
     /\ insert_task(row)
     /\ Answer(w, Response(201, {row})) \/ Continue(w, "insert_task")
     /\ UNCHANGED <<request, caller, target>>

InsertTask(w) ==
  LET row == [id |-> next_id("tasks"), owner |-> caller[w].id,
              title |-> request[w].title,
              description |-> request[w].description, completed |-> FALSE]
  IN /\ pc[w] = "insert_task"
     /\ HasIds("tasks")
     /\ insert_task(row)
     /\ AnswerWrite(w, Response(201, {row}))
     /\ UNCHANGED <<request, caller, target>>

\* What follows once the permission is known to be enough.
Permitted(op) ==
  CASE op = "get_task_by_id" -> "read_task"
    [] op = "update_task_by_id" -> "update_task"

\* Mutant: a read share is enough to write.
SufficientShares_AnyShare(op) == {"read", "read_write"}

\* Mutant: a read share is not enough to read.
SufficientShares_WriteOnly(op) == {"read_write"}

SufficientShares(op) ==
  CASE op = "get_task_by_id" -> {"read", "read_write"}
    [] op = "update_task_by_id" -> {"read_write"}

\* Mutant: a missing task is reported as missing.
HideMissing_Forgotten(e) == e

\* The error a task's handlers make of a task which is not there.
HideMissing(e) == IF e = "NotFound" THEN "Forbidden" ELSE e

LoadTask(w) ==
  LET found == get_task_by_id(request[w].task)
  IN /\ pc[w] = "load_task"
     /\ \/ /\ found = {}
           /\ Answer(w, into_http_response(HideMissing("NotFound")))
        \/ \E task \in found :
             \/ /\ task.owner = caller[w].id
                /\ Continue(w, Permitted(request[w].op))
             \/ /\ task.owner # caller[w].id
                /\ Continue(w, "load_share")
     /\ UNCHANGED <<request, caller, target, database>>

LoadShare(w) ==
  LET found == shares_of(request[w].task, caller[w].id)
      sufficient == SufficientShares(request[w].op)
  IN /\ pc[w] = "load_share"
     /\ \/ /\ found = {}
           /\ Answer(w, into_http_response("Forbidden"))
        \/ \E share \in found :
             \/ /\ share.permission \in sufficient
                /\ Continue(w, Permitted(request[w].op))
             \/ /\ share.permission \notin sufficient
                /\ Answer(w, into_http_response("Forbidden"))
     /\ UNCHANGED <<request, caller, target, database>>

\* The second read of the task: a missing row would be a 404 here, but no
\* statement deletes a task.
ReadTask(w) ==
  LET found == get_task_by_id(request[w].task)
  IN /\ pc[w] = "read_task"
     /\ \E task \in found : Answer(w, Response(200, {task}))
     /\ UNCHANGED <<request, caller, target, database>>

UpdateTask(w) ==
  /\ pc[w] = "update_task"
  /\ update_task(request[w].task, request[w])
  /\ AnswerWrite(w, Response(200, {}))
  /\ UNCHANGED <<request, caller, target>>

------------------------------------------------------------------------------
(***************************************************************************)
(* Shares.  All three handlers check the owner first; the two which name a *)
(* user look it up next.                                                   *)
(***************************************************************************)
\* require_task_owner: a missing task and somebody else's are both Forbidden.
CheckOwner(w) ==
  LET owned == require_task_owner(caller[w].id, request[w].task)
  IN /\ pc[w] = "check_owner"
     /\ \/ /\ owned = {}
           /\ Answer(w, into_http_response("Forbidden"))
        \/ /\ owned # {}
           /\ Continue(w, IF request[w].op = "get_task_shares"
                          THEN "list_shares" ELSE "find_target")
     /\ UNCHANGED <<request, caller, target, database>>

ListShares(w) ==
  /\ pc[w] = "list_shares"
  /\ Answer(w, Response(200, list_shares_for_task(request[w].task)))
  /\ UNCHANGED <<request, caller, target, database>>

FindTarget(w) ==
  LET found == get_user_by_name(request[w].username)
  IN /\ pc[w] = "find_target"
     /\ \/ /\ found = {}
           /\ Answer(w, into_http_response("NotFound"))
           /\ UNCHANGED target
        \/ \E user \in found :
             /\ target' = [target EXCEPT ![w] = user]
             /\ Continue(w, IF request[w].op = "put_share"
                            THEN "upsert_share" ELSE "delete_share")
     /\ UNCHANGED <<request, caller, database>>

UpsertShare(w) ==
  LET present == conflict(request[w].task, target[w].id)
      row == [id |-> next_id("task_shares"), task_id |-> request[w].task,
              user_id |-> target[w].id, permission |-> request[w].permission]
  IN /\ pc[w] = "upsert_share"
     /\ HasIds("task_shares")
     /\ \/ /\ present = {}
           /\ insert_share(row)
           /\ AnswerWrite(w, Response(201, {Share(row, target[w])}))
        \/ \E share \in present :
             /\ replace_share(share, request[w].permission)
             /\ AnswerWrite(w, Response(200, {Share([row EXCEPT !.id = share.id],
                                                    target[w])}))
     /\ UNCHANGED <<request, caller, target>>

DeleteShare(w) ==
  /\ pc[w] = "delete_share"
  /\ delete_share(request[w].task, target[w].id)
  /\ AnswerWrite(w, Response(204, {}))
  /\ UNCHANGED <<request, caller, target>>

------------------------------------------------------------------------------
(***************************************************************************)
(* Around the handlers.                                                    *)
(***************************************************************************)
Busy(w) == pc[w] \notin {"idle", "answered"}

\* The connection cannot be opened, or a statement fails without effect; an
\* INSERT fails like this once its table's serial column is used up.
Fail(w) ==
  /\ Busy(w)
  /\ Answer(w, into_http_response("QueryFailed"))
  /\ UNCHANGED <<request, caller, target, database>>

Reset(w) ==
  /\ request' = [request EXCEPT ![w] = None]
  /\ caller' = [caller EXCEPT ![w] = None]
  /\ target' = [target EXCEPT ![w] = None]
  /\ answer' = [answer EXCEPT ![w] = None]
  /\ pc' = [pc EXCEPT ![w] = "idle"]
  /\ UNCHANGED database

\* The answer is sent and the worker is free for another request.
Deliver(w) == pc[w] = "answered" /\ Reset(w)

\* The server process dies: every handler under way is gone, and the database
\* keeps what was committed.  A statement which was under way has either had its
\* effect before this step or has none: that PostgreSQL may still finish it after
\* the process is gone is left to the backends of Server and the copies of
\* Retries.
Crash ==
  /\ \E w \in Workers : pc[w] # "idle"
  /\ pc' = [w \in Workers |-> "idle"]
  /\ request' = [w \in Workers |-> None]
  /\ caller' = [w \in Workers |-> None]
  /\ target' = [w \in Workers |-> None]
  /\ answer' = [w \in Workers |-> None]
  /\ UNCHANGED database

PassTime == Tick /\ UNCHANGED threads

\* The step a handler takes when its statement succeeds.
Statement(w) ==
  \/ Authenticate(w)
  \/ InsertUser(w) \/ FindAccount(w) \/ InsertKey(w) \/ DeleteKey(w)
  \/ FindUser(w)
  \/ ListTasks(w) \/ InsertTask(w)
  \/ LoadTask(w) \/ LoadShare(w) \/ ReadTask(w) \/ UpdateTask(w)
  \/ CheckOwner(w) \/ ListShares(w)
  \/ FindTarget(w) \/ UpsertShare(w) \/ DeleteShare(w)

Next ==
  \/ \E w \in Workers :
       Receive(w) \/ Statement(w) \/ Fail(w) \/ Deliver(w)
  \/ Crash
  \/ PassTime

Spec == Init /\ [][Next]_vars

------------------------------------------------------------------------------
\* The statements of each operation's handler.
Statements(op) ==
  CASE op = "create_user" -> {"insert_user"}
    [] op = "create_auth_key" -> {"find_account", "insert_key"}
    [] op = "delete_auth_key" -> {"delete_key"}
    [] op = "get_current_user" -> {"authenticate"}
    [] op = "get_user" -> {"authenticate", "find_user"}
    [] op = "get_tasks" -> {"authenticate", "list_tasks"}
    [] op = "add_task" -> {"authenticate", "insert_task"}
    [] op = "get_task_by_id" ->
         {"authenticate", "load_task", "load_share", "read_task"}
    [] op = "update_task_by_id" ->
         {"authenticate", "load_task", "load_share", "update_task"}
    [] op = "get_task_shares" -> {"authenticate", "check_owner", "list_shares"}
    [] op = "put_share" ->
         {"authenticate", "check_owner", "find_target", "upsert_share"}
    [] op = "delete_share" ->
         {"authenticate", "check_owner", "find_target", "delete_share"}

ProgramPoints ==
  {"idle", "answered", "insert_user", "find_account", "insert_key",
   "delete_key", "authenticate", "find_user", "list_tasks", "insert_task",
   "load_task", "load_share", "read_task", "update_task", "check_owner",
   "list_shares", "find_target", "upsert_share", "delete_share"}

AfterTarget == {"insert_key", "upsert_share", "delete_share"}
AfterOwner == {"list_shares", "find_target", "upsert_share", "delete_share"}
AfterCaller == AfterOwner \cup
  {"find_user", "list_tasks", "insert_task", "load_task", "load_share",
   "read_task", "update_task", "check_owner"}

\* What a response may show: an account never with its password's hash.
Representations ==
  [id : Nat, username : Usernames] \cup [id : Nat, auth_key : Keys] \cup Task
    \cup [id : Nat, username : Usernames, permission : SharePermission]

Responses ==
  [status : {200, 201, 204, 400, 401, 403, 404, 409, 500},
   challenge : Challenges, body : SUBSET Representations]

\* A worker is idle and holds nothing of its last request, has answered one, or
\* is at a statement of the operation it serves.
ThreadOK(statement, r, response) ==
  \/ statement = "idle" /\ r = None /\ response = None
  \/ statement = "answered" /\ r \in Requests /\ response \in Responses
  \/ r \in Requests /\ ~Invalid(r) /\ statement \in Statements(r.op)

\* Every variable has its type.
TypeOK ==
  /\ TypedDatabase(users, auth_keys, tasks, task_shares, sequence, minted)
  /\ now \in Nat
  /\ pc \in [Workers -> ProgramPoints]
  /\ request \in [Workers -> Requests \cup {None}]
  /\ caller \in [Workers -> User \cup {None}]
  /\ target \in [Workers -> User \cup {None}]
  /\ answer \in [Workers -> Responses \cup {None}]
  /\ \A w \in Workers : ThreadOK(pc[w], request[w], answer[w])

\* The constraints of the schema hold although no handler checks them before
\* it writes: an account, a key and a share stay unique and refer to rows which
\* exist, even when the row was read in an earlier statement of the handler.
Integrity ==
  ConsistentDatabase(users, auth_keys, tasks, task_shares, sequence, minted)

Knowledge(statement, r, user, named) ==
  /\ statement \in AfterCaller => user \in users
  /\ statement \in AfterTarget => named \in users
  /\ statement \in AfterOwner =>
       \E t \in tasks : t.id = r.task /\ t.owner = user.id

\* What a handler read in an earlier statement still holds when it is used: the
\* caller and the target are accounts, and a handler past require_task_owner
\* still acts for the owner of the task, whatever other workers did meanwhile.
HandlersKnowledgeHolds ==
  \A w \in Workers : Knowledge(pc[w], request[w], caller[w], target[w])

==============================================================================
