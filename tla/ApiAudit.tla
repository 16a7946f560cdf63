------------------------------- MODULE ApiAudit -------------------------------
(***************************************************************************)
(* What the API promises about its answers and its writes, whatever the    *)
(* interleaving.  Two history variables record what was true while a       *)
(* request was under way: facts[w] (whether its key worked, what the       *)
(* caller's relation to the named task was, whether the named user         *)
(* existed) and views[w] (the collections an exact read would have shown). *)
(* Facts about the caller count from the moment the key was accepted.      *)
(***************************************************************************)
EXTENDS Api

VARIABLES facts, views

auditVars == <<vars, facts, views>>

------------------------------------------------------------------------------
KeyedOps ==
  {"get_tasks", "add_task", "get_task_by_id", "update_task_by_id",
   "get_task_shares", "put_share", "delete_share", "get_user",
   "get_current_user"}
TaskOps ==
  {"get_task_by_id", "update_task_by_id", "get_task_shares", "put_share",
   "delete_share"}
ShareOps == {"get_task_shares", "put_share", "delete_share"}
NamingOps == {"create_auth_key", "put_share", "delete_share"}

\* What a user may do with a task, by the README's table of permissions.
Level(user, task) ==
  IF get_task_by_id(task) = {} THEN "missing"
  ELSE IF \E t \in get_task_by_id(task) : t.owner = user THEN "owner"
  ELSE IF shares_of(task, user) = {} THEN "stranger"
  ELSE (CHOOSE s \in shares_of(task, user) : TRUE).permission

MayRead(user, task) == Level(user, task) \in {"read", "read_write", "owner"}

KeyWorks(key) == \E k \in auth_keys : k.key = key /\ k.expiration > now

FactsNow(w) ==
  LET r == request[w]
  IN (IF r.op \in KeyedOps
      THEN {IF KeyWorks(r.key) THEN "key_works" ELSE "key_refused"} ELSE {})
     \cup
     (IF r.op \in TaskOps /\ caller[w] # None
      THEN {Level(caller[w].id, r.task)} ELSE {})
     \cup
     (IF r.op \in NamingOps
      THEN {IF \E u \in users : u.username = r.username
            THEN "named" ELSE "unnamed"} ELSE {})
     \cup
     (IF r.op = "create_auth_key"
      THEN {IF \E u \in users : /\ u.username = r.username
                                /\ u.password = hash_password(r.password)
            THEN "credentials_work" ELSE "credentials_refused"} ELSE {})
     \cup
     (IF r.op = "get_user"
      THEN {IF \E u \in users : u.id = r.user THEN "named" ELSE "unnamed"}
      ELSE {})
     \cup
     (IF r.op = "create_user"
      THEN {IF \E u \in users : u.username = Varchar255[r.username]
            THEN "named" ELSE "unnamed"} ELSE {})

\* The body an exact read would have: the readable tasks, the task, the shares.
ViewNow(w) ==
  LET r == request[w]
  IN IF caller[w] = None THEN {}
     ELSE CASE r.op = "get_tasks" ->
                 {{t \in tasks : /\ MayRead(caller[w].id, t.id)
                                 /\ r.completed \in {None, t.completed}}}
            [] r.op = "get_task_by_id" -> {{t \in tasks : t.id = r.task}}
            [] r.op = "get_task_shares" ->
                 {{[id |-> s.id, permission |-> s.permission,
                    username |-> (CHOOSE u \in users : u.id = s.user_id).username]
                   : s \in {s \in task_shares : s.task_id = r.task}}}
            [] OTHER -> {}

AuditInit ==
  /\ Init
  /\ facts = [w \in Workers |-> {}]
  /\ views = [w \in Workers |-> {}]

Observe ==
  /\ facts' = [w \in Workers |->
                 IF pc'[w] = "idle" THEN {}
                 ELSE IF Busy(w) THEN facts[w] \cup FactsNow(w) ELSE facts[w]]
  /\ views' = [w \in Workers |->
                 IF pc'[w] = "idle" THEN {}
                 ELSE IF Busy(w) THEN views[w] \cup ViewNow(w) ELSE views[w]]

AuditNext == Next /\ Observe

AuditSpec == AuditInit /\ [][AuditNext]_auditVars

------------------------------------------------------------------------------
Answered(w, statuses) == pc[w] = "answered" /\ answer[w].status \in statuses

Success == {200, 201, 204}

\* What speaks for a success: a key which worked, the permission the operation
\* needs, and the user it names.
GrantJustified(op, observed) ==
  /\ op \in KeyedOps => "key_works" \in observed
  /\ op = "get_task_by_id" => observed \cap {"read", "read_write", "owner"} # {}
  /\ op = "update_task_by_id" => observed \cap {"read_write", "owner"} # {}
  /\ op \in ShareOps => "owner" \in observed
  /\ op \in NamingOps \cup {"get_user"} => "named" \in observed
  /\ op = "create_auth_key" => "credentials_work" \in observed

\* Nothing is granted without a reason: a request which succeeded carried a key
\* which worked at some moment while the request was under way, and after the
\* key was accepted there was a moment at which the caller had the permission
\* the operation needs and the user it names existed.
GrantsJustified ==
  \A w \in Workers :
    Answered(w, Success) => GrantJustified(request[w].op, facts[w])

\* What speaks for a refusal with this status.
RefusalJustified(op, status, observed) ==
  /\ status = 401 =>
       IF op = "create_auth_key" THEN "credentials_refused" \in observed
       ELSE op \in KeyedOps /\ "key_refused" \in observed
  /\ status = 403 =>
       \/ op = "get_task_by_id" /\ observed \cap {"missing", "stranger"} # {}
       \/ op = "update_task_by_id"
          /\ observed \cap {"missing", "stranger", "read"} # {}
       \/ op \in ShareOps
          /\ observed \cap {"missing", "stranger", "read", "read_write"} # {}
  /\ status = 404 => op # "create_auth_key" /\ "unnamed" \in observed
  /\ status = 409 => op = "create_user" /\ "named" \in observed

\* Nothing is refused without a reason: a 401, 403, 404 or 409 names a state of
\* affairs which was true at some moment while the request was under way.
RefusalsJustified ==
  \A w \in Workers : pc[w] = "answered" =>
    RefusalJustified(request[w].op, answer[w].status, facts[w])

\* An answer to somebody who never had enough permission says nothing.
SaysNothing(op, response, observed) ==
  LET enough == IF op \in ShareOps THEN {"owner"}
                ELSE {"read", "read_write", "owner"}
  IN op \in TaskOps /\ observed \cap enough = {} =>
       response \in
         {into_http_response(e) :
            e \in {"Forbidden", "InvalidAuthKey", "InvalidData", "QueryFailed"}}

\* A caller who at no moment could read the task (or who manages shares and at
\* no moment owned it) gets an answer which says nothing about it: byte for
\* byte the one a task which does not exist gets, whatever else is wrong with
\* the request.
TaskExistenceHidden ==
  \A w \in Workers : pc[w] = "answered" =>
    SaysNothing(request[w].op, answer[w], facts[w])

\* What a read shows was the whole truth at one moment of the request: the list
\* holds exactly the tasks the caller could read under the permission rule
\* (the same rule GET /tasks/{id} enforces with other statements), and a task
\* or a list of shares is never a mixture of two moments.
ReadsAreSnapshots ==
  \A w \in Workers :
    /\ Answered(w, {200})
    /\ request[w].op \in {"get_tasks", "get_task_by_id", "get_task_shares"}
    => answer[w].body \in views[w]

\* What the database has to show for a creation or a revocation.
WriteHolds(r, creator, body) ==
  /\ r.op = "create_user" =>
       \E u \in users : /\ body = {UserRepresentation(u)}
                        /\ verify_password(r.password, u.password)
  /\ r.op = "create_auth_key" =>
       \A b \in body : \A k \in auth_keys : k.key = b.auth_key =>
         /\ k.id = b.id
         /\ \E u \in users : u.id = k.user_id /\ u.username = r.username
  /\ r.op = "add_task" =>
       \A b \in body : \E t \in tasks : t.id = b.id /\ t.owner = creator.id
  /\ r.op = "delete_auth_key" => ~KeyWorks(r.key)

\* A confirmed creation can be used, and a confirmed revocation holds: the
\* account of a 201 is there with its password, the key of a 201 belongs to the
\* account which asked unless it was revoked since, the task of a 201 is there
\* and still its creator's, and the key of a 204 works never again.
ConfirmedWritesHold ==
  \A w \in Workers : Answered(w, {201, 204}) =>
    WriteHolds(request[w], caller[w], answer[w].body)

------------------------------------------------------------------------------
\* This is the step in which w's statement is done.
Steps(w, statement) == pc[w] = statement /\ pc'[w] # statement

TaskStays(t, u) == t.id = u.id /\ t.owner = u.owner

\* The values a field may have after a request which asks for this one.
Edited(old, asked) == {old} \cup ({asked} \ {None})

\* A task changes only at the hand of a caller who, at some moment after the
\* key was accepted and before the write, could write it, and only in the
\* fields the request names: a concurrent edit of another field is never
\* undone.
EditsAuthorizedAndNarrow ==
  [][\A t \in tasks : \A u \in tasks' : t.id = u.id /\ t # u =>
       \E w \in Workers :
         /\ Steps(w, "update_task") /\ request[w].task = t.id
         /\ facts'[w] \cap {"read_write", "owner"} # {}
         /\ u.title \in Edited(t.title, request[w].title)
         /\ u.description \in Edited(t.description, request[w].description)
         /\ u.completed \in Edited(t.completed, request[w].completed)]_auditVars

\* Shares appear, change and go only at the hand of the task's owner, for the
\* task and the user the request names.
OnlyOwnersShare ==
  [][\A s \in (task_shares \ task_shares') \cup (task_shares' \ task_shares) :
       \E w \in Workers :
         /\ Steps(w, "upsert_share") \/ Steps(w, "delete_share")
         /\ request[w].task = s.task_id
         /\ \E u \in users : u.id = s.user_id /\ u.username = request[w].username
         /\ \E t \in tasks : t.id = s.task_id /\ t.owner = caller[w].id]_auditVars

\* Accounts and tasks are for ever, a task never changes hands, and an auth key
\* never changes its user and never comes back once revoked.
NothingIsTakenAway ==
  [][/\ users \subseteq users'
     /\ \A t \in tasks : \E u \in tasks' : TaskStays(t, u)
     /\ \A k \in auth_keys' : k \in auth_keys \/ k.key \notin minted]_auditVars

------------------------------------------------------------------------------
(***************************************************************************)
(* What the README says and the handlers do not do.                        *)
(***************************************************************************)
Writes == {"insert_task", "update_task", "upsert_share", "delete_share"}

\* "A revoked key stops working at once": once a DELETE /auth_keys has been
\* answered 204, nothing is written for the key it presented any more.
RevokedKeyWritesNothing ==
  [][\A w, x \in Workers :
       /\ Answered(x, {204}) /\ request[x].op = "delete_auth_key"
       /\ pc[w] \in Writes /\ request[w].key = request[x].key
       => ~(Steps(w, pc[w]) /\ answer'[w] # None
              /\ answer'[w].status \in Success)]_auditVars

\* "400 if the username is unusable": a username which no account can ever be
\* given is the client's error, whatever statement finds it out.
UnusableUsernameRefused ==
  [][\A w \in Workers :
       InsertUser(w) /\ Varchar255[request[w].username] = TooLong =>
         answer'[w].status = 400]_auditVars

==============================================================================
