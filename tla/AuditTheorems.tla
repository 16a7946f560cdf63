---------------------------- MODULE AuditTheorems ----------------------------
(***************************************************************************)
(* The promises of the API about its answers and its writes, for any       *)
(* number of workers, any requests and any database the schema admits.     *)
(* The facts which were observed while a request is under way only grow,   *)
(* so what has justified a handler in going on still justifies it when it  *)
(* answers; what a confirmed write relies on is never taken away; and a    *)
(* statement's result is judged by the state in which it ran.              *)
(***************************************************************************)
EXTENDS ApiAudit, ApiTheorems

\* What has been seen by the time a handler is at a statement.
Progress(statement, r, user, named, observed) ==
  /\ statement # "idle" => Sendable(r)
  /\ statement \in AfterCaller => "key_works" \in observed
  /\ statement \in {"read_task", "update_task"} =>
       observed \cap ({"owner"} \cup SufficientShares(r.op)) # {}
  /\ statement = "load_share" =>
       \E t \in tasks : t.id = r.task /\ t.owner # user.id
  /\ statement \in AfterOwner => "owner" \in observed
  /\ statement \in AfterTarget =>
       named.username = r.username /\ "named" \in observed
  /\ statement = "insert_key" => "credentials_work" \in observed

\* An answer is right about what was observed and shows an exact view.
Justified(r, response, observed, shown) ==
  /\ response.status \in Success => GrantJustified(r.op, observed)
  /\ RefusalJustified(r.op, response.status, observed)
  /\ SaysNothing(r.op, response, observed)
  /\ response.status = 200
       /\ r.op \in {"get_tasks", "get_task_by_id", "get_task_shares"}
     => response.body \in shown

\* A confirmed write holds, and keys which were drawn once stay what they are.
HoldsOn(r, creator, body) ==
  /\ WriteHolds(r, creator, body)
  /\ r.op = "create_auth_key" => \A b \in body : b.auth_key \in minted
  /\ r.op = "delete_auth_key" => \A k \in auth_keys : k.key # r.key

WritesHold(w) ==
  Answered(w, {201, 204}) => HoldsOn(request[w], caller[w], answer[w].body)

\* The inductive invariant of one worker.
Account(w) ==
  /\ Progress(pc[w], request[w], caller[w], target[w], facts[w])
  /\ pc[w] = "answered" => Justified(request[w], answer[w], facts[w], views[w])
  /\ WritesHold(w)

AInv == IInv /\ \A w \in Workers : Account(w)

------------------------------------------------------------------------------
(***************************************************************************)
(* What a statement sees.                                                  *)
(***************************************************************************)
Seen(w) == facts[w] \cup FactsNow(w)
Shown(w) == views[w] \cup ViewNow(w)

\* The fact each statement adds.
LEMMA KeyFact ==
  ASSUME NEW w \in Workers, request[w].op \in KeyedOps
  PROVE  IF KeyWorks(request[w].key) THEN "key_works" \in Seen(w)
         ELSE "key_refused" \in Seen(w)
BY DEF Seen, FactsNow

LEMMA LevelFact ==
  ASSUME NEW w \in Workers, request[w].op \in TaskOps, caller[w] # None
  PROVE  Level(caller[w].id, request[w].task) \in Seen(w)
BY DEF Seen, FactsNow

LEMMA NameFact ==
  ASSUME NEW w \in Workers, request[w].op \in NamingOps
  PROVE  IF \E u \in users : u.username = request[w].username
         THEN "named" \in Seen(w) ELSE "unnamed" \in Seen(w)
BY DEF Seen, FactsNow

LEMMA CredentialsFact ==
  ASSUME NEW w \in Workers, request[w].op = "create_auth_key"
  PROVE  IF \E u \in users : /\ u.username = request[w].username
                             /\ u.password = hash_password(request[w].password)
         THEN "credentials_work" \in Seen(w)
         ELSE "credentials_refused" \in Seen(w)
BY DEF Seen, FactsNow

LEMMA UserFact ==
  ASSUME NEW w \in Workers, request[w].op = "get_user"
  PROVE  IF \E u \in users : u.id = request[w].user
         THEN "named" \in Seen(w) ELSE "unnamed" \in Seen(w)
BY DEF Seen, FactsNow

LEMMA RegistrationFact ==
  ASSUME NEW w \in Workers, request[w].op = "create_user"
  PROVE  (\E u \in users : u.username = Varchar255[request[w].username])
           => "named" \in Seen(w)
BY DEF Seen, FactsNow

\* The relation of a user to a task, by the one row the task and the share have.
LEMMA LevelOfOwner ==
  ASSUME IInv, NEW user, NEW t \in tasks, t.owner = user
  PROVE  Level(user, t.id) = "owner"
BY DEF Level, get_task_by_id

LEMMA LevelOfMissing ==
  ASSUME NEW user, NEW task, get_task_by_id(task) = {}
  PROVE  Level(user, task) = "missing"
BY DEF Level

LEMMA NotTheOwner ==
  ASSUME IInv, NEW user, NEW t \in tasks, t.owner # user
  PROVE  /\ get_task_by_id(t.id) # {}
         /\ ~ \E u \in get_task_by_id(t.id) : u.owner = user
BY DEF IInv, Integrity, ConsistentDatabase, PrimaryKey, get_task_by_id

LEMMA LevelOfStranger ==
  ASSUME IInv, NEW user, NEW t \in tasks, t.owner # user,
         shares_of(t.id, user) = {}
  PROVE  Level(user, t.id) = "stranger"
BY NotTheOwner DEF Level

LEMMA LevelOfSharee ==
  ASSUME IInv, NEW user, NEW t \in tasks, t.owner # user,
         NEW s \in shares_of(t.id, user)
  PROVE  Level(user, t.id) = s.permission
<1>1. \A x \in shares_of(t.id, user) : x = s
  BY DEF shares_of, IInv, Integrity, ConsistentDatabase, UniqueShares
<1>2. (CHOOSE x \in shares_of(t.id, user) : TRUE) = s
  BY <1>1
<1> QED
  BY <1>2, NotTheOwner DEF Level

\* Whoever does not own a task is on one of the four other levels.
LEMMA LevelOfOthers ==
  ASSUME IInv, NEW user, NEW task, require_task_owner(user, task) = {}
  PROVE  Level(user, task) \in {"missing", "stranger", "read", "read_write"}
<1>1. CASE get_task_by_id(task) = {}
  BY <1>1, LevelOfMissing
<1>2. CASE get_task_by_id(task) # {}
  <2>1. PICK t \in tasks : t.id = task /\ t.owner # user
    BY <1>2 DEF get_task_by_id, require_task_owner
  <2>2. CASE shares_of(task, user) = {}
    BY <2>1, <2>2, LevelOfStranger
  <2>3. ASSUME NEW s \in shares_of(task, user)
        PROVE  Level(user, task) \in {"read", "read_write"}
    <3>1. s.permission \in SharePermission
      BY DEF shares_of, IInv, TypeOK, TypedDatabase, TaskShare
    <3> QED
      BY <2>1, <3>1, LevelOfSharee DEF SharePermission
  <2> QED
    BY <2>2, <2>3
<1> QED
  BY <1>1, <1>2

\* Where the list query and the permission rule agree.
LEMMA ReadableTasks ==
  ASSUME IInv, NEW user, NEW t \in tasks
  PROVE  MayRead(user, t.id) <=> t.owner = user \/ t.id \in shared_task_ids(user)
<1>1. CASE t.owner = user
  BY <1>1, LevelOfOwner DEF MayRead
<1>2. CASE t.owner # user /\ shares_of(t.id, user) = {}
  <2>1. t.id \notin shared_task_ids(user)
    BY <1>2 DEF shared_task_ids, shares_with, shares_of
  <2> QED
    BY <1>2, <2>1, LevelOfStranger DEF MayRead
<1>3. ASSUME t.owner # user, NEW s \in shares_of(t.id, user)
      PROVE  MayRead(user, t.id) /\ t.id \in shared_task_ids(user)
  <2>1. s.permission \in SharePermission
    BY DEF shares_of, IInv, TypeOK, TypedDatabase, TaskShare
  <2>2. t.id \in shared_task_ids(user)
    BY DEF shared_task_ids, shares_with, shares_of
  <2> QED
    BY <1>3, <2>1, <2>2, LevelOfSharee DEF MayRead, SharePermission
<1> QED
  BY <1>1, <1>2, <1>3

------------------------------------------------------------------------------
(***************************************************************************)
(* The account of the worker which takes the step.                         *)
(***************************************************************************)
\* The operations which ask for a key, and those on shares, by their statement.
LEMMA KeyedStatements ==
  ASSUME NEW r \in Requests, NEW statement \in Statements(r.op)
  PROVE  /\ statement = "authenticate" => r.op \in KeyedOps
         /\ statement = "check_owner" => r.op \in ShareOps
<1>1. r.op \notin {"create_user", "create_auth_key", "delete_auth_key"}
        => r.op \in KeyedOps
  BY RequestKinds DEF KeyedOps
<1> QED
  BY <1>1, ServedOperation DEF ShareOps

\* A status which refuses nothing needs no reason.
LEMMA NothingRefused ==
  ASSUME NEW op, NEW observed, NEW status, status \notin {401, 403, 404, 409}
  PROVE  RefusalJustified(op, status, observed)
<1>1. status # 401 /\ status # 403 /\ status # 404 /\ status # 409
  OBVIOUS
<1> QED
  BY <1>1, ZenonT(30) DEF RefusalJustified

LEMMA StatusesDiffer ==
  /\ 401 # 403 /\ 401 # 404 /\ 401 # 409
  /\ 403 # 404 /\ 403 # 409 /\ 404 # 409
OBVIOUS

\* The reason each refusal needs.
LEMMA CredentialsRefused ==
  ASSUME NEW op, NEW observed,
         op = "create_auth_key", "credentials_refused" \in observed
  PROVE  RefusalJustified(op, 401, observed)
BY StatusesDiffer, ZenonT(30) DEF RefusalJustified

LEMMA KeyRefused ==
  ASSUME NEW op, NEW observed,
         op \in KeyedOps, "key_refused" \in observed
  PROVE  RefusalJustified(op, 401, observed)
<1>1. op # "create_auth_key"
  BY DEF KeyedOps
<1> QED
  BY <1>1, StatusesDiffer, ZenonT(30) DEF RefusalJustified

LEMMA PermissionRefused ==
  ASSUME NEW op, NEW observed, NEW level \in observed,
         \/ op = "get_task_by_id" /\ level \in {"missing", "stranger"}
         \/ op = "update_task_by_id" /\ level \in {"missing", "stranger", "read"}
         \/ op \in ShareOps /\ level \in {"missing", "stranger", "read", "read_write"}
  PROVE  RefusalJustified(op, 403, observed)
<1>1. \/ op = "get_task_by_id" /\ observed \cap {"missing", "stranger"} # {}
      \/ op = "update_task_by_id"
         /\ observed \cap {"missing", "stranger", "read"} # {}
      \/ op \in ShareOps
         /\ observed \cap {"missing", "stranger", "read", "read_write"} # {}
  OBVIOUS
<1> QED
  BY <1>1, StatusesDiffer, ZenonT(30) DEF RefusalJustified

LEMMA NameRefused ==
  ASSUME NEW op, NEW observed,
         op # "create_auth_key", "unnamed" \in observed
  PROVE  RefusalJustified(op, 404, observed)
BY StatusesDiffer, ZenonT(30) DEF RefusalJustified

LEMMA RegistrationRefused ==
  ASSUME NEW op, NEW observed,
         op = "create_user", "named" \in observed
  PROVE  RefusalJustified(op, 409, observed)
BY StatusesDiffer, ZenonT(30) DEF RefusalJustified

\* Errors which are not about the request need no reason.
LEMMA FailuresAreJustified ==
  ASSUME NEW r, NEW observed, NEW shown, NEW e \in {"QueryFailed", "InvalidData"}
  PROVE  Justified(r, into_http_response(e), observed, shown)
<1> DEFINE a == into_http_response(e)
<1>1. a.status \in {400, 500}
  BY ErrorAnswers
<1>2. a.status \notin {401, 403, 404, 409} /\ a.status \notin Success /\ a.status # 200
  BY <1>1 DEF Success
<1>3. SaysNothing(r.op, a, observed)
  BY DEF SaysNothing
<1> HIDE DEF a
<1> QED
  BY <1>2, <1>3, NothingRefused DEF Justified, a

\* A refusal needs its reason, and must not tell whether a task is there.
LEMMA RefusalsAreJustified ==
  ASSUME NEW r, NEW observed, NEW shown, NEW a, NEW status \in {401, 403, 404, 409},
         a.status = status, RefusalJustified(r.op, status, observed),
         SaysNothing(r.op, a, observed)
  PROVE  Justified(r, a, observed, shown)
BY DEF Justified, Success

\* A success needs its reason, which gives away nothing the caller may not see.
LEMMA GrantsAreJustified ==
  ASSUME NEW r, NEW observed, NEW shown, NEW body, NEW status \in Success,
         GrantJustified(r.op, observed),
         status = 200 /\ r.op \in {"get_tasks", "get_task_by_id", "get_task_shares"}
           => body \in shown
  PROVE  Justified(r, Response(status, body), observed, shown)
<1> DEFINE a == Response(status, body)
<1>1. a.status = status /\ a.body = body
  BY DEF Response
<1>2. RefusalJustified(r.op, status, observed)
  BY NothingRefused DEF Success
<1>3. SaysNothing(r.op, a, observed)
  BY DEF GrantJustified, SaysNothing, TaskOps, ShareOps
<1> HIDE DEF a
<1> QED
  BY <1>1, <1>2, <1>3 DEF Justified, a

\* What the invariant says of a worker at a statement.
LEMMA Serves ==
  ASSUME AInv, NEW w \in Workers, Busy(w)
  PROVE  /\ IInv /\ request[w] \in Requests /\ ~Invalid(request[w])
         /\ pc[w] \in Statements(request[w].op)
         /\ Progress(pc[w], request[w], caller[w], target[w], facts[w])
         /\ Sendable(request[w])
BY Serving DEF AInv, Account, Progress, Busy

\* A handler which answers.
LEMMA AnswerAccount ==
  ASSUME AInv, Observe, NEW w \in Workers, Busy(w), NEW a, Answer(w, a),
         UNCHANGED request, minted \subseteq minted',
         Justified(request[w], a, Seen(w), Shown(w)), WritesHold(w)'
  PROVE  Account(w)'
<1>1. pc'[w] = "answered" /\ answer'[w] = a /\ request'[w] = request[w]
  BY DEF Answer, AInv, IInv, TypeOK
<1>2. facts'[w] = Seen(w) /\ views'[w] = Shown(w)
  BY <1>1 DEF Observe, Seen, Shown
<1>3. Sendable(request[w])'
  BY <1>1, Serves DEF Sendable
<1>4. Progress(pc[w], request[w], caller[w], target[w], facts[w])'
  BY <1>1, <1>3 DEF Progress, AfterCaller, AfterOwner, AfterTarget
<1>5. Justified(request'[w], answer'[w], facts'[w], views'[w])
  BY <1>1, <1>2
<1>6. Justified(request[w], answer[w], facts[w], views[w])'
  BY <1>5 DEF Justified
<1> QED
  BY <1>4, <1>6 DEF Account

\* An answer which confirms no write.
LEMMA PlainAnswerAccount ==
  ASSUME AInv, Observe, NEW w \in Workers, Busy(w), NEW a, Answer(w, a),
         UNCHANGED request, minted \subseteq minted', a.status \notin {201, 204},
         Justified(request[w], a, Seen(w), Shown(w))
  PROVE  Account(w)'
<1>1. answer'[w] = a
  BY DEF Answer, AInv, IInv, TypeOK
<1>2. WritesHold(w)'
  BY <1>1 DEF WritesHold, Answered
<1> QED
  BY <1>2, AnswerAccount

\* A handler which goes on with its next statement.
LEMMA ContinueAccount ==
  ASSUME AInv, Observe, NEW w \in Workers, Busy(w), NEW l, Continue(w, l),
         l \notin {"idle", "answered"}, UNCHANGED <<request, database>>,
         NEW c, caller'[w] = c, NEW t, target'[w] = t,
         Progress(l, request[w], c, t, Seen(w))
  PROVE  Account(w)'
<1>1. pc'[w] = l /\ request'[w] = request[w]
  BY DEF Continue, AInv, IInv, TypeOK
<1>2. facts'[w] = Seen(w)
  BY <1>1 DEF Observe, Seen
<1>3. UNCHANGED <<minted, tasks>>
  BY DEF database
<1>4. Progress(pc[w], request[w], caller[w], target[w], facts[w])'
  BY <1>1, <1>2, <1>3 DEF Progress, Sendable
<1> QED
  BY <1>1, <1>4 DEF Account, WritesHold, Answered

\* What has been observed of a request stays observed.
LEMMA ProgressIsKept ==
  ASSUME NEW w \in Workers, NEW l, NEW r, NEW c, NEW t,
         Progress(l, r, c, t, facts[w])
  PROVE  Progress(l, r, c, t, Seen(w))
BY DEF Progress, Seen

LEMMA FailAccount ==
  ASSUME AInv, Observe, NEW w \in Workers, Fail(w)
  PROVE  Account(w)'
<1>1. minted \subseteq minted' /\ UNCHANGED request /\ Busy(w)
  BY DEF Fail, database
<1> QED
  BY <1>1, FailuresAreJustified, ErrorAnswers, PlainAnswerAccount DEF Fail

------------------------------------------------------------------------------
(***************************************************************************)
(* Authentication, and the handlers of accounts and keys.                  *)
(***************************************************************************)
\* The query finds somebody exactly if the key works: its user is there.
LEMMA KeysFindTheirUser ==
  ASSUME IInv, NEW key
  PROVE  auth_key_to_user(key) # {} <=> KeyWorks(key)
BY DEF IInv, Integrity, ConsistentDatabase, KeysReferToUsers, auth_key_to_user,
   KeyWorks

LEMMA AuthenticateAccount ==
  ASSUME AInv, Observe, NEW w \in Workers, Authenticate(w)
  PROVE  Account(w)'
<1> DEFINE r == request[w]
<1>1. /\ Busy(w) /\ IInv /\ r \in Requests /\ Sendable(r)
      /\ pc[w] = "authenticate" /\ "authenticate" \in Statements(r.op)
      /\ UNCHANGED <<request, target, database>> /\ minted \subseteq minted'
  BY Serves DEF Authenticate, Busy, database
<1>2. r.op \in KeyedOps
  BY <1>1, KeyedStatements
<1>3. CASE auth_key_to_user(r.key) = {}
           /\ Answer(w, into_http_response("InvalidAuthKey"))
  <2> DEFINE a == into_http_response("InvalidAuthKey")
  <2>1. "key_refused" \in Seen(w)
    BY <1>1, <1>2, <1>3, KeysFindTheirUser, KeyFact
  <2>2. a.status = 401
    BY ErrorAnswers
  <2>3. RefusalJustified(r.op, 401, Seen(w))
    BY <2>1, <1>2, KeyRefused
  <2>4. SaysNothing(r.op, a, Seen(w))
    BY DEF SaysNothing
  <2>5. Answer(w, a)
    BY <1>3
  <2> HIDE DEF a
  <2> QED
    BY <1>1, <2>2, <2>3, <2>4, <2>5, RefusalsAreJustified, PlainAnswerAccount
<1>4. ASSUME NEW user \in auth_key_to_user(r.key),
             caller' = [caller EXCEPT ![w] = user]
      PROVE  "key_works" \in Seen(w) /\ caller'[w] = user
  BY <1>1, <1>2, <1>4, KeysFindTheirUser, KeyFact DEF IInv, TypeOK
<1>5. ASSUME NEW user \in auth_key_to_user(r.key),
             caller' = [caller EXCEPT ![w] = user], r.op = "get_current_user",
             Answer(w, Response(200, {UserRepresentation(user)}))
      PROVE  Account(w)'
  <2>1. GrantJustified(r.op, Seen(w))
    BY <1>4, <1>5 DEF GrantJustified, ShareOps, NamingOps
  <2>2. Justified(r, Response(200, {UserRepresentation(user)}), Seen(w), Shown(w))
    BY <1>5, <2>1, GrantsAreJustified DEF Success
  <2>3. Response(200, {UserRepresentation(user)}).status = 200
    BY DEF Response
  <2> QED
    BY <1>1, <1>5, <2>2, <2>3, PlainAnswerAccount
<1>6. ASSUME NEW user \in auth_key_to_user(r.key),
             caller' = [caller EXCEPT ![w] = user], r.op # "get_current_user",
             Continue(w, AfterAuthentication(r.op))
      PROVE  Account(w)'
  <2> DEFINE l == AfterAuthentication(r.op)
  <2>1. l \notin {"idle", "answered", "read_task", "update_task", "load_share"}
        /\ l \notin AfterTarget \cup AfterOwner
    <3> USE DEF AfterAuthentication, AfterTarget, AfterOwner, KeyedOps
    <3>1. CASE r.op \in {"get_tasks", "add_task", "get_user"}
      BY <3>1
    <3>2. CASE r.op \in {"get_task_by_id", "update_task_by_id"}
      BY <3>2
    <3>3. CASE r.op \in {"get_task_shares", "put_share", "delete_share"}
      BY <3>3
    <3> QED
      BY <3>1, <3>2, <3>3, <1>2, <1>6
  <2> HIDE DEF l
  <2>2. Progress(l, r, user, target[w], Seen(w))
    BY <1>1, <1>4, <1>6, <2>1 DEF Progress, AfterTarget
  <2> QED
    BY <1>1, <1>4, <1>6, <2>1, <2>2, ContinueAccount DEF l
<1> QED
  BY <1>1, <1>3, <1>5, <1>6 DEF Authenticate

LEMMA InsertUserAccount ==
  ASSUME AInv, Observe, NEW w \in Workers, InsertUser(w), minted \subseteq minted'
  PROVE  Account(w)'
<1> DEFINE r == request[w]
           name == Varchar255[r.username]
           row == [id |-> next_id("users"), username |-> name,
                   password |-> hash_password(r.password)]
<1>1. /\ Busy(w) /\ r \in Requests /\ pc[w] \in Statements(r.op)
      /\ UNCHANGED <<request, caller>> /\ pc[w] = "insert_user"
  BY Serves DEF InsertUser, Busy
<1>2. r.op = "create_user"
  BY <1>1, ServedOperation
<1>3. CASE Answer(w, into_http_response("QueryFailed"))
  BY <1>1, <1>3, FailuresAreJustified, ErrorAnswers, PlainAnswerAccount
<1>4. CASE username_taken(name) /\ Answer(w, into_http_response("UserExists"))
  <2> DEFINE a == into_http_response("UserExists")
  <2>1. "named" \in Seen(w)
    BY <1>2, <1>4, RegistrationFact DEF username_taken, get_user_by_name
  <2>2. a.status = 409
    BY ErrorAnswers
  <2>3. RefusalJustified(r.op, 409, Seen(w))
    BY <1>2, <2>1, RegistrationRefused
  <2>4. SaysNothing(r.op, a, Seen(w))
    BY <1>2 DEF SaysNothing, TaskOps
  <2>5. Answer(w, a)
    BY <1>4
  <2> HIDE DEF a
  <2> QED
    BY <1>1, <2>2, <2>3, <2>4, <2>5, RefusalsAreJustified, PlainAnswerAccount
<1>5. CASE insert_user(row) /\ Answer(w, Response(201, {UserRepresentation(row)}))
  <2> DEFINE a == Response(201, {UserRepresentation(row)})
  <2>1. GrantJustified(r.op, Seen(w))
    BY <1>2 DEF GrantJustified, KeyedOps, ShareOps, NamingOps
  <2>2. Justified(r, a, Seen(w), Shown(w))
    BY <1>2, <2>1, GrantsAreJustified DEF Success
  <2>3. answer'[w] = a /\ a.body = {UserRepresentation(row)} /\ request'[w] = r
    BY <1>1, <1>5 DEF Answer, AInv, IInv, TypeOK, Response
  <2>4. row \in users' /\ verify_password(r.password, row.password)
    BY <1>5 DEF insert_user, verify_password, hash_password
  <2> HIDE DEF row
  <2>5. HoldsOn(request[w], caller[w], answer[w].body)'
    BY <1>2, <2>3, <2>4
       DEF HoldsOn, WriteHolds, UserRepresentation, verify_password
  <2>6. WritesHold(w)'
    BY <2>5 DEF WritesHold
  <2> QED
    BY <1>1, <1>5, <2>2, <2>6, AnswerAccount
<1> QED
  BY <1>3, <1>4, <1>5 DEF InsertUser, AnswerWrite

LEMMA FindAccountAccount ==
  ASSUME AInv, Observe, NEW w \in Workers, FindAccount(w)
  PROVE  Account(w)'
<1> DEFINE r == request[w]
           works == \E u \in users : /\ u.username = r.username
                                     /\ u.password = hash_password(r.password)
<1>1. /\ Busy(w) /\ IInv /\ r \in Requests /\ Sendable(r)
      /\ pc[w] \in Statements(r.op) /\ pc[w] = "find_account"
      /\ UNCHANGED <<request, caller, database>> /\ minted \subseteq minted'
  BY Serves DEF FindAccount, Busy, database
<1>2. r.op = "create_auth_key" /\ r.op \in NamingOps /\ r.op \notin TaskOps
  BY <1>1, ServedOperation DEF NamingOps, TaskOps
<1>3. ASSUME NEW a, a.status = 401, Answer(w, a), ~works
      PROVE  Account(w)'
  <2>1. "credentials_refused" \in Seen(w)
    BY <1>2, <1>3, CredentialsFact
  <2>2. RefusalJustified(r.op, 401, Seen(w))
    BY <1>2, <2>1, CredentialsRefused
  <2>3. SaysNothing(r.op, a, Seen(w))
    BY <1>2 DEF SaysNothing
  <2> QED
    BY <1>1, <1>3, <2>2, <2>3, RefusalsAreJustified, PlainAnswerAccount
<1>4. CASE get_user_by_name(r.username) = {}
           /\ Answer(w, with_challenge(Response(401, {}), "Basic"))
  <2>1. ~works
    BY <1>4 DEF get_user_by_name
  <2> QED
    BY <1>3, <1>4, <2>1, ErrorAnswers
<1>5. ASSUME NEW user \in get_user_by_name(r.username)
      PROVE  works <=> verify_password(r.password, user.password)
  <2>1. user \in users /\ user.username = r.username
    BY DEF get_user_by_name
  <2>2. \A u \in users : u.username = r.username => u = user
    BY <1>1, <2>1 DEF IInv, Integrity, ConsistentDatabase, UniqueUsernames
  <2>3. user.password \in HashedPassword
    BY <1>1, <2>1 DEF IInv, TypeOK, TypedDatabase, User
  <2>4. user.password = hash_password(r.password)
          <=> verify_password(r.password, user.password)
    BY <2>3 DEF HashedPassword, hash_password, verify_password
  <2> QED
    BY <2>1, <2>2, <2>4
<1>6. ASSUME NEW user \in get_user_by_name(r.username),
             ~verify_password(r.password, user.password),
             Answer(w, into_basic_http_response("InvalidPassword"))
      PROVE  Account(w)'
  BY <1>3, <1>5, <1>6, ErrorAnswers
<1>7. ASSUME NEW user \in get_user_by_name(r.username),
             verify_password(r.password, user.password),
             target' = [target EXCEPT ![w] = user], Continue(w, "insert_key")
      PROVE  Account(w)'
  <2>1. "credentials_work" \in Seen(w)
    BY <1>2, <1>5, <1>7, CredentialsFact
  <2>2. user \in users /\ user.username = r.username
    BY DEF get_user_by_name
  <2>3. "named" \in Seen(w)
    BY <1>2, <2>2, NameFact
  <2>4. Progress("insert_key", r, caller[w], user, Seen(w))
    BY <1>1, <2>1, <2>2, <2>3 DEF Progress, AfterCaller, AfterOwner, AfterTarget
  <2>5. target'[w] = user /\ caller'[w] = caller[w]
    BY <1>1, <1>7 DEF IInv, TypeOK
  <2> QED
    BY <1>1, <1>7, <2>4, <2>5, ContinueAccount
<1> QED
  BY <1>4, <1>6, <1>7 DEF FindAccount

\* A statement which wrote is answered, or its result is lost.
LEMMA WriteAccount ==
  ASSUME AInv, Observe, NEW w \in Workers, Busy(w), NEW a, AnswerWrite(w, a),
         UNCHANGED request, minted \subseteq minted',
         Justified(request[w], a, Seen(w), Shown(w)),
         answer'[w] = a /\ request'[w] = request[w] => WritesHold(w)'
  PROVE  Account(w)'
<1>1. CASE Answer(w, a)
  <2>1. answer'[w] = a /\ request'[w] = request[w]
    BY <1>1 DEF Answer, AInv, IInv, TypeOK
  <2> QED
    BY <1>1, <2>1, AnswerAccount
<1>2. CASE Answer(w, into_http_response("QueryFailed"))
  BY <1>2, FailuresAreJustified, ErrorAnswers, PlainAnswerAccount
<1> QED
  BY <1>1, <1>2 DEF AnswerWrite

LEMMA InsertKeyAccount ==
  ASSUME AInv, Observe, NEW w \in Workers, InsertKey(w)
  PROVE  Account(w)'
<1> DEFINE r == request[w]
<1>1. /\ Busy(w) /\ IInv /\ r \in Requests /\ pc[w] \in Statements(r.op)
      /\ UNCHANGED <<request, caller, target>> /\ pc[w] = "insert_key"
      /\ Progress("insert_key", r, caller[w], target[w], facts[w])
  BY Serves DEF InsertKey, Busy
<1>2. r.op = "create_auth_key"
  BY <1>1, ServedOperation
<1>3. target[w] \in users /\ target[w].username = r.username
  BY <1>1, TargetIsKnown DEF Progress, AfterTarget
<1>4. PICK key \in fresh_keys :
        /\ insert_auth_key(target[w].id, key)
        /\ AnswerWrite(w, Response(201, {[id |-> next_id("auth_keys"),
                                          auth_key |-> key]}))
  BY DEF InsertKey
<1> DEFINE shown == [id |-> next_id("auth_keys"), auth_key |-> key]
           row == [id |-> next_id("auth_keys"), user_id |-> target[w].id,
                   key |-> key, expiration |-> now + Lifetime]
           a == Response(201, {shown})
<1>5. "credentials_work" \in Seen(w) /\ "named" \in Seen(w)
  BY <1>1 DEF Progress, AfterTarget, Seen
<1>6. GrantJustified(r.op, Seen(w))
  BY <1>2, <1>5 DEF GrantJustified, KeyedOps, ShareOps
<1>7. Justified(r, a, Seen(w), Shown(w))
  BY <1>2, <1>6, GrantsAreJustified DEF Success
<1>8. a.body = {shown} /\ shown.auth_key = key /\ shown.id = row.id
      /\ row.key = key /\ row.user_id = target[w].id
  BY DEF Response
<1>9. auth_keys' = auth_keys \cup {row} /\ minted' = minted \cup {key}
      /\ users' = users
  BY <1>4 DEF insert_auth_key
<1>10. \A k \in auth_keys' : k.key = key => k = row
  BY <1>1, <1>9
     DEF IInv, Integrity, ConsistentDatabase, MintedKeys, fresh_keys
<1> HIDE DEF shown, row, a
<1>11. ASSUME answer'[w] = a, request'[w] = r
       PROVE  WritesHold(w)'
  <2>1. HoldsOn(request[w], caller[w], answer[w].body)'
    BY <1>2, <1>3, <1>8, <1>9, <1>10, <1>11 DEF HoldsOn, WriteHolds
  <2> QED
    BY <2>1 DEF WritesHold
<1> QED
  BY <1>1, <1>4, <1>7, <1>9, <1>11, WriteAccount DEF a, shown

LEMMA DeleteKeyAccount ==
  ASSUME AInv, Observe, NEW w \in Workers, DeleteKey(w)
  PROVE  Account(w)'
<1> DEFINE r == request[w]
           a == Response(204, {})
<1>1. /\ Busy(w) /\ r \in Requests /\ pc[w] \in Statements(r.op)
      /\ UNCHANGED <<request, minted>> /\ pc[w] = "delete_key"
  BY Serves DEF DeleteKey, Busy, revoke_auth_key
<1>2. r.op = "delete_auth_key"
  BY <1>1, ServedOperation
<1>3. GrantJustified(r.op, Seen(w))
  BY <1>2 DEF GrantJustified, KeyedOps, ShareOps, NamingOps
<1>4. Justified(r, a, Seen(w), Shown(w))
  BY <1>2, <1>3, GrantsAreJustified DEF Success
<1>5. \A k \in auth_keys' : k.key # r.key
  BY DEF DeleteKey, revoke_auth_key
<1>6. ASSUME request'[w] = r
      PROVE  WritesHold(w)'
  <2>1. HoldsOn(request[w], caller[w], answer[w].body)'
    BY <1>2, <1>5, <1>6 DEF HoldsOn, WriteHolds, KeyWorks
  <2> QED
    BY <2>1 DEF WritesHold
<1>7. AnswerWrite(w, a)
  BY DEF DeleteKey
<1> HIDE DEF a
<1> QED
  BY <1>1, <1>4, <1>6, <1>7, WriteAccount

------------------------------------------------------------------------------
(***************************************************************************)
(* Reads.                                                                  *)
(***************************************************************************)
\* A request is refused for a reason which was observed.
LEMMA RefusalAccount ==
  ASSUME AInv, Observe, NEW w \in Workers, Busy(w), NEW a,
         NEW status \in {401, 403, 404, 409}, a.status = status, Answer(w, a),
         UNCHANGED request, minted \subseteq minted',
         RefusalJustified(request[w].op, status, Seen(w)),
         SaysNothing(request[w].op, a, Seen(w))
  PROVE  Account(w)'
BY RefusalsAreJustified, PlainAnswerAccount

LEMMA ForbiddenAccount ==
  ASSUME AInv, Observe, NEW w \in Workers, Busy(w),
         Answer(w, into_http_response("Forbidden")),
         UNCHANGED request, minted \subseteq minted',
         RefusalJustified(request[w].op, 403, Seen(w))
  PROVE  Account(w)'
<1> DEFINE a == into_http_response("Forbidden")
<1>1. a.status = 403
  BY ErrorAnswers
<1>2. SaysNothing(request[w].op, a, Seen(w))
  BY DEF SaysNothing
<1>3. Answer(w, a)
  OBVIOUS
<1> HIDE DEF a
<1> QED
  BY <1>1, <1>2, <1>3, RefusalAccount

\* A request which reads is granted, and what it shows is a view.
LEMMA ReadAccount ==
  ASSUME AInv, Observe, NEW w \in Workers, Busy(w), NEW body,
         Answer(w, Response(200, body)),
         UNCHANGED request, minted \subseteq minted',
         GrantJustified(request[w].op, Seen(w)),
         request[w].op \in {"get_tasks", "get_task_by_id", "get_task_shares"}
           => body \in Shown(w)
  PROVE  Account(w)'
<1>1. Justified(request[w], Response(200, body), Seen(w), Shown(w))
  BY GrantsAreJustified DEF Success
<1>2. Response(200, body).status = 200
  BY DEF Response
<1> QED
  BY <1>1, <1>2, PlainAnswerAccount

LEMMA FindUserAccount ==
  ASSUME AInv, Observe, NEW w \in Workers, FindUser(w)
  PROVE  Account(w)'
<1> DEFINE r == request[w]
<1>1. /\ Busy(w) /\ r \in Requests /\ pc[w] \in Statements(r.op)
      /\ UNCHANGED request /\ minted \subseteq minted' /\ pc[w] = "find_user"
      /\ Progress("find_user", r, caller[w], target[w], facts[w])
  BY Serves DEF FindUser, Busy, database
<1>2. r.op = "get_user" /\ "key_works" \in Seen(w)
  BY <1>1, ServedOperation DEF Progress, AfterCaller, Seen
<1>3. CASE get_user_by_id(r.user) = {} /\ Answer(w, into_http_response("NotFound"))
  <2> DEFINE a == into_http_response("NotFound")
  <2>1. "unnamed" \in Seen(w)
    BY <1>2, <1>3, UserFact DEF get_user_by_id
  <2>2. RefusalJustified(r.op, 404, Seen(w))
    BY <1>2, <2>1, NameRefused
  <2>3. SaysNothing(r.op, a, Seen(w))
    BY <1>2 DEF SaysNothing, TaskOps
  <2>4. a.status = 404 /\ Answer(w, a)
    BY <1>3, ErrorAnswers
  <2> HIDE DEF a
  <2> QED
    BY <1>1, <2>2, <2>3, <2>4, RefusalAccount
<1>4. ASSUME NEW user \in get_user_by_id(r.user),
             Answer(w, Response(200, {UserRepresentation(user)}))
      PROVE  Account(w)'
  <2>1. "named" \in Seen(w)
    BY <1>2, UserFact DEF get_user_by_id
  <2>2. GrantJustified(r.op, Seen(w))
    BY <1>2, <2>1 DEF GrantJustified, KeyedOps, ShareOps
  <2> QED
    BY <1>1, <1>2, <1>4, <2>2, ReadAccount
<1> QED
  BY <1>3, <1>4 DEF FindUser

LEMMA ListTasksAccount ==
  ASSUME AInv, Observe, NEW w \in Workers, ListTasks(w)
  PROVE  Account(w)'
<1> DEFINE r == request[w]
           listed == get_tasks_for_user(caller[w].id, r.completed)
           exact == {t \in tasks : /\ MayRead(caller[w].id, t.id)
                                   /\ r.completed \in {None, t.completed}}
<1>1. /\ Busy(w) /\ IInv /\ r \in Requests /\ pc[w] \in Statements(r.op)
      /\ UNCHANGED request /\ minted \subseteq minted' /\ pc[w] = "list_tasks"
      /\ Progress("list_tasks", r, caller[w], target[w], facts[w])
      /\ Answer(w, Response(200, listed))
  BY Serves DEF ListTasks, Busy, database
<1>2. r.op = "get_tasks" /\ "key_works" \in Seen(w)
  BY <1>1, ServedOperation DEF Progress, AfterCaller, Seen
<1>3. GrantJustified(r.op, Seen(w))
  BY <1>2 DEF GrantJustified, ShareOps, NamingOps
<1>4. listed = exact
  BY <1>1, ReadableTasks DEF get_tasks_for_user
<1>5. caller[w] # None
  BY <1>1, CallerIsKnown DEF AfterCaller
<1>6. exact \in Shown(w)
  BY <1>2, <1>5 DEF Shown, ViewNow
<1> HIDE DEF listed, exact
<1> QED
  BY <1>1, <1>3, <1>4, <1>6, ReadAccount

LEMMA InsertTaskAccount ==
  ASSUME AInv, Observe, NEW w \in Workers, InsertTask(w)
  PROVE  Account(w)'
<1> DEFINE r == request[w]
           row == [id |-> next_id("tasks"), owner |-> caller[w].id,
                   title |-> r.title, description |-> r.description,
                   completed |-> FALSE]
           a == Response(201, {row})
<1>1. /\ Busy(w) /\ r \in Requests /\ pc[w] \in Statements(r.op)
      /\ UNCHANGED <<request, caller, minted>> /\ pc[w] = "insert_task"
      /\ Progress("insert_task", r, caller[w], target[w], facts[w])
      /\ AnswerWrite(w, a) /\ insert_task(row)
  BY Serves DEF InsertTask, Busy, insert_task
<1>2. r.op = "add_task" /\ "key_works" \in Seen(w)
  BY <1>1, ServedOperation DEF Progress, AfterCaller, Seen
<1>3. GrantJustified(r.op, Seen(w))
  BY <1>2 DEF GrantJustified, ShareOps, NamingOps
<1>4. a.body = {row} /\ row.owner = caller[w].id
  BY DEF Response
<1>5. row \in tasks'
  BY <1>1 DEF insert_task
<1> HIDE DEF row
<1>6. Justified(r, a, Seen(w), Shown(w))
  <2>1. r.op \notin {"get_tasks", "get_task_by_id", "get_task_shares"}
        /\ 201 \in Success
    BY <1>2 DEF Success
  <2> QED
    BY <1>3, <2>1, GrantsAreJustified
<1> HIDE DEF a
<1>7. ASSUME answer'[w] = a, request'[w] = r
      PROVE  WritesHold(w)'
  <2>1. HoldsOn(request[w], caller[w], answer[w].body)'
    BY <1>1, <1>2, <1>4, <1>5, <1>7 DEF HoldsOn, WriteHolds
  <2> QED
    BY <2>1 DEF WritesHold
<1> QED
  BY <1>1, <1>6, <1>7, WriteAccount

------------------------------------------------------------------------------
(***************************************************************************)
(* The permission of a task, found out in two statements.                  *)
(***************************************************************************)
\* What all handlers which are past authentication know of their caller.
LEMMA ServesCaller ==
  ASSUME AInv, NEW w \in Workers, Busy(w), pc[w] \in AfterCaller
  PROVE  /\ "key_works" \in Seen(w)
         /\ request[w].op \in TaskOps =>
              Level(caller[w].id, request[w].task) \in Seen(w)
<1>1. "key_works" \in Seen(w)
  BY DEF AInv, Account, Progress, Seen
<1>2. caller[w] # None
  BY CallerIsKnown DEF AInv
<1> QED
  BY <1>1, <1>2, LevelFact

LEMMA LoadTaskAccount ==
  ASSUME AInv, Observe, NEW w \in Workers, LoadTask(w)
  PROVE  Account(w)'
<1> DEFINE r == request[w]
<1>1. /\ Busy(w) /\ IInv /\ r \in Requests /\ pc[w] \in Statements(r.op)
      /\ UNCHANGED <<request, caller, target, database>> /\ minted \subseteq minted'
      /\ pc[w] = "load_task" /\ Sendable(r)
  BY Serves DEF LoadTask, Busy, database
<1>2. /\ r.op \in {"get_task_by_id", "update_task_by_id"}
      /\ "key_works" \in Seen(w) /\ Level(caller[w].id, r.task) \in Seen(w)
  BY <1>1, ServedOperation, ServesCaller DEF AfterCaller, TaskOps
<1>3. CASE get_task_by_id(r.task) = {}
           /\ Answer(w, into_http_response(HideMissing("NotFound")))
  <2>1. "missing" \in Seen(w)
    BY <1>2, <1>3, LevelOfMissing
  <2>2. RefusalJustified(r.op, 403, Seen(w))
    BY <1>2, <2>1, PermissionRefused
  <2> QED
    BY <1>1, <1>3, <2>2, ForbiddenAccount DEF HideMissing
<1>4. ASSUME NEW task \in get_task_by_id(r.task), task.owner = caller[w].id,
             Continue(w, Permitted(r.op))
      PROVE  Account(w)'
  <2>1. task \in tasks /\ task.id = r.task
    BY DEF get_task_by_id
  <2>2. "owner" \in Seen(w)
    BY <1>1, <1>2, <1>4, <2>1, LevelOfOwner
  <2>3. Permitted(r.op) \in {"read_task", "update_task"}
    BY <1>2 DEF Permitted
  <2>4. Progress(Permitted(r.op), r, caller[w], target[w], Seen(w))
    BY <1>1, <1>2, <2>2, <2>3 DEF Progress, AfterOwner, AfterTarget
  <2> QED
    BY <1>1, <1>4, <2>3, <2>4, ContinueAccount
<1>5. ASSUME NEW task \in get_task_by_id(r.task), task.owner # caller[w].id,
             Continue(w, "load_share")
      PROVE  Account(w)'
  <2>1. task \in tasks /\ task.id = r.task
    BY DEF get_task_by_id
  <2>2. Progress("load_share", r, caller[w], target[w], Seen(w))
    BY <1>1, <1>2, <1>5, <2>1 DEF Progress, AfterOwner, AfterTarget
  <2> QED
    BY <1>1, <1>5, <2>2, ContinueAccount
<1> QED
  BY <1>3, <1>4, <1>5 DEF LoadTask

LEMMA LoadShareAccount ==
  ASSUME AInv, Observe, NEW w \in Workers, LoadShare(w)
  PROVE  Account(w)'
<1> DEFINE r == request[w]
           found == shares_of(r.task, caller[w].id)
<1>1. /\ Busy(w) /\ IInv /\ r \in Requests /\ pc[w] \in Statements(r.op)
      /\ UNCHANGED <<request, caller, target, database>> /\ minted \subseteq minted'
      /\ pc[w] = "load_share" /\ Sendable(r)
      /\ \E t \in tasks : t.id = r.task /\ t.owner # caller[w].id
  BY Serves DEF LoadShare, Busy, database, Progress
<1>2. /\ r.op \in {"get_task_by_id", "update_task_by_id"}
      /\ "key_works" \in Seen(w) /\ Level(caller[w].id, r.task) \in Seen(w)
  BY <1>1, ServedOperation, ServesCaller DEF AfterCaller, TaskOps
<1>3. CASE found = {} /\ Answer(w, into_http_response("Forbidden"))
  <2>1. "stranger" \in Seen(w)
    BY <1>1, <1>2, <1>3, LevelOfStranger
  <2>2. RefusalJustified(r.op, 403, Seen(w))
    BY <1>2, <2>1, PermissionRefused
  <2> QED
    BY <1>1, <1>3, <2>2, ForbiddenAccount
<1>4. ASSUME NEW share \in found
      PROVE  /\ share.permission \in Seen(w)
             /\ share.permission \in SharePermission
  <2>1. share.permission \in Seen(w)
    BY <1>1, <1>2, LevelOfSharee
  <2>2. share.permission \in SharePermission
    BY <1>1 DEF shares_of, IInv, TypeOK, TypedDatabase, TaskShare
  <2> QED
    BY <2>1, <2>2
<1>5. ASSUME NEW share \in found, share.permission \in SufficientShares(r.op),
             Continue(w, Permitted(r.op))
      PROVE  Account(w)'
  <2>1. Permitted(r.op) \in {"read_task", "update_task"}
    BY <1>2 DEF Permitted
  <2>2. Seen(w) \cap ({"owner"} \cup SufficientShares(r.op)) # {}
    BY <1>4, <1>5
  <2>3. Progress(Permitted(r.op), r, caller[w], target[w], Seen(w))
    BY <1>1, <1>2, <2>1, <2>2 DEF Progress, AfterOwner, AfterTarget
  <2> QED
    BY <1>1, <1>5, <2>1, <2>3, ContinueAccount
<1>6. ASSUME NEW share \in found, share.permission \notin SufficientShares(r.op),
             Answer(w, into_http_response("Forbidden"))
      PROVE  Account(w)'
  <2>1. r.op = "update_task_by_id" /\ share.permission = "read"
    BY <1>2, <1>4, <1>6 DEF SufficientShares, SharePermission
  <2>2. RefusalJustified(r.op, 403, Seen(w))
    BY <1>4, <2>1, PermissionRefused
  <2> QED
    BY <1>1, <1>6, <2>2, ForbiddenAccount
<1> QED
  BY <1>3, <1>5, <1>6 DEF LoadShare

LEMMA ReadTaskAccount ==
  ASSUME AInv, Observe, NEW w \in Workers, ReadTask(w)
  PROVE  Account(w)'
<1> DEFINE r == request[w]
           exact == {t \in tasks : t.id = r.task}
<1>1. /\ Busy(w) /\ IInv /\ r \in Requests /\ pc[w] \in Statements(r.op)
      /\ UNCHANGED request /\ minted \subseteq minted' /\ pc[w] = "read_task"
      /\ Progress("read_task", r, caller[w], target[w], facts[w])
  BY Serves DEF ReadTask, Busy, database
<1>2. r.op = "get_task_by_id" /\ "key_works" \in Seen(w) /\ caller[w] # None
  BY <1>1, ServedOperation, ServesCaller, CallerIsKnown DEF AfterCaller
<1>3. Seen(w) \cap {"read", "read_write", "owner"} # {}
  BY <1>1, <1>2 DEF Progress, SufficientShares, Seen
<1>4. GrantJustified(r.op, Seen(w))
  BY <1>2, <1>3 DEF GrantJustified, ShareOps, NamingOps
<1>5. exact \in Shown(w)
  BY <1>2 DEF Shown, ViewNow
<1>6. PICK task \in get_task_by_id(r.task) : Answer(w, Response(200, {task}))
  BY DEF ReadTask
<1>7. {task} = exact
  BY <1>1 DEF get_task_by_id, IInv, Integrity, ConsistentDatabase, PrimaryKey
<1> HIDE DEF exact
<1> QED
  BY <1>1, <1>4, <1>5, <1>6, <1>7, ReadAccount

LEMMA UpdateTaskAccount ==
  ASSUME AInv, Observe, NEW w \in Workers, UpdateTask(w)
  PROVE  Account(w)'
<1> DEFINE r == request[w]
<1>1. /\ Busy(w) /\ r \in Requests /\ pc[w] \in Statements(r.op)
      /\ UNCHANGED <<request, minted>> /\ pc[w] = "update_task"
      /\ Progress("update_task", r, caller[w], target[w], facts[w])
      /\ AnswerWrite(w, Response(200, {}))
  BY Serves DEF UpdateTask, Busy, update_task
<1>2. r.op = "update_task_by_id" /\ "key_works" \in Seen(w)
  BY <1>1, ServedOperation, ServesCaller DEF AfterCaller
<1>3. Seen(w) \cap {"read_write", "owner"} # {}
  BY <1>1, <1>2 DEF Progress, SufficientShares, Seen
<1>4. GrantJustified(r.op, Seen(w))
  BY <1>2, <1>3 DEF GrantJustified, ShareOps, NamingOps
<1>5. Justified(r, Response(200, {}), Seen(w), Shown(w))
  <2>1. r.op \notin {"get_tasks", "get_task_by_id", "get_task_shares"}
    BY <1>2
  <2>2. 200 \in Success
    BY DEF Success
  <2> QED
    BY <1>4, <2>1, <2>2, GrantsAreJustified
<1>6. Response(200, {}).status = 200
  BY DEF Response
<1>7. answer'[w] = Response(200, {}) => WritesHold(w)'
  BY <1>6 DEF WritesHold, Answered
<1> QED
  BY <1>1, <1>5, <1>7, WriteAccount

------------------------------------------------------------------------------
(***************************************************************************)
(* Shares.                                                                 *)
(***************************************************************************)
LEMMA CheckOwnerAccount ==
  ASSUME AInv, Observe, NEW w \in Workers, CheckOwner(w)
  PROVE  Account(w)'
<1> DEFINE r == request[w]
           owned == require_task_owner(caller[w].id, r.task)
           l == IF r.op = "get_task_shares" THEN "list_shares" ELSE "find_target"
<1>1. /\ Busy(w) /\ IInv /\ r \in Requests /\ pc[w] \in Statements(r.op)
      /\ UNCHANGED <<request, caller, target, database>> /\ minted \subseteq minted'
      /\ pc[w] = "check_owner" /\ Sendable(r)
  BY Serves DEF CheckOwner, Busy, database
<1>2. /\ r.op \in ShareOps
      /\ "key_works" \in Seen(w) /\ Level(caller[w].id, r.task) \in Seen(w)
  BY <1>1, KeyedStatements, ServesCaller DEF AfterCaller, TaskOps, ShareOps
<1>3. CASE owned = {} /\ Answer(w, into_http_response("Forbidden"))
  <2>1. Level(caller[w].id, r.task) \in {"missing", "stranger", "read", "read_write"}
    BY <1>1, <1>3, LevelOfOthers
  <2>2. RefusalJustified(r.op, 403, Seen(w))
    BY <1>2, <2>1, PermissionRefused
  <2> QED
    BY <1>1, <1>3, <2>2, ForbiddenAccount
<1>4. CASE owned # {} /\ Continue(w, l)
  <2>1. PICK t \in tasks : t.id = r.task /\ t.owner = caller[w].id
    BY <1>4 DEF require_task_owner, get_task_by_id
  <2>2. "owner" \in Seen(w)
    BY <1>1, <1>2, <2>1, LevelOfOwner
  <2>3. l \in {"list_shares", "find_target"}
    OBVIOUS
  <2> HIDE DEF l
  <2>4. Progress(l, r, caller[w], target[w], Seen(w))
    BY <1>1, <1>2, <2>2, <2>3 DEF Progress, AfterTarget
  <2> QED
    BY <1>1, <1>4, <2>3, <2>4, ContinueAccount
<1> QED
  BY <1>3, <1>4 DEF CheckOwner

\* Each share has one user, whether the query joins or the reader chooses.
LEMMA JoinedShares ==
  ASSUME IInv, NEW task
  PROVE  list_shares_for_task(task) =
           {[id |-> s.id, permission |-> s.permission,
             username |-> (CHOOSE u \in users : u.id = s.user_id).username]
            : s \in {s \in task_shares : s.task_id = task}}
<1> DEFINE its_user(s) == CHOOSE u \in users : u.id = s.user_id
           entry(s) == [id |-> s.id, permission |-> s.permission,
                        username |-> its_user(s).username]
<1>1. ASSUME NEW s \in task_shares
      PROVE  its_user(s) \in users /\ its_user(s).id = s.user_id
  BY DEF IInv, Integrity, ConsistentDatabase, SharesReferToUsers
<1>2. ASSUME NEW s \in task_shares, NEW u \in users, u.id = s.user_id
      PROVE  u = its_user(s)
  BY <1>1, <1>2 DEF IInv, Integrity, ConsistentDatabase, PrimaryKey
<1>3. ASSUME NEW s \in task_shares
      PROVE  Share(s, its_user(s)) = entry(s)
  BY DEF Share
<1> HIDE DEF its_user, entry
<1>4. ASSUME NEW p \in with_its_user(task)
      PROVE  \E s \in task_shares : s.task_id = task /\ Share(p[1], p[2]) = entry(s)
  <2>1. p[1] \in task_shares /\ p[2] \in users /\ p[1].task_id = task
        /\ p[1].user_id = p[2].id
    BY DEF with_its_user
  <2> QED
    BY <2>1, <1>2, <1>3
<1>5. ASSUME NEW s \in task_shares, s.task_id = task
      PROVE  \E p \in with_its_user(task) : Share(p[1], p[2]) = entry(s)
  <2> DEFINE p == <<s, its_user(s)>>
  <2>1. p \in task_shares \X users /\ p[1] = s /\ p[2] = its_user(s)
    BY <1>1
  <2>2. p \in with_its_user(task)
    BY <1>1, <1>5, <2>1 DEF with_its_user
  <2>3. Share(p[1], p[2]) = entry(s)
    BY <1>3, <2>1
  <2> QED
    BY <2>2, <2>3
<1>6. list_shares_for_task(task) =
        {entry(s) : s \in {s \in task_shares : s.task_id = task}}
  BY <1>4, <1>5 DEF list_shares_for_task
<1> QED
  BY <1>6 DEF entry, its_user

LEMMA ListSharesAccount ==
  ASSUME AInv, Observe, NEW w \in Workers, ListShares(w)
  PROVE  Account(w)'
<1> DEFINE r == request[w]
<1>1. /\ Busy(w) /\ IInv /\ r \in Requests /\ pc[w] \in Statements(r.op)
      /\ UNCHANGED request /\ minted \subseteq minted' /\ pc[w] = "list_shares"
      /\ Progress("list_shares", r, caller[w], target[w], facts[w])
      /\ Answer(w, Response(200, list_shares_for_task(r.task)))
  BY Serves DEF ListShares, Busy, database
<1>2. r.op = "get_task_shares" /\ "key_works" \in Seen(w) /\ caller[w] # None
  BY <1>1, ServedOperation, ServesCaller, CallerIsKnown DEF AfterCaller, AfterOwner
<1>3. GrantJustified(r.op, Seen(w))
  BY <1>1, <1>2 DEF GrantJustified, NamingOps, Progress, AfterOwner, Seen
<1>4. list_shares_for_task(r.task) \in Shown(w)
  BY <1>1, <1>2, JoinedShares DEF Shown, ViewNow
<1> QED
  BY <1>1, <1>3, <1>4, ReadAccount

LEMMA FindTargetAccount ==
  ASSUME AInv, Observe, NEW w \in Workers, FindTarget(w)
  PROVE  Account(w)'
<1> DEFINE r == request[w]
           l == IF r.op = "put_share" THEN "upsert_share" ELSE "delete_share"
<1>1. /\ Busy(w) /\ IInv /\ r \in Requests /\ pc[w] \in Statements(r.op)
      /\ UNCHANGED <<request, caller, database>> /\ minted \subseteq minted'
      /\ pc[w] = "find_target" /\ Sendable(r)
      /\ Progress("find_target", r, caller[w], target[w], facts[w])
  BY Serves DEF FindTarget, Busy, database
<1>2. /\ r.op \in {"put_share", "delete_share"} /\ r.op \in NamingOps
      /\ "key_works" \in Seen(w) /\ "owner" \in Seen(w)
  <2>1. r.op \in {"put_share", "delete_share"} /\ r.op \in NamingOps
    BY <1>1, ServedOperation DEF NamingOps
  <2>2. pc[w] \in AfterCaller /\ "find_target" \in AfterOwner
    BY <1>1 DEF AfterCaller, AfterOwner
  <2>3. "key_works" \in Seen(w)
    BY <1>1, <2>2, ServesCaller
  <2> QED
    BY <1>1, <2>1, <2>2, <2>3 DEF Progress, Seen
<1>3. CASE get_user_by_name(r.username) = {}
           /\ Answer(w, into_http_response("NotFound"))
  <2> DEFINE a == into_http_response("NotFound")
  <2>1. "unnamed" \in Seen(w)
    BY <1>2, <1>3, NameFact DEF get_user_by_name
  <2>2. RefusalJustified(r.op, 404, Seen(w))
    BY <1>2, <2>1, NameRefused
  <2>3. SaysNothing(r.op, a, Seen(w))
    BY <1>2 DEF SaysNothing, ShareOps
  <2>4. a.status = 404 /\ Answer(w, a)
    BY <1>3, ErrorAnswers
  <2> HIDE DEF a
  <2> QED
    BY <1>1, <2>2, <2>3, <2>4, RefusalAccount
<1>4. ASSUME NEW user \in get_user_by_name(r.username),
             target' = [target EXCEPT ![w] = user], Continue(w, l)
      PROVE  Account(w)'
  <2>1. user \in users /\ user.username = r.username
    BY DEF get_user_by_name
  <2>2. "named" \in Seen(w)
    BY <1>2, <2>1, NameFact
  <2>3. l \in {"upsert_share", "delete_share"}
    OBVIOUS
  <2> HIDE DEF l
  <2>4. Progress(l, r, caller[w], user, Seen(w))
    BY <1>1, <1>2, <2>1, <2>2, <2>3 DEF Progress
  <2>5. target'[w] = user /\ caller'[w] = caller[w]
    BY <1>1, <1>4 DEF IInv, TypeOK
  <2> QED
    BY <1>1, <1>4, <2>3, <2>4, <2>5, ContinueAccount
<1> QED
  BY <1>3, <1>4 DEF FindTarget

\* The two writes of shares: the owner and the name were observed, and nothing
\* is promised about the row afterwards.
LEMMA ShareWriteAccount ==
  ASSUME AInv, Observe, NEW w \in Workers, Busy(w),
         pc[w] \in {"upsert_share", "delete_share"},
         NEW body, NEW status \in Success, AnswerWrite(w, Response(status, body)),
         UNCHANGED <<request, minted>>
  PROVE  Account(w)'
<1> DEFINE r == request[w]
           a == Response(status, body)
<1>1. /\ r \in Requests /\ pc[w] \in Statements(r.op)
      /\ Progress(pc[w], r, caller[w], target[w], facts[w])
  BY Serves
<1>2. /\ r.op \in {"put_share", "delete_share"} /\ "key_works" \in Seen(w)
      /\ "owner" \in Seen(w) /\ "named" \in Seen(w)
  <2>1. r.op \in {"put_share", "delete_share"}
    BY <1>1, ServedOperation
  <2>2. pc[w] \in AfterCaller /\ pc[w] \in AfterOwner /\ pc[w] \in AfterTarget
    BY DEF AfterCaller, AfterOwner, AfterTarget
  <2>3. "key_works" \in Seen(w)
    BY <2>2, ServesCaller
  <2> QED
    BY <1>1, <2>1, <2>2, <2>3 DEF Progress, Seen
<1>3. GrantJustified(r.op, Seen(w))
  BY <1>2 DEF GrantJustified
<1>4. Justified(r, a, Seen(w), Shown(w))
  BY <1>2, <1>3, GrantsAreJustified
<1>5. ASSUME request'[w] = r
      PROVE  WritesHold(w)'
  <2>1. HoldsOn(request[w], caller[w], answer[w].body)'
    BY <1>2, <1>5 DEF HoldsOn, WriteHolds
  <2> QED
    BY <2>1 DEF WritesHold
<1> HIDE DEF a
<1> QED
  BY <1>4, <1>5, WriteAccount DEF a

LEMMA UpsertShareAccount ==
  ASSUME AInv, Observe, NEW w \in Workers, UpsertShare(w)
  PROVE  Account(w)'
<1>1. /\ Busy(w) /\ pc[w] = "upsert_share" /\ UNCHANGED <<request, minted>>
  BY DEF UpsertShare, Busy, insert_share, replace_share
<1>2. 200 \in Success /\ 201 \in Success
  BY DEF Success
<1>3. \E body : \E status \in Success : AnswerWrite(w, Response(status, body))
  <2> DEFINE present == conflict(request[w].task, target[w].id)
             row == [id |-> next_id("task_shares"), task_id |-> request[w].task,
                     user_id |-> target[w].id,
                     permission |-> request[w].permission]
             body(id) == {Share([row EXCEPT !.id = id], target[w])}
  <2>1. \/ AnswerWrite(w, Response(201, {Share(row, target[w])}))
        \/ \E share \in present : AnswerWrite(w, Response(200, body(share.id)))
    BY DEF UpsertShare
  <2> HIDE DEF present, row, body
  <2> QED
    BY <1>2, <2>1
<1> QED
  BY <1>1, <1>3, ShareWriteAccount

LEMMA DeleteShareAccount ==
  ASSUME AInv, Observe, NEW w \in Workers, DeleteShare(w)
  PROVE  Account(w)'
<1>1. /\ Busy(w) /\ pc[w] = "delete_share" /\ UNCHANGED <<request, minted>>
      /\ AnswerWrite(w, Response(204, {}))
  BY DEF DeleteShare, Busy, delete_share
<1> QED
  BY <1>1, ShareWriteAccount DEF Success

------------------------------------------------------------------------------
(***************************************************************************)
(* The steps which are no statement, and the workers which take no step.   *)
(***************************************************************************)
LEMMA StatementAccount ==
  ASSUME AInv, Observe, NEW w \in Workers, Statement(w), minted \subseteq minted'
  PROVE  Account(w)'
BY AuthenticateAccount, InsertUserAccount, FindAccountAccount, InsertKeyAccount,
   DeleteKeyAccount, FindUserAccount, ListTasksAccount, InsertTaskAccount,
   LoadTaskAccount, LoadShareAccount, ReadTaskAccount, UpdateTaskAccount,
   CheckOwnerAccount, ListSharesAccount, FindTargetAccount, UpsertShareAccount,
   DeleteShareAccount
   DEF Statement

LEMMA ReceiveAccount ==
  ASSUME AInv, Observe, NEW w \in Workers, Receive(w)
  PROVE  Account(w)'
<1>1. PICK r \in Requests :
        /\ Sendable(r) /\ request' = [request EXCEPT ![w] = r]
        /\ \/ Answer(w, into_http_response("InvalidData"))
           \/ Continue(w, FirstStatement(r.op))
        /\ UNCHANGED database
  BY DEF Receive, Begin
<1>2. request'[w] = r /\ minted' = minted
  BY <1>1 DEF AInv, IInv, TypeOK, database
<1>3. Sendable(request[w])'
  BY <1>1, <1>2 DEF Sendable
<1>4. CASE Answer(w, into_http_response("InvalidData"))
  <2>1. pc'[w] = "answered" /\ answer'[w] = into_http_response("InvalidData")
    BY <1>4 DEF Answer, AInv, IInv, TypeOK
  <2>2. Progress(pc[w], request[w], caller[w], target[w], facts[w])'
    BY <1>3, <2>1 DEF Progress, AfterCaller, AfterOwner, AfterTarget
  <2>3. Justified(request'[w], answer'[w], facts'[w], views'[w])
    BY <2>1, FailuresAreJustified
  <2>4. Justified(request[w], answer[w], facts[w], views[w])'
    BY <2>3 DEF Justified
  <2>5. WritesHold(w)'
    BY <2>1, ErrorAnswers DEF WritesHold, Answered
  <2> QED
    BY <2>2, <2>4, <2>5 DEF Account
<1>5. CASE Continue(w, FirstStatement(r.op))
  <2> DEFINE l == FirstStatement(r.op)
  <2>1. l \in {"insert_user", "find_account", "delete_key", "authenticate"}
    BY DEF FirstStatement
  <2> HIDE DEF l
  <2>2. pc'[w] = l
    BY <1>5 DEF Continue, AInv, IInv, TypeOK, l
  <2>3. Progress(pc[w], request[w], caller[w], target[w], facts[w])'
    BY <1>3, <2>1, <2>2 DEF Progress, AfterCaller, AfterOwner, AfterTarget
  <2> QED
    BY <2>1, <2>2, <2>3 DEF Account, WritesHold, Answered
<1> QED
  BY <1>1, <1>4, <1>5

\* An idle worker has nothing to account for.
LEMMA IdleAccount ==
  ASSUME NEW w \in Workers, pc'[w] = "idle"
  PROVE  Account(w)'
BY DEF Account, Progress, WritesHold, Answered, AfterCaller, AfterOwner, AfterTarget

\* A worker which waits still accounts for what it did: what it has observed
\* stays observed, and what its confirmed write relies on stays in the database.
LEMMA WaitingAccount ==
  ASSUME AInv, Observe, Durable, NEW w \in Workers,
         pc'[w] = pc[w], request'[w] = request[w], caller'[w] = caller[w],
         target'[w] = target[w], answer'[w] = answer[w]
  PROVE  Account(w)'
<1>1. CASE pc[w] = "idle"
  BY <1>1, IdleAccount
<1>2. CASE pc[w] # "idle"
  <2>1. facts[w] \subseteq facts'[w]
    BY <1>2 DEF Observe
  <2>2. pc[w] = "answered" => facts'[w] = facts[w] /\ views'[w] = views[w]
    BY DEF Observe, Busy
  <2>3. Account(w)
    BY DEF AInv
  <2>4. Sendable(request[w]) /\ Sendable(request[w])'
    BY <1>2, <2>3 DEF Account, Progress, Sendable, Durable
  <2>5. pc[w] = "load_share" =>
          \E t \in tasks' : t.id = request'[w].task /\ t.owner # caller'[w].id
    BY <2>3 DEF Account, Progress, Durable, Lasting
  <2>6. Progress(pc[w], request[w], caller[w], target[w], facts[w])'
    BY <2>1, <2>3, <2>4, <2>5 DEF Account, Progress
  <2>7. (pc[w] = "answered" => Justified(request[w], answer[w], facts[w], views[w]))'
    BY <2>2, <2>3 DEF Account, Justified
  <2>8. ASSUME Answered(w, {201, 204})
        PROVE  HoldsOn(request[w], caller[w], answer[w].body)'
    <3> DEFINE r == request[w]
    <3>1. HoldsOn(r, caller[w], answer[w].body)
      BY <2>3, <2>8 DEF Account, WritesHold
    <3>2. r.op = "delete_auth_key" => r.key \in minted \cup OtherKeys
      <4>1. r \in Requests
        BY <2>8 DEF Answered, AInv, IInv, TypeOK, ThreadOK
      <4>2. r.op = "delete_auth_key" => r \in KeyOnly
        BY <4>1, RequestKinds
      <4>3. r \in KeyOnly => "key" \in DOMAIN r
        BY DEF KeyOnly
      <4> QED
        BY <4>2, <4>3, <2>4 DEF Sendable
    <3>3. CASE r.op = "create_user"
      BY <3>1, <3>3 DEF HoldsOn, WriteHolds, Durable, Lasting
    <3>4. CASE r.op = "create_auth_key"
      <4>1. ASSUME NEW b \in answer[w].body
            PROVE  /\ b.auth_key \in minted'
                   /\ \A k \in auth_keys' : k.key = b.auth_key =>
                        /\ k.id = b.id
                        /\ \E u \in users' : u.id = k.user_id
                                             /\ u.username = r.username
        BY <3>1, <3>4 DEF HoldsOn, WriteHolds, Durable, Lasting
      <4> QED
        BY <4>1, <3>4 DEF HoldsOn, WriteHolds
    <3>5. CASE r.op = "add_task"
      <4>1. ASSUME NEW b \in answer[w].body
            PROVE  \E t \in tasks' : t.id = b.id /\ t.owner = caller[w].id
        BY <3>1, <3>5 DEF HoldsOn, WriteHolds, Durable, Lasting
      <4> QED
        BY <4>1, <3>5 DEF HoldsOn, WriteHolds
    <3>6. CASE r.op = "delete_auth_key"
      <4>1. \A k \in auth_keys' : k.key # r.key
        BY <3>1, <3>2, <3>6 DEF HoldsOn, Durable
      <4> QED
        BY <4>1, <3>6 DEF HoldsOn, WriteHolds, KeyWorks
    <3> QED
      BY <3>3, <3>4, <3>5, <3>6 DEF HoldsOn, WriteHolds
  <2>9. WritesHold(w)'
    BY <2>8 DEF WritesHold, Answered
  <2> QED
    BY <2>6, <2>7, <2>9 DEF Account
<1> QED
  BY <1>1, <1>2

LEMMA AuditedStep ==
  ASSUME AInv, [AuditNext]_auditVars
  PROVE  AInv'
<1>1. IInv /\ [Next]_vars
  BY DEF AInv, AuditNext, auditVars
<1>2. IInv' /\ Durable
  BY <1>1, NextKeepsIInv, StepsAreDurable
<1>3. ASSUME Observe, NEW w \in Workers,
             Receive(w) \/ Statement(w) \/ Fail(w) \/ Deliver(w)
      PROVE  \A v \in Workers : Account(v)'
  <2>1. OthersWait(w)
    BY <1>1, <1>3, OthersWaitForOne
  <2>2. \A v \in Workers \ {w} : Account(v)'
    BY <1>2, <1>3, <2>1, WaitingAccount DEF OthersWait
  <2>3. ASSUME Receive(w) \/ Statement(w) \/ Fail(w)
        PROVE  Account(w)'
    BY <1>2, <1>3, <2>3, ReceiveAccount, StatementAccount, FailAccount DEF Durable
  <2>4. ASSUME Deliver(w)
        PROVE  Account(w)'
    <3>1. pc'[w] = "idle"
      BY <2>4, <1>1 DEF Deliver, Reset, IInv, TypeOK
    <3> QED
      BY <3>1, IdleAccount
  <2> QED
    BY <1>3, <2>2, <2>3, <2>4
<1>4. CASE Crash
  <2>1. \A w \in Workers : pc'[w] = "idle"
    BY <1>4 DEF Crash
  <2> QED
    BY <1>2, <2>1, IdleAccount DEF AInv
<1>5. CASE PassTime /\ Observe
  BY <1>2, <1>5, WaitingAccount DEF PassTime, threads, AInv
<1>6. CASE UNCHANGED auditVars
  <2>1. UNCHANGED <<users, auth_keys, tasks, minted, now, pc, request, caller, target,
                    answer, facts, views>>
    BY <1>6 DEF auditVars, vars, database
  <2>2. ASSUME NEW w \in Workers
        PROVE  Account(w)'
    <3>1. Account(w)
      BY DEF AInv
    <3>2. Progress(pc[w], request[w], caller[w], target[w], facts[w])'
      BY <2>1, <3>1 DEF Account, Progress, Sendable
    <3>3. (pc[w] = "answered" => Justified(request[w], answer[w], facts[w], views[w]))'
      BY <2>1, <3>1 DEF Account, Justified
    <3>4. WritesHold(w)'
      BY <2>1, <3>1 DEF Account, WritesHold, Answered, HoldsOn, WriteHolds, KeyWorks
    <3> QED
      BY <3>2, <3>3, <3>4 DEF Account
  <2> QED
    BY <1>2, <2>2 DEF AInv
<1>7. CASE AuditNext
  BY <1>2, <1>3, <1>4, <1>5, <1>7 DEF AuditNext, Next, AInv
<1> QED
  BY <1>6, <1>7

LEMMA AuditStarts ==
  ASSUME AuditInit
  PROVE  AInv
<1>1. IInv
  BY InitialIInv DEF AuditInit
<1>2. \A w \in Workers : pc[w] = "idle"
  BY DEF AuditInit, Init
<1>3. \A w \in Workers : Account(w)
  BY <1>2 DEF Account, Progress, WritesHold, Answered, AfterCaller, AfterOwner,
     AfterTarget
<1> QED
  BY <1>1, <1>3 DEF AInv

------------------------------------------------------------------------------
(***************************************************************************)
(* The promises about answers.                                             *)
(***************************************************************************)
\* Every worker accounts for what it does: whatever it does next, it has
\* observed what allows it.
THEOREM Audited == AuditSpec => []AInv
<1>1. AuditInit => AInv
  BY AuditStarts
<1>2. AInv /\ [AuditNext]_auditVars => AInv'
  BY AuditedStep
<1> QED
  BY <1>1, <1>2, PTL DEF AuditSpec

\* A success had its key, its permission and its named user while the request
\* was under way, for any interleaving of any number of workers.
THEOREM GrantsAreRight == AuditSpec => []GrantsJustified
<1>1. AInv => GrantsJustified
  BY DEF AInv, Account, Justified, GrantsJustified, Answered
<1> QED
  BY <1>1, Audited, PTL

\* A refusal names something which was true while the request was under way.
THEOREM RefusalsAreRight == AuditSpec => []RefusalsJustified
<1>1. AInv => RefusalsJustified
  BY DEF AInv, Account, Justified, RefusalsJustified
<1> QED
  BY <1>1, Audited, PTL

\* Who may not read a task cannot tell it from one which does not exist.
THEOREM TasksAreHidden == AuditSpec => []TaskExistenceHidden
<1>1. AInv => TaskExistenceHidden
  BY DEF AInv, Account, Justified, TaskExistenceHidden
<1> QED
  BY <1>1, Audited, PTL

\* What a read shows is the exact collection at one moment of the request.
THEOREM ReadsAreExact == AuditSpec => []ReadsAreSnapshots
<1>1. AInv => ReadsAreSnapshots
  BY DEF AInv, Account, Justified, ReadsAreSnapshots, Answered
<1> QED
  BY <1>1, Audited, PTL

\* What a 201 created and what a 204 revoked holds from then on.
THEOREM ConfirmedWritesAreKept == AuditSpec => []ConfirmedWritesHold
<1>1. AInv => ConfirmedWritesHold
  BY DEF AInv, Account, WritesHold, HoldsOn, ConfirmedWritesHold
<1> QED
  BY <1>1, Audited, PTL

------------------------------------------------------------------------------
(***************************************************************************)
(* The promises about steps.                                               *)
(***************************************************************************)
\* Accounts and tasks are never taken away, a task keeps its owner, and a key
\* which was drawn before never comes back.
THEOREM NothingTaken == AuditSpec => NothingIsTakenAway
<1>1. AInv /\ [AuditNext]_auditVars =>
        [/\ users \subseteq users'
         /\ \A t \in tasks : \E u \in tasks' : TaskStays(t, u)
         /\ \A k \in auth_keys' : k \in auth_keys \/ k.key \notin minted]_auditVars
  <2> SUFFICES ASSUME AInv, [AuditNext]_auditVars
               PROVE  /\ users \subseteq users'
                      /\ \A t \in tasks : \E u \in tasks' : TaskStays(t, u)
                      /\ \A k \in auth_keys' : k \in auth_keys \/ k.key \notin minted
    OBVIOUS
  <2>1. IInv /\ [Next]_vars
    BY DEF AInv, AuditNext, auditVars
  <2> QED
    BY <2>1, StepsAreDurable DEF Durable, Lasting, TaskStays
<1> QED
  BY <1>1, Audited, PTL DEF AuditSpec, NothingIsTakenAway

\* A statement ends with an answer.
LEMMA WritersAnswer ==
  ASSUME IInv, NEW w \in Workers,
         UpdateTask(w) \/ UpsertShare(w) \/ DeleteShare(w)
  PROVE  pc'[w] = "answered"
BY DEF UpdateTask, UpsertShare, DeleteShare, AnswerWrite, Answer, IInv, TypeOK

\* Only the handler of a PATCH changes a task.
LEMMA OnlyUpdatesEdit ==
  ASSUME IInv, [Next]_vars, NEW t \in tasks, NEW u \in tasks', t.id = u.id, t # u
  PROVE  \E w \in Workers : /\ UpdateTask(w) /\ request[w].task = t.id
                            /\ u = changed(t, request[w])
<1>1. \A v \in tasks : v.id = t.id => v = t
  BY DEF IInv, Integrity, ConsistentDatabase, PrimaryKey
<1>2. u \notin tasks
  BY <1>1
<1>3. ~UNCHANGED Rows
  BY <1>2 DEF Rows
<1>4. PICK w \in Workers : Writing(w)
  BY <1>3, OnlyStatementsWrite
<1>5. CASE InsertTask(w)
  <2>1. u.id = next_id("tasks")
    BY <1>2, <1>5 DEF InsertTask, insert_task
  <2>2. t.id < next_id("tasks") /\ t.id \in Nat
    BY IInvWellFormed, IdsAreNumbers
       DEF IInv, Integrity, ConsistentDatabase, PrimaryKey, next_id
  <2> QED
    BY <2>1, <2>2
<1>6. CASE UpdateTask(w)
  <2> DEFINE r == request[w]
             after(v) == IF v.id = r.task THEN changed(v, r) ELSE v
  <2>1. r \in UpdateTaskPayload /\ ~Invalid(r)
    BY <1>6, Serving, OperationAt DEF UpdateTask, Busy
  <2>2. Changes(r)
    BY <2>1 DEF UpdateTaskPayload, Invalid, Changes
  <2>3. ASSUME NEW v \in tasks
        PROVE  after(v).id = v.id
    BY <2>2, ChangedTask DEF IInv, TypeOK, TypedDatabase
  <2>4. PICK v \in tasks : u = after(v)
    BY <1>6 DEF UpdateTask, update_task
  <2>5. v = t
    BY <2>3, <2>4, <1>1
  <2>6. t.id = r.task /\ u = changed(t, r)
    BY <2>4, <2>5, <1>2
  <2> QED
    BY <1>6, <2>6
<1>7. CASE InsertUser(w) \/ InsertKey(w) \/ DeleteKey(w) \/ UpsertShare(w)
           \/ DeleteShare(w)
  BY <1>2, <1>7 DEF InsertUser, InsertKey, DeleteKey, UpsertShare, DeleteShare,
     insert_user, DrawUserId, insert_auth_key, revoke_auth_key, insert_share,
     replace_share, delete_share, database
<1> QED
  BY <1>4, <1>5, <1>6, <1>7 DEF Writing

\* A task is edited only by somebody who could write it, and only as asked.
THEOREM EditsAreRight == AuditSpec => EditsAuthorizedAndNarrow
<1>1. AInv /\ [AuditNext]_auditVars =>
        [\A t \in tasks : \A u \in tasks' : t.id = u.id /\ t # u =>
           \E w \in Workers :
             /\ Steps(w, "update_task") /\ request[w].task = t.id
             /\ facts'[w] \cap {"read_write", "owner"} # {}
             /\ u.title \in Edited(t.title, request[w].title)
             /\ u.description \in Edited(t.description, request[w].description)
             /\ u.completed \in Edited(t.completed, request[w].completed)]_auditVars
  <2> SUFFICES ASSUME AInv, AuditNext,
                      NEW t \in tasks, NEW u \in tasks', t.id = u.id, t # u
               PROVE  \E w \in Workers :
                        /\ Steps(w, "update_task") /\ request[w].task = t.id
                        /\ facts'[w] \cap {"read_write", "owner"} # {}
                        /\ u.title \in Edited(t.title, request[w].title)
                        /\ u.description \in Edited(t.description, request[w].description)
                        /\ u.completed \in Edited(t.completed, request[w].completed)
    OBVIOUS
  <2>1. IInv /\ [Next]_vars /\ Observe
    BY DEF AInv, AuditNext
  <2>2. PICK w \in Workers : /\ UpdateTask(w) /\ request[w].task = t.id
                             /\ u = changed(t, request[w])
    BY <2>1, OnlyUpdatesEdit
  <2>3. pc[w] = "update_task" /\ pc'[w] = "answered"
    BY <2>1, <2>2, WritersAnswer DEF UpdateTask
  <2>4. facts'[w] = Seen(w) /\ Busy(w)
    BY <2>1, <2>3 DEF Observe, Busy, Seen
  <2>5. request[w].op = "update_task_by_id"
    BY <2>3, <2>4, Serves, ServedOperation
  <2>6. Seen(w) \cap {"read_write", "owner"} # {}
    BY <2>3, <2>4, <2>5, Serves DEF Progress, SufficientShares, Seen
  <2>7. t \in Task
    BY <2>1 DEF IInv, TypeOK, TypedDatabase
  <2>8. /\ u.title \in Edited(t.title, request[w].title)
        /\ u.description \in Edited(t.description, request[w].description)
        /\ u.completed \in Edited(t.completed, request[w].completed)
    BY <2>2, <2>7 DEF changed, Edited, Task
  <2> QED
    BY <2>2, <2>3, <2>4, <2>6, <2>8 DEF Steps
<1> QED
  BY <1>1, Audited, PTL DEF AuditSpec, EditsAuthorizedAndNarrow

\* Only the two handlers which write shares do, for their caller's task and for
\* the user the request names.
THEOREM SharesBelongToOwners == AuditSpec => OnlyOwnersShare
<1> DEFINE ByOwner(w, s) ==
      /\ Steps(w, "upsert_share") \/ Steps(w, "delete_share")
      /\ request[w].task = s.task_id
      /\ \E u \in users : u.id = s.user_id /\ u.username = request[w].username
      /\ \E t \in tasks : t.id = s.task_id /\ t.owner = caller[w].id
<1>1. AInv /\ [AuditNext]_auditVars =>
        [\A s \in (task_shares \ task_shares') \cup (task_shares' \ task_shares) :
           \E w \in Workers : ByOwner(w, s)]_auditVars
  <2> SUFFICES ASSUME AInv, AuditNext,
                      NEW s \in (task_shares \ task_shares')
                                  \cup (task_shares' \ task_shares)
               PROVE  \E w \in Workers : ByOwner(w, s)
    OBVIOUS
  <2>1. IInv /\ [Next]_vars
    BY DEF AInv, AuditNext
  <2>2. ~UNCHANGED Rows
    BY DEF Rows
  <2>3. PICK w \in Workers : Writing(w)
    BY <2>1, <2>2, OnlyStatementsWrite
  <2>4. UpsertShare(w) \/ DeleteShare(w)
    BY <2>3 DEF Writing, InsertUser, InsertKey, DeleteKey, InsertTask, UpdateTask,
       insert_user, DrawUserId, insert_auth_key, revoke_auth_key, insert_task,
       update_task, database
  <2>5. /\ pc[w] \in {"upsert_share", "delete_share"} /\ pc'[w] = "answered"
        /\ Busy(w)
    BY <2>1, <2>4, WritersAnswer DEF UpsertShare, DeleteShare, Busy
  <2>6. /\ target[w] \in users /\ target[w].username = request[w].username
        /\ \E t \in tasks : t.id = request[w].task /\ t.owner = caller[w].id
    BY <2>5, Serves, Serving DEF Progress, Knowledge, AfterTarget, AfterOwner
  <2>7. \A share \in task_shares : \A p :
          /\ [share EXCEPT !.permission = p].task_id = share.task_id
          /\ [share EXCEPT !.permission = p].user_id = share.user_id
    BY <2>1 DEF IInv, TypeOK, TypedDatabase, TaskShare
  <2>8. ASSUME UpsertShare(w)
        PROVE  s.task_id = request[w].task /\ s.user_id = target[w].id
    <3> DEFINE row == [id |-> next_id("task_shares"), task_id |-> request[w].task,
                       user_id |-> target[w].id,
                       permission |-> request[w].permission]
    <3>1. row.task_id = request[w].task /\ row.user_id = target[w].id
      OBVIOUS
    <3> HIDE DEF row
    <3>2. \/ insert_share(row)
          \/ \E share \in conflict(request[w].task, target[w].id) :
               replace_share(share, request[w].permission)
      BY <2>8 DEF UpsertShare, row
    <3>3. CASE insert_share(row)
      BY <3>1, <3>3 DEF insert_share
    <3>4. ASSUME NEW share \in conflict(request[w].task, target[w].id),
                 replace_share(share, request[w].permission)
          PROVE  s.task_id = request[w].task /\ s.user_id = target[w].id
      <4>1. /\ share \in task_shares
            /\ share.task_id = request[w].task /\ share.user_id = target[w].id
        BY DEF conflict, shares_of
      <4> DEFINE new == [share EXCEPT !.permission = request[w].permission]
      <4>2. new.task_id = share.task_id /\ new.user_id = share.user_id
        BY <2>7, <4>1
      <4> HIDE DEF new
      <4>3. s = share \/ s = new
        BY <3>4 DEF replace_share, new
      <4> QED
        BY <4>1, <4>2, <4>3
    <3> QED
      BY <3>2, <3>3, <3>4
  <2>9. ASSUME DeleteShare(w)
        PROVE  s.task_id = request[w].task /\ s.user_id = target[w].id
    BY <2>9 DEF DeleteShare, delete_share, shares_of
  <2> QED
    BY <2>4, <2>5, <2>6, <2>8, <2>9 DEF Steps
<1> QED
  BY <1>1, Audited, PTL DEF AuditSpec, OnlyOwnersShare

==============================================================================
