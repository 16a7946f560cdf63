-------------------------------- MODULE Retries --------------------------------
(***************************************************************************)
(* Clients which do not give up.  Each client wants one thing and sends    *)
(* the request for it again whenever no answer came in time, or the answer *)
(* was a 500.  A copy it no longer waits for may still be on its way: it   *)
(* is handled late, at the same time as the next copy, or never, and its   *)
(* answer is lost.                                                         *)
(***************************************************************************)
EXTENDS Api, FiniteSets

CONSTANTS
  Clients,
  Goal,         \* the request each client sends
  Patiences     \* BOUND: how often each client may send it, one way or another

ASSUME GoalAssumption ==
  /\ Goal \in [Clients -> Requests]
  /\ None \notin Clients
  /\ Patiences \subseteq [Clients -> Nat]

VARIABLES
  patience,   \* how often each client is ready to send its request
  attempts,   \* how often each client has sent its request
  flying,     \* the copies which no worker has read
  serves,     \* the client each worker serves
  heard       \* the answer each client has settled for

retryVars == <<vars, patience, attempts, flying, serves, heard>>

------------------------------------------------------------------------------
RetryInit ==
  /\ Init
  /\ patience \in Patiences
  /\ attempts = [c \in Clients |-> 0]
  /\ flying = [c \in Clients |-> 0]
  /\ serves = [w \in Workers |-> None]
  /\ heard = [c \in Clients |-> None]

\* The first attempt, or one more: no decided answer came in time.  The key it
\* sends is one the client has been given, or made up.
Try(c) ==
  /\ Sendable(Goal[c])
  /\ heard[c] = None
  /\ attempts[c] < patience[c]
  /\ attempts' = [attempts EXCEPT ![c] = @ + 1]
  /\ flying' = [flying EXCEPT ![c] = @ + 1]
  /\ UNCHANGED <<vars, patience, serves, heard>>

\* A worker reads one of the copies.
Take(w, c) ==
  /\ flying[c] > 0
  /\ Begin(w, Goal[c])
  /\ flying' = [flying EXCEPT ![c] = @ - 1]
  /\ serves' = [serves EXCEPT ![w] = c]
  /\ UNCHANGED <<patience, attempts, heard>>

\* The answer reaches a client which still waits for one, or is lost; a 500
\* does not tell it whether the request was done.
Tell(w) ==
  /\ Deliver(w)
  /\ serves' = [serves EXCEPT ![w] = None]
  /\ \/ UNCHANGED heard
     \/ /\ heard[serves[w]] = None
        /\ answer[w].status # 500
        /\ heard' = [heard EXCEPT ![serves[w]] = answer[w]]
  /\ UNCHANGED <<patience, attempts, flying>>

\* The process dies with the copies it was handling.
Restart ==
  /\ Crash
  /\ serves' = [w \in Workers |-> None]
  /\ UNCHANGED <<patience, attempts, flying, heard>>

RetryNext ==
  \/ \E c \in Clients : Try(c) \/ \E w \in Workers : Take(w, c)
  \/ \E w \in Workers :
       \/ Tell(w)
       \/ (Statement(w) \/ Fail(w)) /\ UNCHANGED <<patience, attempts, flying, serves, heard>>
  \/ Restart

RetrySpec == RetryInit /\ [][RetryNext]_retryVars

------------------------------------------------------------------------------
Idempotent(c) ==
  Goal[c].op \in {"delete_auth_key", "update_task_by_id", "put_share", "delete_share"}

Written(r) ==
  CASE r.op = "delete_auth_key" -> <<"key", r.key>>
    [] r.op = "update_task_by_id" -> <<"task", r.task>>
    [] r.op \in {"put_share", "delete_share"} -> <<"share", r.task, r.username>>
    [] OTHER -> <<>>

\* Nobody else writes what the client writes, or takes its key away.
Undisturbed(c) ==
  \A d \in Clients \ {c} :
    /\ Written(Goal[d]) # Written(Goal[c])
    /\ Goal[d].op = "delete_auth_key" => Goal[d].key # Goal[c].key

\* What the client asked for has been done.
Achieved(c) ==
  LET r == Goal[c] IN
    CASE r.op = "delete_auth_key" -> \A k \in auth_keys : k.key # r.key
      [] r.op = "update_task_by_id" ->
           \E t \in get_task_by_id(r.task) : changed(t, r) = t
      [] r.op \in {"put_share", "delete_share"} ->
           {share.permission : share \in {share \in list_shares_for_task(r.task) :
                                            share.username = r.username}}
             = IF r.op = "put_share" THEN {r.permission} ELSE {}

\* The request is a valid one, of the owner of the task it is about, and names an
\* account which exists.
Entitled(c) ==
  LET r == Goal[c]
      db == InitialDatabase
  IN /\ ~Invalid(r)
     /\ r.op # "delete_auth_key" =>
          \E k \in db.auth_keys, u \in db.users, t \in db.tasks :
            /\ k.key = r.key /\ k.expiration > 0 /\ k.user_id = u.id
            /\ t.id = r.task /\ t.owner = u.id
     /\ r.op \in {"put_share", "delete_share"} =>
          \E u \in db.users : u.username = r.username

\* web_api.rs on DELETE /auth_keys: revoking a key which was already revoked "is
\* answered exactly as the removal which got it there was".  No attempt of a
\* client at something idempotent is refused because an earlier one succeeded.
RetriesAreNotRefused ==
  \A w \in Workers :
    /\ pc[w] = "answered"
    /\ Idempotent(serves[w]) /\ Undisturbed(serves[w]) /\ Entitled(serves[w])
    => answer[w].status \in {200, 201, 204, 500}

\* Once a client has been told that something idempotent is done it stays done,
\* although copies it gave up on are still handled after that.
LateCopiesChangeNothing ==
  \A c \in Clients :
    /\ Idempotent(c) /\ Undisturbed(c)
    /\ heard[c] # None
    /\ heard[c].status \in {200, 201, 204}
    => Achieved(c)

TasksOf(c) == {t \in tasks : t.title = Goal[c].title}

\* The title tells the client's tasks from those there are, which are the only
\* ones that others change, and from those of others.
OwnTitle(c) ==
  /\ \A t \in InitialDatabase.tasks : t.title # Goal[c].title
  /\ \A d \in Clients \ {c} :
       /\ Goal[d].op \in {"add_task", "update_task_by_id"} =>
            Goal[d].title # Goal[c].title
       /\ Goal[d].op = "update_task_by_id" =>
            Goal[d].task < InitialDatabase.sequence["tasks"]

\* POST /tasks is not idempotent, but the server never repeats it by itself: a
\* client finds no more of its tasks than copies of its request were handled,
\* and the one it was told of is among them.
NoTaskWithoutAnAttempt ==
  \A c \in Clients : Goal[c].op = "add_task" /\ OwnTitle(c) =>
    /\ Cardinality(TasksOf(c)) + flying[c] <= attempts[c]
    /\ heard[c] # None /\ heard[c].status = 201 => heard[c].body \subseteq TasksOf(c)

Registering(c) == Goal[c].op = "create_user" /\ Goal[c].username # Blank

StoredName(c) == Varchar255[Goal[c].username]

Named(c) == {u \in users : u.username = StoredName(c)}

OwnAccount(c) == {u \in Named(c) : u.password = hash_password(Goal[c].password)}

\* Nobody else registers this name with this password, or has done so before.
Alone(c) ==
  /\ \A u \in InitialDatabase.users :
       u.username = StoredName(c) => u.password # hash_password(Goal[c].password)
  /\ \A d \in Clients \ {c} :
       Registering(d) /\ Goal[d].password = Goal[c].password =>
         StoredName(d) # StoredName(c)

\* A name belongs to whoever was told 201 for it, whatever copies of other
\* registrations are handled later; and a client is told 409 about the account
\* it made itself only when it had sent its request more than once.
RegistrationsAreSettled ==
  \A c \in Clients : Registering(c) /\ heard[c] # None =>
    /\ heard[c].status \in {201, 409}
    /\ Named(c) # {}
    /\ heard[c].status = 201 => Named(c) = OwnAccount(c)
    /\ heard[c].status = 409 /\ Alone(c) /\ OwnAccount(c) # {} => attempts[c] > 1

==============================================================================
