-------------------------------- MODULE Server --------------------------------
(***************************************************************************)
(* The server's worker threads.  A client's connection belongs to one      *)
(* worker, which runs one handler at a time: the handlers are async        *)
(* functions without an await, so a handler which waits for the database   *)
(* keeps its thread, and everybody else on that worker waits with it.      *)
(* Every handler but health opens a connection to the database, looks      *)
(* things up, writes at most one row and closes the connection.            *)
(***************************************************************************)
EXTENDS Naturals

CONSTANTS
  Clients,    \* open HTTP connections, with one request at a time
  Workers,    \* worker threads
  Backends,   \* the connections PostgreSQL allows, one backend process each
  Rows,       \* rows which requests write
  RowOf,      \* the row each client's request writes, or None
  Probes,     \* the clients which send GET /health
  None

ASSUME ClientAssumption ==
  /\ RowOf \in [Clients -> Rows \cup {None}]
  /\ None \notin Rows \cup Clients \cup Workers \cup Backends
  /\ Probes \subseteq Clients

VARIABLES
  stage,    \* how far each client's request is
  worker,   \* the worker each connection was given to
  thread,   \* the client whose handler each worker runs
  conn,     \* the database connection of each client's handler
  busy,     \* what each backend does
  wants,    \* the row each backend writes
  outside   \* rows locked by transactions which are not the server's

vars == <<stage, worker, thread, conn, busy, wants, outside>>

Stages == {"silent", "sent", "connect", "select", "write", "answered", "refused"}

TypeOK ==
  /\ stage \in [Clients -> Stages]
  /\ worker \in [Clients -> Workers \cup {None}]
  /\ thread \in [Workers -> Clients \cup {None}]
  /\ conn \in [Clients -> Backends \cup {None}]
  /\ busy \in [Backends -> {"free", "ready", "waiting", "holding"}]
  /\ wants \in [Backends -> Rows \cup {None}]
  /\ outside \subseteq Rows
  /\ \A c \in Clients :
       /\ stage[c] \notin {"silent", "sent"} <=> \E w \in Workers : thread[w] = c
       /\ stage[c] \in {"select", "write"} <=> conn[c] # None
  /\ \A c, d \in Clients : conn[c] = conn[d] /\ c # d => conn[c] = None

Init ==
  /\ stage = [c \in Clients |-> "silent"]
  /\ worker = [c \in Clients |-> None]
  /\ thread = [w \in Workers |-> None]
  /\ conn = [c \in Clients |-> None]
  /\ busy = [b \in Backends |-> "free"]
  /\ wants = [b \in Backends |-> None]
  /\ outside = {}

database == <<busy, wants, outside>>

GoTo(c, next) == stage' = [stage EXCEPT ![c] = next]

------------------------------------------------------------------------------
\* A client sends its request; a new connection is given to some worker.
Send(c) ==
  /\ stage[c] = "silent"
  /\ GoTo(c, "sent")
  /\ \/ worker[c] = None /\ \E w \in Workers : worker' = [worker EXCEPT ![c] = w]
     \/ worker[c] # None /\ UNCHANGED worker
  /\ UNCHANGED <<thread, conn, database>>

\* Mutant: the health probe asks the database as well.
NeedsDatabase_Always(c) == TRUE

NeedsDatabase(c) == c \notin Probes

\* Mutant: a handler which waits for the database yields its thread.
Available_Yielding(w) ==
  thread[w] # None => stage[thread[w]] \in {"select", "write"}

Available(w) == thread[w] = None

\* A worker with nothing to do takes up a request of one of its connections.
Start(w, c) ==
  /\ Available(w)
  /\ worker[c] = w
  /\ stage[c] = "sent"
  /\ thread' = [thread EXCEPT ![w] = c]
  /\ GoTo(c, IF NeedsDatabase(c) THEN "connect" ELSE "answered")
  /\ UNCHANGED <<worker, conn, database>>

\* establish_connection: PostgreSQL forks a backend, or has none left.
Connect(c) ==
  /\ stage[c] = "connect"
  /\ \E b \in Backends :
       /\ busy[b] = "free"
       /\ busy' = [busy EXCEPT ![b] = "ready"]
       /\ conn' = [conn EXCEPT ![c] = b]
  /\ GoTo(c, "select")
  /\ UNCHANGED <<worker, thread, wants, outside>>

\* Mutant: the missing connection is unwrapped, and the panic takes the thread.
Refuse_Panicking(c) ==
  /\ stage[c] = "connect"
  /\ \A b \in Backends : busy[b] # "free"
  /\ GoTo(c, "panicked")
  /\ UNCHANGED <<worker, thread, conn, database>>

\* No connection can be established: a 500.
Refuse(c) ==
  /\ stage[c] = "connect"
  /\ \A b \in Backends : busy[b] # "free"
  /\ GoTo(c, "refused")
  /\ UNCHANGED <<worker, thread, conn, database>>

\* Mutant: the connection outlives the handler.
Close_Leaking(c, next) == GoTo(c, next) /\ UNCHANGED conn

\* The handler returns, which drops its connection.
Close(c, next) ==
  /\ GoTo(c, next)
  /\ conn' = [conn EXCEPT ![c] = None]

\* The statements which read.  The caller may be refused here, or the request
\* may write nothing; otherwise its one statement which writes is sent.
Select(c) ==
  /\ stage[c] = "select"
  /\ \/ /\ Close(c, "answered")
        /\ UNCHANGED <<busy, wants>>
     \/ /\ RowOf[c] # None
        /\ GoTo(c, "write")
        /\ busy' = [busy EXCEPT ![conn[c]] = "waiting"]
        /\ wants' = [wants EXCEPT ![conn[c]] = RowOf[c]]
        /\ UNCHANGED conn
  /\ UNCHANGED <<worker, thread, outside>>

\* The statement has ended, and the handler answers.
Finish(c) ==
  /\ stage[c] = "write"
  /\ busy[conn[c]] = "ready"
  /\ Close(c, "answered")
  /\ UNCHANGED <<worker, thread, database>>

\* The answer is sent, and the worker is free.
Deliver(w) ==
  /\ thread[w] # None
  /\ stage[thread[w]] \in {"answered", "refused"}
  /\ GoTo(thread[w], "silent")
  /\ thread' = [thread EXCEPT ![w] = None]
  /\ UNCHANGED <<worker, conn, database>>

------------------------------------------------------------------------------
(***************************************************************************)
(* PostgreSQL: a backend waits for the row's lock, updates and commits;    *)
(* it notices that its client is gone when its statement has ended.        *)
(***************************************************************************)
Locked(row) ==
  row \in outside \/ \E b \in Backends : busy[b] = "holding" /\ wants[b] = row

Grant(b) ==
  /\ busy[b] = "waiting"
  /\ ~Locked(wants[b])
  /\ busy' = [busy EXCEPT ![b] = "holding"]
  /\ UNCHANGED <<stage, worker, thread, conn, wants, outside>>

Commit(b) ==
  /\ busy[b] = "holding"
  /\ busy' = [busy EXCEPT ![b] = "ready"]
  /\ wants' = [wants EXCEPT ![b] = None]
  /\ UNCHANGED <<stage, worker, thread, conn, outside>>

\* A backend which no handler of the running server talks to.
LeftOver(b) == busy[b] # "free" /\ \A c \in Clients : conn[c] # b

Exit(b) ==
  /\ LeftOver(b)
  /\ busy[b] = "ready"
  /\ busy' = [busy EXCEPT ![b] = "free"]
  /\ UNCHANGED <<stage, worker, thread, conn, wants, outside>>

\* A transaction of somebody else: an administrator, a migration.
LockOutside(row) ==
  /\ ~Locked(row)
  /\ outside' = outside \cup {row}
  /\ UNCHANGED <<stage, worker, thread, conn, busy, wants>>

UnlockOutside(row) ==
  /\ row \in outside
  /\ outside' = outside \ {row}
  /\ UNCHANGED <<stage, worker, thread, conn, busy, wants>>

\* The process dies and is started again; the backends it talked to live on
\* until they notice.
Crash ==
  /\ \E w \in Workers : thread[w] # None
  /\ stage' = [c \in Clients |-> "silent"]
  /\ worker' = [c \in Clients |-> None]
  /\ thread' = [w \in Workers |-> None]
  /\ conn' = [c \in Clients |-> None]
  /\ UNCHANGED database

Handler(c) == Connect(c) \/ Refuse(c) \/ Select(c) \/ Finish(c)

Next ==
  \/ \E c \in Clients : Send(c) \/ Handler(c)
  \/ \E w \in Workers : Deliver(w) \/ \E c \in Clients : Start(w, c)
  \/ \E b \in Backends : Grant(b) \/ Commit(b) \/ Exit(b)
  \/ \E row \in Rows : LockOutside(row) \/ UnlockOutside(row)
  \/ Crash

Spec == Init /\ [][Next]_vars

\* The runtime resumes what is ready, and takes up a connection in the end
\* however many others the worker has.
ServerFairness ==
  /\ \A c \in Clients : WF_vars(Handler(c))
  /\ \A w \in Workers : WF_vars(Deliver(w))
  /\ \A c \in Clients : SF_vars(\E w \in Workers : Start(w, c))

\* PostgreSQL grants a row's lock in the order it was asked for, and ends its
\* statements.
DatabaseFairness ==
  \A b \in Backends : SF_vars(Grant(b)) /\ WF_vars(Commit(b)) /\ WF_vars(Exit(b))

\* Nobody else holds a lock for ever.
OutsideFairness == \A row \in Rows : WF_vars(UnlockOutside(row))

\* Of the database and of others nothing is assumed, unless a property says so.
FairSpec == Spec /\ ServerFairness

------------------------------------------------------------------------------
\* As long as PostgreSQL allows as many connections as there are workers, a
\* request is refused for want of one only because of backends which have not
\* noticed yet that their handler is gone: the server itself never holds more
\* connections than it has threads, however many clients there are.
RefusedBecauseOfLeftOvers ==
  [][\A c \in Clients : Refuse(c) => \E b \in Backends : LeftOver(b)]_vars

\* Every request is answered, or lost in a crash, if the database goes on and
\* nobody else holds a lock for ever: no worker waits for ever, and no request
\* is passed over for ever.
EveryRequestEnds ==
  DatabaseFairness /\ OutsideFairness
    => \A c \in Clients : (stage[c] = "sent") ~> (stage[c] = "silent")

\* The health probe needs nothing but its worker: whatever the database does,
\* it is never refused, and as long as its thread comes free again and again it
\* is answered, unless the process dies.
HealthWaitsForItsWorkerOnly ==
  \A c \in Probes :
    /\ [](stage[c] # "refused")
    /\ ([]<>(\E w \in Workers : worker[c] = w /\ thread[w] = None))
         => ((stage[c] = "sent") ~> (stage[c] \in {"answered", "silent"}))

==============================================================================
