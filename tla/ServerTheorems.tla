---------------------------- MODULE ServerTheorems ----------------------------
(***************************************************************************)
(* The server's threads and connections, for any number of clients,        *)
(* workers and backends.  A connection is held by a handler, a handler by  *)
(* a thread: so the server never talks to more backends than it has        *)
(* threads, and runs out of them only because of those it has left behind. *)
(***************************************************************************)
EXTENDS Server, FiniteSetTheorems, TLAPS

\* Who has what.  The first two conjuncts are the reason why a request is on
\* one thread at most: its connection belongs to one worker.
Holdings ==
  /\ \A w \in Workers : thread[w] # None => worker[thread[w]] = w
  /\ \A c \in Clients :
       stage[c] \notin {"silent", "sent"} => \E w \in Workers : thread[w] = c
  /\ \A w \in Workers :
       thread[w] # None => stage[thread[w]] \notin {"silent", "sent"}
  /\ \A c \in Clients : stage[c] \in {"select", "write"} <=> conn[c] # None
  /\ \A c, d \in Clients : conn[c] = conn[d] /\ c # d => conn[c] = None

\* A backend which talks to a handler is not free for another one.
Engaged == \A c \in Clients : conn[c] # None => busy[conn[c]] # "free"

\* The health probe's handler has the one step.
ProbesStayOut == \A c \in Probes : stage[c] \in {"silent", "sent", "answered"}

Types ==
  /\ stage \in [Clients -> Stages]
  /\ worker \in [Clients -> Workers \cup {None}]
  /\ thread \in [Workers -> Clients \cup {None}]
  /\ conn \in [Clients -> Backends \cup {None}]
  /\ busy \in [Backends -> {"free", "ready", "waiting", "holding"}]
  /\ wants \in [Backends -> Rows \cup {None}]
  /\ outside \subseteq Rows

SInv == Types /\ Holdings /\ Engaged /\ ProbesStayOut

LEMMA SInvTypes == SInv => TypeOK
BY ClientAssumption DEF SInv, Types, Holdings, TypeOK

LEMMA SInvInit == Init => SInv
BY ClientAssumption
   DEF Init, SInv, Types, Holdings, Engaged, ProbesStayOut, Stages

------------------------------------------------------------------------------
(***************************************************************************)
(* The steps of clients, threads and handlers.                             *)
(***************************************************************************)
LEMMA SendKeeps ==
  ASSUME SInv, NEW c \in Clients, Send(c)
  PROVE  SInv'
<1> USE ClientAssumption DEF SInv, Send, GoTo, database
<1>1. Types'
  BY DEF Types, Stages
<1>2. Holdings'
  BY DEF Types, Holdings
<1>3. Engaged' /\ ProbesStayOut'
  BY DEF Types, Engaged, ProbesStayOut
<1> QED
  BY <1>1, <1>2, <1>3

LEMMA StartKeeps ==
  ASSUME SInv, NEW w \in Workers, NEW c \in Clients, Start(w, c)
  PROVE  SInv'
<1> USE ClientAssumption DEF SInv, Start, GoTo, Available, NeedsDatabase, database
<1>1. Types'
  BY DEF Types, Stages
<1>2. Holdings'
  BY DEF Types, Holdings
<1>3. Engaged' /\ ProbesStayOut'
  BY DEF Types, Engaged, ProbesStayOut
<1> QED
  BY <1>1, <1>2, <1>3

LEMMA DeliverKeeps ==
  ASSUME SInv, NEW w \in Workers, Deliver(w)
  PROVE  SInv'
<1> USE ClientAssumption DEF SInv, Deliver, GoTo, database
<1>1. Types'
  BY DEF Types, Stages
<1>2. Holdings'
  BY DEF Types, Holdings
<1>3. Engaged' /\ ProbesStayOut'
  BY DEF Types, Engaged, ProbesStayOut
<1> QED
  BY <1>1, <1>2, <1>3

\* The backend which is forked was free, hence nobody's.
LEMMA ConnectKeeps ==
  ASSUME SInv, NEW c \in Clients, Connect(c)
  PROVE  SInv'
<1> USE ClientAssumption DEF SInv, Connect, GoTo
<1>1. PICK b \in Backends :
        /\ busy[b] = "free"
        /\ busy' = [busy EXCEPT ![b] = "ready"]
        /\ conn' = [conn EXCEPT ![c] = b]
  OBVIOUS
<1>2. \A d \in Clients : conn[d] # b
  BY <1>1 DEF Types, Engaged
<1>3. Types'
  BY <1>1 DEF Types, Stages
<1>4. Holdings'
  BY <1>1, <1>2 DEF Types, Holdings
<1>5. Engaged' /\ ProbesStayOut'
  BY <1>1, <1>2 DEF Types, Engaged, ProbesStayOut
<1> QED
  BY <1>3, <1>4, <1>5

LEMMA RefuseKeeps ==
  ASSUME SInv, NEW c \in Clients, Refuse(c)
  PROVE  SInv'
<1> USE ClientAssumption DEF SInv, Refuse, GoTo, database
<1>1. Types'
  BY DEF Types, Stages
<1>2. Holdings'
  BY DEF Types, Holdings
<1>3. Engaged' /\ ProbesStayOut'
  BY DEF Types, Engaged, ProbesStayOut
<1> QED
  BY <1>1, <1>2, <1>3

LEMMA SelectKeeps ==
  ASSUME SInv, NEW c \in Clients, Select(c)
  PROVE  SInv'
<1> USE ClientAssumption DEF SInv, Select, Close, GoTo
<1>1. conn[c] \in Backends
  BY DEF Types, Holdings
<1>2. Types'
  BY <1>1 DEF Types, Stages
<1>3. Holdings'
  BY <1>1 DEF Types, Holdings
<1>4. Engaged' /\ ProbesStayOut'
  BY <1>1 DEF Types, Holdings, Engaged, ProbesStayOut
<1> QED
  BY <1>2, <1>3, <1>4

LEMMA FinishKeeps ==
  ASSUME SInv, NEW c \in Clients, Finish(c)
  PROVE  SInv'
<1> USE ClientAssumption DEF SInv, Finish, Close, GoTo, database
<1>1. Types'
  BY DEF Types, Stages
<1>2. Holdings'
  BY DEF Types, Holdings
<1>3. Engaged' /\ ProbesStayOut'
  BY DEF Types, Engaged, ProbesStayOut
<1> QED
  BY <1>1, <1>2, <1>3

LEMMA CrashKeeps ==
  ASSUME SInv, Crash
  PROVE  SInv'
BY ClientAssumption
   DEF SInv, Crash, database, Types, Holdings, Engaged, ProbesStayOut, Stages

------------------------------------------------------------------------------
(***************************************************************************)
(* The steps of the database and of others: no thread changes, and a       *)
(* backend is freed only when it is nobody's.                              *)
(***************************************************************************)
LEMMA BackendKeeps ==
  ASSUME SInv, NEW b \in Backends, Grant(b) \/ Commit(b) \/ Exit(b)
  PROVE  SInv'
<1> USE ClientAssumption DEF SInv, Grant, Commit, Exit
<1>1. Types'
  BY DEF Types
<1>2. Holdings'
  BY DEF Holdings
<1>3. Engaged' /\ ProbesStayOut'
  BY DEF Types, Engaged, ProbesStayOut, LeftOver
<1> QED
  BY <1>1, <1>2, <1>3

LEMMA OutsideKeeps ==
  ASSUME SInv, NEW row \in Rows, LockOutside(row) \/ UnlockOutside(row)
  PROVE  SInv'
BY DEF SInv, LockOutside, UnlockOutside, Types, Holdings, Engaged, ProbesStayOut

LEMMA SInvStep == SInv /\ [Next]_vars => SInv'
<1> SUFFICES ASSUME SInv, [Next]_vars
             PROVE  SInv'
  OBVIOUS
<1>1. CASE Next
  BY <1>1, SendKeeps, StartKeeps, DeliverKeeps, ConnectKeeps, RefuseKeeps,
     SelectKeeps, FinishKeeps, CrashKeeps, BackendKeeps, OutsideKeeps
     DEF Next, Handler
<1>2. CASE UNCHANGED vars
  BY <1>2 DEF vars, SInv, Types, Holdings, Engaged, ProbesStayOut
<1> QED
  BY <1>1, <1>2

LEMMA Held == Spec => []SInv
BY SInvInit, SInvStep, PTL DEF Spec

------------------------------------------------------------------------------
\* The types of the state, and who has what in it: exactly the requests which
\* have been taken up are on a thread, exactly the handlers past
\* establish_connection have a connection, and none is shared.
THEOREM ServerTypes == Spec => []TypeOK
BY Held, SInvTypes, PTL

\* The health probe is never refused, whatever the database does: no step of
\* its handler asks for a connection.
THEOREM ProbesAreNeverRefused ==
  Spec => [](\A c \in Probes : stage[c] # "refused")
<1>1. SInv => \A c \in Probes : stage[c] # "refused"
  BY DEF SInv, ProbesStayOut
<1> QED
  BY <1>1, Held, PTL

\* PostgreSQL's max_connections is no less than the number of worker threads.
EnoughBackends ==
  /\ IsFiniteSet(Workers) /\ IsFiniteSet(Backends)
  /\ Cardinality(Workers) <= Cardinality(Backends)

\* Were every backend some handler's, their threads would be as many threads
\* as there are backends, beside the one of the request which wants another.
LEMMA SomeBackendIsNobodys ==
  ASSUME EnoughBackends, SInv, NEW c \in Clients, stage[c] = "connect"
  PROVE  \E b \in Backends : \A d \in Clients : conn[d] # b
<1> SUFFICES ASSUME \A b \in Backends : \E d \in Clients : conn[d] = b
             PROVE  FALSE
  OBVIOUS
<1> DEFINE user(b) == CHOOSE d \in Clients : conn[d] = b
           f == [b \in Backends |-> worker[user(b)]]
<1>1. \A b \in Backends : user(b) \in Clients /\ conn[user(b)] = b
  OBVIOUS
<1>2. \A d \in Clients : conn[d] \in Backends =>
        worker[d] \in Workers /\ thread[worker[d]] = d
  BY ClientAssumption DEF SInv, Types, Holdings
<1>3. PICK w \in Workers : thread[w] = c
  BY DEF SInv, Holdings
<1>4. conn[c] = None
  BY DEF SInv, Holdings
<1>5. f \in Injection(Backends, Workers \ {w})
  <2> HIDE DEF user
  <2>1. ASSUME NEW b \in Backends
        PROVE  worker[user(b)] \in Workers \ {w}
    BY <1>1, <1>2, <1>3, <1>4, ClientAssumption
  <2>2. ASSUME NEW a \in Backends, NEW b \in Backends, f[a] = f[b]
        PROVE  a = b
    BY <1>1, <1>2, <2>2
  <2> QED
    BY <2>1, <2>2 DEF Injection, IsInjective
<1>6. /\ IsFiniteSet(Workers \ {w})
      /\ Cardinality(Workers \ {w}) = Cardinality(Workers) - 1
  BY FS_RemoveElement DEF EnoughBackends
<1> HIDE DEF f
<1>7. Cardinality(Backends) <= Cardinality(Workers \ {w})
  BY <1>5, <1>6, FS_Injection
<1>8. Cardinality(Workers) \in Nat /\ Cardinality(Backends) \in Nat
  BY FS_CardinalityType DEF EnoughBackends
<1> QED
  BY <1>6, <1>7, <1>8 DEF EnoughBackends

\* However many clients there are, a request is refused for want of a connection
\* only because some backend has not noticed yet that its handler is gone,
\* provided PostgreSQL allows as many connections as the server has threads.
THEOREM RefusedBecauseOfOthersOnly ==
  EnoughBackends => (Spec => RefusedBecauseOfLeftOvers)
<1> SUFFICES ASSUME EnoughBackends
             PROVE  Spec => RefusedBecauseOfLeftOvers
  OBVIOUS
<1>1. SInv /\ [Next]_vars =>
        [\A c \in Clients : Refuse(c) => \E b \in Backends : LeftOver(b)]_vars
  BY SomeBackendIsNobodys DEF Refuse, LeftOver
<1> QED
  BY <1>1, Held, PTL DEF Spec, RefusedBecauseOfLeftOvers

==============================================================================
