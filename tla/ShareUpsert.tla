------------------------------ MODULE ShareUpsert ------------------------------
(***************************************************************************)
(* How PostgreSQL runs the statements which write one share, under READ    *)
(* COMMITTED, each in a transaction of its own: the INSERT ... ON CONFLICT *)
(* DO UPDATE of add_share_for_task and the DELETE of remove_share.  An     *)
(* UPDATE leaves the old version of the row behind and a new version after *)
(* it; a version counts once the transaction which wrote it (xmin) is      *)
(* committed, and no more once the one which ended it (xmax) is.  The      *)
(* unique index admits no second version beside one which counts or may    *)
(* yet count, and a statement waits for a transaction which holds the row. *)
(***************************************************************************)
EXTENDS Naturals, Sequences, FiniteSets

CONSTANTS
  Writers, OpOf,
  Granted,      \* what the share may grant before these requests
  NoShare, Nobody, Setup

ASSUME WritersAssumption ==
  /\ IsFiniteSet(Writers)
  /\ OpOf \in [Writers -> {"read", "read_write", "delete"}]
  /\ Granted \subseteq {"read", "read_write"}
  /\ Setup \notin Writers \cup {Nobody} /\ Nobody \notin Writers
  /\ NoShare \notin [id : Nat, permission : {"read", "read_write"}]

VARIABLES
  heap,       \* the versions of the row, oldest first
  txn,        \* the state of each writer's transaction
  pc,
  draw,       \* the id a PUT took from the sequence
  tid,        \* the version a statement has found
  outcome,    \* what the statement did, told once it is committed
  sequence,
  wasAbsent   \* history: writers for which the share was absent meanwhile

upsertVars == <<heap, txn, pc, draw, tid, outcome, sequence, wasAbsent>>

Created(id) == [kind |-> "Created", id |-> id]
Replaced(id) == [kind |-> "Replaced", id |-> id]
Removed == [kind |-> "Removed", id |-> 0]
Nothing == [kind |-> "Nothing", id |-> 0]

Version(id, permission, writer) ==
  [id |-> id, permission |-> permission, xmin |-> writer, xmax |-> Nobody]

Committed(x) == x # Nobody /\ txn[x] = "committed"
Active(x) == x # Nobody /\ txn[x] = "active"
Aborted(x) == x # Nobody /\ txn[x] = "aborted"

Versions == DOMAIN heap
Dead(i) == Aborted(heap[i].xmin) \/ Committed(heap[i].xmax)
Live(i) == Committed(heap[i].xmin) /\ ~Committed(heap[i].xmax)

\* Mutant: an ended version looks held for ever.
Held_ForGood(i) == heap[i].xmax # Nobody

\* Another transaction is ending this version.
Held(i) == Active(heap[i].xmax)

\* The unique index admits no further version.
Occupied == \E i \in Versions : ~Dead(i)

\* The version an UPDATE left in this one's place.
Newer(i) == {j \in Versions : j > i /\ heap[j].xmin = heap[i].xmax}

------------------------------------------------------------------------------
Init ==
  /\ \/ heap = << >> /\ sequence = 1
     \/ \E p \in Granted :
          heap = <<Version(1, p, Setup)>> /\ sequence = 2
  /\ txn = [x \in Writers \cup {Setup} |->
              IF x = Setup THEN "committed" ELSE "none"]
  /\ pc = [w \in Writers |-> "idle"]
  /\ draw = [w \in Writers |-> 0]
  /\ tid = [w \in Writers |-> 0]
  /\ outcome = [w \in Writers |-> Nothing]
  /\ wasAbsent = {}

Go(w, label) == pc' = [pc EXCEPT ![w] = label]

Begin(w) ==
  /\ pc[w] = "idle"
  /\ txn' = [txn EXCEPT ![w] = "active"]
  /\ Go(w, IF OpOf[w] = "delete" THEN "scan" ELSE "draw")
  /\ UNCHANGED <<heap, draw, tid, outcome, sequence>>

\* Mutant: the id is the one after the one drawn.
Draw_OneAhead(w) ==
  /\ pc[w] = "draw"
  /\ draw' = [draw EXCEPT ![w] = sequence + 1]
  /\ sequence' = sequence + 1
  /\ Go(w, "probe")
  /\ UNCHANGED <<heap, txn, tid, outcome>>

\* The id's default is computed before a conflict can be found.
Draw(w) ==
  /\ pc[w] = "draw"
  /\ draw' = [draw EXCEPT ![w] = sequence]
  /\ sequence' = sequence + 1
  /\ Go(w, "probe")
  /\ UNCHANGED <<heap, txn, tid, outcome>>

\* Look for a conflict in the unique index, waiting for a transaction which is
\* adding or ending a version.
Probe(w) ==
  LET found == {i \in Versions : ~Dead(i)}
  IN /\ pc[w] = "probe"
     /\ \/ /\ found = {}
           /\ Go(w, "insert")
           /\ UNCHANGED tid
        \/ /\ found # {}
           /\ \A i \in found : ~Active(heap[i].xmin) /\ ~Active(heap[i].xmax)
           /\ \E i \in found : tid' = [tid EXCEPT ![w] = i]
           /\ Go(w, "lock")
     /\ UNCHANGED <<heap, txn, draw, outcome, sequence>>

\* Mutant: the table has no unique constraint.
Insert_Unconstrained(w) ==
  /\ pc[w] = "insert"
  /\ heap' = Append(heap, Version(draw[w], OpOf[w], w))
  /\ outcome' = [outcome EXCEPT ![w] = Created(draw[w])]
  /\ Go(w, "commit")
  /\ UNCHANGED <<txn, draw, tid, sequence>>

\* The speculative insertion: taken back when the index has a version by now.
Insert(w) ==
  /\ pc[w] = "insert"
  /\ \/ /\ Occupied
        /\ Go(w, "probe")
        /\ UNCHANGED <<heap, outcome>>
     \/ /\ ~Occupied
        /\ heap' = Append(heap, Version(draw[w], OpOf[w], w))
        /\ outcome' = [outcome EXCEPT ![w] = Created(draw[w])]
        /\ Go(w, "commit")
  /\ UNCHANGED <<txn, draw, tid, sequence>>

\* Mutant: a row which was there is reported as inserted.
Lock_ToldCreated(w) ==
  LET v == heap[tid[w]]
  IN /\ pc[w] = "lock"
     /\ ~Held(tid[w])
     /\ \/ /\ Committed(v.xmax)
           /\ Go(w, "probe")
           /\ UNCHANGED <<heap, outcome>>
        \/ /\ ~Committed(v.xmax)
           /\ heap' = Append([heap EXCEPT ![tid[w]].xmax = w],
                             Version(v.id, OpOf[w], w))
           /\ outcome' = [outcome EXCEPT ![w] = Created(v.id)]
           /\ Go(w, "commit")
     /\ UNCHANGED <<txn, draw, tid, sequence>>

\* Lock the conflicting version and update it.  A version which was ended while
\* the statement waited for its lock is no conflict any more: start again.
Lock(w) ==
  LET v == heap[tid[w]]
  IN /\ pc[w] = "lock"
     /\ ~Held(tid[w])
     /\ \/ /\ Committed(v.xmax)
           /\ Go(w, "probe")
           /\ UNCHANGED <<heap, outcome>>
        \/ /\ ~Committed(v.xmax)
           /\ heap' = Append([heap EXCEPT ![tid[w]].xmax = w],
                             Version(v.id, OpOf[w], w))
           /\ outcome' = [outcome EXCEPT ![w] = Replaced(v.id)]
           /\ Go(w, "commit")
     /\ UNCHANGED <<txn, draw, tid, sequence>>

\* The DELETE sees the versions which were committed when it started.
Scan(w) ==
  LET found == {i \in Versions : Live(i)}
  IN /\ pc[w] = "scan"
     /\ \/ /\ found = {}
           /\ outcome' = [outcome EXCEPT ![w] = Removed]
           /\ Go(w, "commit")
           /\ UNCHANGED tid
        \/ /\ \E i \in found : tid' = [tid EXCEPT ![w] = i]
           /\ Go(w, "delete")
           /\ UNCHANGED outcome
     /\ UNCHANGED <<heap, txn, draw, sequence>>

\* Delete the version it saw; follow the update which replaced it; or find that
\* it was deleted.
Delete(w) ==
  LET v == heap[tid[w]]
      newer == Newer(tid[w])
  IN /\ pc[w] = "delete"
     /\ ~Held(tid[w])
     /\ \/ /\ Committed(v.xmax) /\ newer # {}
           /\ \E i \in newer : tid' = [tid EXCEPT ![w] = i]
           /\ UNCHANGED <<heap, outcome, pc>>
        \/ /\ Committed(v.xmax) /\ newer = {}
           /\ outcome' = [outcome EXCEPT ![w] = Removed]
           /\ Go(w, "commit")
           /\ UNCHANGED <<heap, tid>>
        \/ /\ ~Committed(v.xmax)
           /\ heap' = [heap EXCEPT ![tid[w]].xmax = w]
           /\ outcome' = [outcome EXCEPT ![w] = Removed]
           /\ Go(w, "commit")
           /\ UNCHANGED tid
     /\ UNCHANGED <<txn, draw, sequence>>

Commit(w) ==
  /\ pc[w] = "commit"
  /\ txn' = [txn EXCEPT ![w] = "committed"]
  /\ Go(w, "done")
  /\ UNCHANGED <<heap, draw, tid, outcome, sequence>>

\* The statement fails, or its connection or the server does.
Abort(w) ==
  /\ pc[w] \notin {"idle", "done"}
  /\ txn' = [txn EXCEPT ![w] = "aborted"]
  /\ Go(w, "done")
  /\ UNCHANGED <<heap, draw, tid, outcome, sequence>>

Step(w) ==
  \/ Begin(w) \/ Draw(w) \/ Probe(w) \/ Insert(w) \/ Lock(w)
  \/ Scan(w) \/ Delete(w) \/ Commit(w)

------------------------------------------------------------------------------
\* The share every other statement sees.
LiveVersions == {i \in Versions : Live(i)}

Share ==
  IF LiveVersions = {} THEN NoShare
  ELSE LET v == heap[CHOOSE i \in LiveVersions : TRUE]
       IN [id |-> v.id, permission |-> v.permission]

\* Whoever is under way while the share is absent is noted in wasAbsent.
Observe ==
  wasAbsent' = wasAbsent \cup
    (IF Share' = NoShare THEN {w \in Writers : txn'[w] = "active"} ELSE {})

Next ==
  \/ \E w \in Writers : (Step(w) \/ Abort(w)) /\ Observe
  \/ (\A w \in Writers : pc[w] = "done") /\ UNCHANGED upsertVars

Spec == Init /\ [][Next]_upsertVars

\* A statement which can go on does: PostgreSQL schedules every backend and
\* wakes those which wait for a transaction that has ended.
FairSpec ==
  Spec /\ \A w \in Writers : WF_upsertVars(Step(w) /\ Observe)

------------------------------------------------------------------------------
TypeOK ==
  /\ \A i \in Versions :
       /\ heap[i].id \in 1..(sequence - 1)
       /\ heap[i].permission \in {"read", "read_write"}
       /\ heap[i].xmin \in Writers \cup {Setup}
       /\ heap[i].xmax \in Writers \cup {Nobody}
  /\ txn \in [Writers \cup {Setup} -> {"none", "active", "committed", "aborted"}]
  /\ pc \in [Writers -> {"idle", "draw", "probe", "insert", "lock", "scan",
                         "delete", "commit", "done"}]
  /\ wasAbsent \subseteq Writers

Told(w, r) == txn[w] = "committed" /\ outcome[w] = r

\* A DELETE ended a version of the row with this id, and told so.
RowRemoved(id) ==
  \E d \in Writers, k \in Versions :
    /\ OpOf[d] = "delete" /\ Told(d, Removed)
    /\ heap[k].id = id /\ heap[k].xmax = d

\* The share's URI names one row at most, and every PUT of a share reports the
\* row as it is: two writers are both told Created only about different rows,
\* one of which was removed by a DELETE which told so.
OneShareCreatedOnce ==
  /\ Cardinality(LiveVersions) <= 1
  /\ \A w, x \in Writers : \A i, j \in 1..sequence :
       w # x /\ Told(w, Created(i)) /\ Told(x, Created(j)) =>
         i # j /\ (RowRemoved(i) \/ RowRemoved(j))

\* What the others and the requesters know of the statements.
Used == {heap[i].id : i \in {i \in Versions : Committed(heap[i].xmin)}}

Result(w) ==
  CASE txn[w] = "none" -> [kind |-> "Idle", id |-> 0]
    [] txn[w] = "active" -> [kind |-> "Pending", id |-> 0]
    [] txn[w] = "committed" -> outcome[w]
    [] txn[w] = "aborted" -> [kind |-> "Failed", id |-> 0]

\* The statements implement the single assignment add_share_for_task promises.
Assign ==
  INSTANCE ShareAssign WITH
    Ids <- 1..(Cardinality(Writers) + 1),
    share <- Share,
    used <- Used,
    result <- [w \in Writers |-> Result(w)]

ImplementsAssign == Assign!AssignSpec

\* Writers of one share never wait for each other in a circle, and a PUT whose
\* conflict keeps disappearing finds its way: every statement ends.
EveryWriteEnds == \A w \in Writers : <>(pc[w] = "done")

==============================================================================
