-------------------------- MODULE ShareUpsertTheorems --------------------------
(***************************************************************************)
(* Concurrent writes of one share, for any number of them: the versions of *)
(* the row form a chain in which at most one counts, a writer which has    *)
(* not committed yet has had no effect others see, and each commit is one  *)
(* step of the assignment the handlers promise.                            *)
(***************************************************************************)
EXTENDS ShareUpsert, FiniteSetTheorems, TLAPS

Row ==
  [id : Nat \ {0}, permission : {"read", "read_write"},
   xmin : Writers \cup {Setup}, xmax : Writers \cup {Nobody}]

Outcomes == [kind : {"Created", "Replaced", "Removed", "Nothing"}, id : Nat]

Types ==
  /\ heap \in Seq(Row)
  /\ txn \in [Writers \cup {Setup} -> {"none", "active", "committed", "aborted"}]
  /\ txn[Setup] = "committed"
  /\ pc \in [Writers -> {"idle", "draw", "probe", "insert", "lock", "scan",
                         "delete", "commit", "done"}]
  /\ draw \in [Writers -> Nat]
  /\ tid \in [Writers -> Nat]
  /\ outcome \in [Writers -> Outcomes]
  /\ sequence \in Nat \ {0}
  /\ wasAbsent \subseteq Writers

\* Version j is the one which a transaction under way puts in i's place.
Follows(j, i) ==
  i < j /\ heap[j].xmin = heap[i].xmax /\ Active(heap[i].xmax)

\* Only versions which have counted are ended; two which may yet count are one
\* and the one which is being put in its place; and the versions before one
\* which has counted count no more.
Chain ==
  /\ \A i \in Versions : heap[i].xmax # Nobody => Committed(heap[i].xmin)
  /\ \A i, j \in Versions :
       i # j /\ ~Dead(i) /\ ~Dead(j) => Follows(i, j) \/ Follows(j, i)
  /\ \A i, j \in Versions : i < j /\ Committed(heap[j].xmin) => Dead(i)

Begins(w) == \E i \in Versions : heap[i].xmin = w
Ends(w) == \E i \in Versions : heap[i].xmax = w

Phase(w) ==
  /\ txn[w] = "none" <=> pc[w] = "idle"
  /\ txn[w] = "active" <=> pc[w] \notin {"idle", "done"}
  /\ pc[w] \in {"draw", "probe", "insert", "lock"} => OpOf[w] # "delete"
  /\ pc[w] \in {"scan", "delete"} => OpOf[w] = "delete"
  /\ pc[w] \notin {"commit", "done"} => ~Begins(w) /\ ~Ends(w)

\* What a statement has done by the time its transaction can commit.
HasCreated(w) ==
  /\ OpOf[w] # "delete" /\ outcome[w] = Created(draw[w]) /\ draw[w] # 0
  /\ ~Ends(w)
  /\ \E m \in Versions : /\ heap[m].xmin = w /\ heap[m].id = draw[w]
                         /\ heap[m].permission = OpOf[w]

HasReplaced(w) ==
  /\ OpOf[w] # "delete"
  /\ \E i, m \in Versions :
       /\ i < m /\ heap[i].xmax = w /\ heap[m].xmin = w
       /\ heap[m].id = heap[i].id /\ heap[m].permission = OpOf[w]
       /\ outcome[w] = Replaced(heap[i].id)

HasRemoved(w) ==
  OpOf[w] = "delete" /\ outcome[w] = Removed /\ Ends(w) /\ ~Begins(w)

HasFoundGone(w) ==
  /\ OpOf[w] = "delete" /\ outcome[w] = Removed
  /\ ~Ends(w) /\ ~Begins(w) /\ w \in wasAbsent

\* A version which was found had counted when it was.  As long as the share has
\* not been absent since a DELETE has started, following the updates from the
\* version it saw leads to the one which counts.
Knowledge(w) ==
  /\ pc[w] \in {"lock", "delete"} =>
       tid[w] \in Versions /\ Committed(heap[tid[w]].xmin)
  /\ pc[w] = "delete" /\ w \notin wasAbsent =>
       \A i \in Versions :
         tid[w] <= i /\ Committed(heap[i].xmax) => Newer(i) # {}
  /\ pc[w] = "commit" =>
       HasCreated(w) \/ HasReplaced(w) \/ HasRemoved(w) \/ HasFoundGone(w)

Drawn == {w \in Writers : draw[w] # 0}

\* No two writers draw the same id; a version has the id its row was created
\* with, and others have it only once that creation is committed.
Ids ==
  /\ \A i \in Versions : heap[i].id < sequence
  /\ \A w \in Writers :
       /\ pc[w] \in {"idle", "draw"} => draw[w] = 0
       /\ pc[w] \in {"probe", "insert", "lock"} => draw[w] # 0
       /\ draw[w] < sequence
       /\ outcome[w].kind = "Created" => w \in Drawn /\ outcome[w].id = draw[w]
  /\ \A w, x \in Drawn : w # x => draw[w] # draw[x]
  /\ \A w \in Drawn : \A i \in Versions :
       heap[i].id = draw[w] =>
         /\ pc[w] \in {"commit", "done"} /\ outcome[w] = Created(draw[w])
         /\ heap[i].xmin = w \/ Committed(w)
  /\ sequence <= Cardinality(Drawn) + 2

Absences == LiveVersions = {} => \A w \in Writers : Active(w) => w \in wasAbsent

RowLives(id) == \E l \in LiveVersions : heap[l].id = id

\* A row which has counted counts still, unless a DELETE removed it; and what a
\* writer is told to have created is the row of the version it put there.
Removals ==
  /\ \A i \in Versions :
       Committed(heap[i].xmin) => RowLives(heap[i].id) \/ RowRemoved(heap[i].id)
  /\ \A w \in Writers :
       Committed(w) /\ outcome[w].kind = "Created" =>
         \E m \in Versions : heap[m].xmin = w /\ heap[m].id = outcome[w].id

UInv ==
  /\ Types /\ Chain /\ Ids /\ Absences /\ Removals
  /\ \A w \in Writers : Phase(w) /\ Knowledge(w)

------------------------------------------------------------------------------
(***************************************************************************)
(* The heap and the transactions.                                          *)
(***************************************************************************)
LEMMA Appending ==
  ASSUME NEW S, NEW s \in Seq(S), NEW e \in S
  PROVE  /\ Append(s, e) \in Seq(S)
         /\ DOMAIN Append(s, e) = DOMAIN s \cup {Len(s) + 1}
         /\ \A i \in DOMAIN s : i \in Nat /\ i < Len(s) + 1 /\ Append(s, e)[i] = s[i]
         /\ Append(s, e)[Len(s) + 1] = e
OBVIOUS

LEMMA VersionsAre ==
  ASSUME Types
  PROVE  /\ \A i \in Versions :
              /\ heap[i] \in Row /\ i \in Nat
              /\ heap[i].id \in Nat \ {0}
              /\ heap[i].permission \in {"read", "read_write"}
              /\ heap[i].xmin \in Writers \cup {Setup}
              /\ heap[i].xmax \in Writers \cup {Nobody}
         /\ Len(heap) \in Nat /\ Versions = 1..Len(heap)
<1>1. heap \in [1..Len(heap) -> Row] /\ Len(heap) \in Nat
  BY DEF Types
<1>2. Versions = 1..Len(heap)
  BY <1>1 DEF Versions
<1>3. \A i \in Versions : heap[i] \in Row
  BY <1>1, <1>2
<1> QED
  BY <1>1, <1>2, <1>3 DEF Row

\* A transaction under way writes one version and ends one.
LEMMA OneOfEach ==
  ASSUME Types, Chain, NEW i \in Versions, NEW j \in Versions
  PROVE  /\ heap[i].xmax = heap[j].xmax /\ Active(heap[i].xmax) => i = j
         /\ heap[i].xmin = heap[j].xmin /\ Active(heap[i].xmin) => i = j
<1> USE WritersAssumption, VersionsAre DEF Active, Committed, Aborted
<1>1. \A k \in Versions : Active(heap[k].xmax) => ~Dead(k) /\ Committed(heap[k].xmin)
  BY DEF Chain, Dead
<1>2. \A k \in Versions : Active(heap[k].xmin) => ~Dead(k) /\ heap[k].xmax = Nobody
  BY DEF Chain, Dead
<1> QED
  BY <1>1, <1>2 DEF Chain, Follows

LEMMA OneLives ==
  ASSUME Types, Chain, NEW i \in LiveVersions, NEW j \in LiveVersions
  PROVE  i = j
BY WritersAssumption, VersionsAre
   DEF LiveVersions, Live, Chain, Dead, Follows, Active, Committed, Aborted

LEMMA Kinds ==
  /\ \A id : Created(id).kind = "Created" /\ Created(id).id = id
  /\ \A id : Replaced(id).kind = "Replaced"
  /\ Removed.kind = "Removed"
  /\ \A id \in Nat : Created(id) \in Outcomes /\ Replaced(id) \in Outcomes
  /\ Removed \in Outcomes
BY DEF Created, Replaced, Removed, Outcomes

\* A transaction which ends, or begins, is the only one.
Moves(w, state) == txn' = [txn EXCEPT ![w] = state]

LEMMA OthersRun ==
  ASSUME Types, NEW w \in Writers, NEW state, Moves(w, state)
  PROVE  /\ \A x : x # w =>
              /\ x \in Writers \cup {Setup, Nobody} =>
                   /\ Committed(x)' <=> Committed(x)
                   /\ Active(x)' <=> Active(x)
                   /\ Aborted(x)' <=> Aborted(x)
         /\ txn'[w] = state
BY WritersAssumption DEF Types, Moves, Committed, Active, Aborted

------------------------------------------------------------------------------
LEMMA UInvInit == Init => UInv
<1> SUFFICES ASSUME Init
             PROVE  UInv
  OBVIOUS
<1> USE WritersAssumption DEF Init
<1>1. Types
  <2>1. CASE heap = << >>
    BY <2>1 DEF Types, Outcomes, Nothing
  <2>2. ASSUME NEW p \in Granted, heap = <<Version(1, p, Setup)>>, sequence = 2
        PROVE  Types
    <3>1. Version(1, p, Setup) \in Row
      BY DEF Version, Row
    <3> QED
      BY <2>2, <3>1 DEF Types, Outcomes, Nothing
  <2> QED
    BY <2>1, <2>2 DEF Types, Outcomes, Nothing
<1>2. /\ \A i \in Versions : /\ i = 1 /\ heap[i].id = 1 /\ sequence = 2
                             /\ heap[i].xmin = Setup /\ heap[i].xmax = Nobody
      /\ Versions # {} => 1 \in Versions
      /\ sequence \in {1, 2}
  BY DEF Versions, Version
<1>3. \A i \in Versions : Live(i) /\ ~Dead(i)
  BY <1>2 DEF Live, Dead, Committed, Aborted
<1>4. Chain
  BY <1>2 DEF Chain
<1>5. \A w \in Writers : Phase(w) /\ Knowledge(w)
  BY <1>2 DEF Phase, Begins, Ends, Knowledge
<1>6. Drawn = {}
  BY DEF Drawn
<1>7. Ids
  <2>1. Cardinality(Drawn) = 0
    BY <1>6, FS_EmptySet
  <2> QED
    BY <1>2, <1>6, <2>1 DEF Ids, Nothing
<1>8. Absences
  BY DEF Absences, Active
<1>9. Removals
  BY <1>3 DEF Removals, RowLives, LiveVersions, Committed
<1> QED
  BY <1>1, <1>4, <1>5, <1>7, <1>8, <1>9 DEF UInv

------------------------------------------------------------------------------
(***************************************************************************)
(* A statement under way extends the chain: it may end the version which   *)
(* counts, unless another transaction does, and put a new one after all.   *)
(***************************************************************************)
Extends(w) ==
  /\ Versions \subseteq Versions'
  /\ \A i \in Versions :
       /\ heap'[i].id = heap[i].id
       /\ heap'[i].permission = heap[i].permission
       /\ heap'[i].xmin = heap[i].xmin
       /\ \/ heap'[i].xmax = heap[i].xmax
          \/ /\ heap'[i].xmax = w
             /\ Committed(heap[i].xmin)
             /\ ~Held(i) /\ ~Committed(heap[i].xmax)
  /\ \A j \in Versions' \ Versions :
       /\ j \in Nat /\ heap'[j].xmin = w /\ heap'[j].xmax = Nobody
       /\ \A i \in Versions : i < j /\ (~Dead(i) => heap'[i].xmax = w)
       /\ \A i \in Versions' \ Versions : i = j

LEMMA ExtendsKeeps ==
  ASSUME UInv, NEW w \in Writers, Active(w), UNCHANGED txn, Extends(w)
  PROVE  /\ \A x : /\ Committed(x)' <=> Committed(x)
                   /\ Active(x)' <=> Active(x)
                   /\ Aborted(x)' <=> Aborted(x)
         /\ \A i \in Versions : (Dead(i)' <=> Dead(i)) /\ (Live(i)' <=> Live(i))
         /\ \A i \in Versions' \ Versions : ~Dead(i)' /\ ~Live(i)'
         /\ LiveVersions' = LiveVersions
         /\ \A i \in Versions : Newer(i) \subseteq Newer(i)' \/ heap'[i].xmax = w
<1> USE WritersAssumption
<1>1. \A x : /\ Committed(x)' <=> Committed(x)
             /\ Active(x)' <=> Active(x)
             /\ Aborted(x)' <=> Aborted(x)
  BY DEF Committed, Active, Aborted
<1>2. \A x : Active(x) => ~Committed(x) /\ ~Aborted(x) /\ x # Nobody
  BY DEF Committed, Active, Aborted
<1>3. \A i \in Versions : (Dead(i)' <=> Dead(i)) /\ (Live(i)' <=> Live(i))
  <2> SUFFICES ASSUME NEW i \in Versions
               PROVE  (Dead(i)' <=> Dead(i)) /\ (Live(i)' <=> Live(i))
    OBVIOUS
  <2>1. Committed(heap[i].xmax)' <=> Committed(heap[i].xmax)
    BY <1>1, <1>2 DEF Extends
  <2>2. /\ Committed(heap[i].xmin)' <=> Committed(heap[i].xmin)
        /\ Aborted(heap[i].xmin)' <=> Aborted(heap[i].xmin)
    BY <1>1 DEF Extends
  <2> QED
    BY <2>1, <2>2 DEF Dead, Live
<1>4. \A i \in Versions' \ Versions : ~Dead(i)' /\ ~Live(i)'
  <2> SUFFICES ASSUME NEW i \in Versions' \ Versions
               PROVE  ~Dead(i)' /\ ~Live(i)'
    OBVIOUS
  <2>1. heap'[i].xmin = w /\ heap'[i].xmax = Nobody
    BY DEF Extends
  <2>2. ~Committed(w)' /\ ~Aborted(w)' /\ ~Committed(Nobody)'
    BY <1>1, <1>2 DEF Committed
  <2> QED
    BY <2>1, <2>2 DEF Dead, Live, Committed, Aborted
<1>5. LiveVersions' = LiveVersions
  BY <1>3, <1>4 DEF LiveVersions, Extends
<1>6. \A i \in Versions : Newer(i) \subseteq Newer(i)' \/ heap'[i].xmax = w
  BY DEF Extends, Newer
<1> QED
  BY <1>1, <1>3, <1>4, <1>5, <1>6

LEMMA ChainExtended ==
  ASSUME UInv, NEW w \in Writers, Active(w), UNCHANGED txn, Extends(w)
  PROVE  Chain'
<1> USE WritersAssumption
<1>1. /\ \A x : /\ Committed(x)' <=> Committed(x)
                /\ Active(x)' <=> Active(x)
      /\ \A i \in Versions : Dead(i)' <=> Dead(i)
  BY ExtendsKeeps
<1>2. ~Committed(w)
  BY DEF Committed, Active
<1>3. ASSUME NEW i \in Versions', heap'[i].xmax # Nobody
      PROVE  Committed(heap[i].xmin)'
  <2>1. i \in Versions
    BY <1>3 DEF Extends
  <2>2. Committed(heap[i].xmin)
    BY <1>3, <2>1 DEF Extends, UInv, Chain
  <2>3. heap'[i].xmin = heap[i].xmin
    BY <2>1 DEF Extends
  <2> QED
    BY <1>1, <2>2, <2>3
<1>4. ASSUME NEW i \in Versions', NEW j \in Versions', i # j, ~Dead(i)', ~Dead(j)'
      PROVE  Follows(i, j)' \/ Follows(j, i)'
  <2>1. ASSUME NEW k \in Versions, NEW l \in Versions, Follows(k, l)
        PROVE  Follows(k, l)'
    <3>1. heap'[l].xmax = heap[l].xmax /\ heap'[k].xmin = heap[k].xmin
      BY <2>1 DEF Follows, Extends, Held
    <3> QED
      BY <1>1, <2>1, <3>1 DEF Follows
  <2>2. ASSUME NEW k \in Versions, NEW l \in Versions' \ Versions, ~Dead(k)'
        PROVE  Follows(l, k)'
    BY <1>1, <2>2 DEF Follows, Extends
  <2>3. CASE i \in Versions /\ j \in Versions
    BY <1>1, <1>4, <2>1, <2>3 DEF UInv, Chain
  <2>4. i \in Versions \/ j \in Versions
    BY <1>4 DEF Extends
  <2> QED
    BY <1>4, <2>2, <2>3, <2>4
<1>5. ASSUME NEW i \in Versions', NEW j \in Versions', i < j,
             Committed(heap[j].xmin)'
      PROVE  Dead(i)'
  <2>1. j \in Versions
    BY <1>1, <1>2, <1>5 DEF Extends
  <2>2. Committed(heap[j].xmin)
    BY <1>1, <1>5, <2>1 DEF Extends
  <2>3. i \in Versions
    <3>1. ASSUME i \notin Versions
          PROVE  FALSE
      <4>1. j < i
        BY <2>1, <3>1 DEF Extends
      <4>2. i \in Nat /\ j \in Nat
        BY VersionsAre, <2>1, <3>1, <1>5 DEF UInv, Extends
      <4> QED
        BY <1>5, <4>1, <4>2
    <3> QED
      BY <3>1
  <2> QED
    BY <1>1, <1>5, <2>1, <2>2, <2>3 DEF UInv, Chain
<1> QED
  BY <1>3, <1>4, <1>5 DEF Chain

\* What the others know still holds.
LEMMA OthersKnowledge ==
  ASSUME UInv, NEW w \in Writers, Active(w), UNCHANGED txn, Extends(w),
         NEW x \in Writers, x # w, wasAbsent \subseteq wasAbsent',
         pc'[x] = pc[x], draw'[x] = draw[x], tid'[x] = tid[x],
         outcome'[x] = outcome[x]
  PROVE  Phase(x)' /\ Knowledge(x)'
<1> USE WritersAssumption
<1>1. /\ \A y : /\ Committed(y)' <=> Committed(y)
                /\ Active(y)' <=> Active(y)
      /\ \A i \in Versions : Newer(i) \subseteq Newer(i)' \/ heap'[i].xmax = w
  BY ExtendsKeeps
<1>2. ~Committed(w) /\ ~Committed(Nobody)
  BY DEF Committed, Active
<1>3. Phase(x) /\ Knowledge(x)
  BY DEF UInv
<1>4. /\ Begins(x)' <=> Begins(x)
      /\ Ends(x)' => Ends(x)
  BY DEF Extends, Begins, Ends
<1>5. Phase(x)'
  BY <1>3, <1>4 DEF Phase
<1>6. ASSUME pc'[x] \in {"lock", "delete"}
      PROVE  tid'[x] \in Versions' /\ Committed(heap[tid[x]].xmin)'
  BY <1>1, <1>3, <1>6 DEF Knowledge, Extends
<1>7. ASSUME pc'[x] = "delete", x \notin wasAbsent', NEW i \in Versions',
             tid'[x] <= i, Committed(heap[i].xmax)'
      PROVE  Newer(i)' # {}
  <2>1. i \in Versions /\ heap'[i].xmax = heap[i].xmax
    BY <1>1, <1>2, <1>7 DEF Extends
  <2>2. Newer(i) # {}
    BY <1>1, <1>3, <1>7, <2>1 DEF Knowledge
  <2>3. heap'[i].xmax # w
    BY <1>1, <1>2, <1>7
  <2> QED
    BY <1>1, <2>1, <2>2, <2>3
<1>8. ASSUME pc'[x] = "commit"
      PROVE  (HasCreated(x) \/ HasReplaced(x) \/ HasRemoved(x)
                \/ HasFoundGone(x))'
  <2>1. Active(x)
    BY <1>3, <1>8 DEF Phase, Active
  <2>2. \A i \in Versions : heap[i].xmax = x => heap'[i].xmax = x
    BY <2>1 DEF Extends, Held
  <2>3. Ends(x)' <=> Ends(x)
    BY <1>4, <2>2 DEF Ends, Extends
  <2>4. CASE HasCreated(x)
    BY <2>3, <2>4 DEF HasCreated, Extends
  <2>5. CASE HasReplaced(x)
    <3>1. PICK i \in Versions, m \in Versions :
            /\ i < m /\ heap[i].xmax = x /\ heap[m].xmin = x
            /\ heap[m].id = heap[i].id /\ heap[m].permission = OpOf[x]
            /\ outcome[x] = Replaced(heap[i].id)
      BY <2>5 DEF HasReplaced
    <3>2. /\ i \in Versions' /\ m \in Versions'
          /\ heap'[i].xmax = x /\ heap'[m].xmin = x
          /\ heap'[m].id = heap'[i].id /\ heap'[m].permission = OpOf[x]
          /\ heap'[i].id = heap[i].id
      BY <2>2, <3>1 DEF Extends
    <3> QED
      BY <2>5, <3>1, <3>2 DEF HasReplaced
  <2>6. CASE HasRemoved(x)
    BY <1>4, <2>3, <2>6 DEF HasRemoved
  <2>7. CASE HasFoundGone(x)
    BY <1>4, <2>3, <2>7 DEF HasFoundGone
  <2> QED
    BY <1>3, <1>8, <2>4, <2>5, <2>6, <2>7 DEF Knowledge
<1> QED
  BY <1>5, <1>6, <1>7, <1>8 DEF Knowledge

LEMMA RemovalsExtended ==
  ASSUME UInv, NEW w \in Writers, Active(w), UNCHANGED txn, Extends(w),
         \A x \in Writers \ {w} : outcome'[x] = outcome[x]
  PROVE  Removals'
<1> USE WritersAssumption
<1>1. /\ \A x : Committed(x)' <=> Committed(x)
      /\ LiveVersions' = LiveVersions
      /\ \A i \in Versions' \ Versions : ~Committed(heap[i].xmin)'
  BY ExtendsKeeps DEF Extends, Committed, Active
<1>2. ~Committed(w)
  BY DEF Committed, Active
<1>3. Removals
  BY DEF UInv
<1>4. ASSUME NEW id, RowRemoved(id)
      PROVE  RowRemoved(id)'
  <2>1. PICK d \in Writers, k \in Versions :
          /\ OpOf[d] = "delete" /\ Told(d, Removed)
          /\ heap[k].id = id /\ heap[k].xmax = d
    BY <1>4 DEF RowRemoved
  <2>2. d # w /\ Committed(d)
    BY <1>2, <2>1 DEF Told, Committed
  <2>3. Told(d, Removed)'
    BY <2>1, <2>2 DEF Told
  <2>4. k \in Versions' /\ heap'[k].id = id /\ heap'[k].xmax = d
    BY <2>1, <2>2 DEF Extends
  <2> QED
    BY <2>1, <2>3, <2>4 DEF RowRemoved
<1>5. ASSUME NEW id, RowLives(id)
      PROVE  RowLives(id)'
  <2>1. PICK l \in LiveVersions : heap[l].id = id
    BY <1>5 DEF RowLives
  <2>2. heap'[l].id = id
    BY <2>1 DEF Extends, LiveVersions
  <2> QED
    BY <1>1, <2>1, <2>2 DEF RowLives
<1>6. ASSUME NEW i \in Versions', Committed(heap[i].xmin)'
      PROVE  RowLives(heap[i].id)' \/ RowRemoved(heap[i].id)'
  <2>1. i \in Versions /\ heap'[i].id = heap[i].id /\ Committed(heap[i].xmin)
    BY <1>1, <1>6 DEF Extends
  <2>2. PICK id : id = heap[i].id
    OBVIOUS
  <2>3. RowLives(id)' \/ RowRemoved(id)'
    BY <1>3, <1>4, <1>5, <2>1, <2>2 DEF Removals
  <2>4. heap'[i].id = id
    BY <2>1, <2>2
  <2> QED
    BY <2>3, <2>4 DEF RowLives, RowRemoved
<1>7. ASSUME NEW x \in Writers, Committed(x)', outcome'[x].kind = "Created"
      PROVE  \E m \in Versions' : heap'[m].xmin = x /\ heap'[m].id = outcome'[x].id
  <2>1. x # w /\ Committed(x) /\ outcome'[x] = outcome[x]
    BY <1>1, <1>2, <1>7
  <2>2. PICK m \in Versions : heap[m].xmin = x /\ heap[m].id = outcome[x].id
    BY <1>3, <1>7, <2>1 DEF Removals
  <2>3. m \in Versions' /\ heap'[m].xmin = x /\ heap'[m].id = outcome'[x].id
    BY <2>1, <2>2 DEF Extends
  <2> QED
    BY <2>3
<1> QED
  BY <1>6, <1>7 DEF Removals

\* Whoever is under way while the share is absent is noted.
LEMMA Observing ==
  ASSUME UInv, Observe
  PROVE  /\ wasAbsent \subseteq wasAbsent' /\ wasAbsent' \subseteq Writers
         /\ Absences'
<1>1. wasAbsent \subseteq wasAbsent' /\ wasAbsent' \subseteq Writers
  BY DEF Observe, UInv, Types
<1>2. LiveVersions' = {} => Share' = NoShare
  BY DEF Share
<1>3. Absences'
  BY <1>2 DEF Absences, Observe, Active
<1> QED
  BY <1>1, <1>3

\* A statement under way.
LEMMA Running ==
  ASSUME UInv, NEW w \in Writers, pc[w] \notin {"idle", "done"}
  PROVE  /\ Active(w) /\ txn[w] = "active"
         /\ Phase(w) /\ Knowledge(w)
         /\ pc[w] # "commit" => ~Begins(w) /\ ~Ends(w)
BY WritersAssumption DEF UInv, Phase, Active

\* The version which is locked or deleted is the only one which may yet count,
\* once nobody else is ending it.
LEMMA Reached ==
  ASSUME UInv, NEW w \in Writers, pc[w] \in {"lock", "delete"},
         ~Held(tid[w]), ~Committed(heap[tid[w]].xmax)
  PROVE  /\ tid[w] \in Versions /\ Live(tid[w])
         /\ \A i \in Versions : ~Dead(i) => i = tid[w]
<1> USE WritersAssumption
<1>1. tid[w] \in Versions /\ Committed(heap[tid[w]].xmin)
  BY DEF UInv, Knowledge
<1>2. Live(tid[w]) /\ ~Dead(tid[w])
  BY <1>1 DEF Live, Dead, Committed, Aborted
<1>3. ASSUME NEW i \in Versions, ~Dead(i), i # tid[w]
      PROVE  FALSE
  <2>1. Follows(i, tid[w]) \/ Follows(tid[w], i)
    BY <1>1, <1>2, <1>3 DEF UInv, Chain
  <2>2. ~Follows(i, tid[w])
    BY DEF Follows, Held
  <2> QED
    BY <1>1, <2>1, <2>2 DEF Follows, Committed, Active
<1> QED
  BY <1>1, <1>2, <1>3

\* A step which leaves the versions alone.
LEMMA Resting ==
  ASSUME UInv, UNCHANGED heap, NEW w
  PROVE  Extends(w)
BY DEF Extends, Versions

\* The ids, when a statement which has drawn its id, or needs none, goes on.
LEMMA IdsExtended ==
  ASSUME UInv, NEW w \in Writers, Active(w), Extends(w),
         UNCHANGED <<txn, draw, sequence>>,
         pc[w] \notin {"idle", "draw", "commit", "done"},
         pc'[w] \notin {"idle", "draw"},
         pc'[w] \in {"probe", "insert", "lock"} => pc[w] \in {"probe", "insert", "lock"},
         outcome'[w].kind = "Created" =>
           w \in Drawn /\ outcome'[w] = Created(draw[w]),
         \A x \in Writers \ {w} : pc'[x] = pc[x] /\ outcome'[x] = outcome[x],
         \A j \in Versions' \ Versions :
           /\ heap'[j].id < sequence
           /\ \A x \in Drawn :
                heap'[j].id = draw[x] =>
                  IF x = w
                    THEN pc'[w] = "commit" /\ outcome'[w] = Created(draw[w])
                    ELSE /\ pc[x] \in {"commit", "done"} /\ Committed(x)
                         /\ outcome[x] = Created(draw[x])
  PROVE  Ids'
<1> USE WritersAssumption
<1>1. Ids
  BY DEF UInv
<1>2. Drawn' = Drawn
  BY DEF Drawn
<1>3. \A x : Committed(x)' <=> Committed(x)
  BY DEF Committed
<1>4. \A i \in Versions' : heap'[i].id < sequence'
  BY <1>1 DEF Ids, Extends
<1>5. ASSUME NEW x \in Writers
      PROVE  /\ pc'[x] \in {"idle", "draw"} => draw'[x] = 0
             /\ pc'[x] \in {"probe", "insert", "lock"} => draw'[x] # 0
             /\ draw'[x] < sequence'
             /\ outcome'[x].kind = "Created" =>
                  x \in Drawn' /\ outcome'[x].id = draw'[x]
  BY <1>1, <1>2, Kinds DEF Ids
<1>6. ASSUME NEW x \in Drawn, NEW i \in Versions', heap'[i].id = draw[x]
      PROVE  /\ pc'[x] \in {"commit", "done"} /\ outcome'[x] = Created(draw[x])
             /\ heap'[i].xmin = x \/ Committed(x)
  <2>1. x \in Writers
    BY DEF Drawn
  <2>2. CASE i \in Versions
    <3>1. heap[i].id = draw[x] /\ heap'[i].xmin = heap[i].xmin
      BY <1>6, <2>2 DEF Extends
    <3>2. /\ pc[x] \in {"commit", "done"} /\ outcome[x] = Created(draw[x])
          /\ heap[i].xmin = x \/ Committed(x)
      BY <1>1, <2>2, <3>1 DEF Ids
    <3> QED
      BY <2>1, <3>1, <3>2
  <2>3. CASE i \notin Versions
    BY <1>6, <2>1, <2>3 DEF Extends
  <2> QED
    BY <2>2, <2>3
<1> QED
  BY <1>1, <1>2, <1>3, <1>4, <1>5, <1>6 DEF Ids

\* A statement which goes on without writing.
LEMMA RestingKeeps ==
  ASSUME UInv, NEW w \in Writers, Observe,
         UNCHANGED <<heap, txn, draw, sequence>>,
         NEW label \in {"probe", "insert", "lock", "delete", "commit"},
         pc' = [pc EXCEPT ![w] = label],
         tid' \in [Writers -> Nat], \A x \in Writers \ {w} : tid'[x] = tid[x],
         outcome' = outcome \/ outcome' = [outcome EXCEPT ![w] = Removed],
         label \in {"probe", "insert", "lock"} =>
           pc[w] \in {"probe", "insert", "lock"},
         label \in {"delete", "commit"} => pc[w] \in {"scan", "delete"},
         label \in {"lock", "delete"} =>
           tid'[w] \in Versions /\ Committed(heap[tid'[w]].xmin),
         label = "delete" /\ w \notin wasAbsent' =>
           \A i \in Versions :
             tid'[w] <= i /\ Committed(heap[i].xmax) => Newer(i) # {},
         label = "commit" =>
           w \in wasAbsent /\ outcome' = [outcome EXCEPT ![w] = Removed]
  PROVE  UInv' /\ Extends(w)
<1> USE WritersAssumption
<1>1. /\ Active(w) /\ Phase(w) /\ ~Begins(w) /\ ~Ends(w)
      /\ pc[w] \in {"probe", "insert", "lock", "scan", "delete"}
  BY Running
<1>2. Types /\ Ids
  BY DEF UInv
<1>3. /\ pc'[w] = label /\ pc' \in [Writers -> {"idle", "draw", "probe", "insert",
                               "lock", "scan", "delete", "commit", "done"}]
      /\ outcome' \in [Writers -> Outcomes]
      /\ \A x \in Writers \ {w} : pc'[x] = pc[x] /\ outcome'[x] = outcome[x]
  <2>1. /\ pc'[w] = label
        /\ pc' \in [Writers -> {"idle", "draw", "probe", "insert", "lock",
                               "scan", "delete", "commit", "done"}]
        /\ \A x \in Writers \ {w} : pc'[x] = pc[x]
    BY <1>2 DEF Types
  <2>2. outcome \in [Writers -> Outcomes] /\ Removed \in Outcomes
    BY <1>2, Kinds DEF Types
  <2>3. /\ outcome' \in [Writers -> Outcomes]
        /\ \A x \in Writers \ {w} : outcome'[x] = outcome[x]
    BY <2>2
  <2> QED
    BY <2>1, <2>3
<1>4. Extends(w) /\ Versions' = Versions
  BY Resting DEF Versions
<1>5. Types'
  BY <1>2, <1>3, Observing DEF Types
<1>6. Chain'
  BY <1>1, <1>4, ChainExtended
<1>7. \A x \in Writers \ {w} : Phase(x)' /\ Knowledge(x)'
  BY <1>1, <1>3, <1>4, Observing, OthersKnowledge
<1>8. Begins(w)' = Begins(w) /\ Ends(w)' = Ends(w)
  BY <1>4 DEF Begins, Ends
<1>9. Phase(w)'
  BY <1>1, <1>3, <1>8 DEF Phase
<1>10. Knowledge(w)'
  <2>1. label \in {"lock", "delete"} =>
          tid'[w] \in Versions' /\ Committed(heap[tid[w]].xmin)'
    BY <1>4 DEF Committed
  <2>2. label = "delete" /\ w \notin wasAbsent' =>
          \A i \in Versions' :
            tid'[w] <= i /\ Committed(heap[i].xmax)' => Newer(i)' # {}
    BY <1>4 DEF Committed, Newer
  <2>3. ASSUME label = "commit"
        PROVE  HasFoundGone(w)'
    BY <1>1, <1>2, <1>8, <2>3, Observing DEF Types, Phase, HasFoundGone
  <2> QED
    BY <1>3, <2>1, <2>2, <2>3 DEF Knowledge
<1>11. outcome'[w].kind = "Created" => outcome'[w] = outcome[w]
  BY <1>2, Kinds DEF Types
<1>12. Removals'
  BY <1>1, <1>3, <1>4, RemovalsExtended
<1>13. Ids'
  <2>1. outcome'[w].kind = "Created" => w \in Drawn /\ outcome'[w] = Created(draw[w])
    BY <1>2, <1>11 DEF Ids, Types, Outcomes, Created
  <2> QED
    BY <1>1, <1>3, <1>4, <2>1, IdsExtended
<1> QED
  BY <1>4, <1>5, <1>6, <1>7, <1>9, <1>10, <1>12, <1>13, Observing DEF UInv

------------------------------------------------------------------------------
(***************************************************************************)
(* The INSERT ... ON CONFLICT DO UPDATE.                                   *)
(***************************************************************************)
LEMMA DrawKeeps ==
  ASSUME UInv, NEW w \in Writers, Draw(w), Observe
  PROVE  UInv' /\ Extends(w)
<1> USE WritersAssumption
<1>1. /\ Active(w) /\ Phase(w) /\ ~Begins(w) /\ ~Ends(w)
      /\ UNCHANGED <<heap, txn, tid, outcome>>
      /\ pc[w] = "draw" /\ pc' = [pc EXCEPT ![w] = "probe"]
      /\ draw' = [draw EXCEPT ![w] = sequence] /\ sequence' = sequence + 1
  BY Running DEF Draw, Go
<1>2. Types /\ Ids
  BY DEF UInv
<1>3. Extends(w)
  BY <1>1, Resting
<1>4. Types'
  BY <1>1, <1>2, Observing DEF Types
<1>5. Chain'
  BY <1>1, <1>3, ChainExtended
<1>6. \A x \in Writers \ {w} : Phase(x)' /\ Knowledge(x)'
  BY <1>1, <1>2, <1>3, Observing, OthersKnowledge DEF Types
<1>7. Phase(w)' /\ Knowledge(w)'
  BY <1>1, <1>2 DEF Types, Phase, Knowledge, Begins, Ends, Versions
<1>8. Removals'
  BY <1>1, <1>2, <1>3, RemovalsExtended DEF Types
<1>9. Ids'
  <2>1. draw[w] = 0 /\ Drawn' = Drawn \cup {w} /\ w \notin Drawn
    BY <1>1, <1>2 DEF Types, Ids, Drawn
  <2>2. /\ Cardinality(Drawn') = Cardinality(Drawn) + 1
        /\ Cardinality(Drawn) \in Nat
    <3>1. IsFiniteSet(Drawn)
      BY FS_Subset DEF Drawn
    <3> QED
      BY <2>1, <3>1, FS_AddElement, FS_CardinalityType
  <2>3. sequence' <= Cardinality(Drawn') + 2
    BY <1>1, <1>2, <2>2 DEF Types, Ids
  <2>4. \A i \in Versions' : /\ i \in Versions /\ heap'[i].id < sequence
                             /\ heap'[i].id \in Nat
    BY <1>1, <1>2, VersionsAre DEF Ids, Versions
  <2>5. \A x \in Writers :
          /\ x # w => draw'[x] = draw[x] /\ pc'[x] = pc[x]
          /\ draw[x] \in Nat /\ draw[x] < sequence
    BY <1>1, <1>2 DEF Types, Ids
  <2>6. draw'[w] = sequence /\ pc'[w] = "probe" /\ sequence \in Nat \ {0}
    BY <1>1, <1>2 DEF Types
  <2>7. outcome[w].kind # "Created"
    BY <1>2, <2>1 DEF Ids
  <2>8. ASSUME NEW x \in Writers
        PROVE  /\ pc'[x] \in {"idle", "draw"} => draw'[x] = 0
               /\ pc'[x] \in {"probe", "insert", "lock"} => draw'[x] # 0
               /\ draw'[x] < sequence'
               /\ outcome'[x].kind = "Created" =>
                    x \in Drawn' /\ outcome'[x].id = draw'[x]
    BY <1>1, <1>2, <2>1, <2>5, <2>6, <2>7 DEF Ids
  <2>9. \A x, y \in Drawn' : x # y => draw'[x] # draw'[y]
    BY <1>2, <2>1, <2>5, <2>6 DEF Ids, Drawn
  <2>10. ASSUME NEW x \in Drawn', NEW i \in Versions', heap'[i].id = draw'[x]
         PROVE  /\ pc'[x] \in {"commit", "done"} /\ outcome'[x] = Created(draw'[x])
                /\ heap'[i].xmin = x \/ Committed(x)'
    <3>1. x # w
      BY <2>4, <2>6, <2>10
    <3>2. x \in Drawn /\ heap[i].id = draw[x]
      BY <1>1, <2>1, <2>5, <2>10, <3>1 DEF Drawn
    <3> QED
      BY <1>1, <1>2, <2>4, <2>5, <3>1, <3>2 DEF Ids, Committed, Drawn
  <2> QED
    BY <1>1, <2>3, <2>4, <2>6, <2>8, <2>9, <2>10 DEF Ids
<1> QED
  BY <1>3, <1>4, <1>5, <1>6, <1>7, <1>8, <1>9, Observing DEF UInv

LEMMA ProbeKeeps ==
  ASSUME UInv, NEW w \in Writers, Probe(w), Observe
  PROVE  UInv' /\ Extends(w)
<1> USE WritersAssumption
<1>1. pc[w] = "probe" /\ UNCHANGED <<heap, txn, draw, outcome, sequence>> /\ Types
  BY DEF Probe, UInv
<1>2. CASE pc' = [pc EXCEPT ![w] = "insert"] /\ UNCHANGED tid
  BY <1>1, <1>2, RestingKeeps DEF Types
<1>3. ASSUME NEW i \in Versions, ~Dead(i), ~Active(heap[i].xmin),
             tid' = [tid EXCEPT ![w] = i], pc' = [pc EXCEPT ![w] = "lock"]
      PROVE  UInv' /\ Extends(w)
  <2>1. heap[i].xmin \in Writers \cup {Setup} /\ i \in Nat
    BY <1>1, VersionsAre
  <2>2. txn[heap[i].xmin] # "none"
    BY <1>1, <2>1 DEF UInv, Types, Phase, Begins
  <2>3. Committed(heap[i].xmin)
    BY <1>1, <1>3, <2>1, <2>2 DEF Types, Committed, Active, Aborted, Dead
  <2>4. /\ tid' \in [Writers -> Nat] /\ tid'[w] = i
        /\ \A x \in Writers \ {w} : tid'[x] = tid[x]
    BY <1>1, <1>3, <2>1 DEF Types
  <2> QED
    BY <1>1, <1>3, <2>3, <2>4, RestingKeeps
<1> QED
  BY <1>2, <1>3 DEF Probe, Go

\* What a statement which writes has to show for the rest to hold.
LEMMA WritingKeeps ==
  ASSUME UInv, NEW w \in Writers, Observe, Extends(w),
         UNCHANGED <<txn, draw, tid, sequence>>, heap' \in Seq(Row),
         pc[w] \in {"insert", "lock", "delete"},
         pc' = [pc EXCEPT ![w] = "commit"],
         NEW result \in Outcomes, outcome' = [outcome EXCEPT ![w] = result],
         result.kind = "Created" => result = Created(draw[w]) /\ w \in Drawn,
         (HasCreated(w) \/ HasReplaced(w) \/ HasRemoved(w) \/ HasFoundGone(w))',
         \A j \in Versions' \ Versions :
           /\ heap'[j].id < sequence
           /\ \A x \in Drawn :
                heap'[j].id = draw[x] =>
                  IF x = w
                    THEN result = Created(draw[w])
                    ELSE /\ pc[x] \in {"commit", "done"} /\ Committed(x)
                         /\ outcome[x] = Created(draw[x])
  PROVE  UInv' /\ Extends(w)
<1> USE WritersAssumption
<1>1. Active(w) /\ Phase(w)
  BY Running
<1>2. Types
  BY DEF UInv
<1>3. /\ pc'[w] = "commit" /\ outcome'[w] = result
      /\ \A x \in Writers \ {w} : pc'[x] = pc[x] /\ outcome'[x] = outcome[x]
  BY <1>2 DEF Types
<1>4. Types'
  BY <1>2, Observing DEF Types
<1>5. Chain'
  BY <1>1, ChainExtended
<1>6. \A x \in Writers \ {w} : Phase(x)' /\ Knowledge(x)'
  BY <1>1, <1>3, Observing, OthersKnowledge
<1>7. Phase(w)' /\ Knowledge(w)'
  <2>1. Phase(w)'
    BY <1>1, <1>3 DEF Phase
  <2> QED
    BY <1>3, <2>1 DEF Knowledge
<1>8. Removals'
  BY <1>1, <1>3, RemovalsExtended
<1>9. Ids'
  BY <1>1, <1>3, IdsExtended
<1> QED
  BY <1>4, <1>5, <1>6, <1>7, <1>8, <1>9, Observing DEF UInv

\* The row is inserted where no version counts, or may yet.
LEMMA InsertKeeps ==
  ASSUME UInv, NEW w \in Writers, Insert(w), Observe
  PROVE  UInv' /\ Extends(w)
<1> USE WritersAssumption
<1>1. /\ pc[w] = "insert" /\ UNCHANGED <<txn, draw, tid, sequence>> /\ Types /\ Ids
      /\ Phase(w) /\ ~Begins(w) /\ ~Ends(w)
  BY Running DEF Insert, UInv
<1>2. CASE pc' = [pc EXCEPT ![w] = "probe"] /\ UNCHANGED <<heap, outcome>>
  BY <1>1, <1>2, RestingKeeps DEF Types
<1>3. ASSUME ~Occupied, heap' = Append(heap, Version(draw[w], OpOf[w], w)),
             outcome' = [outcome EXCEPT ![w] = Created(draw[w])],
             pc' = [pc EXCEPT ![w] = "commit"]
      PROVE  UInv' /\ Extends(w)
  <2> DEFINE new == Version(draw[w], OpOf[w], w)
             m == Len(heap) + 1
  <2>1. /\ OpOf[w] \in {"read", "read_write"} /\ draw[w] \in Nat \ {0}
        /\ w \in Drawn /\ draw[w] < sequence
    BY <1>1 DEF Phase, Types, Ids, Drawn
  <2>2. /\ new \in Row /\ new.id = draw[w] /\ new.permission = OpOf[w]
        /\ new.xmin = w /\ new.xmax = Nobody
    BY <2>1 DEF Version, Row
  <2> HIDE DEF new
  <2>3. /\ heap' \in Seq(Row) /\ Versions' = Versions \cup {m}
        /\ \A i \in Versions : i \in Nat /\ i < m /\ heap'[i] = heap[i]
        /\ heap'[m] = new
    BY <1>1, <1>3, <2>2, Appending DEF Types, Versions, new
  <2>4. m \in Nat /\ m \notin Versions
    BY <1>1, VersionsAre
  <2> HIDE DEF m
  <2>5. \A i \in Versions : Dead(i)
    BY <1>3 DEF Occupied
  <2>6. Extends(w)
    BY <2>2, <2>3, <2>4, <2>5 DEF Extends
  <2>7. HasCreated(w)'
    <3>1. outcome'[w] = Created(draw[w])
      BY <1>1, <1>3 DEF Types
    <3>2. ~Ends(w)'
      BY <1>1, <2>2, <2>3 DEF Ends
    <3> QED
      BY <1>1, <2>1, <2>2, <2>3, <3>1, <3>2 DEF HasCreated
  <2>8. ASSUME NEW x \in Drawn, draw[w] = draw[x]
        PROVE  x = w
    BY <1>1, <2>1, <2>8 DEF Ids
  <2>9. Created(draw[w]) \in Outcomes
    BY <2>1, Kinds
  <2>10. ASSUME NEW j \in Versions' \ Versions
         PROVE  /\ heap'[j].id < sequence
                /\ \A x \in Drawn : heap'[j].id = draw[x] => x = w
    BY <2>1, <2>2, <2>3, <2>8
  <2> DEFINE result == Created(draw[w])
  <2>11. /\ result \in Outcomes /\ outcome' = [outcome EXCEPT ![w] = result]
         /\ result = Created(draw[w])
    BY <1>3, <2>9
  <2> HIDE DEF result
  <2>12. result.kind = "Created" => result = Created(draw[w]) /\ w \in Drawn
    BY <2>1, <2>11
  <2>13. \A j \in Versions' \ Versions :
           /\ heap'[j].id < sequence
           /\ \A x \in Drawn :
                heap'[j].id = draw[x] =>
                  IF x = w
                    THEN result = Created(draw[w])
                    ELSE /\ pc[x] \in {"commit", "done"} /\ Committed(x)
                         /\ outcome[x] = Created(draw[x])
    BY <2>10, <2>11
  <2>14. (HasCreated(w) \/ HasReplaced(w) \/ HasRemoved(w) \/ HasFoundGone(w))'
    BY <2>7
  <2>15. /\ pc[w] \in {"insert", "lock", "delete"} /\ heap' \in Seq(Row)
         /\ UNCHANGED <<txn, draw, tid, sequence>>
         /\ pc' = [pc EXCEPT ![w] = "commit"]
         /\ outcome' = [outcome EXCEPT ![w] = result]
    BY <1>1, <1>3, <2>3, <2>11
  <2>16. result \in Outcomes
    BY <2>11
  <2> QED
    BY <2>6, <2>12, <2>13, <2>14, <2>15, <2>16, WritingKeeps
<1> QED
  BY <1>2, <1>3 DEF Insert, Go

LEMMA Ending ==
  ASSUME Types, NEW w \in Writers, NEW t \in Versions
  PROVE  LET ended == [heap EXCEPT ![t].xmax = w]
         IN /\ ended \in Seq(Row) /\ Len(ended) = Len(heap)
            /\ DOMAIN ended = Versions
            /\ \A i \in Versions :
                 /\ ended[i].id = heap[i].id
                 /\ ended[i].permission = heap[i].permission
                 /\ ended[i].xmin = heap[i].xmin
                 /\ ended[i].xmax = IF i = t THEN w ELSE heap[i].xmax
<1> DEFINE row == [heap[t] EXCEPT !.xmax = w]
           ended == [heap EXCEPT ![t] = row]
<1>1. /\ \A i \in Versions : heap[i] \in Row
      /\ Len(heap) \in Nat /\ Versions = 1..Len(heap) /\ heap \in [Versions -> Row]
  BY VersionsAre DEF Types, Versions
<1>2. /\ row \in Row /\ row.id = heap[t].id /\ row.permission = heap[t].permission
      /\ row.xmin = heap[t].xmin /\ row.xmax = w
  BY <1>1 DEF Row
<1> HIDE DEF row
<1>3. /\ ended \in [Versions -> Row] /\ ended[t] = row
      /\ \A i \in Versions \ {t} : ended[i] = heap[i]
  BY <1>1, <1>2
<1>4. ended \in Seq(Row) /\ Len(ended) = Len(heap)
  BY <1>1, <1>3
<1>5. DOMAIN ended = Versions
  BY <1>3
<1>6. \A i \in Versions :
        /\ ended[i].id = heap[i].id
        /\ ended[i].permission = heap[i].permission
        /\ ended[i].xmin = heap[i].xmin
        /\ ended[i].xmax = IF i = t THEN w ELSE heap[i].xmax
  BY <1>2, <1>3
<1> QED
  BY <1>4, <1>5, <1>6 DEF row

\* The row is updated: its version is ended, and a new one put in its place.
LEMMA LockKeeps ==
  ASSUME UInv, NEW w \in Writers, Lock(w), Observe
  PROVE  UInv' /\ Extends(w)
<1> USE WritersAssumption
<1> DEFINE t == tid[w]
           id == heap[t].id
           result == Replaced(id)
           new == Version(id, OpOf[w], w)
           ended == [heap EXCEPT ![t].xmax = w]
           m == Len(heap) + 1
<1>1. /\ pc[w] = "lock" /\ ~Held(t) /\ UNCHANGED <<txn, draw, tid, sequence>>
      /\ Types /\ Ids /\ Chain /\ Phase(w) /\ ~Begins(w) /\ ~Ends(w)
  BY Running DEF Lock, UInv
<1>2. CASE pc' = [pc EXCEPT ![w] = "probe"] /\ UNCHANGED <<heap, outcome>>
  BY <1>1, <1>2, RestingKeeps DEF Types
<1>3. ASSUME ~Committed(heap[t].xmax), heap' = Append(ended, new),
             outcome' = [outcome EXCEPT ![w] = result],
             pc' = [pc EXCEPT ![w] = "commit"]
      PROVE  UInv' /\ Extends(w)
  <2>1. /\ t \in Versions /\ Live(t) /\ \A i \in Versions : ~Dead(i) => i = t
    BY <1>1, <1>3, Reached
  <2> HIDE DEF t
  <2>2. /\ OpOf[w] \in {"read", "read_write"} /\ id \in Nat \ {0} /\ id < sequence
    BY <1>1, <2>1, VersionsAre DEF Phase, Types, Ids
  <2> HIDE DEF id
  <2>3. /\ new \in Row /\ new.id = id /\ new.permission = OpOf[w]
        /\ new.xmin = w /\ new.xmax = Nobody
    BY <2>2 DEF Version, Row
  <2> HIDE DEF new
  <2>4. /\ ended \in Seq(Row) /\ Len(ended) = Len(heap) /\ DOMAIN ended = Versions
        /\ \A i \in Versions :
             /\ ended[i].id = heap[i].id
             /\ ended[i].permission = heap[i].permission
             /\ ended[i].xmin = heap[i].xmin
             /\ ended[i].xmax = IF i = t THEN w ELSE heap[i].xmax
    BY <1>1, <2>1, Ending
  <2> HIDE DEF ended
  <2>5. /\ heap' \in Seq(Row) /\ Versions' = Versions \cup {m}
        /\ \A i \in Versions : i \in Nat /\ i < m /\ heap'[i] = ended[i]
        /\ heap'[m] = new
    BY <1>3, <2>3, <2>4, Appending DEF Versions
  <2>6. m \in Nat /\ m \notin Versions
    BY <1>1, VersionsAre
  <2> HIDE DEF m
  <2>7. Committed(heap[t].xmin)
    BY <2>1 DEF Live
  <2>8. Extends(w)
    <3>1. \A i \in Versions :
            /\ heap'[i].id = heap[i].id
            /\ heap'[i].permission = heap[i].permission
            /\ heap'[i].xmin = heap[i].xmin
            /\ i # t => heap'[i].xmax = heap[i].xmax
            /\ i = t => heap'[i].xmax = w
      BY <2>4, <2>5
    <3>2. \A i \in Versions : ~Dead(i) => heap'[i].xmax = w
      BY <2>1, <3>1
    <3>3. Versions \subseteq Versions' /\ m \in Nat /\ m \notin Versions
      BY <2>5, <2>6
    <3>4. \A j \in Versions' \ Versions :
            /\ j = m /\ heap'[j].xmin = w /\ heap'[j].xmax = Nobody
            /\ \A i \in Versions : i < j
      BY <2>3, <2>5
    <3>5. ~Held(t) /\ ~Committed(heap[t].xmax)
      BY <1>1, <1>3
    <3>6. \A i \in Versions :
            /\ heap'[i].id = heap[i].id
            /\ heap'[i].permission = heap[i].permission
            /\ heap'[i].xmin = heap[i].xmin
            /\ \/ heap'[i].xmax = heap[i].xmax
               \/ /\ heap'[i].xmax = w /\ Committed(heap[i].xmin)
                  /\ ~Held(i) /\ ~Committed(heap[i].xmax)
      BY <2>7, <3>1, <3>5
    <3> QED
      BY <3>2, <3>3, <3>4, <3>6 DEF Extends
  <2>9. outcome'[w] = result
    BY <1>1, <1>3 DEF Types
  <2>10. HasReplaced(w)'
    <3>1. /\ t \in Versions' /\ m \in Versions' /\ t < m
          /\ heap'[t].xmax = w /\ heap'[m].xmin = w
          /\ heap'[m].id = heap'[t].id /\ heap'[m].permission = OpOf[w]
          /\ heap'[t].id = id
      BY <2>1, <2>3, <2>4, <2>5 DEF id
    <3> QED
      BY <1>1, <2>2, <2>9, <3>1 DEF HasReplaced
  <2>11. result \in Outcomes /\ result.kind # "Created"
    BY <2>2, Kinds
  <2> HIDE DEF result
  <2>12. \A j \in Versions' \ Versions :
           /\ heap'[j].id < sequence
           /\ \A x \in Drawn :
                heap'[j].id = draw[x] =>
                  IF x = w
                    THEN result = Created(draw[w])
                    ELSE /\ pc[x] \in {"commit", "done"} /\ Committed(x)
                         /\ outcome[x] = Created(draw[x])
    <3>1. ASSUME NEW x \in Drawn, id = draw[x]
          PROVE  /\ x # w /\ pc[x] \in {"commit", "done"} /\ Committed(x)
                 /\ outcome[x] = Created(draw[x])
      BY <1>1, <2>1, <2>7, <3>1 DEF Ids, id
    <3> QED
      BY <2>2, <2>3, <2>5, <3>1
  <2>13. (HasCreated(w) \/ HasReplaced(w) \/ HasRemoved(w) \/ HasFoundGone(w))'
    BY <2>10
  <2>14. result.kind = "Created" => result = Created(draw[w]) /\ w \in Drawn
    BY <2>11
  <2>15. /\ pc[w] \in {"insert", "lock", "delete"} /\ heap' \in Seq(Row)
         /\ UNCHANGED <<txn, draw, tid, sequence>>
         /\ pc' = [pc EXCEPT ![w] = "commit"]
         /\ outcome' = [outcome EXCEPT ![w] = result]
    BY <1>1, <1>3, <2>5
  <2> QED
    BY <2>8, <2>11, <2>12, <2>13, <2>14, <2>15, WritingKeeps
<1> QED
  BY <1>2, <1>3 DEF Lock, Go

------------------------------------------------------------------------------
(***************************************************************************)
(* The DELETE.                                                             *)
(***************************************************************************)
LEMMA ScanKeeps ==
  ASSUME UInv, NEW w \in Writers, Scan(w), Observe
  PROVE  UInv' /\ Extends(w)
<1> USE WritersAssumption
<1>1. /\ pc[w] = "scan" /\ UNCHANGED <<heap, txn, draw, sequence>>
      /\ Types /\ Chain /\ Active(w)
  BY Running DEF Scan, UInv
<1>2. CASE /\ LiveVersions = {} /\ outcome' = [outcome EXCEPT ![w] = Removed]
           /\ pc' = [pc EXCEPT ![w] = "commit"] /\ UNCHANGED tid
  <2>1. w \in wasAbsent
    BY <1>1, <1>2 DEF UInv, Absences
  <2> QED
    BY <1>1, <1>2, <2>1, RestingKeeps DEF Types
<1>3. ASSUME NEW i \in Versions, Live(i), tid' = [tid EXCEPT ![w] = i],
             pc' = [pc EXCEPT ![w] = "delete"], UNCHANGED outcome
      PROVE  UInv' /\ Extends(w)
  <2>1. /\ tid' \in [Writers -> Nat] /\ tid'[w] = i
        /\ \A x \in Writers \ {w} : tid'[x] = tid[x]
    BY <1>1, <1>3, VersionsAre DEF Types
  <2>2. Committed(heap[i].xmin) /\ ~Committed(heap[i].xmax)
    BY <1>3 DEF Live
  <2>3. ASSUME NEW j \in Versions, i <= j, Committed(heap[j].xmax)
        PROVE  FALSE
    <3>1. i < j
      BY <1>1, <2>2, <2>3, VersionsAre
    <3>2. Committed(heap[j].xmin)
      BY <1>1, <2>3 DEF Chain, Committed
    <3>3. Dead(i)
      BY <1>1, <3>1, <3>2 DEF Chain
    <3> QED
      BY <1>3, <3>3 DEF Live, Dead, Committed, Aborted
  <2> QED
    BY <1>1, <1>3, <2>1, <2>2, <2>3, RestingKeeps
<1> QED
  BY <1>2, <1>3 DEF Scan, Go, LiveVersions

\* The version is ended; or was, by an update which is followed, or by another
\* DELETE, in which case the share has been absent since this one started.
LEMMA DeleteKeeps ==
  ASSUME UInv, NEW w \in Writers, Delete(w), Observe
  PROVE  UInv' /\ Extends(w)
<1> USE WritersAssumption
<1> DEFINE t == tid[w]
           ended == [heap EXCEPT ![t].xmax = w]
<1>1. /\ pc[w] = "delete" /\ ~Held(t) /\ UNCHANGED <<txn, draw, sequence>>
      /\ Types /\ Chain /\ Phase(w) /\ Knowledge(w) /\ ~Begins(w) /\ ~Ends(w)
  BY Running DEF Delete, UInv
<1>2. t \in Versions /\ Committed(heap[t].xmin) /\ t \in Nat
  BY <1>1, VersionsAre DEF Knowledge
<1>3. ASSUME Committed(heap[t].xmax), NEW i \in Newer(t),
             tid' = [tid EXCEPT ![w] = i], UNCHANGED <<heap, outcome, pc>>
      PROVE  UInv' /\ Extends(w)
  <2>1. i \in Versions /\ t < i /\ heap[i].xmin = heap[t].xmax /\ i \in Nat
    BY <1>1, VersionsAre DEF Newer
  <2>2. /\ tid' \in [Writers -> Nat] /\ tid'[w] = i
        /\ \A x \in Writers \ {w} : tid'[x] = tid[x]
    BY <1>1, <1>3, <2>1 DEF Types
  <2>3. pc' = [pc EXCEPT ![w] = "delete"]
    BY <1>1, <1>3 DEF Types
  <2>4. Committed(heap[i].xmin)
    BY <1>3, <2>1
  <2>5. ASSUME w \notin wasAbsent', NEW j \in Versions, i <= j,
               Committed(heap[j].xmax)
        PROVE  Newer(j) # {}
    <3>1. t <= j
      BY <1>1, <1>2, <2>1, <2>5, VersionsAre
    <3>2. w \notin wasAbsent
      BY <2>5, Observing
    <3> QED
      BY <1>1, <2>5, <3>1, <3>2 DEF Knowledge
  <2> QED
    BY <1>1, <1>3, <2>1, <2>2, <2>3, <2>4, <2>5, RestingKeeps
<1>4. ASSUME Committed(heap[t].xmax), Newer(t) = {},
             outcome' = [outcome EXCEPT ![w] = Removed],
             pc' = [pc EXCEPT ![w] = "commit"], UNCHANGED <<heap, tid>>
      PROVE  UInv' /\ Extends(w)
  <2>1. w \in wasAbsent
    BY <1>1, <1>2, <1>4 DEF Knowledge
  <2> QED
    BY <1>1, <1>4, <2>1, RestingKeeps DEF Types
<1>5. ASSUME ~Committed(heap[t].xmax), heap' = ended,
             outcome' = [outcome EXCEPT ![w] = Removed],
             pc' = [pc EXCEPT ![w] = "commit"], UNCHANGED tid
      PROVE  UInv' /\ Extends(w)
  <2>1. /\ heap' \in Seq(Row) /\ Versions' = Versions
        /\ \A i \in Versions :
             /\ heap'[i].id = heap[i].id
             /\ heap'[i].permission = heap[i].permission
             /\ heap'[i].xmin = heap[i].xmin
             /\ i # t => heap'[i].xmax = heap[i].xmax
             /\ i = t => heap'[i].xmax = w
    <3>1. /\ ended \in Seq(Row) /\ DOMAIN ended = Versions
          /\ \A i \in Versions :
               /\ ended[i].id = heap[i].id
               /\ ended[i].permission = heap[i].permission
               /\ ended[i].xmin = heap[i].xmin
               /\ ended[i].xmax = IF i = t THEN w ELSE heap[i].xmax
      BY <1>1, <1>2, Ending
    <3> HIDE DEF ended
    <3> QED
      BY <1>5, <3>1 DEF Versions
  <2> HIDE DEF t
  <2>2. Extends(w)
    BY <1>1, <1>2, <1>5, <2>1 DEF Extends
  <2>3. HasRemoved(w)'
    BY <1>1, <1>2, <1>5, <2>1 DEF HasRemoved, Types, Phase, Ends, Begins
  <2>4. (HasCreated(w) \/ HasReplaced(w) \/ HasRemoved(w) \/ HasFoundGone(w))'
    BY <2>3
  <2> QED
    BY <1>1, <1>5, <2>1, <2>2, <2>4, Kinds, WritingKeeps
<1> QED
  BY <1>3, <1>4, <1>5 DEF Delete, Go

------------------------------------------------------------------------------
(***************************************************************************)
(* Transactions begin and end, and the versions stay as they are.          *)
(***************************************************************************)
LEMMA OthersWatch ==
  ASSUME UInv, NEW w \in Writers, NEW state, Moves(w, state), ~Committed(w),
         UNCHANGED heap, wasAbsent \subseteq wasAbsent',
         NEW x \in Writers, x # w,
         pc'[x] = pc[x], draw'[x] = draw[x], tid'[x] = tid[x],
         outcome'[x] = outcome[x],
         ASSUME state = "committed", pc[x] = "delete", x \notin wasAbsent',
                NEW i \in Versions, heap[i].xmax = w
         PROVE  Newer(i) # {}
  PROVE  Phase(x)' /\ Knowledge(x)'
<1> USE WritersAssumption
<1>1. Phase(x) /\ Knowledge(x) /\ Types /\ Versions' = Versions
  BY DEF UInv, Versions
<1>2. txn'[x] = txn[x]
  BY <1>1 DEF Moves, Types
<1>3. Begins(x)' = Begins(x) /\ Ends(x)' = Ends(x)
  BY <1>1 DEF Begins, Ends
<1>4. Phase(x)'
  BY <1>1, <1>2, <1>3 DEF Phase
<1>5. \A i \in Versions :
        /\ Committed(heap[i].xmin) => Committed(heap[i].xmin)'
        /\ Committed(heap[i].xmax)' =>
             Committed(heap[i].xmax) \/ (heap[i].xmax = w /\ state = "committed")
  BY <1>1, OthersRun, VersionsAre DEF Committed
<1>6. pc'[x] \in {"lock", "delete"} =>
        tid'[x] \in Versions' /\ Committed(heap[tid[x]].xmin)'
  BY <1>1, <1>5 DEF Knowledge
<1>7. ASSUME pc'[x] = "delete", x \notin wasAbsent', NEW i \in Versions',
             tid'[x] <= i, Committed(heap[i].xmax)'
      PROVE  Newer(i)' # {}
  <2>1. Newer(i)' = Newer(i)
    BY <1>1 DEF Newer
  <2>2. CASE Committed(heap[i].xmax)
    BY <1>1, <1>7, <2>1, <2>2 DEF Knowledge
  <2>3. CASE heap[i].xmax = w /\ state = "committed"
    BY <1>1, <1>7, <2>1, <2>3
  <2> QED
    BY <1>1, <1>5, <1>7, <2>2, <2>3
<1>8. pc'[x] = "commit" =>
        (HasCreated(x) \/ HasReplaced(x) \/ HasRemoved(x) \/ HasFoundGone(x))'
  BY <1>1, <1>3 DEF Knowledge, HasCreated, HasReplaced, HasRemoved, HasFoundGone
<1> QED
  BY <1>4, <1>6, <1>7, <1>8 DEF Knowledge

\* A transaction which begins or is aborted brings no row and takes none away.
LEMMA RemovalsKept ==
  ASSUME Removals, UNCHANGED <<heap, outcome>>, Versions' = Versions,
         \A x \in Writers : Committed(x)' => Committed(x),
         \A i \in Versions : Committed(heap[i].xmin)' <=> Committed(heap[i].xmin),
         \A id : RowLives(id)' <=> RowLives(id),
         \A id : RowRemoved(id) => RowRemoved(id)'
  PROVE  Removals'
<1>1. ASSUME NEW i \in Versions, Committed(heap[i].xmin)'
      PROVE  RowLives(heap[i].id)' \/ RowRemoved(heap[i].id)'
  <2>1. PICK id : id = heap[i].id
    OBVIOUS
  <2>2. RowLives(id)' \/ RowRemoved(id)'
    BY <1>1, <2>1 DEF Removals
  <2> QED
    BY <2>1, <2>2 DEF RowLives, RowRemoved
<1>2. ASSUME NEW x \in Writers, Committed(x)', outcome'[x].kind = "Created"
      PROVE  \E m \in Versions' : heap'[m].xmin = x /\ heap'[m].id = outcome'[x].id
  BY <1>2 DEF Removals
<1> QED
  BY <1>1, <1>2 DEF Removals

LEMMA BeginKeeps ==
  ASSUME UInv, NEW w \in Writers, Begin(w), Observe
  PROVE  UInv'
<1> USE WritersAssumption
<1>1. /\ pc[w] = "idle" /\ UNCHANGED <<heap, draw, tid, outcome, sequence>>
      /\ Moves(w, "active") /\ txn[w] = "none" /\ ~Begins(w) /\ ~Ends(w)
      /\ Types /\ Ids /\ Chain /\ Removals /\ Phase(w)
  BY DEF Begin, Moves, UInv, Phase
<1>2. /\ pc' \in [Writers -> {"idle", "draw", "probe", "insert", "lock", "scan",
                              "delete", "commit", "done"}]
      /\ pc'[w] = IF OpOf[w] = "delete" THEN "scan" ELSE "draw"
      /\ \A x \in Writers \ {w} : pc'[x] = pc[x]
  BY <1>1 DEF Begin, Go, Types
<1>3. /\ txn'[w] = "active" /\ txn'[Setup] = "committed"
      /\ txn' \in [Writers \cup {Setup} -> {"none", "active", "committed", "aborted"}]
      /\ ~Committed(w) /\ ~Committed(w)' /\ ~Aborted(w) /\ ~Aborted(w)'
  BY <1>1 DEF Moves, Types, Committed, Aborted
<1>4. Versions' = Versions
  BY <1>1 DEF Versions
<1>5. /\ \A x : x \in Writers \cup {Setup, Nobody} =>
                  /\ Committed(x)' <=> Committed(x)
                  /\ Aborted(x)' <=> Aborted(x)
                  /\ x # w => (Active(x)' <=> Active(x))
  BY <1>1, <1>3, OthersRun
<1>6. \A i \in Versions :
        /\ heap[i].xmin \in Writers \cup {Setup, Nobody} /\ heap[i].xmin # w
        /\ heap[i].xmax \in Writers \cup {Setup, Nobody} /\ heap[i].xmax # w
  BY <1>1, VersionsAre DEF Begins, Ends
<1>7. \A i \in Versions :
        /\ Committed(heap[i].xmin)' <=> Committed(heap[i].xmin)
        /\ Committed(heap[i].xmax)' <=> Committed(heap[i].xmax)
        /\ Aborted(heap[i].xmin)' <=> Aborted(heap[i].xmin)
        /\ Active(heap[i].xmax)' <=> Active(heap[i].xmax)
  BY <1>1, <1>5, <1>6 DEF Committed, Active, Aborted
<1>8. \A i \in Versions : (Dead(i)' <=> Dead(i)) /\ (Live(i)' <=> Live(i))
  BY <1>7 DEF Dead, Live
<1>9. Types'
  BY <1>1, <1>2, <1>3, Observing DEF Types
<1>10. Chain'
  BY <1>1, <1>4, <1>7, <1>8 DEF Chain, Follows
<1>11. \A x \in Writers \ {w} : Phase(x)' /\ Knowledge(x)'
  <2>1. wasAbsent \subseteq wasAbsent'
    BY Observing
  <2>2. /\ Moves(w, "active") /\ ~Committed(w) /\ UNCHANGED heap
        /\ \A x \in Writers \ {w} :
             /\ pc'[x] = pc[x] /\ draw'[x] = draw[x] /\ tid'[x] = tid[x]
             /\ outcome'[x] = outcome[x]
    BY <1>1, <1>2, <1>3
  <2>3. "active" # "committed"
    OBVIOUS
  <2> QED
    BY <2>1, <2>2, <2>3, OthersWatch
<1>12. Phase(w)' /\ Knowledge(w)'
  BY <1>1, <1>2, <1>3, <1>4 DEF Phase, Knowledge, Begins, Ends
<1>13. Ids'
  <2>1. Drawn' = Drawn /\ \A x \in Drawn : x \in Writers /\ x # w
    BY <1>1 DEF Drawn, Ids
  <2>2. \A x \in Writers : pc'[x] \in {"idle", "draw"} => draw[x] = 0
    BY <1>1, <1>2 DEF Ids
  <2>3. \A x \in Writers :
          pc'[x] \in {"probe", "insert", "lock"} => draw[x] # 0
    BY <1>1, <1>2 DEF Ids
  <2> QED
    BY <1>1, <1>2, <1>4, <1>5, <2>1, <2>2, <2>3 DEF Ids
<1>14. Removals'
  <2>1. LiveVersions' = LiveVersions
    BY <1>4, <1>8 DEF LiveVersions
  <2>2. \A id : RowLives(id)' <=> RowLives(id)
    BY <1>1, <2>1 DEF RowLives
  <2>3. \A id : RowRemoved(id) => RowRemoved(id)'
    BY <1>1, <1>4, <1>5 DEF RowRemoved, Told, Committed
  <2> QED
    BY <1>1, <1>4, <1>5, <1>7, <2>2, <2>3, RemovalsKept
<1> QED
  BY <1>9, <1>10, <1>11, <1>12, <1>13, <1>14, Observing DEF UInv

\* Either way, the versions which may yet count are no more than before.
LEMMA ChainSettles ==
  ASSUME UInv, NEW w \in Writers, Active(w), UNCHANGED heap,
         NEW state \in {"committed", "aborted"}, Moves(w, state)
  PROVE  /\ Chain' /\ Versions' = Versions
         /\ \A x \in Writers \cup {Setup, Nobody} :
              /\ Committed(x) => Committed(x)'
              /\ Committed(x)' => Committed(x) \/ (x = w /\ state = "committed")
              /\ Active(x)' <=> Active(x) /\ x # w
<1> USE WritersAssumption
<1>1. Types /\ Chain
  BY DEF UInv
<1>2. Versions' = Versions
  BY DEF Versions
<1>3. \A x \in Writers \cup {Setup, Nobody} :
        /\ Committed(x) => Committed(x)'
        /\ Committed(x)' => Committed(x) \/ (x = w /\ state = "committed")
        /\ Active(x)' <=> Active(x) /\ x # w
        /\ Aborted(x) => Aborted(x)'
        /\ x = w => ~Committed(x) /\ ~Aborted(x)
        /\ x = w => (IF state = "committed" THEN Committed(x)' ELSE Aborted(x)')
  BY <1>1 DEF Moves, Types, Committed, Active, Aborted
<1>4. \A i \in Versions :
        /\ heap[i].xmin \in Writers \cup {Setup, Nobody}
        /\ heap[i].xmax \in Writers \cup {Setup, Nobody}
  BY <1>1, VersionsAre
<1>5. \A i \in Versions :
        /\ Committed(heap[i].xmin) => Committed(heap[i].xmin)'
        /\ Committed(heap[i].xmin)' =>
             Committed(heap[i].xmin) \/ (heap[i].xmin = w /\ state = "committed")
        /\ Active(heap[i].xmax) /\ heap[i].xmax # w => Active(heap[i].xmax)'
        /\ Dead(i) => Dead(i)'
        /\ heap[i].xmax = w /\ state = "committed" => Dead(i)'
        /\ heap[i].xmin = w /\ state = "aborted" => Dead(i)'
  BY <1>3, <1>4 DEF Committed, Active, Aborted, Dead
<1>6. ASSUME NEW i \in Versions, NEW j \in Versions, i # j, ~Dead(i)', ~Dead(j)'
      PROVE  Follows(i, j)' \/ Follows(j, i)'
  <2>1. \A k, l \in Versions : Follows(k, l) /\ ~Dead(k)' /\ ~Dead(l)' => Follows(k, l)'
    BY <1>5 DEF Follows
  <2> QED
    BY <1>1, <1>5, <1>6, <2>1 DEF Chain
<1>7. ASSUME NEW i \in Versions, NEW j \in Versions, i < j,
             Committed(heap[j].xmin)'
      PROVE  Dead(i)'
  <2>1. CASE Committed(heap[j].xmin)
    BY <1>1, <1>5, <1>7, <2>1 DEF Chain
  <2>2. CASE heap[j].xmin = w /\ state = "committed"
    <3>1. ~Committed(heap[j].xmin) /\ ~Aborted(heap[j].xmin)
      BY <1>3, <2>2
    <3>2. heap[j].xmax = Nobody
      BY <1>1, <3>1 DEF Chain
    <3>3. ~Dead(j)
      BY <3>1, <3>2 DEF Dead, Committed
    <3>4. i # j /\ ~(j < i)
      BY <1>1, <1>7, VersionsAre
    <3>5. Dead(i) \/ Follows(j, i)
      BY <1>1, <3>3, <3>4 DEF Chain, Follows
    <3>6. CASE Dead(i)
      BY <1>5, <3>6
    <3>7. CASE Follows(j, i)
      BY <1>5, <2>2, <3>7 DEF Follows
    <3> QED
      BY <3>5, <3>6, <3>7
  <2> QED
    BY <1>5, <1>7, <2>1, <2>2
<1>8. Chain'
  BY <1>1, <1>2, <1>5, <1>6, <1>7 DEF Chain
<1> QED
  BY <1>2, <1>3, <1>8

\* The part of the invariant which is about ids, when a transaction ends.
LEMMA IdsSettle ==
  ASSUME UInv, NEW w \in Writers, pc[w] \notin {"idle", "done"},
         NEW state \in {"committed", "aborted"}, Moves(w, state),
         UNCHANGED <<heap, draw, outcome, sequence>>,
         pc' = [pc EXCEPT ![w] = "done"]
  PROVE  Ids'
<1> USE WritersAssumption
<1>1. Active(w) /\ Phase(w) /\ Types /\ Ids
  BY Running DEF UInv
<1>2. Versions' = Versions /\ Drawn' = Drawn /\ Drawn \subseteq Writers
  BY DEF Versions, Drawn
<1>3. \A x \in Writers : Committed(x) => Committed(x)'
  BY <1>1, ChainSettles
<1>4. pc'[w] = "done" /\ \A x \in Writers \ {w} : pc'[x] = pc[x]
  BY <1>1 DEF Types
<1>5. \A x \in Writers :
        /\ pc'[x] \in {"idle", "draw"} => draw[x] = 0
        /\ pc'[x] \in {"probe", "insert", "lock"} => draw[x] # 0
  BY <1>1, <1>4 DEF Ids
<1>6. \A x \in Writers : pc[x] \in {"commit", "done"} => pc'[x] \in {"commit", "done"}
  BY <1>4
<1> QED
  BY <1>1, <1>2, <1>3, <1>5, <1>6 DEF Ids

LEMMA TypesSettle ==
  ASSUME UInv, Observe, NEW w \in Writers,
         NEW state \in {"committed", "aborted"}, Moves(w, state),
         UNCHANGED <<heap, draw, tid, outcome, sequence>>,
         pc' = [pc EXCEPT ![w] = "done"]
  PROVE  Types'
BY WritersAssumption, Observing DEF UInv, Types, Moves

\* What a writer which is about to commit will have told.
LEMMA Telling ==
  ASSUME UInv, NEW w \in Writers, pc[w] = "commit"
  PROVE  /\ outcome[w].kind = "Created" <=> HasCreated(w)
         /\ HasCreated(w) \/ HasReplaced(w) => Begins(w)
         /\ \/ HasCreated(w) \/ HasReplaced(w)
            \/ OpOf[w] = "delete" /\ outcome[w] = Removed /\ ~Begins(w)
<1>1. HasCreated(w) \/ HasReplaced(w) \/ HasRemoved(w) \/ HasFoundGone(w)
  BY DEF UInv, Knowledge
<1>2. HasCreated(w) => outcome[w].kind = "Created" /\ Begins(w)
  BY Kinds DEF HasCreated, Begins
<1>3. HasReplaced(w) => outcome[w].kind # "Created" /\ Begins(w)
  BY Kinds DEF HasReplaced, Begins
<1>4. HasRemoved(w) \/ HasFoundGone(w) =>
        /\ OpOf[w] = "delete" /\ outcome[w] = Removed /\ ~Begins(w)
        /\ outcome[w].kind # "Created"
  BY Kinds DEF HasRemoved, HasFoundGone
<1> QED
  BY <1>1, <1>2, <1>3, <1>4

\* A new version counts once its transaction is committed.
LEMMA BegunLives ==
  ASSUME UInv, NEW w \in Writers, Active(w), UNCHANGED heap,
         Moves(w, "committed"), NEW m \in Versions, heap[m].xmin = w
  PROVE  /\ heap[m].xmax = Nobody /\ Live(m)'
         /\ LiveVersions' = {m}
<1> USE WritersAssumption
<1>1. Types /\ Chain
  BY DEF UInv
<1>2. ~Committed(w)
  BY DEF Committed, Active
<1>3. heap[m].xmax = Nobody
  BY <1>1, <1>2 DEF Chain
<1>4. txn'[w] = "committed" /\ Versions' = Versions
  BY <1>1, OthersRun DEF Types, Versions
<1>5. Live(m)'
  BY <1>3, <1>4 DEF Live, Committed
<1>6. ASSUME NEW i \in Versions, Live(i)', i # m
      PROVE  FALSE
  <2>1. ~Dead(i)' /\ ~Dead(m)'
    BY <1>5, <1>6 DEF Live, Dead, Committed, Aborted
  <2>2. Follows(i, m)' \/ Follows(m, i)'
    BY <1>4, <1>6, <2>1, ChainSettles DEF Chain
  <2> QED
    BY <1>5, <1>6, <2>2 DEF Follows, Live, Committed, Active
<1> QED
  BY <1>3, <1>4, <1>5, <1>6 DEF LiveVersions

\* The version a DELETE ended was the one which counted.
LEMMA RemovedIsGone ==
  ASSUME UInv, NEW w \in Writers, Active(w), UNCHANGED heap,
         Moves(w, "committed"), NEW i \in Versions, heap[i].xmax = w, ~Begins(w)
  PROVE  LiveVersions' = {}
<1> USE WritersAssumption
<1>1. Types /\ Chain
  BY DEF UInv
<1>2. Versions' = Versions
  BY DEF Versions
<1>3. Live(i)
  BY <1>1 DEF Chain, Live, Active, Committed
<1>4. ASSUME NEW k \in Versions, Live(k)'
      PROVE  FALSE
  <2>1. /\ heap[k].xmin \in Writers \cup {Setup, Nobody} /\ heap[k].xmin # w
        /\ heap[k].xmax \in Writers \cup {Setup, Nobody}
    BY <1>1, VersionsAre DEF Begins
  <2>2. Committed(w)'
    BY <1>1, OthersRun DEF Committed
  <2>3. heap[k].xmax # w
    BY <1>4, <2>2 DEF Live
  <2>4. /\ Committed(heap[k].xmin)' <=> Committed(heap[k].xmin)
        /\ Committed(heap[k].xmax)' <=> Committed(heap[k].xmax)
    BY <1>1, <2>1, <2>3, OthersRun DEF Committed
  <2>5. Live(k)
    BY <1>4, <2>4 DEF Live
  <2> QED
    BY <1>1, <1>3, <2>3, <2>5, OneLives DEF LiveVersions
<1> QED
  BY <1>2, <1>4 DEF LiveVersions

\* A commit keeps the row which counted, replaces it by itself, removes it, or
\* adds one.
LEMMA RemovalsCommitted ==
  ASSUME UInv, NEW w \in Writers, pc[w] = "commit", Active(w), Moves(w, "committed"),
         UNCHANGED <<heap, outcome>>
  PROVE  Removals'
<1> USE WritersAssumption
<1>1. Types /\ Chain /\ Removals /\ Knowledge(w) /\ ~Committed(w) /\ Versions' = Versions
  BY DEF UInv, Active, Committed, Versions
<1>2. /\ txn'[w] = "committed"
      /\ \A x \in Writers \cup {Setup, Nobody} :
           Committed(x)' <=> Committed(x) \/ x = w
  BY <1>1, OthersRun DEF Committed
<1>3. ASSUME NEW i \in Versions, heap[i].xmin = w
      PROVE  i \in LiveVersions'
  BY <1>3, BegunLives
<1>4. ASSUME NEW id, RowRemoved(id)
      PROVE  RowRemoved(id)'
  <2>1. PICK d \in Writers, k \in Versions :
          /\ OpOf[d] = "delete" /\ Told(d, Removed)
          /\ heap[k].id = id /\ heap[k].xmax = d
    BY <1>4 DEF RowRemoved
  <2>2. Told(d, Removed)'
    BY <1>2, <2>1 DEF Told, Committed
  <2> QED
    BY <1>1, <2>1, <2>2 DEF RowRemoved
<1>5. ASSUME NEW id, RowLives(id)
      PROVE  RowLives(id)' \/ RowRemoved(id)'
  <2>1. PICK l \in Versions : Live(l) /\ heap[l].id = id
    BY <1>5 DEF RowLives, LiveVersions
  <2>2. /\ heap[l].xmin \in Writers \cup {Setup}
        /\ heap[l].xmax \in Writers \cup {Nobody}
    BY <1>1, VersionsAre
  <2>3. CASE heap[l].xmax # w
    <3>1. Committed(heap[l].xmin)' /\ ~Committed(heap[l].xmax)'
      BY <1>2, <2>1, <2>2, <2>3 DEF Live
    <3>2. Live(l)'
      BY <3>1 DEF Live
    <3> QED
      BY <1>1, <2>1, <3>2 DEF RowLives, LiveVersions
  <2>4. CASE heap[l].xmax = w
    <3>1. Ends(w)
      BY <2>4 DEF Ends
    <3>2. CASE HasReplaced(w)
      <4>1. PICK i \in Versions, m \in Versions :
              heap[i].xmax = w /\ heap[m].xmin = w /\ heap[m].id = heap[i].id
        BY <3>2 DEF HasReplaced
      <4>2. i = l
        BY <1>1, <2>4, <4>1, OneOfEach
      <4>3. m \in LiveVersions' /\ heap'[m].id = id
        BY <1>3, <2>1, <4>1, <4>2
      <4> QED
        BY <4>3 DEF RowLives
    <3>3. CASE HasRemoved(w)
      <4>1. OpOf[w] = "delete" /\ Told(w, Removed)'
        BY <1>2, <3>3 DEF HasRemoved, Told
      <4> QED
        BY <1>1, <2>1, <2>4, <4>1 DEF RowRemoved
    <3> QED
      BY <1>1, <3>1, <3>2, <3>3 DEF Knowledge, HasCreated, HasFoundGone
  <2> QED
    BY <2>3, <2>4
<1>6. ASSUME NEW i \in Versions', Committed(heap[i].xmin)'
      PROVE  RowLives(heap[i].id)' \/ RowRemoved(heap[i].id)'
  <2>1. PICK id : id = heap[i].id
    OBVIOUS
  <2>2. CASE heap[i].xmin = w
    BY <1>1, <1>3, <2>2 DEF RowLives
  <2>3. CASE heap[i].xmin # w
    <3>1. Committed(heap[i].xmin)
      BY <1>1, <1>2, <1>6, <2>3, VersionsAre
    <3>2. RowLives(id)' \/ RowRemoved(id)'
      BY <1>1, <1>4, <1>5, <2>1, <3>1 DEF Removals
    <3> QED
      BY <2>1, <3>2 DEF RowLives, RowRemoved
  <2> QED
    BY <2>2, <2>3
<1>7. ASSUME NEW x \in Writers, Committed(x)', outcome'[x].kind = "Created"
      PROVE  \E m \in Versions' : heap'[m].xmin = x /\ heap'[m].id = outcome'[x].id
  <2>1. CASE x = w
    <3>1. HasCreated(w)
      BY <1>1, <1>7, <2>1, Kinds DEF Knowledge, HasReplaced, HasRemoved, HasFoundGone
    <3>2. PICK m \in Versions : heap[m].xmin = w /\ heap[m].id = draw[w]
      BY <3>1 DEF HasCreated
    <3>3. outcome[w].id = draw[w]
      BY <3>1, Kinds DEF HasCreated
    <3> QED
      BY <1>1, <2>1, <3>2, <3>3
  <2>2. CASE x # w
    BY <1>1, <1>2, <1>7, <2>2 DEF Removals
  <2> QED
    BY <2>1, <2>2
<1> QED
  BY <1>6, <1>7 DEF Removals

LEMMA CommitKeeps ==
  ASSUME UInv, NEW w \in Writers, Commit(w), Observe
  PROVE  UInv'
<1> USE WritersAssumption
<1>1. /\ pc[w] = "commit" /\ UNCHANGED <<heap, draw, tid, outcome, sequence>>
      /\ Moves(w, "committed") /\ pc' = [pc EXCEPT ![w] = "done"]
      /\ Active(w) /\ ~Committed(w)
      /\ Types /\ Chain /\ Removals /\ Phase(w) /\ Knowledge(w)
  BY Running DEF Commit, Go, Moves, UInv, Active, Committed
<1>2. /\ pc'[w] = "done" /\ \A x \in Writers \ {w} : pc'[x] = pc[x]
      /\ txn'[w] = "committed" /\ Versions' = Versions
  BY <1>1, OthersRun DEF Types, Versions
<1>3. Types' /\ Chain' /\ Ids'
  BY <1>1, TypesSettle, ChainSettles, IdsSettle
<1>4. ASSUME NEW x \in Writers \ {w}, pc[x] = "delete", x \notin wasAbsent',
             NEW i \in Versions, heap[i].xmax = w
      PROVE  Newer(i) # {}
  <2>1. Ends(w)
    BY <1>4 DEF Ends
  <2>2. CASE HasReplaced(w)
    <3>1. PICK j \in Versions, m \in Versions :
            j < m /\ heap[j].xmax = w /\ heap[m].xmin = w
      BY <2>2 DEF HasReplaced
    <3>2. i = j
      BY <1>1, <1>4, <3>1, OneOfEach
    <3> QED
      BY <1>4, <3>1, <3>2 DEF Newer
  <2>3. CASE HasRemoved(w)
    <3>1. LiveVersions' = {}
      BY <1>1, <1>4, <2>3, RemovedIsGone DEF HasRemoved
    <3>2. Active(x)'
      BY <1>1, <1>4, OthersRun DEF UInv, Phase, Active
    <3> QED
      BY <1>4, <3>1, <3>2, Observing DEF Absences
  <2> QED
    BY <1>1, <2>1, <2>2, <2>3 DEF Knowledge, HasCreated, HasFoundGone
<1>5. \A x \in Writers \ {w} : Phase(x)' /\ Knowledge(x)'
  <2> SUFFICES ASSUME NEW x \in Writers \ {w}
               PROVE  Phase(x)' /\ Knowledge(x)'
    OBVIOUS
  <2>1. ASSUME pc[x] = "delete", x \notin wasAbsent',
               NEW i \in Versions, heap[i].xmax = w
        PROVE  Newer(i) # {}
    BY <1>4, <2>1
  <2> QED
    BY <1>1, <1>2, <2>1, Observing, OthersWatch
<1>6. Phase(w)' /\ Knowledge(w)'
  BY <1>2 DEF Phase, Knowledge
<1>7. Removals'
  BY <1>1, RemovalsCommitted
<1> QED
  BY <1>3, <1>5, <1>6, <1>7, Observing DEF UInv

LEMMA AbortKeeps ==
  ASSUME UInv, NEW w \in Writers, Abort(w), Observe
  PROVE  UInv'
<1> USE WritersAssumption
<1>1. /\ pc[w] \notin {"idle", "done"}
      /\ UNCHANGED <<heap, draw, tid, outcome, sequence>>
      /\ Moves(w, "aborted") /\ pc' = [pc EXCEPT ![w] = "done"]
      /\ Active(w) /\ ~Committed(w)
      /\ Types /\ Chain /\ Removals
  BY Running DEF Abort, Go, Moves, UInv, Active, Committed
<1>2. /\ pc'[w] = "done" /\ \A x \in Writers \ {w} : pc'[x] = pc[x]
      /\ txn'[w] = "aborted" /\ Versions' = Versions
  BY <1>1, OthersRun DEF Types, Versions
<1>3. Types' /\ Chain' /\ Ids'
  BY <1>1, TypesSettle, ChainSettles, IdsSettle
<1>4. \A x \in Writers \ {w} : Phase(x)' /\ Knowledge(x)'
  <2>1. wasAbsent \subseteq wasAbsent'
    BY Observing
  <2>2. /\ Moves(w, "aborted") /\ ~Committed(w) /\ UNCHANGED heap
        /\ \A x \in Writers \ {w} :
             /\ pc'[x] = pc[x] /\ draw'[x] = draw[x] /\ tid'[x] = tid[x]
             /\ outcome'[x] = outcome[x]
    BY <1>1, <1>2
  <2>3. "aborted" # "committed"
    OBVIOUS
  <2> QED
    BY <2>1, <2>2, <2>3, OthersWatch
<1>5. Phase(w)' /\ Knowledge(w)'
  BY <1>2 DEF Phase, Knowledge
<1>6. Removals'
  <2>1. \A x \in Writers \cup {Setup, Nobody} : Committed(x)' <=> Committed(x)
    BY <1>1, ChainSettles
  <2>2. \A i \in Versions :
          /\ Committed(heap[i].xmin)' <=> Committed(heap[i].xmin)
          /\ Committed(heap[i].xmax)' <=> Committed(heap[i].xmax)
    BY <1>1, <2>1, VersionsAre DEF Committed
  <2>3. LiveVersions' = LiveVersions
    BY <1>2, <2>2 DEF LiveVersions, Live
  <2>4. \A id : RowLives(id)' <=> RowLives(id)
    BY <1>1, <2>3 DEF RowLives
  <2>5. \A id : RowRemoved(id) => RowRemoved(id)'
    BY <1>1, <1>2, <2>1 DEF RowRemoved, Told, Committed
  <2> QED
    BY <1>1, <1>2, <2>1, <2>2, <2>4, <2>5, RemovalsKept
<1> QED
  BY <1>3, <1>4, <1>5, <1>6, Observing DEF UInv

LEMMA UInvStep == UInv /\ [Next]_upsertVars => UInv'
<1> SUFFICES ASSUME UInv, [Next]_upsertVars
             PROVE  UInv'
  OBVIOUS
<1>1. ASSUME NEW w \in Writers, Step(w) \/ Abort(w), Observe
      PROVE  UInv'
  BY <1>1, BeginKeeps, DrawKeeps, ProbeKeeps, InsertKeeps, LockKeeps, ScanKeeps,
     DeleteKeeps, CommitKeeps, AbortKeeps DEF Step
<1>2. CASE UNCHANGED upsertVars
  <2>1. UNCHANGED <<heap, txn, pc, draw, tid, outcome, sequence, wasAbsent>>
    BY <1>2 DEF upsertVars
  <2>2. Types' /\ Chain'
    BY <2>1 DEF UInv, Types, Chain, Versions, Dead, Committed, Active, Aborted, Follows
  <2>3. Ids' /\ Absences'
    BY <2>1 DEF UInv, Ids, Absences, Drawn, Versions, LiveVersions, Live, Committed, Active
  <2>4. Removals'
    BY <2>1 DEF UInv, Removals, RowLives, RowRemoved, Told, Versions, LiveVersions,
       Live, Committed
  <2>5. \A w \in Writers : Phase(w)' /\ Knowledge(w)'
    BY <2>1 DEF UInv, Phase, Knowledge, Versions, Begins, Ends, HasCreated,
       HasReplaced, HasRemoved, HasFoundGone, Newer, Committed
  <2> QED
    BY <2>2, <2>3, <2>4, <2>5 DEF UInv
<1> QED
  BY <1>1, <1>2 DEF Next

LEMMA Holding == Spec => []UInv
BY UInvInit, UInvStep, PTL DEF Spec

------------------------------------------------------------------------------
\* The types of the versions, the transactions and the statements.
THEOREM ShareUpsertTypes == Spec => []TypeOK
<1>1. UInv => TypeOK
  <2> SUFFICES ASSUME UInv
               PROVE  TypeOK
    OBVIOUS
  <2>1. \A i \in Versions : heap[i].id \in 1..(sequence - 1)
    BY VersionsAre DEF UInv, Types, Ids
  <2> QED
    BY <2>1, VersionsAre DEF UInv, Types, TypeOK
<1> QED
  BY <1>1, Holding, PTL

\* However many PUTs and DELETEs of one share run at once, and however they
\* wait and fail: its URI names one row at most, and two of them are told that
\* they created it only about different rows, one of which a DELETE removed.
THEOREM OneShareAtATime == Spec => []OneShareCreatedOnce
<1>1. UInv => OneShareCreatedOnce
  <2> SUFFICES ASSUME UInv
               PROVE  OneShareCreatedOnce
    OBVIOUS
  <2>1. Cardinality(LiveVersions) <= 1
    <3>1. CASE LiveVersions = {}
      BY <3>1, FS_EmptySet
    <3>2. ASSUME NEW i \in LiveVersions
          PROVE  Cardinality(LiveVersions) <= 1
      <4>1. LiveVersions = {i}
        BY OneLives DEF UInv
      <4> QED
        BY <4>1, FS_Singleton
    <3> QED
      BY <3>1, <3>2
  <2>2. ASSUME NEW w \in Writers, NEW x \in Writers,
               NEW i \in 1..sequence, NEW j \in 1..sequence,
               w # x, Told(w, Created(i)), Told(x, Created(j))
        PROVE  i # j /\ (RowRemoved(i) \/ RowRemoved(j))
    <3>1. /\ outcome[w].kind = "Created" /\ outcome[w].id = i
          /\ outcome[x].kind = "Created" /\ outcome[x].id = j
      BY <2>2, Kinds DEF Told
    <3>2. w \in Drawn /\ i = draw[w] /\ x \in Drawn /\ j = draw[x]
      BY <3>1 DEF UInv, Ids
    <3>3. i # j
      BY <2>2, <3>2 DEF UInv, Ids
    <3>4. Committed(w) /\ Committed(x)
      BY <2>2, WritersAssumption DEF Told, Committed
    <3>5. PICK k \in Versions, l \in Versions :
            /\ heap[k].xmin = w /\ heap[k].id = i
            /\ heap[l].xmin = x /\ heap[l].id = j
      BY <3>1, <3>4 DEF UInv, Removals
    <3>6. ~RowLives(i) \/ ~RowLives(j)
      BY <3>3, OneLives DEF UInv, RowLives
    <3> QED
      BY <3>3, <3>4, <3>5, <3>6 DEF UInv, Removals
  <2> QED
    BY <2>1, <2>2 DEF OneShareCreatedOnce
<1> QED
  BY <1>1, Holding, PTL

------------------------------------------------------------------------------
(***************************************************************************)
(* The statements implement the assignment: what a transaction does is     *)
(* there for the others, and told, when it commits.                        *)
(***************************************************************************)
ShareSeen ==
  /\ LiveVersions = {} <=> Share = NoShare
  /\ \A i \in LiveVersions :
       Share = [id |-> heap[i].id, permission |-> heap[i].permission]

LEMMA ShareIs == UInv => ShareSeen
<1> SUFFICES ASSUME UInv
             PROVE  ShareSeen
  OBVIOUS
<1>1. ASSUME NEW i \in LiveVersions
      PROVE  Share = [id |-> heap[i].id, permission |-> heap[i].permission]
  <2>1. (CHOOSE k \in LiveVersions : TRUE) = i
    BY OneLives DEF UInv
  <2> QED
    BY <2>1 DEF Share
<1>2. ASSUME NEW i \in LiveVersions
      PROVE  Share # NoShare
  <2>1. heap[i].id \in Nat /\ heap[i].permission \in {"read", "read_write"}
    BY VersionsAre DEF UInv, LiveVersions
  <2> QED
    BY <1>1, <2>1, WritersAssumption
<1>3. LiveVersions = {} => Share = NoShare
  BY DEF Share
<1> QED
  BY <1>1, <1>2, <1>3 DEF ShareSeen

ResultsTold ==
  \A w \in Writers :
    /\ txn[w] = "none" => Result(w) = Assign!Idle
    /\ txn[w] = "active" <=> Result(w) = Assign!Pending
    /\ txn[w] = "committed" => Result(w) = outcome[w]
    /\ txn[w] = "aborted" => Result(w) = Assign!Failed

LEMMA ResultIs == UInv => ResultsTold
<1> SUFFICES ASSUME UInv, NEW w \in Writers
             PROVE  /\ txn[w] = "none" => Result(w) = Assign!Idle
                    /\ txn[w] = "active" <=> Result(w) = Assign!Pending
                    /\ txn[w] = "committed" => Result(w) = outcome[w]
                    /\ txn[w] = "aborted" => Result(w) = Assign!Failed
  BY DEF ResultsTold
<1>1. outcome[w].kind # "Pending"
  BY DEF UInv, Types, Outcomes
<1>2. txn[w] \in {"none", "active", "committed", "aborted"}
  BY DEF UInv, Types
<1> QED
  BY <1>1, <1>2 DEF Result, Assign!Idle, Assign!Pending, Assign!Failed

\* The facts about the share and the results hold before and after a step.
LEMMA Seen ==
  UInv /\ UInv' => /\ ShareSeen /\ ResultsTold
                   /\ ShareSeen' /\ ResultsTold'
BY ShareIs, ResultIs, PTL

\* The next step's results, and whoever is noted in it.
LEMMA Noted ==
  ASSUME UInv, UInv', Observe
  PROVE  wasAbsent' = wasAbsent \cup
           (IF Share' = NoShare
              THEN {w \in Writers : Result(w)' = Assign!Pending} ELSE {})
BY Seen DEF Observe, ResultsTold

LEMMA AssignsAtFirst == Init => Assign!AssignInit
<1> SUFFICES ASSUME Init
             PROVE  Assign!AssignInit
  OBVIOUS
<1> USE WritersAssumption
<1>1. UInv /\ ShareSeen /\ ResultsTold
  BY UInvInit, ShareIs, ResultIs
<1>2. [w \in Writers |-> Result(w)] = [w \in Writers |-> Assign!Idle]
  BY <1>1 DEF Init, ResultsTold
<1>3. wasAbsent = {}
  BY DEF Init
<1>4. CASE heap = << >>
  <2>1. Versions = {}
    BY <1>4 DEF Versions
  <2>2. Share = NoShare /\ Used = {}
    BY <1>1, <2>1 DEF ShareSeen, LiveVersions, Used
  <2> QED
    BY <1>2, <1>3, <2>2 DEF Assign!AssignInit
<1>5. ASSUME NEW p \in Granted, heap = <<Version(1, p, Setup)>>
      PROVE  Assign!AssignInit
  <2>1. /\ Versions = {1} /\ heap[1].id = 1 /\ heap[1].permission = p
        /\ heap[1].xmin = Setup /\ heap[1].xmax = Nobody
    BY <1>5 DEF Versions, Version
  <2>2. Live(1) /\ Committed(heap[1].xmin)
    BY <2>1 DEF Init, Live, Committed
  <2>3. Share = [id |-> 1, permission |-> p] /\ Used = {1}
    BY <1>1, <2>1, <2>2 DEF ShareSeen, LiveVersions, Used
  <2>4. 1 \in 1..(Cardinality(Writers) + 1) /\ p \in {"read", "read_write"}
    BY FS_CardinalityType
  <2> QED
    BY <1>2, <1>3, <2>3, <2>4 DEF Assign!AssignInit
<1> QED
  BY <1>4, <1>5 DEF Init

\* Before its commit nothing a statement does is seen.
LEMMA Unseen ==
  ASSUME UInv, UInv', Observe, NEW w \in Writers, Active(w), Extends(w),
         UNCHANGED txn, \A x \in Writers \ {w} : outcome'[x] = outcome[x]
  PROVE  UNCHANGED Assign!assignVars
<1> USE WritersAssumption
<1>1. /\ \A x : Committed(x)' <=> Committed(x)
      /\ LiveVersions' = LiveVersions
      /\ \A i \in Versions' \ Versions : ~Committed(heap[i].xmin)'
  BY ExtendsKeeps DEF Extends, Committed, Active
<1>2. ShareSeen /\ ResultsTold /\ ShareSeen' /\ ResultsTold'
  BY Seen
<1>3. Share' = Share
  <2>1. CASE LiveVersions = {}
    BY <1>1, <1>2, <2>1 DEF ShareSeen
  <2>2. ASSUME NEW i \in LiveVersions
        PROVE  Share' = Share
    <3>1. i \in Versions /\ i \in LiveVersions'
      BY <1>1 DEF LiveVersions
    <3>2. heap'[i].id = heap[i].id /\ heap'[i].permission = heap[i].permission
      BY <3>1 DEF Extends
    <3> QED
      BY <1>2, <3>1, <3>2 DEF ShareSeen
  <2> QED
    BY <2>1, <2>2
<1>4. Used' = Used
  <2>1. \A i \in Versions : /\ Committed(heap[i].xmin)' <=> Committed(heap[i].xmin)
                            /\ heap'[i].id = heap[i].id
    BY <1>1 DEF Extends
  <2> QED
    BY <1>1, <2>1 DEF Used, Extends
<1>5. \A x \in Writers : Result(x)' = Result(x)
  <2> SUFFICES ASSUME NEW x \in Writers
               PROVE  Result(x)' = Result(x)
    OBVIOUS
  <2>1. txn[x] \in {"none", "active", "committed", "aborted"} /\ txn'[x] = txn[x]
    BY DEF UInv, Types
  <2>2. CASE txn[x] = "committed"
    BY <1>2, <2>1, <2>2 DEF ResultsTold, Active
  <2>3. CASE txn[x] # "committed"
    BY <1>2, <2>1, <2>3 DEF ResultsTold, Assign!Idle, Assign!Pending, Assign!Failed
  <2> QED
    BY <2>2, <2>3
<1>6. [x \in Writers |-> Result(x)]' = [x \in Writers |-> Result(x)]
  BY <1>5
<1>7. wasAbsent' = wasAbsent
  <2>1. Share' = NoShare => \A x \in Writers : txn'[x] = "active" => x \in wasAbsent
    BY <1>2, <1>3 DEF ShareSeen, UInv, Absences, Active
  <2> QED
    BY <2>1 DEF Observe
<1> QED
  BY <1>3, <1>4, <1>6, <1>7 DEF Assign!assignVars

\* What a writer is told when its transaction begins or ends.
LEMMA OneIsTold ==
  ASSUME UInv, UInv', NEW w \in Writers, NEW state, Moves(w, state),
         UNCHANGED outcome, NEW result, Result(w)' = result
  PROVE  [x \in Writers |-> Result(x)]' =
           [[x \in Writers |-> Result(x)] EXCEPT ![w] = result]
<1>1. ASSUME NEW x \in Writers \ {w}
      PROVE  Result(x)' = Result(x)
  <2>1. txn[x] \in {"none", "active", "committed", "aborted"} /\ txn'[x] = txn[x]
    BY DEF UInv, Types, Moves
  <2> QED
    BY <2>1 DEF Result
<1> QED
  BY <1>1

\* A transaction which begins, is taken back, or has written nothing, leaves the
\* share as it is.
LEMMA NothingSettled ==
  ASSUME UInv, UInv', NEW w \in Writers, NEW state, Moves(w, state),
         UNCHANGED heap, ~Committed(w),
         state = "committed" => ~Begins(w) /\ ~Ends(w)
  PROVE  Share' = Share /\ Used' = Used
<1> USE WritersAssumption
<1>1. Types /\ Versions' = Versions
  BY DEF UInv, Versions
<1>2. \A i \in Versions :
        /\ Committed(heap[i].xmin)' <=> Committed(heap[i].xmin)
        /\ Committed(heap[i].xmax)' <=> Committed(heap[i].xmax)
  <2> SUFFICES ASSUME NEW i \in Versions, NEW x \in {heap[i].xmin, heap[i].xmax}
               PROVE  Committed(x)' <=> Committed(x)
    BY DEF Committed
  <2>1. x \in Writers \cup {Setup, Nobody}
    BY <1>1, VersionsAre
  <2>2. CASE x = w
    BY <1>1, <2>2, OthersRun DEF Committed, Begins, Ends
  <2>3. CASE x # w
    BY <1>1, <2>1, <2>3, OthersRun
  <2> QED
    BY <2>2, <2>3
<1>3. LiveVersions' = LiveVersions
  BY <1>1, <1>2 DEF LiveVersions, Live
<1>4. ShareSeen /\ ShareSeen'
  BY Seen
<1>5. Share' = Share
  <2>1. CASE LiveVersions = {}
    BY <1>3, <1>4, <2>1 DEF ShareSeen
  <2>2. CASE LiveVersions # {}
    BY <1>3, <1>4, <2>2 DEF ShareSeen
  <2> QED
    BY <2>1, <2>2
<1>6. Used' = Used
  BY <1>1, <1>2 DEF Used
<1> QED
  BY <1>5, <1>6

LEMMA BeginAssigns ==
  ASSUME UInv, UInv', Observe, NEW w \in Writers, Begin(w)
  PROVE  Assign!AssignNext
<1> USE WritersAssumption
<1>1. /\ Moves(w, "active") /\ txn[w] = "none" /\ ~Committed(w)
      /\ UNCHANGED <<heap, outcome>> /\ txn'[w] = "active"
  BY OthersRun DEF Begin, Moves, UInv, Phase, Committed, Types
<1>2. Result(w) = Assign!Idle /\ Result(w)' = Assign!Pending
  BY <1>1, Seen DEF ResultsTold
<1>3. Share' = Share /\ Used' = Used
  BY <1>1, NothingSettled
<1>4. [x \in Writers |-> Result(x)]' =
        [[x \in Writers |-> Result(x)] EXCEPT ![w] = Assign!Pending]
  BY <1>1, <1>2, OneIsTold
<1>5. Assign!Begin(w)
  BY <1>2, <1>3, <1>4 DEF Assign!Begin, Assign!Tell
<1> QED
  BY <1>5, Noted DEF Assign!AssignNext

LEMMA AbortAssigns ==
  ASSUME UInv, UInv', Observe, NEW w \in Writers, Abort(w)
  PROVE  Assign!AssignNext
<1> USE WritersAssumption
<1>1. /\ Moves(w, "aborted") /\ txn[w] = "active" /\ ~Committed(w)
      /\ UNCHANGED <<heap, outcome>> /\ txn'[w] = "aborted"
  BY OthersRun DEF Abort, Moves, UInv, Phase, Committed, Types
<1>2. Result(w) = Assign!Pending /\ Result(w)' = Assign!Failed
  BY <1>1, Seen DEF ResultsTold
<1>3. Share' = Share /\ Used' = Used
  BY <1>1, NothingSettled
<1>4. [x \in Writers |-> Result(x)]' =
        [[x \in Writers |-> Result(x)] EXCEPT ![w] = Assign!Failed]
  BY <1>1, <1>2, OneIsTold
<1>5. Assign!GiveUp(w)
  BY <1>2, <1>3, <1>4 DEF Assign!GiveUp, Assign!Tell
<1> QED
  BY <1>5, Noted DEF Assign!AssignNext

\* What is known when a transaction commits.
LEMMA Committing ==
  ASSUME UInv, UInv', Observe, NEW w \in Writers, Commit(w)
  PROVE  /\ pc[w] = "commit" /\ Moves(w, "committed") /\ UNCHANGED <<heap, outcome>>
         /\ Active(w) /\ ~Committed(w) /\ ~Aborted(w) /\ Committed(w)'
         /\ Types /\ Chain /\ Ids /\ Versions' = Versions
         /\ HasCreated(w) \/ HasReplaced(w) \/ HasRemoved(w) \/ HasFoundGone(w)
         /\ Result(w) = Assign!Pending /\ Result(w)' = outcome[w]
         /\ [x \in Writers |-> Result(x)]' =
              [[x \in Writers |-> Result(x)] EXCEPT ![w] = outcome[w]]
         /\ \A i \in Versions :
              Committed(heap[i].xmin)' <=>
                Committed(heap[i].xmin) \/ heap[i].xmin = w
<1> USE WritersAssumption
<1>1. /\ pc[w] = "commit" /\ Moves(w, "committed") /\ UNCHANGED <<heap, outcome>>
      /\ Active(w) /\ ~Committed(w) /\ ~Aborted(w) /\ txn[w] = "active"
      /\ Types /\ Chain /\ Ids /\ Versions' = Versions
      /\ HasCreated(w) \/ HasReplaced(w) \/ HasRemoved(w) \/ HasFoundGone(w)
  BY Running
     DEF Commit, Moves, UInv, Knowledge, Active, Committed, Aborted, Versions
<1>2. txn'[w] = "committed" /\ Committed(w)'
  BY <1>1, OthersRun DEF Committed
<1>3. Result(w) = Assign!Pending /\ Result(w)' = outcome[w]
  BY <1>1, <1>2, Seen DEF ResultsTold
<1>4. [x \in Writers |-> Result(x)]' =
        [[x \in Writers |-> Result(x)] EXCEPT ![w] = outcome[w]]
  BY <1>1, <1>3, OneIsTold
<1>5. \A i \in Versions :
        Committed(heap[i].xmin)' <=> Committed(heap[i].xmin) \/ heap[i].xmin = w
  BY <1>1, <1>2, VersionsAre, OthersRun DEF Committed
<1> QED
  BY <1>1, <1>2, <1>3, <1>4, <1>5

LEMMA CreationAssigns ==
  ASSUME UInv, UInv', Observe, NEW w \in Writers, Commit(w), HasCreated(w)
  PROVE  Assign!Create(w)
<1> USE WritersAssumption
<1>1. /\ Active(w) /\ ~Committed(w) /\ ~Aborted(w) /\ Types /\ Chain /\ Ids
      /\ Moves(w, "committed") /\ UNCHANGED heap /\ Versions' = Versions
  BY Committing
<1>2. \A i \in Versions :
        Committed(heap[i].xmin)' <=> Committed(heap[i].xmin) \/ heap[i].xmin = w
  BY Committing
<1>3. /\ Result(w) = Assign!Pending
      /\ [x \in Writers |-> Result(x)]' =
           [[x \in Writers |-> Result(x)] EXCEPT ![w] = outcome[w]]
  BY Committing
<1>4. PICK m \in Versions : /\ heap[m].xmin = w /\ heap[m].id = draw[w]
                            /\ heap[m].permission = OpOf[w]
  BY DEF HasCreated
<1>5. /\ OpOf[w] # "delete" /\ outcome[w] = Created(draw[w]) /\ draw[w] # 0
      /\ ~Ends(w)
  BY DEF HasCreated
<1>6. /\ heap[m].xmax = Nobody /\ LiveVersions' = {m} /\ UNCHANGED heap
  BY <1>4, BegunLives, <1>1
<1>7. Share' = [id |-> draw[w], permission |-> OpOf[w]]
  BY <1>4, <1>6, Seen DEF ShareSeen
<1>8. Share = NoShare
  <2>1. ASSUME NEW i \in LiveVersions
        PROVE  FALSE
    <3>1. ~Dead(i) /\ ~Dead(m) /\ i \in Versions /\ i # m
      BY <1>4, <1>6, <1>1
         DEF LiveVersions, Live, Dead, Committed, Aborted
    <3>2. Follows(i, m) \/ Follows(m, i)
      BY <3>1, <1>1 DEF Chain
    <3> QED
      BY <1>4, <1>5, <1>6, <3>1, <3>2
         DEF Follows, Ends, Active
  <2> QED
    BY <2>1, Seen DEF ShareSeen
<1>9. draw[w] \in 1..(Cardinality(Writers) + 1)
  <2>1. Cardinality(Drawn) <= Cardinality(Writers)
    BY FS_Subset DEF Drawn
  <2>2. Cardinality(Drawn) \in Nat /\ Cardinality(Writers) \in Nat
    BY FS_Subset, FS_CardinalityType DEF Drawn
  <2>3. /\ draw[w] \in Nat \ {0} /\ draw[w] < sequence /\ sequence \in Nat
        /\ sequence <= Cardinality(Drawn) + 2
    BY <1>5, <1>1 DEF Types, Ids
  <2> QED
    BY <2>1, <2>2, <2>3
<1>10. draw[w] \notin Used
  <2>1. ASSUME NEW i \in Versions, Committed(heap[i].xmin), heap[i].id = draw[w]
        PROVE  FALSE
    <3>1. w \in Drawn
      BY <1>5 DEF Drawn
    <3>2. heap[i].xmin = w \/ Committed(w)
      BY <2>1, <3>1, <1>1 DEF Ids
    <3> QED
      BY <2>1, <3>2, <1>1
  <2> QED
    BY <2>1 DEF Used
<1>11. Used' = Used \cup {draw[w]}
  <2>1. \A i \in Versions : heap[i].xmin = w => i = m
    BY <1>4, OneOfEach, <1>1
  <2>2. /\ \A i \in Versions :
             Committed(heap[i].xmin)' <=> Committed(heap[i].xmin) \/ i = m
        /\ Versions' = Versions
    BY <1>1, <1>4, <1>2, <2>1
  <2> QED
    BY <1>4, <1>6, <2>2 DEF Used
<1>12. Assign!Created(draw[w]) = Created(draw[w])
  BY DEF Assign!Created, Created
<1> QED
  BY <1>5, <1>7, <1>8, <1>9, <1>10, <1>11, <1>12, <1>3
     DEF Assign!Create, Assign!Tell

LEMMA ReplacementAssigns ==
  ASSUME UInv, UInv', Observe, NEW w \in Writers, Commit(w), HasReplaced(w)
  PROVE  Assign!Replace(w)
<1> USE WritersAssumption
<1>1. /\ Active(w) /\ ~Committed(w) /\ ~Aborted(w) /\ Types /\ Chain /\ Ids
      /\ Moves(w, "committed") /\ UNCHANGED heap /\ Versions' = Versions
  BY Committing
<1>2. \A i \in Versions :
        Committed(heap[i].xmin)' <=> Committed(heap[i].xmin) \/ heap[i].xmin = w
  BY Committing
<1>3. /\ Result(w) = Assign!Pending
      /\ [x \in Writers |-> Result(x)]' =
           [[x \in Writers |-> Result(x)] EXCEPT ![w] = outcome[w]]
  BY Committing
<1>4. PICK i \in Versions, m \in Versions :
        /\ i < m /\ heap[i].xmax = w /\ heap[m].xmin = w
        /\ heap[m].id = heap[i].id /\ heap[m].permission = OpOf[w]
        /\ outcome[w] = Replaced(heap[i].id)
  BY DEF HasReplaced
<1>5. LiveVersions' = {m} /\ UNCHANGED heap
  BY <1>4, BegunLives, <1>1
<1>6. Committed(heap[i].xmin) /\ i \in LiveVersions
  BY <1>4, <1>1 DEF Chain, LiveVersions, Live
<1>7. Share = [id |-> heap[i].id, permission |-> heap[i].permission]
  BY <1>6, Seen DEF ShareSeen
<1>8. Share # NoShare
  BY <1>6, Seen DEF ShareSeen
<1>9. Share' = [id |-> heap[i].id, permission |-> OpOf[w]]
  BY <1>4, <1>5, Seen DEF ShareSeen
<1>10. Used' = Used
  <2>1. \A k \in Versions : heap[k].xmin = w => k = m
    BY <1>4, OneOfEach, <1>1
  <2>2. /\ \A k \in Versions :
             Committed(heap[k].xmin)' <=> Committed(heap[k].xmin) \/ k = m
        /\ Versions' = Versions
    BY <1>1, <1>4, <1>2, <2>1
  <2> QED
    BY <1>4, <1>5, <1>6, <2>2 DEF Used
<1>11. Assign!Replaced(Share.id) = outcome[w]
  BY <1>4, <1>7 DEF Assign!Replaced, Replaced
<1>12. Share' = [Share EXCEPT !.permission = OpOf[w]]
  BY <1>7, <1>9
<1>13. OpOf[w] # "delete"
  BY DEF HasReplaced
<1> QED
  BY <1>8, <1>10, <1>11, <1>12, <1>13, <1>3 DEF Assign!Replace, Assign!Tell

LEMMA RemovalAssigns ==
  ASSUME UInv, UInv', Observe, NEW w \in Writers, Commit(w),
         HasRemoved(w) \/ HasFoundGone(w)
  PROVE  Assign!Remove(w) \/ Assign!FindGone(w)
<1> USE WritersAssumption
<1>1. /\ Active(w) /\ ~Committed(w) /\ ~Aborted(w) /\ Types /\ Chain /\ Ids
      /\ Moves(w, "committed") /\ UNCHANGED heap /\ Versions' = Versions
  BY Committing
<1>2. \A i \in Versions :
        Committed(heap[i].xmin)' <=> Committed(heap[i].xmin) \/ heap[i].xmin = w
  BY Committing
<1>3. /\ Result(w) = Assign!Pending
      /\ [x \in Writers |-> Result(x)]' =
           [[x \in Writers |-> Result(x)] EXCEPT ![w] = outcome[w]]
  BY Committing
<1>4. OpOf[w] = "delete" /\ outcome[w] = Assign!Removed /\ ~Begins(w)
  BY DEF HasRemoved, HasFoundGone, Removed, Assign!Removed
<1>5. CASE HasRemoved(w)
  <2>1. PICK i \in Versions : heap[i].xmax = w
    BY <1>5 DEF HasRemoved, Ends
  <2>2. LiveVersions' = {} /\ UNCHANGED heap
    BY <1>4, <2>1, RemovedIsGone, <1>1
  <2>3. Share' = NoShare
    BY <2>2, Seen DEF ShareSeen
  <2>4. Used' = Used
    <3>1. /\ \A k \in Versions :
               Committed(heap[k].xmin)' <=> Committed(heap[k].xmin)
          /\ Versions' = Versions
      BY <1>1, <1>4, <1>2 DEF Begins
    <3> QED
      BY <2>2, <3>1 DEF Used
  <2> QED
    BY <1>4, <2>3, <2>4, <1>3 DEF Assign!Remove, Assign!Tell
<1>6. CASE HasFoundGone(w)
  <2>1. w \in wasAbsent /\ ~Ends(w)
    BY <1>6 DEF HasFoundGone
  <2>2. Share' = Share /\ Used' = Used
    BY <1>4, <2>1, NothingSettled, <1>1
  <2> QED
    BY <1>4, <2>1, <2>2, <1>3 DEF Assign!FindGone, Assign!Tell
<1> QED
  BY <1>5, <1>6

LEMMA StepAssigns ==
  UInv /\ UInv' /\ [Next]_upsertVars => [Assign!AssignNext]_(Assign!assignVars)
<1> SUFFICES ASSUME UInv, UInv', [Next]_upsertVars
             PROVE  [Assign!AssignNext]_(Assign!assignVars)
  OBVIOUS
<1>1. ASSUME NEW w \in Writers, Observe, Commit(w)
      PROVE  Assign!AssignNext
  BY <1>1, CreationAssigns, ReplacementAssigns, RemovalAssigns, Committing, Noted
     DEF Assign!AssignNext
<1>2. ASSUME NEW w \in Writers, Observe,
             \/ Draw(w) \/ Probe(w) \/ Insert(w) \/ Lock(w) \/ Scan(w) \/ Delete(w)
      PROVE  UNCHANGED Assign!assignVars
  <2>1. Extends(w)
    BY <1>2, DrawKeeps, ProbeKeeps, InsertKeeps, LockKeeps, ScanKeeps, DeleteKeeps
  <2>2. Active(w)
    BY <1>2, Running DEF Draw, Probe, Insert, Lock, Scan, Delete
  <2>3. UNCHANGED txn /\ \A x \in Writers \ {w} : outcome'[x] = outcome[x]
    BY <1>2 DEF Draw, Probe, Insert, Lock, Scan, Delete, UInv, Types
  <2> QED
    BY <1>2, <2>1, <2>2, <2>3, Unseen
<1>3. CASE UNCHANGED upsertVars
  BY <1>3 DEF upsertVars, Assign!assignVars, Share, Used, Result, LiveVersions,
     Live, Versions, Committed
<1> QED
  BY <1>1, <1>2, <1>3, BeginAssigns, AbortAssigns DEF Next, Step

\* Every behaviour of the statements, with their waiting, their retries and
\* their failures, is a behaviour of the assignment which PUT and DELETE on the
\* share's URI promise.
THEOREM StatementsAssign == Spec => ImplementsAssign
BY AssignsAtFirst, StepAssigns, Holding, PTL
   DEF Spec, ImplementsAssign, Assign!AssignSpec

==============================================================================
