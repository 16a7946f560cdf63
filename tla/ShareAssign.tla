------------------------------ MODULE ShareAssign ------------------------------
(***************************************************************************)
(* What PUT and DELETE on one share's URI promise: a PUT is a single       *)
(* assignment, answered Created or Replaced according to what it really    *)
(* did, and a DELETE removes the share or finds it gone at some moment     *)
(* while it was under way.  Nothing else changes the share.                *)
(***************************************************************************)
EXTENDS Naturals

CONSTANTS
  Writers,      \* the requests under way on this share
  OpOf,         \* what each of them does: a permission to PUT, or "delete"
  Ids,          \* ids the share's rows may get
  NoShare

VARIABLES
  share,        \* [id, permission], or NoShare
  used,         \* ids which shares have had
  result,       \* what each writer was told
  wasAbsent     \* the writers which saw the share absent, or could have

assignVars == <<share, used, result, wasAbsent>>

Created(id) == [kind |-> "Created", id |-> id]
Replaced(id) == [kind |-> "Replaced", id |-> id]
Removed == [kind |-> "Removed", id |-> 0]
Failed == [kind |-> "Failed", id |-> 0]
Pending == [kind |-> "Pending", id |-> 0]
Idle == [kind |-> "Idle", id |-> 0]

AssignInit ==
  /\ \/ share = NoShare /\ used = {}
     \/ \E id \in Ids, p \in {"read", "read_write"} :
          share = [id |-> id, permission |-> p] /\ used = {id}
  /\ result = [w \in Writers |-> Idle]
  /\ wasAbsent = {}

Tell(w, r) == result' = [result EXCEPT ![w] = r]

Begin(w) ==
  /\ result[w] = Idle
  /\ Tell(w, Pending)
  /\ UNCHANGED <<share, used>>

Create(w) ==
  /\ result[w] = Pending /\ OpOf[w] # "delete"
  /\ share = NoShare
  /\ \E id \in Ids \ used :
       /\ share' = [id |-> id, permission |-> OpOf[w]]
       /\ used' = used \cup {id}
       /\ Tell(w, Created(id))

Replace(w) ==
  /\ result[w] = Pending /\ OpOf[w] # "delete"
  /\ share # NoShare
  /\ share' = [share EXCEPT !.permission = OpOf[w]]
  /\ Tell(w, Replaced(share.id))
  /\ UNCHANGED used

Remove(w) ==
  /\ result[w] = Pending /\ OpOf[w] = "delete"
  /\ share' = NoShare
  /\ Tell(w, Removed)
  /\ UNCHANGED used

FindGone(w) ==
  /\ result[w] = Pending /\ OpOf[w] = "delete"
  /\ w \in wasAbsent
  /\ Tell(w, Removed)
  /\ UNCHANGED <<share, used>>

GiveUp(w) ==
  /\ result[w] = Pending
  /\ Tell(w, Failed)
  /\ UNCHANGED <<share, used>>

AssignNext ==
  /\ \E w \in Writers :
       Begin(w) \/ Create(w) \/ Replace(w) \/ Remove(w) \/ FindGone(w) \/ GiveUp(w)
  /\ wasAbsent' = wasAbsent \cup
       (IF share' = NoShare THEN {w \in Writers : result'[w] = Pending} ELSE {})

AssignSpec == AssignInit /\ [][AssignNext]_assignVars

==============================================================================
