------------------------------- MODULE MCRetries -------------------------------
(***************************************************************************)
(* Two workers and clients which send what they want up to three times:    *)
(* alice's changes to her tasks and their shares, or a creation and a      *)
(* revocation, or two registrations of one name.                           *)
(***************************************************************************)
EXTENDS Retries, TLC

CONSTANTS put, unshare, patch, revoke, add, join1, join2

MCVarchar255 == [name \in Usernames |-> name]

MCMaxId == [users |-> 8, auth_keys |-> 2, tasks |-> 8, task_shares |-> 4]

Row(id, name) == [id |-> id, username |-> name, password |-> [hash_of |-> "p"]]

OpenTask(id, owner) ==
  [id |-> id, owner |-> owner, title |-> "t", description |-> None,
   completed |-> FALSE]

MCInitialDatabase ==
  [users |-> {Row(1, "alice"), Row(2, "bob")},
   auth_keys |->
     {[id |-> 1, user_id |-> 1, key |-> "ka", expiration |-> 9],
      [id |-> 2, user_id |-> 2, key |-> "kb", expiration |-> 9]},
   tasks |-> {OpenTask(1, 1), OpenTask(2, 1)},
   task_shares |->
     {[id |-> 1, task_id |-> 2, user_id |-> 2, permission |-> "read"]},
   sequence |-> [users |-> 3, auth_keys |-> 3, tasks |-> 3, task_shares |-> 2],
   minted |-> {"ka", "kb"}]

Join(password) == [op |-> "create_user", username |-> "zed", password |-> password]
Add(title) ==
  [op |-> "add_task", key |-> "ka", title |-> title, description |-> None]

MCGoal ==
  (put :> [op |-> "put_share", key |-> "ka", task |-> 1, username |-> "bob",
           permission |-> "read"])
  @@ (unshare :> [op |-> "delete_share", key |-> "ka", task |-> 2, username |-> "bob"])
  @@ (patch :> [op |-> "update_task_by_id", key |-> "ka", task |-> 1,
                completed |-> TRUE, title |-> None, description |-> None])
  @@ (revoke :> [op |-> "delete_auth_key", key |-> "kb"])
  @@ (add :> Add("u")) @@ (join1 :> Join("p")) @@ (join2 :> Join("q"))

\* The clients which are there send up to n times; put sends once more.
Ready(some, n) == [c \in Clients |-> IF c \in some THEN n ELSE 0]

MCPatiences ==
  {[Ready({put, unshare, patch}, 2) EXCEPT ![put] = 3],
   Ready({add, revoke}, 3), Ready({join1, join2}, 3)}

MCRequests == {Goal[c] : c \in Clients}

WorkerSymmetry == Permutations(Workers)

==============================================================================
