------------------------------- MODULE MCSharing -------------------------------
(***************************************************************************)
(* alice owns task 1, bob owns task 2, and nothing is shared yet.  Each of *)
(* them reads, lists, edits and shares, also where they may not; task 9    *)
(* and carol do not exist.                                                 *)
(***************************************************************************)
EXTENDS ApiAudit, TLC

MCVarchar255 == [name \in Usernames |-> name]

MCMaxId == [users |-> 2, auth_keys |-> 2, tasks |-> 2, task_shares |-> 2]

MCInitialDatabase ==
  [users |-> {[id |-> 1, username |-> "alice", password |-> [hash_of |-> "p"]],
              [id |-> 2, username |-> "bob", password |-> [hash_of |-> "p"]]},
   auth_keys |->
     {[id |-> 1, user_id |-> 1, key |-> "ka", expiration |-> 9],
      [id |-> 2, user_id |-> 2, key |-> "kb", expiration |-> 9]},
   tasks |->
     {[id |-> 1, owner |-> 1, title |-> "t", description |-> "d",
       completed |-> FALSE],
      [id |-> 2, owner |-> 2, title |-> "t", description |-> None,
       completed |-> FALSE]},
   task_shares |-> {},
   sequence |-> [users |-> 3, auth_keys |-> 3, tasks |-> 3, task_shares |-> 1],
   minted |-> {"ka", "kb"}]

Put(key, task, name, permission) ==
  [op |-> "put_share", key |-> key, task |-> task, username |-> name,
   permission |-> permission]
Unshare(key, task, name) ==
  [op |-> "delete_share", key |-> key, task |-> task, username |-> name]
Get(key, task) == [op |-> "get_task_by_id", key |-> key, task |-> task]
Shares(key, task) == [op |-> "get_task_shares", key |-> key, task |-> task]
List(key, completed) ==
  [op |-> "get_tasks", key |-> key, completed |-> completed]
Patch(key, task, completed, title) ==
  [op |-> "update_task_by_id", key |-> key, task |-> task,
   completed |-> completed, title |-> title, description |-> None]
Add(key, title) ==
  [op |-> "add_task", key |-> key, title |-> title, description |-> None]
Revoke(key) == [op |-> "delete_auth_key", key |-> key]

\* The owner's side: shares made, changed, removed and listed, and an edit of
\* another field than the one bob edits.
Owners ==
  {Put("ka", 1, "bob", "read"), Put("ka", 1, "bob", "read_write"),
   Put("ka", 1, "bob", "unknown"), Put("ka", 1, "carol", "read"),
   Put("ka", 1, Blank, "read"), Unshare("ka", 1, "bob"), Shares("ka", 1),
   Patch("ka", 1, None, "u")}

\* The other side: what bob can do with the task, and what he tries.
Sharees ==
  {Get("kb", 1), Get("kb", 9), Patch("kb", 1, TRUE, None), List("kb", None),
   List("kb", TRUE), Put("kb", 1, "carol", "read"), Unshare("kb", 1, "bob"),
   Shares("kb", 1), Revoke("kb")}

\* Refused before anything else is looked at.
Unusable == {Patch("kb", 1, None, None), Patch("kb", 9, None, Blank), Add("kb", Blank)}

MCRequests == Owners \cup Sharees \cup Unusable

\* alice edits the task and revokes the key she does it with.
RevocationRequests == {Patch("ka", 1, TRUE, None), Revoke("ka")}

WorkerSymmetry == Permutations(Workers)

==============================================================================
