------------------------------ MODULE MCAccounts ------------------------------
(***************************************************************************)
(* Accounts and auth keys, from an empty database.  "alice..." is a text   *)
(* of more than 255 characters whose excess is blanks, so the column       *)
(* stores it as "alice"; "long" is one the column refuses.                 *)
(***************************************************************************)
EXTENDS ApiAudit, TLC

MCUsernames == {"alice", "alice...", "bob", "long"}

MCVarchar255 ==
  [name \in MCUsernames |->
     CASE name = "alice..." -> "alice" [] name = "long" -> TooLong [] OTHER -> name]

MCMaxId == [users |-> 2, auth_keys |-> 2, tasks |-> 0, task_shares |-> 0]

MCInitialDatabase ==
  [users |-> {}, auth_keys |-> {}, tasks |-> {}, task_shares |-> {},
   sequence |-> [t \in {"users", "auth_keys", "tasks", "task_shares"} |-> 1],
   minted |-> {}]

Register(name, password) ==
  [op |-> "create_user", username |-> name, password |-> password]
LogIn(name, password) ==
  [op |-> "create_auth_key", username |-> name, password |-> password]

MCRequests ==
  {Register("alice", "p"), Register("alice...", "q"), Register("long", "p"),
   Register(Blank, "p"),
   LogIn("alice", "p"), LogIn("alice", "q"), LogIn("bob", "p")}
  \cup [op : {"delete_auth_key", "get_current_user"}, key : {"k1", "other"}]
  \cup [op : {"get_user"}, key : {"k1"}, user : {1, 2}]

WorkerSymmetry == Permutations(Workers)

==============================================================================
