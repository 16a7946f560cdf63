----------------------------- MODULE MCShareUpsert -----------------------------
(***************************************************************************)
(* Four requests on one share at once: two PUTs which grant different      *)
(* permissions, a third PUT and a DELETE.                                  *)
(***************************************************************************)
EXTENDS ShareUpsert, TLC

CONSTANTS w1, w2, w3, w4

MCOpOf ==
  (w1 :> "read" @@ w2 :> "read_write") @@ (w3 :> "read" @@ w4 :> "delete")

==============================================================================
