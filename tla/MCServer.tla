-------------------------------- MODULE MCServer --------------------------------
(***************************************************************************)
(* Two workers, as many backends, two writers of one row and a probe.      *)
(***************************************************************************)
EXTENDS Server, TLC

CONSTANTS c1, c2, probe, row

MCRowOf == (c1 :> row) @@ (c2 :> row) @@ (probe :> None)

==============================================================================
