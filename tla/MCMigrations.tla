------------------------------ MODULE MCMigrations ------------------------------
(***************************************************************************)
(* Two containers on one database, with all the migrations or with those   *)
(* the image carries.                                                      *)
(***************************************************************************)
EXTENDS Migrations, TLC

ContainerSymmetry == Permutations(Containers)

==============================================================================
