---------------------------- MODULE MCClientDb ----------------------------
(***************************************************************************)
(* Symmetry for the model checking of ClientDb: requests and names are     *)
(* interchangeable.  Used only for safety properties.                      *)
(***************************************************************************)
EXTENDS ClientDb, TLC

RequestAndNameSymmetry == Permutations(Procs) \cup Permutations(Names)
=============================================================================
