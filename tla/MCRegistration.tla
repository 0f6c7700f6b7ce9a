--------------------------- MODULE MCRegistration ---------------------------
(***************************************************************************)
(* Instances of Registration for TLC. Requests handled in parallel are     *)
(* alike, so states that differ in who handles what are one.               *)
(***************************************************************************)
EXTENDS Registration, TLC

MCWorkerSymmetry == Permutations(Workers)
=============================================================================
