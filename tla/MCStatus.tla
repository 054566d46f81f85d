------------------------------ MODULE MCStatus ------------------------------
(* Instances of Status for TLC: those of MCRuntime.                         *)
EXTENDS MCRuntime, Status
=============================================================================
