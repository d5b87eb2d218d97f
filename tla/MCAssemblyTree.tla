---------------------------- MODULE MCAssemblyTree ----------------------------
(***************************************************************************)
(* Instances of AssemblyTree for TLC: two assemblies compete for the only  *)
(* line of each worker's cache (16 lines in the code).                     *)
(***************************************************************************)
EXTENDS AssemblyTree

OneInstance == {"mesh"}
=============================================================================
