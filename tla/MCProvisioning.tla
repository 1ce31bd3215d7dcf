--------------------------- MODULE MCProvisioning ---------------------------
(***************************************************************************)
(* One node that may be enrolled twice, two id_a it may be registered      *)
(* under and two interchangeable invocations of the registry tool.         *)
(***************************************************************************)
EXTENDS Provisioning, TLC

Symmetric == Permutations(Runs)
=============================================================================
