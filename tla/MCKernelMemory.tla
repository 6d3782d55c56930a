--------------------------- MODULE MCKernelMemory ---------------------------
(***************************************************************************)
(* Instances of KernelMemory: two readers beside the boot thread, two      *)
(* different maps so that an overwrite shows, up to three calls of init.   *)
(***************************************************************************)
EXTENDS KernelMemory
=============================================================================
