----------------------------- MODULE MCHandoff -----------------------------
(***************************************************************************)
(* Instances of Handoff on two pages: enough for one the loader takes and  *)
(* one the firmware takes, before or after the map is read.                *)
(***************************************************************************)
EXTENDS Handoff
=============================================================================
