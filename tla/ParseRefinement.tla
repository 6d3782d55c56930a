-------------------------- MODULE ParseRefinement --------------------------
(***************************************************************************)
(* The loop of MemoryMap::parse (MemoryMapParse) against its documentation *)
(* (ParseContract): what the caller sees of the loop is its outcome.       *)
(***************************************************************************)
EXTENDS MemoryMapParse

\* The value the caller of parse sees.
Outcome ==
    CASE pc = "idle" -> [tag |-> "NotCalled"]
      [] pc = "loop" -> [tag |-> "Running"]
      [] pc = "done" /\ result = Ok ->
            [tag |-> "Ok", regions |-> regions, total |-> total,
             usable |-> usable, reclaimable |-> reclaimable,
             usableCount |-> usableCount, truncated |-> source.truncated]
      [] OTHER -> result

Contract == INSTANCE ParseContract WITH outcome <- Outcome

-----------------------------------------------------------------------------
\* The loop implements the contract: every call returns exactly the error or
\* the map and statistics that ParseContract promises for its source.
ImplementsContract == Contract!Spec
=============================================================================
