---------------------------- MODULE BootContract ----------------------------
(***************************************************************************)
(* What the boot sequence promises (docs/adr/ADR-0001 and the module       *)
(* comments of boot/src/main.rs), as a sequence of ownership phases:       *)
(*   Firmware    boot services own the machine, the record is prepared;    *)
(*   Transition  boot services are gone, the kernel is not running yet;    *)
(*   Kernel      kernel code runs, isolated from the firmware's stack and  *)
(*               from interrupts;                                          *)
(*   Protected   faults are handled by the kernel's own tables.            *)
(* The record is published before boot services go, and never changes      *)
(* after that.  The machine may stop in any phase.                         *)
(***************************************************************************)
CONSTANTS Records, Unset
VARIABLES phase, record, stopped

cvars == <<phase, record, stopped>>

Init == phase = "Firmware" /\ record = Unset /\ stopped = FALSE

Publish ==
    /\ phase = "Firmware" /\ record = Unset /\ ~stopped
    /\ record' \in Records
    /\ UNCHANGED <<phase, stopped>>

Advance(from, to) ==
    /\ phase = from /\ ~stopped /\ record # Unset
    /\ phase' = to
    /\ UNCHANGED <<record, stopped>>

ExitFirmware == Advance("Firmware", "Transition")
EnterKernel  == Advance("Transition", "Kernel")
Protect      == Advance("Kernel", "Protected")

Stop ==
    /\ ~stopped /\ stopped' = TRUE
    /\ UNCHANGED <<phase, record>>

Next == Publish \/ ExitFirmware \/ EnterKernel \/ Protect \/ Stop

SafeSpec == Init /\ [][Next]_cvars

Spec == SafeSpec /\ WF_cvars(Next)
=============================================================================
