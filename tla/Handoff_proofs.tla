--------------------------- MODULE Handoff_proofs ---------------------------
(***************************************************************************)
(* Proofs about Handoff for every set of pages and either meaning of       *)
(* extern "C".                                                             *)
(***************************************************************************)
EXTENDS Handoff, TLAPS

\* Which program points lie before which events of the boot sequence.
BeforeGet   == {"init", "map_alloc", "map_get"}
BeforeStore == BeforeGet \cup {"build", "store"}
BeforeExit  == BeforeStore \cup {"exit_alloc", "exit_get", "exit_call"}
FirmwareEnd == {"aborted", "panicked", "reset"}
AfterCli    == {"switch", "call"} \cup KernelPcs
               \cup {"fatal_halt", "halted", "exception_halt",
                     "firmware_handler", "triple_fault"}
AfterSwitch == {"call"} \cup KernelPcs
AfterInfo   == {"serial_init", "lgdt", "retfq", "idt_fill", "lidt", "report",
                "halted"}
BeforeLgdt  == LoaderPcs \cup {"kernel_entry", "kernel_main", "rederive",
                               "serial_init", "lgdt"}

\* Boot services are there exactly up to a successful exit call.
Services == bs <=> pc \in BeforeExit \cup FirmwareEnd

\* Interrupts are off from the cli on, the firmware's stack is left right
\* after it.
Isolation ==
    /\ pc \in AfterCli => ~ifl
    /\ pc \in AfterSwitch => stack # "uefi"
    /\ pc \in LoaderPcs \ AfterSwitch => stack = "uefi"

\* The record is collected, stored, and then read back unchanged.
Record ==
    /\ pc \in BeforeGet => collected = NoMap
    /\ pc \in LoaderPcs \ BeforeGet => collected # NoMap
    /\ pc \in BeforeStore => kbi = NoMap
    /\ pc \in (LoaderPcs \ BeforeStore) \cup KernelPcs => kbi = collected
    /\ ~bs => kbi = collected /\ collected # NoMap
    /\ pc \in AfterInfo => info = collected

\* The descriptor tables change in the order lgdt, retfq, fill, lidt.
Tables ==
    /\ pc \in BeforeLgdt => gdt = "firmware" /\ idt = "firmware"
    /\ pc \in {"retfq", "idt_fill", "lidt"} => gdt = "kernel" /\ idt = "firmware"
    /\ pc \in {"idt_fill", "lidt"} => cs = "kernel"
    /\ pc = "lidt" => idtReady
    /\ idt = "kernel" => gdt = "kernel" /\ cs = "kernel" /\ idtReady

IInv == TypeOK /\ Services /\ Isolation /\ Record /\ Tables
        /\ TripleFaultOnlyInWindow

-----------------------------------------------------------------------------
USE DEF BeforeGet, BeforeStore, BeforeExit, FirmwareEnd, AfterCli, AfterSwitch,
        AfterInfo, BeforeLgdt, LoaderPcs, KernelPcs, FinalPcs, Go

LEMMA InitIInv == Init => IInv
<1> SUFFICES ASSUME Init PROVE IInv
  OBVIOUS
<1>1. /\ bs /\ ifl /\ ~idtReady /\ ~stale /\ ~strayIrq
      /\ bs \in BOOLEAN /\ ifl \in BOOLEAN /\ idtReady \in BOOLEAN
      /\ stale \in BOOLEAN /\ strayIrq \in BOOLEAN
  BY Zenon DEF Init
<1>2. /\ pc = "init" /\ stack = "uefi"
      /\ gdt = "firmware" /\ cs = "firmware" /\ idt = "firmware"
      /\ mem \in Maps /\ tries = 2
      /\ collected = NoMap /\ kbi = NoMap /\ arg = "none" /\ info = NoMap
  BY DEF Init, Maps, Types
<1> QED
  BY <1>1, <1>2 DEF IInv, TypeOK, Services, Isolation, Record, Tables,
                    TripleFaultOnlyInWindow

\* Pool allocations and frees turn a memory map into a memory map.
LEMMA AllocatedMaps ==
    ASSUME NEW m \in Maps, NEW ty \in Types
    PROVE  Allocated(m, ty) \subseteq Maps /\ Freed(m, ty) \subseteq Maps
  BY DEF Allocated, Freed, Maps, Types

\* Steps of the firmware and of devices touch its memory map or strayIrq only.
LEMMA EnvironmentIInv ==
    ASSUME IInv, FirmwareEvent \/ DeviceInterrupt
    PROVE  IInv'
<1>1. CASE FirmwareEvent
  <2>1. mem' \in Maps
    BY <1>1, AllocatedMaps DEF FirmwareEvent, IInv, TypeOK, Types
  <2> QED
    BY <1>1, <2>1 DEF FirmwareEvent, IInv, TypeOK, Services, Isolation, Record,
                      Tables, TripleFaultOnlyInWindow, cpu, data
<1>2. CASE DeviceInterrupt
  BY <1>2 DEF DeviceInterrupt, IInv, TypeOK, Services, Isolation, Record,
              Tables, TripleFaultOnlyInWindow, cpu, fw, data
<1> QED
  BY <1>1, <1>2

\* Every step of efi_main preserves the invariant.
LEMMA LoaderIInv ==
    ASSUME IInv, LoaderStep
    PROVE  IInv'
<1> USE DEF IInv, TypeOK, Services, Isolation, Record, Tables,
            TripleFaultOnlyInWindow, cpu, fw, data
<1>1. CASE HelpersInit
  BY <1>1 DEF HelpersInit
<1>2. CASE MemoryMapAlloc
  <2>1. mem' \in Maps
    BY <1>2, AllocatedMaps DEF MemoryMapAlloc, Types
  <2> QED
    BY <1>2, <2>1 DEF MemoryMapAlloc
<1>3. CASE MemoryMapFails
  BY <1>3 DEF MemoryMapFails
<1>4. CASE MemoryMapGet
  BY <1>4, NoMapAssumption DEF MemoryMapGet
<1>5. CASE BuildBootInfo
  <2>1. mem' \in Maps
    BY <1>5, AllocatedMaps DEF BuildBootInfo, Types
  <2> QED
    BY <1>5, <2>1 DEF BuildBootInfo
<1>6. CASE StoreBootInfo
  BY <1>6 DEF StoreBootInfo
<1>7. CASE ExitAlloc
  <2>1. mem' \in Maps
    BY <1>7, AllocatedMaps DEF ExitAlloc, Types
  <2> QED
    BY <1>7, <2>1 DEF ExitAlloc
<1>8. CASE ExitGetMap
  <2>1. stale' \in BOOLEAN
    BY <1>8, Zenon DEF ExitGetMap
  <2>2. /\ pc = "exit_get" /\ pc' = "exit_call"
        /\ UNCHANGED <<cpu, bs, mem, tries, data, strayIrq>>
    BY <1>8 DEF ExitGetMap
  <2> QED
    BY <2>1, <2>2
<1>9. CASE ExitBootServices
  <2>1. CASE bs' = FALSE
    <3>1. ~bs' /\ bs' \in BOOLEAN
      BY <2>1, Zenon
    <3>2. bs
      BY <1>9 DEF ExitBootServices
    <3>3. /\ pc = "exit_call" /\ pc' = "forget" /\ tries' = tries
          /\ UNCHANGED <<cpu, mem, stale, data, strayIrq>>
      BY <1>9, <3>1, <3>2 DEF ExitBootServices
    <3> QED
      BY <3>1, <3>3
  <2>2. CASE UNCHANGED bs
    BY <1>9, <2>2 DEF ExitBootServices
  <2> QED
    BY <1>9, <2>1, <2>2 DEF ExitBootServices
<1>10. CASE ForgetFinalMap
  BY <1>10 DEF ForgetFinalMap
<1>11. CASE Cli
  <2>1. ~ifl' /\ ifl' \in BOOLEAN
    BY <1>11, Zenon DEF Cli
  <2>2. /\ pc = "cli" /\ pc' = "switch"
        /\ UNCHANGED <<stack, gdt, cs, idt, idtReady, fw, data, strayIrq>>
    BY <1>11 DEF Cli
  <2> QED
    BY <2>1, <2>2
<1>12. CASE SwitchToBootstrapStack
  BY <1>12 DEF SwitchToBootstrapStack
<1>13. CASE CallKernelEntry
  BY <1>13 DEF CallKernelEntry
<1> QED
  BY <1>1, <1>2, <1>3, <1>4, <1>5, <1>6, <1>7, <1>8, <1>9, <1>10, <1>11, <1>12,
     <1>13 DEF LoaderStep

\* Every step of kernel_entry and kernel_main preserves the invariant.
LEMMA KernelIInv ==
    ASSUME IInv, KernelStep
    PROVE  IInv'
<1> USE DEF IInv, TypeOK, Services, Isolation, Record, Tables,
            TripleFaultOnlyInWindow, cpu, fw, data
<1>1. CASE RejectBootInfo
  BY <1>1 DEF RejectBootInfo
<1>2. CASE AcceptBootInfo
  BY <1>2 DEF AcceptBootInfo
<1>3. CASE SwitchToKernelStack
  BY <1>3 DEF SwitchToKernelStack
<1>4. CASE RederiveBootInfo
  BY <1>4 DEF RederiveBootInfo
<1>5. CASE SerialInit
  BY <1>5 DEF SerialInit
<1>6. CASE LoadGdt
  BY <1>6 DEF LoadGdt
<1>7. CASE ReloadSegments
  BY <1>7 DEF ReloadSegments
<1>8. CASE PopulateIdt
  BY <1>8 DEF PopulateIdt
<1>9. CASE LoadIdt
  BY <1>9 DEF LoadIdt
<1>10. CASE ReportAndHalt
  BY <1>10 DEF ReportAndHalt
<1> QED
  BY <1>1, <1>2, <1>3, <1>4, <1>5, <1>6, <1>7, <1>8, <1>9, <1>10 DEF KernelStep

\* A fault ends in a state the loaded tables allow.
LEMMA FaultIInv ==
    ASSUME IInv, Fault
    PROVE  IInv'
<1>1. ~ifl' /\ ifl' \in BOOLEAN
  BY Zenon DEF Fault
<1>2. /\ ~bs
      /\ pc' \in FaultTargets
      /\ UNCHANGED <<stack, gdt, cs, idt, idtReady, fw, data, strayIrq>>
  BY DEF Fault
<1> QED
  BY <1>1, <1>2 DEF FaultTargets, IInv, TypeOK, Services, Isolation, Record,
                    Tables, TripleFaultOnlyInWindow, fw, data

LEMMA NextIInv == IInv /\ [Next]_vars => IInv'
<1> SUFFICES ASSUME IInv, [Next]_vars
             PROVE  IInv'
  OBVIOUS
<1>1. CASE LoaderStep
  BY <1>1, LoaderIInv
<1>2. CASE KernelStep
  BY <1>2, KernelIInv
<1>3. CASE FirmwareEvent \/ DeviceInterrupt
  BY <1>3, EnvironmentIInv
<1>4. CASE Fault
  BY <1>4, FaultIInv
<1>5. CASE UNCHANGED vars
  BY <1>5 DEF vars, IInv, TypeOK, Services, Isolation, Record, Tables,
              TripleFaultOnlyInWindow
<1> QED
  BY <1>1, <1>2, <1>3, <1>4, <1>5 DEF Next

THEOREM HandoffIInv == Spec => []IInv
<1>1. Init => IInv
  BY InitIInv
<1>2. IInv /\ [Next]_vars => IInv'
  BY NextIInv
<1> QED
  BY <1>1, <1>2, PTL DEF Spec

-----------------------------------------------------------------------------
\* Type correctness of the boot sequence.
THEOREM HandoffTypeOK == Spec => []TypeOK
<1>1. IInv => TypeOK
  BY DEF IInv
<1> QED
  BY <1>1, HandoffIInv, PTL

\* Kernel code runs only on a machine it owns, with a populated record.
THEOREM HandoffKernelRunsOwned == Spec => []KernelRunsOwned
<1>1. IInv => KernelRunsOwned
  BY DEF IInv, Services, Isolation, Record, KernelRunsOwned
<1> QED
  BY <1>1, HandoffIInv, PTL

\* kernel_main works with what efi_main collected, whatever it was passed.
THEOREM HandoffKernelUsesCollected == Spec => []KernelUsesCollected
<1>1. IInv => KernelUsesCollected
  BY DEF IInv, Services, Record, KernelUsesCollected
<1> QED
  BY <1>1, HandoffIInv, PTL

\* With the kernel's IDT loaded every fault reaches exception_handler.
THEOREM HandoffFaultsCaught == Spec => []FaultsCaughtOnceIdtLive
<1>1. IInv => FaultsCaughtOnceIdtLive
  BY DEF IInv, Tables, FaultsCaughtOnceIdtLive, FaultTargets
<1> QED
  BY <1>1, HandoffIInv, PTL

\* A triple fault comes only out of the window between lgdt and lidt.
THEOREM HandoffTripleFaultWindow == Spec => []TripleFaultOnlyInWindow
<1>1. IInv => TripleFaultOnlyInWindow
  BY DEF IInv
<1> QED
  BY <1>1, HandoffIInv, PTL

\* KERNEL_BOOT_INFO is written once, before boot services exit.
THEOREM HandoffBootInfoWrittenOnce == Spec => BootInfoWrittenOnce
<1>1. IInv /\ [Next]_vars =>
         [kbi' # kbi => kbi = NoMap /\ bs /\ kbi' = collected]_vars
  <2> SUFFICES ASSUME IInv, Next, kbi' # kbi
               PROVE  kbi = NoMap /\ bs /\ kbi' = collected
    BY DEF vars
  <2>1. StoreBootInfo
    BY DEF Next, LoaderStep, KernelStep, FirmwareEvent, DeviceInterrupt, Fault,
           HelpersInit, MemoryMapAlloc, MemoryMapFails, MemoryMapGet,
           BuildBootInfo, ExitAlloc, ExitGetMap, ExitBootServices,
           ForgetFinalMap, Cli, SwitchToBootstrapStack, CallKernelEntry,
           RejectBootInfo, AcceptBootInfo, SwitchToKernelStack,
           RederiveBootInfo, SerialInit, LoadGdt, ReloadSegments, PopulateIdt,
           LoadIdt, ReportAndHalt, data
  <2> QED
    BY <2>1 DEF StoreBootInfo, IInv, Services, Record
<1> QED
  BY <1>1, HandoffIInv, PTL DEF Spec, BootInfoWrittenOnce

\* ExitBootServices, once it has succeeded, is final: no later step brings
\* boot services back or changes the firmware's memory map.
THEOREM HandoffNoFirmwareCallAfterExit == Spec => NoFirmwareCallAfterExit
<1>1. IInv /\ [Next]_vars => [~bs => ~bs' /\ mem' = mem]_vars
  <2> SUFFICES ASSUME IInv, Next, ~bs
               PROVE  ~bs' /\ mem' = mem
    BY DEF vars
  <2>1. pc \notin BeforeExit \cup FirmwareEnd
    BY DEF IInv, Services
  <2>2. CASE LoaderStep
    BY <2>1, <2>2
       DEF LoaderStep, HelpersInit, MemoryMapAlloc, MemoryMapFails, MemoryMapGet,
           BuildBootInfo, StoreBootInfo, ExitAlloc, ExitGetMap, ExitBootServices,
           ForgetFinalMap, Cli, SwitchToBootstrapStack, CallKernelEntry, fw
  <2>3. CASE KernelStep
    BY <2>3
       DEF KernelStep, RejectBootInfo, AcceptBootInfo, SwitchToKernelStack,
           RederiveBootInfo, SerialInit, LoadGdt, ReloadSegments, PopulateIdt,
           LoadIdt, ReportAndHalt, fw
  <2>4. CASE FirmwareEvent \/ DeviceInterrupt \/ Fault
    BY <2>4 DEF FirmwareEvent, DeviceInterrupt, Fault, fw
  <2> QED
    BY <2>2, <2>3, <2>4 DEF Next
<1> QED
  BY <1>1, HandoffIInv, PTL DEF Spec, NoFirmwareCallAfterExit

-----------------------------------------------------------------------------
(* Refinement *)

\* A step that touches none of what the mapping looks at is a stutter, or the
\* Stop of the contract when it ends in a final state.
LEMMA QuietStep ==
    ASSUME UNCHANGED <<bs, ifl, stack, idt, kbi>>, pc \notin FinalPcs
    PROVE  [Contract!Next]_(Contract!cvars)
<1>1. Phase' = Phase
  BY DEF Phase
<1>2. CASE pc' \in FinalPcs
  <2>1. Contract!Stop
    BY <1>1, <1>2 DEF Contract!Stop
  <2> QED
    BY <2>1 DEF Contract!Next
<1>3. CASE pc' \notin FinalPcs
  <2>1. (pc \in FinalPcs)' = (pc \in FinalPcs)
    BY <1>3
  <2> QED
    BY <1>1, <2>1 DEF Contract!cvars
<1> QED
  BY <1>2, <1>3

\* The four steps the contract sees: the store, the exit, the stack switch
\* and the lidt.
LEMMA StoreRefines ==
    ASSUME IInv, IInv', StoreBootInfo
    PROVE  Contract!Publish
<1>1. bs /\ bs' /\ kbi = NoMap /\ kbi' \in Maps
  BY DEF IInv, TypeOK, Services, Record, StoreBootInfo
<1>2. Phase = "Firmware" /\ Phase' = "Firmware"
  BY <1>1 DEF Phase
<1> QED
  BY <1>1, <1>2 DEF Contract!Publish, StoreBootInfo

LEMMA ExitRefines ==
    ASSUME IInv, IInv', ExitBootServices, pc' = "forget"
    PROVE  Contract!ExitFirmware
<1>1. pc = "exit_call" /\ UNCHANGED <<ifl, stack, idt, kbi>>
  BY DEF ExitBootServices, cpu, data
<1>2. bs /\ ~bs' /\ stack' = "uefi" /\ idt' = "firmware" /\ kbi # NoMap
  BY <1>1 DEF IInv, Services, Isolation, Tables, Record
<1>3. Phase = "Firmware" /\ Phase' = "Transition"
  BY <1>2 DEF Phase
<1> QED
  BY <1>1, <1>2, <1>3 DEF Contract!ExitFirmware, Contract!Advance

LEMMA SwitchRefines ==
    ASSUME IInv, IInv', SwitchToBootstrapStack
    PROVE  Contract!EnterKernel
<1>1. /\ pc = "switch" /\ pc' = "call" /\ stack' = "bootstrap"
      /\ UNCHANGED <<bs, ifl, idt, kbi>>
  BY DEF SwitchToBootstrapStack, fw, data
<1>2. /\ ~bs /\ ~bs' /\ ~ifl' /\ idt = "firmware" /\ idt' = "firmware"
      /\ stack = "uefi" /\ kbi # NoMap
  BY <1>1 DEF IInv, Services, Isolation, Tables, Record
<1>3. Phase = "Transition" /\ Phase' = "Kernel"
  BY <1>1, <1>2 DEF Phase
<1> QED
  BY <1>1, <1>2, <1>3 DEF Contract!EnterKernel, Contract!Advance

LEMMA LidtRefines ==
    ASSUME IInv, IInv', LoadIdt
    PROVE  Contract!Protect
<1>1. /\ pc = "lidt" /\ pc' = "report" /\ idt' = "kernel"
      /\ UNCHANGED <<bs, ifl, stack, kbi>>
  BY DEF LoadIdt, fw, data
<1>2. /\ ~bs /\ ~bs' /\ ~ifl /\ idt = "firmware" /\ stack # "uefi"
      /\ kbi # NoMap
  BY <1>1 DEF IInv, Services, Isolation, Tables, Record
<1>3. Phase = "Kernel" /\ Phase' = "Protected"
  BY <1>1, <1>2 DEF Phase
<1> QED
  BY <1>1, <1>2, <1>3 DEF Contract!Protect, Contract!Advance

\* cli and a fault clear IF, which the mapping does not see on the firmware's
\* stack.
LEMMA CliRefines ==
    ASSUME IInv, IInv', Cli
    PROVE  [Contract!Next]_(Contract!cvars)
<1>1. /\ pc = "cli" /\ pc' = "switch"
      /\ UNCHANGED <<bs, stack, idt, kbi>>
  BY DEF Cli, fw, data
<1>2. stack = "uefi"
  BY <1>1 DEF IInv, Isolation
<1>3. Phase' = Phase
  BY <1>1, <1>2 DEF Phase
<1>4. (pc \in FinalPcs)' = (pc \in FinalPcs)
  BY <1>1
<1> QED
  BY <1>1, <1>3, <1>4 DEF Contract!cvars

LEMMA FaultRefines ==
    ASSUME IInv, IInv', Fault
    PROVE  [Contract!Next]_(Contract!cvars)
<1>1. /\ pc' \in FinalPcs
      /\ pc \in LoaderPcs \cup KernelPcs \cup {"halted", "fatal_halt"}
      /\ UNCHANGED <<bs, stack, idt, kbi>> /\ ~bs
  BY DEF Fault, FaultTargets, fw, data
<1>2. ~ifl'
  BY Zenon DEF Fault
<1>3. stack = "uefi" \/ ~ifl
  BY <1>1 DEF IInv, Isolation
<1>4. Phase' = Phase
  BY <1>1, <1>2, <1>3 DEF Phase
<1>5. CASE pc \in FinalPcs
  <2>1. (pc \in FinalPcs)' = (pc \in FinalPcs)
    BY <1>1, <1>5
  <2> QED
    BY <1>1, <1>4, <2>1 DEF Contract!cvars
<1>6. CASE pc \notin FinalPcs
  <2>1. Contract!Stop
    BY <1>1, <1>4, <1>6 DEF Contract!Stop
  <2> QED
    BY <2>1 DEF Contract!Next
<1> QED
  BY <1>5, <1>6

\* Every step of the boot code is a step of BootContract or a stutter.
LEMMA StepRefines ==
    ASSUME IInv, IInv', Next
    PROVE  [Contract!Next]_(Contract!cvars)
<1>1. CASE StoreBootInfo
  BY <1>1, StoreRefines DEF Contract!Next
<1>2. CASE ExitBootServices
  <2>1. CASE pc' = "forget"
    BY <1>2, <2>1, ExitRefines DEF Contract!Next
  <2>2. CASE pc' # "forget"
    <3>1. UNCHANGED <<bs, ifl, stack, idt, kbi>> /\ pc \notin FinalPcs
      BY <1>2, <2>2 DEF ExitBootServices, cpu, data
    <3> QED
      BY <3>1, QuietStep
  <2> QED
    BY <2>1, <2>2
<1>3. CASE SwitchToBootstrapStack
  BY <1>3, SwitchRefines DEF Contract!Next
<1>4. CASE LoadIdt
  BY <1>4, LidtRefines DEF Contract!Next
<1>5. CASE Cli
  BY <1>5, CliRefines
<1>6. CASE Fault
  BY <1>6, FaultRefines
<1>7. CASE SwitchToKernelStack
  <2>1. /\ UNCHANGED <<bs, ifl, idt, kbi>> /\ stack' = "kernel"
        /\ pc = "kernel_main" /\ pc' = "rederive"
    BY <1>7 DEF SwitchToKernelStack, fw, data
  <2>2. stack # "uefi"
    BY <2>1 DEF IInv, Isolation
  <2>3. Phase' = Phase
    BY <2>1, <2>2 DEF Phase
  <2>4. (pc \in FinalPcs)' = (pc \in FinalPcs)
    BY <2>1
  <2> QED
    BY <2>1, <2>3, <2>4 DEF Contract!cvars
<1>8. CASE \/ HelpersInit \/ MemoryMapAlloc \/ MemoryMapFails \/ MemoryMapGet
           \/ BuildBootInfo \/ ExitAlloc \/ ExitGetMap \/ ForgetFinalMap
           \/ CallKernelEntry \/ RejectBootInfo \/ AcceptBootInfo
           \/ RederiveBootInfo \/ SerialInit \/ LoadGdt \/ ReloadSegments
           \/ PopulateIdt \/ ReportAndHalt \/ FirmwareEvent \/ DeviceInterrupt
  <2>1. UNCHANGED <<bs, ifl, stack, idt, kbi>> /\ pc \notin FinalPcs
    BY <1>8 DEF HelpersInit, MemoryMapAlloc, MemoryMapFails, MemoryMapGet,
           BuildBootInfo, ExitAlloc, ExitGetMap, ForgetFinalMap,
           CallKernelEntry, RejectBootInfo, AcceptBootInfo, RederiveBootInfo,
           SerialInit, LoadGdt, ReloadSegments, PopulateIdt, ReportAndHalt,
           FirmwareEvent, DeviceInterrupt, cpu, fw, data
  <2> QED
    BY <2>1, QuietStep
<1> QED
  BY <1>1, <1>2, <1>3, <1>4, <1>5, <1>6, <1>7, <1>8
     DEF Next, LoaderStep, KernelStep

\* The boot code follows BootContract (its safety part; that it also stops in
\* the end is left to the model checker).
THEOREM HandoffRefinesContract == Spec => Contract!SafeSpec
<1>1. Init => Contract!Init
  <2> SUFFICES ASSUME Init PROVE Contract!Init
    OBVIOUS
  <2>1. bs
    BY Zenon DEF Init
  <2>2. pc = "init" /\ kbi = NoMap
    BY DEF Init
  <2>3. Phase = "Firmware"
    BY <2>1 DEF Phase
  <2> QED
    BY <2>2, <2>3 DEF Contract!Init
<1>2. IInv /\ IInv' /\ [Next]_vars => [Contract!Next]_(Contract!cvars)
  <2> SUFFICES ASSUME IInv, IInv', [Next]_vars
               PROVE  [Contract!Next]_(Contract!cvars)
    OBVIOUS
  <2>1. CASE Next
    BY <2>1, StepRefines
  <2>2. CASE UNCHANGED vars
    BY <2>2 DEF vars, Contract!cvars, Phase
  <2> QED
    BY <2>1, <2>2
<1> QED
  BY <1>1, <1>2, HandoffIInv, PTL DEF Spec, Contract!SafeSpec
=============================================================================
