------------------------- MODULE ExceptionDelivery -------------------------
(***************************************************************************)
(* Interrupt delivery and guest threads (interrupts.c, traps.c).  Guest    *)
(* code runs on one native stack.  A check in that code may dispatch the   *)
(* BIOS handler under a setjmp; the handler leaves by a longjmp, and may   *)
(* have made another thread the current one (PCB[0]).  The switch is then  *)
(* taken at once, by a longjmp to the scheduler, or deferred to a later    *)
(* check.                                                                  *)
(*                                                                         *)
(* A program counter and a register file are abstracted to the place of    *)
(* the guest they belong to: thread t at its k-th point, or the handler at *)
(* a nesting level.  Whether an interrupt is pending, unmasked and out of  *)
(* its cooldown is the choice between Deliver and CheckOnly.               *)
(***************************************************************************)
EXTENDS Naturals, Sequences

CONSTANTS
    Threads,    \* the TCBs
    Main,       \* the thread that runs first
    Kernel,     \* owner of the handler's own places
    Host,       \* owner of the program counters that are no place of the guest
    Shared,     \* points at which all threads have one PC (a shared spin loop)
    MaxStep,    \* bound of the model: points of a thread
    Quirks      \* what else the guest may do, see QuirkNames

QuirkNames ==
    {"kernelPump",      \* low kernel code is interpreted, with pump sites in it
     "boundarySwitch",  \* a handler entered without a resume PC switches threads
     "nestedPoll"}      \* a nested interrupt is taken at an interpreter entry poll

ASSUME ExceptionAssumption ==
    /\ Main \in Threads /\ Kernel \notin Threads /\ Host \notin Threads /\ Kernel # Host
    /\ MaxStep \in Nat \ {0}
    /\ Quirks \subseteq QuirkNames

VARIABLES
    pcb,          \* PCB[0], the kernel's current thread
    tcb,          \* saved contexts: pc, gpr, and ready (state word 0x4000)
    running,      \* the thread whose code the native stack executes
    at,           \* how far each thread has come; MaxStep + 1 once it has ended
    gpr,          \* whose registers CPUState holds
    frames,       \* live activations of psx_check_interrupts past their setjmp
    armed,        \* the activation exception_jmpbuf was last filled by
    real_epc,     \* g_exception_real_epc
    reason,       \* g_exc_escape_reason
    rfe_pending,  \* g_rfe_escape_pending
    dlatch,       \* g_dirty_safe_resume_pc
    clatch,       \* s_compiled_interrupt_resume_pc
    site,         \* g_cosim_dirty_pump_site # 0
    defer,        \* s_defer_switch_from and _target (Kernel: nothing pending)
    ret,          \* g_sched_return_tcb (Kernel: none)
    ctl,          \* where psx_scheduler_run is
    wild          \* a longjmp went to an activation that had returned

latches == <<dlatch, clatch, site>>
excVars == <<frames, armed, real_epc, reason, rfe_pending>>
vars == <<pcb, tcb, running, at, gpr, excVars, latches, defer, ret, ctl, wild>>

Place(t, k) == [t |-> t, k |-> k]
Zero == Place(Host, 0)
Sentinel == Place(Host, 1)                   \* PSX_EXC_SENTINEL_PC
NoSwitch == [from |-> Kernel, to |-> Kernel]

Here == Place(running, at[running])
Level == Len(frames)
\* The place of the code that runs now.
Now == IF Level = 0 THEN Here ELSE Place(Kernel, Level)

Places == [t : Threads \cup {Kernel, Host}, k : 0..(MaxStep + 1)]

TypeOK ==
    /\ pcb \in Threads /\ running \in Threads
    /\ tcb \in [Threads -> [pc : Places, gpr : Places, ready : BOOLEAN]]
    /\ at \in [Threads -> 0..(MaxStep + 1)]
    /\ gpr \in Places /\ real_epc \in Places /\ dlatch \in Places /\ clatch \in Places
    /\ Level <= 2 /\ armed \in 0..2
    /\ reason \in {"NONE", "LEGACY", "SYSCALL", "RFE"}
    /\ rfe_pending \in BOOLEAN /\ site \in BOOLEAN /\ wild \in BOOLEAN
    /\ defer \in [from : Threads \cup {Kernel}, to : Threads \cup {Kernel}]
    /\ ret \in Threads \cup {Kernel}
    /\ ctl \in {"guest", "boundary", "returned", "exit", "halted"}

\* interrupts_init, with every thread opened and the first one dispatched.
Init ==
    /\ pcb = Main /\ running = Main
    /\ tcb = [t \in Threads |-> [pc |-> Place(t, 0), gpr |-> Place(t, 0), ready |-> TRUE]]
    /\ at = [t \in Threads |-> 0]
    /\ gpr = Place(Main, 0)
    /\ frames = <<>> /\ armed = 0 /\ real_epc = Zero
    /\ reason = "NONE" /\ rfe_pending = FALSE
    /\ dlatch = Zero /\ clatch = Zero /\ site = FALSE
    /\ defer = NoSwitch /\ ret = Kernel
    /\ ctl = "guest" /\ wild = FALSE

----------------------------------------------------------------------------
(* Where interrupts are checked.  A site passes its resume PC (Zero: none), *)
(* and says which latch holds it and where in memory the code is.           *)

Leader(area) == [pc |-> Now, pump |-> FALSE, area |-> area]
Poll == [pc |-> Zero, pump |-> FALSE, area |-> "game"]
\* A pump commits the PC of the place it is at or, at a transfer, of the next.
Pump(area, ahead) ==
    [pc |-> [Now EXCEPT !.k = IF ahead THEN @ + 1 ELSE @], pump |-> TRUE, area |-> area]

LeaderSites == {Leader(a) : a \in {"game", "kernel", "rom"}}
ThreadSites ==
    LeaderSites \cup {Poll}
        \cup {Pump("game", b) : b \in BOOLEAN}
        \cup {Pump("kernel", b) : b \in IF "kernelPump" \in Quirks THEN BOOLEAN ELSE {}}
HandlerSites ==
    {Leader("kernel"), Pump("game", FALSE)}
        \cup IF "nestedPoll" \in Quirks THEN {Poll} ELSE {}

\* The boundary after the outermost dispatch has no resume PC.
Sites ==
    CASE wild -> {}
      [] ~ wild /\ Level > 0 -> HandlerSites
      [] ~ wild /\ Level = 0 /\ ctl = "guest" -> ThreadSites
      [] ~ wild /\ Level = 0 /\ ctl = "boundary" -> {Poll}
      [] OTHER -> {}

DirtyLatch(s) == IF s.pump THEN s.pc ELSE dlatch
CompiledLatch(s) == IF s.pump \/ s.pc = Zero THEN clatch ELSE s.pc
\* s_last_interrupt_check_pc: the dirty latch wins.
CheckPc(s) == IF DirtyLatch(s) # Zero THEN DirtyLatch(s) ELSE CompiledLatch(s)

\* The resume PC becomes the EPC if it is a RAM address, else the sentinel does.
EpcFor(s) == IF CheckPc(s) = Zero \/ s.area = "rom" THEN Sentinel ELSE CheckPc(s)

\* Two places a comparison of program counters cannot tell apart.
same_guest_pc(a, b) ==
    \/ a = b
    \/ {a.t, b.t} \subseteq Threads /\ a.k = b.k /\ a.k \in Shared

----------------------------------------------------------------------------
(* The scheduler. *)

\* psx_scheduler_run restores the context of u from contexts c and dispatches
\* it.  A saved sentinel, or a PC that is no thread's, is fatal.
Resume(u, c) ==
    LET p == c[u].pc
    IN /\ gpr' = c[u].gpr
       /\ IF p.t \in Threads
          THEN /\ running' = p.t /\ at' = [at EXCEPT ![p.t] = p.k]
               /\ ctl' = "guest"
          ELSE /\ ctl' = "halted"
               /\ UNCHANGED <<running, at>>

\* psx_save_context_to_tcb.
Saved(t, pc) == [tcb EXCEPT ![t].pc = pc, ![t].gpr = gpr]

InGuest == ~ wild /\ Level = 0 /\ ctl = "guest"

Alive(u) == tcb[u].ready /\ at[u] <= MaxStep

\* ChangeThread outside the handler: the caller's context is committed if the
\* thread is still open, and the native stack is abandoned.
psx_request_thread_switch(u) ==
    /\ InGuest /\ u # pcb /\ Alive(u)
    /\ tcb' = IF tcb[pcb].ready THEN Saved(pcb, Here) ELSE tcb
    /\ pcb' = u /\ ret' = pcb
    /\ Resume(u, tcb')
    /\ UNCHANGED <<excVars, latches, defer, wild>>

\* The running thread executes up to its point k, and its registers with it.
Run(k) ==
    /\ at' = [at EXCEPT ![running] = k]
    /\ gpr' = IF gpr = Here THEN Place(running, k) ELSE gpr

\* The outermost dispatch of the running thread sees a PC of zero.  A thread does
\* not end while a switch is deferred, nor after its yielder has closed itself.
ThreadEnds ==
    /\ InGuest /\ defer = NoSwitch
    /\ ret # Kernel => tcb[ret].ready
    /\ Run(MaxStep + 1)
    /\ ctl' = "boundary"
    /\ UNCHANGED <<pcb, tcb, running, excVars, latches, defer, ret, wild>>

\* psx_scheduler_run after a dispatch that ended: another current thread goes
\* on, else the thread that yielded to this one, else the program ends.
ScheduleNext ==
    /\ ctl = "returned"
    /\ LET u == IF pcb # running THEN pcb ELSE ret
       IN /\ ret' = IF ret = u THEN Kernel ELSE ret
          /\ IF u \in Threads \ {running}
             THEN pcb' = u /\ Resume(u, tcb)
             ELSE ctl' = "exit" /\ UNCHANGED <<pcb, gpr, running, at>>
    /\ UNCHANGED <<tcb, excVars, latches, defer, wild>>

----------------------------------------------------------------------------
(* The check. *)

\* The deferred switch is stale once the guest has rescheduled by itself.
Stale == defer # NoSwitch /\ pcb # defer.from

\* A pending switch is honoured at a check that knows its resume PC, but not at
\* a pump site.
Honourable(s) ==
    /\ Level = 0 /\ defer # NoSwitch /\ ~ Stale
    /\ ~ (s.pump \/ site)
    /\ CheckPc(s) # Zero

\* The deferred thread is saved again, now consistently, and the scheduler
\* dispatches the target.
Honour(s) ==
    /\ s \in Sites /\ Honourable(s)
    /\ tcb' = Saved(defer.from, CheckPc(s))
    /\ pcb' = defer.to
    /\ defer' = NoSwitch
    /\ clatch' = Zero
    /\ Resume(defer.to, tcb')
    /\ UNCHANGED <<excVars, dlatch, site, ret, wild>>

\* Mutant: a check that cannot honour the switch drops it.
DeferDropped == IF Level = 0 THEN NoSwitch ELSE defer

\* What is left of the deferred switch after a check that did not honour it.
DeferKept == IF Level = 0 /\ Stale THEN NoSwitch ELSE defer

\* What the caller of the check leaves in the dirty latch: its old value, or
\* zero after the pump sites that do not put it back.
LatchAfter(s) == IF s.pump THEN {dlatch, Zero} ELSE {dlatch}

\* A check with nothing to deliver.
CheckOnly(s) ==
    /\ s \in Sites /\ ~ Honourable(s)
    /\ defer' = DeferKept
    /\ dlatch' \in LatchAfter(s)
    /\ ctl' = IF Level = 0 /\ ctl = "boundary" THEN "returned" ELSE ctl
    /\ UNCHANGED <<pcb, tcb, running, at, gpr, excVars, clatch, site, ret, wild>>

\* Mutant: an escape in flight does not hold back a nested delivery.
NestGateDepthOnly == Level < 2

\* Inside the handler: one level of nesting, and none while an escape is in
\* flight or the outer delivery has no resume PC.
NestGate == Level > 0 => Level < 2 /\ ~ rfe_pending /\ reason = "NONE"

\* The dirty latch is cleared for the handler.
HandlerLatch(s) == Zero

\* A delivery, up to the point where the BIOS handler has saved the registers
\* and the EPC in the TCB of the current thread.  A handler that has moved
\* PCB[0] does not let itself be interrupted.
Deliver(s) ==
    /\ s \in Sites /\ ~ Honourable(s)
    /\ NestGate
    /\ Level > 0 => pcb = frames[1].entry
    /\ defer' = DeferKept
    /\ \E a \in LatchAfter(s) :
         frames' = Append(frames,
            [entry |-> pcb, saved |-> gpr, point |-> Now, epc |-> EpcFor(s),
             low |-> s.area = "kernel", outer |-> ctl = "boundary",
             dlatch |-> DirtyLatch(s), after |-> a, prev |-> clatch,
             pump |-> s.pump \/ site, prevsite |-> site])
    /\ armed' = Level + 1
    /\ real_epc' = EpcFor(s)
    /\ reason' = IF EpcFor(s) = Sentinel THEN "LEGACY" ELSE "NONE"
    /\ rfe_pending' = FALSE
    /\ tcb' = Saved(pcb, EpcFor(s))
    /\ gpr' = Place(Kernel, Level + 1)
    /\ dlatch' = HandlerLatch(s)
    /\ clatch' = CompiledLatch(s)
    /\ site' = (s.pump \/ site)
    /\ UNCHANGED <<pcb, running, at, ret, ctl, wild>>

----------------------------------------------------------------------------
(* The landing in psx_check_interrupts, and the rest of it. *)

Top == frames[Level]

\* Mutant: the registers the handler's exit left are kept.
DoRestoreLegacy(pc, why) == why = "LEGACY"

\* The interrupted registers come back when the handler returns to the PC that
\* was installed as EPC (PSX_SAME_THREAD_RESTORE = 1, the default).
DoRestore(pc, why) == why = "LEGACY" \/ same_guest_pc(pc, real_epc)

Switched == Level = 1 /\ Top.entry # pcb /\ tcb[pcb].ready

\* Mutant: a switch is taken at once wherever the interrupt was delivered.
CanDeferNever == FALSE

\* A switch is deferred when the interrupt came below the outermost dispatch and
\* the outgoing thread has a resume PC outside the low kernel.
CanDefer == ~ Top.low /\ ~ Top.outer /\ real_epc # Sentinel

PopFrame ==
    /\ frames' = SubSeq(frames, 1, Level - 1)
    /\ reason' = "NONE" /\ rfe_pending' = FALSE
    /\ UNCHANGED <<armed, real_epc, wild>>

\* What the callers of the check put back when it returns.
CallersRestore ==
    /\ dlatch' = Top.after /\ clatch' = Top.prev /\ site' = Top.prevsite

\* The check returns to the code it interrupted.
ReturnToInterrupted(pc, regs, why) ==
    /\ ~ Switched
    /\ PopFrame /\ CallersRestore
    /\ gpr' = IF DoRestore(pc, why) THEN Top.saved ELSE regs
    /\ ctl' = IF Level = 1 /\ ctl = "boundary" THEN "returned" ELSE ctl
    /\ UNCHANGED <<pcb, tcb, running, at, defer, ret>>

\* The check leaves for the scheduler.
SwitchNow ==
    /\ Switched /\ ~ CanDefer
    /\ PopFrame
    /\ dlatch' = Top.dlatch /\ clatch' = Zero /\ site' = Top.pump
    /\ Resume(pcb, tcb)
    /\ UNCHANGED <<pcb, tcb, defer, ret>>

\* The interrupted thread goes on under its own name, and the switch waits; the
\* newest one wins.
DeferSwitch ==
    /\ Switched /\ CanDefer
    /\ PopFrame /\ CallersRestore
    /\ gpr' = Top.saved
    /\ pcb' = Top.entry
    /\ defer' = [from |-> Top.entry, to |-> pcb]
    /\ UNCHANGED <<tcb, running, at, ret, ctl>>

\* longjmp(exception_jmpbuf, 1): into the activation that filled it last, which
\* may have returned.
Land(pc, regs, why) ==
    IF armed = Level
    THEN ReturnToInterrupted(pc, regs, why) \/ SwitchNow \/ DeferSwitch
    ELSE /\ wild' = TRUE
         /\ UNCHANGED <<pcb, tcb, running, at, gpr, excVars, latches, defer, ret, ctl>>

----------------------------------------------------------------------------
(* What the guest does in the handler. *)

InHandler == ~ wild /\ Level > 0

\* It makes another thread the current one.
HandlerSwitch(u) ==
    /\ InHandler /\ Level = 1 /\ ~ rfe_pending
    /\ u # pcb /\ Alive(u)
    /\ reason = "LEGACY" /\ ctl = "guest" => "boundarySwitch" \in Quirks
    /\ pcb' = u
    /\ UNCHANGED <<tcb, running, at, gpr, excVars, latches, defer, ret, ctl, wild>>

\* ReturnFromException by system call 3: the context of the current thread is
\* restored, and the handler unwound.
psx_syscall_return ==
    /\ InHandler /\ ~ rfe_pending
    /\ Land(tcb[pcb].pc, tcb[pcb].gpr, "SYSCALL")

\* The compiled BIOS restores the context itself, not always all of it, and
\* executes rfe.
psx_rfe_mark_escape ==
    /\ InHandler /\ ~ rfe_pending /\ reason # "LEGACY"
    /\ gpr' \in {tcb[pcb].gpr, gpr}
    /\ rfe_pending' = TRUE /\ reason' = "RFE"
    /\ UNCHANGED <<pcb, tcb, running, at, frames, armed, real_epc, latches,
                   defer, ret, ctl, wild>>

psx_rfe_escape_check ==
    /\ InHandler /\ rfe_pending
    /\ Land(tcb[pcb].pc, gpr, "RFE")

\* Without a resume PC the rfe goes to the sentinel, whose dispatch unwinds; or
\* the handler's own exit path returns, with registers of the kernel.
LegacyReturn ==
    /\ InHandler /\ reason = "LEGACY" /\ tcb[pcb].pc = Sentinel
    /\ Land(Zero, gpr, "LEGACY")

\* RestoreState: the landing dispatches again and stays in the handler, which
\* changes nothing here unless the activation is gone.
psx_restore_state_escape ==
    /\ InHandler /\ armed # Level
    /\ wild' = TRUE
    /\ UNCHANGED <<pcb, tcb, running, at, gpr, excVars, latches, defer, ret, ctl>>

HandlerExit ==
    psx_syscall_return \/ psx_rfe_mark_escape \/ psx_rfe_escape_check \/ LegacyReturn

----------------------------------------------------------------------------
(* What the guest does outside it. *)

\* The running thread comes to its next point.
Advance ==
    /\ InGuest /\ at[running] < MaxStep
    /\ Run(at[running] + 1)
    /\ UNCHANGED <<pcb, tcb, running, excVars, latches, defer, ret, ctl, wild>>

\* CloseThread, of itself or of another, but not of a thread it waits to become.
CloseThread(u) ==
    /\ InGuest /\ tcb[u].ready
    /\ u # defer.to
    /\ tcb' = [tcb EXCEPT ![u].ready = FALSE]
    /\ UNCHANGED <<pcb, running, at, gpr, excVars, latches, defer, ret, ctl, wild>>

Check == \E s \in Sites : Honour(s) \/ CheckOnly(s) \/ Deliver(s)

Next ==
    \/ Advance
    \/ \E u \in Threads :
         psx_request_thread_switch(u) \/ CloseThread(u) \/ HandlerSwitch(u)
    \/ ThreadEnds \/ ScheduleNext
    \/ Check
    \/ HandlerExit \/ psx_restore_state_escape

Spec == Init /\ [][Next]_vars

(***************************************************************************)
(* A thread comes to a compiled block leader again and again, whose check  *)
(* honours a pending switch before it delivers anything; the guest's       *)
(* handler returns, also when it is interrupted over and over.             *)
(***************************************************************************)
LeaderCheck ==
    /\ Level = 0
    /\ \E s \in LeaderSites \cap Sites : Honour(s) \/ CheckOnly(s)

FairSpec ==
    /\ Spec
    /\ SF_vars(LeaderCheck)
    /\ WF_vars(HandlerExit) /\ SF_vars(Level = 1 /\ HandlerExit)

----------------------------------------------------------------------------
(* Properties. *)

\* The registers a delivery saves are those of the code it interrupted, and the
\* EPC it installs is that code's own place, or the next at a pump, or the
\* sentinel: never a latch left over from other code.
DeliveryIsPrecise ==
    \A i \in 1..Level :
        /\ frames[i].saved = frames[i].point
        /\ frames[i].epc = Sentinel \/ frames[i].epc.t = frames[i].point.t

\* Outside the handler the native stack executes the thread the kernel calls the
\* current one, with that thread's registers at that thread's point.
ContextIntact == Level = 0 /\ ctl = "guest" => running = pcb /\ gpr = Here

\* A suspended thread will be resumed where it stopped, with the registers it had
\* there: no switch commits a PC that is ahead of the registers, the sentinel, or
\* another thread's context.
SuspendedIntact ==
    \A t \in Threads \ {running} : Alive(t) =>
        tcb[t].pc = Place(t, at[t]) /\ tcb[t].gpr = Place(t, at[t])

\* A deferred switch is never dropped: its target runs in the end, unless the guest
\* reschedules by itself or asks for another thread first.
DeferredIsHonoured ==
    \A u \in Threads : (defer.to = u) ~>
        \/ running = u
        \/ Level = 0 /\ defer.to = u /\ Stale
        \/ defer.to \in Threads \ {u}
        \/ wild

\* An escape from the handler lands in an activation of psx_check_interrupts that
\* is still there.
LandsInLiveFrame == ~ wild
=============================================================================
