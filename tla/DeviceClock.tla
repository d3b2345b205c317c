---------------------------- MODULE DeviceClock ----------------------------
(***************************************************************************)
(* The guest cycle clock and its lazy servicing of the devices             *)
(* (psx_cycles.c).  A charge adds to the one cycle counter; the devices    *)
(* are only brought up to date when a deadline is reached or guest code    *)
(* touches a device register, by replaying the gap in event-bounded        *)
(* chunks.  The deadline path must be indistinguishable from advancing     *)
(* every device on every cycle, which the ghost devices x do.              *)
(*                                                                         *)
(* Three devices stand for the seven: a root counter that fires and        *)
(* reloads (timers.c), the pad acknowledge of the serial port (sio.c) and  *)
(* the vertical blank (interrupts.c), which is held back during an         *)
(* exception.  Cycles are counted from where the devices are, so the model *)
(* has no clock that grows.                                                *)
(***************************************************************************)
EXTENDS Integers, FiniteSets, FiniteSetsExt

CONSTANTS
    VBLANK,     \* VBLANK_CYCLES (564480)
    HARD_CAP,   \* PSX_DEADLINE_HARD_CAP (16384)
    ACK,        \* pad acknowledge delay (1258)
    Periods,    \* distances to the target the guest programs a counter with
    Charges,    \* cycles one guest block charges
    Quanta,     \* lengths of the poll loops the idle skip may elide
    MaxHold     \* bound of the model: cycles a blank is held back by a handler

ASSUME ClockAssumption ==
    /\ VBLANK \in Nat \ {0} /\ HARD_CAP \in Nat \ {0} /\ ACK \in Nat \ {0}
    /\ Periods \subseteq Nat \ {0}
    /\ Charges \subseteq Nat \ {0}
    /\ Quanta \subseteq Nat \ {0}
    /\ MaxHold \in Nat

VARIABLES
    dev,    \* the devices, as of s_devices_synced_cycle
    x,      \* ghost: the same devices, advanced on every cycle
    gap,    \* psx_cycle_count - s_devices_synced_cycle
    left,   \* s_next_service_cycle - psx_cycle_count; 0 is also "dirty"
    svc,    \* s_in_device_service
    todo,   \* cycles the running service has still to replay
    op,     \* the device access waiting for the devices to catch up
    exc     \* in_exception

vars == <<dev, x, gap, left, svc, todo, op, exc>>

IRQs == {"VBLANK", "TIMER", "SIO"}

(***************************************************************************)
(* tmr: cycles until the counter fires (0: not armed); per: its reload (0: *)
(* one shot); pend, ack: the acknowledge under way; vbl:                   *)
(* cycles_since_vblank; irq: the raised bits of I_STAT.                    *)
(***************************************************************************)
Devices == [tmr : Nat, per : Nat, pend : BOOLEAN, ack : Nat, vbl : Nat,
            irq : SUBSET IRQs]

NoOp == [kind |-> "none"]
Ops == [kind : {"read", "pad", "clear"}]
          \cup [kind : {"timer"}, per : Periods, rep : BOOLEAN]

TypeOK ==
    /\ dev \in Devices /\ x \in Devices
    /\ gap \in Nat /\ left \in 0..HARD_CAP
    /\ svc \in BOOLEAN /\ todo \in 0..gap
    /\ op \in Ops \cup {NoOp}
    /\ exc \in BOOLEAN

Init ==
    /\ dev = [tmr |-> 0, per |-> 0, pend |-> FALSE, ack |-> 0, vbl |-> 0, irq |-> {}]
    /\ x = dev
    /\ gap = 0 /\ left = 0
    /\ svc = FALSE /\ todo = 0
    /\ op = NoOp /\ exc = FALSE

----------------------------------------------------------------------------
(* The devices. *)

\* Mutant: the overshoot of a reload is dropped.
TimerAdvanceDropsRest(d, c) ==
    CASE d.tmr = 0 -> d
      [] d.tmr > c -> [d EXCEPT !.tmr = d.tmr - c]
      [] OTHER -> [d EXCEPT !.tmr = d.per, !.irq = d.irq \cup {"TIMER"}]

\* timers_advance: a counter may fire several times in one call.
TimerAdvance(d, c) ==
    CASE d.tmr = 0 -> d
      [] d.tmr > c -> [d EXCEPT !.tmr = d.tmr - c]
      [] OTHER -> [d EXCEPT !.tmr = IF d.per = 0 THEN 0 ELSE d.per - ((c - d.tmr) % d.per),
                            !.irq = d.irq \cup {"TIMER"}]

\* sio_advance: an acknowledge that the call reaches exactly is left at zero for
\* the next call to deliver.
SioAdvance(d, c) ==
    CASE ~ d.pend -> d
      [] d.pend /\ d.ack < c -> [d EXCEPT !.pend = FALSE, !.ack = 0, !.irq = d.irq \cup {"SIO"}]
      [] OTHER -> [d EXCEPT !.ack = d.ack - c]

\* Mutant: the blank restarts from zero.
EventsFromZero(d, e) ==
    IF e \/ d.vbl < VBLANK THEN d
    ELSE [d EXCEPT !.vbl = 0, !.irq = d.irq \cup {"VBLANK"}]

\* interrupts_service_scheduled_events, with no card transfer under way: outside
\* an exception every vertical blank that is due is raised.
Events(d, e) ==
    IF e \/ d.vbl < VBLANK THEN d
    ELSE [d EXCEPT !.vbl = d.vbl % VBLANK, !.irq = d.irq \cup {"VBLANK"}]

\* advance_devices.
Advance(d, c, e) ==
    LET t == TimerAdvance(SioAdvance(d, c), c)
    IN Events([t EXCEPT !.vbl = t.vbl + c], e)

\* The exact path, one cycle at a time (psx_advance_cycles_exact when
\* g_event_step_conservative is set).
Exact(d, n, e) ==
    LET run[i \in 0..n] == IF i = 0 THEN Events(d, e) ELSE Advance(run[i - 1], 1, e)
    IN run[n]

\* Mutant: the root counters are left out of the distance.
DistancesNoTimer(d) ==
    {IF d.vbl >= VBLANK THEN 0 ELSE VBLANK - d.vbl}
        \cup (IF d.pend /\ d.ack > 0 THEN {d.ack} ELSE {})

\* interrupts_cycles_to_vblank, timers_cycles_to_irq and sio_cycles_to_irq.
Distances(d) ==
    {IF d.vbl >= VBLANK THEN 0 ELSE VBLANK - d.vbl}
        \cup (IF d.tmr > 0 THEN {d.tmr} ELSE {})
        \cup (IF d.pend /\ d.ack > 0 THEN {d.ack} ELSE {})

\* devices_cycles_to_next_internal_event.
ToEvent(d) == Max({1, Min(Distances(d))})

----------------------------------------------------------------------------
(* psx_cycles.c. *)

Smaller(a, b) == IF a < b THEN a ELSE b

\* psx_cycle_count >= s_next_service_cycle, after n more cycles.
DeadlineReached(n) == left <= n

\* psx_advance_cycles(n), up to the first chunk of the service it may begin.
Charged(n) ==
    /\ ~ svc /\ op = NoOp
    /\ exc => x.vbl + n <= VBLANK + MaxHold
    /\ x' = Exact(x, n, exc)
    /\ gap' = gap + n
    /\ \/ /\ DeadlineReached(n)
          /\ svc' = TRUE
          /\ todo' = gap + n
          /\ dev' = Events(dev, exc)
          /\ left' = 0
       \/ /\ ~ DeadlineReached(n)
          /\ left' = IF left > n THEN left - n ELSE 0
          /\ UNCHANGED <<dev, svc, todo>>
    /\ UNCHANGED <<op, exc>>

Charge == \E n \in Charges : Charged(n)

\* Mutant: both guards against an empty chunk are gone.
ServiceChunkUnguarded ==
    /\ svc /\ todo > 0
    /\ LET step == Smaller(todo, Min(Distances(dev)))
       IN /\ dev' = Advance(dev, step, exc)
          /\ todo' = todo - step
    /\ UNCHANGED <<x, gap, left, svc, op, exc>>

\* One turn of the replay loop of psx_devices_service_to_now.
ServiceChunk ==
    /\ svc /\ todo > 0
    /\ LET step == Smaller(todo, ToEvent(dev))
       IN /\ dev' = Advance(dev, step, exc)
          /\ todo' = todo - step
    /\ UNCHANGED <<x, gap, left, svc, op, exc>>

\* psx_devices_recompute_deadline.
Deadline(d) == Smaller(ToEvent(d), HARD_CAP)

\* Its end.
ServiceEnd ==
    /\ svc /\ todo = 0
    /\ svc' = FALSE
    /\ gap' = 0
    /\ left' = Deadline(dev)
    /\ UNCHANGED <<dev, x, todo, op, exc>>

\* Mutant: a device access does not catch up.
BehindNever == FALSE

\* s_devices_synced_cycle != psx_cycle_count.
Behind == gap > 0

\* psx_devices_mmio_sync, before the access o.
MmioBegin(o) ==
    /\ ~ svc /\ op = NoOp
    /\ op' = o
    /\ \/ /\ Behind
          /\ svc' = TRUE /\ todo' = gap
          /\ dev' = Events(dev, exc)
       \/ /\ ~ Behind
          /\ UNCHANGED <<svc, todo, dev>>
    /\ UNCHANGED <<x, gap, left, exc>>

\* The device handlers: a read, a byte sent to the pad, I_STAT cleared, or a
\* counter programmed to fire in per cycles, once or repeatedly.
Access(d, o) ==
    CASE o.kind = "read" -> d
      [] o.kind = "pad" -> [d EXCEPT !.pend = TRUE, !.ack = ACK]
      [] o.kind = "clear" -> [d EXCEPT !.irq = {}]
      [] OTHER -> [d EXCEPT !.tmr = o.per, !.per = IF o.rep THEN o.per ELSE 0]

\* Mutant: the access keeps the old deadline.
DirtyNever == left

\* s_next_service_cycle = 0.
Dirty == 0

MmioEnd ==
    /\ ~ svc /\ op # NoOp
    /\ dev' = Access(dev, op)
    /\ x' = Access(x, op)
    /\ left' = Dirty
    /\ op' = NoOp
    /\ UNCHANGED <<gap, svc, todo, exc>>

\* The whole loop iterations psx_idle_note_check skips.
SkipCount(q) == (ToEvent(dev) + q - 1) \div q

\* psx_idle_note_check once its detector trusts the loop: skip to the first
\* check boundary at or past the next event, unless one iteration reaches it.
IdleSkip ==
    \E q \in Quanta :
        /\ ~ exc
        /\ ToEvent(dev) > q
        /\ Charged(SkipCount(q) * q)

----------------------------------------------------------------------------
(* psx_check_interrupts, as far as it touches the clock. *)

\* It raises a blank held back so far, without catching up, and may enter the
\* handler.
Check ==
    /\ ~ svc /\ op = NoOp
    /\ dev' = Events(dev, exc)
    /\ x' = Events(x, exc)
    /\ exc' \in IF dev'.irq # {} THEN {exc, TRUE} ELSE {exc}
    /\ UNCHANGED <<gap, left, svc, todo, op>>

\* The handler returns.
LeaveException ==
    /\ ~ svc /\ op = NoOp /\ exc
    /\ exc' = FALSE
    /\ UNCHANGED <<dev, x, gap, left, svc, todo, op>>

Next ==
    \/ Charge \/ ServiceChunk \/ ServiceEnd
    \/ \E o \in Ops : MmioBegin(o)
    \/ MmioEnd \/ IdleSkip \/ Check \/ LeaveException

Spec == Init /\ [][Next]_vars

(***************************************************************************)
(* A service runs on the guest's own thread and is a bounded loop.         *)
(***************************************************************************)
FairSpec == Spec /\ WF_vars(ServiceChunk \/ ServiceEnd)

----------------------------------------------------------------------------
(* Properties. *)

Settled == ~ svc /\ op = NoOp

\* A device register access finds every device where advancing it on every cycle
\* would have put it, with the same interrupts raised: the replay in chunks
\* neither skips, repeats nor reorders an event.
AccessSeesExactDevices == ~ svc /\ op # NoOp => dev = x

\* No counter or vertical-blank interrupt is raised late or early: after every
\* charge I_STAT, which the interrupt check reads without catching up, has the
\* bits the exact path would have raised by now, although the devices lag behind.
InterruptsOnTime == Settled => dev.irq \ {"SIO"} = x.irq \ {"SIO"}

\* A service ends: every chunk advances at least one cycle.
ServiceTerminates == svc ~> ~ svc

\* The acknowledge of the serial port is not raised late either.
SioOnTime == Settled => ("SIO" \in x.irq => "SIO" \in dev.irq)
=============================================================================
