------------------------------- MODULE Cdrom -------------------------------
(***************************************************************************)
(* The CD-ROM controller (cdrom.c), the DMA channel that drains its sector *)
(* buffer (channel 3 of dma.c) and the guest's driver: an interrupt        *)
(* handler that reads and acknowledges a response, may issue the next      *)
(* command, and clears the CD bit of I_STAT at its end.                    *)
(*                                                                         *)
(* Commands are abstracted to what they do to the controller:              *)
(*   "Nop"   one response (GetStat, SetLoc, SetMode, Play, Test ..., and   *)
(*           the error response to any command that is refused)            *)
(*   "Seek"  a second response later (SeekL, SeekP, GetID, ReadTOC,        *)
(*           MotorOn)                                                      *)
(*   "Stop"  the same, ending the read stream (Stop, Pause, Init)          *)
(*   "Read"  one response and a stream of sectors (ReadN, ReadS)           *)
(* Parameters, response bytes, status bits and the disc position are left  *)
(* out; the data sectors of the stream are numbered modulo 3.              *)
(***************************************************************************)
EXTENDS Integers

CONSTANTS
    PresentDelay,   \* CDROM_IRQ_PRESENT_DELAY (5000)
    SecondDelays,   \* pending.delay of the two-phase commands
    InitialDelay,   \* initial_read_delay_cycles
    SectorDelay,    \* sector_delay_cycles
    Words,          \* words of a sector (512)
    Teardown,       \* longest stretch of the handler between its last look at
                    \* the controller and its I_STAT acknowledge
    Commands,       \* the commands the guest uses
    MaxChunk        \* longest gap the clock replays at once

ASSUME CdromAssumption ==
    /\ PresentDelay \in Nat /\ Teardown \in Nat /\ Teardown < PresentDelay
    /\ SecondDelays \subseteq Nat \ {0}
    /\ InitialDelay \in Nat \ {0} /\ SectorDelay \in Nat \ {0}
    /\ Words \in Nat \ {0} /\ MaxChunk \in Nat \ {0}
    /\ Commands \subseteq {"Nop", "Seek", "Stop", "Read"}

VARIABLES
    cd,     \* the controller
    istat,  \* bit 2 of I_STAT
    dma,    \* channel 3
    isr,    \* where the guest's handler is
    seen    \* ghost: the handler has read the response that irq_flag holds ("yes"),
            \* maybe before it was shown to the interrupt controller ("early")

vars == <<cd, istat, dma, isr, seen>>

\* The first response of a command, the second, and a sector.
Responses == {"ACK", "COMPLETE", "DATA"}
None == "none"
(***************************************************************************)
(* irq: irq_flag; latched: cdrom_intc_request_latched; present:            *)
(* cdrom_irq_present_delay; enable: irq_enable; queued: queued_cmd;        *)
(* second: pending.delay, 0 when nothing is pending; delay: read_delay;    *)
(* n, pos, avail: the sector in the buffer, sector_read_pos in words and   *)
(* sector_available; bfrd: bit 7 of request_reg; audio: the last sector of *)
(* the stream was played, not delivered.                                   *)
(***************************************************************************)
Controller ==
    [irq : Responses \cup {None}, latched : BOOLEAN, present : Nat,
     enable : SUBSET Responses, queued : Commands \cup {None}, second : Nat,
     reading : BOOLEAN, delay : Nat, n : 0..2, pos : 0..Words, avail : BOOLEAN,
     bfrd : BOOLEAN, audio : BOOLEAN]

\* A word of the stream: its sector and its place there.
Word == [n : 0..2, pos : 0..Words]

\* left, accum: cdrom_async; want, torn: ghosts, the word this transfer should get
\* next, and whether some transfer got another one.
Channel == [active : BOOLEAN, left : Nat, accum : Nat, want : Word, torn : BOOLEAN]

\* fetch: the handler may still start a transfer, once, for the sector it runs for;
\* gone: cycles since it read irq_flag, in its tail.
Handler == [at : {"out", "in", "tail"}, fetch : BOOLEAN, gone : 0..Teardown]

TypeOK ==
    /\ cd \in Controller /\ istat \in BOOLEAN /\ dma \in Channel
    /\ isr \in Handler /\ seen \in {"no", "early", "yes"}

Idle == [active |-> FALSE, left |-> 0, accum |-> 0, want |-> [n |-> 0, pos |-> 0], torn |-> FALSE]
Out == [at |-> "out", fetch |-> FALSE, gone |-> 0]

Init ==
    /\ cd = [irq |-> None, latched |-> FALSE, present |-> 0, enable |-> Responses,
             queued |-> None, second |-> 0, reading |-> FALSE, delay |-> 0,
             n |-> 0, pos |-> 0, avail |-> FALSE, bfrd |-> FALSE, audio |-> FALSE]
    /\ istat = FALSE
    /\ dma = Idle
    /\ isr = Out
    /\ seen = "no"

----------------------------------------------------------------------------
(* Responses and commands. *)

\* Mutant: the response is shown as soon as it is made.
SetIrqAtOnce(d, t) == [d EXCEPT !.irq = t, !.latched = FALSE, !.present = 0]

set_irq(d, t) == [d EXCEPT !.irq = t, !.latched = FALSE, !.present = PresentDelay]

\* Mutant: every refresh shows the response again.
ShowsUnlatched(d) == d.present = 0 /\ d.irq \in d.enable

\* present_cdrom_irq would raise I_STAT bit 2 and set the latch.
Shows(d) == d.present = 0 /\ d.irq \in d.enable /\ ~ d.latched

present_cdrom_irq(d) == IF Shows(d) THEN [d EXCEPT !.latched = TRUE] ELSE d

start_read_stream(d) ==
    [d EXCEPT !.pos = 0, !.avail = FALSE, !.bfrd = FALSE, !.delay = InitialDelay,
              !.reading = TRUE]

\* exec_command, when a second response is due after s cycles.
exec_command(d, c, s) ==
    CASE c = "Nop" -> set_irq(d, "ACK")
      [] c = "Seek" -> [set_irq(d, "ACK") EXCEPT !.second = s]
      [] c = "Stop" -> [set_irq(d, "ACK") EXCEPT !.second = s, !.reading = FALSE, !.delay = 0]
      [] c = "Read" -> set_irq(start_read_stream(d), "ACK")

try_execute_queued_command(d, s) ==
    IF d.queued = None \/ d.irq # None THEN d
    ELSE exec_command([d EXCEPT !.queued = None], d.queued, s)

queue_or_exec_command(d, c, s) ==
    IF d.irq = None THEN exec_command(d, c, s) ELSE [d EXCEPT !.queued = c]

----------------------------------------------------------------------------
(* Time. *)

\* Mutant: the second response waits for the stream to end.
SecondAfterStream(d, c) ==
    CASE d.second = 0 \/ d.irq # None \/ d.reading -> d
      [] d.second > c /\ d.irq = None /\ ~ d.reading -> [d EXCEPT !.second = d.second - c]
      [] OTHER -> set_irq([d EXCEPT !.second = 0], "COMPLETE")

process_pending(d, c) ==
    CASE d.second = 0 \/ d.irq # None -> d
      [] d.second > c /\ d.irq = None -> [d EXCEPT !.second = d.second - c]
      [] OTHER -> set_irq([d EXCEPT !.second = 0], "COMPLETE")

\* read_sector_at and advance_msf: the buffer holds the next sector, or, for an
\* audio sector that is played, nothing.
read_sector_at(d, audio) ==
    IF audio THEN [d EXCEPT !.pos = 0, !.avail = FALSE, !.audio = TRUE]
    ELSE [d EXCEPT !.n = (d.n + 1) % 3, !.pos = 0, !.avail = TRUE, !.audio = FALSE]

\* Mutant: an unacknowledged response stops the stream whatever the DMA does.
HeldAlways(d, transfer) == d.irq # None

\* The stream waits for an acknowledge, except to refill the empty buffer of an
\* active transfer.
Held(d, transfer) == d.irq # None /\ (~ transfer \/ d.avail)

Period(left) == IF left + SectorDelay > 0 THEN left + SectorDelay ELSE SectorDelay

\* Mutant: the stream's delay runs while the stream is held.
StreamRunsHeld(d, c, audio, transfer) ==
    CASE ~ d.reading -> d
      [] d.reading /\ (d.delay > c \/ Held(d, transfer)) ->
           [d EXCEPT !.delay = IF d.delay > c THEN d.delay - c ELSE 0]
      [] OTHER ->
           LET r == [read_sector_at(d, audio) EXCEPT !.delay = Period(d.delay - c)]
           IN IF d.irq = None /\ ~ audio THEN set_irq(r, "DATA") ELSE r

process_read_stream(d, c, audio, transfer) ==
    CASE ~ d.reading \/ Held(d, transfer) -> d
      [] d.reading /\ ~ Held(d, transfer) /\ d.delay > c -> [d EXCEPT !.delay = d.delay - c]
      [] OTHER ->
           LET r == [read_sector_at(d, audio) EXCEPT !.delay = Period(d.delay - c)]
           IN IF d.irq = None /\ ~ audio THEN set_irq(r, "DATA") ELSE r

Aged(d, c) == [d EXCEPT !.present = IF d.present > c THEN d.present - c ELSE 0]

\* Channel 3 in dma_advance: one word a cycle while the buffer has data.
dma_ready(d) == d.bfrd /\ d.avail

Smaller(a, b) == IF a < b THEN a ELSE b

Moved(d, m, c) ==
    IF m.active /\ dma_ready(d) THEN Smaller(Smaller(m.left, m.accum + c), Words - d.pos) ELSE 0

Drained(d, k) == [d EXCEPT !.pos = d.pos + k,
                           !.avail = IF k > 0 THEN d.pos + k < Words ELSE d.avail]

\* The k-th word from the one the buffer is at.
WordAfter(d, k) ==
    IF d.pos + k < Words THEN [n |-> d.n, pos |-> d.pos + k]
    ELSE [n |-> (d.n + 1) % 3, pos |-> 0]

Torn(d, m) == m.torn \/ m.want # [n |-> d.n, pos |-> d.pos]

\* Its end is finish_async_cdrom_transfer.
Transferred(d, m, c) ==
    LET k == Moved(d, m, c)
    IN CASE k = 0 -> m
         [] k > 0 /\ k = m.left -> [Idle EXCEPT !.torn = Torn(d, m)]
         [] OTHER -> [m EXCEPT !.left = m.left - k, !.accum = m.accum + c - k,
                               !.want = WordAfter(d, k), !.torn = Torn(d, m)]

\* The chunk the clock may replay at once: cdrom_cycles_to_irq,
\* dma_cycles_to_irq and the guard against an empty chunk.
Distances ==
    (IF cd.irq \in cd.enable THEN {cd.present} ELSE {})
        \cup (IF cd.second > 0 THEN {cd.second} ELSE {})
        \cup (IF cd.reading /\ cd.delay > 0 THEN {cd.delay} ELSE {})
        \cup (IF dma.active
              THEN {IF dma.left > dma.accum THEN dma.left - dma.accum ELSE 0} ELSE {})

Chunks == {c \in 1..MaxChunk : c = 1 \/ \A x \in Distances : c <= x}

\* advance_devices: cdrom_advance in its order (the presentation delay, refresh,
\* queued command, second response, stream, refresh), then the channel.
Advance(c, s, audio) ==
    /\ isr.at = "tail" => isr.gone + c <= Teardown
    /\ audio => ~ cd.audio
    /\ \E aged \in {Aged(cd, c)} :
       \E first \in {try_execute_queued_command(present_cdrom_irq(aged), s)} :
       \E second \in {process_pending(first, c)} :
       \E stream \in {process_read_stream(second, c, audio, dma.active)} :
       \E d \in {present_cdrom_irq(stream)} :
          /\ cd' = Drained(d, Moved(d, dma, c))
          /\ dma' = Transferred(d, dma, c)
          /\ istat' = (istat \/ Shows(aged) \/ Shows(stream))
          /\ seen' = IF d.irq = cd.irq THEN seen ELSE "no"
    /\ isr' = IF isr.at = "tail" THEN [isr EXCEPT !.gone = isr.gone + c] ELSE isr

Tick == \E c \in Chunks, s \in SecondDelays, audio \in BOOLEAN : Advance(c, s, audio)

----------------------------------------------------------------------------
(* The guest.  It starts no stream and stops none under a transfer.        *)

\* cdrom_write of 1F801801.0: a command, from the handler or from the program.
Command(c, s) ==
    /\ dma.active => c \notin {"Read", "Stop"}
    /\ cd' = queue_or_exec_command(cd, c, s)
    /\ seen' = IF cd.irq = None THEN "no" ELSE seen
    /\ UNCHANGED <<istat, dma, isr>>

\* cdrom_write of 1F801802.1: the responses that may interrupt.
Enable ==
    /\ isr.at = "out"
    /\ \E e \in {{}, Responses} : cd' = [cd EXCEPT !.enable = e]
    /\ UNCHANGED <<istat, dma, isr, seen>>

\* cdrom_write of 1F801803.1: the whole response is acknowledged.
Acked(d, s) == try_execute_queued_command([d EXCEPT !.irq = None, !.latched = FALSE], s)

\* The CD interrupt is taken.
EnterIsr ==
    /\ isr.at = "out" /\ istat
    /\ isr' = [Out EXCEPT !.at = "in", !.fetch = TRUE]
    /\ UNCHANGED <<cd, istat, dma, seen>>

\* The handler reads irq_flag and acknowledges it, maybe once a transfer has ended.
IsrAck(s) ==
    /\ isr.at = "in"
    /\ cd' = Acked(cd, s)
    /\ seen' = "no"
    /\ isr' = [isr EXCEPT !.at = "tail", !.fetch = (isr.fetch /\ cd.irq = "DATA")]
    /\ UNCHANGED <<istat, dma>>

\* It leaves the acknowledge to the program.
IsrLeave ==
    /\ isr.at = "in" /\ cd.irq # None
    /\ seen' = IF cd.latched THEN "yes" ELSE "early"
    /\ isr' = [isr EXCEPT !.at = "tail", !.fetch = (isr.fetch /\ cd.irq = "DATA")]
    /\ UNCHANGED <<cd, istat, dma>>

\* Its last act is to clear the bit of I_STAT.
IsrEnd ==
    /\ isr.at = "tail"
    /\ istat' = FALSE
    /\ isr' = Out
    /\ UNCHANGED <<cd, dma, seen>>

\* The program acknowledges a response, one the handler has left to it or one
\* it has polled.
ProgramAck(s) ==
    /\ isr.at = "out" /\ cd.irq # None
    /\ cd' = Acked(cd, s)
    /\ seen' = "no"
    /\ UNCHANGED <<istat, dma, isr>>

\* cdrom_write of 1F801803.0: without BFRD the buffer is read from its start.
Request(b) ==
    /\ ~ dma.active
    /\ cd' = [cd EXCEPT !.bfrd = b, !.pos = IF b THEN cd.pos ELSE 0]
    /\ UNCHANGED <<istat, dma, isr, seen>>

\* cdrom_read of 1F801802, a word at a time.
ReadData ==
    /\ ~ dma.active /\ dma_ready(cd)
    /\ cd' = Drained(cd, 1)
    /\ UNCHANGED <<istat, dma, isr, seen>>

\* dma_write_masked of CHCR and start_async_cdrom_transfer: the handler fetches
\* this sector, or, before it acknowledges, this one and the next.
Kick(k) ==
    /\ ~ dma.active /\ isr.fetch /\ dma_ready(cd)
    /\ cd.queued \notin {"Read", "Stop"}
    /\ \/ isr.at = "in" /\ cd.irq = "DATA"
       \/ isr.at = "tail" /\ k = 1
    /\ (k = 1 /\ cd.pos = 0) \/ cd.reading
    /\ dma' = [Idle EXCEPT !.active = TRUE, !.left = k * Words,
                          !.want = [n |-> cd.n, pos |-> cd.pos], !.torn = dma.torn]
    /\ isr' = [isr EXCEPT !.fetch = FALSE]
    /\ UNCHANGED <<cd, istat, seen>>

\* dma_write_masked of CHCR without its start bit: cancel_async_transfer.
Cancel ==
    /\ dma.active /\ isr.at = "out"
    /\ dma' = [Idle EXCEPT !.torn = dma.torn]
    /\ UNCHANGED <<cd, istat, isr, seen>>

Guest ==
    \/ \E c \in Commands, s \in SecondDelays : Command(c, s)
    \/ \E s \in SecondDelays : IsrAck(s) \/ ProgramAck(s)
    \/ EnterIsr \/ IsrLeave \/ IsrEnd \/ Enable
    \/ \E b \in BOOLEAN : Request(b)
    \/ ReadData \/ Cancel
    \/ \E k \in {1, 2} : Kick(k)

Next == Tick \/ Guest

Spec == Init /\ [][Next]_vars

(***************************************************************************)
(* Time passes; the handler is taken when its bit is set, acknowledges,    *)
(* and ends, waiting at most for the transfer it has begun; what it leaves *)
(* to the program is acknowledged there.                                   *)
(***************************************************************************)
FairSpec ==
    /\ Spec
    /\ WF_vars(Tick)
    /\ WF_vars(EnterIsr)
    /\ WF_vars(~ dma.active /\ \E s \in SecondDelays : IsrAck(s))
    /\ WF_vars(IsrEnd)
    /\ WF_vars(seen # "no" /\ \E s \in SecondDelays : ProgramAck(s))

----------------------------------------------------------------------------
(* Properties. *)

\* A response that has been shown to the interrupt controller and that the
\* handler has not read still has its bit in I_STAT: the acknowledge at the end
\* of the handler that issued its command cannot have taken it along (the
\* boot-time SeekL wedge the presentation delay exists for).
NoResponseLost == cd.irq # None /\ cd.latched /\ seen = "no" => istat

\* A response the handler has read and left to the program interrupts no second
\* time, however long the acknowledge takes: no re-entry storm.
OneInterruptPerResponse == isr.at = "out" /\ istat => seen # "yes"

\* A transfer gets the words of the stream one after another, whatever the handler
\* acknowledges while it runs: no sector replaces one it is still fetching.
TransferIsContiguous == ~ dma.torn

\* A transfer the handler waits for before it acknowledges the sector ends: the
\* stream refills the buffer although the response is unacknowledged.
TransferEnds == dma.active ~> ~ dma.active

\* Every response is acknowledged, every queued command executed and every second
\* response given: the controller comes to rest again and again, unless the
\* guest keeps its interrupts off or never stops sending commands.
Settles ==
    \/ []<>(cd.irq = None /\ cd.queued = None /\ cd.second = 0)
    \/ []<>(cd.enable = {})
    \/ []<><<\E c \in Commands, s \in SecondDelays : Command(c, s)>>_vars
=============================================================================
