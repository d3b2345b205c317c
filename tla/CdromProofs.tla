---------------------------- MODULE CdromProofs ----------------------------
(***************************************************************************)
(* Theorems about the CD-ROM controller, its DMA channel and the guest's   *)
(* handler, for any delays and any size of a sector: no response is lost   *)
(* or shown twice when the presentation delay outlasts the tail of the     *)
(* handler, and transfers are contiguous when a sector period outlasts a   *)
(* transfer.                                                               *)
(*                                                                         *)
(* Every step of the controller either leaves the response alone or makes  *)
(* a new one where there was none (LineKept, LineFresh), and either leaves *)
(* the buffer and the stream alone, or replaces them.  Each operator gets  *)
(* one lemma that says so; the invariants follow from those.               *)
(***************************************************************************)
EXTENDS Cdrom, TLAPS

\* The response is the same.
LineKept(d, e) ==
    /\ e.irq = d.irq /\ e.latched = d.latched /\ e.present = d.present
    /\ e.enable = d.enable

\* A new response, where there was none.
LineFresh(d, e) ==
    /\ d.irq = None /\ e.irq \in Responses /\ e.latched = FALSE
    /\ e.present = PresentDelay

BufferKept(d, e) == e.n = d.n /\ e.pos = d.pos /\ e.avail = d.avail /\ e.bfrd = d.bfrd

StreamKept(d, e) == e.reading = d.reading /\ e.delay = d.delay

\* k words are taken from the buffer.
BufferDrained(d, e, k) ==
    /\ e.n = d.n /\ e.pos = d.pos + k /\ e.bfrd = d.bfrd
    /\ k = 0 => e.avail = d.avail
    /\ k > 0 => (e.avail <=> d.pos + k < Words)

\* The response side of the inductive invariant.
ResponseInv ==
    /\ seen # "no" => cd.irq # None
    /\ seen = "yes" => cd.latched
    /\ cd.queued # None => cd.irq # None
    /\ cd.avail => cd.pos < Words
    /\ isr.at # "tail" => isr.gone = 0
    /\ isr.at = "tail" /\ cd.irq # None /\ seen = "no" =>
           ~ cd.latched /\ cd.present + isr.gone > Teardown
    /\ NoResponseLost
    /\ OneInterruptPerResponse

LEMMA NoneIsNoResponse == None \notin Responses /\ None \notin Commands
BY CdromAssumption DEF None, Responses

LEMMA SetIrq ==
    ASSUME NEW d \in Controller, NEW t \in Responses
    PROVE  /\ set_irq(d, t) \in Controller
           /\ set_irq(d, t).irq = t
           /\ set_irq(d, t).latched = FALSE
           /\ set_irq(d, t).present = PresentDelay
           /\ set_irq(d, t).queued = d.queued
           /\ BufferKept(d, set_irq(d, t)) /\ StreamKept(d, set_irq(d, t))
BY CdromAssumption DEF set_irq, Controller, BufferKept, StreamKept

LEMMA PresentCd ==
    ASSUME NEW d \in Controller
    PROVE  /\ present_cdrom_irq(d) \in Controller
           /\ present_cdrom_irq(d).irq = d.irq
           /\ present_cdrom_irq(d).present = d.present
           /\ present_cdrom_irq(d).enable = d.enable
           /\ present_cdrom_irq(d).queued = d.queued
           /\ present_cdrom_irq(d).second = d.second
           /\ present_cdrom_irq(d).latched = (d.latched \/ Shows(d))
           /\ BufferKept(d, present_cdrom_irq(d)) /\ StreamKept(d, present_cdrom_irq(d))
<1>1. CASE Shows(d)
  <2>. DEFINE e == [d EXCEPT !.latched = TRUE]
  <2>1. present_cdrom_irq(d) = e
    BY <1>1 DEF present_cdrom_irq
  <2>2. e \in Controller /\ e.latched = TRUE /\ e.irq = d.irq /\ e.present = d.present
        /\ e.enable = d.enable /\ e.queued = d.queued /\ e.second = d.second
        /\ BufferKept(d, e) /\ StreamKept(d, e)
    BY DEF Controller, BufferKept, StreamKept
  <2>3. (d.latched \/ Shows(d)) = TRUE
    BY <1>1
  <2>. HIDE DEF e
  <2>. QED BY <2>1, <2>2, <2>3
<1>2. CASE ~ Shows(d)
  <2>1. present_cdrom_irq(d) = d
    BY <1>2 DEF present_cdrom_irq
  <2>2. d.latched \in BOOLEAN
    BY DEF Controller
  <2>3. (d.latched \/ Shows(d)) = d.latched
    BY <1>2, <2>2
  <2>. QED BY <2>1, <2>3 DEF BufferKept, StreamKept
<1>. QED BY <1>1, <1>2

\* A command makes a new response; it leaves the stream alone, ends it, or empties
\* the buffer and starts it.
LEMMA Exec ==
    ASSUME NEW d \in Controller, NEW c \in Commands, NEW s \in SecondDelays, d.irq = None
    PROVE  LET e == exec_command(d, c, s)
           IN /\ e \in Controller
              /\ LineFresh(d, e)
              /\ e.queued = d.queued
              /\ \/ BufferKept(d, e) /\ StreamKept(d, e)
                 \/ c = "Stop" /\ BufferKept(d, e) /\ e.reading = FALSE
                 \/ c = "Read" /\ e.avail = FALSE /\ e.reading /\ e.delay = InitialDelay
<1>. DEFINE e == exec_command(d, c, s)
            Stream == \/ BufferKept(d, e) /\ StreamKept(d, e)
                      \/ c = "Stop" /\ BufferKept(d, e) /\ e.reading = FALSE
                      \/ c = "Read" /\ e.avail = FALSE /\ e.reading /\ e.delay = InitialDelay
<1>. SUFFICES e \in Controller /\ LineFresh(d, e) /\ e.queued = d.queued /\ Stream
  OBVIOUS
<1>0. c \in {"Nop", "Seek", "Stop", "Read"} /\ s \in Nat /\ "ACK" \in Responses
  BY CdromAssumption DEF Responses
<1>. DEFINE a == set_irq(d, "ACK")
<1>1. /\ a \in Controller /\ a.irq = "ACK" /\ a.latched = FALSE /\ a.present = PresentDelay
      /\ a.queued = d.queued /\ BufferKept(d, a) /\ StreamKept(d, a)
  BY <1>0, SetIrq
<1>. HIDE DEF a
<1>2. CASE c = "Nop"
  <2>1. e = a
    BY <1>2 DEF exec_command, a
  <2>. HIDE DEF e
  <2>. QED BY <1>0, <1>1, <2>1 DEF LineFresh
<1>3. CASE c = "Seek"
  <2>1. e = [a EXCEPT !.second = s]
    BY <1>3 DEF exec_command, a
  <2>. HIDE DEF e
  <2>. QED BY <1>0, <1>1, <2>1 DEF LineFresh, Controller, BufferKept, StreamKept
<1>4. CASE c = "Stop"
  <2>1. e = [a EXCEPT !.second = s, !.reading = FALSE, !.delay = 0]
    BY <1>4 DEF exec_command, a
  <2>. HIDE DEF e
  <2>. QED BY <1>0, <1>1, <1>4, <2>1 DEF LineFresh, Controller, BufferKept, StreamKept
<1>5. CASE c = "Read"
  <2>. DEFINE r == start_read_stream(d)
  <2>0. InitialDelay \in Nat /\ 0 \in 0..Words
    BY CdromAssumption
  <2>1. /\ r \in Controller /\ r.avail = FALSE /\ r.reading = TRUE /\ r.delay = InitialDelay
        /\ r.irq = d.irq /\ r.queued = d.queued
    BY <2>0 DEF start_read_stream, Controller
  <2>2. e = set_irq(r, "ACK")
    BY <1>5 DEF exec_command
  <2>. HIDE DEF e, r
  <2>3. /\ e \in Controller /\ e.irq = "ACK" /\ e.latched = FALSE /\ e.present = PresentDelay
        /\ e.queued = r.queued /\ BufferKept(r, e) /\ StreamKept(r, e)
    BY <1>0, <2>1, <2>2, SetIrq
  <2>. QED BY <1>0, <1>5, <2>1, <2>3 DEF LineFresh, BufferKept, StreamKept
<1>. QED BY <1>0, <1>2, <1>3, <1>4, <1>5

LEMMA TryQueued ==
    ASSUME NEW d \in Controller, NEW s \in SecondDelays
    PROVE  LET e == try_execute_queued_command(d, s)
           IN /\ e \in Controller
              /\ d.irq # None \/ d.queued = None => e = d
              /\ d.irq = None /\ d.queued # None => LineFresh(d, e) /\ e.queued = None
              /\ \/ BufferKept(d, e) /\ StreamKept(d, e)
                 \/ d.queued = "Stop" /\ BufferKept(d, e) /\ e.reading = FALSE
                 \/ d.queued = "Read" /\ e.avail = FALSE /\ e.reading /\ e.delay = InitialDelay
<1>. DEFINE e == try_execute_queued_command(d, s)
            Stream == \/ BufferKept(d, e) /\ StreamKept(d, e)
                      \/ d.queued = "Stop" /\ BufferKept(d, e) /\ e.reading = FALSE
                      \/ d.queued = "Read" /\ e.avail = FALSE /\ e.reading /\ e.delay = InitialDelay
<1>. SUFFICES /\ e \in Controller
              /\ d.irq # None \/ d.queued = None => e = d
              /\ d.irq = None /\ d.queued # None => LineFresh(d, e) /\ e.queued = None
              /\ Stream
  OBVIOUS
<1>1. CASE d.irq # None \/ d.queued = None
  <2>1. e = d
    BY <1>1 DEF try_execute_queued_command
  <2>. HIDE DEF e
  <2>. QED BY <1>1, <2>1 DEF BufferKept, StreamKept
<1>2. CASE d.irq = None /\ d.queued # None
  <2>. DEFINE q == [d EXCEPT !.queued = None]
  <2>1. q \in Controller /\ q.irq = d.irq /\ q.queued = None /\ BufferKept(d, q) /\ StreamKept(d, q)
    BY DEF Controller, BufferKept, StreamKept
  <2>2. d.queued \in Commands
    BY <1>2 DEF Controller
  <2>3. e = exec_command(q, d.queued, s)
    BY <1>2 DEF try_execute_queued_command
  <2>. HIDE DEF q, e
  <2>4. /\ e \in Controller /\ LineFresh(q, e) /\ e.queued = q.queued
        /\ \/ BufferKept(q, e) /\ StreamKept(q, e)
           \/ d.queued = "Stop" /\ BufferKept(q, e) /\ e.reading = FALSE
           \/ d.queued = "Read" /\ e.avail = FALSE /\ e.reading /\ e.delay = InitialDelay
    BY <1>2, <2>1, <2>2, <2>3, Exec
  <2>. QED BY <1>2, <2>1, <2>4 DEF LineFresh, BufferKept, StreamKept
<1>. QED BY <1>1, <1>2

LEMMA Pending ==
    ASSUME NEW d \in Controller, NEW c \in Nat
    PROVE  LET e == process_pending(d, c)
           IN /\ e \in Controller
              /\ LineKept(d, e) \/ (LineFresh(d, e) /\ e.irq = "COMPLETE")
              /\ e.queued = d.queued
              /\ BufferKept(d, e) /\ StreamKept(d, e)
<1>. DEFINE e == process_pending(d, c)
<1>. SUFFICES /\ e \in Controller /\ (LineKept(d, e) \/ (LineFresh(d, e) /\ e.irq = "COMPLETE"))
              /\ e.queued = d.queued
              /\ BufferKept(d, e) /\ StreamKept(d, e)
  OBVIOUS
<1>0. d.second \in Nat
  BY DEF Controller
<1>1. CASE d.second = 0 \/ d.irq # None
  <2>1. e = d
    BY <1>1 DEF process_pending
  <2>. HIDE DEF e
  <2>. QED BY <2>1 DEF LineKept, BufferKept, StreamKept
<1>2. CASE d.second > c /\ d.irq = None
  <2>1. e = [d EXCEPT !.second = d.second - c]
    BY <1>0, <1>2 DEF process_pending
  <2>2. d.second - c \in Nat
    BY <1>0, <1>2
  <2>. HIDE DEF e
  <2>. QED BY <2>1, <2>2 DEF Controller, LineKept, BufferKept, StreamKept
<1>3. CASE ~ (d.second = 0 \/ d.irq # None) /\ ~ (d.second > c)
  <2>. DEFINE q == [d EXCEPT !.second = 0]
  <2>1. q \in Controller /\ q.irq = d.irq /\ q.queued = d.queued /\ BufferKept(d, q) /\ StreamKept(d, q)
    BY DEF Controller, BufferKept, StreamKept
  <2>2. e = set_irq(q, "COMPLETE")
    BY <1>3 DEF process_pending
  <2>3. "COMPLETE" \in Responses
    BY DEF Responses
  <2>. HIDE DEF q, e
  <2>4. /\ e \in Controller /\ e.irq = "COMPLETE" /\ e.latched = FALSE /\ e.present = PresentDelay
        /\ e.queued = q.queued /\ BufferKept(q, e) /\ StreamKept(q, e)
    BY <2>1, <2>2, <2>3, SetIrq
  <2>. QED BY <1>3, <2>1, <2>3, <2>4 DEF LineFresh, BufferKept, StreamKept
<1>. QED BY <1>0, <1>1, <1>2, <1>3

\* The stream waits, or delivers the next sector; it makes a response only where
\* there is none.
StreamStep(d, c, t, e) ==
    \/ /\ BufferKept(d, e) /\ LineKept(d, e)
       /\ ~ d.reading \/ Held(d, t)
       /\ e.delay = d.delay
    \/ /\ BufferKept(d, e) /\ LineKept(d, e)
       /\ d.reading /\ ~ Held(d, t) /\ d.delay > c /\ e.delay = d.delay - c
    \/ /\ d.reading /\ ~ Held(d, t) /\ d.delay <= c
       /\ e.delay = Period(d.delay - c)
       /\ \/ e.avail = FALSE /\ e.n = d.n /\ LineKept(d, e)
          \/ e.avail = TRUE /\ e.n = (d.n + 1) % 3 /\ e.pos = 0

LEMMA Stream ==
    ASSUME NEW d \in Controller, NEW c \in Nat, NEW audio \in BOOLEAN, NEW t \in BOOLEAN
    PROVE  LET e == process_read_stream(d, c, audio, t)
           IN /\ e \in Controller
              /\ LineKept(d, e) \/ LineFresh(d, e)
              /\ e.queued = d.queued
              /\ e.bfrd = d.bfrd /\ e.reading = d.reading
              /\ StreamStep(d, c, t, e)
<1>. DEFINE e == process_read_stream(d, c, audio, t)
<1>. SUFFICES /\ e \in Controller /\ (LineKept(d, e) \/ LineFresh(d, e)) /\ e.queued = d.queued
              /\ e.bfrd = d.bfrd /\ e.reading = d.reading
              /\ StreamStep(d, c, t, e)
  OBVIOUS
<1>0. /\ d.delay \in Nat /\ d.n \in 0..2 /\ d.reading \in BOOLEAN
      /\ SectorDelay \in Nat /\ SectorDelay > 0 /\ Words \in Nat
  BY CdromAssumption DEF Controller
<1>1. CASE ~ d.reading \/ Held(d, t)
  <2>1. e = d
    BY <1>1 DEF process_read_stream
  <2>. HIDE DEF e
  <2>. QED BY <1>1, <2>1 DEF LineKept, BufferKept, StreamStep
<1>2. CASE d.reading /\ ~ Held(d, t) /\ d.delay > c
  <2>1. e = [d EXCEPT !.delay = d.delay - c]
    BY <1>2 DEF process_read_stream
  <2>2. d.delay - c \in Nat
    BY <1>0, <1>2
  <2>. HIDE DEF e
  <2>3. e \in Controller /\ e.queued = d.queued /\ e.bfrd = d.bfrd /\ e.reading = d.reading
        /\ LineKept(d, e) /\ BufferKept(d, e) /\ e.delay = d.delay - c
    BY <2>1, <2>2 DEF Controller, LineKept, BufferKept
  <2>. QED BY <1>2, <2>3 DEF StreamStep
<1>3. CASE d.reading /\ ~ Held(d, t) /\ ~ (d.delay > c)
  <2>. DEFINE r == [read_sector_at(d, audio) EXCEPT !.delay = Period(d.delay - c)]
  <2>1. Period(d.delay - c) \in Nat
    BY <1>0 DEF Period
  <2>2. /\ r \in Controller /\ r.queued = d.queued /\ r.bfrd = d.bfrd /\ r.reading = d.reading
        /\ LineKept(d, r) /\ r.delay = Period(d.delay - c)
        /\ audio => r.avail = FALSE /\ r.n = d.n
        /\ ~ audio => r.avail = TRUE /\ r.n = (d.n + 1) % 3 /\ r.pos = 0
    <3>0. 0 \in 0..Words /\ (d.n + 1) % 3 \in 0..2
      BY <1>0
    <3>1. CASE audio
      BY <2>1, <3>0, <3>1 DEF read_sector_at, Controller, LineKept
    <3>2. CASE ~ audio
      BY <2>1, <3>0, <3>2 DEF read_sector_at, Controller, LineKept
    <3>. QED BY <3>1, <3>2
  <2>3. e = IF d.irq = None /\ ~ audio THEN set_irq(r, "DATA") ELSE r
    BY <1>3 DEF process_read_stream
  <2>4. d.delay <= c
    BY <1>0, <1>3
  <2>. HIDE DEF r, e
  <2>5. CASE d.irq = None /\ ~ audio
    <3>1. e = set_irq(r, "DATA") /\ "DATA" \in Responses
      BY <2>3, <2>5 DEF Responses
    <3>2. /\ e \in Controller /\ e.irq = "DATA" /\ e.latched = FALSE /\ e.present = PresentDelay
          /\ e.queued = r.queued /\ BufferKept(r, e) /\ StreamKept(r, e)
      BY <2>2, <3>1, SetIrq
    <3>. QED BY <1>3, <2>2, <2>4, <2>5, <3>1, <3>2 DEF LineFresh, BufferKept, StreamKept, StreamStep
  <2>6. CASE ~ (d.irq = None /\ ~ audio)
    <3>1. e = r
      BY <2>3, <2>6
    <3>. QED BY <1>3, <2>2, <2>4, <3>1 DEF StreamStep
  <2>. QED BY <2>5, <2>6
<1>. QED BY <1>0, <1>1, <1>2, <1>3

LEMMA AgedCd ==
    ASSUME NEW d \in Controller, NEW c \in Nat
    PROVE  /\ Aged(d, c) \in Controller
           /\ Aged(d, c).irq = d.irq /\ Aged(d, c).latched = d.latched
           /\ Aged(d, c).enable = d.enable /\ Aged(d, c).queued = d.queued
           /\ Aged(d, c).present = IF d.present > c THEN d.present - c ELSE 0
           /\ BufferKept(d, Aged(d, c)) /\ StreamKept(d, Aged(d, c))
<1>1. (IF d.present > c THEN d.present - c ELSE 0) \in Nat
  BY DEF Controller
<1>. QED BY <1>1 DEF Aged, Controller, BufferKept, StreamKept

LEMMA Drain ==
    ASSUME NEW d \in Controller, NEW k \in Nat, k <= Words - d.pos
    PROVE  LET e == Drained(d, k)
           IN /\ e \in Controller
              /\ LineKept(d, e) /\ StreamKept(d, e)
              /\ e.queued = d.queued /\ BufferDrained(d, e, k)
<1>. DEFINE more == IF k > 0 THEN d.pos + k < Words ELSE d.avail
<1>1. d.pos + k \in 0..Words
  BY CdromAssumption DEF Controller
<1>2. more \in BOOLEAN
  <2>1. d.avail \in BOOLEAN
    BY DEF Controller
  <2>2. (d.pos + k < Words) \in BOOLEAN
    OBVIOUS
  <2>3. CASE k > 0
    BY <2>2, <2>3, Zenon
  <2>4. CASE ~ (k > 0)
    BY <2>1, <2>4, Zenon
  <2>. QED BY <2>3, <2>4
<1>3. Drained(d, k) = [d EXCEPT !.pos = d.pos + k, !.avail = more]
  BY DEF Drained
<1>. HIDE DEF more
<1>. DEFINE e == Drained(d, k)
<1>4. /\ e \in Controller
      /\ LineKept(d, e) /\ StreamKept(d, e)
      /\ e.queued = d.queued /\ e.bfrd = d.bfrd /\ e.n = d.n /\ e.pos = d.pos + k
      /\ e.avail = more
  BY <1>1, <1>2, <1>3 DEF Controller, LineKept, StreamKept
<1>5. /\ k = 0 => more = d.avail
      /\ k > 0 => (more <=> d.pos + k < Words)
  BY DEF more
<1>. HIDE DEF e
<1>6. BufferDrained(d, e, k)
  BY <1>2, <1>4, <1>5 DEF BufferDrained
<1>. QED BY <1>4, <1>6 DEF e

LEMMA MovedBounds ==
    ASSUME NEW d \in Controller, NEW m \in Channel, NEW c \in Nat
    PROVE  LET k == Moved(d, m, c)
           IN /\ k \in Nat /\ k <= Words - d.pos /\ k <= m.left /\ k <= m.accum + c
              /\ k > 0 => m.active /\ dma_ready(d)
              /\ m.active /\ dma_ready(d) => k = Words - d.pos \/ k = m.left \/ k = m.accum + c
<1>1. /\ d.pos \in 0..Words /\ Words \in Nat /\ m.left \in Nat /\ m.accum \in Nat
  BY CdromAssumption DEF Controller, Channel
<1>. QED BY <1>1 DEF Moved, Smaller

LEMMA TransferredType ==
    ASSUME NEW d \in Controller, NEW m \in Channel, NEW c \in Nat
    PROVE  Transferred(d, m, c) \in Channel
<1>. DEFINE k == Moved(d, m, c)
<1>1. k \in Nat /\ k <= Words - d.pos /\ k <= m.left /\ k <= m.accum + c
  BY MovedBounds
<1>2. /\ d.pos \in 0..Words /\ d.n \in 0..2 /\ Words \in Nat /\ m.left \in Nat /\ m.accum \in Nat
      /\ m.torn \in BOOLEAN /\ 0 \in 0..Words
  BY CdromAssumption DEF Controller, Channel
<1>3. Torn(d, m) \in BOOLEAN
  BY <1>2 DEF Torn
<1>4. WordAfter(d, k) \in Word
  <2>. HIDE DEF k
  <2>1. (d.n + 1) % 3 \in 0..2
    BY <1>2
  <2>2. CASE d.pos + k < Words
    BY <1>1, <1>2, <2>2 DEF WordAfter, Word
  <2>3. CASE ~ (d.pos + k < Words)
    BY <1>1, <1>2, <2>1, <2>3 DEF WordAfter, Word
  <2>. QED BY <2>2, <2>3
<1>5. [Idle EXCEPT !.torn = Torn(d, m)] \in Channel
  <2>1. [n |-> 0, pos |-> 0] \in Word
    BY <1>2 DEF Word
  <2>2. Idle \in Channel
    BY <2>1 DEF Idle, Channel
  <2>. QED BY <1>3, <2>2 DEF Channel
<1>6. m.left - k \in Nat /\ m.accum + c - k \in Nat
  BY <1>1, <1>2
<1>. HIDE DEF k
<1>7. [m EXCEPT !.left = m.left - k, !.accum = m.accum + c - k,
                !.want = WordAfter(d, k), !.torn = Torn(d, m)] \in Channel
  BY <1>3, <1>4, <1>6 DEF Channel
<1>8. \/ Transferred(d, m, c) = m
      \/ Transferred(d, m, c) = [Idle EXCEPT !.torn = Torn(d, m)]
      \/ Transferred(d, m, c) = [m EXCEPT !.left = m.left - k, !.accum = m.accum + c - k,
                                         !.want = WordAfter(d, k), !.torn = Torn(d, m)]
  BY DEF Transferred, k
<1>. QED BY <1>5, <1>7, <1>8

\* An acknowledge leaves no response, or that of the command that was queued.
LEMMA AckCd ==
    ASSUME NEW d \in Controller, NEW s \in SecondDelays
    PROVE  LET e == Acked(d, s)
           IN /\ e \in Controller /\ e.queued = None
              /\ e.irq = None \/ (e.irq \in Responses /\ e.present = PresentDelay)
              /\ e.latched = FALSE
              /\ \/ BufferKept(d, e) /\ StreamKept(d, e)
                 \/ d.queued = "Stop" /\ BufferKept(d, e) /\ e.reading = FALSE
                 \/ d.queued = "Read" /\ e.avail = FALSE /\ e.reading /\ e.delay = InitialDelay
<1>. DEFINE a == [d EXCEPT !.irq = None, !.latched = FALSE]
            e == try_execute_queued_command(a, s)
<1>1. /\ a \in Controller /\ a.irq = None /\ a.latched = FALSE /\ a.queued = d.queued
      /\ BufferKept(d, a) /\ StreamKept(d, a)
  BY DEF Controller, BufferKept, StreamKept
<1>2. Acked(d, s) = e
  BY DEF Acked
<1>. HIDE DEF a
<1>3. /\ e \in Controller
      /\ a.queued = None => e = a
      /\ a.queued # None => LineFresh(a, e) /\ e.queued = None
      /\ \/ BufferKept(a, e) /\ StreamKept(a, e)
         \/ a.queued = "Stop" /\ BufferKept(a, e) /\ e.reading = FALSE
         \/ a.queued = "Read" /\ e.avail = FALSE /\ e.reading /\ e.delay = InitialDelay
  BY <1>1, TryQueued
<1>. HIDE DEF e
<1>. QED BY <1>1, <1>2, <1>3 DEF LineFresh, BufferKept, StreamKept

LEMMA CommandCd ==
    ASSUME NEW d \in Controller, NEW c \in Commands, NEW s \in SecondDelays
    PROVE  LET e == queue_or_exec_command(d, c, s)
           IN /\ e \in Controller
              /\ d.irq # None => LineKept(d, e) /\ e.queued = c /\ BufferKept(d, e) /\ StreamKept(d, e)
              /\ d.irq = None =>
                    /\ LineFresh(d, e) /\ e.queued = d.queued
                    /\ \/ BufferKept(d, e) /\ StreamKept(d, e)
                       \/ c = "Stop" /\ BufferKept(d, e) /\ e.reading = FALSE
                       \/ c = "Read" /\ e.avail = FALSE /\ e.reading /\ e.delay = InitialDelay
<1>1. CASE d.irq # None
  <2>. DEFINE e == [d EXCEPT !.queued = c]
  <2>1. e \in Controller /\ LineKept(d, e) /\ e.queued = c /\ BufferKept(d, e) /\ StreamKept(d, e)
    BY DEF Controller, LineKept, BufferKept, StreamKept
  <2>2. queue_or_exec_command(d, c, s) = e
    BY <1>1 DEF queue_or_exec_command
  <2>. HIDE DEF e
  <2>. QED BY <1>1, <2>1, <2>2
<1>2. CASE d.irq = None
  <2>1. queue_or_exec_command(d, c, s) = exec_command(d, c, s)
    BY <1>2 DEF queue_or_exec_command
  <2>. DEFINE e == exec_command(d, c, s)
  <2>2. /\ e \in Controller /\ LineFresh(d, e) /\ e.queued = d.queued
        /\ \/ BufferKept(d, e) /\ StreamKept(d, e)
           \/ c = "Stop" /\ BufferKept(d, e) /\ e.reading = FALSE
           \/ c = "Read" /\ e.avail = FALSE /\ e.reading /\ e.delay = InitialDelay
    BY <1>2, Exec
  <2>. HIDE DEF e
  <2>. QED BY <1>2, <2>1, <2>2 DEF e
<1>. QED BY <1>1, <1>2

----------------------------------------------------------------------------
(* What an advance by c makes of the controller, before the channel takes  *)
(* its words: d.                                                           *)

\* The response stays, ages and is maybe shown, or a new one is made.
TickLine(d, c, shown) ==
    \/ /\ d.irq = cd.irq /\ d.latched = (cd.latched \/ shown) /\ seen' = seen
       /\ d.present = IF cd.present > c THEN cd.present - c ELSE 0
       /\ shown => ~ cd.latched /\ cd.irq # None /\ cd.present <= c
    \/ /\ cd.irq = None /\ d.irq \in Responses /\ d.latched = FALSE
       /\ d.present = PresentDelay /\ ~ shown /\ seen' = "no"

\* The stream is held, waits or delivers; it delivers over unread data only when
\* the response before was acknowledged.
TickStream(d, c) ==
    \/ BufferKept(cd, d) /\ d.delay = cd.delay /\ (d.irq = "DATA" => cd.irq = "DATA")
    \/ /\ BufferKept(cd, d) /\ (d.irq = "DATA" => cd.irq = "DATA")
       /\ cd.reading /\ ~ (cd.irq # None /\ cd.avail)
       /\ cd.delay > c /\ d.delay = cd.delay - c
    \/ /\ cd.reading /\ ~ (cd.irq # None /\ cd.avail)
       /\ cd.delay <= c /\ d.delay = Period(cd.delay - c)
       /\ \/ d.avail = FALSE /\ d.n = cd.n
          \/ d.avail = TRUE /\ d.n = (cd.n + 1) % 3 /\ d.pos = 0

LEMMA TickCd ==
    ASSUME TypeOK, cd.queued # None => cd.irq # None,
           NEW c \in Nat, NEW s \in SecondDelays, NEW audio \in BOOLEAN, Advance(c, s, audio)
    PROVE  \E d \in Controller, shown \in BOOLEAN :
               /\ cd' = Drained(d, Moved(d, dma, c))
               /\ dma' = Transferred(d, dma, c)
               /\ istat' = (istat \/ shown)
               /\ TickLine(d, c, shown) /\ TickStream(d, c)
               /\ d.queued = cd.queued /\ d.bfrd = cd.bfrd /\ d.reading = cd.reading
<1>. DEFINE aged == Aged(cd, c)
            shownFirst == present_cdrom_irq(aged)
            first == try_execute_queued_command(shownFirst, s)
            second == process_pending(first, c)
            stream == process_read_stream(second, c, audio, dma.active)
            d == present_cdrom_irq(stream)
            shown == Shows(aged) \/ Shows(stream)
<1>1. /\ cd' = Drained(d, Moved(d, dma, c))
      /\ dma' = Transferred(d, dma, c)
      /\ istat' = (istat \/ Shows(aged) \/ Shows(stream))
      /\ seen' = IF d.irq = cd.irq THEN seen ELSE "no"
  BY DEF Advance
<1>2. cd \in Controller /\ dma.active \in BOOLEAN
  BY DEF TypeOK, Channel
<1>3. /\ aged \in Controller /\ aged.irq = cd.irq /\ aged.latched = cd.latched
      /\ aged.enable = cd.enable /\ aged.queued = cd.queued
      /\ aged.present = IF cd.present > c THEN cd.present - c ELSE 0
      /\ BufferKept(cd, aged) /\ StreamKept(cd, aged)
  BY <1>2, AgedCd
<1>. HIDE DEF aged
<1>4. /\ shownFirst \in Controller /\ shownFirst.irq = aged.irq
      /\ shownFirst.present = aged.present /\ shownFirst.enable = aged.enable
      /\ shownFirst.queued = aged.queued /\ shownFirst.latched = (aged.latched \/ Shows(aged))
      /\ BufferKept(aged, shownFirst) /\ StreamKept(aged, shownFirst)
  BY <1>3, PresentCd
<1>. HIDE DEF shownFirst
<1>5. first = shownFirst
  <2>1. shownFirst.irq # None \/ shownFirst.queued = None
    BY <1>3, <1>4
  <2>. QED BY <2>1 DEF try_execute_queued_command
<1>. HIDE DEF first
<1>6. /\ second \in Controller /\ (LineKept(first, second) \/ (LineFresh(first, second) /\ second.irq = "COMPLETE"))
      /\ second.queued = first.queued /\ BufferKept(first, second) /\ StreamKept(first, second)
  BY <1>4, <1>5, Pending
<1>. HIDE DEF second
<1>7. /\ stream \in Controller
      /\ LineKept(second, stream) \/ LineFresh(second, stream)
      /\ stream.queued = second.queued
      /\ stream.bfrd = second.bfrd /\ stream.reading = second.reading
      /\ StreamStep(second, c, dma.active, stream)
  <2>. HIDE DEF stream, d, shown
  <2>1. c \in Nat /\ audio \in BOOLEAN /\ dma.active \in BOOLEAN /\ second \in Controller
    BY <1>2, <1>6
  <2>. QED BY <2>1, Stream, ZenonT(30) DEF stream
<1>. HIDE DEF stream
<1>8. /\ d \in Controller /\ d.irq = stream.irq /\ d.present = stream.present
      /\ d.queued = stream.queued /\ d.latched = (stream.latched \/ Shows(stream))
      /\ BufferKept(stream, d) /\ StreamKept(stream, d)
  BY <1>7, PresentCd
<1>. HIDE DEF d
<1>9. None \notin Responses /\ PresentDelay \in Nat /\ PresentDelay > 0 /\ cd.present \in Nat
      /\ cd.enable \subseteq Responses /\ cd.irq \in Responses \cup {None}
  BY <1>2, CdromAssumption, NoneIsNoResponse DEF Controller
<1>10. Shows(aged) => ~ cd.latched /\ cd.irq # None /\ cd.present <= c
  BY <1>3, <1>9 DEF Shows
<1>11. TickLine(d, c, shown)
  <2>1. CASE LineKept(first, second) /\ LineKept(second, stream)
    <3>1. /\ stream.irq = cd.irq /\ stream.latched = (cd.latched \/ Shows(aged))
          /\ stream.present = aged.present /\ stream.enable = cd.enable
      BY <1>3, <1>4, <1>5, <2>1 DEF LineKept
    <3>2. Shows(stream) => ~ cd.latched /\ cd.irq # None /\ cd.present <= c
      BY <1>3, <1>9, <3>1 DEF Shows
    <3>3. d.irq = cd.irq /\ d.latched = (cd.latched \/ shown) /\ seen' = seen
      BY <1>1, <1>8, <3>1
    <3>4. d.present = IF cd.present > c THEN cd.present - c ELSE 0
      BY <1>3, <1>8, <3>1
    <3>. QED BY <1>10, <3>2, <3>3, <3>4 DEF TickLine
  <2>2. CASE LineFresh(first, second) \/ LineFresh(second, stream)
    <3>1. cd.irq = None /\ stream.irq \in Responses /\ stream.latched = FALSE
          /\ stream.present = PresentDelay
      BY <1>3, <1>4, <1>5, <1>6, <1>7, <1>9, <2>2 DEF LineKept, LineFresh
    <3>2. ~ Shows(aged) /\ ~ Shows(stream)
      BY <1>3, <1>9, <3>1 DEF Shows
    <3>3. seen' = "no" /\ d.latched = FALSE
      BY <1>1, <1>8, <1>9, <3>1, <3>2
    <3>. QED BY <1>8, <3>1, <3>2, <3>3 DEF TickLine
  <2>. QED BY <1>6, <1>7, <2>1, <2>2
<1>12. BufferKept(cd, second) /\ StreamKept(cd, second)
       /\ (cd.irq # None => second.irq = cd.irq)
       /\ (second.irq = "DATA" => cd.irq = "DATA")
  BY <1>3, <1>4, <1>5, <1>6 DEF BufferKept, StreamKept, LineKept, LineFresh
<1>13. ~ Held(second, dma.active) => ~ (cd.irq # None /\ cd.avail)
  BY <1>12 DEF Held, BufferKept
<1>14. TickStream(d, c)
  <2>1. CASE BufferKept(second, stream) /\ LineKept(second, stream) /\ stream.delay = second.delay
    BY <1>8, <1>12, <2>1 DEF TickStream, BufferKept, StreamKept, LineKept
  <2>2. CASE /\ BufferKept(second, stream) /\ LineKept(second, stream)
             /\ second.reading /\ ~ Held(second, dma.active)
             /\ second.delay > c /\ stream.delay = second.delay - c
    BY <1>8, <1>12, <1>13, <2>2 DEF TickStream, BufferKept, StreamKept, LineKept
  <2>3. CASE /\ second.reading /\ ~ Held(second, dma.active) /\ second.delay <= c
             /\ stream.delay = Period(second.delay - c)
             /\ \/ stream.avail = FALSE /\ stream.n = second.n
                \/ stream.avail = TRUE /\ stream.n = (second.n + 1) % 3 /\ stream.pos = 0
    BY <1>8, <1>12, <1>13, <2>3 DEF TickStream, BufferKept, StreamKept
  <2>. QED BY <1>7, <2>1, <2>2, <2>3 DEF StreamStep
<1>15. d.queued = cd.queued /\ d.bfrd = cd.bfrd /\ d.reading = cd.reading
  BY <1>3, <1>4, <1>5, <1>6, <1>7, <1>8 DEF BufferKept, StreamKept
<1>16. istat' = (istat \/ shown) /\ shown \in BOOLEAN
  BY <1>1 DEF Shows
<1>. HIDE DEF shown
<1>. QED BY <1>1, <1>8, <1>11, <1>14, <1>15, <1>16

\* The channel only moves the buffer.
LEMMA TickDrain ==
    ASSUME NEW d \in Controller, dma \in Channel, NEW c \in Nat,
           cd' = Drained(d, Moved(d, dma, c)), dma' = Transferred(d, dma, c)
    PROVE  /\ cd' \in Controller /\ dma' \in Channel
           /\ LineKept(d, cd') /\ StreamKept(d, cd')
           /\ cd'.queued = d.queued /\ BufferDrained(d, cd', Moved(d, dma, c))
<1>1. Moved(d, dma, c) \in Nat /\ Moved(d, dma, c) <= Words - d.pos
  BY MovedBounds
<1>. QED BY <1>1, Drain, TransferredType

LEMMA ChunksAreNat == \A c \in Chunks : c \in Nat /\ c > 0
BY CdromAssumption DEF Chunks

LEMMA ResponseTick ==
    ASSUME TypeOK, ResponseInv, NEW c \in Nat, NEW s \in SecondDelays, NEW audio \in BOOLEAN,
           Advance(c, s, audio)
    PROVE  TypeOK' /\ ResponseInv'
<1>0. PICK d \in Controller, shown \in BOOLEAN :
               /\ cd' = Drained(d, Moved(d, dma, c))
               /\ dma' = Transferred(d, dma, c)
               /\ istat' = (istat \/ shown)
               /\ TickLine(d, c, shown) /\ TickStream(d, c)
               /\ d.queued = cd.queued /\ d.bfrd = cd.bfrd /\ d.reading = cd.reading
  <2>1. cd.queued # None => cd.irq # None
    BY DEF ResponseInv
  <2>. QED BY <2>1, TickCd
<1>1. /\ cd' \in Controller /\ dma' \in Channel
      /\ cd'.irq = d.irq /\ cd'.latched = d.latched /\ cd'.present = d.present
      /\ cd'.queued = cd.queued
  BY <1>0, TickDrain DEF TypeOK, LineKept
<1>2. /\ isr.at = "tail" => isr.gone + c <= Teardown /\ isr' = [isr EXCEPT !.gone = isr.gone + c]
      /\ isr.at # "tail" => isr' = isr
  BY DEF Advance
<1>3. /\ isr' \in Handler /\ isr'.at = isr.at
      /\ isr.at = "tail" => isr'.gone = isr.gone + c
      /\ isr.at # "tail" => isr'.gone = isr.gone
  <2>1. isr \in Handler /\ isr.gone \in 0..Teardown /\ Teardown \in Nat
    BY CdromAssumption DEF TypeOK, Handler
  <2>2. CASE isr.at = "tail"
    <3>1. isr.gone + c \in 0..Teardown
      BY <1>2, <2>1, <2>2
    <3>. QED BY <1>2, <2>1, <2>2, <3>1 DEF Handler
  <2>3. CASE isr.at # "tail"
    BY <1>2, <2>1, <2>3
  <2>. QED BY <2>2, <2>3
<1>4. seen' \in {"no", "early", "yes"} /\ istat' \in BOOLEAN
  BY <1>0 DEF TypeOK, TickLine
<1>5. TypeOK'
  BY <1>1, <1>3, <1>4 DEF TypeOK
<1>6. /\ cd.present \in Nat /\ isr.gone \in Nat /\ PresentDelay \in Nat /\ Teardown \in Nat
      /\ Teardown < PresentDelay /\ None \notin Responses
  BY CdromAssumption, NoneIsNoResponse DEF TypeOK, Controller, Handler
<1>66. cd'.avail => cd'.pos < Words
  <2>. DEFINE k == Moved(d, dma, c)
  <2>0. k \in Nat
    BY <1>0, MovedBounds DEF TypeOK
  <2>1. BufferDrained(d, cd', k)
    BY <1>0, TickDrain DEF TypeOK
  <2>2. d.avail => d.pos < Words
    <3>1. BufferKept(cd, d) \/ d.avail = FALSE \/ d.pos = 0
      <4>1. TickStream(d, c)
        BY <1>0
      <4>. QED BY <4>1, Zenon DEF TickStream
    <3>2. CASE BufferKept(cd, d)
      <4>1. d.avail = cd.avail /\ d.pos = cd.pos
        BY <3>2 DEF BufferKept
      <4>2. cd.avail => cd.pos < Words
        BY DEF ResponseInv
      <4>. QED BY <4>1, <4>2, Zenon
    <3>3. CASE d.avail = FALSE
      BY <3>3, Zenon
    <3>4. CASE d.pos = 0
      BY <3>4, CdromAssumption
    <3>. QED BY <3>1, <3>2, <3>3, <3>4
  <2>3. d.pos \in Nat
    BY CdromAssumption DEF Controller
  <2>. HIDE DEF k
  <2>4. CASE k = 0
    <3>1. cd'.avail = d.avail /\ cd'.pos = d.pos
      BY <2>1, <2>3, <2>4 DEF BufferDrained
    <3>. QED BY <2>2, <3>1, Zenon
  <2>5. CASE k > 0
    BY <2>1, <2>5 DEF BufferDrained
  <2>. QED BY <2>0, <2>4, <2>5
<1>7. CASE /\ d.irq = cd.irq /\ d.latched = (cd.latched \/ shown) /\ seen' = seen
           /\ d.present = IF cd.present > c THEN cd.present - c ELSE 0
           /\ shown => ~ cd.latched /\ cd.irq # None /\ cd.present <= c
  <2>1. /\ seen' # "no" => cd'.irq # None
        /\ cd'.queued # None => cd'.irq # None
        /\ isr'.at # "tail" => isr'.gone = 0
    BY <1>1, <1>3, <1>7 DEF ResponseInv
  <2>2. seen' = "yes" => cd'.latched
    BY <1>1, <1>7 DEF ResponseInv
  <2>3. isr.at = "tail" /\ cd.irq # None /\ seen = "no" => cd.present > c /\ ~ cd.latched
    BY <1>2, <1>6 DEF ResponseInv
  <2>4. isr'.at = "tail" /\ cd'.irq # None /\ seen' = "no" =>
           ~ cd'.latched /\ cd'.present + isr'.gone > Teardown
    <3>. SUFFICES ASSUME isr'.at = "tail" /\ cd'.irq # None /\ seen' = "no"
                  PROVE  ~ cd'.latched /\ cd'.present + isr'.gone > Teardown
      OBVIOUS
    <3>1. isr.at = "tail" /\ cd.irq # None /\ seen = "no" /\ cd.present > c /\ ~ cd.latched
      BY <1>1, <1>3, <1>7, <2>3
    <3>2. ~ shown
      BY <1>6, <1>7, <3>1
    <3>3. ~ cd'.latched
      BY <1>1, <1>7, <3>1, <3>2
    <3>4. cd'.present = cd.present - c /\ isr'.gone = isr.gone + c /\ cd.present + isr.gone > Teardown
      BY <1>1, <1>3, <1>7, <3>1 DEF ResponseInv
    <3>. QED BY <1>6, <3>3, <3>4
  <2>5. NoResponseLost'
    <3>. SUFFICES ASSUME cd'.irq # None /\ cd'.latched /\ seen' = "no" PROVE istat'
      BY DEF NoResponseLost
    <3>1. CASE shown
      BY <1>0, <3>1
    <3>2. CASE ~ shown
      <4>1. cd.irq # None /\ cd.latched /\ seen = "no"
        BY <1>1, <1>7, <3>2
      <4>. QED BY <1>0, <4>1 DEF ResponseInv, NoResponseLost
    <3>. QED BY <3>1, <3>2
  <2>6. OneInterruptPerResponse'
    <3>. SUFFICES ASSUME isr'.at = "out", istat', seen' = "yes" PROVE FALSE
      BY DEF OneInterruptPerResponse
    <3>1. seen = "yes" /\ cd.latched /\ isr.at = "out"
      BY <1>3, <1>7 DEF ResponseInv
    <3>2. ~ shown
      BY <1>7, <3>1
    <3>. QED BY <1>0, <3>1, <3>2 DEF ResponseInv, OneInterruptPerResponse
  <2>. QED BY <1>5, <1>66, <2>1, <2>2, <2>4, <2>5, <2>6 DEF ResponseInv
<1>8. CASE /\ cd.irq = None /\ d.irq \in Responses /\ d.latched = FALSE
           /\ d.present = PresentDelay /\ ~ shown /\ seen' = "no"
  <2>1. cd'.irq # None /\ cd'.latched = FALSE /\ cd'.present = PresentDelay
    BY <1>1, <1>6, <1>8
  <2>2. isr'.at # "tail" => isr'.gone = 0
    BY <1>3 DEF ResponseInv
  <2>3. isr'.gone \in Nat
    BY <1>3, <1>6 DEF Handler
  <2>4. cd'.present + isr'.gone > Teardown
    BY <1>6, <2>1, <2>3
  <2>. QED BY <1>5, <1>66, <1>8, <2>1, <2>2, <2>4 DEF ResponseInv, NoResponseLost, OneInterruptPerResponse
<1>. QED BY <1>0, <1>7, <1>8 DEF TickLine

LEMMA InitResponse == Init => TypeOK /\ ResponseInv
<1>. SUFFICES ASSUME Init PROVE TypeOK /\ ResponseInv
  OBVIOUS
<1>1. 0 \in 0..Words /\ 0 \in 0..2 /\ 0 \in 0..Teardown /\ 0 \in Nat
  BY CdromAssumption
<1>2. cd \in Controller
  BY <1>1 DEF Init, Controller
<1>3. dma \in Channel
  <2>1. [n |-> 0, pos |-> 0] \in Word
    BY <1>1 DEF Word
  <2>. QED BY <2>1 DEF Init, Idle, Channel
<1>4. isr \in Handler /\ isr.at = "out" /\ isr.gone = 0
  BY <1>1 DEF Init, Out, Handler
<1>. QED BY <1>2, <1>3, <1>4 DEF Init, TypeOK, ResponseInv, NoResponseLost, OneInterruptPerResponse

LEMMA OutAndIdle ==
    /\ Out \in Handler /\ Out.at = "out" /\ Out.gone = 0 /\ Out.fetch = FALSE
    /\ Idle \in Channel /\ Idle.active = FALSE
<1>1. 0 \in 0..Words /\ 0 \in 0..2 /\ 0 \in 0..Teardown /\ 0 \in Nat
  BY CdromAssumption
<1>2. [n |-> 0, pos |-> 0] \in Word
  BY <1>1 DEF Word
<1>. QED BY <1>1, <1>2 DEF Out, Handler, Idle, Channel

\* A step preserves the response side of the invariant, one case per action.
LEMMA ResponseStep == TypeOK /\ ResponseInv /\ [Next]_vars => TypeOK' /\ ResponseInv'
<1>. SUFFICES ASSUME TypeOK, ResponseInv, [Next]_vars PROVE TypeOK' /\ ResponseInv'
  OBVIOUS
<1>0. /\ cd \in Controller /\ dma \in Channel /\ isr \in Handler /\ istat \in BOOLEAN
      /\ seen \in {"no", "early", "yes"}
      /\ PresentDelay \in Nat /\ Teardown \in Nat /\ Teardown < PresentDelay
      /\ None \notin Responses /\ None \notin Commands /\ isr.gone \in Nat /\ cd.latched \in BOOLEAN
  BY CdromAssumption, NoneIsNoResponse DEF TypeOK, Handler, Controller
<1>1. CASE Tick
  BY <1>1, ResponseTick, ChunksAreNat DEF Tick
<1>2. ASSUME NEW c \in Commands, NEW s \in SecondDelays, Command(c, s)
      PROVE  TypeOK' /\ ResponseInv'
  <2>. DEFINE e == queue_or_exec_command(cd, c, s)
  <2>0. /\ e \in Controller
        /\ cd.irq # None => LineKept(cd, e) /\ e.queued = c /\ BufferKept(cd, e) /\ StreamKept(cd, e)
        /\ cd.irq = None =>
              /\ LineFresh(cd, e) /\ e.queued = cd.queued
              /\ \/ BufferKept(cd, e) /\ StreamKept(cd, e)
                 \/ c = "Stop" /\ BufferKept(cd, e) /\ e.reading = FALSE
                 \/ c = "Read" /\ e.avail = FALSE /\ e.reading /\ e.delay = InitialDelay
    <3>1. cd \in Controller
      BY <1>0
    <3>. QED BY ONLY <3>1, CommandCd, c \in Commands, s \in SecondDelays
  <2>1. /\ e \in Controller
        /\ cd.irq # None => LineKept(cd, e) /\ e.queued = c
        /\ cd.irq = None => LineFresh(cd, e) /\ e.queued = cd.queued
    BY <2>0, Zenon
  <2>11. BufferKept(cd, e) \/ e.avail = FALSE
    BY <2>0, Zenon
  <2>2. cd' = e /\ istat' = istat /\ dma' = dma /\ isr' = isr
        /\ seen' = IF cd.irq = None THEN "no" ELSE seen
    BY <1>2 DEF Command
  <2>. HIDE DEF e
  <2>3. TypeOK'
    BY <1>0, <2>1, <2>2 DEF TypeOK
  <2>33. cd'.avail => cd'.pos < Words
    BY <2>11, <2>2 DEF BufferKept, ResponseInv
  <2>4. CASE cd.irq # None
    <3>1. cd'.irq = cd.irq /\ cd'.latched = cd.latched /\ cd'.present = cd.present /\ seen' = seen
      BY <2>1, <2>2, <2>4 DEF LineKept
    <3>. QED BY <2>2, <2>3, <2>33, <2>4, <3>1 DEF ResponseInv, NoResponseLost, OneInterruptPerResponse
  <2>5. CASE cd.irq = None
    <3>1. cd'.irq # None /\ cd'.latched = FALSE /\ cd'.present = PresentDelay /\ seen' = "no"
      BY <1>0, <2>1, <2>2, <2>5 DEF LineFresh
    <3>2. cd'.present + isr'.gone > Teardown
      BY <1>0, <2>2, <3>1
    <3>3. isr'.at # "tail" => isr'.gone = 0
      BY <2>2 DEF ResponseInv
    <3>. QED BY <2>3, <2>33, <3>1, <3>2, <3>3 DEF ResponseInv, NoResponseLost, OneInterruptPerResponse
  <2>. QED BY <2>4, <2>5
<1>3. ASSUME NEW s \in SecondDelays, IsrAck(s) \/ ProgramAck(s)
      PROVE  TypeOK' /\ ResponseInv'
  <2>. DEFINE e == Acked(cd, s)
  <2>1. /\ e \in Controller /\ e.queued = None /\ e.latched = FALSE
        /\ e.irq = None \/ (e.irq \in Responses /\ e.present = PresentDelay)
        /\ BufferKept(cd, e) \/ e.avail = FALSE
    BY <1>0, AckCd
  <2>2. cd' = e /\ istat' = istat /\ dma' = dma /\ seen' = "no"
    BY <1>3 DEF IsrAck, ProgramAck
  <2>. HIDE DEF e
  <2>3. isr' \in Handler /\ isr'.gone = isr.gone /\ isr.gone = 0
    <3>1. CASE IsrAck(s)
      <4>1. isr.fetch \in BOOLEAN /\ (isr.fetch /\ cd.irq = "DATA") \in BOOLEAN
        BY <1>0 DEF Handler
      <4>2. isr' = [isr EXCEPT !.at = "tail", !.fetch = (isr.fetch /\ cd.irq = "DATA")] /\ isr.at = "in"
        BY <3>1 DEF IsrAck
      <4>. QED BY <1>0, <4>1, <4>2 DEF Handler, ResponseInv
    <3>2. CASE ProgramAck(s)
      BY <1>0, <3>2 DEF ProgramAck, ResponseInv
    <3>. QED BY <1>3, <3>1, <3>2
  <2>4. TypeOK'
    BY <1>0, <2>1, <2>2, <2>3 DEF TypeOK
  <2>5. cd'.irq # None => cd'.present + isr'.gone > Teardown
    BY <1>0, <2>1, <2>2, <2>3
  <2>6. cd'.avail => cd'.pos < Words
    BY <2>1, <2>2 DEF BufferKept, ResponseInv
  <2>. QED BY <2>1, <2>2, <2>3, <2>4, <2>5, <2>6 DEF ResponseInv, NoResponseLost, OneInterruptPerResponse
<1>4. CASE EnterIsr
  <2>1. isr' = [Out EXCEPT !.at = "in", !.fetch = TRUE] /\ UNCHANGED <<cd, istat, dma, seen>>
    BY <1>4 DEF EnterIsr
  <2>2. isr' \in Handler /\ isr'.at = "in" /\ isr'.gone = 0
    BY <2>1, OutAndIdle DEF Handler
  <2>. QED BY <1>0, <2>1, <2>2 DEF TypeOK, ResponseInv, NoResponseLost, OneInterruptPerResponse
<1>5. CASE IsrLeave
  <2>1. /\ isr' = [isr EXCEPT !.at = "tail", !.fetch = (isr.fetch /\ cd.irq = "DATA")]
        /\ seen' = IF cd.latched THEN "yes" ELSE "early"
        /\ cd.irq # None /\ UNCHANGED <<cd, istat, dma>>
    BY <1>5 DEF IsrLeave
  <2>2. (isr.fetch /\ cd.irq = "DATA") \in BOOLEAN
    OBVIOUS
  <2>3. isr' \in Handler /\ isr'.at = "tail"
    BY <1>0, <2>1, <2>2 DEF Handler
  <2>4. seen' # "no" /\ (seen' = "yes" => cd'.latched) /\ seen' \in {"no", "early", "yes"}
    BY <2>1
  <2>. QED BY <1>0, <2>1, <2>3, <2>4 DEF TypeOK, ResponseInv, NoResponseLost, OneInterruptPerResponse
<1>6. CASE IsrEnd
  <2>1. isr' = Out /\ istat' = FALSE /\ UNCHANGED <<cd, dma, seen>> /\ isr.at = "tail"
    BY <1>6 DEF IsrEnd
  <2>2. isr' \in Handler /\ isr'.at = "out" /\ isr'.gone = 0
    BY <2>1, OutAndIdle
  <2>3. ~ (cd.irq # None /\ cd.latched /\ seen = "no")
    BY <2>1 DEF ResponseInv
  <2>. QED BY <1>0, <2>1, <2>2, <2>3 DEF TypeOK, ResponseInv, NoResponseLost, OneInterruptPerResponse
<1>7. CASE Enable
  <2>1. PICK en \in {{}, Responses} : cd' = [cd EXCEPT !.enable = en]
    BY <1>7 DEF Enable
  <2>2. UNCHANGED <<istat, dma, isr, seen>>
    BY <1>7 DEF Enable
  <2>3. /\ cd' \in Controller /\ cd'.irq = cd.irq /\ cd'.latched = cd.latched
        /\ cd'.present = cd.present /\ cd'.queued = cd.queued
        /\ cd'.avail = cd.avail /\ cd'.pos = cd.pos
    BY <1>0, <2>1 DEF Controller
  <2>. QED BY <1>0, <2>2, <2>3 DEF TypeOK, ResponseInv, NoResponseLost, OneInterruptPerResponse
<1>8. ASSUME NEW b \in BOOLEAN, Request(b)
      PROVE  TypeOK' /\ ResponseInv'
  <2>1. UNCHANGED <<istat, dma, isr, seen>>
        /\ cd' = [cd EXCEPT !.bfrd = b, !.pos = IF b THEN cd.pos ELSE 0]
    BY <1>8 DEF Request
  <2>2. (IF b THEN cd.pos ELSE 0) \in 0..Words
    BY <1>0, CdromAssumption DEF Controller
  <2>3. /\ cd' \in Controller /\ cd'.irq = cd.irq /\ cd'.latched = cd.latched
        /\ cd'.present = cd.present /\ cd'.queued = cd.queued
        /\ cd'.avail = cd.avail /\ cd'.pos = IF b THEN cd.pos ELSE 0
    BY <1>0, <2>1, <2>2 DEF Controller
  <2>4. cd'.avail => cd'.pos < Words
    BY <2>3, CdromAssumption DEF ResponseInv
  <2>. QED BY <1>0, <2>1, <2>3, <2>4 DEF TypeOK, ResponseInv, NoResponseLost, OneInterruptPerResponse
<1>9. CASE ReadData
  <2>1. cd' = Drained(cd, 1) /\ UNCHANGED <<istat, dma, isr, seen>> /\ cd.avail
    BY <1>9 DEF ReadData, dma_ready
  <2>2. 1 \in Nat /\ 1 <= Words - cd.pos /\ cd.pos \in Nat /\ Words \in Nat
    BY <1>0, <2>1, CdromAssumption DEF Controller, ResponseInv
  <2>. DEFINE e == Drained(cd, 1)
  <2>3. /\ e \in Controller /\ LineKept(cd, e) /\ e.queued = cd.queued
        /\ BufferDrained(cd, e, 1)
    BY <1>0, <2>2, Drain
  <2>4. e.avail => e.pos < Words
    BY <2>2, <2>3 DEF BufferDrained
  <2>5. cd' = e
    BY <2>1
  <2>. HIDE DEF e
  <2>. QED BY <1>0, <2>1, <2>3, <2>4, <2>5
        DEF TypeOK, ResponseInv, NoResponseLost, OneInterruptPerResponse, LineKept
<1>10. CASE Cancel \/ \E k \in {1, 2} : Kick(k)
  <2>1. UNCHANGED <<cd, istat, seen>>
    BY <1>10 DEF Cancel, Kick
  <2>2. isr' \in Handler /\ isr'.at = isr.at /\ isr'.gone = isr.gone
    BY <1>0, <1>10 DEF Cancel, Kick, Handler
  <2>3. dma' \in Channel
    <3>0. dma.torn \in BOOLEAN
      BY <1>0 DEF Channel
    <3>1. CASE Cancel
      BY <1>0, <3>0, <3>1, OutAndIdle DEF Cancel, Channel
    <3>2. ASSUME NEW k \in {1, 2}, Kick(k)
          PROVE  dma' \in Channel
      <4>1. [n |-> cd.n, pos |-> cd.pos] \in Word /\ k * Words \in Nat
        BY <1>0, CdromAssumption DEF Controller, Word
      <4>2. dma' = [Idle EXCEPT !.active = TRUE, !.left = k * Words,
                               !.want = [n |-> cd.n, pos |-> cd.pos], !.torn = dma.torn]
        BY <3>2 DEF Kick
      <4>. QED BY <3>0, <4>1, <4>2, OutAndIdle DEF Channel
    <3>. QED BY <1>10, <3>1, <3>2
  <2>. QED BY <1>0, <2>1, <2>2, <2>3 DEF TypeOK, ResponseInv, NoResponseLost, OneInterruptPerResponse
<1>11. CASE UNCHANGED vars
  BY <1>11 DEF vars, TypeOK, ResponseInv, NoResponseLost, OneInterruptPerResponse
<1>. QED BY <1>1, <1>2, <1>3, <1>4, <1>5, <1>6, <1>7, <1>8, <1>9, <1>10, <1>11 DEF Next, Guest

\* The values stay what the registers and the ghosts can hold.
THEOREM TypeCorrect == Spec => []TypeOK
<1>1. TypeOK /\ ResponseInv /\ [Next]_vars => (TypeOK /\ ResponseInv)'
  BY ResponseStep
<1>. QED BY <1>1, InitResponse, PTL DEF Spec

\* No response is lost to the I_STAT acknowledge at the end of the handler, and none
\* interrupts a second time, whatever the commands and the delays, as long as the
\* tail of the handler is shorter than the presentation delay.
THEOREM ResponsesReachTheHandler == Spec => [](NoResponseLost /\ OneInterruptPerResponse)
<1>1. TypeOK /\ ResponseInv /\ [Next]_vars => (TypeOK /\ ResponseInv)'
  BY ResponseStep
<1>2. ResponseInv => NoResponseLost /\ OneInterruptPerResponse
  BY DEF ResponseInv
<1>. QED BY <1>1, <1>2, InitResponse, PTL DEF Spec

\* A response the handler has read and left to the program does not interrupt again,
\* for any commands and delays, however often the line is refreshed.
THEOREM NoResponseInterruptsTwice == Spec => []OneInterruptPerResponse
<1>1. NoResponseLost /\ OneInterruptPerResponse => OneInterruptPerResponse
  OBVIOUS
<1>. QED BY <1>1, ResponsesReachTheHandler, PTL

----------------------------------------------------------------------------
(* Transfers. *)

\* The transfer's next word is the one the buffer is at, and the next sector is
\* further away than its end; or the buffer is empty and the next sector is next.
Fetching(d, m) ==
    /\ m.left > 0 /\ m.left <= 2 * Words
    /\ d.bfrd = TRUE /\ d.queued \notin {"Read", "Stop"}
    /\ \/ /\ d.avail = TRUE /\ m.accum = 0
          /\ m.want = [n |-> d.n, pos |-> d.pos]
          /\ d.reading = TRUE => d.delay > m.left
       \/ /\ d.avail = FALSE /\ m.want = [n |-> (d.n + 1) % 3, pos |-> 0]

\* A sector that is still to be fetched has just come.
Paced(d, h) ==
    /\ d.reading = TRUE => d.delay > 0
    /\ d.irq = "DATA" /\ d.avail = TRUE /\ d.reading = TRUE => d.delay = SectorDelay
    /\ h.at = "tail" /\ h.fetch = TRUE /\ d.avail = TRUE /\ d.reading = TRUE =>
           d.delay + h.gone >= SectorDelay

TransferInv ==
    /\ dma.active = TRUE => Fetching(cd, dma)
    /\ Paced(cd, isr)
    /\ dma.torn = FALSE

\* What an advance hands to the channel: the word it wants, or an empty buffer.
Ready(d, c) ==
    /\ d.avail = TRUE /\ dma.want = [n |-> d.n, pos |-> d.pos]
    /\ d.reading = TRUE => d.delay > dma.left - c

Empty(d) == d.avail = FALSE /\ dma.want = [n |-> (d.n + 1) % 3, pos |-> 0]

LongSector == SectorDelay > 2 * Words /\ SectorDelay > Teardown + Words

\* A chunk ends with the sector period and with the transfer at the latest.
LEMMA ChunkBounds ==
    ASSUME TypeOK, NEW c \in Chunks
    PROVE  /\ cd.reading = TRUE /\ cd.delay > 0 => c <= cd.delay
           /\ dma.active = TRUE /\ dma.left > 0 /\ dma.accum = 0 => c <= dma.left
<1>1. c \in Nat /\ c > 0 /\ (c = 1 \/ \A x \in Distances : c <= x)
  BY CdromAssumption DEF Chunks
<1>2. cd.delay \in Nat /\ dma.left \in Nat
  BY DEF TypeOK, Controller, Channel
<1>3. ASSUME cd.reading = TRUE, cd.delay > 0 PROVE c <= cd.delay
  <2>1. cd.delay \in Distances
    BY <1>3 DEF Distances
  <2>. QED BY <1>1, <1>2, <1>3, <2>1
<1>4. ASSUME dma.active = TRUE, dma.left > 0, dma.accum = 0 PROVE c <= dma.left
  <2>1. (IF dma.left > dma.accum THEN dma.left - dma.accum ELSE 0) = dma.left
    BY <1>2, <1>4
  <2>2. dma.left \in Distances
    BY <1>4, <2>1 DEF Distances
  <2>. QED BY <1>1, <1>2, <1>4, <2>2
<1>. QED BY <1>3, <1>4

LEMMA StreamPaces ==
    ASSUME TypeOK, TransferInv, NEW c \in Nat, NEW d \in Controller, NEW h \in Handler,
           cd.reading = TRUE => c <= cd.delay,
           TickStream(d, c), d.reading = cd.reading,
           h.at = isr.at, h.fetch = isr.fetch,
           isr.at = "tail" => h.gone = isr.gone + c
    PROVE  Paced(d, h)
<1>0. /\ cd.delay \in Nat /\ d.delay \in Nat /\ SectorDelay \in Nat /\ SectorDelay > 0
      /\ h.gone \in Nat /\ isr.gone \in Nat
      /\ cd.avail \in BOOLEAN /\ cd.reading \in BOOLEAN /\ d.avail \in BOOLEAN
  BY CdromAssumption DEF TypeOK, Controller, Handler
<1>1. Paced(cd, isr)
  BY DEF TransferInv
<1>2. CASE BufferKept(cd, d) /\ d.delay = cd.delay /\ (d.irq = "DATA" => cd.irq = "DATA")
  BY <1>0, <1>1, <1>2 DEF Paced, BufferKept
<1>3. CASE /\ BufferKept(cd, d) /\ (d.irq = "DATA" => cd.irq = "DATA")
           /\ cd.reading /\ ~ (cd.irq # None /\ cd.avail)
           /\ cd.delay > c /\ d.delay = cd.delay - c
  <2>1. d.avail = cd.avail /\ (d.irq = "DATA" => cd.avail = FALSE)
    BY <1>0, <1>3 DEF BufferKept, None
  <2>. QED BY <1>0, <1>1, <1>3, <2>1 DEF Paced
<1>4. CASE cd.reading /\ cd.delay <= c /\ d.delay = Period(cd.delay - c)
  <2>1. cd.reading = TRUE
    BY <1>0, <1>4
  <2>2. cd.delay - c = 0
    BY <1>0, <1>4, <2>1
  <2>3. d.delay = SectorDelay
    BY <1>0, <1>4, <2>2 DEF Period
  <2>. QED BY <1>0, <2>3 DEF Paced
<1>. QED BY <1>2, <1>3, <1>4 DEF TickStream

LEMMA StreamFeeds ==
    ASSUME TypeOK, TransferInv, LongSector, dma.active = TRUE,
           NEW c \in Nat, NEW d \in Controller,
           cd.reading = TRUE => c <= cd.delay,
           dma.accum = 0 => c <= dma.left,
           TickStream(d, c), d.reading = cd.reading
    PROVE  Ready(d, c) \/ Empty(d)
<1>0. /\ cd.delay \in Nat /\ d.delay \in Nat /\ SectorDelay \in Nat /\ SectorDelay > 0
      /\ cd.n \in 0..2 /\ dma.left \in Nat /\ Words \in Nat
      /\ cd.avail \in BOOLEAN /\ cd.reading \in BOOLEAN /\ d.avail \in BOOLEAN
  BY CdromAssumption DEF TypeOK, Controller, Channel
<1>1. Fetching(cd, dma) /\ Paced(cd, isr)
  BY DEF TransferInv
<1>2. CASE /\ cd.avail = TRUE /\ dma.accum = 0
           /\ dma.want = [n |-> cd.n, pos |-> cd.pos]
           /\ cd.reading = TRUE => cd.delay > dma.left
  <2>1. BufferKept(cd, d) /\ (d.delay = cd.delay \/ d.delay = cd.delay - c)
    <3>1. ~ (cd.reading /\ cd.delay <= c)
      BY <1>0, <1>2
    <3>. QED BY <3>1 DEF TickStream
  <2>2. d.avail = TRUE /\ dma.want = [n |-> d.n, pos |-> d.pos]
    BY <1>2, <2>1 DEF BufferKept
  <2>. QED BY <1>0, <1>2, <2>1, <2>2 DEF Ready
<1>3. CASE cd.avail = FALSE /\ dma.want = [n |-> (cd.n + 1) % 3, pos |-> 0]
  <2>1. CASE BufferKept(cd, d)
    BY <1>3, <2>1 DEF BufferKept, Empty
  <2>2. CASE /\ cd.reading /\ cd.delay <= c /\ d.delay = Period(cd.delay - c)
             /\ \/ d.avail = FALSE /\ d.n = cd.n
                \/ d.avail = TRUE /\ d.n = (cd.n + 1) % 3 /\ d.pos = 0
    <3>1. CASE d.avail = FALSE /\ d.n = cd.n
      BY <1>3, <3>1 DEF Empty
    <3>2. CASE d.avail = TRUE /\ d.n = (cd.n + 1) % 3 /\ d.pos = 0
      <4>1. cd.delay - c = 0
        BY <1>0, <2>2
      <4>2. d.delay = SectorDelay
        BY <1>0, <2>2, <4>1 DEF Period
      <4>3. d.delay > dma.left - c
        BY <1>0, <1>1, <4>2 DEF Fetching, LongSector
      <4>. QED BY <1>3, <3>2, <4>3 DEF Ready
    <3>. QED BY <2>2, <3>1, <3>2
  <2>. QED BY <2>1, <2>2 DEF TickStream
<1>. QED BY <1>1, <1>2, <1>3 DEF Fetching

LEMMA ChannelTakes ==
    ASSUME TypeOK, NEW c \in Nat, NEW d \in Controller, NEW e \in Controller, NEW m,
           dma.active = TRUE, dma.torn = FALSE, dma.left <= 2 * Words, dma.left > 0,
           Ready(d, c) \/ Empty(d), d.bfrd = TRUE, d.queued \notin {"Read", "Stop"},
           d.avail = TRUE => d.pos < Words, c > 0,
           m = Transferred(d, dma, c),
           BufferDrained(d, e, Moved(d, dma, c)), StreamKept(d, e), e.queued = d.queued
    PROVE  m.torn = FALSE /\ (m.active = TRUE => Fetching(e, m))
<1>. DEFINE k == Moved(d, dma, c)
<1>0. /\ d.pos \in 0..Words /\ d.n \in 0..2 /\ Words \in Nat /\ dma.left \in Nat
      /\ dma.accum \in Nat /\ dma \in Channel /\ d.delay \in Nat
  BY CdromAssumption DEF TypeOK, Channel, Controller
<1>1. /\ k \in Nat /\ k <= Words - d.pos /\ k <= dma.left /\ k <= dma.accum + c
      /\ k > 0 => dma.active /\ dma_ready(d)
      /\ dma.active /\ dma_ready(d) => k = Words - d.pos \/ k = dma.left \/ k = dma.accum + c
  BY <1>0, MovedBounds
<1>2. CASE Empty(d)
  <2>1. d.avail = FALSE /\ ~ dma_ready(d)
    BY <1>2 DEF Empty, dma_ready
  <2>2. k = 0
    BY <1>1, <2>1
  <2>3. m = dma
    BY <2>2 DEF Transferred
  <2>. HIDE DEF k
  <2>4. e.avail = FALSE /\ e.n = d.n /\ e.bfrd = TRUE /\ e.queued \notin {"Read", "Stop"}
    BY <2>1, <2>2 DEF BufferDrained, k
  <2>. QED BY <1>2, <2>3, <2>4 DEF Empty, Fetching
<1>3. CASE Ready(d, c)
  <2>1. d.avail = TRUE /\ dma_ready(d) /\ d.pos < Words
    BY <1>3 DEF Ready, dma_ready
  <2>2. k > 0
    BY <1>0, <1>1, <2>1
  <2>3. Torn(d, dma) = FALSE
    BY <1>3 DEF Torn, Ready
  <2>4. CASE k = dma.left
    <3>1. m = [Idle EXCEPT !.torn = Torn(d, dma)]
      BY <2>2, <2>4 DEF Transferred
    <3>. QED BY <2>3, <3>1 DEF Idle
  <2>5. CASE k # dma.left
    <3>1. m = [dma EXCEPT !.left = dma.left - k, !.accum = dma.accum + c - k,
                          !.want = WordAfter(d, k), !.torn = Torn(d, dma)]
      BY <2>2, <2>5 DEF Transferred
    <3>2. BufferDrained(d, e, k)
      OBVIOUS
    <3>. HIDE DEF k
    <3>3. m.torn = FALSE /\ m.left = dma.left - k /\ m.accum = dma.accum + c - k
          /\ m.want = WordAfter(d, k)
      BY <1>0, <2>3, <3>1 DEF Channel
    <3>4. m.left > 0 /\ m.left <= 2 * Words
      BY <1>0, <1>1, <2>2, <2>5, <3>3
    <3>5. e.n = d.n /\ e.pos = d.pos + k /\ e.bfrd = TRUE /\ e.queued \notin {"Read", "Stop"}
      BY <3>2 DEF BufferDrained
    <3>6. CASE k = Words - d.pos
      <4>1. ~ (d.pos + k < Words)
        BY <1>0, <1>1, <3>6
      <4>2. e.avail = FALSE
        <5>1. ~ e.avail
          BY <2>2, <3>2, <4>1 DEF BufferDrained
        <5>2. e.avail \in BOOLEAN
          BY DEF Controller
        <5>. QED BY <5>1, <5>2
      <4>3. m.want = [n |-> (e.n + 1) % 3, pos |-> 0]
        BY <3>3, <3>5, <4>1 DEF WordAfter
      <4>. QED BY <3>3, <3>4, <3>5, <4>2, <4>3 DEF Fetching
    <3>7. CASE k # Words - d.pos
      <4>1. k = dma.accum + c /\ d.pos + k < Words
        BY <1>0, <1>1, <2>1, <2>5, <3>7
      <4>2. e.avail = TRUE
        <5>1. e.avail <=> d.pos + k < Words
          BY <2>2, <3>2 DEF BufferDrained
        <5>2. e.avail \in BOOLEAN
          BY DEF Controller
        <5>. QED BY <4>1, <5>1, <5>2
      <4>3. m.want = [n |-> e.n, pos |-> e.pos] /\ m.accum = 0
        BY <1>0, <3>3, <3>5, <4>1 DEF WordAfter
      <4>4. e.reading = TRUE => e.delay > m.left
        BY <1>0, <1>3, <3>3, <4>1 DEF Ready, StreamKept
      <4>. QED BY <3>3, <3>4, <3>5, <4>2, <4>3, <4>4 DEF Fetching
    <3>. QED BY <3>6, <3>7
  <2>. QED BY <2>4, <2>5
<1>. QED BY <1>2, <1>3

LEMMA TransferTick ==
    ASSUME TypeOK, ResponseInv, TransferInv, LongSector,
           NEW c \in Chunks, NEW s \in SecondDelays, NEW audio \in BOOLEAN, Advance(c, s, audio)
    PROVE  TransferInv'
<1>0. c \in Nat /\ c > 0
  BY ChunksAreNat
<1>1. PICK d \in Controller, shown \in BOOLEAN :
               /\ cd' = Drained(d, Moved(d, dma, c))
               /\ dma' = Transferred(d, dma, c)
               /\ istat' = (istat \/ shown)
               /\ TickLine(d, c, shown) /\ TickStream(d, c)
               /\ d.queued = cd.queued /\ d.bfrd = cd.bfrd /\ d.reading = cd.reading
  <2>1. cd.queued # None => cd.irq # None
    BY DEF ResponseInv
  <2>. QED BY <1>0, <2>1, TickCd
<1>2. /\ cd' \in Controller /\ LineKept(d, cd') /\ StreamKept(d, cd')
      /\ cd'.queued = d.queued /\ BufferDrained(d, cd', Moved(d, dma, c))
  BY <1>0, <1>1, TickDrain DEF TypeOK
<1>3. TypeOK'
  BY <1>0, ResponseTick
<1>4. isr'.at = isr.at /\ isr'.fetch = isr.fetch /\ (isr.at = "tail" => isr'.gone = isr.gone + c)
  BY DEF Advance, TypeOK, Handler
<1>5. cd.reading = TRUE => c <= cd.delay
  BY ChunkBounds DEF TransferInv, Paced
<1>6. Paced(d, isr')
  <2>1. isr' \in Handler
    BY <1>3 DEF TypeOK
  <2>. QED BY <1>0, <1>1, <1>4, <1>5, <2>1, StreamPaces
<1>7. Paced(cd', isr')
  <2>. DEFINE k == Moved(d, dma, c)
  <2>1. k \in Nat /\ (k > 0 => dma_ready(d))
    BY <1>0, MovedBounds DEF TypeOK
  <2>2. BufferDrained(d, cd', k)
    BY <1>2
  <2>. HIDE DEF k
  <2>3. d.avail \in BOOLEAN
    BY DEF Controller
  <2>4. cd'.avail = TRUE => d.avail = TRUE
    BY <2>1, <2>2, <2>3 DEF BufferDrained, dma_ready
  <2>. QED BY <1>2, <1>6, <2>4 DEF Paced, LineKept, StreamKept
<1>8. CASE dma.active = TRUE
  <2>1. /\ dma.left <= 2 * Words /\ dma.left > 0
        /\ cd.bfrd = TRUE /\ cd.queued \notin {"Read", "Stop"} /\ dma.torn = FALSE
    BY <1>8 DEF TransferInv, Fetching
  <2>2. dma.accum = 0 => c <= dma.left
    BY <1>8, <2>1, ChunkBounds
  <2>3. Ready(d, c) \/ Empty(d)
    BY <1>0, <1>1, <1>5, <1>8, <2>2, StreamFeeds
  <2>4. d.avail = TRUE => d.pos < Words
    <3>1. BufferKept(cd, d) \/ d.avail = FALSE \/ d.pos = 0
      <4>1. TickStream(d, c)
        BY <1>1
      <4>. QED BY <4>1, Zenon DEF TickStream
    <3>. QED BY <3>1, CdromAssumption DEF BufferKept, ResponseInv
  <2>5. dma'.torn = FALSE /\ (dma'.active = TRUE => Fetching(cd', dma'))
    BY <1>0, <1>1, <1>2, <1>8, <2>1, <2>3, <2>4, ChannelTakes
  <2>. QED BY <1>7, <2>5 DEF TransferInv
<1>9. CASE dma.active # TRUE
  <2>0. dma.active = FALSE
    BY <1>9 DEF TypeOK, Channel
  <2>1. Moved(d, dma, c) = 0
    BY <2>0 DEF Moved
  <2>2. dma' = dma
    BY <1>1, <2>1 DEF Transferred
  <2>. QED BY <1>7, <1>9, <2>2 DEF TransferInv
<1>. QED BY <1>8, <1>9

\* A command's first response is not a sector.
LEMMA ExecAcks ==
    ASSUME NEW d \in Controller, NEW c \in Commands, NEW s \in SecondDelays
    PROVE  exec_command(d, c, s).irq = "ACK"
<1>1. c \in {"Nop", "Seek", "Stop", "Read"}
  BY CdromAssumption
<1>2. set_irq(d, "ACK").irq = "ACK" /\ set_irq(d, "ACK") \in Controller
  BY SetIrq DEF Responses
<1>3. start_read_stream(d) \in Controller
  <2>1. InitialDelay \in Nat /\ 0 \in 0..Words
    BY CdromAssumption
  <2>. QED BY <2>1 DEF start_read_stream, Controller
<1>4. set_irq(start_read_stream(d), "ACK").irq = "ACK"
  BY <1>3, SetIrq DEF Responses
<1>. QED BY <1>1, <1>2, <1>4 DEF exec_command, Controller

LEMMA AckedIsNoSector ==
    ASSUME NEW d \in Controller, NEW s \in SecondDelays
    PROVE  Acked(d, s).irq # "DATA"
<1>. DEFINE a == [d EXCEPT !.irq = None, !.latched = FALSE]
<1>1. a \in Controller /\ a.irq = None /\ a.queued = d.queued
  BY DEF Controller
<1>2. [a EXCEPT !.queued = None] \in Controller
  BY <1>1 DEF Controller
<1>3. CASE d.queued = None
  <2>1. Acked(d, s) = a
    BY <1>1, <1>3 DEF Acked, try_execute_queued_command
  <2>. QED BY <1>1, <2>1 DEF None
<1>4. CASE d.queued # None
  <2>1. d.queued \in Commands
    BY <1>4 DEF Controller
  <2>2. Acked(d, s) = exec_command([a EXCEPT !.queued = None], d.queued, s)
    BY <1>1, <1>4 DEF Acked, try_execute_queued_command
  <2>. HIDE DEF a
  <2>. QED BY <1>2, <2>1, <2>2, ExecAcks
<1>. QED BY <1>3, <1>4

\* What the guest may do to the stream under the invariant: nothing, or, with no
\* transfer active, end it or start it anew.
LEMMA StreamTouched ==
    ASSUME TypeOK, TransferInv, NEW e \in Controller, NEW h \in Handler,
           e.irq = "DATA" => cd.irq = "DATA",
           \/ BufferKept(cd, e) /\ StreamKept(cd, e)
           \/ dma.active = FALSE /\ e.reading = FALSE
           \/ dma.active = FALSE /\ e.avail = FALSE /\ e.delay = InitialDelay,
           e.queued \notin {"Read", "Stop"} \/ dma.active = FALSE,
           h.at = "tail" /\ h.fetch = TRUE =>
               \/ isr.at = "tail" /\ isr.fetch = TRUE /\ h.gone = isr.gone
               \/ cd.irq = "DATA"
    PROVE  (dma.active = TRUE => Fetching(e, dma)) /\ Paced(e, h)
<1>0. /\ cd.delay \in Nat /\ e.delay \in Nat /\ h.gone \in Nat /\ isr.gone \in Nat
      /\ SectorDelay \in Nat /\ InitialDelay \in Nat /\ InitialDelay > 0
  BY CdromAssumption DEF TypeOK, Controller, Handler
<1>1. CASE BufferKept(cd, e) /\ StreamKept(cd, e)
  <2>1. e.n = cd.n /\ e.pos = cd.pos /\ e.avail = cd.avail /\ e.bfrd = cd.bfrd
        /\ e.reading = cd.reading /\ e.delay = cd.delay
    BY <1>1 DEF BufferKept, StreamKept
  <2>2. Paced(e, h)
    BY <1>0, <2>1 DEF TransferInv, Paced
  <2>3. ASSUME dma.active = TRUE PROVE Fetching(e, dma)
    BY <2>1, <2>3 DEF TransferInv, Fetching
  <2>. QED BY <2>2, <2>3
<1>2. CASE dma.active = FALSE /\ e.reading = FALSE
  BY <1>2 DEF Paced
<1>3. CASE dma.active = FALSE /\ e.avail = FALSE /\ e.delay = InitialDelay
  BY <1>0, <1>3 DEF Paced
<1>. QED BY <1>1, <1>2, <1>3

LEMMA TransferStep ==
    LongSector /\ TypeOK /\ ResponseInv /\ TransferInv /\ [Next]_vars => TransferInv'
<1>. SUFFICES ASSUME LongSector, TypeOK, ResponseInv, TransferInv, [Next]_vars PROVE TransferInv'
  OBVIOUS
<1>0. /\ cd \in Controller /\ dma \in Channel /\ isr \in Handler
      /\ TypeOK' /\ cd' \in Controller /\ isr' \in Handler
      /\ dma.torn = FALSE /\ dma.active \in BOOLEAN /\ isr.fetch \in BOOLEAN
      /\ dma.active = TRUE => cd.queued \notin {"Read", "Stop"}
  BY ResponseStep DEF TypeOK, TransferInv, Fetching, Channel, Handler
<1>1. CASE Tick
  BY <1>1, TransferTick DEF Tick
<1>2. ASSUME NEW c \in Commands, NEW s \in SecondDelays, Command(c, s) PROVE TransferInv'
  <2>. DEFINE e == queue_or_exec_command(cd, c, s)
  <2>1. /\ e \in Controller
        /\ cd.irq # None => LineKept(cd, e) /\ e.queued = c /\ BufferKept(cd, e) /\ StreamKept(cd, e)
        /\ cd.irq = None =>
              /\ LineFresh(cd, e) /\ e.queued = cd.queued
              /\ \/ BufferKept(cd, e) /\ StreamKept(cd, e)
                 \/ c = "Stop" /\ BufferKept(cd, e) /\ e.reading = FALSE
                 \/ c = "Read" /\ e.avail = FALSE /\ e.reading /\ e.delay = InitialDelay
    <3>1. cd \in Controller
      BY <1>0
    <3>. QED BY ONLY <3>1, CommandCd, c \in Commands, s \in SecondDelays
  <2>2. cd' = e /\ dma' = dma /\ isr' = isr /\ (dma.active => c \notin {"Read", "Stop"})
    BY <1>2 DEF Command
  <2>3. e.irq = "DATA" => cd.irq = "DATA"
    <3>1. CASE cd.irq # None
      BY <2>1, <3>1 DEF LineKept
    <3>2. CASE cd.irq = None
      BY <1>0, <3>2, ExecAcks DEF queue_or_exec_command
    <3>. QED BY <3>1, <3>2
  <2>. HIDE DEF e
  <2>4. e.queued \notin {"Read", "Stop"} \/ dma.active = FALSE
    BY <1>0, <2>1, <2>2
  <2>5. \/ BufferKept(cd, e) /\ StreamKept(cd, e)
        \/ dma.active = FALSE /\ e.reading = FALSE
        \/ dma.active = FALSE /\ e.avail = FALSE /\ e.delay = InitialDelay
    BY <1>0, <2>1, <2>2
  <2>6. (dma.active = TRUE => Fetching(e, dma)) /\ Paced(e, isr)
    BY <1>0, <2>1, <2>3, <2>4, <2>5, StreamTouched
  <2>. QED BY <1>0, <2>2, <2>6 DEF TransferInv
<1>3. ASSUME NEW s \in SecondDelays, IsrAck(s) \/ ProgramAck(s) PROVE TransferInv'
  <2>. DEFINE e == Acked(cd, s)
  <2>1. /\ e \in Controller /\ e.queued = None
        /\ \/ BufferKept(cd, e) /\ StreamKept(cd, e)
           \/ cd.queued = "Stop" /\ BufferKept(cd, e) /\ e.reading = FALSE
           \/ cd.queued = "Read" /\ e.avail = FALSE /\ e.reading /\ e.delay = InitialDelay
    BY <1>0, AckCd
  <2>2. e.irq # "DATA"
    BY <1>0, AckedIsNoSector
  <2>3. cd' = e /\ dma' = dma
    BY <1>3 DEF IsrAck, ProgramAck
  <2>4. isr'.at = "tail" /\ isr'.fetch = TRUE => cd.irq = "DATA"
    BY <1>0, <1>3 DEF IsrAck, ProgramAck, Handler
  <2>. HIDE DEF e
  <2>5. \/ BufferKept(cd, e) /\ StreamKept(cd, e)
        \/ dma.active = FALSE /\ e.reading = FALSE
        \/ dma.active = FALSE /\ e.avail = FALSE /\ e.delay = InitialDelay
    BY <1>0, <2>1
  <2>6. (dma.active = TRUE => Fetching(e, dma)) /\ Paced(e, isr')
    BY <1>0, <2>1, <2>2, <2>4, <2>5, StreamTouched DEF None
  <2>. QED BY <1>0, <2>3, <2>6 DEF TransferInv
<1>4. CASE EnterIsr
  <2>1. isr'.at # "tail" /\ UNCHANGED <<cd, dma>>
    BY <1>4 DEF EnterIsr, Out
  <2>. QED BY <2>1 DEF TransferInv, Paced
<1>5. CASE IsrLeave
  <2>1. UNCHANGED <<cd, dma>> /\ (isr'.fetch = TRUE => cd.irq = "DATA")
    BY <1>0, <1>5 DEF IsrLeave, Handler
  <2>2. (dma.active = TRUE => Fetching(cd, dma)) /\ Paced(cd, isr')
    BY <1>0, <2>1, StreamTouched DEF BufferKept, StreamKept
  <2>. QED BY <2>1, <2>2 DEF TransferInv
<1>6. CASE IsrEnd
  <2>1. isr'.at # "tail" /\ UNCHANGED <<cd, dma>>
    BY <1>6 DEF IsrEnd, Out
  <2>. QED BY <2>1 DEF TransferInv, Paced
<1>7. CASE Enable
  <2>1. PICK x \in {{}, Responses} : cd' = [cd EXCEPT !.enable = x] /\ UNCHANGED <<dma, isr>>
    BY <1>7 DEF Enable
  <2>2. BufferKept(cd, cd') /\ StreamKept(cd, cd') /\ cd'.irq = cd.irq /\ cd'.queued = cd.queued
    BY <1>0, <2>1 DEF Controller, BufferKept, StreamKept
  <2>3. (dma.active = TRUE => Fetching(cd', dma)) /\ Paced(cd', isr)
    BY <1>0, <2>2, StreamTouched
  <2>. QED BY <1>0, <2>1, <2>3 DEF TransferInv
<1>8. ASSUME NEW b \in BOOLEAN, Request(b) PROVE TransferInv'
  <2>1. cd' = [cd EXCEPT !.bfrd = b, !.pos = IF b THEN cd.pos ELSE 0]
        /\ UNCHANGED <<dma, isr>> /\ dma.active = FALSE
    BY <1>0, <1>8 DEF Request
  <2>2. /\ cd'.irq = cd.irq /\ cd'.avail = cd.avail /\ cd'.reading = cd.reading
        /\ cd'.delay = cd.delay
    BY <1>0, <2>1 DEF Controller
  <2>. QED BY <2>1, <2>2 DEF TransferInv, Paced
<1>9. CASE ReadData
  <2>1. cd' = Drained(cd, 1) /\ UNCHANGED <<dma, isr>> /\ dma.active = FALSE /\ cd.avail
    BY <1>0, <1>9 DEF ReadData, dma_ready
  <2>2. /\ cd'.irq = cd.irq /\ cd'.reading = cd.reading /\ cd'.delay = cd.delay
    BY <1>0, <2>1 DEF Controller, Drained
  <2>3. cd.avail = TRUE
    BY <1>0, <2>1 DEF Controller
  <2>. QED BY <2>1, <2>2, <2>3 DEF TransferInv, Paced
<1>10. ASSUME NEW k \in {1, 2}, Kick(k) PROVE TransferInv'
  <2>1. /\ UNCHANGED cd /\ isr' = [isr EXCEPT !.fetch = FALSE]
        /\ dma' = [Idle EXCEPT !.active = TRUE, !.left = k * Words,
                          !.want = [n |-> cd.n, pos |-> cd.pos], !.torn = dma.torn]
        /\ isr.fetch /\ dma_ready(cd) /\ cd.queued \notin {"Read", "Stop"}
        /\ (isr.at = "in" /\ cd.irq = "DATA") \/ (isr.at = "tail" /\ k = 1)
    BY <1>10 DEF Kick
  <2>2. isr'.fetch = FALSE
    BY <1>0, <2>1 DEF Handler
  <2>3. Paced(cd', isr')
    BY <2>1, <2>2 DEF TransferInv, Paced
  <2>4. /\ dma'.left = k * Words /\ dma'.accum = 0 /\ dma'.torn = FALSE
        /\ dma'.want = [n |-> cd.n, pos |-> cd.pos]
    BY <1>0, <2>1 DEF Idle
  <2>5. cd.bfrd = TRUE /\ cd.avail = TRUE /\ isr.fetch = TRUE
    BY <1>0, <2>1 DEF dma_ready, Controller
  <2>6. /\ Words \in Nat /\ Words > 0 /\ SectorDelay \in Nat /\ Teardown \in Nat
        /\ cd.delay \in Nat /\ isr.gone \in Nat /\ isr.gone <= Teardown
    BY <1>0, CdromAssumption DEF Controller, Handler
  <2>7. k * Words > 0 /\ k * Words <= 2 * Words
    BY <2>6
  <2>8. cd.reading = TRUE => cd.delay > k * Words
    <3>1. CASE isr.at = "in" /\ cd.irq = "DATA"
      BY <2>5, <2>6, <2>7, <3>1 DEF TransferInv, Paced, LongSector
    <3>2. CASE isr.at = "tail" /\ k = 1
      BY <2>5, <2>6, <3>2 DEF TransferInv, Paced, LongSector
    <3>. QED BY <2>1, <3>1, <3>2
  <2>9. Fetching(cd', dma')
    BY <2>1, <2>4, <2>5, <2>7, <2>8 DEF Fetching
  <2>. QED BY <2>3, <2>4, <2>9 DEF TransferInv
<1>11. CASE Cancel
  <2>1. dma' = [Idle EXCEPT !.torn = dma.torn] /\ UNCHANGED <<cd, isr>>
    BY <1>11 DEF Cancel
  <2>2. dma'.active = FALSE /\ dma'.torn = FALSE
    BY <1>0, <2>1 DEF Idle
  <2>. QED BY <2>1, <2>2 DEF TransferInv
<1>12. CASE UNCHANGED vars
  BY <1>12 DEF vars, TransferInv
<1>. QED BY <1>1, <1>2, <1>3, <1>4, <1>5, <1>6, <1>7, <1>8, <1>9, <1>10, <1>11, <1>12
     DEF Next, Guest

\* When a sector period outlasts the transfer of two sectors, and that of one begun
\* at the end of the handler's tail, no transfer of cdrom.c and dma.c ever gets a
\* word out of its place in the stream, whatever the delays and the sector size.
THEOREM TransfersAreContiguous ==
    ASSUME LongSector
    PROVE  Spec => []TransferIsContiguous
<1>1. Init => TransferInv
  BY DEF Init, TransferInv, Paced, Idle, Out, None
<1>2. /\ TypeOK /\ ResponseInv /\ TransferInv /\ [Next]_vars
      => TypeOK' /\ ResponseInv' /\ TransferInv'
  BY ResponseStep, TransferStep
<1>3. TransferInv => TransferIsContiguous
  BY DEF TransferInv, TransferIsContiguous
<1>. QED BY <1>1, <1>2, <1>3, InitResponse, PTL DEF Spec
=============================================================================
