----------------------------- MODULE SerialPort -----------------------------
(***************************************************************************)
(* The serial port (sio.c, cycle-paced build) with its two kinds of        *)
(* device, controller pads and memory cards, the card images and their     *)
(* files (memcard.c), and the guest's driver: it runs one transfer at a    *)
(* time, sends a byte, waits for the acknowledge interrupt, reads the      *)
(* answer and sends the next byte; it may lose patience at any point.      *)
(*                                                                         *)
(* Bytes are numbers, so that a data byte may look like a device address.  *)
(* A sector has SectorBytes bytes instead of 128. Buttons and sticks are   *)
(* left out: a pad answers 255 for them. The pads are the ones that know   *)
(* the configuration commands, of which QUERY stands for those that only   *)
(* answer; g_pad_legacy_cfg is 0.                                          *)
(***************************************************************************)
EXTENDS Integers, Sequences, SequencesExt

CONSTANTS
    Cards,       \* slots with a card file configured
    Pads,        \* slots with a pad
    Sectors,     \* MEMCARD_SECTORS
    SectorBytes, \* MEMCARD_SECTOR_SIZE
    Baud,        \* SIO_BAUD_CYCLES_DEFAULT (1088)
    Ack,         \* SIO_ACK_CYCLES_DEFAULT (170)
    Chunks,      \* lengths of the gaps the clock replays
    Jobs,        \* the transfers the guest makes
    HostModes,   \* the pad modes the host's input code asks for
    MaxStray,    \* bytes the guest may send out of turn in one transfer
    GuestAcks,   \* the guest starts a transfer with the acknowledge bit of CTRL set
    ByteXor(_, _) \* the exclusive or of two bytes

Slots == {0, 1}
None == "none"

ASSUME SerialAssumption ==
    /\ Cards \subseteq Slots /\ Pads \subseteq Slots
    /\ Sectors \in 1..65536 /\ SectorBytes \in Nat \ {0}
    /\ Ack \in Nat \ {0} /\ Baud \in Nat /\ Ack < Baud
    /\ HostModes \subseteq {"analog", "digital"}
    /\ Chunks \subseteq Nat \ {0} /\ MaxStray \in Nat /\ GuestAcks \in BOOLEAN

VARIABLES
    sio,        \* registers, shifter and protocol machines
    card,       \* the card images in memory
    disk,       \* the card files
    guest,      \* the driver's transfer
    confirmed   \* ghost: what the guest was told each sector holds

vars == <<sio, card, disk, guest, confirmed>>

------------------------------------------------------------------------------
\* Bytes with a meaning.
PAD == 1            \* select a pad
CARD == 129         \* select a card
READ == 82
WRITE == 87
GETID == 83
POLL == 66
CONFIG == 67        \* enter or leave the configuration mode
SETMODE == 68
QUERY == 69
GOOD == 71
NOTGOOD == 78
HIGH == 255         \* nobody drives the line

Idle == {"TX_RDY", "TX_EMPTY"}
Quiet == [on |-> FALSE, byte |-> 0, left |-> 0, irq |-> FALSE]

\* The transfer state every reset and deselect clears: shifter, buffer, acknowledge.
QuietBus(s) == [s EXCEPT !.shift = Quiet, !.buf = Quiet, !.ack = Quiet, !.timing = FALSE]
FreeBus(s) == [QuietBus(s) EXCEPT !.owner = "none", !.fresh = TRUE]

IdlePad == [state |-> "IDLE", cmd |-> 0, idx |-> 0, resp |-> <<>>]

ZeroData == [i \in 1..SectorBytes |-> 0]
NewCard == [state |-> "IDLE", cmd |-> 0, msb |-> 0, lsb |-> 0, data |-> ZeroData,
            idx |-> 0, chk |-> 0, flag |-> 8]

\* The same machine with its place in a transfer forgotten: flag and data stay.
Rewound(c) == [NewCard EXCEPT !.data = c.data, !.flag = c.flag]

sio_init ==
    [ctrl |-> {}, stat |-> Idle, rx |-> HIGH, visible |-> 0, irq |-> FALSE,
     shift |-> Quiet, buf |-> Quiet, ack |-> Quiet, owner |-> "none", fresh |-> TRUE,
     timing |-> FALSE, dev |-> "none", slot |-> 0, pad |-> IdlePad,
     pads |-> [s \in Slots |-> [analog |-> FALSE, config |-> FALSE, req |-> None, locked |-> FALSE]],
     mc |-> NewCard, mcslot |-> 0, saved |-> [s \in Slots |-> NewCard],
     write |-> {}, heard |-> FALSE]

\* At boot and at every change of the input devices a pad is set to analog.
Refreshed(s) ==
    [s EXCEPT !.pads = [i \in Slots |-> [@[i] EXCEPT !.analog = TRUE, !.req = None]]]
Booted == Refreshed(sio_init)

------------------------------------------------------------------------------
(***************************************************************************)
(* What a device does with a byte: its answer, whether it acknowledges     *)
(* (which sets the ACK bit of STAT), and the receiver's flags.             *)
(***************************************************************************)
Answer(s, reply, acked) ==
    [s EXCEPT !.rx = reply, !.heard = acked,
              !.stat = @ \cup Idle \cup {"RX_RDY"} \cup (IF acked THEN {"ACK"} ELSE {})]

\* Nobody is selected: no answer, and RX_RDY is left to the caller.
Nobody(s) == [s EXCEPT !.rx = HIGH, !.heard = FALSE, !.stat = @ \cup Idle]

\* A pending type request is applied between transactions, outside configuration
\* and unless the game has locked the mode.
Flips(p) == p.req # None /\ ~p.config /\ ~p.locked
Flipped(s) ==
    IF s.pad.state # "IDLE" THEN s
    ELSE [s EXCEPT !.pads = [i \in Slots |->
             IF Flips(s.pads[i])
             THEN [s.pads[i] EXCEPT !.analog = (s.pads[i].req = "analog"), !.req = None]
             ELSE s.pads[i]]]

\* The answer to a command in the present mode; empty when the pad ignores it.
PadId(p) == IF p.config THEN 243 ELSE IF p.analog THEN 115 ELSE 65
LiveFrame(p) ==
    <<PadId(p), 90, HIGH, HIGH>> \o (IF p.analog \/ p.config THEN <<128, 128, 128, 128>> ELSE <<>>)
PadResponse(p, cmd) ==
    CASE cmd = POLL \/ (cmd = CONFIG /\ ~p.config) -> LiveFrame(p)
      [] cmd \in {CONFIG, SETMODE} /\ p.config -> <<243, 90, 0, 0, 0, 0, 0, 0>>
      [] cmd = QUERY /\ p.config ->
            <<243, 90, 3, IF p.analog THEN 1 ELSE 0, 1, 2, 1, 0>>
      [] OTHER -> <<>>

\* What the data bytes of CONFIG and SETMODE do to the pad.
Latched(p, pad, b) ==
    CASE pad.cmd = CONFIG /\ pad.idx = 2 -> [p EXCEPT !.config = (b = 1)]
      [] pad.cmd = SETMODE /\ pad.idx = 2 -> [p EXCEPT !.analog = (b = 1), !.req = None]
      [] pad.cmd = SETMODE /\ pad.idx = 3 /\ b \in {2, 3} -> [p EXCEPT !.locked = (b = 3)]
      [] OTHER -> p

pad_process_byte(t, b) ==
    LET s == Flipped(t)
        resp == PadResponse(s.pads[s.slot], b)
        latched == [s EXCEPT !.pads[s.slot] = Latched(@, s.pad, b)]
        last == s.pad.idx + 1 = Len(s.pad.resp)
    IN  CASE s.pad.state = "IDLE" ->
               IF b = PAD /\ s.slot \in Pads
               THEN Answer([s EXCEPT !.pad.state = "WAIT_ACCESS"], HIGH, TRUE)
               ELSE Answer(s, HIGH, FALSE)
          [] s.pad.state = "WAIT_ACCESS" ->
               IF resp = <<>>
               THEN Answer([s EXCEPT !.pad = IdlePad], HIGH, FALSE)
               ELSE Answer([s EXCEPT !.pad = [state |-> "SEND_RESPONSE", cmd |-> b,
                                              idx |-> 1, resp |-> resp]], resp[1], TRUE)
          [] s.pad.state = "SEND_RESPONSE" ->
               Answer([latched EXCEPT !.pad = IF last THEN IdlePad ELSE [s.pad EXCEPT !.idx = @ + 1]],
                      s.pad.resp[s.pad.idx + 1], ~last)

------------------------------------------------------------------------------
Sector(c) == 256 * c.msb + c.lsb
Checksum(c) == FoldLeft(ByteXor, ByteXor(c.msb, c.lsb), c.data)

\* A step of the card's machine: answer, acknowledge, go on.
CardStep(s, next, reply) == Answer([s EXCEPT !.mc.state = next], reply, next # "IDLE")

\* MC_ADDR_LSB: the sector is known; a read fetches it here.
mc_addressed(s, b) ==
    LET c == [s.mc EXCEPT !.lsb = b, !.idx = 0]
        data == IF Sector(c) < Sectors THEN card[s.mcslot].data[Sector(c)]
                                       ELSE [i \in 1..SectorBytes |-> HIGH]
        r == [c EXCEPT !.data = data]
    IN  IF c.cmd = READ
        THEN CardStep([s EXCEPT !.mc = [r EXCEPT !.chk = Checksum(r)]], "READ_ACK1", 0)
        ELSE CardStep([s EXCEPT !.mc = c], "WRITE_DATA", 0)

\* MC_WRITE_CHK: a sector received with the right checksum goes to the card.
Accepts(c, b) == b = Checksum(c) /\ Sector(c) < Sectors
mc_checked(s, b) ==
    LET c == s.mc
        verdict == IF Accepts(c, b) THEN GOOD ELSE IF Sector(c) >= Sectors THEN HIGH ELSE NOTGOOD
    IN  CardStep([s EXCEPT !.mc.chk = verdict,
                           !.write = IF Accepts(c, b)
                                     THEN {[slot |-> s.mcslot, sector |-> Sector(c), data |-> c.data]}
                                     ELSE {}], "WRITE_ACK1", 0)

\* The byte at hand is the last of the sector. Mutated form: off by one.
LastButOne(c) == c.idx + 2 >= SectorBytes
LastByte(c) == c.idx + 1 >= SectorBytes

mc_process_byte(s, b) ==
    LET c == s.mc
        full == LastByte(c)
    IN  CASE c.state = "IDLE" ->
               IF card[s.slot].present
               THEN CardStep([s EXCEPT !.mcslot = s.slot], "CMD", HIGH)
               ELSE CardStep([s EXCEPT !.mcslot = s.slot], "IDLE", HIGH)
          [] c.state = "CMD" ->
               IF b \in {READ, WRITE, GETID}
               THEN CardStep([s EXCEPT !.mc.cmd = b, !.mc.flag = 0], "ID1", c.flag)
               ELSE CardStep([s EXCEPT !.mc.cmd = b], "IDLE", HIGH)
          [] c.state = "ID1" -> CardStep(s, "ID2", 90)
          [] c.state = "ID2" -> CardStep(s, IF c.cmd = GETID THEN "GETID_1" ELSE "ADDR_MSB", 93)
          [] c.state = "GETID_1" -> CardStep(s, "GETID_2", 4)
          [] c.state = "GETID_2" -> CardStep(s, "GETID_3", 0)
          [] c.state = "GETID_3" -> CardStep(s, "GETID_4", 0)
          [] c.state = "GETID_4" -> CardStep(s, "IDLE", 128)
          [] c.state = "ADDR_MSB" -> CardStep([s EXCEPT !.mc.msb = b], "ADDR_LSB", 0)
          [] c.state = "ADDR_LSB" -> mc_addressed(s, b)
          [] c.state = "READ_ACK1" -> CardStep(s, "READ_ACK2", 92)
          [] c.state = "READ_ACK2" -> CardStep(s, "READ_MSB_ECHO", 93)
          [] c.state = "READ_MSB_ECHO" -> CardStep(s, "READ_LSB_ECHO", c.msb)
          [] c.state = "READ_LSB_ECHO" -> CardStep([s EXCEPT !.mc.idx = 0], "READ_DATA", c.lsb)
          [] c.state = "READ_DATA" ->
               CardStep([s EXCEPT !.mc.idx = @ + 1], IF full THEN "READ_CHK" ELSE "READ_DATA",
                        c.data[c.idx + 1])
          [] c.state = "READ_CHK" -> CardStep(s, "READ_END", c.chk)
          [] c.state = "READ_END" -> CardStep(s, "IDLE", IF Sector(c) < Sectors THEN GOOD ELSE HIGH)
          [] c.state = "WRITE_DATA" ->
               CardStep([s EXCEPT !.mc.data[c.idx + 1] = b, !.mc.idx = @ + 1],
                        IF full THEN "WRITE_CHK" ELSE "WRITE_DATA", 0)
          [] c.state = "WRITE_CHK" -> mc_checked(s, b)
          [] c.state = "WRITE_ACK1" -> CardStep(s, "WRITE_ACK2", 92)
          [] c.state = "WRITE_ACK2" -> CardStep(s, "WRITE_END", 93)
          [] c.state = "WRITE_END" -> CardStep([s EXCEPT !.mc.flag = 0], "IDLE", c.chk)

------------------------------------------------------------------------------
mc_save_slot(s) == [s EXCEPT !.saved[s.mcslot] = s.mc, !.mc.state = "IDLE"]
mc_load_slot(s) == [s EXCEPT !.mc = s.saved[s.slot]]

\* The first byte after a select chooses the device, in the slot CTRL names then.
\* Mutated form: the slot of the last transfer is kept.
AimedOnce(s) == s
Aimed(s) == [s EXCEPT !.slot = IF "SLOT" \in s.ctrl THEN 1 ELSE 0]

sio_process_byte(s, b) ==
    LET a == Aimed(s)
        loaded == mc_load_slot(a)
        parked == IF s.mc.state = "IDLE" THEN a ELSE mc_save_slot(a)
        gone == [a EXCEPT !.dev = "none"]
    IN  CASE s.dev = "none" /\ b = PAD -> pad_process_byte([parked EXCEPT !.dev = "pad"], b)
          [] s.dev = "none" /\ b = CARD ->
               mc_process_byte([loaded EXCEPT !.mc.state = "IDLE", !.dev = "card", !.mcslot = a.slot], b)
          [] s.dev = "none" /\ b \notin {PAD, CARD} ->
               IF loaded.mc.state # "IDLE" /\ a.slot = s.mcslot
               THEN mc_process_byte([loaded EXCEPT !.dev = "card"], b)
               ELSE Nobody([loaded EXCEPT !.mc.state = "IDLE"])
          [] s.dev = "pad" -> pad_process_byte(s, b)
          [] s.dev = "card" ->
               IF s.mc.state # "IDLE" \/ b = CARD THEN mc_process_byte(s, b)
               ELSE IF b = PAD THEN pad_process_byte([gone EXCEPT !.dev = "pad"], b)
               ELSE Nobody(gone)

------------------------------------------------------------------------------
(***************************************************************************)
(* The shifter. A byte takes Baud cycles to the device, its acknowledge    *)
(* Ack more; a second byte waits in the buffer. Bytes of a pad are handed  *)
(* over at once and acknowledged after Baud + Ack.                         *)
(***************************************************************************)
AckIrqEn(s) == "ACK_IRQ_EN" \in s.ctrl
Arm(b, cycles, enabled) == [on |-> TRUE, byte |-> b, left |-> cycles, irq |-> enabled]
Rest(s) == IF s.shift.on \/ s.buf.on \/ s.ack.on THEN s ELSE [s EXCEPT !.timing = FALSE]

sio_fire_ack_irq(t) ==
    LET s == [t EXCEPT !.ack = Quiet, !.stat = @ \cup {"ACK"}, !.visible = 2]
    IN  IF t.ack.irq \/ AckIrqEn(t)
        THEN Rest([s EXCEPT !.stat = @ \cup {"IRQ"}, !.irq = TRUE])
        ELSE s

sio_handle_shift_complete(s) ==
    LET t == sio_process_byte(s, s.shift.byte)
        acked == "ACK" \in t.stat
        u == [t EXCEPT !.stat = (@ \ {"ACK"}) \cup {"RX_RDY"},
                       !.ack = IF acked THEN Arm(0, Ack, s.shift.irq) ELSE @]
    IN  IF s.buf.on
        THEN [u EXCEPT !.shift = Arm(s.buf.byte, Baud, s.buf.irq), !.buf = Quiet,
                       !.stat = @ \cup {"TX_EMPTY"}, !.fresh = FALSE]
        ELSE Rest([u EXCEPT !.shift = Quiet, !.stat = @ \cup Idle])

\* The event sio_advance handles next, and after how many of the n cycles. A countdown
\* that ends on the last cycle is left at 0 for the next call.
NextEvent(s, n) ==
    LET left(e) == e.on /\ e.left > 0 /\ e.left < n
    IN  CASE s.shift.on /\ s.shift.left <= 0 -> [is |-> "shift", dt |-> 0]
          [] ~(s.shift.on /\ s.shift.left <= 0) /\ s.ack.on /\ s.ack.left <= 0 ->
               [is |-> "ack", dt |-> 0]
          [] OTHER ->
               IF left(s.ack) /\ (left(s.shift) => s.ack.left < s.shift.left)
               THEN [is |-> "ack", dt |-> s.ack.left]
               ELSE IF left(s.shift) THEN [is |-> "shift", dt |-> s.shift.left]
               ELSE [is |-> "nothing", dt |-> n]

Elapsed(s, dt) ==
    [s EXCEPT !.shift.left = IF s.shift.on THEN @ - dt ELSE @,
              !.ack.left = IF s.ack.on THEN @ - dt ELSE @]

\* A turn of the loop of sio_advance, on the port and the cycles left; it makes at most
\* MAX_TRANSITIONS of them.
Turn(x) ==
    LET e == NextEvent(x.s, x.n)
        t == Elapsed(x.s, e.dt)
    IN  IF x.n <= 0 THEN x
        ELSE [s |-> CASE e.is = "shift" -> sio_handle_shift_complete(t)
                      [] e.is = "ack" -> sio_fire_ack_irq(t)
                      [] e.is = "nothing" -> t,
              n |-> x.n - e.dt]
MaxTransitions == 8
sio_advance(s, n) ==
    LET after[i \in 0..MaxTransitions] ==
            IF i = 0 THEN [s |-> s, n |-> n] ELSE Turn(after[i - 1])
    IN  IF s.timing THEN after[MaxTransitions].s ELSE s

\* A write to TX_DATA.
PadFastPath(s, b) == s.dev # "card" /\ (s.dev = "pad" \/ s.owner = "pad" \/ b = PAD)
write_tx_pad(s, b) ==
    LET t == sio_process_byte([QuietBus(s) EXCEPT !.owner = "pad", !.fresh = FALSE], b)
    IN  IF "ACK" \in t.stat /\ AckIrqEn(s)
        THEN [t EXCEPT !.stat = @ \ (Idle \cup {"ACK"}), !.ack = Arm(0, Baud + Ack, TRUE),
                       !.timing = TRUE]
        ELSE [t EXCEPT !.stat = @ \cup Idle]
BusOwner(b) == CASE b = CARD -> "card" [] b = PAD -> "pad" [] OTHER -> "unknown"
write_tx_paced(s, b) ==
    LET t == [s EXCEPT !.fresh = FALSE,
                       !.owner = IF s.fresh THEN BusOwner(b) ELSE @]
    IN  IF ~s.shift.on
        THEN [t EXCEPT !.shift = Arm(b, Baud, AckIrqEn(s)), !.stat = @ \ Idle, !.timing = TRUE]
        ELSE IF ~s.buf.on
        THEN [t EXCEPT !.buf = Arm(b, 0, AckIrqEn(s)), !.stat = @ \ {"TX_EMPTY"}]
        ELSE t
write_tx(s, b) ==
    IF "TX_EN" \notin s.ctrl THEN s
    ELSE IF PadFastPath(s, b) THEN write_tx_pad(s, b) ELSE write_tx_paced(s, b)

\* The four things a write to CTRL may do besides storing the bits, in the code's order.
\* Mutated form: only the interrupt bit is cleared.
CtrlAckIrqOnly(s) == [s EXCEPT !.stat = @ \ {"IRQ"}, !.visible = 0]
CtrlAck(s) == [s EXCEPT !.stat = @ \ {"IRQ", "ACK"}, !.visible = 0]
\* Both ways to end a transfer let go of the device. The code only sets the working
\* machine's state; the rest of it is dead, as the next select loads the slot's own, and
\* is forgotten here. Mutated form: the pad goes on where it was.
HungUpCardOnly(s) == [s EXCEPT !.dev = "none", !.mc = NewCard, !.mcslot = 0, !.heard = FALSE]
HungUp(s) == [s EXCEPT !.dev = "none", !.mc = NewCard, !.mcslot = 0, !.heard = FALSE, !.pad = IdlePad]
CtrlReset(s) ==
    [HungUp(FreeBus(s)) EXCEPT !.stat = Idle, !.ctrl = {}, !.visible = 0,
                               !.saved = [i \in Slots |-> [@[i] EXCEPT !.state = "IDLE"]]]
TxDisabled(s, v) ==
    IF s.shift.on \/ s.buf.on \/ s.ack.on
    THEN [IF "SELECT" \in v THEN QuietBus(s) ELSE FreeBus(s) EXCEPT !.stat = @ \cup Idle]
    ELSE s
Deselected(s) ==
    LET flags == IF s.dev = "card" THEN [s.saved EXCEPT ![s.mcslot].flag = s.mc.flag] ELSE s.saved
    IN  [HungUp(FreeBus(s)) EXCEPT !.saved = [i \in Slots |-> Rewound(flags[i])],
                                   !.stat = @ \cup Idle]
write_ctrl(s0, v) ==
    LET drops(bit) == bit \in s0.ctrl /\ bit \notin v
        s1 == [s0 EXCEPT !.ctrl = v \ {"ACK", "RESET"}]
        s2 == IF "ACK" \in v THEN CtrlAck(s1) ELSE s1
        s3 == IF "RESET" \in v THEN CtrlReset(s2) ELSE s2
        s4 == IF "SELECT" \in v \ s0.ctrl THEN [s3 EXCEPT !.owner = "none", !.fresh = TRUE] ELSE s3
        s5 == IF drops("TX_EN") THEN TxDisabled(s4, v) ELSE s4
    IN  IF drops("SELECT") THEN Deselected(s5) ELSE s5

\* A read of RX_DATA. The code leaves the byte there; no driver reads it twice.
read_rx(s) == [s EXCEPT !.stat = @ \ {"RX_RDY"}, !.rx = HIGH]
read_stat(s) ==
    [s EXCEPT !.visible = IF @ > 0 THEN @ - 1 ELSE 0,
              !.stat = IF s.visible = 1 THEN @ \ {"ACK"} ELSE @]

------------------------------------------------------------------------------
(***************************************************************************)
(* The card images and their files. A file that was not written to its end *)
(* is short, and a card whose file is short is not there after a restart.  *)
(***************************************************************************)
Blank == [n \in 0..Sectors - 1 |-> ZeroData]
NoCard == [present |-> FALSE, data |-> Blank, dirty |-> FALSE]
Full(data) == [is |-> "full", data |-> data]
Short == [is |-> "short", data |-> Blank]

\* memcard_init_slots over files that exist, one per configured slot.
Loaded(d) == IF d.is = "full" THEN [present |-> TRUE, data |-> d.data, dirty |-> FALSE] ELSE NoCard

\* How a flush may go: all is written, the file cannot be opened, or only a part is
\* written. The image stays dirty until a flush goes through.
Outcomes == {"ok", "noopen", "short"}
\* Mutated form: the image counts as saved whatever fwrite said.
flushed_blindly(c, io) == [c EXCEPT !.dirty = FALSE]
flushed(c, io) == [c EXCEPT !.dirty = @ /\ io # "ok"]
memcard_flush(d, c, io) ==
    CASE io = "ok" /\ c.dirty -> Full(c.data)
      [] io = "short" /\ c.dirty -> Short
      [] OTHER -> d

memcard_write_sector(c, w) == [c EXCEPT !.data[w.sector] = w.data, !.dirty = TRUE]

------------------------------------------------------------------------------
(***************************************************************************)
(* The guest's driver. phase: "send" and "wait" alternate until the last   *)
(* byte, whose answer it takes without an interrupt ("last"); "done" holds *)
(* what a read delivered; "spoiled" after a byte out of turn and "halt"    *)
(* after disabling the transmitter: it will only give up.                  *)
(***************************************************************************)
NoJob == [phase |-> "idle", job |-> {}, pos |-> 0, got |-> <<>>, stray |-> 0]
Job == CHOOSE j \in guest.job : TRUE

Zeros(n) == [i \in 1..n |-> 0]
JobChecksum(j) == FoldLeft(ByteXor, j.lsb, j.data)
Script(j) ==
    CASE j.dev = "pad" -> <<PAD, j.cmd, 0>> \o j.data \o Zeros(4)
      [] j.dev = "card" /\ j.cmd = READ -> <<CARD, READ, 0, 0, 0, j.lsb>> \o Zeros(6 + SectorBytes)
      [] j.dev = "card" /\ j.cmd = WRITE ->
            <<CARD, WRITE, 0, 0, 0, j.lsb>> \o j.data \o <<JobChecksum(j), 0, 0, 0>>
      [] j.dev = "card" /\ j.cmd = GETID -> <<CARD, GETID>> \o Zeros(6)

\* The driver takes the length of a pad's answer from the identifier it gets.
Length(g, j) ==
    IF j.dev = "pad" /\ Len(g.got) >= 2 THEN 3 + 2 * (g.got[2] % 16) ELSE Len(Script(j))

\* The guest's transfers: bytes, a sector whole.
ASSUME JobAssumption ==
    \A j \in Jobs :
        /\ j.slot \in Slots /\ j.lsb \in 0..255 /\ j.data \in Seq(0..255)
        /\ \/ j.dev = "pad" /\ j.cmd \in {POLL, CONFIG, SETMODE, QUERY}
           \/ j.dev = "card" /\ j.cmd \in {READ, GETID}
           \/ j.dev = "card" /\ j.cmd = WRITE /\ Len(j.data) = SectorBytes

Begin(j) ==
    /\ guest.phase \in {"idle", "done"}
    /\ sio' = [write_ctrl(read_rx(sio), {"TX_EN", "SELECT", "ACK_IRQ_EN"}
                               \cup (IF j.slot = 1 THEN {"SLOT"} ELSE {})
                               \cup (IF GuestAcks THEN {"ACK"} ELSE {})) EXCEPT !.irq = FALSE]
    /\ guest' = [NoJob EXCEPT !.phase = "send", !.job = {j}]
    /\ confirmed' = IF j.cmd = WRITE
                    THEN {c \in confirmed : ~(c.slot = j.slot /\ c.sector = j.lsb)} ELSE confirmed
    /\ UNCHANGED <<card, disk>>

Send ==
    /\ guest.phase = "send"
    /\ sio' = write_tx(sio, Script(Job)[guest.pos + 1])
    /\ guest' = [guest EXCEPT !.pos = @ + 1,
                              !.phase = IF guest.pos + 1 = Length(guest, Job) THEN "last" ELSE "wait"]
    /\ UNCHANGED <<card, disk, confirmed>>

\* The interrupt handler: read the answer, acknowledge in CTRL and in I_STAT.
Handle ==
    /\ guest.phase = "wait" /\ sio.irq
    /\ sio' = [write_ctrl(read_rx(sio), sio.ctrl \cup {"ACK"}) EXCEPT !.irq = FALSE]
    /\ guest' = [guest EXCEPT !.phase = "send", !.got = Append(@, sio.rx)]
    /\ UNCHANGED <<card, disk, confirmed>>

\* The driver polls STAT while it waits.
PollStat ==
    /\ guest.phase = "wait" /\ sio.visible > 0
    /\ sio' = read_stat(sio)
    /\ UNCHANGED <<card, disk, guest, confirmed>>

Finish ==
    /\ guest.phase = "last" /\ "RX_RDY" \in sio.stat
    /\ sio' = write_ctrl(read_rx(sio), {})
    /\ guest' = IF Job.cmd = READ
                THEN [guest EXCEPT !.phase = "done", !.got = Append(@, sio.rx)] ELSE NoJob
    /\ confirmed' = IF Job.cmd = WRITE /\ sio.rx = GOOD
                    THEN confirmed \cup {[slot |-> Job.slot, sector |-> Job.lsb, data |-> Job.data]}
                    ELSE confirmed
    /\ UNCHANGED <<card, disk>>

\* The driver gives up: deselects, resets the port, or first stops the transmitter.
GiveUp ==
    /\ guest.phase \in {"send", "wait", "last", "spoiled", "halt"}
    /\ \E v \in {{}, {"RESET"}} : sio' = write_ctrl(sio, v)
    /\ guest' = NoJob
    /\ UNCHANGED <<card, disk, confirmed>>

Halt ==
    /\ guest.phase \in {"wait", "spoiled"}
    /\ sio' = write_ctrl(sio, sio.ctrl \ {"TX_EN"})
    /\ guest' = [guest EXCEPT !.phase = "halt"]
    /\ UNCHANGED <<card, disk, confirmed>>

\* A byte out of turn: another routine of the guest polls a pad or probes a card.
Stray(b) ==
    /\ guest.phase \in {"wait", "spoiled"} /\ guest.stray < MaxStray
    /\ sio' = write_tx(sio, b)
    /\ guest' = [guest EXCEPT !.phase = "spoiled", !.stray = @ + 1]
    /\ UNCHANGED <<card, disk, confirmed>>

------------------------------------------------------------------------------
\* The host: a mode request of the input code, and a change of the input devices.
sio_request_pad_type(s, want) ==
    /\ sio' = [sio EXCEPT !.pads[s].req =
                  IF sio.pads[s].analog = (want = "analog") THEN None ELSE want]
    /\ UNCHANGED <<card, disk, guest, confirmed>>

refresh_player_devices ==
    /\ sio' = Refreshed(sio)
    /\ UNCHANGED <<card, disk, guest, confirmed>>

\* Time passes. At most one sector is complete in a chunk; it goes to the card, and
\* the card to its file.
Tick(n, io) ==
    LET r == sio_advance(sio, n)
        touched == {w.slot : w \in r.write}
        c == [s \in Slots |-> IF s \in touched
                              THEN memcard_write_sector(card[s], CHOOSE w \in r.write : TRUE)
                              ELSE card[s]]
    IN  /\ sio.timing
        /\ io # "ok" => touched # {}
        /\ sio' = [r EXCEPT !.write = {}]
        /\ card' = [s \in Slots |-> IF s \in touched THEN flushed(c[s], io) ELSE card[s]]
        /\ disk' = [s \in Slots |-> IF s \in touched THEN memcard_flush(disk[s], c[s], io) ELSE disk[s]]
        /\ UNCHANGED <<guest, confirmed>>

\* The program starts again over the files. What was confirmed and not yet saved is
\* given up for lost.
Restart(files, saved) ==
    /\ disk' = files
    /\ card' = [s \in Slots |-> Loaded(files[s])]
    /\ sio' = Booted
    /\ guest' = NoJob
    /\ confirmed' = {c \in confirmed : saved[c.slot]}

\* Killed at any point, and killed inside the flush of a write.
Kill == Restart(disk, [s \in Slots |-> ~card[s].dirty])
KillInFlush(n) ==
    \E w \in sio_advance(sio, n).write :
        Restart([disk EXCEPT ![w.slot] = Short], [s \in Slots |-> s # w.slot /\ ~card[s].dirty])

\* memcard_flush_all and the end of the program; every flush may fail.
Quit ==
    \E io \in [Slots -> Outcomes] :
        /\ \A s \in Slots : ~card[s].dirty => io[s] = "ok"
        /\ Restart([s \in Slots |-> memcard_flush(disk[s], card[s], io[s])],
                   [s \in Slots |-> ~flushed(card[s], io[s]).dirty])

------------------------------------------------------------------------------
\* The first start formats the cards; a file that could not be created is short.
Init ==
    /\ \E made \in SUBSET Cards :
         disk = [s \in Slots |-> IF s \in made THEN Full(Blank) ELSE Short]
    /\ card = [s \in Slots |-> Loaded(disk[s])]
    /\ sio = Booted
    /\ guest = NoJob
    /\ confirmed = {}

Clock == \E n \in Chunks : Tick(n, "ok")
FlushFails == \E n \in Chunks, io \in {"noopen", "short"} : Tick(n, io)
Next ==
    \/ \E j \in Jobs : Begin(j)
    \/ Send \/ Handle \/ PollStat \/ Finish \/ GiveUp \/ Halt
    \/ \E b \in {PAD, CARD} : Stray(b)
    \/ \E s \in Pads, want \in HostModes : sio_request_pad_type(s, want)
    \/ refresh_player_devices
    \/ Clock \/ FlushFails
    \/ Kill \/ (\E n \in Chunks : KillInFlush(n)) \/ Quit

Spec == Init /\ [][Next]_vars

\* The guest runs, so cycles pass; its driver goes on when it can. TimePasses says what
\* a step of Clock is: in a transfer it, and nothing else that keeps the driver where it
\* is, moves the shifter or the acknowledge on; the conjunct is WF_vars(Clock).
TimePasses == guest' = guest /\ <<sio'.shift, sio'.ack>> # <<sio.shift, sio.ack>>
FairSpec ==
    /\ Spec /\ WF_vars(Send) /\ WF_vars(Handle) /\ WF_vars(Finish)
    /\ []<>(~sio.timing) \/ []<><<TimePasses>>_vars

------------------------------------------------------------------------------
\* In a transfer that keeps to the protocol an acknowledge on its way (and so the
\* interrupt that tells the guest a device is there and has taken the byte) belongs to
\* a byte whose device did acknowledge it, whatever transfers were given up, reset or
\* spoiled before: the ACK bit of STAT that sio_handle_shift_complete and the pad path
\* test is not a left-over of an earlier acknowledge.
AckIsTheDevices == sio.ack.on /\ guest.stray = 0 => sio.heard

\* A read the guest saw end well delivered the sector it asked for, from the card of
\* the slot it asked: whatever transfers to the other slot or to a pad were given up
\* before it.
ReadDelivers ==
    guest.phase = "done" =>
        \A j \in guest.job :
            j.cmd = READ /\ guest.got[Len(guest.got)] = GOOD =>
                /\ j.lsb < Sectors
                /\ SubSeq(guest.got, 11, 10 + SectorBytes) = card[j.slot].data[j.lsb]

\* What the guest was told is written stays on the card, over later transfers, failed
\* flushes that a later flush makes good, and restarts, unless the program died with
\* the image unsaved.
ConfirmedSurvives ==
    \A c \in confirmed : card[c.slot].present /\ card[c.slot].data[c.sector] = c.data

\* While the program runs, a sector of a card changes only to the data of the guest's
\* write in progress, to that slot and sector, all at once: no transfer given up, no
\* byte out of turn and no transfer to another slot leaves a torn sector.
CardKeepsSectors ==
    [][sio' # Booted =>
        \A s \in Slots, n \in 0..Sectors - 1 :
            card'[s].data[n] # card[s].data[n] =>
                \E j \in guest.job :
                    /\ j.dev = "card" /\ j.cmd = WRITE /\ j.slot = s /\ j.lsb = n
                    /\ card'[s].data[n] = j.data]_vars

\* The device of the guest's transfer answers it.
Answered ==
    \E j \in guest.job :
        IF j.dev = "card" THEN card[j.slot].present
        ELSE j.slot \in Pads /\ (j.cmd \in {POLL, CONFIG} \/ sio.pads[j.slot].config)

\* A transfer with a device that answers comes to its end, unless the guest gives it
\* up: no interrupt is lost, and the device acknowledges as many bytes as the driver
\* expects from its first answers, whatever state earlier transfers left behind.
TransferCompletes ==
    (guest.phase \in {"send", "wait", "last"} /\ Answered)
        ~> guest.phase \in {"idle", "done", "spoiled", "halt"}
==============================================================================
