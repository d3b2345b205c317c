-------------------------- MODULE SerialPortProofs --------------------------
(***************************************************************************)
(* Theorems about the serial port, for any delays, sector size, transfers  *)
(* and chunks of time, under a driver that acknowledges in CTRL when it    *)
(* starts a transfer. First the acknowledges (PortInv); then, for at most  *)
(* one byte out of turn in a transfer, the memory cards (CardInv).         *)
(***************************************************************************)
EXTENDS SerialPort, SequenceTheorems, TLAPS

----------------------------------------------------------------------------
(* The shape of the port: which fields there are, and the control states of *)
(* the two protocol machines.                                               *)

Fields == {"ctrl", "stat", "rx", "visible", "irq", "shift", "buf", "ack", "owner", "fresh",
           "timing", "dev", "slot", "pad", "pads", "mc", "mcslot", "saved", "write", "heard"}
TimerFields == {"on", "byte", "left", "irq"}

PadShape(p) ==
    /\ DOMAIN p = {"state", "cmd", "idx", "resp"}
    /\ p.state \in {"IDLE", "WAIT_ACCESS", "SEND_RESPONSE"}

CardStates ==
    {"IDLE", "CMD", "ID1", "ID2", "GETID_1", "GETID_2", "GETID_3", "GETID_4", "ADDR_MSB",
     "ADDR_LSB", "READ_ACK1", "READ_ACK2", "READ_MSB_ECHO", "READ_LSB_ECHO", "READ_DATA",
     "READ_CHK", "READ_END", "WRITE_DATA", "WRITE_CHK", "WRITE_ACK1", "WRITE_ACK2", "WRITE_END"}
CardShape(c) ==
    /\ DOMAIN c = {"state", "cmd", "msb", "lsb", "data", "idx", "chk", "flag"}
    /\ c.state \in CardStates

\* The devices.
DeviceShape(s) ==
    /\ s.dev \in {"none", "pad", "card"} /\ s.slot \in Slots /\ s.mcslot \in Slots
    /\ PadShape(s.pad) /\ CardShape(s.mc)
    /\ DOMAIN s.saved = Slots /\ \A i \in Slots : CardShape(s.saved[i])

\* The registers and the shifter.
BusShape(s) ==
    /\ DOMAIN s = Fields
    /\ DOMAIN s.shift = TimerFields /\ DOMAIN s.buf = TimerFields /\ DOMAIN s.ack = TimerFields

Shape(s) == BusShape(s) /\ DeviceShape(s)

\* What a device does to the bus when it takes a byte: it raises the ACK bit if it
\* acknowledges, and leaves the rest to the shifter.
Took(s, t) ==
    /\ DOMAIN t = Fields
    /\ t.shift = s.shift /\ t.buf = s.buf /\ t.ack = s.ack
    /\ t.ctrl = s.ctrl /\ t.irq = s.irq
    /\ "ACK" \in t.stat <=> ("ACK" \in s.stat \/ t.heard)

\* A device may change itself before it answers.
SameBus(s, t) ==
    /\ DOMAIN s = Fields /\ DOMAIN t = Fields
    /\ t.shift = s.shift /\ t.buf = s.buf /\ t.ack = s.ack
    /\ t.ctrl = s.ctrl /\ t.irq = s.irq /\ t.stat = s.stat

SameDevices(s, t) ==
    /\ t.dev = s.dev /\ t.slot = s.slot /\ t.mcslot = s.mcslot
    /\ t.pad = s.pad /\ t.mc = s.mc /\ t.saved = s.saved /\ t.write = s.write

LEMMA AnswerTook ==
    ASSUME NEW s, NEW u, SameBus(s, u), NEW r, NEW a \in BOOLEAN
    PROVE  Took(s, Answer(u, r, a)) /\ SameDevices(u, Answer(u, r, a))
<1> DEFINE t == Answer(u, r, a)
<1>1. /\ DOMAIN t = Fields /\ t.heard = a
      /\ t.shift = u.shift /\ t.buf = u.buf /\ t.ack = u.ack
      /\ t.ctrl = u.ctrl /\ t.irq = u.irq
      /\ t.stat = u.stat \cup Idle \cup {"RX_RDY"} \cup (IF a THEN {"ACK"} ELSE {})
      /\ SameDevices(u, t)
  BY DEF Answer, Fields, SameBus, SameDevices
<1> HIDE DEF t
<1>2. "ACK" \in t.stat <=> ("ACK" \in u.stat \/ a)
  BY <1>1 DEF Idle
<1>3. Took(s, t)
  BY <1>1, <1>2, Zenon DEF Took, SameBus
<1> QED BY <1>1, <1>3 DEF t

LEMMA NobodyTook ==
    ASSUME NEW s, NEW u, SameBus(s, u)
    PROVE  Took(s, Nobody(u)) /\ SameDevices(u, Nobody(u))
<1> DEFINE t == Nobody(u)
<1>1. /\ DOMAIN t = Fields /\ t.heard = FALSE
      /\ t.shift = u.shift /\ t.buf = u.buf /\ t.ack = u.ack
      /\ t.ctrl = u.ctrl /\ t.irq = u.irq
      /\ t.stat = u.stat \cup Idle
      /\ SameDevices(u, t)
  BY DEF Nobody, Fields, SameBus, SameDevices
<1> HIDE DEF t
<1>2. "ACK" \in t.stat <=> "ACK" \in u.stat
  BY <1>1 DEF Idle
<1>3. Took(s, t)
  BY <1>1, <1>2, Zenon DEF Took, SameBus
<1> QED BY <1>1, <1>3 DEF t

\* The pad: it leaves the cards alone.
NoCardTouched(s, t) ==
    t.dev = s.dev /\ t.mc = s.mc /\ t.saved = s.saved /\ t.write = s.write

LEMMA PadTook ==
    ASSUME NEW s, NEW t, SameBus(s, t), DeviceShape(t), NEW b
    PROVE  /\ Took(s, pad_process_byte(t, b)) /\ DeviceShape(pad_process_byte(t, b))
           /\ NoCardTouched(t, pad_process_byte(t, b))
<1> DEFINE f == Flipped(t)
           p == pad_process_byte(t, b)
           resp == PadResponse(f.pads[f.slot], b)
           latched == [f EXCEPT !.pads[f.slot] = Latched(@, f.pad, b)]
           last == f.pad.idx + 1 = Len(f.pad.resp)
<1>1. SameBus(s, f) /\ SameDevices(t, f) /\ DOMAIN f = Fields
  BY DEF Flipped, SameBus, SameDevices, Fields
<1>2. DeviceShape(f)
  BY <1>1 DEF DeviceShape, SameDevices
<1>3. f.pad.state \in {"IDLE", "WAIT_ACCESS", "SEND_RESPONSE"}
  BY <1>2 DEF DeviceShape, PadShape
<1>4. p = CASE f.pad.state = "IDLE" ->
               IF b = PAD /\ f.slot \in Pads
               THEN Answer([f EXCEPT !.pad.state = "WAIT_ACCESS"], HIGH, TRUE)
               ELSE Answer(f, HIGH, FALSE)
          [] f.pad.state = "WAIT_ACCESS" ->
               IF resp = <<>>
               THEN Answer([f EXCEPT !.pad = IdlePad], HIGH, FALSE)
               ELSE Answer([f EXCEPT !.pad = [state |-> "SEND_RESPONSE", cmd |-> b,
                                              idx |-> 1, resp |-> resp]], resp[1], TRUE)
          [] f.pad.state = "SEND_RESPONSE" ->
               Answer([latched EXCEPT !.pad = IF last THEN IdlePad
                                              ELSE [f.pad EXCEPT !.idx = @ + 1]],
                      f.pad.resp[f.pad.idx + 1], ~last)
  BY DEF pad_process_byte
<1> SUFFICES Took(s, p) /\ DeviceShape(p) /\ NoCardTouched(t, p)
  OBVIOUS
<1> HIDE DEF p, f, resp
\* A pad that differs from f in its machine and its modes only.
<1>5. ASSUME NEW u, NEW r, NEW a \in BOOLEAN, SameBus(f, u), p = Answer(u, r, a),
             u.dev = f.dev, u.slot = f.slot, u.mcslot = f.mcslot, u.mc = f.mc,
             u.saved = f.saved, u.write = f.write, PadShape(u.pad)
      PROVE  Took(s, p) /\ DeviceShape(p) /\ NoCardTouched(t, p)
  <2>1. SameBus(s, u)
    BY <1>1, <1>5 DEF SameBus
  <2>2. Took(s, p) /\ SameDevices(u, p)
    BY <2>1, <1>5, AnswerTook, Zenon
  <2>3. DeviceShape(u)
    BY <1>2, <1>5 DEF DeviceShape
  <2>4. DeviceShape(p)
    BY <2>2, <2>3 DEF DeviceShape, SameDevices
  <2>5. NoCardTouched(t, p)
    BY <1>1, <1>5, <2>2 DEF NoCardTouched, SameDevices
  <2> QED BY <2>2, <2>4, <2>5
<1>6. PadShape(IdlePad)
  BY DEF IdlePad, PadShape
<1>7. CASE f.pad.state = "IDLE"
  <2>1. CASE b = PAD /\ f.slot \in Pads
    <3> DEFINE u == [f EXCEPT !.pad.state = "WAIT_ACCESS"]
    <3>1. p = Answer(u, HIGH, TRUE) BY <2>1, <1>7, <1>4
    <3>2. /\ SameBus(f, u) /\ u.dev = f.dev /\ u.slot = f.slot /\ u.mcslot = f.mcslot
          /\ u.mc = f.mc /\ u.saved = f.saved /\ u.write = f.write
      BY <1>1 DEF SameBus, Fields
    <3>3. PadShape(u.pad)
      BY <1>1, <1>2 DEF Fields, DeviceShape, PadShape
    <3> HIDE DEF u
    <3>4. TRUE \in BOOLEAN OBVIOUS
    <3> QED BY <3>1, <3>2, <3>3, <3>4, <1>5, Zenon
  <2>2. CASE ~ (b = PAD /\ f.slot \in Pads)
    <3>1. p = Answer(f, HIGH, FALSE) BY <2>2, <1>7, <1>4
    <3>2. SameBus(f, f) BY <1>1 DEF SameBus
    <3>3. PadShape(f.pad) BY <1>2 DEF DeviceShape
    <3>4. FALSE \in BOOLEAN OBVIOUS
    <3> QED BY <3>1, <3>2, <3>3, <3>4, <1>5, Zenon
  <2> QED BY <2>1, <2>2
<1>8. CASE f.pad.state = "WAIT_ACCESS"
  <2>1. CASE resp = <<>>
    <3> DEFINE u == [f EXCEPT !.pad = IdlePad]
    <3>1. p = Answer(u, HIGH, FALSE) BY <2>1, <1>8, <1>4
    <3>2. /\ SameBus(f, u) /\ u.dev = f.dev /\ u.slot = f.slot /\ u.mcslot = f.mcslot
          /\ u.mc = f.mc /\ u.saved = f.saved /\ u.write = f.write /\ u.pad = IdlePad
      BY <1>1 DEF SameBus, Fields
    <3> HIDE DEF u
    <3>3. FALSE \in BOOLEAN OBVIOUS
    <3> QED BY <3>1, <3>2, <3>3, <1>5, <1>6, Zenon
  <2>2. CASE resp # <<>>
    <3> DEFINE q == [state |-> "SEND_RESPONSE", cmd |-> b, idx |-> 1, resp |-> resp]
               u == [f EXCEPT !.pad = q]
    <3>1. p = Answer(u, resp[1], TRUE) BY <2>2, <1>8, <1>4
    <3>2. PadShape(q) BY DEF PadShape
    <3> HIDE DEF q
    <3>3. /\ SameBus(f, u) /\ u.dev = f.dev /\ u.slot = f.slot /\ u.mcslot = f.mcslot
          /\ u.mc = f.mc /\ u.saved = f.saved /\ u.write = f.write /\ u.pad = q
      BY <1>1 DEF SameBus, Fields
    <3> HIDE DEF u
    <3>4. TRUE \in BOOLEAN OBVIOUS
    <3> QED BY <3>1, <3>2, <3>3, <3>4, <1>5, Zenon
  <2> QED BY <2>1, <2>2
<1>9. CASE f.pad.state = "SEND_RESPONSE"
  <2> DEFINE q == IF last THEN IdlePad ELSE [f.pad EXCEPT !.idx = @ + 1]
             u == [latched EXCEPT !.pad = q]
  <2>1. DOMAIN latched = Fields /\ latched.pad = f.pad
    BY <1>1 DEF Fields
  <2>2. p = Answer(u, f.pad.resp[f.pad.idx + 1], ~ last)
    <3> HIDE DEF latched, last
    <3> QED BY <1>9, <1>4
  <2>3. PadShape(q)
    <3>1. PadShape([f.pad EXCEPT !.idx = @ + 1])
      BY <1>2 DEF DeviceShape, PadShape
    <3> HIDE DEF last
    <3> QED BY <3>1, <1>6
  <2>4. (~ last) \in BOOLEAN OBVIOUS
  <2> HIDE DEF q, last
  <2>5. /\ SameBus(f, u) /\ u.dev = f.dev /\ u.slot = f.slot /\ u.mcslot = f.mcslot
        /\ u.mc = f.mc /\ u.saved = f.saved /\ u.write = f.write /\ u.pad = q
    BY <1>1 DEF SameBus, Fields
  <2> HIDE DEF u
  <2> QED BY <2>2, <2>3, <2>4, <2>5, <1>5, Zenon
<1> QED BY <1>3, <1>7, <1>8, <1>9

\* The card: every byte is a step of its machine.
LEMMA CardStepTook ==
    ASSUME NEW s, NEW u, SameBus(s, u), DeviceShape(u), NEW next \in CardStates, NEW r
    PROVE  /\ Took(s, CardStep(u, next, r)) /\ DeviceShape(CardStep(u, next, r))
           /\ CardStep(u, next, r).dev = u.dev /\ CardStep(u, next, r).saved = u.saved
           /\ CardStep(u, next, r).write = u.write
<1> DEFINE v == [u EXCEPT !.mc.state = next]
           t == Answer(v, r, next # "IDLE")
<1>1. /\ SameBus(s, v) /\ v.dev = u.dev /\ v.slot = u.slot /\ v.mcslot = u.mcslot
      /\ v.pad = u.pad /\ v.saved = u.saved /\ v.mc = [u.mc EXCEPT !.state = next]
      /\ v.write = u.write
  BY DEF SameBus, Fields
<1>2. CardShape([u.mc EXCEPT !.state = next])
  BY DEF DeviceShape, CardShape
<1> HIDE DEF v
<1>3. DeviceShape(v)
  BY <1>1, <1>2 DEF DeviceShape
<1>4. (next # "IDLE") \in BOOLEAN
  OBVIOUS
<1>5. Took(s, t) /\ SameDevices(v, t)
  BY <1>1, <1>4, AnswerTook, Zenon
<1> HIDE DEF t
<1>6. DeviceShape(t)
  BY <1>3, <1>5 DEF DeviceShape, SameDevices
<1>7. CardStep(u, next, r) = t
  BY DEF CardStep, t, v
<1> QED BY <1>1, <1>5, <1>6, <1>7 DEF SameDevices

\* A card that is as s except for what it remembers of the transfer.
SameButCard(s, u) ==
    /\ SameBus(s, u) /\ u.dev = s.dev /\ u.slot = s.slot /\ u.mcslot \in Slots
    /\ u.pad = s.pad /\ u.saved = s.saved /\ CardShape(u.mc)
    /\ s.mc.state # "WRITE_CHK" => u.write = s.write

Beside(s, t) ==
    /\ t.saved = s.saved /\ t.dev = s.dev
    /\ s.mc.state # "WRITE_CHK" => t.write = s.write

LEMMA AnswersTook ==
    ASSUME NEW s, DeviceShape(s), NEW u, SameButCard(s, u), NEW next \in CardStates, NEW r
    PROVE  /\ Took(s, CardStep(u, next, r)) /\ DeviceShape(CardStep(u, next, r))
           /\ Beside(s, CardStep(u, next, r))
<1>1. SameBus(s, u) /\ DeviceShape(u)
  BY DEF SameButCard, DeviceShape
<1> DEFINE t == CardStep(u, next, r)
<1>2. Took(s, t) /\ DeviceShape(t) /\ t.saved = u.saved /\ t.dev = u.dev /\ t.write = u.write
  BY <1>1, CardStepTook
<1> HIDE DEF t
<1>3. Beside(s, t)
  BY <1>2 DEF Beside, SameButCard
<1> QED BY <1>2, <1>3 DEF t

LEMMA CardTook ==
    ASSUME NEW s, DOMAIN s = Fields, DeviceShape(s), NEW b
    PROVE  /\ Took(s, mc_process_byte(s, b)) /\ DeviceShape(mc_process_byte(s, b))
           /\ Beside(s, mc_process_byte(s, b))
<1> DEFINE c == s.mc
           full == LastByte(c)
           p == mc_process_byte(s, b)
<1> SUFFICES Took(s, p) /\ DeviceShape(p) /\ Beside(s, p)
  OBVIOUS
<1>1. CardShape(c) /\ c.state \in CardStates
  BY DEF DeviceShape, CardShape
<1>2. ASSUME NEW u, NEW next, NEW r, SameButCard(s, u), next \in CardStates,
             p = CardStep(u, next, r)
      PROVE  Took(s, p) /\ DeviceShape(p) /\ Beside(s, p)
  BY <1>2, AnswersTook
<1>3. SameButCard(s, s)
  BY <1>1 DEF SameButCard, SameBus, DeviceShape
<1>4. ASSUME NEW m, DOMAIN m = DOMAIN c, m.state = c.state
      PROVE  SameButCard(s, [s EXCEPT !.mc = m])
  <2>1. CardShape(m)
    BY <1>1, <1>4 DEF CardShape
  <2> QED BY <2>1 DEF SameButCard, SameBus, DeviceShape, Fields
<1>5. DOMAIN c = {"state", "cmd", "msb", "lsb", "data", "idx", "chk", "flag"}
  BY <1>1 DEF CardShape
<1>6. CASE c.state = "IDLE"
  <2> DEFINE u == [s EXCEPT !.mcslot = s.slot]
  <2>1. SameButCard(s, u)
    BY <1>1 DEF SameButCard, SameBus, DeviceShape, Fields
  <2>2. p = CardStep(u, "CMD", HIGH) \/ p = CardStep(u, "IDLE", HIGH)
    BY <1>6 DEF mc_process_byte
  <2>3. "CMD" \in CardStates /\ "IDLE" \in CardStates
    BY DEF CardStates
  <2> HIDE DEF u, p
  <2> QED BY <2>1, <2>2, <2>3, <1>2
<1>7. CASE c.state = "CMD"
  <2> DEFINE m == [[c EXCEPT !.cmd = b] EXCEPT !.flag = 0]
             k == [c EXCEPT !.cmd = b]
  <2>1. /\ DOMAIN m = DOMAIN c /\ m.state = c.state
        /\ DOMAIN k = DOMAIN c /\ k.state = c.state
    BY <1>5
  <2>2. \/ p = CardStep([s EXCEPT !.mc = m], "ID1", c.flag)
        \/ p = CardStep([s EXCEPT !.mc = k], "IDLE", HIGH)
    BY <1>7 DEF mc_process_byte, Fields
  <2>3. "ID1" \in CardStates /\ "IDLE" \in CardStates
    BY DEF CardStates
  <2>4. SameButCard(s, [s EXCEPT !.mc = m]) /\ SameButCard(s, [s EXCEPT !.mc = k])
    BY <2>1, <1>4
  <2> HIDE DEF m, k, p
  <2> QED BY <2>2, <2>3, <2>4, <1>2
\* The states that only go on.
<1>8. CASE c.state \in {"ID1", "ID2", "GETID_1", "GETID_2", "GETID_3", "GETID_4", "READ_ACK1",
                        "READ_ACK2", "READ_MSB_ECHO", "READ_CHK", "READ_END", "WRITE_ACK1",
                        "WRITE_ACK2"}
  <2>1. CASE c.state \in {"ID1", "ID2", "GETID_1", "GETID_2", "GETID_3", "GETID_4"}
    <3>1. \/ p = CardStep(s, "ID2", 90) \/ p = CardStep(s, "GETID_1", 93)
          \/ p = CardStep(s, "ADDR_MSB", 93) \/ p = CardStep(s, "GETID_2", 4)
          \/ p = CardStep(s, "GETID_3", 0) \/ p = CardStep(s, "GETID_4", 0)
          \/ p = CardStep(s, "IDLE", 128)
      BY <2>1 DEF mc_process_byte
    <3>2. {"ID2", "GETID_1", "ADDR_MSB", "GETID_2", "GETID_3", "GETID_4", "IDLE"}
             \subseteq CardStates
      BY DEF CardStates
    <3> HIDE DEF p
    <3> QED BY <3>1, <3>2, <1>2, <1>3
  <2>2. CASE c.state \in {"READ_ACK1", "READ_ACK2", "READ_MSB_ECHO", "READ_CHK", "READ_END",
                          "WRITE_ACK1", "WRITE_ACK2"}
    <3> DEFINE good == IF Sector(c) < Sectors THEN GOOD ELSE HIGH
    <3>1. \/ p = CardStep(s, "READ_ACK2", 92) \/ p = CardStep(s, "READ_MSB_ECHO", 93)
          \/ p = CardStep(s, "READ_LSB_ECHO", c.msb) \/ p = CardStep(s, "READ_END", c.chk)
          \/ p = CardStep(s, "IDLE", good) \/ p = CardStep(s, "WRITE_ACK2", 92)
          \/ p = CardStep(s, "WRITE_END", 93)
      BY <2>2 DEF mc_process_byte
    <3>2. {"READ_ACK2", "READ_MSB_ECHO", "READ_LSB_ECHO", "READ_END", "IDLE", "WRITE_ACK2",
           "WRITE_END"} \subseteq CardStates
      BY DEF CardStates
    <3> HIDE DEF p, good
    <3> QED BY <3>1, <3>2, <1>2, <1>3
  <2> QED BY <1>8, <2>1, <2>2
\* The states that note the byte or count it.
<1>9. CASE c.state = "ADDR_MSB"
  <2> DEFINE m == [c EXCEPT !.msb = b]
  <2>1. DOMAIN m = DOMAIN c /\ m.state = c.state
    BY <1>5
  <2>2. p = CardStep([s EXCEPT !.mc = m], "ADDR_LSB", 0)
    BY <1>9 DEF mc_process_byte, Fields
  <2>3. "ADDR_LSB" \in CardStates
    BY DEF CardStates
  <2> HIDE DEF m, p
  <2>4. SameButCard(s, [s EXCEPT !.mc = m])
    BY <2>1, <1>4
  <2> QED BY <2>2, <2>3, <2>4, <1>2
<1>10. CASE c.state = "ADDR_LSB"
  <2> DEFINE k == [c EXCEPT !.lsb = b, !.idx = 0]
             data == IF Sector(k) < Sectors THEN card[s.mcslot].data[Sector(k)]
                                            ELSE [i \in 1..SectorBytes |-> HIGH]
             r == [k EXCEPT !.data = data]
             m == [r EXCEPT !.chk = Checksum(r)]
  <2>1. p = mc_addressed(s, b)
    BY <1>10 DEF mc_process_byte
  <2>2. \/ p = CardStep([s EXCEPT !.mc = m], "READ_ACK1", 0)
        \/ p = CardStep([s EXCEPT !.mc = k], "WRITE_DATA", 0)
    BY <2>1, Zenon DEF mc_addressed
  <2>3. DOMAIN k = DOMAIN c /\ k.state = c.state
    BY <1>5
  <2>4. DOMAIN m = DOMAIN c /\ m.state = c.state
    <3> DEFINE x == Checksum(r)
    <3>1. m = [r EXCEPT !.chk = x] OBVIOUS
    <3> HIDE DEF x, data, k, m
    <3>2. DOMAIN r = DOMAIN c /\ r.state = c.state
      BY <1>5, <2>3
    <3> HIDE DEF r
    <3> QED BY <3>1, <3>2, <1>5
  <2>5. "READ_ACK1" \in CardStates /\ "WRITE_DATA" \in CardStates
    BY DEF CardStates
  <2> HIDE DEF m, k, p
  <2>6. SameButCard(s, [s EXCEPT !.mc = m]) /\ SameButCard(s, [s EXCEPT !.mc = k])
    BY <2>3, <2>4, <1>4
  <2> QED BY <2>2, <2>5, <2>6, <1>2
<1>11. CASE c.state = "READ_LSB_ECHO"
  <2> DEFINE m == [c EXCEPT !.idx = 0]
  <2>1. DOMAIN m = DOMAIN c /\ m.state = c.state
    BY <1>5
  <2>2. p = CardStep([s EXCEPT !.mc = m], "READ_DATA", c.lsb)
    BY <1>11 DEF mc_process_byte, Fields
  <2>3. "READ_DATA" \in CardStates
    BY DEF CardStates
  <2> HIDE DEF m, p
  <2>4. SameButCard(s, [s EXCEPT !.mc = m])
    BY <2>1, <1>4
  <2> QED BY <2>2, <2>3, <2>4, <1>2
<1>12. CASE c.state = "READ_DATA"
  <2> DEFINE m == [c EXCEPT !.idx = @ + 1]
             next == IF full THEN "READ_CHK" ELSE "READ_DATA"
  <2>1. DOMAIN m = DOMAIN c /\ m.state = c.state
    BY <1>5
  <2>2. p = CardStep([s EXCEPT !.mc = m], next, c.data[c.idx + 1])
    BY <1>12 DEF mc_process_byte, Fields
  <2>3. next \in CardStates
    BY DEF CardStates
  <2> HIDE DEF m, p, next
  <2>4. SameButCard(s, [s EXCEPT !.mc = m])
    BY <2>1, <1>4
  <2> QED BY <2>2, <2>3, <2>4, <1>2
<1>13. CASE c.state = "WRITE_DATA"
  <2> DEFINE n == [c EXCEPT !.data[c.idx + 1] = b]
             m == [n EXCEPT !.idx = @ + 1]
             next == IF full THEN "WRITE_CHK" ELSE "WRITE_DATA"
  <2>1. DOMAIN m = DOMAIN c /\ m.state = c.state
    BY <1>5
  <2>2. p = CardStep([s EXCEPT !.mc = m], next, 0)
    <3>1. p = CardStep([s EXCEPT !.mc.data[c.idx + 1] = b, !.mc.idx = @ + 1], next, 0)
      BY <1>13 DEF mc_process_byte
    <3>2. [s EXCEPT !.mc.data[c.idx + 1] = b, !.mc.idx = @ + 1] = [s EXCEPT !.mc = m]
      BY DEF Fields
    <3> QED BY <3>1, <3>2
  <2>3. next \in CardStates
    BY DEF CardStates
  <2> HIDE DEF m, p, next
  <2>4. SameButCard(s, [s EXCEPT !.mc = m])
    BY <2>1, <1>4
  <2> QED BY <2>2, <2>3, <2>4, <1>2
<1>14. CASE c.state = "WRITE_CHK"
  <2> DEFINE verdict == IF Accepts(c, b) THEN GOOD
                        ELSE IF Sector(c) >= Sectors THEN HIGH ELSE NOTGOOD
             w == IF Accepts(c, b)
                  THEN {[slot |-> s.mcslot, sector |-> Sector(c), data |-> c.data]}
                  ELSE {}
             u == [s EXCEPT !.mc.chk = verdict, !.write = w]
  <2>1. p = CardStep(u, "WRITE_ACK1", 0)
    BY <1>14 DEF mc_process_byte, mc_checked
  <2> HIDE DEF verdict, w
  <2>2. SameBus(s, u) /\ u.dev = s.dev /\ u.slot = s.slot /\ u.mcslot = s.mcslot
        /\ u.pad = s.pad /\ u.saved = s.saved /\ u.mc = [s.mc EXCEPT !.chk = verdict]
    BY DEF SameBus, Fields
  <2>3. CardShape([s.mc EXCEPT !.chk = verdict])
    BY <1>1 DEF CardShape
  <2> HIDE DEF u
  <2>4. SameButCard(s, u)
    BY <2>2, <2>3, <1>14 DEF SameButCard, DeviceShape
  <2>5. "WRITE_ACK1" \in CardStates
    BY DEF CardStates
  <2> HIDE DEF p
  <2> QED BY <2>1, <2>4, <2>5, <1>2
<1>15. CASE c.state = "WRITE_END"
  <2> DEFINE m == [c EXCEPT !.flag = 0]
  <2>1. DOMAIN m = DOMAIN c /\ m.state = c.state
    BY <1>5
  <2>2. p = CardStep([s EXCEPT !.mc = m], "IDLE", c.chk)
    BY <1>15 DEF mc_process_byte, Fields
  <2>3. "IDLE" \in CardStates
    BY DEF CardStates
  <2> HIDE DEF m, p
  <2>4. SameButCard(s, [s EXCEPT !.mc = m])
    BY <2>1, <1>4
  <2> QED BY <2>2, <2>3, <2>4, <1>2
<1> HIDE DEF p
<1> QED BY <1>1, <1>6, <1>7, <1>8, <1>9, <1>10, <1>11, <1>12, <1>13, <1>14, <1>15
        DEF CardStates
LEMMA TookFrom ==
    ASSUME NEW s, NEW u, NEW t, SameBus(s, u), Took(u, t)
    PROVE  Took(s, t)
BY Zenon DEF SameBus, Took

\* A byte, whichever device it reaches.
LEMMA ByteTook ==
    ASSUME NEW s, DOMAIN s = Fields, DeviceShape(s), NEW b
    PROVE  Took(s, sio_process_byte(s, b)) /\ DeviceShape(sio_process_byte(s, b))
<1> DEFINE p == sio_process_byte(s, b)
           a == Aimed(s)
           loaded == mc_load_slot(a)
           parked == IF s.mc.state = "IDLE" THEN a ELSE mc_save_slot(a)
           gone == [a EXCEPT !.dev = "none"]
           asPad == [parked EXCEPT !.dev = "pad"]
           asCard == [loaded EXCEPT !.mc.state = "IDLE", !.dev = "card", !.mcslot = a.slot]
           goesOn == [loaded EXCEPT !.dev = "card"]
           idle == [loaded EXCEPT !.mc.state = "IDLE"]
           turned == [gone EXCEPT !.dev = "pad"]
<1> SUFFICES Took(s, p) /\ DeviceShape(p)
  OBVIOUS
<1>1. s.dev \in {"none", "pad", "card"}
  BY DEF DeviceShape
<1>2. /\ s.dev = "none" /\ b = PAD => p = pad_process_byte(asPad, b)
      /\ s.dev = "none" /\ b = CARD => p = mc_process_byte(asCard, b)
      /\ s.dev = "none" /\ b \notin {PAD, CARD} =>
            p = mc_process_byte(goesOn, b) \/ p = Nobody(idle)
      /\ s.dev = "pad" => p = pad_process_byte(s, b)
      /\ s.dev = "card" =>
            p = mc_process_byte(s, b) \/ p = pad_process_byte(turned, b) \/ p = Nobody(gone)
  <2> HIDE DEF a, asPad, asCard, goesOn, idle, turned, loaded, gone, parked
  <2>1. p = CASE s.dev = "none" /\ b = PAD -> pad_process_byte(asPad, b)
          [] s.dev = "none" /\ b = CARD -> mc_process_byte(asCard, b)
          [] s.dev = "none" /\ b \notin {PAD, CARD} ->
               IF loaded.mc.state # "IDLE" /\ a.slot = s.mcslot
               THEN mc_process_byte(goesOn, b)
               ELSE Nobody(idle)
          [] s.dev = "pad" -> pad_process_byte(s, b)
          [] s.dev = "card" ->
               IF s.mc.state # "IDLE" \/ b = CARD THEN mc_process_byte(s, b)
               ELSE IF b = PAD THEN pad_process_byte(turned, b)
               ELSE Nobody(gone)
    BY Zenon DEF sio_process_byte, a, asPad, asCard, goesOn, idle, turned, loaded, gone, parked
  <2> HIDE DEF p
  <2> QED BY <2>1 DEF PAD, CARD
<1>3. SameBus(s, s)
  BY DEF SameBus
<1>4. SameBus(s, a) /\ DOMAIN a = Fields /\ DeviceShape(a) /\ a.slot \in Slots /\ a.mc = s.mc
  BY DEF SameBus, Aimed, Fields, DeviceShape, Slots
<1> HIDE DEF p, a
<1>5. SameBus(s, loaded) /\ DOMAIN loaded = Fields /\ DeviceShape(loaded)
  BY <1>4 DEF SameBus, mc_load_slot, Fields, DeviceShape
<1>6. SameBus(s, parked) /\ DOMAIN parked = Fields /\ DeviceShape(parked)
  <2> DEFINE sv == mc_save_slot(a)
  <2>1. CardShape([a.mc EXCEPT !.state = "IDLE"])
    BY <1>4 DEF DeviceShape, CardShape, CardStates
  <2>2. /\ SameBus(a, sv) /\ DOMAIN sv = Fields /\ sv.dev = a.dev /\ sv.slot = a.slot
        /\ sv.mcslot = a.mcslot /\ sv.pad = a.pad /\ sv.mc = [a.mc EXCEPT !.state = "IDLE"]
        /\ sv.saved = [a.saved EXCEPT ![a.mcslot] = a.mc]
    BY <1>4 DEF mc_save_slot, Fields, SameBus
  <2> HIDE DEF sv
  <2>3. DeviceShape(sv)
    BY <1>4, <2>1, <2>2 DEF DeviceShape
  <2>4. SameBus(s, sv)
    BY <1>4, <2>2 DEF SameBus
  <2> QED BY <1>4, <2>2, <2>3, <2>4 DEF sv
<1> HIDE DEF loaded, parked
<1>7. SameBus(s, gone) /\ DOMAIN gone = Fields /\ DeviceShape(gone)
  BY <1>4 DEF SameBus, Fields, DeviceShape
<1> HIDE DEF gone
<1>8. SameBus(s, asPad) /\ DeviceShape(asPad)
  BY <1>6 DEF SameBus, Fields, DeviceShape
<1>9. SameBus(s, turned) /\ DeviceShape(turned)
  BY <1>7 DEF SameBus, Fields, DeviceShape
<1>10. SameBus(s, goesOn) /\ DeviceShape(goesOn) /\ DOMAIN goesOn = Fields
  BY <1>5 DEF SameBus, Fields, DeviceShape
<1>11. CardShape([loaded.mc EXCEPT !.state = "IDLE"])
  BY <1>5 DEF DeviceShape, CardShape, CardStates
<1>12. SameBus(s, idle) /\ DeviceShape(idle) /\ DOMAIN idle = Fields
  <2>1. /\ SameBus(loaded, idle) /\ idle.dev = loaded.dev /\ idle.slot = loaded.slot
        /\ idle.mcslot = loaded.mcslot /\ idle.pad = loaded.pad /\ idle.saved = loaded.saved
        /\ idle.mc = [loaded.mc EXCEPT !.state = "IDLE"]
    BY <1>5 DEF SameBus, Fields
  <2> HIDE DEF idle
  <2> QED BY <2>1, <1>5, <1>11 DEF SameBus, DeviceShape
<1>13. SameBus(s, asCard) /\ DeviceShape(asCard) /\ DOMAIN asCard = Fields
  <2>1. /\ SameBus(loaded, asCard) /\ asCard.dev = "card" /\ asCard.slot = loaded.slot
        /\ asCard.mcslot = a.slot /\ asCard.pad = loaded.pad /\ asCard.saved = loaded.saved
        /\ asCard.mc = [loaded.mc EXCEPT !.state = "IDLE"]
    BY <1>5 DEF SameBus, Fields
  <2> HIDE DEF asCard
  <2> QED BY <2>1, <1>4, <1>5, <1>11 DEF SameBus, DeviceShape
<1> HIDE DEF asPad, turned, goesOn, idle, asCard
<1>14. ASSUME NEW u, SameBus(s, u), DeviceShape(u), p = mc_process_byte(u, b)
       PROVE  Took(s, p) /\ DeviceShape(p)
  <2>1. DOMAIN u = Fields BY <1>14 DEF SameBus
  <2>2. Took(u, p) /\ DeviceShape(p) BY <2>1, <1>14, CardTook
  <2> QED BY <2>2, <1>14, TookFrom
<1>15. ASSUME NEW u, SameBus(s, u), DeviceShape(u), p = Nobody(u)
       PROVE  Took(s, p) /\ DeviceShape(p)
  <2>1. Took(s, p) /\ SameDevices(u, p)
    BY <1>15, NobodyTook
  <2> QED BY <2>1, <1>15 DEF DeviceShape, SameDevices
<1>16. ASSUME NEW u, SameBus(s, u), DeviceShape(u), p = pad_process_byte(u, b)
       PROVE  Took(s, p) /\ DeviceShape(p)
  BY <1>16, PadTook
<1>17. CASE s.dev = "none"
  BY <1>17, <1>2, <1>8, <1>10, <1>12, <1>13, <1>14, <1>15, <1>16
<1>18. CASE s.dev = "pad"
  BY <1>18, <1>2, <1>3, <1>16
<1>19. CASE s.dev = "card"
  BY <1>19, <1>2, <1>3, <1>7, <1>9, <1>14, <1>15, <1>16
<1> QED BY <1>1, <1>17, <1>18, <1>19
\* Once a device is chosen, or by the first byte of a driver, no parked machine is
\* touched, and no sector is written outside MC_WRITE_CHK.
LEMMA ByteBeside ==
    ASSUME NEW s, DOMAIN s = Fields, DeviceShape(s), NEW b,
           s.dev = "none" => s.mc.state = "IDLE" /\ b \in {PAD, CARD}
    PROVE  LET t == sio_process_byte(s, b)
           IN  /\ t.saved = s.saved
               /\ t.dev = "none" => t.mc.state = "IDLE"
               /\ s.dev = "pad" \/ (s.dev = "none" /\ b = PAD) => t.dev = "pad"
               /\ ~ (s.dev = "card" /\ s.mc.state = "WRITE_CHK") => t.write = s.write
<1> DEFINE p == sio_process_byte(s, b)
           a == Aimed(s)
           loaded == mc_load_slot(a)
           gone == [a EXCEPT !.dev = "none"]
           asPad == [a EXCEPT !.dev = "pad"]
           asCard == [loaded EXCEPT !.mc.state = "IDLE", !.dev = "card", !.mcslot = a.slot]
           turned == [gone EXCEPT !.dev = "pad"]
<1> SUFFICES /\ p.saved = s.saved
             /\ p.dev = "none" => p.mc.state = "IDLE"
             /\ s.dev = "pad" \/ (s.dev = "none" /\ b = PAD) => p.dev = "pad"
             /\ ~ (s.dev = "card" /\ s.mc.state = "WRITE_CHK") => p.write = s.write
  OBVIOUS
<1>1. s.dev \in {"none", "pad", "card"}
  BY DEF DeviceShape
<1>2. /\ s.dev = "none" /\ b = PAD => p = pad_process_byte(asPad, b)
      /\ s.dev = "none" /\ b = CARD => p = mc_process_byte(asCard, b)
      /\ s.dev = "pad" => p = pad_process_byte(s, b)
      /\ s.dev = "card" =>
            \/ p = mc_process_byte(s, b)
            \/ s.mc.state = "IDLE" /\ (p = pad_process_byte(turned, b) \/ p = Nobody(gone))
  <2> HIDE DEF a, asPad, asCard, turned, loaded, gone
  <2>1. p = CASE s.dev = "none" /\ b = PAD ->
               pad_process_byte([(IF s.mc.state = "IDLE" THEN a ELSE mc_save_slot(a))
                                    EXCEPT !.dev = "pad"], b)
          [] s.dev = "none" /\ b = CARD -> mc_process_byte(asCard, b)
          [] s.dev = "none" /\ b \notin {PAD, CARD} ->
               IF loaded.mc.state # "IDLE" /\ a.slot = s.mcslot
               THEN mc_process_byte([loaded EXCEPT !.dev = "card"], b)
               ELSE Nobody([loaded EXCEPT !.mc.state = "IDLE"])
          [] s.dev = "pad" -> pad_process_byte(s, b)
          [] s.dev = "card" ->
               IF s.mc.state # "IDLE" \/ b = CARD THEN mc_process_byte(s, b)
               ELSE IF b = PAD THEN pad_process_byte(turned, b)
               ELSE Nobody(gone)
    BY Zenon DEF sio_process_byte, a, asPad, asCard, turned, loaded, gone
  <2> HIDE DEF p
  <2>2. s.dev = "none" /\ b = PAD =>
          p = pad_process_byte([(IF s.mc.state = "IDLE" THEN a ELSE mc_save_slot(a))
                                    EXCEPT !.dev = "pad"], b)
    BY <2>1 DEF PAD, CARD
  <2>3. s.dev = "none" => (IF s.mc.state = "IDLE" THEN a ELSE mc_save_slot(a)) = a
    OBVIOUS
  <2>4. s.dev = "none" /\ b = PAD => p = pad_process_byte(asPad, b)
    BY <2>2, <2>3 DEF asPad
  <2> QED BY <2>1, <2>4 DEF PAD, CARD
<1>3. /\ DOMAIN a = Fields /\ DeviceShape(a) /\ a.slot \in Slots /\ a.mc = s.mc /\ SameBus(s, a)
      /\ a.saved = s.saved /\ a.write = s.write /\ a.dev = s.dev
  BY DEF SameBus, Aimed, Fields, DeviceShape, Slots
<1> HIDE DEF p, a
<1>4. /\ DOMAIN loaded = Fields /\ DeviceShape(loaded) /\ SameBus(s, loaded)
      /\ loaded.saved = s.saved /\ loaded.write = s.write
  BY <1>3 DEF mc_load_slot, SameBus, Fields, DeviceShape
<1> HIDE DEF loaded
<1>5. /\ SameBus(s, gone) /\ DOMAIN gone = Fields /\ DeviceShape(gone) /\ gone.mc = s.mc
      /\ gone.saved = s.saved /\ gone.write = s.write /\ gone.dev = "none"
  BY <1>3 DEF SameBus, Fields, DeviceShape
<1> HIDE DEF gone
<1>6. /\ SameBus(s, asPad) /\ DeviceShape(asPad) /\ asPad.dev = "pad"
      /\ asPad.saved = s.saved /\ asPad.write = s.write
  BY <1>3 DEF SameBus, Fields, DeviceShape
<1>7. /\ SameBus(s, turned) /\ DeviceShape(turned) /\ turned.dev = "pad"
      /\ turned.saved = s.saved /\ turned.write = s.write
  BY <1>5 DEF SameBus, Fields, DeviceShape
<1>8. /\ DeviceShape(asCard) /\ DOMAIN asCard = Fields /\ asCard.dev = "card"
      /\ asCard.saved = s.saved /\ asCard.write = s.write /\ asCard.mc.state = "IDLE"
  <2>1. CardShape([loaded.mc EXCEPT !.state = "IDLE"])
    BY <1>4 DEF DeviceShape, CardShape, CardStates
  <2>2. /\ DOMAIN asCard = Fields /\ asCard.dev = "card" /\ asCard.slot = loaded.slot
        /\ asCard.mcslot = a.slot /\ asCard.pad = loaded.pad /\ asCard.saved = loaded.saved
        /\ asCard.mc = [loaded.mc EXCEPT !.state = "IDLE"] /\ asCard.write = loaded.write
    BY <1>4 DEF SameBus, Fields
  <2>3. asCard.mc.state = "IDLE"
    BY <2>2, <1>4 DEF DeviceShape, CardShape
  <2> HIDE DEF asCard
  <2> QED BY <2>1, <2>2, <2>3, <1>3, <1>4 DEF DeviceShape
<1> HIDE DEF asPad, turned, asCard
<1>9. CASE s.dev = "none" /\ b = PAD
  <2>1. NoCardTouched(asPad, p)
    BY <1>9, <1>2, <1>6, PadTook
  <2> QED BY <2>1, <1>6 DEF NoCardTouched
<1>10. CASE s.dev = "none" /\ b = CARD
  <2>1. Beside(asCard, p)
    BY <1>10, <1>2, <1>8, CardTook
  <2> QED BY <2>1, <1>8, <1>10 DEF Beside, PAD, CARD
<1>11. CASE s.dev = "pad"
  <2>1. SameBus(s, s)
    BY DEF SameBus
  <2>2. NoCardTouched(s, p)
    BY <2>1, <1>11, <1>2, PadTook
  <2> QED BY <2>2, <1>11 DEF NoCardTouched
<1>12. CASE s.dev = "card"
  <2>1. CASE p = mc_process_byte(s, b)
    <3>1. Beside(s, p)
      BY <2>1, CardTook
    <3> QED BY <3>1, <1>12 DEF Beside
  <2>2. CASE p = pad_process_byte(turned, b)
    <3>1. NoCardTouched(turned, p)
      BY <2>2, <1>7, PadTook
    <3> QED BY <3>1, <1>7 DEF NoCardTouched
  <2>3. CASE s.mc.state = "IDLE" /\ p = Nobody(gone)
    <3>1. SameDevices(gone, p)
      BY <2>3, <1>5, NobodyTook
    <3> QED BY <3>1, <2>3, <1>5, <1>12 DEF SameDevices
  <2> QED BY <1>12, <1>2, <2>1, <2>2, <2>3
<1> QED BY <1>1, <1>9, <1>10, <1>11, <1>12

----------------------------------------------------------------------------
(* The shifter. A transfer is at rest between two bytes; while one is on    *)
(* its way no acknowledge is, and no ACK bit is left that could be taken    *)
(* for the device's.                                                        *)

AtRest(s) == ~ s.shift.on /\ ~ s.buf.on /\ ~ s.ack.on
Waits(s) ==
    /\ ~ s.buf.on
    /\ s.shift.on => ~ s.ack.on /\ ~ s.irq /\ "ACK" \notin s.stat
    /\ s.ack.on => s.heard /\ ~ s.irq

\* What the passing of time keeps.
Kept(s, t) ==
    /\ Shape(t) /\ t.ctrl = s.ctrl
    /\ Waits(s) => Waits(t)
    /\ AtRest(s) => AtRest(t) /\ t.irq = s.irq /\ t.stat = s.stat

LEMMA KeptTwice ==
    ASSUME NEW s, NEW t, NEW u, Kept(s, t), Kept(t, u)
    PROVE  Kept(s, u)
BY Zenon DEF Kept

LEMMA RestSame ==
    ASSUME NEW s, DOMAIN s = Fields
    PROVE  SameBus(s, Rest(s)) /\ SameDevices(s, Rest(s)) /\ Rest(s).heard = s.heard
BY DEF Rest, SameBus, SameDevices, Fields

LEMMA ShapeSame ==
    ASSUME NEW s, NEW t, Shape(s), SameBus(s, t), SameDevices(s, t)
    PROVE  Shape(t)
BY DEF Shape, BusShape, DeviceShape, SameBus, SameDevices

LEMMA TimersShaped ==
    /\ DOMAIN Quiet = TimerFields /\ ~ Quiet.on
    /\ \A b, n, e : DOMAIN Arm(b, n, e) = TimerFields /\ Arm(b, n, e).on
BY DEF Quiet, Arm, TimerFields

LEMMA FireKeeps ==
    ASSUME NEW s, Shape(s), s.ack.on
    PROVE  Kept(s, sio_fire_ack_irq(s))
<1> DEFINE u == [s EXCEPT !.ack = Quiet, !.stat = @ \cup {"ACK"}, !.visible = 2]
           v == [u EXCEPT !.stat = @ \cup {"IRQ"}, !.irq = TRUE]
           t == sio_fire_ack_irq(s)
<1>1. DOMAIN s = Fields
  BY DEF Shape, BusShape
<1>2. /\ DOMAIN u = Fields /\ u.shift = s.shift /\ u.buf = s.buf /\ u.ctrl = s.ctrl
      /\ u.ack = Quiet /\ SameDevices(s, u)
  BY <1>1 DEF Fields, SameDevices
<1>3. t = u \/ t = Rest(v)
  BY DEF sio_fire_ack_irq
<1> HIDE DEF u, t
<1>4. /\ DOMAIN v = Fields /\ v.shift = u.shift /\ v.buf = u.buf /\ v.ctrl = u.ctrl
      /\ v.ack = u.ack /\ SameDevices(u, v)
  BY <1>2 DEF Fields, SameDevices
<1> HIDE DEF v
<1>5. SameBus(v, Rest(v)) /\ SameDevices(v, Rest(v))
  BY <1>4, RestSame
<1>6. /\ DOMAIN t = Fields /\ t.shift = s.shift /\ t.buf = s.buf /\ t.ctrl = s.ctrl
      /\ t.ack = Quiet /\ SameDevices(s, t)
  BY <1>2, <1>3, <1>4, <1>5 DEF SameBus, SameDevices
<1>7. Shape(t)
  BY <1>6, TimersShaped DEF Shape, BusShape, DeviceShape, SameDevices
<1>8. ~ AtRest(s)
  BY DEF AtRest
<1>9. Waits(s) => Waits(t)
  BY <1>6, TimersShaped DEF Waits
<1> QED BY <1>6, <1>7, <1>8, <1>9 DEF Kept, t

LEMMA ShiftKeeps ==
    ASSUME NEW s, Shape(s), s.shift.on
    PROVE  Kept(s, sio_handle_shift_complete(s))
<1> DEFINE d == sio_process_byte(s, s.shift.byte)
           armed == IF "ACK" \in d.stat THEN Arm(0, Ack, s.shift.irq) ELSE d.ack
           u == [d EXCEPT !.stat = (@ \ {"ACK"}) \cup {"RX_RDY"}, !.ack = armed]
           v == [u EXCEPT !.shift = Arm(s.buf.byte, Baud, s.buf.irq), !.buf = Quiet,
                          !.stat = @ \cup {"TX_EMPTY"}, !.fresh = FALSE]
           w == [u EXCEPT !.shift = Quiet, !.stat = @ \cup Idle]
           t == sio_handle_shift_complete(s)
<1>1. DOMAIN s = Fields /\ DeviceShape(s)
  BY DEF Shape, BusShape
<1>2. Took(s, d) /\ DeviceShape(d)
  BY <1>1, ByteTook
<1>3. t = IF s.buf.on THEN v ELSE Rest(w)
  BY Zenon DEF sio_handle_shift_complete
<1> HIDE DEF d, t, armed
<1>4. /\ DOMAIN u = Fields /\ SameDevices(d, u) /\ u.shift = s.shift /\ u.buf = s.buf
      /\ u.ack = armed /\ u.ctrl = s.ctrl /\ u.irq = s.irq /\ u.heard = d.heard
  BY <1>2 DEF Fields, Took, SameDevices
<1> HIDE DEF u
<1>5. /\ DOMAIN v = Fields /\ SameDevices(u, v) /\ v.buf = Quiet /\ v.ack = u.ack
      /\ v.shift = Arm(s.buf.byte, Baud, s.buf.irq) /\ v.ctrl = u.ctrl
  BY <1>4 DEF Fields, SameDevices
<1>6. /\ DOMAIN w = Fields /\ SameDevices(u, w) /\ w.shift = Quiet /\ w.buf = u.buf
      /\ w.ack = u.ack /\ w.ctrl = u.ctrl /\ w.irq = u.irq /\ w.heard = u.heard
  BY <1>4 DEF Fields, SameDevices
<1> HIDE DEF v, w
<1>7. SameBus(w, Rest(w)) /\ SameDevices(w, Rest(w)) /\ Rest(w).heard = w.heard
  BY <1>6, RestSame
<1>8. DOMAIN armed = TimerFields
  BY <1>2, TimersShaped DEF armed, Took, Shape, BusShape
<1>9. Shape(t) /\ t.ctrl = s.ctrl
  <2>1. CASE s.buf.on
    <3>1. t = v BY <2>1, <1>3
    <3>2. DeviceShape(v)
      BY <1>2, <1>4, <1>5 DEF DeviceShape, SameDevices
    <3>3. BusShape(v)
      BY <1>4, <1>5, <1>8, TimersShaped DEF BusShape
    <3> QED BY <3>1, <3>2, <3>3, <1>4, <1>5 DEF Shape
  <2>2. CASE ~ s.buf.on
    <3>1. t = Rest(w) BY <2>2, <1>3
    <3>2. DeviceShape(w)
      BY <1>2, <1>4, <1>6 DEF DeviceShape, SameDevices
    <3>3. BusShape(w)
      BY <1>4, <1>6, <1>8, TimersShaped DEF BusShape, Shape
    <3>4. Shape(Rest(w))
      BY <3>2, <3>3, <1>7, ShapeSame DEF Shape
    <3> QED BY <3>1, <3>4, <1>4, <1>6, <1>7 DEF SameBus
  <2> QED BY <2>1, <2>2
<1>10. ASSUME Waits(s) PROVE Waits(t)
  <2>1. ~ s.buf.on /\ ~ s.ack.on /\ ~ s.irq /\ "ACK" \notin s.stat
    BY <1>10 DEF Waits
  <2>2. /\ t.shift = Quiet /\ t.buf = s.buf /\ t.ack = armed /\ t.irq = s.irq
        /\ t.heard = d.heard
    BY <2>1, <1>3, <1>4, <1>6, <1>7 DEF SameBus
  <2>3. armed.on => d.heard
    BY <2>1, <1>2 DEF armed, Took
  <2> QED BY <2>1, <2>2, <2>3, TimersShaped, Zenon DEF Waits
<1>11. ~ AtRest(s)
  BY DEF AtRest
<1> QED BY <1>9, <1>10, <1>11 DEF Kept, t

LEMMA ElapsedKeeps ==
    ASSUME NEW s, Shape(s), NEW dt
    PROVE  /\ Kept(s, Elapsed(s, dt))
           /\ Elapsed(s, dt).shift.on = s.shift.on /\ Elapsed(s, dt).ack.on = s.ack.on
<1> DEFINE t == Elapsed(s, dt)
           a == IF s.shift.on THEN s.shift.left - dt ELSE s.shift.left
           b == IF s.ack.on THEN s.ack.left - dt ELSE s.ack.left
<1>1. /\ DOMAIN s = Fields /\ DOMAIN s.shift = TimerFields /\ DOMAIN s.ack = TimerFields
  BY DEF Shape, BusShape
<1>2. t = [s EXCEPT !.shift.left = a, !.ack.left = b]
  BY <1>1 DEF Elapsed, Fields
<1> HIDE DEF a, b, t
<1>3. /\ DOMAIN t = Fields /\ SameDevices(s, t) /\ t.ctrl = s.ctrl /\ t.irq = s.irq
      /\ t.stat = s.stat /\ t.heard = s.heard /\ t.buf = s.buf
      /\ t.shift = [s.shift EXCEPT !.left = a] /\ t.ack = [s.ack EXCEPT !.left = b]
  BY <1>1, <1>2 DEF Fields, SameDevices
<1>4. /\ DOMAIN t.shift = TimerFields /\ DOMAIN t.ack = TimerFields
      /\ t.shift.on = s.shift.on /\ t.ack.on = s.ack.on
  BY <1>1, <1>3 DEF TimerFields
<1>5. Shape(t)
  BY <1>3, <1>4 DEF Shape, BusShape, DeviceShape, SameDevices
<1>6. Kept(s, t)
  BY <1>3, <1>4, <1>5 DEF Kept, Waits, AtRest
<1> QED BY <1>4, <1>6 DEF t

LEMMA EventIsArmed ==
    ASSUME NEW s, NEW n
    PROVE  /\ NextEvent(s, n).is \in {"shift", "ack", "nothing"}
           /\ NextEvent(s, n).is = "shift" => s.shift.on
           /\ NextEvent(s, n).is = "ack" => s.ack.on
BY DEF NextEvent

LEMMA TurnKeeps ==
    ASSUME NEW x, Shape(x.s)
    PROVE  Kept(x.s, Turn(x).s)
<1> DEFINE e == NextEvent(x.s, x.n)
           t == Elapsed(x.s, e.dt)
           r == CASE e.is = "shift" -> sio_handle_shift_complete(t)
                  [] e.is = "ack" -> sio_fire_ack_irq(t)
                  [] e.is = "nothing" -> t
<1>1. Kept(x.s, t) /\ t.shift.on = x.s.shift.on /\ t.ack.on = x.s.ack.on
  BY ElapsedKeeps
<1>2. /\ e.is \in {"shift", "ack", "nothing"}
      /\ e.is = "shift" => x.s.shift.on
      /\ e.is = "ack" => x.s.ack.on
  BY EventIsArmed
<1>3. Turn(x).s = IF x.n <= 0 THEN x.s ELSE r
  <2>1. Turn(x) = IF x.n <= 0 THEN x ELSE [s |-> r, n |-> x.n - e.dt]
    BY Zenon DEF Turn
  <2> HIDE DEF r, e
  <2> QED BY <2>1
<1> HIDE DEF e, t
<1>4. Shape(t)
  BY <1>1 DEF Kept
<1>5. e.is = "shift" => Kept(t, sio_handle_shift_complete(t))
  BY <1>1, <1>2, <1>4, ShiftKeeps
<1>6. e.is = "ack" => Kept(t, sio_fire_ack_irq(t))
  BY <1>1, <1>2, <1>4, FireKeeps
<1>7. Kept(x.s, r)
  BY <1>1, <1>2, <1>5, <1>6, KeptTwice
<1> HIDE DEF r
<1>8. Kept(x.s, x.s)
  BY DEF Kept
<1> QED BY <1>3, <1>7, <1>8

\* sio_advance is MaxTransitions turns, one after the other.
IsTurns(r, s, n) ==
    /\ r[0] = [s |-> s, n |-> n]
    /\ \A i \in 1..MaxTransitions : r[i] = Turn(r[i - 1])

LEMMA AdvanceTurns ==
    ASSUME NEW s, NEW n, s.timing
    PROVE  \E r : IsTurns(r, s, n) /\ sio_advance(s, n) = r[MaxTransitions].s
<1> DEFINE y0 == [s |-> s, n |-> n]
           y1 == Turn(y0)
           y2 == Turn(y1)
           y3 == Turn(y2)
           y4 == Turn(y3)
           y5 == Turn(y4)
           y6 == Turn(y5)
           y7 == Turn(y6)
           y8 == Turn(y7)
           y(i) == CASE i = 0 -> y0 [] i = 1 -> y1 [] i = 2 -> y2 [] i = 3 -> y3 [] i = 4 -> y4
                     [] i = 5 -> y5 [] i = 6 -> y6 [] i = 7 -> y7 [] i = 8 -> y8
           g == [i \in 0..MaxTransitions |-> y(i)]
           Rec(f) == [i \in 0..MaxTransitions |-> IF i = 0 THEN y0 ELSE Turn(f[i - 1])]
           r == CHOOSE f : f = Rec(f)
<1>1. /\ y1 = Turn(y0) /\ y2 = Turn(y1) /\ y3 = Turn(y2) /\ y4 = Turn(y3) /\ y5 = Turn(y4)
      /\ y6 = Turn(y5) /\ y7 = Turn(y6) /\ y8 = Turn(y7)
  OBVIOUS
<1> HIDE DEF y0, y1, y2, y3, y4, y5, y6, y7, y8
<1>2. MaxTransitions = 8
  BY DEF MaxTransitions
<1>3. /\ y(0) = y0 /\ y(1) = y1 /\ y(2) = y2 /\ y(3) = y3 /\ y(4) = y4
      /\ y(5) = y5 /\ y(6) = y6 /\ y(7) = y7 /\ y(8) = y8
  OBVIOUS
<1> HIDE DEF y
<1>4. \A i \in 0..MaxTransitions : y(i) = IF i = 0 THEN y0 ELSE Turn(g[i - 1])
  <2> SUFFICES ASSUME NEW i \in 0..8
               PROVE  y(i) = IF i = 0 THEN y0 ELSE Turn(y(i - 1))
    BY <1>2
  <2>1. i \in {0, 1, 2, 3, 4, 5, 6, 7, 8}
    OBVIOUS
  <2> QED BY <2>1, <1>1, <1>3
<1>5. g = Rec(g)
  BY <1>4, Zenon
<1>6. r = Rec(r)
  BY <1>5, Zenon
<1>7. sio_advance(s, n) = r[MaxTransitions].s
  BY Zenon DEF sio_advance, y0
<1> HIDE DEF r
<1>8. r[0] = y0 /\ \A i \in 1..MaxTransitions : r[i] = Turn(r[i - 1])
  <2> DEFINE q == Rec(r)
  <2>1. q[0] = y0 /\ \A i \in 1..MaxTransitions : q[i] = Turn(r[i - 1])
    BY <1>2
  <2> HIDE DEF q
  <2>2. r = q
    BY <1>6 DEF q
  <2> QED BY <2>1, <2>2
<1> QED BY <1>7, <1>8, Zenon DEF IsTurns, y0

LEMMA AdvanceKeeps ==
    ASSUME NEW s, Shape(s), NEW n
    PROVE  Kept(s, sio_advance(s, n))
<1>1. Kept(s, s)
  BY DEF Kept
<1>2. CASE ~ s.timing
  BY <1>1, <1>2 DEF sio_advance
<1>3. CASE s.timing
  <2>1. PICK r : IsTurns(r, s, n) /\ sio_advance(s, n) = r[MaxTransitions].s
    BY <1>3, AdvanceTurns
  <2>2. r[0].s = s
    BY <2>1 DEF IsTurns
  <2>3. ASSUME NEW i \in 0..(MaxTransitions - 1), Kept(s, r[i].s)
        PROVE  Kept(s, r[i + 1].s)
    <3>1. r[i + 1] = Turn(r[i])
      BY <2>1 DEF IsTurns, MaxTransitions
    <3>2. Kept(r[i].s, Turn(r[i]).s)
      BY <2>3, TurnKeeps DEF Kept
    <3> QED BY <2>3, <3>1, <3>2, KeptTwice
  <2>4. Kept(s, r[8].s)
    <3>0. Kept(s, r[0].s) BY <1>1, <2>2
    <3>1. Kept(s, r[1].s) BY <3>0, <2>3 DEF MaxTransitions
    <3>2. Kept(s, r[2].s) BY <3>1, <2>3 DEF MaxTransitions
    <3>3. Kept(s, r[3].s) BY <3>2, <2>3 DEF MaxTransitions
    <3>4. Kept(s, r[4].s) BY <3>3, <2>3 DEF MaxTransitions
    <3>5. Kept(s, r[5].s) BY <3>4, <2>3 DEF MaxTransitions
    <3>6. Kept(s, r[6].s) BY <3>5, <2>3 DEF MaxTransitions
    <3>7. Kept(s, r[7].s) BY <3>6, <2>3 DEF MaxTransitions
    <3> QED BY <3>7, <2>3 DEF MaxTransitions
  <2> QED BY <2>1, <2>4 DEF MaxTransitions
<1> QED BY <1>2, <1>3

----------------------------------------------------------------------------
(* The registers.                                                           *)

LEMMA QuietBusRests ==
    ASSUME NEW s, DOMAIN s = Fields
    PROVE  LET t == QuietBus(s)
           IN  /\ DOMAIN t = Fields /\ SameDevices(s, t)
               /\ t.shift = Quiet /\ t.buf = Quiet /\ t.ack = Quiet
               /\ t.ctrl = s.ctrl /\ t.irq = s.irq /\ t.stat = s.stat /\ t.heard = s.heard
BY DEF QuietBus, Fields, SameDevices

LEMMA FreeBusRests ==
    ASSUME NEW s, DOMAIN s = Fields
    PROVE  LET t == FreeBus(s)
           IN  /\ DOMAIN t = Fields /\ SameDevices(s, t)
               /\ t.shift = Quiet /\ t.buf = Quiet /\ t.ack = Quiet
               /\ t.ctrl = s.ctrl /\ t.irq = s.irq /\ t.stat = s.stat /\ t.heard = s.heard
<1> DEFINE q == QuietBus(s)
<1>1. /\ DOMAIN q = Fields /\ SameDevices(s, q)
      /\ q.shift = Quiet /\ q.buf = Quiet /\ q.ack = Quiet
      /\ q.ctrl = s.ctrl /\ q.irq = s.irq /\ q.stat = s.stat /\ q.heard = s.heard
  BY QuietBusRests
<1>2. FreeBus(s) = [q EXCEPT !.owner = "none", !.fresh = TRUE]
  BY DEF FreeBus
<1> HIDE DEF q
<1> QED BY <1>1, <1>2 DEF Fields, SameDevices

\* A byte written to TX_DATA.
LEMMA TxPad ==
    ASSUME NEW s, Shape(s), NEW b
    PROVE  LET t == write_tx_pad(s, b)
           IN  /\ Shape(t) /\ t.ctrl = s.ctrl
               /\ AtRest(s) /\ ~ s.irq /\ "ACK" \notin s.stat => Waits(t)
<1> DEFINE q == QuietBus(s)
           u == [q EXCEPT !.owner = "pad", !.fresh = FALSE]
           d == sio_process_byte(u, b)
           v == [d EXCEPT !.stat = @ \ (Idle \cup {"ACK"}), !.ack = Arm(0, Baud + Ack, TRUE),
                          !.timing = TRUE]
           w == [d EXCEPT !.stat = @ \cup Idle]
           t == write_tx_pad(s, b)
<1>1. DOMAIN s = Fields /\ DeviceShape(s)
  BY DEF Shape, BusShape
<1>2. /\ DOMAIN q = Fields /\ SameDevices(s, q)
      /\ q.shift = Quiet /\ q.buf = Quiet /\ q.ack = Quiet
      /\ q.ctrl = s.ctrl /\ q.irq = s.irq /\ q.stat = s.stat
  BY <1>1, QuietBusRests
<1>3. (t = v /\ "ACK" \in d.stat) \/ t = w
  BY Zenon DEF write_tx_pad
<1> SUFFICES /\ Shape(t) /\ t.ctrl = s.ctrl
             /\ AtRest(s) /\ ~ s.irq /\ "ACK" \notin s.stat => Waits(t)
  OBVIOUS
<1> HIDE DEF q, t
<1>4. /\ DOMAIN u = Fields /\ SameDevices(s, u)
      /\ u.shift = Quiet /\ u.buf = Quiet /\ u.ack = Quiet
      /\ u.ctrl = s.ctrl /\ u.irq = s.irq /\ u.stat = s.stat
  BY <1>2 DEF Fields, SameDevices
<1> HIDE DEF u
<1>5. DeviceShape(u)
  BY <1>1, <1>4 DEF DeviceShape, SameDevices
<1>6. Took(u, d) /\ DeviceShape(d)
  BY <1>4, <1>5, ByteTook
<1> HIDE DEF d
<1>7. /\ DOMAIN v = Fields /\ SameDevices(d, v) /\ v.shift = Quiet /\ v.buf = Quiet
      /\ v.ack = Arm(0, Baud + Ack, TRUE) /\ v.ctrl = s.ctrl /\ v.irq = s.irq
      /\ v.heard = d.heard
  BY <1>4, <1>6 DEF Took, Fields, SameDevices
<1>8. /\ DOMAIN w = Fields /\ SameDevices(d, w) /\ w.shift = Quiet /\ w.buf = Quiet
      /\ w.ack = Quiet /\ w.ctrl = s.ctrl /\ w.irq = s.irq /\ w.heard = d.heard
  BY <1>4, <1>6 DEF Took, Fields, SameDevices
<1> HIDE DEF v, w
<1>9. Shape(v) /\ Shape(w)
  BY <1>6, <1>7, <1>8, TimersShaped DEF Shape, BusShape, DeviceShape, SameDevices
<1>10. Waits(w)
  BY <1>8, TimersShaped DEF Waits
<1>11. "ACK" \in d.stat /\ ~ s.irq /\ "ACK" \notin s.stat => Waits(v)
  BY <1>4, <1>6, <1>7, TimersShaped DEF Waits, Took
<1> QED BY <1>3, <1>7, <1>8, <1>9, <1>10, <1>11

LEMMA TxPaced ==
    ASSUME NEW s, Shape(s), NEW b
    PROVE  LET t == write_tx_paced(s, b)
           IN  /\ Shape(t) /\ t.ctrl = s.ctrl
               /\ AtRest(s) /\ ~ s.irq /\ "ACK" \notin s.stat => Waits(t)
<1> DEFINE o == IF s.fresh THEN BusOwner(b) ELSE s.owner
           u == [s EXCEPT !.fresh = FALSE, !.owner = o]
           v == [u EXCEPT !.shift = Arm(b, Baud, AckIrqEn(s)), !.stat = @ \ Idle,
                          !.timing = TRUE]
           w == [u EXCEPT !.buf = Arm(b, 0, AckIrqEn(s)), !.stat = @ \ {"TX_EMPTY"}]
           t == write_tx_paced(s, b)
<1>1. DOMAIN s = Fields /\ DeviceShape(s) /\ BusShape(s)
  BY DEF Shape, BusShape
<1>2. t = IF ~ s.shift.on THEN v ELSE IF ~ s.buf.on THEN w ELSE u
  BY <1>1 DEF write_tx_paced, Fields
<1> SUFFICES /\ Shape(t) /\ t.ctrl = s.ctrl
             /\ AtRest(s) /\ ~ s.irq /\ "ACK" \notin s.stat => Waits(t)
  OBVIOUS
<1> HIDE DEF o, t
<1>3. SameBus(s, u) /\ SameDevices(s, u) /\ DOMAIN u = Fields
  BY <1>1 DEF Fields, SameBus, SameDevices
<1> HIDE DEF u
<1>4. Shape(u)
  BY <1>3, ShapeSame
<1>5. /\ DOMAIN v = Fields /\ SameDevices(u, v) /\ v.shift = Arm(b, Baud, AckIrqEn(s))
      /\ v.buf = s.buf /\ v.ack = s.ack /\ v.ctrl = s.ctrl /\ v.irq = s.irq
      /\ v.stat = s.stat \ Idle
  BY <1>3 DEF Fields, SameBus, SameDevices
<1>6. /\ DOMAIN w = Fields /\ SameDevices(u, w) /\ w.buf = Arm(b, 0, AckIrqEn(s))
      /\ w.shift = s.shift /\ w.ack = s.ack /\ w.ctrl = s.ctrl
  BY <1>3 DEF Fields, SameBus, SameDevices
<1> HIDE DEF v, w
<1>7. Shape(v) /\ Shape(w)
  BY <1>1, <1>4, <1>5, <1>6, TimersShaped DEF Shape, BusShape, DeviceShape, SameDevices
<1>8. AtRest(s) /\ ~ s.irq /\ "ACK" \notin s.stat => Waits(v)
  BY <1>5 DEF Waits, AtRest
<1> QED BY <1>2, <1>3, <1>4, <1>5, <1>6, <1>7, <1>8 DEF AtRest, SameBus

LEMMA TxByte ==
    ASSUME NEW s, Shape(s), NEW b
    PROVE  LET t == write_tx(s, b)
           IN  /\ Shape(t) /\ t.ctrl = s.ctrl
               /\ AtRest(s) /\ ~ s.irq /\ "ACK" \notin s.stat => Waits(t)
<1>1. AtRest(s) => Waits(s)
  BY DEF AtRest, Waits
<1>2. write_tx(s, b) \in {s, write_tx_pad(s, b), write_tx_paced(s, b)}
  BY DEF write_tx
<1> QED BY <1>1, <1>2, TxPad, TxPaced
\* What every part of a write to CTRL keeps.
CtrlKept(s, t) ==
    /\ Shape(t) /\ t.irq = s.irq
    /\ AtRest(s) => AtRest(t)
    /\ Waits(s) => Waits(t)
    /\ "ACK" \in t.stat => "ACK" \in s.stat

LEMMA CtrlKeptTwice ==
    ASSUME NEW s, NEW t, NEW u, CtrlKept(s, t), CtrlKept(t, u)
    PROVE  CtrlKept(s, u)
BY Zenon DEF CtrlKept

LEMMA RestWaits ==
    ASSUME NEW s, AtRest(s)
    PROVE  Waits(s)
BY DEF AtRest, Waits

LEMMA NewShapes ==
    /\ PadShape(IdlePad) /\ CardShape(NewCard)
    /\ \A c : CardShape(Rewound(c))
    /\ \A c : CardShape(c) => CardShape([c EXCEPT !.state = "IDLE"])
<1>1. PadShape(IdlePad)
  BY DEF PadShape, IdlePad
<1>2. CardShape(NewCard)
  BY DEF CardShape, NewCard, CardStates
<1>3. ASSUME NEW c PROVE CardShape(Rewound(c))
  <2>1. /\ DOMAIN Rewound(c) = DOMAIN NewCard /\ Rewound(c).state = NewCard.state
    BY <1>2 DEF Rewound, CardShape
  <2> QED BY <2>1, <1>2 DEF CardShape
<1>4. ASSUME NEW c, CardShape(c) PROVE CardShape([c EXCEPT !.state = "IDLE"])
  BY <1>4 DEF CardShape, CardStates
<1> QED BY <1>1, <1>2, <1>3, <1>4

\* Both ways to end a transfer.
LEMMA HungUpRests ==
    ASSUME NEW s, Shape(s)
    PROVE  LET t == HungUp(FreeBus(s))
           IN  Shape(t) /\ AtRest(t) /\ t.irq = s.irq /\ t.stat = s.stat /\ t.ctrl = s.ctrl
               /\ t.saved = s.saved
<1> DEFINE f == FreeBus(s)
           t == HungUp(f)
<1>1. DOMAIN s = Fields
  BY DEF Shape, BusShape
<1>2. /\ DOMAIN f = Fields /\ SameDevices(s, f)
      /\ f.shift = Quiet /\ f.buf = Quiet /\ f.ack = Quiet
      /\ f.ctrl = s.ctrl /\ f.irq = s.irq /\ f.stat = s.stat
  BY <1>1, FreeBusRests
<1> SUFFICES /\ Shape(t) /\ AtRest(t) /\ t.irq = s.irq /\ t.stat = s.stat /\ t.ctrl = s.ctrl
             /\ t.saved = s.saved
  OBVIOUS
<1> HIDE DEF f
<1>3. /\ DOMAIN t = Fields /\ t.shift = Quiet /\ t.buf = Quiet /\ t.ack = Quiet
      /\ t.ctrl = s.ctrl /\ t.irq = s.irq /\ t.stat = s.stat
      /\ t.dev = "none" /\ t.mc = NewCard /\ t.mcslot = 0 /\ t.pad = IdlePad
      /\ t.slot = s.slot /\ t.saved = s.saved
  BY <1>2 DEF HungUp, Fields, SameDevices
<1> HIDE DEF t
<1>4. Shape(t)
  BY <1>3, TimersShaped, NewShapes DEF Shape, BusShape, DeviceShape, Slots
<1>5. AtRest(t)
  BY <1>3, TimersShaped DEF AtRest
<1> QED BY <1>3, <1>4, <1>5

LEMMA ResetRests ==
    ASSUME NEW s, Shape(s)
    PROVE  CtrlKept(s, CtrlReset(s)) /\ AtRest(CtrlReset(s)) /\ CtrlReset(s).ctrl = {}
<1> DEFINE h == HungUp(FreeBus(s))
           sv == [i \in Slots |-> [h.saved[i] EXCEPT !.state = "IDLE"]]
           t == CtrlReset(s)
<1>1. Shape(h) /\ AtRest(h) /\ h.irq = s.irq /\ h.saved = s.saved
  BY HungUpRests
<1>2. DOMAIN h = Fields
  BY <1>1 DEF Shape, BusShape
<1>3. t = [h EXCEPT !.stat = Idle, !.ctrl = {}, !.visible = 0, !.saved = sv]
  BY <1>2 DEF CtrlReset, Fields
<1>4. DOMAIN sv = Slots /\ \A i \in Slots : CardShape(sv[i])
  BY <1>1, NewShapes DEF Shape, DeviceShape
<1> HIDE DEF h, sv, t
<1>5. /\ DOMAIN t = Fields /\ t.shift = h.shift /\ t.buf = h.buf /\ t.ack = h.ack
      /\ t.irq = h.irq /\ t.stat = Idle /\ t.ctrl = {} /\ t.saved = sv
      /\ t.dev = h.dev /\ t.slot = h.slot /\ t.mcslot = h.mcslot /\ t.pad = h.pad
      /\ t.mc = h.mc
  BY <1>2, <1>3 DEF Fields
<1>6. Shape(t)
  BY <1>1, <1>4, <1>5 DEF Shape, BusShape, DeviceShape
<1>7. AtRest(t)
  BY <1>1, <1>5 DEF AtRest
<1>8. "ACK" \notin t.stat
  BY <1>5 DEF Idle
<1> QED BY <1>1, <1>5, <1>6, <1>7, <1>8, RestWaits DEF CtrlKept, t

LEMMA DeselectRests ==
    ASSUME NEW s, Shape(s)
    PROVE  CtrlKept(s, Deselected(s)) /\ AtRest(Deselected(s)) /\ Deselected(s).ctrl = s.ctrl
<1> DEFINE h == HungUp(FreeBus(s))
           flags == IF s.dev = "card" THEN [s.saved EXCEPT ![s.mcslot].flag = s.mc.flag]
                                      ELSE s.saved
           sv == [i \in Slots |-> Rewound(flags[i])]
           t == Deselected(s)
<1>1. Shape(h) /\ AtRest(h) /\ h.irq = s.irq /\ h.stat = s.stat /\ h.ctrl = s.ctrl
  BY HungUpRests
<1>2. DOMAIN h = Fields
  BY <1>1 DEF Shape, BusShape
<1>3. t = [h EXCEPT !.saved = sv, !.stat = @ \cup Idle]
  BY Zenon DEF Deselected
<1> HIDE DEF flags
<1>4. DOMAIN sv = Slots /\ \A i \in Slots : CardShape(sv[i])
  BY NewShapes
<1> HIDE DEF h, sv, t
<1>5. /\ DOMAIN t = Fields /\ t.shift = h.shift /\ t.buf = h.buf /\ t.ack = h.ack
      /\ t.irq = h.irq /\ t.stat = h.stat \cup Idle /\ t.ctrl = h.ctrl /\ t.saved = sv
      /\ t.dev = h.dev /\ t.slot = h.slot /\ t.mcslot = h.mcslot /\ t.pad = h.pad
      /\ t.mc = h.mc
  BY <1>2, <1>3 DEF Fields
<1>6. Shape(t)
  BY <1>1, <1>4, <1>5 DEF Shape, BusShape, DeviceShape
<1>7. AtRest(t)
  BY <1>1, <1>5 DEF AtRest
<1>8. "ACK" \in t.stat => "ACK" \in s.stat
  BY <1>1, <1>5 DEF Idle
<1> QED BY <1>1, <1>5, <1>6, <1>7, <1>8, RestWaits DEF CtrlKept, t

LEMMA TxDisabledKeeps ==
    ASSUME NEW s, Shape(s), NEW v
    PROVE  CtrlKept(s, TxDisabled(s, v)) /\ TxDisabled(s, v).ctrl = s.ctrl
<1>1. DOMAIN s = Fields
  BY DEF Shape, BusShape
<1>2. CtrlKept(s, s)
  BY DEF CtrlKept
<1>3. ASSUME NEW f, NEW t, DOMAIN f = Fields, SameDevices(s, f),
             f.shift = Quiet, f.buf = Quiet, f.ack = Quiet,
             f.ctrl = s.ctrl, f.irq = s.irq, f.stat = s.stat,
             t = [f EXCEPT !.stat = @ \cup Idle]
      PROVE  CtrlKept(s, t) /\ t.ctrl = s.ctrl
  <2>1. /\ DOMAIN t = Fields /\ SameDevices(s, t) /\ t.shift = Quiet /\ t.buf = Quiet
        /\ t.ack = Quiet /\ t.ctrl = s.ctrl /\ t.irq = s.irq /\ t.stat = s.stat \cup Idle
    BY <1>3 DEF Fields, SameDevices
  <2>2. Shape(t)
    BY <2>1, TimersShaped DEF Shape, BusShape, DeviceShape, SameDevices
  <2>3. AtRest(t)
    BY <2>1, TimersShaped DEF AtRest
  <2>4. "ACK" \in t.stat => "ACK" \in s.stat
    BY <2>1 DEF Idle
  <2> QED BY <2>1, <2>2, <2>3, <2>4, RestWaits DEF CtrlKept
<1> DEFINE q == QuietBus(s)
           f == FreeBus(s)
           t == TxDisabled(s, v)
<1> SUFFICES CtrlKept(s, t) /\ t.ctrl = s.ctrl
  OBVIOUS
<1>4. t = s \/ t = [q EXCEPT !.stat = @ \cup Idle] \/ t = [f EXCEPT !.stat = @ \cup Idle]
  BY Zenon DEF TxDisabled
<1>5. /\ DOMAIN q = Fields /\ SameDevices(s, q)
      /\ q.shift = Quiet /\ q.buf = Quiet /\ q.ack = Quiet
      /\ q.ctrl = s.ctrl /\ q.irq = s.irq /\ q.stat = s.stat
  BY <1>1, QuietBusRests
<1>6. /\ DOMAIN f = Fields /\ SameDevices(s, f)
      /\ f.shift = Quiet /\ f.buf = Quiet /\ f.ack = Quiet
      /\ f.ctrl = s.ctrl /\ f.irq = s.irq /\ f.stat = s.stat
  BY <1>1, FreeBusRests
<1> HIDE DEF q, f, t
<1>7. CASE t = s
  BY <1>7, <1>2
<1>8. CASE t = [q EXCEPT !.stat = @ \cup Idle]
  BY <1>8, <1>3, <1>5
<1>9. CASE t = [f EXCEPT !.stat = @ \cup Idle]
  BY <1>9, <1>3, <1>6
<1> QED BY <1>4, <1>7, <1>8, <1>9

\* The whole write.
LEMMA CtrlWrite ==
    ASSUME NEW s, Shape(s), NEW v
    PROVE  LET t == write_ctrl(s, v)
           IN  /\ CtrlKept(s, t)
               /\ "ACK" \in v => "ACK" \notin t.stat
               /\ "SELECT" \in s.ctrl /\ "SELECT" \notin v => AtRest(t)
               /\ "SELECT" \in v /\ "RESET" \notin v => "SELECT" \in t.ctrl
               /\ "RESET" \notin t.ctrl
<1> DEFINE s1 == [s EXCEPT !.ctrl = v \ {"ACK", "RESET"}]
           s2 == IF "ACK" \in v THEN CtrlAck(s1) ELSE s1
           s3 == IF "RESET" \in v THEN CtrlReset(s2) ELSE s2
           s4 == IF "SELECT" \in v \ s.ctrl
                 THEN [s3 EXCEPT !.owner = "none", !.fresh = TRUE] ELSE s3
           s5 == IF "TX_EN" \in s.ctrl /\ "TX_EN" \notin v THEN TxDisabled(s4, v) ELSE s4
           t == write_ctrl(s, v)
<1>1. t = IF "SELECT" \in s.ctrl /\ "SELECT" \notin v THEN Deselected(s5) ELSE s5
  BY Zenon DEF write_ctrl
<1> SUFFICES /\ CtrlKept(s, t)
             /\ "ACK" \in v => "ACK" \notin t.stat
             /\ "SELECT" \in s.ctrl /\ "SELECT" \notin v => AtRest(t)
             /\ "SELECT" \in v /\ "RESET" \notin v => "SELECT" \in t.ctrl
             /\ "RESET" \notin t.ctrl
  OBVIOUS
<1> HIDE DEF t, s5, s4, s3, s2
<1>2. CtrlKept(s, s1) /\ s1.ctrl = v \ {"ACK", "RESET"}
  <2>1. /\ DOMAIN s1 = Fields /\ SameDevices(s, s1) /\ s1.shift = s.shift /\ s1.buf = s.buf
        /\ s1.ack = s.ack /\ s1.irq = s.irq /\ s1.stat = s.stat /\ s1.heard = s.heard
        /\ s1.ctrl = v \ {"ACK", "RESET"}
    BY DEF Shape, BusShape, Fields, SameDevices
  <2> HIDE DEF s1
  <2> QED BY <2>1 DEF CtrlKept, Shape, BusShape, DeviceShape, SameDevices, AtRest, Waits
<1> HIDE DEF s1
<1>3. CtrlKept(s1, s2) /\ s2.ctrl = s1.ctrl /\ ("ACK" \in v => "ACK" \notin s2.stat)
  <2> DEFINE a == CtrlAck(s1)
  <2>1. Shape(s1) /\ DOMAIN s1 = Fields
    BY <1>2 DEF CtrlKept, Shape, BusShape
  <2>2. /\ DOMAIN a = Fields /\ SameDevices(s1, a) /\ a.shift = s1.shift /\ a.buf = s1.buf
        /\ a.ack = s1.ack /\ a.irq = s1.irq /\ a.stat = s1.stat \ {"IRQ", "ACK"}
        /\ a.heard = s1.heard /\ a.ctrl = s1.ctrl
    BY <2>1 DEF CtrlAck, Fields, SameDevices
  <2> HIDE DEF a
  <2>3. CtrlKept(s1, a) /\ "ACK" \notin a.stat
    BY <2>1, <2>2 DEF CtrlKept, Shape, BusShape, DeviceShape, SameDevices, AtRest, Waits
  <2>4. CtrlKept(s1, s1)
    BY <2>1 DEF CtrlKept
  <2> QED BY <2>2, <2>3, <2>4 DEF s2, a
<1>4. CtrlKept(s2, s3) /\ ("RESET" \notin v => s3.ctrl = s2.ctrl) /\ "RESET" \notin s3.ctrl
  <2>1. Shape(s2)
    BY <1>3 DEF CtrlKept
  <2>2. CtrlKept(s2, s2)
    BY <2>1 DEF CtrlKept
  <2>3. "RESET" \notin s2.ctrl
    BY <1>2, <1>3
  <2> QED BY <2>1, <2>2, <2>3, ResetRests DEF s3
<1>5. CtrlKept(s3, s4) /\ s4.ctrl = s3.ctrl
  <2> DEFINE a == [s3 EXCEPT !.owner = "none", !.fresh = TRUE]
  <2>1. Shape(s3) /\ DOMAIN s3 = Fields
    BY <1>4 DEF CtrlKept, Shape, BusShape
  <2>2. /\ DOMAIN a = Fields /\ SameDevices(s3, a) /\ a.shift = s3.shift /\ a.buf = s3.buf
        /\ a.ack = s3.ack /\ a.irq = s3.irq /\ a.stat = s3.stat
        /\ a.heard = s3.heard /\ a.ctrl = s3.ctrl
    BY <2>1 DEF Fields, SameDevices
  <2> HIDE DEF a
  <2>3. CtrlKept(s3, a)
    BY <2>1, <2>2 DEF CtrlKept, Shape, BusShape, DeviceShape, SameDevices, AtRest, Waits
  <2>4. CtrlKept(s3, s3)
    BY <2>1 DEF CtrlKept
  <2> QED BY <2>2, <2>3, <2>4 DEF s4, a
<1>6. CtrlKept(s4, s5) /\ s5.ctrl = s4.ctrl
  <2>1. Shape(s4)
    BY <1>5 DEF CtrlKept
  <2>2. CtrlKept(s4, s4)
    BY <2>1 DEF CtrlKept
  <2> QED BY <2>1, <2>2, TxDisabledKeeps DEF s5
<1>7. CtrlKept(s2, s5) /\ CtrlKept(s, s5)
  BY <1>2, <1>3, <1>4, <1>5, <1>6, CtrlKeptTwice, Zenon
<1>8. "ACK" \in v => "ACK" \notin s5.stat
  BY <1>3, <1>7 DEF CtrlKept
<1>9. Shape(s5)
  BY <1>7 DEF CtrlKept
<1>10. CASE "SELECT" \in s.ctrl /\ "SELECT" \notin v
  <2>1. CtrlKept(s5, t) /\ AtRest(t) /\ t.ctrl = s5.ctrl
    BY <1>10, <1>1, <1>9, DeselectRests
  <2>2. CtrlKept(s, t)
    BY <2>1, <1>7, CtrlKeptTwice
  <2>3. "ACK" \in v => "ACK" \notin t.stat
    BY <2>1, <1>8 DEF CtrlKept
  <2> QED BY <2>1, <2>2, <2>3, <1>4, <1>5, <1>6, <1>10
<1>11. CASE ~ ("SELECT" \in s.ctrl /\ "SELECT" \notin v)
  <2>1. t = s5
    BY <1>11, <1>1
  <2>2. "RESET" \notin v /\ "SELECT" \in v => "SELECT" \in s5.ctrl
    BY <1>2, <1>3, <1>4, <1>5, <1>6
  <2> QED BY <2>1, <2>2, <1>4, <1>5, <1>6, <1>7, <1>8, <1>11
<1> QED BY <1>10, <1>11
\* Reading the answer, and polling STAT.
LEMMA ReadKeeps ==
    ASSUME NEW s, Shape(s)
    PROVE  /\ CtrlKept(s, read_rx(s)) /\ read_rx(s).ctrl = s.ctrl
           /\ CtrlKept(s, read_stat(s)) /\ read_stat(s).ctrl = s.ctrl
<1> DEFINE r == read_rx(s)
           p == read_stat(s)
<1>1. DOMAIN s = Fields
  BY DEF Shape, BusShape
<1>2. /\ DOMAIN r = Fields /\ SameDevices(s, r) /\ r.shift = s.shift /\ r.buf = s.buf
      /\ r.ack = s.ack /\ r.irq = s.irq /\ r.heard = s.heard /\ r.ctrl = s.ctrl
      /\ r.stat = s.stat \ {"RX_RDY"}
  BY <1>1 DEF read_rx, Fields, SameDevices
<1>3. /\ DOMAIN p = Fields /\ SameDevices(s, p) /\ p.shift = s.shift /\ p.buf = s.buf
      /\ p.ack = s.ack /\ p.irq = s.irq /\ p.heard = s.heard /\ p.ctrl = s.ctrl
      /\ p.stat = IF s.visible = 1 THEN s.stat \ {"ACK"} ELSE s.stat
  BY <1>1 DEF read_stat, Fields, SameDevices
<1>4. ASSUME NEW t, DOMAIN t = Fields, SameDevices(s, t), t.shift = s.shift, t.buf = s.buf,
             t.ack = s.ack, t.irq = s.irq, t.heard = s.heard, t.stat \subseteq s.stat
      PROVE  CtrlKept(s, t)
  BY <1>4 DEF CtrlKept, Shape, BusShape, DeviceShape, SameDevices, AtRest, Waits
<1> SUFFICES CtrlKept(s, r) /\ r.ctrl = s.ctrl /\ CtrlKept(s, p) /\ p.ctrl = s.ctrl
  OBVIOUS
<1> HIDE DEF r, p
<1>5. r.stat \subseteq s.stat /\ p.stat \subseteq s.stat
  BY <1>2, <1>3
<1> QED BY <1>2, <1>3, <1>4, <1>5

\* The host's input code changes the pads' modes and nothing else.
LEMMA ModesOnly ==
    ASSUME NEW s, Shape(s), NEW q
    PROVE  LET t == [s EXCEPT !.pads = q]
           IN  /\ Shape(t) /\ t.ctrl = s.ctrl /\ t.irq = s.irq /\ t.stat = s.stat
               /\ Waits(s) => Waits(t)
               /\ AtRest(s) => AtRest(t)
<1> DEFINE t == [s EXCEPT !.pads = q]
<1>1. /\ SameBus(s, t) /\ SameDevices(s, t) /\ t.heard = s.heard
  BY DEF Shape, BusShape, Fields, SameBus, SameDevices
<1> SUFFICES /\ Shape(t) /\ t.ctrl = s.ctrl /\ t.irq = s.irq /\ t.stat = s.stat
             /\ Waits(s) => Waits(t)
             /\ AtRest(s) => AtRest(t)
  OBVIOUS
<1> HIDE DEF t
<1>2. Shape(t)
  BY <1>1, ShapeSame
<1> QED BY <1>1, <1>2 DEF SameBus, Waits, AtRest

LEMMA BootedRests ==
    Shape(Booted) /\ AtRest(Booted) /\ Booted.ctrl = {}
<1> DEFINE s == sio_init
           pads == [i \in Slots |-> [s.pads[i] EXCEPT !.analog = TRUE, !.req = None]]
<1>1. /\ DOMAIN s = Fields /\ s.shift = Quiet /\ s.buf = Quiet /\ s.ack = Quiet
      /\ s.dev = "none" /\ s.slot = 0 /\ s.mcslot = 0 /\ s.pad = IdlePad /\ s.mc = NewCard
      /\ s.saved = [i \in Slots |-> NewCard] /\ s.ctrl = {}
  BY DEF sio_init, Fields
<1> HIDE DEF s
<1>2. Shape(s)
  BY <1>1, TimersShaped, NewShapes DEF Shape, BusShape, DeviceShape, Slots
<1>3. AtRest(s)
  BY <1>1, TimersShaped DEF AtRest
<1>4. Booted = [s EXCEPT !.pads = pads]
  BY <1>1 DEF Booted, Refreshed, s, Fields
<1> HIDE DEF pads
<1> QED BY <1>1, <1>2, <1>3, <1>4, ModesOnly

----------------------------------------------------------------------------
(* The invariant: the driver's phase and the port.                          *)

Phases == {"idle", "send", "wait", "last", "done", "halt", "spoiled"}
GuestShape(g) ==
    /\ DOMAIN g = {"phase", "job", "pos", "got", "stray"}
    /\ g.phase \in Phases /\ g.stray \in Nat

\* Outside a transfer and between two bytes nothing is on its way; before a byte is sent
\* no interrupt and no ACK bit is pending; a transfer in progress keeps the select line
\* down, so that giving it up clears the bus (the RESET bit of CTRL is never kept); and
\* only a spoiled transfer had a byte out of turn.
PortInv(s, g) ==
    /\ Shape(s) /\ GuestShape(g) /\ "RESET" \notin s.ctrl
    /\ g.phase \in {"idle", "done"} => AtRest(s)
    /\ g.phase \notin {"idle", "done"} => "SELECT" \in s.ctrl
    /\ g.phase = "send" => AtRest(s) /\ ~ s.irq /\ "ACK" \notin s.stat
    /\ g.phase \in {"wait", "last", "halt"} /\ g.stray = 0 => Waits(s)
    /\ g.phase \in {"send", "wait", "last"} => g.stray = 0
    /\ g.phase = "spoiled" => g.stray > 0

Inv == PortInv(sio, guest)

LEMMA InvSuffices ==
    ASSUME NEW s, NEW g, PortInv(s, g), s.ack.on, g.stray = 0
    PROVE  s.heard
BY DEF PortInv, GuestShape, Phases, AtRest, Waits

\* Time, the host and the polling of STAT leave the driver where it is.
LEMMA SamePhase ==
    ASSUME NEW s, NEW t, NEW g, PortInv(s, g), Shape(t), t.ctrl = s.ctrl,
           Waits(s) => Waits(t),
           AtRest(s) => AtRest(t) /\ t.irq = s.irq /\ ("ACK" \in t.stat => "ACK" \in s.stat)
    PROVE  PortInv(t, g)
BY DEF PortInv

\* A start of the program.
LEMMA RestartInv ==
    PortInv(Booted, NoJob)
<1>1. GuestShape(NoJob) /\ NoJob.phase = "idle"
  BY DEF GuestShape, NoJob, Phases
<1> QED BY <1>1, BootedRests DEF PortInv
LEMMA BeginInv ==
    ASSUME GuestAcks, Inv, NEW j, Begin(j)
    PROVE  Inv'
<1> DEFINE r == read_rx(sio)
           v == {"TX_EN", "SELECT", "ACK_IRQ_EN"} \cup (IF j.slot = 1 THEN {"SLOT"} ELSE {})
                    \cup (IF GuestAcks THEN {"ACK"} ELSE {})
           w == write_ctrl(r, v)
<1>1. Shape(sio) /\ AtRest(sio)
  BY DEF Inv, PortInv, Begin
<1>2. CtrlKept(sio, r) /\ Shape(r)
  BY <1>1, ReadKeeps DEF CtrlKept
<1>3. "ACK" \in v /\ "SELECT" \in v /\ "RESET" \notin v
  OBVIOUS
<1>4. sio' = [w EXCEPT !.irq = FALSE]
  BY DEF Begin
<1> HIDE DEF r, v
<1>5. CtrlKept(r, w) /\ "ACK" \notin w.stat /\ "SELECT" \in w.ctrl /\ "RESET" \notin w.ctrl
  BY <1>2, <1>3, CtrlWrite
<1> HIDE DEF w
<1>6. AtRest(w) /\ Shape(w)
  BY <1>1, <1>2, <1>5 DEF CtrlKept
<1>7. /\ DOMAIN sio' = Fields /\ SameDevices(w, sio') /\ sio'.shift = w.shift
      /\ sio'.buf = w.buf /\ sio'.ack = w.ack /\ sio'.irq = FALSE /\ sio'.stat = w.stat
      /\ sio'.ctrl = w.ctrl
  BY <1>4, <1>6 DEF Shape, BusShape, Fields, SameDevices
<1>8. Shape(sio') /\ AtRest(sio') /\ ~ sio'.irq /\ "ACK" \notin sio'.stat /\ "SELECT" \in sio'.ctrl
  BY <1>5, <1>6, <1>7 DEF Shape, BusShape, DeviceShape, SameDevices, AtRest
<1>9. GuestShape(guest') /\ guest'.phase = "send" /\ guest'.stray = 0
  BY DEF Begin, NoJob, GuestShape, Phases
<1> QED BY <1>5, <1>7, <1>8, <1>9 DEF Inv, PortInv

LEMMA SendInv ==
    ASSUME Inv, Send
    PROVE  Inv'
<1> DEFINE b == Script(Job)[guest.pos + 1]
           next == IF guest.pos + 1 = Length(guest, Job) THEN "last" ELSE "wait"
<1>1. /\ Shape(sio) /\ AtRest(sio) /\ ~ sio.irq /\ "ACK" \notin sio.stat
      /\ "SELECT" \in sio.ctrl /\ "RESET" \notin sio.ctrl
      /\ GuestShape(guest) /\ guest.stray = 0
  BY DEF Inv, PortInv, Send
<1>2. sio' = write_tx(sio, b) /\ guest' = [guest EXCEPT !.pos = @ + 1, !.phase = next]
  BY DEF Send
<1>3. next \in {"last", "wait"}
  OBVIOUS
<1> HIDE DEF b, next
<1>4. Shape(sio') /\ sio'.ctrl = sio.ctrl /\ Waits(sio')
  BY <1>1, <1>2, TxByte
<1>5. GuestShape(guest') /\ guest'.phase = next /\ guest'.stray = 0
  BY <1>1, <1>2, <1>3 DEF GuestShape, Phases
<1> QED BY <1>1, <1>3, <1>4, <1>5 DEF Inv, PortInv

\* The interrupt says that nothing is on its way any more, so the driver may go on.
LEMMA HandleInv ==
    ASSUME Inv, Handle
    PROVE  Inv'
<1> DEFINE r == read_rx(sio)
           v == sio.ctrl \cup {"ACK"}
           w == write_ctrl(r, v)
<1>1. /\ Shape(sio) /\ Waits(sio) /\ "SELECT" \in sio.ctrl /\ "RESET" \notin sio.ctrl
      /\ GuestShape(guest) /\ guest.stray = 0
  BY DEF Inv, PortInv, Handle
<1>2. AtRest(sio)
  BY <1>1 DEF Waits, AtRest, Handle
<1>3. CtrlKept(sio, r) /\ Shape(r) /\ r.ctrl = sio.ctrl
  BY <1>1, ReadKeeps DEF CtrlKept
<1>4. /\ sio' = [w EXCEPT !.irq = FALSE]
      /\ guest' = [guest EXCEPT !.phase = "send", !.got = Append(@, sio.rx)]
  BY DEF Handle
<1>5. "ACK" \in v /\ "SELECT" \in v /\ "RESET" \notin v
  BY <1>1
<1> HIDE DEF r, v
<1>6. CtrlKept(r, w) /\ "ACK" \notin w.stat
  BY <1>3, <1>5, CtrlWrite
<1>7. "SELECT" \in w.ctrl /\ "RESET" \notin w.ctrl
  BY <1>3, <1>5, CtrlWrite
<1> HIDE DEF w
<1>8. AtRest(w) /\ Shape(w)
  BY <1>2, <1>3, <1>6 DEF CtrlKept
<1>9. /\ DOMAIN sio' = Fields /\ SameDevices(w, sio') /\ sio'.shift = w.shift
      /\ sio'.buf = w.buf /\ sio'.ack = w.ack /\ sio'.irq = FALSE /\ sio'.stat = w.stat
      /\ sio'.ctrl = w.ctrl
  BY <1>4, <1>8 DEF Shape, BusShape, Fields, SameDevices
<1>10. /\ Shape(sio') /\ AtRest(sio') /\ ~ sio'.irq /\ "ACK" \notin sio'.stat
       /\ "SELECT" \in sio'.ctrl
  BY <1>6, <1>7, <1>8, <1>9 DEF Shape, BusShape, DeviceShape, SameDevices, AtRest
<1>11. GuestShape(guest') /\ guest'.phase = "send" /\ guest'.stray = 0
  BY <1>1, <1>4 DEF GuestShape, Phases
<1> QED BY <1>7, <1>9, <1>10, <1>11 DEF Inv, PortInv

LEMMA PollStatInv ==
    ASSUME Inv, PollStat
    PROVE  Inv'
<1>1. PortInv(sio, guest) /\ Shape(sio) /\ sio' = read_stat(sio) /\ guest' = guest
  BY DEF Inv, PortInv, PollStat
<1>2. CtrlKept(sio, sio') /\ sio'.ctrl = sio.ctrl
  BY <1>1, ReadKeeps
<1>3. PortInv(sio', guest)
  BY <1>1, <1>2, SamePhase DEF CtrlKept
<1> QED BY <1>1, <1>3 DEF Inv

LEMMA FinishInv ==
    ASSUME Inv, Finish
    PROVE  Inv'
<1> DEFINE r == read_rx(sio)
<1>1. Shape(sio) /\ "SELECT" \in sio.ctrl /\ GuestShape(guest)
  BY DEF Inv, PortInv, Finish
<1>2. Shape(r) /\ r.ctrl = sio.ctrl
  BY <1>1, ReadKeeps DEF CtrlKept
<1>3. sio' = write_ctrl(r, {})
  BY DEF Finish
<1> HIDE DEF r
<1>4. Shape(sio') /\ AtRest(sio') /\ "RESET" \notin sio'.ctrl
  BY <1>1, <1>2, <1>3, CtrlWrite DEF CtrlKept
<1>5. GuestShape(guest') /\ guest'.phase \in {"idle", "done"}
  BY <1>1 DEF Finish, GuestShape, Phases, NoJob
<1> QED BY <1>4, <1>5 DEF Inv, PortInv

LEMMA GiveUpInv ==
    ASSUME Inv, GiveUp
    PROVE  Inv'
<1>1. Shape(sio) /\ "SELECT" \in sio.ctrl
  BY DEF Inv, PortInv, GiveUp
<1>2. PICK v \in {{}, {"RESET"}} : sio' = write_ctrl(sio, v)
  BY DEF GiveUp
<1>3. "SELECT" \notin v
  OBVIOUS
<1>4. Shape(sio') /\ AtRest(sio') /\ "RESET" \notin sio'.ctrl
  BY <1>1, <1>2, <1>3, CtrlWrite DEF CtrlKept
<1>5. GuestShape(guest') /\ guest'.phase = "idle"
  BY DEF GiveUp, GuestShape, Phases, NoJob
<1> QED BY <1>4, <1>5 DEF Inv, PortInv

LEMMA HaltInv ==
    ASSUME Inv, Halt
    PROVE  Inv'
<1> DEFINE v == sio.ctrl \ {"TX_EN"}
<1>1. /\ Shape(sio) /\ "SELECT" \in sio.ctrl /\ "RESET" \notin sio.ctrl /\ GuestShape(guest)
      /\ guest.stray = 0 => Waits(sio)
  BY DEF Inv, PortInv, Halt
<1>2. sio' = write_ctrl(sio, v) /\ guest' = [guest EXCEPT !.phase = "halt"]
  BY DEF Halt
<1>3. "SELECT" \in v /\ "RESET" \notin v
  BY <1>1
<1> HIDE DEF v
<1>4. CtrlKept(sio, sio')
  BY <1>1, <1>2, CtrlWrite
<1>5. "SELECT" \in sio'.ctrl /\ "RESET" \notin sio'.ctrl
  BY <1>1, <1>2, <1>3, CtrlWrite
<1>6. GuestShape(guest') /\ guest'.phase = "halt" /\ guest'.stray = guest.stray
  BY <1>1, <1>2 DEF GuestShape, Phases
<1> QED BY <1>1, <1>4, <1>5, <1>6 DEF Inv, PortInv, CtrlKept

LEMMA StrayInv ==
    ASSUME Inv, NEW b, Stray(b)
    PROVE  Inv'
<1>1. Shape(sio) /\ "SELECT" \in sio.ctrl /\ "RESET" \notin sio.ctrl /\ GuestShape(guest)
  BY DEF Inv, PortInv, Stray
<1>2. /\ sio' = write_tx(sio, b)
      /\ guest' = [guest EXCEPT !.phase = "spoiled", !.stray = @ + 1]
  BY DEF Stray
<1>3. Shape(sio') /\ sio'.ctrl = sio.ctrl
  BY <1>1, <1>2, TxByte
<1>4. GuestShape(guest') /\ guest'.phase = "spoiled" /\ guest'.stray > 0
  BY <1>1, <1>2 DEF GuestShape, Phases
<1> QED BY <1>1, <1>3, <1>4 DEF Inv, PortInv

\* The host's input code.
LEMMA HostSets ==
    ASSUME Inv,
           \/ refresh_player_devices
           \/ \E s \in Pads, want \in HostModes : sio_request_pad_type(s, want)
    PROVE  guest' = guest /\ \E q : sio' = [sio EXCEPT !.pads = q]
<1>1. PortInv(sio, guest) /\ Shape(sio) /\ DOMAIN sio = Fields
  BY DEF Inv, PortInv, Shape, BusShape
<1>2. CASE refresh_player_devices
  <2> DEFINE q == [i \in Slots |-> [sio.pads[i] EXCEPT !.analog = TRUE, !.req = None]]
  <2>1. sio' = [sio EXCEPT !.pads = q] /\ guest' = guest
    BY <1>2, <1>1 DEF refresh_player_devices, Refreshed, Fields
  <2> HIDE DEF q
  <2> QED BY <2>1
<1>3. ASSUME NEW s \in Pads, NEW want \in HostModes, sio_request_pad_type(s, want)
      PROVE  guest' = guest /\ \E q : sio' = [sio EXCEPT !.pads = q]
  <2> DEFINE x == IF sio.pads[s].analog = (want = "analog") THEN None ELSE want
             q == [sio.pads EXCEPT ![s].req = x]
  <2>1. sio' = [sio EXCEPT !.pads[s].req = x] /\ guest' = guest
    BY <1>3, Zenon DEF sio_request_pad_type
  <2> HIDE DEF x
  <2>2. [sio EXCEPT !.pads[s].req = x] = [sio EXCEPT !.pads = q]
    BY <1>1 DEF Fields
  <2> HIDE DEF q
  <2> QED BY <2>1, <2>2
<1> QED BY <1>2, <1>3

LEMMA HostInv ==
    ASSUME Inv,
           \/ refresh_player_devices
           \/ \E s \in Pads, want \in HostModes : sio_request_pad_type(s, want)
    PROVE  Inv'
<1>1. PortInv(sio, guest) /\ Shape(sio)
  BY DEF Inv, PortInv
<1>2. guest' = guest /\ \E q : sio' = [sio EXCEPT !.pads = q]
  BY HostSets
<1>3. PICK q : sio' = [sio EXCEPT !.pads = q]
  BY <1>2
<1>4. /\ Shape(sio') /\ sio'.ctrl = sio.ctrl /\ sio'.irq = sio.irq /\ sio'.stat = sio.stat
      /\ Waits(sio) => Waits(sio')
      /\ AtRest(sio) => AtRest(sio')
  BY <1>1, <1>3, ModesOnly
<1>5. PortInv(sio', guest)
  BY <1>1, <1>4, SamePhase
<1> QED BY <1>2, <1>5 DEF Inv

LEMMA TickInv ==
    ASSUME Inv, NEW n, NEW io, Tick(n, io)
    PROVE  Inv'
<1> DEFINE r == sio_advance(sio, n)
<1>1. PortInv(sio, guest) /\ Shape(sio)
  BY DEF Inv, PortInv
<1>2. Kept(sio, r)
  BY <1>1, AdvanceKeeps
<1>3. sio' = [r EXCEPT !.write = {}] /\ guest' = guest
  BY DEF Tick
<1> HIDE DEF r
<1>4. Shape(r) /\ DOMAIN r = Fields
  BY <1>2 DEF Kept, Shape, BusShape
<1>5. /\ SameBus(r, sio') /\ sio'.heard = r.heard
      /\ sio'.dev = r.dev /\ sio'.slot = r.slot /\ sio'.mcslot = r.mcslot
      /\ sio'.pad = r.pad /\ sio'.mc = r.mc /\ sio'.saved = r.saved
  BY <1>3, <1>4 DEF Fields, SameBus
<1>6. Kept(r, sio')
  BY <1>4, <1>5 DEF Kept, SameBus, Waits, AtRest, Shape, BusShape, DeviceShape
<1>7. Kept(sio, sio')
  BY <1>2, <1>6, KeptTwice
<1>8. PortInv(sio', guest)
  BY <1>1, <1>7, SamePhase DEF Kept
<1> QED BY <1>3, <1>8 DEF Inv

LEMMA PortStepInv ==
    ASSUME GuestAcks, Inv, [Next]_vars
    PROVE  Inv'
<1>1. CASE \E j \in Jobs : Begin(j)
  BY <1>1, BeginInv
<1>2. CASE Send \/ Handle \/ PollStat \/ Finish \/ GiveUp \/ Halt
  BY <1>2, SendInv, HandleInv, PollStatInv, FinishInv, GiveUpInv, HaltInv
<1>3. CASE \E b \in {PAD, CARD} : Stray(b)
  BY <1>3, StrayInv
<1>4. CASE \/ \E s \in Pads, want \in HostModes : sio_request_pad_type(s, want)
           \/ refresh_player_devices
  BY <1>4, HostInv
<1>5. CASE Clock \/ FlushFails
  BY <1>5, TickInv DEF Clock, FlushFails
<1>6. CASE Kill \/ (\E n \in Chunks : KillInFlush(n)) \/ Quit
  <2>1. sio' = Booted /\ guest' = NoJob
    BY <1>6 DEF Kill, KillInFlush, Quit, Restart
  <2> QED BY <2>1, RestartInv DEF Inv
<1>7. CASE UNCHANGED vars
  BY <1>7 DEF vars, Inv
<1> QED BY <1>1, <1>2, <1>3, <1>4, <1>5, <1>6, <1>7 DEF Next

\* For every set of cards, pads and transfers, every sector size, every delay and every
\* chunk of time: with a driver that acknowledges in CTRL when it starts a transfer, an
\* acknowledge under way in a transfer without a byte out of turn is the device's own
\* (sio_handle_shift_complete, the pad path of sio_write), whatever transfers were given
\* up, reset, halted or cut by a restart before.
THEOREM AcksAreTheDevices ==
    ASSUME GuestAcks
    PROVE  Spec => []AckIsTheDevices
<1>1. Init => Inv
  BY RestartInv DEF Init, Inv
<1>2. Inv /\ [Next]_vars => Inv'
  BY PortStepInv
<1>3. Inv => AckIsTheDevices
  BY InvSuffices DEF Inv, AckIsTheDevices
<1> QED BY <1>1, <1>2, <1>3, PTL DEF Spec

LEMMA ZerosSeq ==
    ASSUME NEW n \in Nat
    PROVE  Zeros(n) \in Seq(Nat) /\ Len(Zeros(n)) = n
BY DEF Zeros

LEMMA SeqIsFunction ==
    ASSUME NEW S, NEW q \in Seq(S)
    PROVE  q \in [1..Len(q) -> S] /\ Len(q) \in Nat
OBVIOUS

LEMMA SeqWiden ==
    ASSUME NEW S, NEW T, S \subseteq T, NEW q \in Seq(S)
    PROVE  q \in Seq(T)
<1>1. q \in [1..Len(q) -> S] /\ Len(q) \in Nat
  BY SeqIsFunction
<1>2. q \in [1..Len(q) -> T]
  BY <1>1
<1> QED BY <1>1, <1>2, SeqDef

\* What is known of a transfer.
LEMMA JobIs ==
    ASSUME NEW j \in Jobs
    PROVE  /\ j.slot \in Slots /\ j.lsb \in 0..255 /\ j.data \in Seq(0..255)
           /\ j.dev \in {"pad", "card"}
           /\ j.dev = "pad" => j.cmd \in Nat /\ j.cmd \notin {READ, WRITE, GETID}
           /\ j.dev = "card" => j.cmd \in {READ, WRITE, GETID}
           /\ j.cmd = WRITE => j.data \in [1..SectorBytes -> 0..255]
           /\ SectorBytes \in Nat \ {0}
<1>1. j.slot \in Slots /\ j.lsb \in 0..255 /\ j.data \in Seq(0..255)
  BY JobAssumption
<1>2. \/ j.dev = "pad" /\ j.cmd \in {POLL, CONFIG, SETMODE, QUERY}
      \/ j.dev = "card" /\ j.cmd \in {READ, GETID}
      \/ j.dev = "card" /\ j.cmd = WRITE /\ Len(j.data) = SectorBytes
  BY JobAssumption
<1>3. SectorBytes \in Nat \ {0}
  BY SerialAssumption
<1>4. j.data \in [1..Len(j.data) -> 0..255]
  BY <1>1, SeqIsFunction, Zenon
<1>5. j.cmd = WRITE => Len(j.data) = SectorBytes
  BY <1>2 DEF POLL, CONFIG, SETMODE, QUERY, READ, WRITE, GETID
<1>6. j.cmd = WRITE => j.data \in [1..SectorBytes -> 0..255]
  BY <1>4, <1>5
<1> QED BY <1>1, <1>2, <1>3, <1>6 DEF POLL, CONFIG, SETMODE, QUERY, READ, WRITE, GETID

\* The bytes of a transfer that the machine looks at.
LEMMA JoinLen ==
    ASSUME NEW S, NEW p \in Seq(S), NEW q \in Seq(S)
    PROVE  p \o q \in Seq(S) /\ Len(p \o q) = Len(p) + Len(q) /\ Len(p) \in Nat /\ Len(q) \in Nat
OBVIOUS

LEMMA JoinAt ==
    ASSUME NEW S, NEW p \in Seq(S), NEW q \in Seq(S)
    PROVE  \A i \in 1..Len(p) : (p \o q)[i] = p[i]
OBVIOUS

LEMMA JoinAfter ==
    ASSUME NEW S, NEW p \in Seq(S), NEW q \in Seq(S)
    PROVE  \A i \in 1..Len(q) : (p \o q)[Len(p) + i] = q[i]
<1>1. Len(p) \in Nat /\ Len(q) \in Nat
  OBVIOUS
<1>3. ASSUME NEW i \in 1..Len(q)
      PROVE  (p \o q)[Len(p) + i] = q[i]
  <2>1. Len(p) + i \in 1..(Len(p) + Len(q)) /\ ~ (Len(p) + i <= Len(p)) /\ (Len(p) + i) - Len(p) = i
    BY <1>1
  <2>2. (p \o q)[Len(p) + i] = q[(Len(p) + i) - Len(p)]
    BY <2>1, ConcatProperties
  <2> QED BY <2>1, <2>2
<1> QED BY <1>3

LEMMA ScriptIs ==
    ASSUME NEW j \in Jobs
    PROVE  /\ j.dev = "pad" => Script(j)[1] = PAD
           /\ j.dev = "card" => Script(j)[1] = CARD /\ Script(j)[2] = j.cmd
           /\ j.dev = "card" /\ j.cmd \in {READ, WRITE} =>
                 Script(j)[5] = 0 /\ Script(j)[6] = j.lsb
           /\ j.dev = "card" /\ j.cmd = READ => Len(Script(j)) = 12 + SectorBytes
           /\ j.dev = "card" /\ j.cmd = GETID => Len(Script(j)) = 8
           /\ j.dev = "card" /\ j.cmd = WRITE =>
                 /\ Len(Script(j)) = 10 + SectorBytes
                 /\ \A i \in 1..SectorBytes : Script(j)[6 + i] = j.data[i]
<1> DEFINE W == Script(j)
<1>0. SectorBytes \in Nat \ {0} /\ j.lsb \in Nat /\ j.dev \in {"pad", "card"}
  <2>1. SectorBytes \in Nat \ {0} /\ j.lsb \in 0..255 /\ j.dev \in {"pad", "card"}
    BY JobIs, Zenon
  <2> QED BY <2>1
<1>1. j.data \in Seq(Nat)
  <2>1. j.data \in Seq(0..255) /\ 0..255 \subseteq Nat
    BY JobIs
  <2> QED BY <2>1, SeqWiden, Zenon
<1>2. CASE j.dev = "pad"
  <2> DEFINE h == <<PAD, j.cmd, 0>>
             m == h \o j.data
             z == Zeros(4)
  <2>0. W = m \o z
    BY <1>2 DEF Script
  <2>1. j.cmd \in Nat
    BY <1>2, JobIs
  <2>2. h \in Seq(Nat)
    BY <2>1 DEF PAD
  <2>3. Len(h) = 3 /\ h[1] = PAD
    OBVIOUS
  <2>4. z \in Seq(Nat)
    BY ZerosSeq
  <2> HIDE DEF h, z, W
  <2>5. /\ m \in Seq(Nat) /\ Len(m) = Len(h) + Len(j.data) /\ Len(j.data) \in Nat
        /\ \A i \in 1..Len(h) : m[i] = h[i]
    BY <2>2, <1>1, JoinLen, JoinAt, Zenon
  <2> HIDE DEF m
  <2>6. \A i \in 1..Len(m) : W[i] = m[i]
    BY <2>0, <2>4, <2>5, JoinAt, Zenon
  <2>7. 1 \in 1..Len(h) /\ 1 \in 1..Len(m)
    BY <2>3, <2>5
  <2>8. W[1] = PAD
    <3>1. W[1] = m[1]
      BY <2>6, <2>7
    <3>2. m[1] = h[1]
      BY <2>5, <2>7
    <3> QED BY <3>1, <3>2, <2>3
  <2> QED BY <2>8, <1>2 DEF W
<1>3. CASE j.dev = "card" /\ j.cmd = READ
  <2> DEFINE h == <<CARD, READ, 0, 0, 0, j.lsb>>
             z == Zeros(6 + SectorBytes)
  <2>0. W = h \o z
    <3>1. ~ (j.dev = "pad") /\ ~ (j.cmd = WRITE) /\ ~ (j.cmd = GETID)
      BY <1>3 DEF READ, WRITE, GETID
    <3> HIDE DEF z
    <3> QED BY <3>1, <1>3, Zenon DEF Script, z
  <2>1. z \in Seq(Nat)
    BY <1>0, ZerosSeq
  <2>2. Len(z) = 6 + SectorBytes
    BY <1>0, ZerosSeq
  <2>3. h \in Seq(Nat)
    BY <1>0 DEF CARD, READ
  <2>4. Len(h) = 6 /\ h[1] = CARD /\ h[2] = READ /\ h[5] = 0 /\ h[6] = j.lsb
    OBVIOUS
  <2> HIDE DEF h, z, W
  <2>5. Len(W) = Len(h) + Len(z) /\ \A i \in 1..Len(h) : W[i] = h[i]
    BY <2>0, <2>1, <2>3, JoinLen, JoinAt, Zenon
  <2>6. Len(W) = 12 + SectorBytes
    BY <2>2, <2>4, <2>5, <1>0
  <2>7. W[1] = h[1] /\ W[2] = h[2] /\ W[5] = h[5] /\ W[6] = h[6]
    BY <2>4, <2>5
  <2> QED BY <2>4, <2>6, <2>7, <1>3 DEF READ, WRITE, GETID, W
<1>4. CASE j.dev = "card" /\ j.cmd = GETID
  <2> DEFINE h == <<CARD, GETID>>
             z == Zeros(6)
  <2>0. W = h \o z
    BY <1>4 DEF Script, READ, WRITE, GETID
  <2>1. h \in Seq(Nat)
    BY DEF CARD, GETID
  <2>2. Len(h) = 2 /\ h[1] = CARD /\ h[2] = GETID
    OBVIOUS
  <2>3. z \in Seq(Nat)
    BY ZerosSeq
  <2>4. Len(z) = 6
    BY ZerosSeq
  <2> HIDE DEF h, z, W
  <2>5. Len(W) = Len(h) + Len(z) /\ \A i \in 1..Len(h) : W[i] = h[i]
    BY <2>0, <2>1, <2>3, JoinLen, JoinAt, Zenon
  <2>6. Len(W) = 8
    BY <2>2, <2>4, <2>5
  <2>7. W[1] = h[1] /\ W[2] = h[2]
    BY <2>2, <2>5
  <2> QED BY <2>2, <2>6, <2>7, <1>4 DEF READ, WRITE, GETID, W
<1>5. CASE j.dev = "card" /\ j.cmd = WRITE
  <2> DEFINE x == JobChecksum(j)
             S == Nat \cup {x}
             z == <<x, 0, 0, 0>>
             h == <<CARD, WRITE, 0, 0, 0, j.lsb>>
             m == h \o j.data
  <2>0. W = m \o z
    BY <1>5 DEF Script, READ, WRITE, GETID
  <2>1. Len(j.data) = SectorBytes
    BY <1>5, JobAssumption DEF WRITE, POLL, CONFIG, SETMODE, QUERY, READ, GETID
  <2>2. j.data \in Seq(S)
    <3>1. Nat \subseteq S
      OBVIOUS
    <3> QED BY <1>1, <3>1, SeqWiden, Zenon
  <2>3. h \in Seq(S)
    BY <1>0 DEF CARD, WRITE
  <2>4. Len(h) = 6 /\ h[1] = CARD /\ h[2] = WRITE /\ h[5] = 0 /\ h[6] = j.lsb
    OBVIOUS
  <2> HIDE DEF x
  <2>5. z \in Seq(S)
    OBVIOUS
  <2>6. Len(z) = 4
    OBVIOUS
  <2> HIDE DEF S, W, h, z
  <2>7. /\ m \in Seq(S) /\ Len(m) = Len(h) + Len(j.data)
        /\ \A i \in 1..Len(h) : m[i] = h[i]
        /\ \A i \in 1..Len(j.data) : m[Len(h) + i] = j.data[i]
    <3>1. m \in Seq(S) /\ Len(m) = Len(h) + Len(j.data)
      BY <2>2, <2>3, JoinLen, Zenon
    <3>2. \A i \in 1..Len(h) : m[i] = h[i]
      BY <2>2, <2>3, JoinAt, Zenon
    <3>3. \A i \in 1..Len(j.data) : m[Len(h) + i] = j.data[i]
      BY <2>2, <2>3, JoinAfter, Zenon
    <3> QED BY <3>1, <3>2, <3>3
  <2> HIDE DEF m
  <2>8. Len(W) = Len(m) + Len(z) /\ \A i \in 1..Len(m) : W[i] = m[i]
    BY <2>0, <2>5, <2>7, JoinLen, JoinAt, Zenon
  <2>9. Len(m) = 6 + SectorBytes /\ Len(W) = 10 + SectorBytes
    BY <2>1, <2>4, <2>6, <2>7, <2>8, <1>0
  <2>10. W[1] = h[1] /\ W[2] = h[2] /\ W[5] = h[5] /\ W[6] = h[6]
    BY <2>4, <2>7, <2>8, <2>9, <1>0
  <2>11. ASSUME NEW i \in 1..SectorBytes PROVE W[6 + i] = j.data[i]
    BY <2>1, <2>4, <2>7, <2>8, <2>9, <1>0
  <2> QED BY <2>4, <2>9, <2>10, <2>11, <1>5 DEF READ, WRITE, GETID, W
<1>6. j.dev = "card" => j.cmd \in {READ, WRITE, GETID}
  BY JobIs
<1> QED BY <1>0, <1>2, <1>3, <1>4, <1>5, <1>6

----------------------------------------------------------------------------
(* The steps of the card's machine, exactly.                                *)

CardFields == {"state", "cmd", "msb", "lsb", "data", "idx", "chk", "flag"}
SameMachine(c, d) ==
    /\ d.cmd = c.cmd /\ d.msb = c.msb /\ d.lsb = c.lsb
    /\ d.data = c.data /\ d.idx = c.idx /\ d.chk = c.chk
SameSocket(s, t) == t.dev = s.dev /\ t.slot = s.slot /\ t.mcslot = s.mcslot
\* t is s after an answer r, with the machine m in its next state.
Moves(s, t, m, next, r) ==
    /\ SameSocket(s, t) /\ t.write = s.write /\ t.rx = r
    /\ t.mc.state = next /\ SameMachine(m, t.mc)

LEMMA StepMoves ==
    ASSUME NEW s, DOMAIN s = Fields, DOMAIN s.mc = CardFields, NEW next, NEW r
    PROVE  /\ Moves(s, CardStep(s, next, r), s.mc, next, r)
           /\ CardStep(s, next, r).heard <=> next # "IDLE"
<1> DEFINE v == [s EXCEPT !.mc.state = next]
           acked == next # "IDLE"
           t == Answer(v, r, acked)
<1>1. /\ DOMAIN v = Fields /\ SameSocket(s, v) /\ v.write = s.write
      /\ v.mc = [s.mc EXCEPT !.state = next]
  BY DEF Fields, SameSocket
<1>2. CardStep(s, next, r) = t
  BY DEF CardStep
<1> HIDE DEF v, acked
<1>3. SameSocket(v, t) /\ t.write = v.write /\ t.mc = v.mc /\ t.rx = r /\ t.heard = acked
  BY <1>1 DEF Answer, Fields, SameSocket
<1> HIDE DEF t
<1>4. t.mc.state = next /\ SameMachine(s.mc, t.mc)
  BY <1>1, <1>3 DEF SameMachine, CardFields
<1>5. Moves(s, t, s.mc, next, r)
  BY <1>1, <1>3, <1>4 DEF Moves, SameSocket
<1>6. t.heard <=> next # "IDLE"
  BY <1>3, Zenon DEF acked
<1> QED BY <1>2, <1>5, <1>6

LEMMA CardMoves ==
    ASSUME NEW s, DOMAIN s = Fields, NEW m, DOMAIN m = CardFields, NEW next, NEW r
    PROVE  Moves(s, CardStep([s EXCEPT !.mc = m], next, r), m, next, r)
<1> DEFINE u == [s EXCEPT !.mc = m]
           t == CardStep(u, next, r)
<1>1. DOMAIN u = Fields /\ SameSocket(s, u) /\ u.write = s.write /\ u.mc = m
  BY DEF Fields, SameSocket
<1> HIDE DEF u
<1>2. Moves(u, t, u.mc, next, r)
  BY <1>1, StepMoves
<1> HIDE DEF t
<1>3. Moves(s, t, m, next, r)
  BY <1>1, <1>2 DEF Moves, SameSocket
<1> QED BY <1>3 DEF t, u

\* The states that only go on.
LEMMA MachineGoesOn ==
    ASSUME NEW s, DOMAIN s = Fields, CardShape(s.mc), NEW b
    PROVE  LET c == s.mc
               t == mc_process_byte(s, b)
           IN  /\ c.state = "ID1" => Moves(s, t, c, "ID2", 90)
               /\ c.state = "ID2" =>
                     Moves(s, t, c, IF c.cmd = GETID THEN "GETID_1" ELSE "ADDR_MSB", 93)
               /\ c.state = "GETID_1" => Moves(s, t, c, "GETID_2", 4)
               /\ c.state = "GETID_2" => Moves(s, t, c, "GETID_3", 0)
               /\ c.state = "GETID_3" => Moves(s, t, c, "GETID_4", 0)
               /\ c.state = "GETID_4" => Moves(s, t, c, "IDLE", 128)
               /\ c.state = "READ_ACK1" => Moves(s, t, c, "READ_ACK2", 92)
               /\ c.state = "READ_ACK2" => Moves(s, t, c, "READ_MSB_ECHO", 93)
               /\ c.state = "READ_MSB_ECHO" => Moves(s, t, c, "READ_LSB_ECHO", c.msb)
               /\ c.state = "READ_CHK" => Moves(s, t, c, "READ_END", c.chk)
               /\ c.state = "READ_END" =>
                     Moves(s, t, c, "IDLE", IF Sector(c) < Sectors THEN GOOD ELSE HIGH)
               /\ c.state = "WRITE_ACK1" => Moves(s, t, c, "WRITE_ACK2", 92)
               /\ c.state = "WRITE_ACK2" => Moves(s, t, c, "WRITE_END", 93)
<1> DEFINE c == s.mc
           t == mc_process_byte(s, b)
           good == IF Sector(c) < Sectors THEN GOOD ELSE HIGH
           on == IF c.cmd = GETID THEN "GETID_1" ELSE "ADDR_MSB"
<1>1. /\ c.state = "ID1" => t = CardStep(s, "ID2", 90)
      /\ c.state = "ID2" => t = CardStep(s, on, 93)
      /\ c.state = "GETID_1" => t = CardStep(s, "GETID_2", 4)
      /\ c.state = "GETID_2" => t = CardStep(s, "GETID_3", 0)
      /\ c.state = "GETID_3" => t = CardStep(s, "GETID_4", 0)
      /\ c.state = "GETID_4" => t = CardStep(s, "IDLE", 128)
      /\ c.state = "READ_ACK1" => t = CardStep(s, "READ_ACK2", 92)
      /\ c.state = "READ_ACK2" => t = CardStep(s, "READ_MSB_ECHO", 93)
      /\ c.state = "READ_MSB_ECHO" => t = CardStep(s, "READ_LSB_ECHO", c.msb)
      /\ c.state = "READ_CHK" => t = CardStep(s, "READ_END", c.chk)
      /\ c.state = "READ_END" => t = CardStep(s, "IDLE", good)
      /\ c.state = "WRITE_ACK1" => t = CardStep(s, "WRITE_ACK2", 92)
      /\ c.state = "WRITE_ACK2" => t = CardStep(s, "WRITE_END", 93)
  BY DEF mc_process_byte
<1>2. \A next, r : Moves(s, CardStep(s, next, r), c, next, r)
  BY StepMoves DEF CardShape, CardFields
<1> HIDE DEF t, good, on
<1>3. /\ c.state = "ID1" => Moves(s, t, c, "ID2", 90)
      /\ c.state = "ID2" => Moves(s, t, c, on, 93)
      /\ c.state = "GETID_1" => Moves(s, t, c, "GETID_2", 4)
      /\ c.state = "GETID_2" => Moves(s, t, c, "GETID_3", 0)
      /\ c.state = "GETID_3" => Moves(s, t, c, "GETID_4", 0)
      /\ c.state = "GETID_4" => Moves(s, t, c, "IDLE", 128)
      /\ c.state = "READ_ACK1" => Moves(s, t, c, "READ_ACK2", 92)
      /\ c.state = "READ_ACK2" => Moves(s, t, c, "READ_MSB_ECHO", 93)
      /\ c.state = "READ_MSB_ECHO" => Moves(s, t, c, "READ_LSB_ECHO", c.msb)
      /\ c.state = "READ_CHK" => Moves(s, t, c, "READ_END", c.chk)
      /\ c.state = "READ_END" => Moves(s, t, c, "IDLE", good)
      /\ c.state = "WRITE_ACK1" => Moves(s, t, c, "WRITE_ACK2", 92)
      /\ c.state = "WRITE_ACK2" => Moves(s, t, c, "WRITE_END", 93)
  BY <1>1, <1>2
<1> QED BY <1>3 DEF t, good, on

\* The states that note the byte or count it.
LEMMA MachineNotes ==
    ASSUME NEW s, DOMAIN s = Fields, CardShape(s.mc), NEW b
    PROVE  LET c == s.mc
               t == mc_process_byte(s, b)
           IN  /\ c.state = "CMD" /\ b \in {READ, WRITE, GETID} =>
                     Moves(s, t, [c EXCEPT !.cmd = b], "ID1", c.flag)
               /\ c.state = "ADDR_MSB" => Moves(s, t, [c EXCEPT !.msb = b], "ADDR_LSB", 0)
               /\ c.state = "READ_LSB_ECHO" => Moves(s, t, [c EXCEPT !.idx = 0], "READ_DATA", c.lsb)
               /\ c.state = "READ_DATA" =>
                     Moves(s, t, [c EXCEPT !.idx = @ + 1],
                           IF LastByte(c) THEN "READ_CHK" ELSE "READ_DATA", c.data[c.idx + 1])
               /\ c.state = "WRITE_DATA" =>
                     Moves(s, t, [c EXCEPT !.data[c.idx + 1] = b, !.idx = @ + 1],
                           IF LastByte(c) THEN "WRITE_CHK" ELSE "WRITE_DATA", 0)
               /\ c.state = "WRITE_END" => Moves(s, t, c, "IDLE", c.chk)
<1> DEFINE c == s.mc
           t == mc_process_byte(s, b)
           rnext == IF LastByte(c) THEN "READ_CHK" ELSE "READ_DATA"
           wnext == IF LastByte(c) THEN "WRITE_CHK" ELSE "WRITE_DATA"
<1>0. DOMAIN c = CardFields
  BY DEF CardShape, CardFields
<1>1. CASE c.state = "CMD" /\ b \in {READ, WRITE, GETID}
  <2> DEFINE m == [[c EXCEPT !.cmd = b] EXCEPT !.flag = 0]
             k == [c EXCEPT !.cmd = b]
  <2>1. DOMAIN m = CardFields /\ SameMachine(k, m)
    BY <1>0 DEF CardFields, SameMachine
  <2>2. t = CardStep([s EXCEPT !.mc = m], "ID1", c.flag)
    BY <1>1 DEF mc_process_byte, Fields
  <2> HIDE DEF m, k, t
  <2>3. Moves(s, t, m, "ID1", c.flag)
    BY <2>1, <2>2, CardMoves
  <2>4. Moves(s, t, k, "ID1", c.flag)
    BY <2>1, <2>3 DEF Moves, SameMachine
  <2> QED BY <1>1, <2>4 DEF k, t
<1>2. CASE c.state = "ADDR_MSB"
  <2> DEFINE m == [c EXCEPT !.msb = b]
  <2>1. DOMAIN m = CardFields
    BY <1>0
  <2>2. t = CardStep([s EXCEPT !.mc = m], "ADDR_LSB", 0)
    BY <1>2 DEF mc_process_byte, Fields
  <2> HIDE DEF m, t
  <2>3. Moves(s, t, m, "ADDR_LSB", 0)
    BY <2>1, <2>2, CardMoves
  <2> QED BY <1>2, <2>3 DEF m, t
<1>3. CASE c.state = "READ_LSB_ECHO"
  <2> DEFINE m == [c EXCEPT !.idx = 0]
  <2>1. DOMAIN m = CardFields
    BY <1>0
  <2>2. t = CardStep([s EXCEPT !.mc = m], "READ_DATA", c.lsb)
    BY <1>3 DEF mc_process_byte, Fields
  <2> HIDE DEF m, t
  <2>3. Moves(s, t, m, "READ_DATA", c.lsb)
    BY <2>1, <2>2, CardMoves
  <2> QED BY <1>3, <2>3 DEF m, t
<1>4. CASE c.state = "READ_DATA"
  <2> DEFINE m == [c EXCEPT !.idx = @ + 1]
  <2>1. DOMAIN m = CardFields
    BY <1>0
  <2>2. t = CardStep([s EXCEPT !.mc = m], rnext, c.data[c.idx + 1])
    BY <1>4 DEF mc_process_byte, Fields
  <2> HIDE DEF m, t, rnext
  <2>3. Moves(s, t, m, rnext, c.data[c.idx + 1])
    BY <2>1, <2>2, CardMoves
  <2> QED BY <1>4, <2>3 DEF m, t, rnext
<1>5. CASE c.state = "WRITE_DATA"
  <2> DEFINE n == [c EXCEPT !.data[c.idx + 1] = b]
             m == [n EXCEPT !.idx = @ + 1]
             k == [c EXCEPT !.data[c.idx + 1] = b, !.idx = @ + 1]
  <2>1. DOMAIN m = CardFields /\ m = k
    BY <1>0 DEF CardFields
  <2>2. t = CardStep([s EXCEPT !.mc = m], wnext, 0)
    <3>1. t = CardStep([s EXCEPT !.mc.data[c.idx + 1] = b, !.mc.idx = @ + 1], wnext, 0)
      BY <1>5 DEF mc_process_byte
    <3>2. [s EXCEPT !.mc.data[c.idx + 1] = b, !.mc.idx = @ + 1] = [s EXCEPT !.mc = m]
      BY DEF Fields
    <3> QED BY <3>1, <3>2
  <2> HIDE DEF m, t, wnext, k
  <2>3. Moves(s, t, k, wnext, 0)
    BY <2>1, <2>2, CardMoves
  <2> QED BY <1>5, <2>3 DEF k, t, wnext
<1>6. CASE c.state = "WRITE_END"
  <2> DEFINE m == [c EXCEPT !.flag = 0]
  <2>1. DOMAIN m = CardFields /\ SameMachine(c, m)
    BY <1>0 DEF CardFields, SameMachine
  <2>2. t = CardStep([s EXCEPT !.mc = m], "IDLE", c.chk)
    BY <1>6 DEF mc_process_byte, Fields
  <2> HIDE DEF m, t
  <2>3. Moves(s, t, m, "IDLE", c.chk)
    BY <2>1, <2>2, CardMoves
  <2>4. Moves(s, t, c, "IDLE", c.chk)
    BY <2>1, <2>3 DEF Moves, SameMachine
  <2> QED BY <1>6, <2>4 DEF t
<1> HIDE DEF t
<1> QED BY <1>1, <1>2, <1>3, <1>4, <1>5, <1>6

LEMMA MachineAddressed ==
    ASSUME NEW s, DOMAIN s = Fields, CardShape(s.mc), NEW b \in Nat,
           s.mc.state = "ADDR_LSB", s.mc.msb = 0
    PROVE  LET c == s.mc
               t == mc_process_byte(s, b)
           IN  /\ SameSocket(s, t) /\ t.write = s.write
               /\ t.mc.cmd = c.cmd /\ t.mc.msb = 0 /\ t.mc.lsb = b
               /\ c.cmd = READ =>
                     /\ t.mc.state = "READ_ACK1"
                     /\ b < Sectors => t.mc.data = card[s.mcslot].data[b]
                     /\ ~ (b < Sectors) => t.mc.data = [i \in 1..SectorBytes |-> HIGH]
               /\ c.cmd # READ => /\ t.mc.state = "WRITE_DATA"
                                  /\ t.mc.data = c.data /\ t.mc.idx = 0
<1> DEFINE c == s.mc
           t == mc_process_byte(s, b)
           k == [c EXCEPT !.lsb = b, !.idx = 0]
           data == IF Sector(k) < Sectors THEN card[s.mcslot].data[Sector(k)]
                                          ELSE [i \in 1..SectorBytes |-> HIGH]
           d == IF b < Sectors THEN card[s.mcslot].data[b] ELSE [i \in 1..SectorBytes |-> HIGH]
           r == [k EXCEPT !.data = data]
           m == [r EXCEPT !.chk = Checksum(r)]
<1>0. DOMAIN c = CardFields
  BY DEF CardShape, CardFields
<1>1. t = mc_addressed(s, b)
  BY DEF mc_process_byte
<1>2. /\ k.cmd = READ => t = CardStep([s EXCEPT !.mc = m], "READ_ACK1", 0)
      /\ k.cmd # READ => t = CardStep([s EXCEPT !.mc = k], "WRITE_DATA", 0)
  BY <1>1, Zenon DEF mc_addressed
<1>3. /\ DOMAIN k = CardFields /\ k.cmd = c.cmd /\ k.msb = 0 /\ k.lsb = b
      /\ k.data = c.data /\ k.idx = 0
  BY <1>0 DEF CardFields
<1>4. data = d
  <2>1. Sector(k) = b
    <3> HIDE DEF k
    <3> QED BY <1>3 DEF Sector
  <2> HIDE DEF k
  <2> QED BY <2>1
<1>5. DOMAIN m = CardFields /\ m.cmd = c.cmd /\ m.msb = 0 /\ m.lsb = b /\ m.data = data
  <2> DEFINE x == Checksum(r)
  <2>1. m = [r EXCEPT !.chk = x]
    OBVIOUS
  <2> HIDE DEF x, data, k, m
  <2>2. DOMAIN r = CardFields /\ r.cmd = c.cmd /\ r.msb = 0 /\ r.lsb = b /\ r.data = data
    BY <1>3 DEF CardFields
  <2> HIDE DEF r
  <2> QED BY <2>1, <2>2 DEF CardFields
<1> HIDE DEF t, k, m, data, d
<1>6. CASE c.cmd = READ
  <2>1. Moves(s, t, m, "READ_ACK1", 0)
    BY <1>2, <1>3, <1>5, <1>6, CardMoves
  <2>2. /\ SameSocket(s, t) /\ t.write = s.write
        /\ t.mc.cmd = c.cmd /\ t.mc.msb = 0 /\ t.mc.lsb = b
        /\ t.mc.state = "READ_ACK1" /\ t.mc.data = d
    BY <2>1, <1>4, <1>5 DEF Moves, SameMachine
  <2>3. /\ b < Sectors => t.mc.data = card[s.mcslot].data[b]
        /\ ~ (b < Sectors) => t.mc.data = [i \in 1..SectorBytes |-> HIGH]
    BY <2>2 DEF d
  <2> QED BY <2>2, <2>3, <1>6 DEF t
<1>7. CASE c.cmd # READ
  <2>1. Moves(s, t, k, "WRITE_DATA", 0)
    BY <1>2, <1>3, <1>7, CardMoves
  <2>2. /\ SameSocket(s, t) /\ t.write = s.write
        /\ t.mc.cmd = c.cmd /\ t.mc.msb = 0 /\ t.mc.lsb = b
        /\ t.mc.state = "WRITE_DATA" /\ t.mc.data = c.data /\ t.mc.idx = 0
    BY <2>1, <1>3 DEF Moves, SameMachine
  <2> QED BY <2>2, <1>7 DEF t
<1> QED BY <1>6, <1>7

LEMMA MachineChecked ==
    ASSUME NEW s, DOMAIN s = Fields, CardShape(s.mc), NEW b, s.mc.state = "WRITE_CHK"
    PROVE  LET c == s.mc
               t == mc_process_byte(s, b)
           IN  /\ SameSocket(s, t) /\ t.mc.state = "WRITE_ACK1"
               /\ t.mc.cmd = c.cmd /\ t.mc.msb = c.msb /\ t.mc.lsb = c.lsb
               /\ t.mc.data = c.data /\ t.mc.idx = c.idx
               /\ t.mc.chk = GOOD => Accepts(c, b)
               /\ t.write = IF Accepts(c, b)
                            THEN {[slot |-> s.mcslot, sector |-> Sector(c), data |-> c.data]}
                            ELSE {}
<1> DEFINE c == s.mc
           t == mc_process_byte(s, b)
           verdict == IF Accepts(c, b) THEN GOOD ELSE IF Sector(c) >= Sectors THEN HIGH ELSE NOTGOOD
           w == IF Accepts(c, b)
                THEN {[slot |-> s.mcslot, sector |-> Sector(c), data |-> c.data]}
                ELSE {}
           u == [s EXCEPT !.mc.chk = verdict, !.write = w]
<1>1. t = CardStep(u, "WRITE_ACK1", 0)
  BY DEF mc_process_byte, mc_checked
<1>2. verdict = GOOD => Accepts(c, b)
  <2> HIDE DEF c
  <2> QED BY DEF GOOD, HIGH, NOTGOOD
<1>3. DOMAIN c = CardFields
  BY DEF CardShape, CardFields
<1> HIDE DEF verdict, w, t
<1>4. DOMAIN u = Fields /\ SameSocket(s, u) /\ u.write = w /\ u.mc = [c EXCEPT !.chk = verdict]
  BY DEF Fields, SameSocket
<1>5. /\ DOMAIN u.mc = CardFields /\ u.mc.chk = verdict /\ u.mc.cmd = c.cmd /\ u.mc.msb = c.msb
      /\ u.mc.lsb = c.lsb /\ u.mc.data = c.data /\ u.mc.idx = c.idx
  BY <1>3, <1>4 DEF CardFields
<1> HIDE DEF u
<1>6. Moves(u, t, u.mc, "WRITE_ACK1", 0)
  BY <1>1, <1>4, <1>5, StepMoves
<1>7. /\ SameSocket(s, t) /\ t.mc.state = "WRITE_ACK1"
      /\ t.mc.cmd = c.cmd /\ t.mc.msb = c.msb /\ t.mc.lsb = c.lsb
      /\ t.mc.data = c.data /\ t.mc.idx = c.idx /\ t.mc.chk = verdict /\ t.write = w
  BY <1>4, <1>5, <1>6 DEF Moves, SameMachine, SameSocket
<1>8. t.mc.chk = GOOD => Accepts(c, b)
  BY <1>2, <1>7
<1> QED BY <1>7, <1>8, Zenon DEF t, w

LEMMA MachineSelected ==
    ASSUME NEW s, DOMAIN s = Fields, CardShape(s.mc), NEW b, s.mc.state = "IDLE",
           NEW t, t = mc_process_byte(s, b)
    PROVE  /\ t.dev = s.dev /\ t.slot = s.slot /\ t.mcslot = s.slot /\ t.write = s.write
           /\ SameMachine(s.mc, t.mc)
           /\ card[s.slot].present => t.mc.state = "CMD"
           /\ ~ card[s.slot].present => t.mc.state = "IDLE" /\ ~ t.heard
<1> DEFINE u == [s EXCEPT !.mcslot = s.slot]
<1>1. /\ card[s.slot].present => t = CardStep(u, "CMD", HIGH)
      /\ ~ card[s.slot].present => t = CardStep(u, "IDLE", HIGH)
  BY DEF mc_process_byte
<1>2. /\ DOMAIN u = Fields /\ u.dev = s.dev /\ u.slot = s.slot /\ u.mcslot = s.slot
      /\ u.write = s.write /\ u.mc = s.mc
  BY DEF Fields
<1>3. DOMAIN u.mc = CardFields
  BY <1>2 DEF CardShape, CardFields
<1> HIDE DEF u
<1>4. \A next, r : /\ Moves(u, CardStep(u, next, r), u.mc, next, r)
                   /\ CardStep(u, next, r).heard <=> next # "IDLE"
  BY <1>2, <1>3, StepMoves
<1>5. /\ card[s.slot].present => Moves(u, t, u.mc, "CMD", HIGH)
      /\ ~ card[s.slot].present => Moves(u, t, u.mc, "IDLE", HIGH) /\ ~ t.heard
  BY <1>1, <1>4
<1>6. /\ t.dev = s.dev /\ t.slot = s.slot /\ t.mcslot = s.slot /\ t.write = s.write
      /\ SameMachine(s.mc, t.mc)
      /\ card[s.slot].present => t.mc.state = "CMD"
      /\ ~ card[s.slot].present => t.mc.state = "IDLE" /\ ~ t.heard
  BY <1>2, <1>5 DEF Moves, SameSocket
<1> QED BY <1>6

----------------------------------------------------------------------------
(* A card and the script of its transfer: where the machine stands after k  *)
(* bytes.                                                                   *)

SectorData == [1..SectorBytes -> Nat]
Image == [0..Sectors - 1 -> SectorData]
ImagesTyped(cd) == \A i \in Slots : cd[i].data \in Image

TheWrite(j) == [slot |-> j.slot, sector |-> j.lsb, data |-> j.data]

\* The sector is on the card, or will be at the end of this chunk of time.
Stored(cd, s, j) ==
    /\ j.lsb < Sectors
    /\ \/ s.write = {TheWrite(j)}
       \/ s.write = {} /\ cd[j.slot].data[j.lsb] = j.data

SelectAt(c, j, k) ==
    /\ k = 1 => c.state = "CMD"
    /\ k = 2 => c.state = "ID1"
    /\ k = 3 => c.state = "ID2"
    /\ k >= 2 => c.cmd = j.cmd
AddressAt(c, j, k) ==
    /\ k = 4 => c.state = "ADDR_MSB"
    /\ k = 5 => c.state = "ADDR_LSB"
    /\ k >= 5 => c.msb = 0
    /\ k >= 6 => c.lsb = j.lsb
WriteAt(cd, s, j, k) ==
    /\ k <= 10 + SectorBytes
    /\ AddressAt(s.mc, j, k)
    /\ k \in 6..5 + SectorBytes => s.mc.state = "WRITE_DATA"
    /\ k = 6 + SectorBytes => s.mc.state = "WRITE_CHK"
    /\ k = 7 + SectorBytes => s.mc.state = "WRITE_ACK1"
    /\ k = 8 + SectorBytes => s.mc.state = "WRITE_ACK2"
    /\ k = 9 + SectorBytes => s.mc.state = "WRITE_END"
    /\ k = 10 + SectorBytes => s.mc.state = "IDLE"
    /\ k \in 6..6 + SectorBytes =>
          s.mc.idx = k - 6 /\ \A i \in 1..k - 6 : s.mc.data[i] = j.data[i]
    /\ k <= 6 + SectorBytes => s.write = {}
    /\ k \in 7 + SectorBytes..9 + SectorBytes /\ s.mc.chk = GOOD => Stored(cd, s, j)
    /\ s.write \subseteq {TheWrite(j)}
ReadAt(cd, s, j, k) ==
    /\ k <= 12 + SectorBytes
    /\ AddressAt(s.mc, j, k)
    /\ k = 6 => s.mc.state = "READ_ACK1"
    /\ k = 7 => s.mc.state = "READ_ACK2"
    /\ k = 8 => s.mc.state = "READ_MSB_ECHO"
    /\ k = 9 => s.mc.state = "READ_LSB_ECHO"
    /\ k \in 10..9 + SectorBytes => s.mc.state = "READ_DATA"
    /\ k = 10 + SectorBytes => s.mc.state = "READ_CHK"
    /\ k = 11 + SectorBytes => s.mc.state = "READ_END"
    /\ k = 12 + SectorBytes => s.mc.state = "IDLE"
    /\ k >= 6 /\ j.lsb < Sectors => s.mc.data = cd[j.slot].data[j.lsb]
    /\ k \in 10..10 + SectorBytes => s.mc.idx = k - 10
    /\ s.write = {}
IdAt(s, k) ==
    /\ k <= 8
    /\ k = 4 => s.mc.state = "GETID_1"
    /\ k = 5 => s.mc.state = "GETID_2"
    /\ k = 6 => s.mc.state = "GETID_3"
    /\ k = 7 => s.mc.state = "GETID_4"
    /\ k = 8 => s.mc.state = "IDLE"
    /\ s.write = {}
CardAt(cd, s, j, k) ==
    /\ k \in Nat \ {0}
    /\ s.dev = "card" /\ s.slot = j.slot /\ s.mcslot = j.slot /\ cd[j.slot].present
    /\ s.mc.data \in SectorData
    /\ SelectAt(s.mc, j, k)
    /\ j.cmd = WRITE => WriteAt(cd, s, j, k)
    /\ j.cmd = READ => ReadAt(cd, s, j, k)
    /\ j.cmd = GETID => IdAt(s, k)

\* The answer the driver finds after k bytes.
ReplyAt(cd, s, j, k) ==
    /\ j.cmd = WRITE /\ k = 10 + SectorBytes /\ s.rx = GOOD => Stored(cd, s, j)
    /\ j.cmd = READ /\ k \in 11..10 + SectorBytes /\ j.lsb < Sectors =>
          s.rx = cd[j.slot].data[j.lsb][k - 10]
    /\ j.cmd = READ /\ k = 12 + SectorBytes /\ s.rx = GOOD => j.lsb < Sectors

LEMMA SelectByte ==
    ASSUME NEW j \in Jobs, j.dev = "card", NEW s, DOMAIN s = Fields, CardShape(s.mc),
           NEW k \in 1..3, CardAt(card, s, j, k),
           NEW t, t = mc_process_byte(s, Script(j)[k + 1])
    PROVE  CardAt(card, t, j, k + 1) /\ ReplyAt(card, t, j, k + 1)
<1> DEFINE b == Script(j)[k + 1]
           c == s.mc
<1>1. /\ j.cmd \in {READ, WRITE, GETID} /\ Script(j)[2] = j.cmd
      /\ SectorBytes \in Nat \ {0}
  BY JobIs, ScriptIs
<1>2. DOMAIN c = CardFields
  BY DEF CardShape, CardFields
<1>3. /\ s.dev = "card" /\ s.slot = j.slot /\ s.mcslot = j.slot /\ card[j.slot].present
      /\ c.data \in SectorData /\ SelectAt(c, j, k) /\ s.write = {}
  BY <1>1 DEF CardAt, WriteAt, ReadAt, IdAt, READ, WRITE, GETID
<1> SUFFICES /\ SameSocket(s, t) /\ t.write = s.write /\ t.mc.data = c.data
             /\ SelectAt(t.mc, j, k + 1)
             /\ k = 3 => t.mc.state = IF j.cmd = GETID THEN "GETID_1" ELSE "ADDR_MSB"
  BY <1>1, <1>3 DEF CardAt, WriteAt, ReadAt, IdAt, AddressAt, SameSocket, ReplyAt, READ, WRITE, GETID
<1>4. CASE k = 1
  <2> DEFINE m == [c EXCEPT !.cmd = b]
  <2>1. b = j.cmd /\ c.state = "CMD"
    BY <1>1, <1>3, <1>4 DEF SelectAt
  <2>2. m.cmd = j.cmd /\ m.data = c.data
    BY <2>1, <1>2 DEF CardFields
  <2>3. Moves(s, t, m, "ID1", c.flag)
    BY <2>1, <1>1, MachineNotes
  <2> HIDE DEF m, b, c
  <2> QED BY <2>2, <2>3, <1>4 DEF Moves, SameMachine, SelectAt
<1>5. CASE k = 2
  <2>1. c.state = "ID1" /\ c.cmd = j.cmd
    BY <1>3, <1>5 DEF SelectAt
  <2>2. Moves(s, t, c, "ID2", 90)
    BY <2>1, MachineGoesOn
  <2> QED BY <2>1, <2>2, <1>5 DEF Moves, SameMachine, SelectAt
<1>6. CASE k = 3
  <2>1. c.state = "ID2" /\ c.cmd = j.cmd
    BY <1>3, <1>6 DEF SelectAt
  <2>2. Moves(s, t, c, IF c.cmd = GETID THEN "GETID_1" ELSE "ADDR_MSB", 93)
    BY <2>1, MachineGoesOn
  <2> QED BY <2>1, <2>2, <1>6 DEF Moves, SameMachine, SelectAt
<1> QED BY <1>4, <1>5, <1>6

LEMMA IdByte ==
    ASSUME NEW j \in Jobs, j.dev = "card", j.cmd = GETID, NEW s, DOMAIN s = Fields,
           CardShape(s.mc), NEW k \in 4..7, CardAt(card, s, j, k), NEW b,
           NEW t, t = mc_process_byte(s, b)
    PROVE  CardAt(card, t, j, k + 1) /\ ReplyAt(card, t, j, k + 1)
<1> DEFINE c == s.mc
<1>1. /\ s.dev = "card" /\ s.slot = j.slot /\ s.mcslot = j.slot /\ card[j.slot].present
      /\ c.data \in SectorData /\ c.cmd = GETID /\ s.write = {} /\ IdAt(s, k)
  BY DEF CardAt, IdAt, SelectAt
<1>2. /\ k = 4 => Moves(s, t, c, "GETID_2", 4)
      /\ k = 5 => Moves(s, t, c, "GETID_3", 0)
      /\ k = 6 => Moves(s, t, c, "GETID_4", 0)
      /\ k = 7 => Moves(s, t, c, "IDLE", 128)
  <2>1. /\ k = 4 => c.state = "GETID_1"
        /\ k = 5 => c.state = "GETID_2"
        /\ k = 6 => c.state = "GETID_3"
        /\ k = 7 => c.state = "GETID_4"
    BY <1>1 DEF IdAt
  <2>2. /\ c.state = "GETID_1" => Moves(s, t, c, "GETID_2", 4)
        /\ c.state = "GETID_2" => Moves(s, t, c, "GETID_3", 0)
        /\ c.state = "GETID_3" => Moves(s, t, c, "GETID_4", 0)
        /\ c.state = "GETID_4" => Moves(s, t, c, "IDLE", 128)
    BY MachineGoesOn
  <2> QED BY <2>1, <2>2
<1>3. k \in {4, 5, 6, 7}
  OBVIOUS
<1> HIDE DEF c
<1> QED BY <1>1, <1>2, <1>3 DEF Moves, SameSocket, SameMachine, CardAt, IdAt, SelectAt, ReplyAt,
                               READ, WRITE, GETID

LEMMA SamePoints ==
    ASSUME NEW D, NEW S, NEW T, NEW f \in [D -> S], NEW g \in [D -> T], \A i \in D : f[i] = g[i]
    PROVE  f = g
OBVIOUS

LEMMA WriteByte ==
    ASSUME NEW j \in Jobs, j.dev = "card", j.cmd = WRITE, NEW s, DOMAIN s = Fields,
           CardShape(s.mc), NEW k \in 4..9 + SectorBytes, CardAt(card, s, j, k),
           NEW t, t = mc_process_byte(s, Script(j)[k + 1])
    PROVE  CardAt(card, t, j, k + 1) /\ ReplyAt(card, t, j, k + 1)
<1> DEFINE c == s.mc
           b == Script(j)[k + 1]
<1>1. /\ s.dev = "card" /\ s.slot = j.slot /\ s.mcslot = j.slot /\ card[j.slot].present
      /\ c.data \in SectorData /\ c.cmd = WRITE /\ WriteAt(card, s, j, k) /\ AddressAt(c, j, k)
  BY DEF CardAt, WriteAt, SelectAt
<1>2. /\ SectorBytes \in Nat \ {0} /\ j.data \in [1..SectorBytes -> 0..255]
      /\ j.slot \in Slots /\ j.lsb \in 0..255
  BY JobIs
<1>10. j.lsb \in Nat
  <2>1. j.lsb \in 0..255
    BY JobIs, Zenon
  <2> QED BY <2>1
<1>3. /\ Script(j)[5] = 0 /\ Script(j)[6] = j.lsb
      /\ \A i \in 1..SectorBytes : Script(j)[6 + i] = j.data[i]
  BY ScriptIs
<1>4. DOMAIN c = CardFields
  BY DEF CardShape, CardFields
<1> SUFFICES /\ SameSocket(s, t) /\ t.mc.data \in SectorData /\ t.mc.cmd = WRITE
             /\ WriteAt(card, t, j, k + 1)
             /\ k = 9 + SectorBytes /\ t.rx = GOOD => Stored(card, t, j)
  <2> DEFINE n == k + 1
  <2>1. n \in Nat \ {0} /\ n >= 4 /\ (n = 10 + SectorBytes => k = 9 + SectorBytes)
    BY <1>2
  <2>2. j.cmd # READ /\ j.cmd # GETID
    BY DEF READ, WRITE, GETID
  <2> HIDE DEF n, c, b
  <2>3. CardAt(card, t, j, n)
    <3>1. SelectAt(t.mc, j, n)
      BY <2>1 DEF SelectAt
    <3>2. t.dev = "card" /\ t.slot = j.slot /\ t.mcslot = j.slot
      BY <1>1 DEF SameSocket
    <3>3. WriteAt(card, t, j, n)
      BY DEF n
    <3> QED BY <2>1, <2>2, <3>1, <3>2, <3>3, <1>1 DEF CardAt
  <2>4. ReplyAt(card, t, j, n)
    BY <2>1, <2>2 DEF ReplyAt
  <2> QED BY <2>3, <2>4 DEF n
<1>5. CASE k = 4
  <2> DEFINE m == [c EXCEPT !.msb = b]
  <2>1. b = 0 /\ c.state = "ADDR_MSB" /\ s.write = {}
    BY <1>1, <1>2, <1>3, <1>5 DEF AddressAt, WriteAt
  <2>2. Moves(s, t, m, "ADDR_LSB", 0)
    BY <2>1, MachineNotes
  <2>3. m.cmd = c.cmd /\ m.msb = 0 /\ m.data = c.data
    BY <2>1, <1>4 DEF CardFields
  <2> HIDE DEF m, c, b
  <2> QED BY <1>1, <1>2, <1>5, <2>1, <2>2, <2>3 DEF Moves, SameMachine, WriteAt, AddressAt
<1>6. CASE k = 5
  <2>1. b = j.lsb /\ c.state = "ADDR_LSB" /\ s.write = {} /\ c.msb = 0
    BY <1>1, <1>2, <1>3, <1>6 DEF AddressAt, WriteAt
  <2>2. /\ SameSocket(s, t) /\ t.write = s.write
        /\ t.mc.cmd = c.cmd /\ t.mc.msb = 0 /\ t.mc.lsb = b
        /\ t.mc.state = "WRITE_DATA" /\ t.mc.data = c.data /\ t.mc.idx = 0
    <3>1. b \in Nat
      BY <2>1, <1>10, Zenon
    <3> QED BY <3>1, <2>1, <1>1, MachineAddressed DEF READ, WRITE
  <2> HIDE DEF c, b
  <2> QED BY <1>1, <1>2, <1>6, <2>1, <2>2 DEF WriteAt, AddressAt
<1>7. CASE k \in 6..5 + SectorBytes
  <2> DEFINE m == [c EXCEPT !.data[c.idx + 1] = b, !.idx = @ + 1]
             next == IF LastByte(c) THEN "WRITE_CHK" ELSE "WRITE_DATA"
  <2>1. /\ c.state = "WRITE_DATA" /\ c.idx = k - 6 /\ s.write = {} /\ c.msb = 0 /\ c.lsb = j.lsb
        /\ \A i \in 1..k - 6 : c.data[i] = j.data[i]
    BY <1>1, <1>2, <1>7 DEF AddressAt, WriteAt
  <2>2. b = j.data[k - 5] /\ b \in Nat
    <3>1. k - 5 \in 1..SectorBytes /\ 6 + (k - 5) = k + 1
      BY <1>2, <1>7
    <3>2. b = j.data[k - 5]
      BY <3>1, <1>3
    <3>3. j.data[k - 5] \in 0..255
      BY <3>1, <1>2
    <3> QED BY <3>2, <3>3
  <2>3. Moves(s, t, m, next, 0)
    BY <2>1, MachineNotes
  <2>4. /\ m.cmd = c.cmd /\ m.msb = c.msb /\ m.lsb = c.lsb /\ m.idx = c.idx + 1
        /\ m.data = [c.data EXCEPT ![c.idx + 1] = b]
    BY <1>4 DEF CardFields
  <2>5. next = IF k = 5 + SectorBytes THEN "WRITE_CHK" ELSE "WRITE_DATA"
    BY <2>1, <1>2, <1>7 DEF LastByte
  <2> HIDE DEF m, b, next
  <2>6. /\ SameSocket(s, t) /\ t.write = {} /\ t.mc.state = next
        /\ t.mc.cmd = WRITE /\ t.mc.msb = 0 /\ t.mc.lsb = j.lsb /\ t.mc.idx = k - 5
        /\ t.mc.data = [c.data EXCEPT ![k - 5] = b]
    BY <2>1, <2>3, <2>4, <1>1, <1>7 DEF Moves, SameMachine
  <2> HIDE DEF c
  <2>7. t.mc.data \in SectorData /\ \A i \in 1..k - 5 : t.mc.data[i] = j.data[i]
    <3> DEFINE d == t.mc.data
    <3>1. k - 5 \in 1..SectorBytes /\ \A i \in 1..k - 5 : i \in 1..SectorBytes /\ (i # k - 5 => i \in 1..k - 6)
      BY <1>2, <1>7
    <3>2. c.data \in [1..SectorBytes -> Nat]
      BY <1>1 DEF SectorData
    <3>3. d \in [1..SectorBytes -> Nat]
      BY <2>2, <2>6, <3>2
    <3>4. \A i \in 1..SectorBytes : d[i] = IF i = k - 5 THEN b ELSE c.data[i]
      BY <2>6, <3>1, <3>2
    <3> HIDE DEF d
    <3>5. \A i \in 1..k - 5 : d[i] = j.data[i]
      BY <2>1, <2>2, <3>1, <3>4
    <3> QED BY <3>3, <3>5 DEF SectorData, d
  <2> QED BY <2>5, <2>6, <2>7, <1>2, <1>7 DEF WriteAt, AddressAt
<1>8. CASE k = 6 + SectorBytes
  <2>1. /\ c.state = "WRITE_CHK" /\ c.msb = 0 /\ c.lsb = j.lsb
        /\ \A i \in 1..SectorBytes : c.data[i] = j.data[i]
    BY <1>1, <1>2, <1>8 DEF AddressAt, WriteAt
  <2>2. c.data = j.data /\ Sector(c) = j.lsb
    <3>1. c.data \in [1..SectorBytes -> Nat]
      BY <1>1 DEF SectorData
    <3>2. c.data = j.data
      BY <3>1, <2>1, <1>2, SamePoints
    <3>3. c.msb = 0 /\ c.lsb = j.lsb /\ j.lsb \in 0..255
      BY <2>1, <1>2, Zenon
    <3> HIDE DEF c
    <3>4. Sector(c) = j.lsb
      BY <3>3 DEF Sector
    <3> QED BY <3>2, <3>4
  <2>3. /\ SameSocket(s, t) /\ t.mc.state = "WRITE_ACK1"
        /\ t.mc.cmd = c.cmd /\ t.mc.msb = c.msb /\ t.mc.lsb = c.lsb
        /\ t.mc.data = c.data /\ t.mc.idx = c.idx
        /\ t.mc.chk = GOOD => Accepts(c, b)
        /\ t.write = IF Accepts(c, b)
                     THEN {[slot |-> s.mcslot, sector |-> Sector(c), data |-> c.data]}
                     ELSE {}
    BY <2>1, MachineChecked
  <2> HIDE DEF c, b
  <2>4. Accepts(c, b) => j.lsb < Sectors
    BY <2>2 DEF Accepts
  <2>5. t.write = IF Accepts(c, b) THEN {TheWrite(j)} ELSE {}
    BY <2>2, <2>3, <1>1 DEF TheWrite
  <2>6. t.write \subseteq {TheWrite(j)} /\ (t.mc.chk = GOOD => Stored(card, t, j))
    BY <2>3, <2>4, <2>5 DEF Stored
  <2>7. /\ SameSocket(s, t) /\ t.mc.state = "WRITE_ACK1" /\ t.mc.cmd = WRITE
        /\ t.mc.msb = 0 /\ t.mc.lsb = j.lsb /\ t.mc.data \in SectorData
    BY <2>1, <2>3, <1>1, Zenon
  <2> QED BY <2>6, <2>7, <1>2, <1>8 DEF WriteAt, AddressAt
<1>9. CASE k \in 7 + SectorBytes..9 + SectorBytes
  <2>1. /\ c.msb = 0 /\ c.lsb = j.lsb /\ (c.chk = GOOD => Stored(card, s, j))
        /\ s.write \subseteq {TheWrite(j)}
    BY <1>1, <1>2, <1>9 DEF AddressAt, WriteAt
  <2>2. /\ k = 7 + SectorBytes => Moves(s, t, c, "WRITE_ACK2", 92)
        /\ k = 8 + SectorBytes => Moves(s, t, c, "WRITE_END", 93)
        /\ k = 9 + SectorBytes => Moves(s, t, c, "IDLE", c.chk)
    <3>1. /\ k = 7 + SectorBytes => c.state = "WRITE_ACK1"
          /\ k = 8 + SectorBytes => c.state = "WRITE_ACK2"
          /\ k = 9 + SectorBytes => c.state = "WRITE_END"
      BY <1>1 DEF WriteAt
    <3>2. /\ c.state = "WRITE_ACK1" => Moves(s, t, c, "WRITE_ACK2", 92)
          /\ c.state = "WRITE_ACK2" => Moves(s, t, c, "WRITE_END", 93)
      BY MachineGoesOn
    <3>3. c.state = "WRITE_END" => Moves(s, t, c, "IDLE", c.chk)
      BY MachineNotes
    <3> QED BY <3>1, <3>2, <3>3
  <2> HIDE DEF c
  <2>3. /\ SameSocket(s, t) /\ t.write = s.write /\ SameMachine(c, t.mc)
        /\ k = 7 + SectorBytes => t.mc.state = "WRITE_ACK2"
        /\ k = 8 + SectorBytes => t.mc.state = "WRITE_END"
        /\ k = 9 + SectorBytes => t.mc.state = "IDLE" /\ t.rx = c.chk
    BY <2>2, <1>2, <1>9 DEF Moves
  <2>4. Stored(card, s, j) => Stored(card, t, j)
    BY <2>3 DEF Stored
  <2> QED BY <2>1, <2>3, <2>4, <1>1, <1>2, <1>9 DEF WriteAt, AddressAt, SameMachine
<1> QED BY <1>2, <1>5, <1>6, <1>7, <1>8, <1>9

LEMMA ReadByte ==
    ASSUME NEW j \in Jobs, j.dev = "card", j.cmd = READ, NEW s, DOMAIN s = Fields,
           CardShape(s.mc), ImagesTyped(card),
           NEW k \in 4..11 + SectorBytes, CardAt(card, s, j, k),
           NEW t, t = mc_process_byte(s, Script(j)[k + 1])
    PROVE  CardAt(card, t, j, k + 1) /\ ReplyAt(card, t, j, k + 1)
<1> DEFINE c == s.mc
           b == Script(j)[k + 1]
           sector == card[j.slot].data[j.lsb]
<1>1. /\ s.dev = "card" /\ s.slot = j.slot /\ s.mcslot = j.slot /\ card[j.slot].present
      /\ c.data \in SectorData /\ c.cmd = READ /\ ReadAt(card, s, j, k) /\ AddressAt(c, j, k)
      /\ s.write = {}
  BY DEF CardAt, ReadAt, SelectAt
<1>2. SectorBytes \in Nat \ {0} /\ j.slot \in Slots /\ j.lsb \in 0..255 /\ j.lsb \in Nat
  <2>1. SectorBytes \in Nat \ {0} /\ j.slot \in Slots /\ j.lsb \in 0..255
    BY JobIs
  <2> QED BY <2>1
<1>3. Script(j)[5] = 0 /\ Script(j)[6] = j.lsb
  BY ScriptIs
<1>4. DOMAIN c = CardFields
  BY DEF CardShape, CardFields
<1> SUFFICES /\ SameSocket(s, t) /\ t.mc.data \in SectorData /\ t.mc.cmd = READ
             /\ ReadAt(card, t, j, k + 1)
             /\ k \in 10..9 + SectorBytes /\ j.lsb < Sectors => t.rx = sector[k - 9]
             /\ k = 11 + SectorBytes /\ t.rx = GOOD => j.lsb < Sectors
  <2> DEFINE n == k + 1
  <2>1. /\ n \in Nat \ {0} /\ n >= 4 /\ n - 10 = k - 9
        /\ n \in 11..10 + SectorBytes => k \in 10..9 + SectorBytes
        /\ n = 12 + SectorBytes => k = 11 + SectorBytes
    BY <1>2
  <2>2. j.cmd # WRITE /\ j.cmd # GETID
    BY DEF READ, WRITE, GETID
  <2>3. ReadAt(card, t, j, n)
    OBVIOUS
  <2> HIDE DEF n, c, b
  <2>4. CardAt(card, t, j, n)
    <3>1. SelectAt(t.mc, j, n)
      BY <2>1 DEF SelectAt
    <3>2. t.dev = "card" /\ t.slot = j.slot /\ t.mcslot = j.slot
      BY <1>1 DEF SameSocket
    <3> QED BY <2>1, <2>2, <2>3, <3>1, <3>2, <1>1 DEF CardAt
  <2>5. ReplyAt(card, t, j, n)
    BY <2>1, <2>2 DEF ReplyAt
  <2> QED BY <2>4, <2>5 DEF n
<1>5. CASE k = 4
  <2> DEFINE m == [c EXCEPT !.msb = b]
  <2>1. b = 0 /\ c.state = "ADDR_MSB"
    BY <1>1, <1>2, <1>3, <1>5 DEF AddressAt
  <2>2. Moves(s, t, m, "ADDR_LSB", 0)
    BY <2>1, MachineNotes
  <2>3. m.cmd = c.cmd /\ m.msb = 0 /\ m.data = c.data
    BY <2>1, <1>4 DEF CardFields
  <2> HIDE DEF m, c, b
  <2> QED BY <1>1, <1>2, <1>5, <2>1, <2>2, <2>3 DEF Moves, SameMachine, ReadAt, AddressAt
<1>6. CASE k = 5
  <2>1. b = j.lsb /\ c.state = "ADDR_LSB" /\ c.msb = 0
    BY <1>1, <1>2, <1>3, <1>6 DEF AddressAt
  <2> DEFINE high == [i \in 1..SectorBytes |-> HIGH]
  <2>2. /\ SameSocket(s, t) /\ t.write = s.write
        /\ t.mc.cmd = c.cmd /\ t.mc.msb = 0 /\ t.mc.lsb = b
        /\ t.mc.state = "READ_ACK1"
        /\ b < Sectors => t.mc.data = card[s.mcslot].data[b]
        /\ ~ (b < Sectors) => t.mc.data = high
    BY <2>1, <1>1, <1>2, MachineAddressed
  <2>3. high \in SectorData
    BY DEF SectorData, HIGH
  <2>4. j.lsb < Sectors => sector \in SectorData
    <3>1. j.lsb < Sectors => j.lsb \in 0..Sectors - 1
      BY <1>2, SerialAssumption
    <3>2. card[j.slot].data \in Image
      BY <1>2 DEF ImagesTyped
    <3> QED BY <3>1, <3>2 DEF Image
  <2> HIDE DEF c, b, high
  <2>5. t.mc.data \in SectorData /\ (j.lsb < Sectors => t.mc.data = sector)
    BY <2>1, <2>2, <2>3, <2>4, <1>1
  <2> QED BY <1>1, <1>2, <1>6, <2>1, <2>2, <2>5 DEF ReadAt, AddressAt
<1>7. CASE k \in {6, 7, 8}
  <2>1. c.msb = 0 /\ c.lsb = j.lsb /\ (j.lsb < Sectors => c.data = sector)
    BY <1>1, <1>2, <1>7 DEF AddressAt, ReadAt
  <2>2. /\ k = 6 => Moves(s, t, c, "READ_ACK2", 92)
        /\ k = 7 => Moves(s, t, c, "READ_MSB_ECHO", 93)
        /\ k = 8 => Moves(s, t, c, "READ_LSB_ECHO", c.msb)
    <3>1. /\ k = 6 => c.state = "READ_ACK1"
          /\ k = 7 => c.state = "READ_ACK2"
          /\ k = 8 => c.state = "READ_MSB_ECHO"
      BY <1>1 DEF ReadAt
    <3>2. /\ c.state = "READ_ACK1" => Moves(s, t, c, "READ_ACK2", 92)
          /\ c.state = "READ_ACK2" => Moves(s, t, c, "READ_MSB_ECHO", 93)
          /\ c.state = "READ_MSB_ECHO" => Moves(s, t, c, "READ_LSB_ECHO", c.msb)
      BY MachineGoesOn
    <3> QED BY <3>1, <3>2
  <2> HIDE DEF c, sector
  <2>3. /\ SameSocket(s, t) /\ t.write = s.write /\ SameMachine(c, t.mc)
        /\ k = 6 => t.mc.state = "READ_ACK2"
        /\ k = 7 => t.mc.state = "READ_MSB_ECHO"
        /\ k = 8 => t.mc.state = "READ_LSB_ECHO"
    BY <2>2, <1>7 DEF Moves
  <2> QED BY <2>1, <2>3, <1>1, <1>2, <1>7 DEF ReadAt, AddressAt, SameMachine, sector
<1>8. CASE k = 9
  <2> DEFINE m == [c EXCEPT !.idx = 0]
  <2>1. /\ c.msb = 0 /\ c.lsb = j.lsb /\ (j.lsb < Sectors => c.data = sector)
        /\ c.state = "READ_LSB_ECHO"
    BY <1>1, <1>2, <1>8 DEF AddressAt, ReadAt
  <2>2. Moves(s, t, m, "READ_DATA", c.lsb)
    BY <2>1, MachineNotes
  <2>3. m.cmd = c.cmd /\ m.msb = c.msb /\ m.lsb = c.lsb /\ m.data = c.data /\ m.idx = 0
    BY <1>4 DEF CardFields
  <2> HIDE DEF m, c
  <2> QED BY <2>1, <2>2, <2>3, <1>1, <1>2, <1>8 DEF Moves, ReadAt, AddressAt, SameMachine
<1>9. CASE k \in 10..9 + SectorBytes
  <2> DEFINE m == [c EXCEPT !.idx = @ + 1]
             next == IF LastByte(c) THEN "READ_CHK" ELSE "READ_DATA"
  <2>1. /\ c.msb = 0 /\ c.lsb = j.lsb /\ (j.lsb < Sectors => c.data = sector)
        /\ c.state = "READ_DATA" /\ c.idx = k - 10
    BY <1>1, <1>2, <1>9 DEF AddressAt, ReadAt
  <2>2. Moves(s, t, m, next, c.data[c.idx + 1])
    BY <2>1, MachineNotes
  <2>3. /\ m.cmd = c.cmd /\ m.msb = c.msb /\ m.lsb = c.lsb /\ m.data = c.data
        /\ m.idx = c.idx + 1
    BY <1>4 DEF CardFields
  <2>4. next = IF k = 9 + SectorBytes THEN "READ_CHK" ELSE "READ_DATA"
    BY <2>1, <1>2, <1>9 DEF LastByte
  <2>5. c.idx + 1 = k - 9
    BY <2>1, <1>9
  <2> HIDE DEF m, c, next, sector
  <2>6. /\ SameSocket(s, t) /\ t.write = s.write /\ t.mc.state = next
        /\ t.mc.cmd = READ /\ t.mc.msb = 0 /\ t.mc.lsb = j.lsb /\ t.mc.data = c.data
        /\ t.mc.idx = k - 9 /\ t.rx = c.data[k - 9]
    BY <2>1, <2>2, <2>3, <2>5, <1>1 DEF Moves, SameMachine
  <2> QED BY <2>1, <2>4, <2>6, <1>1, <1>2, <1>9 DEF ReadAt, AddressAt, sector
<1>10. CASE k \in 10 + SectorBytes..11 + SectorBytes
  <2>1. c.msb = 0 /\ c.lsb = j.lsb /\ (j.lsb < Sectors => c.data = sector)
    BY <1>1, <1>2, <1>10 DEF AddressAt, ReadAt
  <2>2. /\ k = 10 + SectorBytes => Moves(s, t, c, "READ_END", c.chk)
        /\ k = 11 + SectorBytes =>
              Moves(s, t, c, "IDLE", IF Sector(c) < Sectors THEN GOOD ELSE HIGH)
    <3>1. /\ k = 10 + SectorBytes => c.state = "READ_CHK"
          /\ k = 11 + SectorBytes => c.state = "READ_END"
      BY <1>1 DEF ReadAt
    <3>2. /\ c.state = "READ_CHK" => Moves(s, t, c, "READ_END", c.chk)
          /\ c.state = "READ_END" =>
                Moves(s, t, c, "IDLE", IF Sector(c) < Sectors THEN GOOD ELSE HIGH)
      BY MachineGoesOn
    <3> QED BY <3>1, <3>2
  <2> HIDE DEF c, sector
  <2>3. Sector(c) = j.lsb
    BY <2>1, <1>2 DEF Sector
  <2>4. /\ SameSocket(s, t) /\ t.write = s.write /\ SameMachine(c, t.mc)
        /\ k = 10 + SectorBytes => t.mc.state = "READ_END"
        /\ k = 11 + SectorBytes => /\ t.mc.state = "IDLE"
                                   /\ t.rx = GOOD => j.lsb < Sectors
    BY <2>2, <2>3, <1>2, <1>10 DEF Moves, GOOD, HIGH
  <2> QED BY <2>1, <2>4, <1>1, <1>2, <1>10 DEF ReadAt, AddressAt, SameMachine, sector
<1> QED BY <1>2, <1>5, <1>6, <1>7, <1>8, <1>9, <1>10

\* The next byte of the script, once the card is selected.
LEMMA CardByte ==
    ASSUME NEW j \in Jobs, j.dev = "card", NEW s, DOMAIN s = Fields, CardShape(s.mc),
           ImagesTyped(card), NEW k, CardAt(card, s, j, k), k < Len(Script(j)),
           NEW t, t = sio_process_byte(s, Script(j)[k + 1])
    PROVE  CardAt(card, t, j, k + 1) /\ ReplyAt(card, t, j, k + 1)
<1> DEFINE b == Script(j)[k + 1]
<1>1. j.cmd \in {READ, WRITE, GETID} /\ SectorBytes \in Nat \ {0} /\ k \in Nat \ {0}
  BY JobIs DEF CardAt
<1>2. /\ j.cmd = READ => k < 12 + SectorBytes
      /\ j.cmd = WRITE => k < 10 + SectorBytes
      /\ j.cmd = GETID => k < 8
  BY ScriptIs
<1>3. s.dev = "card" /\ s.mc.state # "IDLE"
  BY <1>1, <1>2 DEF CardAt, SelectAt, WriteAt, ReadAt, IdAt, AddressAt
<1>4. t = mc_process_byte(s, b)
  BY <1>3 DEF sio_process_byte
<1>5. CASE k \in 1..3
  BY <1>4, <1>5, SelectByte
<1>6. CASE j.cmd = GETID /\ k \in 4..7
  BY <1>4, <1>6, IdByte
<1>7. CASE j.cmd = WRITE /\ k \in 4..9 + SectorBytes
  BY <1>4, <1>7, WriteByte
<1>8. CASE j.cmd = READ /\ k \in 4..11 + SectorBytes
  BY <1>4, <1>8, ReadByte
<1> QED BY <1>1, <1>2, <1>5, <1>6, <1>7, <1>8

\* The bits of CTRL in a transfer.
CtrlOf(j) == {"TX_EN", "SELECT", "ACK_IRQ_EN"} \cup (IF j.slot = 1 THEN {"SLOT"} ELSE {})

\* The device after k bytes: nobody before the first; a slot without a card takes one byte
\* and does not acknowledge it; a pad never touches a card.
DeviceAt(cd, s, j, k) ==
    /\ j.dev = "pad" => s.write = {} /\ s.dev = IF k = 0 THEN "none" ELSE "pad"
    /\ j.dev = "card" =>
          \/ k = 0 /\ s.dev = "none" /\ s.owner # "pad" /\ s.write = {}
          \/ k = 1 /\ s.dev = "card" /\ s.mc.state = "IDLE" /\ ~ s.heard /\ s.write = {}
          \/ CardAt(cd, s, j, k)

\* The machines of the two slots wait with a whole sector's data.
SavedTyped(s) ==
    /\ \A i \in Slots : s.saved[i].data \in SectorData
    /\ s.dev = "none" => s.mc.state = "IDLE"

LEMMA FirstByte ==
    ASSUME NEW j \in Jobs, j.dev = "card", NEW s, DOMAIN s = Fields, DeviceShape(s),
           SavedTyped(s), s.dev = "none", s.ctrl = CtrlOf(j), s.write = {},
           NEW t, t = sio_process_byte(s, Script(j)[1])
    PROVE  DeviceAt(card, t, j, 1) /\ ReplyAt(card, t, j, 1)
<1> DEFINE a == Aimed(s)
           loaded == mc_load_slot(a)
           u == [loaded EXCEPT !.mc.state = "IDLE", !.dev = "card", !.mcslot = a.slot]
<1>1. /\ Script(j)[1] = CARD /\ j.slot \in Slots /\ SectorBytes \in Nat \ {0}
      /\ j.cmd \in {READ, WRITE, GETID}
  BY ScriptIs, JobIs
<1>2. DOMAIN a = Fields /\ a.slot = j.slot /\ a.write = {} /\ a.saved = s.saved
  <2>1. j.slot = IF "SLOT" \in s.ctrl THEN 1 ELSE 0
    BY <1>1 DEF CtrlOf, Slots
  <2> QED BY <2>1 DEF Aimed, Fields
<1>3. t = mc_process_byte(u, CARD)
  <2> HIDE DEF u, a, loaded
  <2> QED BY <1>1 DEF sio_process_byte, PAD, CARD, u, a, loaded
<1> HIDE DEF a
<1>4. DOMAIN loaded = Fields /\ loaded.slot = j.slot /\ loaded.write = {} /\ loaded.mc = s.saved[j.slot]
  BY <1>2 DEF mc_load_slot, Fields
<1> HIDE DEF loaded
<1>5. /\ DOMAIN u = Fields /\ u.dev = "card" /\ u.slot = j.slot /\ u.write = {}
      /\ u.mc = [s.saved[j.slot] EXCEPT !.state = "IDLE"]
  BY <1>2, <1>4 DEF Fields
<1>6. CardShape(s.saved[j.slot]) /\ s.saved[j.slot].data \in SectorData
  BY <1>1 DEF DeviceShape, SavedTyped
<1>7. CardShape(u.mc) /\ u.mc.data \in SectorData /\ u.mc.state = "IDLE"
  BY <1>5, <1>6 DEF CardShape, CardStates
<1>12. DOMAIN u = Fields
  BY <1>5
<1> HIDE DEF u
<1>8. /\ t.dev = u.dev /\ t.slot = u.slot /\ t.mcslot = u.slot /\ t.write = u.write
      /\ SameMachine(u.mc, t.mc)
      /\ card[u.slot].present => t.mc.state = "CMD"
      /\ ~ card[u.slot].present => t.mc.state = "IDLE" /\ ~ t.heard
  BY <1>3, <1>12, <1>7, MachineSelected
<1>9. /\ t.dev = "card" /\ t.slot = j.slot /\ t.mcslot = j.slot /\ t.write = {}
      /\ t.mc.data \in SectorData
      /\ card[j.slot].present => t.mc.state = "CMD"
      /\ ~ card[j.slot].present => t.mc.state = "IDLE" /\ ~ t.heard
  BY <1>5, <1>7, <1>8 DEF SameMachine
<1>10. card[j.slot].present => CardAt(card, t, j, 1)
  <2>1. SelectAt(t.mc, j, 1) <=> t.mc.state = "CMD"
    BY DEF SelectAt
  <2>2. AddressAt(t.mc, j, 1)
    BY DEF AddressAt
  <2>3. WriteAt(card, t, j, 1) /\ ReadAt(card, t, j, 1) /\ IdAt(t, 1)
    BY <1>1, <1>9, <2>2 DEF WriteAt, ReadAt, IdAt
  <2> QED BY <1>9, <2>1, <2>3 DEF CardAt
<1>11. ReplyAt(card, t, j, 1)
  BY <1>1 DEF ReplyAt
<1> QED BY <1>9, <1>10, <1>11 DEF DeviceAt

\* The next byte of the script of a card's transfer.
LEMMA ScriptByte ==
    ASSUME NEW j \in Jobs, j.dev = "card", NEW s, DOMAIN s = Fields, DeviceShape(s),
           SavedTyped(s), ImagesTyped(card), s.ctrl = CtrlOf(j),
           NEW k \in Nat, DeviceAt(card, s, j, k), k > 0 => CardAt(card, s, j, k),
           k < Len(Script(j)),
           NEW t, t = sio_process_byte(s, Script(j)[k + 1])
    PROVE  DeviceAt(card, t, j, k + 1) /\ ReplyAt(card, t, j, k + 1)
<1>1. CASE k = 0
  <2>1. s.dev = "none" /\ s.write = {} /\ t = sio_process_byte(s, Script(j)[1])
    BY <1>1 DEF DeviceAt, CardAt
  <2>2. DeviceAt(card, t, j, 1) /\ ReplyAt(card, t, j, 1)
    BY <2>1, FirstByte
  <2> QED BY <1>1, <2>2
<1>2. CASE k > 0
  <2>1. CardShape(s.mc)
    BY DEF DeviceShape
  <2>2. CardAt(card, t, j, k + 1) /\ ReplyAt(card, t, j, k + 1)
    BY <1>2, <2>1, CardByte
  <2> QED BY <2>2 DEF DeviceAt
<1> QED BY <1>1, <1>2

\* What may be on its way to a card.
WritesOnly(s, j) ==
    s.write \subseteq {TheWrite(j)} /\ (s.write # {} => j.dev = "card" /\ j.cmd = WRITE)

LEMMA DeviceWrites ==
    ASSUME NEW j \in Jobs, NEW s, NEW k, DeviceAt(card, s, j, k)
    PROVE  WritesOnly(s, j)
<1>1. j.dev \in {"pad", "card"} /\ (j.dev = "card" => j.cmd \in {READ, WRITE, GETID})
  BY JobIs
<1>2. CASE s.write = {}
  BY <1>2 DEF WritesOnly
<1>3. CASE s.write # {}
  <2>1. j.dev = "card" /\ CardAt(card, s, j, k)
    BY <1>1, <1>3 DEF DeviceAt
  <2>2. j.cmd = WRITE /\ WriteAt(card, s, j, k)
    BY <1>1, <1>3, <2>1 DEF CardAt, ReadAt, IdAt
  <2> QED BY <2>1, <2>2 DEF WriteAt, WritesOnly
<1> QED BY <1>2, <1>3

\* A byte out of turn, taken by whoever is there.
LEMMA StrayByte ==
    ASSUME NEW j \in Jobs, j.dev = "card", NEW s, DOMAIN s = Fields, DeviceShape(s),
           SavedTyped(s), NEW k, k > 0, DeviceAt(card, s, j, k), NEW b,
           NEW t, t = sio_process_byte(s, b)
    PROVE  WritesOnly(t, j)
<1>1. WritesOnly(s, j)
  BY DeviceWrites
<1>2. CASE ~ (s.dev = "card" /\ s.mc.state = "WRITE_CHK")
  <2>1. s.dev = "card"
    BY DEF DeviceAt, CardAt
  <2>2. t.write = s.write
    BY <1>2, <2>1, ByteBeside
  <2> QED BY <1>1, <2>2 DEF WritesOnly
<1>3. CASE s.dev = "card" /\ s.mc.state = "WRITE_CHK"
  <2> DEFINE c == s.mc
  <2>1. CardAt(card, s, j, k)
    BY <1>3 DEF DeviceAt
  <2>2. /\ SectorBytes \in Nat \ {0} /\ j.cmd \in {READ, WRITE, GETID} /\ k \in Nat \ {0}
        /\ s.mcslot = j.slot /\ c.data \in SectorData /\ SelectAt(c, j, k)
        /\ c.state = "WRITE_CHK"
    BY <1>3, <2>1, JobIs DEF CardAt
  <2>3. j.cmd = WRITE /\ WriteAt(card, s, j, k) /\ AddressAt(c, j, k)
    <3>1. ~ IdAt(s, k)
      BY <2>2 DEF IdAt, SelectAt
    <3>2. ~ ReadAt(card, s, j, k)
      BY <2>2 DEF ReadAt, SelectAt, AddressAt
    <3>3. j.cmd = WRITE
      BY <2>1, <2>2, <3>1, <3>2 DEF CardAt
    <3> QED BY <2>1, <3>3 DEF CardAt, WriteAt
  <2>4. k = 6 + SectorBytes
    <3> HIDE DEF c
    <3>1. k \notin 1..3 /\ k # 4 /\ k # 5
      BY <2>2, <2>3 DEF SelectAt, AddressAt
    <3>2. k \notin 6..5 + SectorBytes /\ k # 7 + SectorBytes /\ k # 8 + SectorBytes
          /\ k # 9 + SectorBytes /\ k # 10 + SectorBytes /\ k <= 10 + SectorBytes
      BY <2>2, <2>3 DEF WriteAt, c
    <3> QED BY <2>2, <3>1, <3>2
  <2>5. c.msb = 0 /\ c.lsb = j.lsb /\ \A i \in 1..SectorBytes : c.data[i] = j.data[i]
    BY <2>2, <2>3, <2>4 DEF WriteAt, AddressAt
  <2>6. j.data \in [1..SectorBytes -> 0..255]
    BY <2>3, JobIs
  <2>7. c.data = j.data
    <3>1. c.data \in [1..SectorBytes -> Nat]
      BY <2>2 DEF SectorData
    <3>2. \A i \in 1..SectorBytes : c.data[i] = j.data[i]
      BY <2>5, Zenon
    <3> DEFINE x == c.data
               y == j.data
    <3>3. x \in [1..SectorBytes -> Nat] /\ y \in [1..SectorBytes -> 0..255]
      BY <3>1, <2>6
    <3>4. \A i \in 1..SectorBytes : x[i] = y[i]
      BY <3>2
    <3> HIDE DEF x, y
    <3>6. SectorBytes \in Nat \ {0}
      BY <2>2
    <3>5. x = y
      BY <3>3, <3>4, <3>6
    <3> QED BY <3>5 DEF x, y
  <2>8. Sector(c) = j.lsb
    <3>1. j.lsb \in 0..255
      BY JobIs, Zenon
    <3>2. c.msb = 0 /\ c.lsb = j.lsb
      BY <2>5, Zenon
    <3> HIDE DEF c
    <3> QED BY <3>1, <3>2 DEF Sector
  <2>9. t = mc_process_byte(s, b)
    BY <1>3 DEF sio_process_byte
  <2>10. CardShape(s.mc)
    BY DEF DeviceShape
  <2>11. t.write = IF Accepts(c, b)
                   THEN {[slot |-> s.mcslot, sector |-> Sector(c), data |-> c.data]}
                   ELSE {}
    BY <2>2, <2>9, <2>10, MachineChecked
  <2> HIDE DEF c
  <2>12. t.write \subseteq {TheWrite(j)}
    BY <2>2, <2>7, <2>8, <2>11 DEF TheWrite
  <2> QED BY <2>3, <2>12 DEF WritesOnly
<1> QED BY <1>2, <1>3

----------------------------------------------------------------------------
(* The port in a transfer.                                                  *)

\* Time passes and no byte reaches a device.
Alike(s, t) ==
    /\ SameDevices(s, t) /\ t.ctrl = s.ctrl /\ t.rx = s.rx /\ t.heard = s.heard
    /\ t.owner = s.owner /\ ("RX_RDY" \in t.stat <=> "RX_RDY" \in s.stat)
    /\ t.shift.on = s.shift.on /\ t.shift.byte = s.shift.byte /\ t.buf = s.buf

LEMMA AlikeTwice ==
    ASSUME NEW s, NEW t, NEW u, Alike(s, t), Alike(t, u)
    PROVE  Alike(s, u)
BY Zenon DEF Alike, SameDevices

LEMMA ElapsedAlike ==
    ASSUME NEW s, Shape(s), NEW dt
    PROVE  Alike(s, Elapsed(s, dt)) /\ Elapsed(s, dt).irq = s.irq /\ Elapsed(s, dt).ack.on = s.ack.on
<1> DEFINE t == Elapsed(s, dt)
           a == IF s.shift.on THEN s.shift.left - dt ELSE s.shift.left
           b == IF s.ack.on THEN s.ack.left - dt ELSE s.ack.left
<1>1. /\ DOMAIN s = Fields /\ DOMAIN s.shift = TimerFields /\ DOMAIN s.ack = TimerFields
  BY DEF Shape, BusShape
<1>2. t = [s EXCEPT !.shift.left = a, !.ack.left = b]
  BY <1>1 DEF Elapsed, Fields
<1> HIDE DEF a, b, t
<1>3. /\ SameDevices(s, t) /\ t.ctrl = s.ctrl /\ t.irq = s.irq /\ t.rx = s.rx /\ t.owner = s.owner
      /\ t.stat = s.stat /\ t.heard = s.heard /\ t.buf = s.buf
      /\ t.shift = [s.shift EXCEPT !.left = a] /\ t.ack = [s.ack EXCEPT !.left = b]
  BY <1>1, <1>2 DEF Fields, SameDevices
<1>4. t.shift.on = s.shift.on /\ t.shift.byte = s.shift.byte /\ t.ack.on = s.ack.on
  BY <1>1, <1>3 DEF TimerFields
<1> QED BY <1>3, <1>4 DEF Alike, t

LEMMA FireAlike ==
    ASSUME NEW s, Shape(s)
    PROVE  Alike(s, sio_fire_ack_irq(s))
<1> DEFINE u == [s EXCEPT !.ack = Quiet, !.stat = @ \cup {"ACK"}, !.visible = 2]
           v == [u EXCEPT !.stat = @ \cup {"IRQ"}, !.irq = TRUE]
           w == [v EXCEPT !.timing = FALSE]
           t == sio_fire_ack_irq(s)
<1>1. DOMAIN s = Fields
  BY DEF Shape, BusShape
<1>2. DOMAIN u = Fields /\ Alike(s, u)
  BY <1>1 DEF Fields, Alike, SameDevices
<1>3. t \in {u, v, w}
  BY DEF sio_fire_ack_irq, Rest
<1> HIDE DEF u, t
<1>4. DOMAIN v = Fields /\ Alike(u, v)
  BY <1>2 DEF Fields, Alike, SameDevices
<1> HIDE DEF v
<1>5. Alike(v, w)
  BY <1>4 DEF Fields, Alike, SameDevices
<1> HIDE DEF w
<1>6. Alike(s, t)
  BY <1>2, <1>3, <1>4, <1>5, AlikeTwice
<1> QED BY <1>6 DEF t

\* A byte has reached its device; the one in the buffer is next.
LEMMA ShiftIs ==
    ASSUME NEW s, Shape(s), s.shift.on, NEW d, d = sio_process_byte(s, s.shift.byte),
           NEW t, t = sio_handle_shift_complete(s)
    PROVE  /\ SameDevices(d, t) /\ t.heard = d.heard /\ t.rx = d.rx
           /\ t.ctrl = s.ctrl /\ t.irq = s.irq
           /\ ~ s.buf.on => ~ t.shift.on /\ t.buf = s.buf
           /\ s.buf.on => t.shift.on /\ ~ t.buf.on
<1> DEFINE armed == IF "ACK" \in d.stat THEN Arm(0, Ack, s.shift.irq) ELSE d.ack
           u == [d EXCEPT !.stat = (@ \ {"ACK"}) \cup {"RX_RDY"}, !.ack = armed]
           v == [u EXCEPT !.shift = Arm(s.buf.byte, Baud, s.buf.irq), !.buf = Quiet,
                          !.stat = @ \cup {"TX_EMPTY"}, !.fresh = FALSE]
           w == [u EXCEPT !.shift = Quiet, !.stat = @ \cup Idle]
<1>1. DOMAIN s = Fields /\ DeviceShape(s)
  BY DEF Shape, BusShape
<1>2. Took(s, d) /\ DeviceShape(d)
  BY <1>1, ByteTook
<1>3. t = IF s.buf.on THEN v ELSE Rest(w)
  <2> DEFINE e == sio_process_byte(s, s.shift.byte)
             a2 == IF "ACK" \in e.stat THEN Arm(0, Ack, s.shift.irq) ELSE e.ack
             u2 == [e EXCEPT !.stat = (@ \ {"ACK"}) \cup {"RX_RDY"}, !.ack = a2]
             v2 == [u2 EXCEPT !.shift = Arm(s.buf.byte, Baud, s.buf.irq), !.buf = Quiet,
                              !.stat = @ \cup {"TX_EMPTY"}, !.fresh = FALSE]
             w2 == [u2 EXCEPT !.shift = Quiet, !.stat = @ \cup Idle]
  <2>1. sio_handle_shift_complete(s) = IF s.buf.on THEN v2 ELSE Rest(w2)
    BY Zenon DEF sio_handle_shift_complete
  <2>2. e = d
    OBVIOUS
  <2> HIDE DEF e
  <2> QED BY <2>1, <2>2
<1> HIDE DEF armed
<1>4. /\ DOMAIN u = Fields /\ SameDevices(d, u) /\ u.heard = d.heard /\ u.rx = d.rx
      /\ u.ctrl = s.ctrl /\ u.irq = s.irq /\ u.buf = s.buf
  BY <1>2 DEF Took, Fields, SameDevices
<1> HIDE DEF u
<1>5. /\ DOMAIN v = Fields /\ SameDevices(u, v) /\ v.heard = u.heard /\ v.rx = u.rx
      /\ v.ctrl = u.ctrl /\ v.irq = u.irq /\ v.shift.on /\ ~ v.buf.on
  BY <1>4 DEF Fields, SameDevices, Arm, Quiet
<1>6. /\ DOMAIN w = Fields /\ SameDevices(u, w) /\ w.heard = u.heard /\ w.rx = u.rx
      /\ w.ctrl = u.ctrl /\ w.irq = u.irq /\ ~ w.shift.on /\ w.buf = u.buf
  BY <1>4 DEF Fields, SameDevices, Quiet
<1> HIDE DEF v, w
<1>7. /\ SameDevices(w, Rest(w)) /\ Rest(w).heard = w.heard /\ Rest(w).rx = w.rx
      /\ Rest(w).ctrl = w.ctrl /\ Rest(w).irq = w.irq /\ Rest(w).shift = w.shift
      /\ Rest(w).buf = w.buf
  BY <1>6 DEF Rest, Fields, SameDevices
<1>8. CASE s.buf.on
  BY <1>3, <1>4, <1>5, <1>8 DEF SameDevices
<1>9. CASE ~ s.buf.on
  BY <1>3, <1>4, <1>6, <1>7, <1>9 DEF SameDevices
<1> QED BY <1>8, <1>9

\* Where the transfer stands by the driver's phase, pos bytes of the script being sent. A
\* byte out of turn may wait behind the byte of the script that is on its way; once a
\* device has it, nothing more comes.
Ready(cd, s, j, k) == DeviceAt(cd, s, j, k) /\ (j.dev = "card" /\ k > 0 => CardAt(cd, s, j, k))
Sending(cd, s, j, pos) ==
    s.ctrl = CtrlOf(j) /\ "RX_RDY" \notin s.stat /\ Ready(cd, s, j, pos)
Waiting(cd, s, j, pos) ==
    /\ s.ctrl = CtrlOf(j) /\ pos > 0
    /\ s.shift.on => /\ j.dev = "card" /\ s.shift.byte = Script(j)[pos]
                     /\ "RX_RDY" \notin s.stat /\ Ready(cd, s, j, pos - 1)
    /\ ~ s.shift.on => DeviceAt(cd, s, j, pos) /\ ReplyAt(cd, s, j, pos)
    /\ s.irq => s.heard
Spoiled(cd, s, j, pos) ==
    /\ s.ctrl = CtrlOf(j) /\ pos > 0
    /\ s.shift.on => j.dev = "card"
    /\ s.buf.on => /\ s.shift.on /\ s.shift.byte = Script(j)[pos]
                   /\ Ready(cd, s, j, pos - 1)
    /\ s.shift.on /\ ~ s.buf.on => DeviceAt(cd, s, j, pos)
    /\ WritesOnly(s, j)

LEMMA DeviceSame ==
    ASSUME NEW s, NEW t, SameDevices(s, t), t.heard = s.heard, NEW j, NEW k,
           k = 0 => t.owner = s.owner
    PROVE  /\ DeviceAt(card, s, j, k) => DeviceAt(card, t, j, k)
           /\ Ready(card, s, j, k) => Ready(card, t, j, k)
           /\ t.rx = s.rx /\ ReplyAt(card, s, j, k) => ReplyAt(card, t, j, k)
           /\ WritesOnly(s, j) => WritesOnly(t, j)
           /\ SavedTyped(s) => SavedTyped(t)
<1>0. Stored(card, s, j) => Stored(card, t, j)
  BY DEF SameDevices, Stored
<1>1. CardAt(card, s, j, k) => CardAt(card, t, j, k)
  BY <1>0 DEF SameDevices, CardAt, WriteAt, ReadAt, IdAt
<1>2. DeviceAt(card, s, j, k) => DeviceAt(card, t, j, k)
  BY <1>1 DEF SameDevices, DeviceAt
<1>3. t.rx = s.rx /\ ReplyAt(card, s, j, k) => ReplyAt(card, t, j, k)
  BY <1>0 DEF ReplyAt
<1> QED BY <1>1, <1>2, <1>3 DEF Ready, WritesOnly, SavedTyped, SameDevices

LEMMA AlikeKeeps ==
    ASSUME NEW s, NEW t, Alike(s, t), NEW j, NEW pos
    PROVE  /\ Sending(card, s, j, pos) => Sending(card, t, j, pos)
           /\ Waiting(card, s, j, pos) /\ (t.irq => s.irq \/ s.heard) => Waiting(card, t, j, pos)
           /\ Spoiled(card, s, j, pos) => Spoiled(card, t, j, pos)
           /\ SavedTyped(s) => SavedTyped(t)
<1>1. ASSUME NEW k
      PROVE  /\ DeviceAt(card, s, j, k) => DeviceAt(card, t, j, k)
             /\ Ready(card, s, j, k) => Ready(card, t, j, k)
             /\ ReplyAt(card, s, j, k) => ReplyAt(card, t, j, k)
             /\ WritesOnly(s, j) => WritesOnly(t, j)
             /\ SavedTyped(s) => SavedTyped(t)
  BY DeviceSame DEF Alike
<1> QED BY <1>1 DEF Alike, Sending, Waiting, Spoiled

\* A device takes a byte: the parked machines stay.
LEMMA ByteSaved ==
    ASSUME NEW s, DOMAIN s = Fields, DeviceShape(s), SavedTyped(s), NEW b,
           s.dev = "none" => b \in {PAD, CARD}, NEW t, t = sio_process_byte(s, b)
    PROVE  SavedTyped(t)
<1>1. s.dev = "none" => s.mc.state = "IDLE"
  BY DEF SavedTyped
<1>2. t.saved = s.saved /\ (t.dev = "none" => t.mc.state = "IDLE")
  BY <1>1, ByteBeside
<1> QED BY <1>2 DEF SavedTyped

\* The byte on its way reaches the card.
LEMMA ShiftTransfers ==
    ASSUME NEW j \in Jobs, j.dev = "card", NEW s, Shape(s), SavedTyped(s), ImagesTyped(card),
           s.ctrl = CtrlOf(j), s.shift.on, NEW pos \in Nat, pos > 0, pos <= Len(Script(j)),
           s.shift.byte = Script(j)[pos], Ready(card, s, j, pos - 1),
           NEW t, t = sio_handle_shift_complete(s)
    PROVE  /\ DeviceAt(card, t, j, pos) /\ ReplyAt(card, t, j, pos) /\ SavedTyped(t)
           /\ t.ctrl = s.ctrl /\ t.irq = s.irq
           /\ ~ s.buf.on => ~ t.shift.on /\ t.buf = s.buf
           /\ s.buf.on => t.shift.on /\ ~ t.buf.on
<1> DEFINE k == pos - 1
           d == sio_process_byte(s, s.shift.byte)
<1>1. DOMAIN s = Fields /\ DeviceShape(s)
  BY DEF Shape, BusShape
<1>2. k \in Nat /\ pos = k + 1 /\ DeviceAt(card, s, j, k) /\ (k > 0 => CardAt(card, s, j, k))
  BY DEF Ready
<1>3. Len(Script(j)) \in Nat
  BY ScriptIs, JobIs DEF READ, WRITE, GETID
<1>4. k < Len(Script(j)) /\ s.shift.byte = Script(j)[k + 1]
  BY <1>2, <1>3
<1> HIDE DEF k
<1>5. DeviceAt(card, d, j, k + 1) /\ ReplyAt(card, d, j, k + 1)
  BY <1>1, <1>2, <1>4, ScriptByte
<1>6. DeviceAt(card, d, j, pos) /\ ReplyAt(card, d, j, pos)
  BY <1>2, <1>5
<1>7. SavedTyped(d)
  <2>1. s.dev = "none" => s.shift.byte = CARD
    <3>1. s.dev = "none" => k = 0
      BY <1>2 DEF DeviceAt, CardAt
    <3> QED BY <3>1, <1>4, ScriptIs
  <2> QED BY <2>1, <1>1, ByteSaved
<1>8. /\ SameDevices(d, t) /\ t.heard = d.heard /\ t.rx = d.rx
      /\ t.ctrl = s.ctrl /\ t.irq = s.irq
      /\ ~ s.buf.on => ~ t.shift.on /\ t.buf = s.buf
      /\ s.buf.on => t.shift.on /\ ~ t.buf.on
  BY ShiftIs
<1> HIDE DEF d
<1>9. pos # 0
  OBVIOUS
<1>10. DeviceAt(card, t, j, pos) /\ ReplyAt(card, t, j, pos) /\ SavedTyped(t)
  BY <1>6, <1>7, <1>8, <1>9, DeviceSame
<1> QED BY <1>8, <1>10

LEMMA ShiftWaiting ==
    ASSUME NEW j \in Jobs, NEW s, Shape(s), Waits(s), SavedTyped(s), ImagesTyped(card),
           NEW pos \in Nat, Waiting(card, s, j, pos), s.shift.on,
           j.dev = "card" => pos <= Len(Script(j)),
           NEW t, t = sio_handle_shift_complete(s)
    PROVE  Waiting(card, t, j, pos) /\ SavedTyped(t)
<1>1. /\ j.dev = "card" /\ pos > 0 /\ s.shift.byte = Script(j)[pos]
      /\ Ready(card, s, j, pos - 1) /\ s.ctrl = CtrlOf(j)
  BY DEF Waiting
<1>2. ~ s.buf.on /\ ~ s.irq
  BY DEF Waits
<1>3. /\ DeviceAt(card, t, j, pos) /\ ReplyAt(card, t, j, pos) /\ SavedTyped(t)
      /\ t.ctrl = s.ctrl /\ t.irq = s.irq /\ ~ t.shift.on
  BY <1>1, <1>2, ShiftTransfers
<1> QED BY <1>1, <1>2, <1>3 DEF Waiting

LEMMA ShiftSpoiled ==
    ASSUME NEW j \in Jobs, NEW s, Shape(s), SavedTyped(s), ImagesTyped(card),
           NEW pos \in Nat, Spoiled(card, s, j, pos), s.shift.on,
           j.dev = "card" => pos <= Len(Script(j)),
           NEW t, t = sio_handle_shift_complete(s)
    PROVE  Spoiled(card, t, j, pos) /\ SavedTyped(t)
<1>1. j.dev = "card" /\ pos > 0 /\ s.ctrl = CtrlOf(j)
  BY DEF Spoiled
<1>2. CASE s.buf.on
  <2>1. s.shift.byte = Script(j)[pos] /\ Ready(card, s, j, pos - 1)
    BY <1>2 DEF Spoiled
  <2>2. /\ DeviceAt(card, t, j, pos) /\ SavedTyped(t)
        /\ t.ctrl = s.ctrl /\ t.shift.on /\ ~ t.buf.on
    BY <1>1, <1>2, <2>1, ShiftTransfers
  <2>3. WritesOnly(t, j)
    BY <2>2, DeviceWrites
  <2> QED BY <1>1, <2>2, <2>3 DEF Spoiled
<1>3. CASE ~ s.buf.on
  <2> DEFINE d == sio_process_byte(s, s.shift.byte)
  <2>1. DOMAIN s = Fields /\ DeviceShape(s) /\ DeviceAt(card, s, j, pos)
    BY <1>3 DEF Shape, BusShape, Spoiled
  <2>2. WritesOnly(d, j)
    BY <1>1, <2>1, StrayByte
  <2>3. SavedTyped(d)
    <3>1. s.dev # "none"
      BY <1>1, <2>1 DEF DeviceAt, CardAt
    <3> QED BY <2>1, <3>1, ByteSaved
  <2>4. SameDevices(d, t) /\ t.heard = d.heard /\ t.ctrl = s.ctrl /\ ~ t.shift.on /\ t.buf = s.buf
    BY <1>3, ShiftIs
  <2> HIDE DEF d
  <2>5. WritesOnly(t, j) /\ SavedTyped(t)
    BY <2>2, <2>3, <2>4 DEF SameDevices, WritesOnly, SavedTyped
  <2> QED BY <1>1, <1>3, <2>4, <2>5 DEF Spoiled
<1> QED BY <1>2, <1>3

\* What the passing of time does to a transfer of the driver.
InScript(j, pos) == j.dev = "card" => pos <= Len(Script(j))
Passes(s, t) ==
    /\ Kept(s, t)
    /\ AtRest(s) => Alike(s, t)
    /\ \A j \in Jobs, pos \in Nat :
          InScript(j, pos) /\ SavedTyped(s) =>
              /\ Waits(s) /\ Waiting(card, s, j, pos) => Waiting(card, t, j, pos) /\ SavedTyped(t)
              /\ Spoiled(card, s, j, pos) => Spoiled(card, t, j, pos) /\ SavedTyped(t)

LEMMA PassesTwice ==
    ASSUME NEW s, NEW t, NEW u, Passes(s, t), Passes(t, u)
    PROVE  Passes(s, u)
<1>1. Kept(s, u) /\ (Waits(s) => Waits(t)) /\ (AtRest(s) => AtRest(t))
  BY KeptTwice DEF Passes, Kept
<1>2. AtRest(s) => Alike(s, u)
  BY <1>1, AlikeTwice DEF Passes
<1>3. ASSUME NEW j \in Jobs, NEW pos \in Nat, InScript(j, pos), SavedTyped(s)
      PROVE  /\ Waits(s) /\ Waiting(card, s, j, pos) => Waiting(card, u, j, pos) /\ SavedTyped(u)
             /\ Spoiled(card, s, j, pos) => Spoiled(card, u, j, pos) /\ SavedTyped(u)
  <2>1. /\ Waits(s) /\ Waiting(card, s, j, pos) => Waiting(card, t, j, pos) /\ SavedTyped(t)
        /\ Spoiled(card, s, j, pos) => Spoiled(card, t, j, pos) /\ SavedTyped(t)
    BY <1>3 DEF Passes
  <2>2. SavedTyped(t) =>
           /\ Waits(t) /\ Waiting(card, t, j, pos) => Waiting(card, u, j, pos) /\ SavedTyped(u)
           /\ Spoiled(card, t, j, pos) => Spoiled(card, u, j, pos) /\ SavedTyped(u)
    BY <1>3 DEF Passes
  <2> QED BY <1>1, <2>1, <2>2
<1> QED BY <1>1, <1>2, <1>3 DEF Passes

LEMMA AlikePasses ==
    ASSUME NEW s, NEW t, Kept(s, t), Alike(s, t), Waits(s) => (t.irq => s.irq \/ s.heard)
    PROVE  Passes(s, t)
<1>1. ASSUME NEW j \in Jobs, NEW pos \in Nat, InScript(j, pos), SavedTyped(s)
      PROVE  /\ Waits(s) /\ Waiting(card, s, j, pos) => Waiting(card, t, j, pos) /\ SavedTyped(t)
             /\ Spoiled(card, s, j, pos) => Spoiled(card, t, j, pos) /\ SavedTyped(t)
  BY <1>1, AlikeKeeps
<1> QED BY <1>1 DEF Passes

LEMMA ShiftPasses ==
    ASSUME NEW s, Shape(s), s.shift.on, ImagesTyped(card)
    PROVE  Passes(s, sio_handle_shift_complete(s))
<1> DEFINE t == sio_handle_shift_complete(s)
<1>1. Kept(s, t) /\ ~ AtRest(s)
  BY ShiftKeeps DEF AtRest
<1>2. ASSUME NEW j \in Jobs, NEW pos \in Nat, InScript(j, pos), SavedTyped(s)
      PROVE  /\ Waits(s) /\ Waiting(card, s, j, pos) => Waiting(card, t, j, pos) /\ SavedTyped(t)
             /\ Spoiled(card, s, j, pos) => Spoiled(card, t, j, pos) /\ SavedTyped(t)
  BY <1>2, ShiftWaiting, ShiftSpoiled DEF InScript
<1> HIDE DEF t
<1>3. Passes(s, t)
  BY <1>1, <1>2 DEF Passes
<1> QED BY <1>3 DEF t

LEMMA TurnPasses ==
    ASSUME NEW x, Shape(x.s), ImagesTyped(card)
    PROVE  Passes(x.s, Turn(x).s)
<1> DEFINE e == NextEvent(x.s, x.n)
           t == Elapsed(x.s, e.dt)
           r == CASE e.is = "shift" -> sio_handle_shift_complete(t)
                  [] e.is = "ack" -> sio_fire_ack_irq(t)
                  [] e.is = "nothing" -> t
<1>1. Kept(x.s, t) /\ t.shift.on = x.s.shift.on /\ t.ack.on = x.s.ack.on
      /\ Alike(x.s, t) /\ t.irq = x.s.irq
  BY ElapsedKeeps, ElapsedAlike
<1>2. /\ e.is \in {"shift", "ack", "nothing"}
      /\ e.is = "shift" => x.s.shift.on
      /\ e.is = "ack" => x.s.ack.on
  BY EventIsArmed
<1>3. Turn(x).s = IF x.n <= 0 THEN x.s ELSE r
  <2>1. Turn(x) = IF x.n <= 0 THEN x ELSE [s |-> r, n |-> x.n - e.dt]
    BY Zenon DEF Turn
  <2> HIDE DEF r, e
  <2> QED BY <2>1
<1> HIDE DEF e, t
<1>4. Shape(t) /\ Passes(x.s, t)
  BY <1>1, AlikePasses DEF Kept
<1>5. e.is = "shift" => Passes(t, sio_handle_shift_complete(t))
  BY <1>1, <1>2, <1>4, ShiftPasses
<1>6. e.is = "ack" => Passes(t, sio_fire_ack_irq(t))
  <2> SUFFICES ASSUME t.ack.on PROVE Passes(t, sio_fire_ack_irq(t))
    BY <1>1, <1>2
  <2>1. Kept(t, sio_fire_ack_irq(t)) /\ Alike(t, sio_fire_ack_irq(t))
    BY <1>4, FireKeeps, FireAlike
  <2>2. Waits(t) => t.heard
    BY DEF Waits
  <2> QED BY <2>1, <2>2, AlikePasses
<1>7. Passes(x.s, r)
  BY <1>2, <1>4, <1>5, <1>6, PassesTwice
<1> HIDE DEF r
<1>8. Passes(x.s, x.s)
  BY DEF Passes, Kept, Alike, SameDevices
<1> QED BY <1>3, <1>7, <1>8

LEMMA AdvancePasses ==
    ASSUME NEW s, Shape(s), ImagesTyped(card), NEW n
    PROVE  Passes(s, sio_advance(s, n))
<1>1. Passes(s, s)
  BY DEF Passes, Kept, Alike, SameDevices
<1>2. CASE ~ s.timing
  BY <1>1, <1>2 DEF sio_advance
<1>3. CASE s.timing
  <2>1. PICK r : IsTurns(r, s, n) /\ sio_advance(s, n) = r[MaxTransitions].s
    BY <1>3, AdvanceTurns
  <2>2. r[0].s = s
    BY <2>1 DEF IsTurns
  <2>3. ASSUME NEW i \in 0..(MaxTransitions - 1), Passes(s, r[i].s)
        PROVE  Passes(s, r[i + 1].s)
    <3>1. r[i + 1] = Turn(r[i])
      BY <2>1 DEF IsTurns, MaxTransitions
    <3>2. Passes(r[i].s, Turn(r[i]).s)
      BY <2>3, TurnPasses DEF Passes, Kept
    <3> QED BY <2>3, <3>1, <3>2, PassesTwice
  <2>4. Passes(s, r[8].s)
    <3>0. Passes(s, r[0].s) BY <1>1, <2>2
    <3>1. Passes(s, r[1].s) BY <3>0, <2>3 DEF MaxTransitions
    <3>2. Passes(s, r[2].s) BY <3>1, <2>3 DEF MaxTransitions
    <3>3. Passes(s, r[3].s) BY <3>2, <2>3 DEF MaxTransitions
    <3>4. Passes(s, r[4].s) BY <3>3, <2>3 DEF MaxTransitions
    <3>5. Passes(s, r[5].s) BY <3>4, <2>3 DEF MaxTransitions
    <3>6. Passes(s, r[6].s) BY <3>5, <2>3 DEF MaxTransitions
    <3>7. Passes(s, r[7].s) BY <3>6, <2>3 DEF MaxTransitions
    <3> QED BY <3>7, <2>3 DEF MaxTransitions
  <2> QED BY <2>1, <2>4 DEF MaxTransitions
<1> QED BY <1>2, <1>3

----------------------------------------------------------------------------
(* The registers in a transfer.                                             *)

\* A write to CTRL that keeps the select line down and the transmitter on.
LEMMA CtrlHolds ==
    ASSUME NEW s, DOMAIN s = Fields, NEW v, "SELECT" \in v, "TX_EN" \in v, "RESET" \notin v,
           NEW t, t = write_ctrl(s, v)
    PROVE  /\ DOMAIN t = Fields /\ SameDevices(s, t) /\ t.ctrl = v \ {"ACK", "RESET"}
           /\ t.shift = s.shift /\ t.buf = s.buf /\ t.rx = s.rx /\ t.heard = s.heard
           /\ "RX_RDY" \in t.stat => "RX_RDY" \in s.stat
           /\ t.owner \in {s.owner, "none"}
<1> DEFINE s1 == [s EXCEPT !.ctrl = v \ {"ACK", "RESET"}]
           s2 == IF "ACK" \in v THEN CtrlAck(s1) ELSE s1
           s4 == IF "SELECT" \in v \ s.ctrl
                 THEN [s2 EXCEPT !.owner = "none", !.fresh = TRUE] ELSE s2
<1>1. t = s4
  <2> DEFINE s3 == IF "RESET" \in v THEN CtrlReset(s2) ELSE s2
             s4b == IF "SELECT" \in v \ s.ctrl
                    THEN [s3 EXCEPT !.owner = "none", !.fresh = TRUE] ELSE s3
             s5 == IF "TX_EN" \in s.ctrl /\ "TX_EN" \notin v THEN TxDisabled(s4b, v) ELSE s4b
  <2>1. write_ctrl(s, v) = IF "SELECT" \in s.ctrl /\ "SELECT" \notin v THEN Deselected(s5) ELSE s5
    BY Zenon DEF write_ctrl
  <2> HIDE DEF s2
  <2>2. s3 = s2
    OBVIOUS
  <2> HIDE DEF s3
  <2>3. s4b = s4 /\ s5 = s4b
    BY <2>2
  <2> HIDE DEF s4, s4b, s5
  <2> QED BY <2>1, <2>3
<1>2. /\ DOMAIN s1 = Fields /\ SameDevices(s, s1) /\ s1.ctrl = v \ {"ACK", "RESET"}
      /\ s1.shift = s.shift /\ s1.buf = s.buf /\ s1.rx = s.rx /\ s1.heard = s.heard
      /\ s1.stat = s.stat /\ s1.owner = s.owner
  BY DEF Fields, SameDevices
<1> HIDE DEF s1
<1>3. /\ DOMAIN s2 = Fields /\ SameDevices(s1, s2) /\ s2.ctrl = s1.ctrl
      /\ s2.shift = s1.shift /\ s2.buf = s1.buf /\ s2.rx = s1.rx /\ s2.heard = s1.heard
      /\ "RX_RDY" \in s2.stat => "RX_RDY" \in s1.stat
      /\ s2.owner = s1.owner
  BY <1>2 DEF CtrlAck, Fields, SameDevices
<1> HIDE DEF s2
<1>4. /\ DOMAIN s4 = Fields /\ SameDevices(s2, s4) /\ s4.ctrl = s2.ctrl
      /\ s4.shift = s2.shift /\ s4.buf = s2.buf /\ s4.rx = s2.rx /\ s4.heard = s2.heard
      /\ s4.stat = s2.stat
      /\ s4.owner \in {s2.owner, "none"}
  BY <1>3 DEF Fields, SameDevices
<1> HIDE DEF s4
<1> QED BY <1>1, <1>2, <1>3, <1>4 DEF SameDevices

\* The driver has taken the answer, acknowledged in CTRL and in I_STAT.
Acked(s, v) == [write_ctrl(read_rx(s), v) EXCEPT !.irq = FALSE]

LEMMA Acknowledged ==
    ASSUME NEW s, DOMAIN s = Fields, NEW v, "SELECT" \in v, "TX_EN" \in v, "RESET" \notin v,
           NEW t, t = Acked(s, v)
    PROVE  /\ SameDevices(s, t) /\ t.ctrl = v \ {"ACK", "RESET"} /\ t.heard = s.heard
           /\ "RX_RDY" \notin t.stat /\ t.owner \in {s.owner, "none"}
<1> DEFINE r == read_rx(s)
           w == write_ctrl(r, v)
<1>1. /\ DOMAIN r = Fields /\ SameDevices(s, r) /\ r.heard = s.heard
      /\ "RX_RDY" \notin r.stat /\ r.owner = s.owner
  BY DEF read_rx, Fields, SameDevices
<1>2. t = [w EXCEPT !.irq = FALSE]
  BY DEF Acked
<1> HIDE DEF r
<1>3. /\ DOMAIN w = Fields /\ SameDevices(r, w) /\ w.ctrl = v \ {"ACK", "RESET"}
      /\ w.heard = r.heard /\ w.owner \in {r.owner, "none"}
      /\ "RX_RDY" \in w.stat => "RX_RDY" \in r.stat
  BY <1>1, CtrlHolds
<1> HIDE DEF w
<1>4. /\ SameDevices(w, t) /\ t.ctrl = w.ctrl /\ t.heard = w.heard /\ t.stat = w.stat
      /\ t.owner = w.owner
  BY <1>2, <1>3 DEF Fields, SameDevices
<1> QED BY <1>1, <1>3, <1>4 DEF SameDevices

\* The end of a transfer keeps what the cards remember.
DataKept(s, t) ==
    /\ DOMAIN t = Fields /\ t.write = s.write
    /\ DeviceShape(t)
    /\ \A i \in Slots : t.saved[i].data = s.saved[i].data

LEMMA FreeKeepsData ==
    ASSUME NEW s, DOMAIN s = Fields, DeviceShape(s)
    PROVE  /\ DataKept(s, HungUp(FreeBus(s))) /\ HungUp(FreeBus(s)).saved = s.saved
           /\ HungUp(FreeBus(s)).dev = "none" /\ HungUp(FreeBus(s)).owner = "none"
           /\ HungUp(FreeBus(s)).mc = NewCard
<1> DEFINE q == QuietBus(s)
           f == [q EXCEPT !.owner = "none", !.fresh = TRUE]
           t == [f EXCEPT !.dev = "none", !.mc = NewCard, !.mcslot = 0, !.heard = FALSE,
                          !.pad = IdlePad]
<1>1. HungUp(FreeBus(s)) = t
  BY Zenon DEF HungUp, FreeBus
<1>2. DOMAIN q = Fields /\ SameDevices(s, q)
  BY DEF QuietBus, Fields, SameDevices
<1> HIDE DEF q
<1>3. DOMAIN f = Fields /\ SameDevices(s, f) /\ f.owner = "none"
  BY <1>2 DEF Fields, SameDevices
<1> HIDE DEF f
<1>4. /\ DOMAIN t = Fields /\ t.write = s.write /\ t.saved = s.saved /\ t.dev = "none"
      /\ t.owner = "none" /\ t.mc = NewCard /\ t.mcslot = 0 /\ t.pad = IdlePad
      /\ t.slot = s.slot
  BY <1>3 DEF Fields, SameDevices
<1> HIDE DEF t
<1>5. DeviceShape(t)
  BY <1>4, NewShapes DEF DeviceShape, Slots
<1> QED BY <1>1, <1>4, <1>5 DEF DataKept

LEMMA ResetKeepsData ==
    ASSUME NEW s, DOMAIN s = Fields, DeviceShape(s)
    PROVE  DataKept(s, CtrlReset(s))
<1> DEFINE h == HungUp(FreeBus(s))
           sv == [i \in Slots |-> [h.saved[i] EXCEPT !.state = "IDLE"]]
           t == CtrlReset(s)
<1>1. DataKept(s, h) /\ h.saved = s.saved
  BY FreeKeepsData
<1>2. DOMAIN h = Fields /\ DeviceShape(h)
  BY <1>1 DEF DataKept
<1>3. t = [h EXCEPT !.stat = Idle, !.ctrl = {}, !.visible = 0, !.saved = sv]
  BY <1>2 DEF CtrlReset, Fields
<1>4. DOMAIN sv = Slots /\ \A i \in Slots : CardShape(sv[i])
  BY <1>2, NewShapes DEF DeviceShape
<1>5. \A i \in Slots : sv[i].data = s.saved[i].data
  <2> SUFFICES ASSUME NEW i \in Slots PROVE sv[i].data = s.saved[i].data
    OBVIOUS
  <2> DEFINE c == s.saved[i]
  <2>1. CardShape(c) /\ sv[i] = [c EXCEPT !.state = "IDLE"]
    BY <1>1 DEF DeviceShape
  <2> HIDE DEF c
  <2>2. sv[i].data = c.data
    BY <2>1 DEF CardShape
  <2> QED BY <2>2 DEF c
<1> HIDE DEF h, sv, t
<1>6. /\ DOMAIN t = Fields /\ t.write = h.write /\ t.saved = sv /\ t.dev = h.dev
      /\ t.slot = h.slot /\ t.mcslot = h.mcslot /\ t.pad = h.pad /\ t.mc = h.mc
  BY <1>2, <1>3 DEF Fields
<1>7. DeviceShape(t)
  BY <1>2, <1>4, <1>6 DEF DeviceShape
<1> QED BY <1>1, <1>5, <1>6, <1>7 DEF DataKept, t

LEMMA TxOffKeepsData ==
    ASSUME NEW s, DOMAIN s = Fields, DeviceShape(s), NEW v
    PROVE  DataKept(s, TxDisabled(s, v))
<1> DEFINE q == QuietBus(s)
           f == FreeBus(s)
           t == TxDisabled(s, v)
<1>1. t = s \/ t = [q EXCEPT !.stat = @ \cup Idle] \/ t = [f EXCEPT !.stat = @ \cup Idle]
  BY Zenon DEF TxDisabled
<1>2. DOMAIN q = Fields /\ SameDevices(s, q) /\ DOMAIN f = Fields /\ SameDevices(s, f)
  BY QuietBusRests, FreeBusRests
<1> HIDE DEF q, f, t
<1>3. DOMAIN t = Fields /\ SameDevices(s, t)
  BY <1>1, <1>2 DEF Fields, SameDevices
<1> QED BY <1>3 DEF DataKept, DeviceShape, SameDevices, t

LEMMA DeselectKeepsData ==
    ASSUME NEW s, DOMAIN s = Fields, DeviceShape(s)
    PROVE  /\ DataKept(s, Deselected(s)) /\ Deselected(s).dev = "none"
           /\ Deselected(s).owner = "none" /\ Deselected(s).mc = NewCard
<1> DEFINE h == HungUp(FreeBus(s))
           flags == IF s.dev = "card" THEN [s.saved EXCEPT ![s.mcslot].flag = s.mc.flag]
                                      ELSE s.saved
           sv == [i \in Slots |-> Rewound(flags[i])]
           t == Deselected(s)
<1>1. DataKept(s, h) /\ h.dev = "none" /\ h.owner = "none" /\ h.mc = NewCard
  BY FreeKeepsData
<1>2. DOMAIN h = Fields /\ DeviceShape(h)
  BY <1>1 DEF DataKept
<1>3. t = [h EXCEPT !.saved = sv, !.stat = @ \cup Idle]
  BY Zenon DEF Deselected
<1>4. \A i \in Slots : flags[i].data = s.saved[i].data
  <2> SUFFICES ASSUME NEW i \in Slots PROVE flags[i].data = s.saved[i].data
    OBVIOUS
  <2> DEFINE c == s.saved[i]
             g == s.mc.flag
  <2>1. CardShape(c) /\ DOMAIN s.saved = Slots /\ s.mcslot \in Slots
    BY DEF DeviceShape
  <2>2. flags[i] \in {c, [c EXCEPT !.flag = g]}
    BY <2>1
  <2> HIDE DEF c, g, flags
  <2>3. flags[i].data = c.data
    BY <2>1, <2>2 DEF CardShape
  <2> QED BY <2>3 DEF c
<1> HIDE DEF flags
<1>5. DOMAIN sv = Slots /\ \A i \in Slots : CardShape(sv[i])
  BY NewShapes
<1>6. \A i \in Slots : sv[i].data = s.saved[i].data
  <2> SUFFICES ASSUME NEW i \in Slots PROVE sv[i].data = s.saved[i].data
    OBVIOUS
  <2> DEFINE c == flags[i]
  <2>1. sv[i] = Rewound(c)
    OBVIOUS
  <2> HIDE DEF c, sv
  <2>2. CardShape(NewCard)
    BY NewShapes
  <2>3. Rewound(c).data = c.data
    BY <2>2 DEF Rewound, CardShape
  <2> QED BY <2>1, <2>3, <1>4 DEF c
<1> HIDE DEF h, sv, t
<1>7. /\ DOMAIN t = Fields /\ t.write = h.write /\ t.saved = sv /\ t.dev = h.dev
      /\ t.slot = h.slot /\ t.mcslot = h.mcslot /\ t.pad = h.pad /\ t.mc = h.mc
      /\ t.owner = h.owner
  BY <1>2, <1>3 DEF Fields
<1>8. DeviceShape(t)
  BY <1>2, <1>5, <1>7 DEF DeviceShape
<1> QED BY <1>1, <1>6, <1>7, <1>8 DEF DataKept, t

\* The driver lets go of the device, with or without a reset.
LEMMA CtrlDrops ==
    ASSUME NEW s, Shape(s), SavedTyped(s), NEW v, v \in {{}, {"RESET"}}, "SELECT" \in s.ctrl,
           NEW t, t = write_ctrl(s, v)
    PROVE  t.dev = "none" /\ t.owner = "none" /\ t.write = s.write /\ SavedTyped(t)
<1> DEFINE s1 == [s EXCEPT !.ctrl = v \ {"ACK", "RESET"}]
           s2 == IF "ACK" \in v THEN CtrlAck(s1) ELSE s1
           s3 == IF "RESET" \in v THEN CtrlReset(s2) ELSE s2
           s4 == IF "SELECT" \in v \ s.ctrl
                 THEN [s3 EXCEPT !.owner = "none", !.fresh = TRUE] ELSE s3
           s5 == IF "TX_EN" \in s.ctrl /\ "TX_EN" \notin v THEN TxDisabled(s4, v) ELSE s4
<1>1. write_ctrl(s, v) = IF "SELECT" \in s.ctrl /\ "SELECT" \notin v THEN Deselected(s5) ELSE s5
  BY Zenon DEF write_ctrl
<1>2. "SELECT" \notin v /\ "ACK" \notin v
  OBVIOUS
<1> HIDE DEF s5, s4, s3, s2
<1>3. DOMAIN s = Fields /\ DeviceShape(s)
  BY DEF Shape, BusShape
<1>4. DOMAIN s1 = Fields /\ SameDevices(s, s1)
  BY <1>3 DEF Fields, SameDevices
<1> HIDE DEF s1
<1>5. DataKept(s, s1)
  BY <1>3, <1>4 DEF DataKept, DeviceShape, SameDevices
<1>6. s2 = s1
  BY <1>2 DEF s2
<1>7. DataKept(s, s3)
  <2>1. DataKept(s1, CtrlReset(s1))
    BY <1>5, ResetKeepsData DEF DataKept
  <2> QED BY <1>5, <1>6, <2>1 DEF s3, DataKept
<1>8. s4 = s3
  BY <1>2 DEF s4
<1>9. DataKept(s, s5)
  <2>1. DataKept(s3, TxDisabled(s3, v))
    BY <1>7, TxOffKeepsData DEF DataKept
  <2> QED BY <1>7, <1>8, <2>1 DEF s5, DataKept
<1>10. t = Deselected(s5)
  BY <1>1, <1>2
<1>11. DataKept(s5, t) /\ t.dev = "none" /\ t.owner = "none" /\ t.mc = NewCard
  BY <1>9, <1>10, DeselectKeepsData DEF DataKept
<1>12. t.mc.state = "IDLE"
  BY <1>11 DEF NewCard
<1> QED BY <1>9, <1>11, <1>12 DEF DataKept, SavedTyped

\* Reading the answer before that changes no device.
LEMMA ReadSame ==
    ASSUME NEW s, Shape(s)
    PROVE  SameDevices(s, read_rx(s)) /\ Shape(read_rx(s)) /\ read_rx(s).ctrl = s.ctrl
<1>1. DOMAIN s = Fields
  BY DEF Shape, BusShape
<1>2. SameDevices(s, read_rx(s))
  BY <1>1 DEF read_rx, Fields, SameDevices
<1> QED BY <1>2, ReadKeeps DEF CtrlKept

\* The driver stops the transmitter.
LEMMA CtrlHalts ==
    ASSUME NEW s, Shape(s), "SELECT" \in s.ctrl, "TX_EN" \in s.ctrl, "RESET" \notin s.ctrl,
           "ACK" \notin s.ctrl, NEW t, t = write_ctrl(s, s.ctrl \ {"TX_EN"})
    PROVE  SameDevices(s, t) /\ AtRest(t)
<1> DEFINE v == s.ctrl \ {"TX_EN"}
           s1 == [s EXCEPT !.ctrl = v \ {"ACK", "RESET"}]
           s2 == IF "ACK" \in v THEN CtrlAck(s1) ELSE s1
           s3 == IF "RESET" \in v THEN CtrlReset(s2) ELSE s2
           s4 == IF "SELECT" \in v \ s.ctrl
                 THEN [s3 EXCEPT !.owner = "none", !.fresh = TRUE] ELSE s3
           s5 == IF "TX_EN" \in s.ctrl /\ "TX_EN" \notin v THEN TxDisabled(s4, v) ELSE s4
<1>1. write_ctrl(s, v) = IF "SELECT" \in s.ctrl /\ "SELECT" \notin v THEN Deselected(s5) ELSE s5
  BY Zenon DEF write_ctrl
<1>2. /\ "SELECT" \in v /\ "TX_EN" \notin v /\ "RESET" \notin v /\ "ACK" \notin v
      /\ t = write_ctrl(s, v)
  OBVIOUS
<1> HIDE DEF s5, s4, s3, s2, v
<1>3. DOMAIN s = Fields
  BY DEF Shape, BusShape
<1>4. /\ DOMAIN s1 = Fields /\ SameDevices(s, s1) /\ s1.shift = s.shift /\ s1.buf = s.buf
      /\ s1.ack = s.ack
  BY <1>3 DEF Fields, SameDevices
<1> HIDE DEF s1
<1>5. s2 = s1 /\ s3 = s2 /\ s4 = s3
  BY <1>2 DEF s2, s3, s4
<1>6. t = TxDisabled(s1, v)
  BY <1>1, <1>2, <1>5 DEF s5
<1> DEFINE q == QuietBus(s1)
           w == [q EXCEPT !.stat = @ \cup Idle]
<1>7. t = IF AtRest(s1) THEN s1 ELSE w
  BY <1>2, <1>6, Zenon DEF TxDisabled, AtRest
<1>8. /\ DOMAIN q = Fields /\ SameDevices(s1, q)
      /\ q.shift = Quiet /\ q.buf = Quiet /\ q.ack = Quiet
  BY <1>4, QuietBusRests
<1> HIDE DEF q
<1>9. SameDevices(q, w) /\ w.shift = Quiet /\ w.buf = Quiet /\ w.ack = Quiet
  BY <1>8 DEF Fields, SameDevices
<1> HIDE DEF w
<1>10. AtRest(w)
  BY <1>9, TimersShaped DEF AtRest
<1> QED BY <1>4, <1>7, <1>8, <1>9, <1>10 DEF SameDevices

\* A byte to a pad: handed over at once; no card is touched.
LEMMA TxPadIs ==
    ASSUME NEW s, Shape(s), SavedTyped(s), NEW b, s.dev = "pad" \/ (s.dev = "none" /\ b = PAD),
           NEW t, t = write_tx_pad(s, b)
    PROVE  /\ t.dev = "pad" /\ t.write = s.write /\ SavedTyped(t)
           /\ ~ t.shift.on /\ ~ t.buf.on /\ t.ctrl = s.ctrl /\ t.irq = s.irq
<1> DEFINE q == QuietBus(s)
           u == [q EXCEPT !.owner = "pad", !.fresh = FALSE]
           d == sio_process_byte(u, b)
           v == [d EXCEPT !.stat = @ \ (Idle \cup {"ACK"}), !.ack = Arm(0, Baud + Ack, TRUE),
                          !.timing = TRUE]
           w == [d EXCEPT !.stat = @ \cup Idle]
<1>1. DOMAIN s = Fields /\ DeviceShape(s)
  BY DEF Shape, BusShape
<1>2. /\ DOMAIN q = Fields /\ SameDevices(s, q)
      /\ q.shift = Quiet /\ q.buf = Quiet /\ q.ctrl = s.ctrl /\ q.irq = s.irq
  BY <1>1, QuietBusRests
<1>3. t \in {v, w}
  <2>1. write_tx_pad(s, b) \in {v, w}
    BY Zenon DEF write_tx_pad
  <2> HIDE DEF v, w
  <2> QED BY <2>1
<1> HIDE DEF q
<1>4. /\ DOMAIN u = Fields /\ SameDevices(s, u)
      /\ u.shift = Quiet /\ u.buf = Quiet /\ u.ctrl = s.ctrl /\ u.irq = s.irq
  BY <1>2 DEF Fields, SameDevices
<1> HIDE DEF u
<1>5. DeviceShape(u) /\ u.dev = s.dev /\ SavedTyped(u)
  BY <1>1, <1>4 DEF DeviceShape, SameDevices, SavedTyped
<1>6. Took(u, d)
  BY <1>4, <1>5, ByteTook
<1>7. d.write = u.write /\ SavedTyped(d)
  <2>1. u.dev = "none" => u.mc.state = "IDLE" /\ b \in {PAD, CARD}
    BY <1>5 DEF SavedTyped
  <2>2. d.write = u.write
    BY <2>1, <1>4, <1>5, ByteBeside
  <2>3. SavedTyped(d)
    BY <2>1, <1>4, <1>5, ByteSaved
  <2> QED BY <2>2, <2>3
<1>8. d.dev = "pad"
  <2>1. u.dev = "none" => u.mc.state = "IDLE" /\ b \in {PAD, CARD}
    BY <1>5 DEF SavedTyped
  <2> QED BY <2>1, <1>4, <1>5, ByteBeside
<1> HIDE DEF d
<1>9. /\ SameDevices(d, v) /\ v.shift = Quiet /\ v.buf = Quiet /\ v.ctrl = s.ctrl /\ v.irq = s.irq
  BY <1>4, <1>6 DEF Took, Fields, SameDevices
<1>10. /\ SameDevices(d, w) /\ w.shift = Quiet /\ w.buf = Quiet /\ w.ctrl = s.ctrl /\ w.irq = s.irq
  BY <1>4, <1>6 DEF Took, Fields, SameDevices
<1> HIDE DEF v, w
<1>11. /\ SameDevices(d, t) /\ t.shift = Quiet /\ t.buf = Quiet /\ t.ctrl = s.ctrl /\ t.irq = s.irq
  BY <1>3, <1>9, <1>10
<1>12. SavedTyped(t)
  BY <1>7, <1>11 DEF SavedTyped, SameDevices
<1> QED BY <1>4, <1>7, <1>8, <1>11, <1>12, TimersShaped DEF SameDevices

\* A byte to the shifter.
LEMMA TxPacedIs ==
    ASSUME NEW s, Shape(s), NEW b, NEW t, t = write_tx_paced(s, b)
    PROVE  /\ SameDevices(s, t) /\ t.ctrl = s.ctrl /\ t.irq = s.irq /\ t.heard = s.heard
           /\ "RX_RDY" \in t.stat <=> "RX_RDY" \in s.stat
           /\ t.owner \in {s.owner, BusOwner(b)}
           /\ ~ s.shift.on => t.shift.on /\ t.shift.byte = b /\ t.buf = s.buf
           /\ s.shift.on /\ ~ s.buf.on => t.shift = s.shift /\ t.buf.on
<1> DEFINE o == IF s.fresh THEN BusOwner(b) ELSE s.owner
           u == [s EXCEPT !.fresh = FALSE, !.owner = o]
           v == [u EXCEPT !.shift = Arm(b, Baud, AckIrqEn(s)), !.stat = @ \ Idle,
                          !.timing = TRUE]
           w == [u EXCEPT !.buf = Arm(b, 0, AckIrqEn(s)), !.stat = @ \ {"TX_EMPTY"}]
<1>1. DOMAIN s = Fields
  BY DEF Shape, BusShape
<1>2. t = IF ~ s.shift.on THEN v ELSE IF ~ s.buf.on THEN w ELSE u
  BY <1>1 DEF write_tx_paced, Fields
<1>3. o \in {s.owner, BusOwner(b)}
  OBVIOUS
<1> HIDE DEF o
<1>4. /\ SameDevices(s, u) /\ DOMAIN u = Fields /\ u.owner = o /\ u.ctrl = s.ctrl
      /\ u.irq = s.irq /\ u.heard = s.heard /\ u.stat = s.stat
      /\ u.shift = s.shift /\ u.buf = s.buf
  BY <1>1 DEF Fields, SameDevices
<1> HIDE DEF u
<1>5. /\ SameDevices(u, v) /\ v.shift.on /\ v.shift.byte = b /\ v.buf = u.buf
      /\ v.ctrl = u.ctrl /\ v.irq = u.irq /\ v.heard = u.heard /\ v.owner = u.owner
      /\ "RX_RDY" \in v.stat <=> "RX_RDY" \in u.stat
  BY <1>4 DEF Fields, SameDevices, Arm, Idle
<1>6. /\ SameDevices(u, w) /\ w.shift = u.shift /\ w.buf.on
      /\ w.ctrl = u.ctrl /\ w.irq = u.irq /\ w.heard = u.heard /\ w.owner = u.owner
      /\ "RX_RDY" \in w.stat <=> "RX_RDY" \in u.stat
  BY <1>4 DEF Fields, SameDevices, Arm
<1> HIDE DEF v, w
<1>7. CASE ~ s.shift.on
  BY <1>7, <1>2, <1>3, <1>4, <1>5 DEF SameDevices
<1>8. CASE s.shift.on /\ ~ s.buf.on
  BY <1>8, <1>2, <1>3, <1>4, <1>6 DEF SameDevices
<1>9. CASE s.shift.on /\ s.buf.on
  BY <1>9, <1>2, <1>3, <1>4
<1> QED BY <1>7, <1>8, <1>9

----------------------------------------------------------------------------
(* The driver's steps, on the port.                                         *)

LEMMA PadReply ==
    ASSUME NEW j \in Jobs, j.dev = "pad", NEW s, s.write = {}, s.dev = "pad", NEW k \in Nat, k > 0
    PROVE  DeviceAt(card, s, j, k) /\ ReplyAt(card, s, j, k)
<1>1. j.cmd \notin {READ, WRITE, GETID}
  BY JobIs
<1> QED BY <1>1 DEF DeviceAt, ReplyAt

LEMMA SendStep ==
    ASSUME NEW j \in Jobs, NEW s, Shape(s), SavedTyped(s), AtRest(s), ~ s.irq, s.write = {},
           NEW pos \in Nat, Sending(card, s, j, pos), NEW n, n = pos + 1,
           NEW t, t = write_tx(s, Script(j)[n])
    PROVE  Waiting(card, t, j, n) /\ SavedTyped(t) /\ t.write = {}
<1> DEFINE b == Script(j)[n]
<1>1. /\ s.ctrl = CtrlOf(j) /\ "TX_EN" \in s.ctrl /\ "RX_RDY" \notin s.stat
      /\ Ready(card, s, j, pos) /\ j.dev \in {"pad", "card"} /\ n \in Nat /\ n > 0
      /\ pos = n - 1 /\ (pos = 0 => n = 1)
  BY JobIs DEF Sending, CtrlOf
<1>2. CASE j.dev = "pad"
  <2>1. s.dev = "pad" \/ (s.dev = "none" /\ b = PAD)
    <3>1. s.dev = IF pos = 0 THEN "none" ELSE "pad"
      BY <1>1, <1>2 DEF Ready, DeviceAt
    <3>2. pos = 0 => b = PAD
      BY <1>1, <1>2, ScriptIs
    <3> QED BY <3>1, <3>2
  <2>2. t = write_tx_pad(s, b)
    BY <1>1, <2>1 DEF write_tx, PadFastPath
  <2> HIDE DEF b
  <2>3. /\ t.dev = "pad" /\ t.write = s.write /\ SavedTyped(t)
        /\ ~ t.shift.on /\ ~ t.buf.on /\ t.ctrl = s.ctrl /\ t.irq = s.irq
    BY <2>1, <2>2, TxPadIs
  <2>4. DeviceAt(card, t, j, n) /\ ReplyAt(card, t, j, n)
    BY <1>1, <1>2, <2>3, PadReply
  <2> QED BY <1>1, <2>3, <2>4 DEF Waiting
<1>3. CASE j.dev = "card"
  <2>1. /\ pos = 0 => s.dev = "none" /\ s.owner # "pad" /\ b = CARD
        /\ pos # 0 => s.dev = "card"
    BY <1>1, <1>3, ScriptIs DEF Ready, DeviceAt, CardAt
  <2>2. t = write_tx_paced(s, b)
    BY <1>1, <2>1 DEF write_tx, PadFastPath, PAD, CARD
  <2> HIDE DEF b
  <2>3. /\ SameDevices(s, t) /\ t.ctrl = s.ctrl /\ t.irq = s.irq /\ t.heard = s.heard
        /\ "RX_RDY" \in t.stat <=> "RX_RDY" \in s.stat
        /\ t.owner \in {s.owner, BusOwner(b)}
        /\ ~ s.shift.on => t.shift.on /\ t.shift.byte = b /\ t.buf = s.buf
    BY <2>2, TxPacedIs
  <2>4. t.shift.on /\ t.shift.byte = b /\ ~ t.buf.on
    BY <2>3 DEF AtRest
  <2>5. Ready(card, t, j, pos) /\ SavedTyped(t) /\ t.write = {}
    <3>1. SavedTyped(t) /\ t.write = {}
      BY <2>3 DEF SavedTyped, SameDevices
    <3>2. CASE pos = 0
      <4>1. t.owner # "pad"
        BY <2>1, <2>3, <3>2 DEF BusOwner, PAD, CARD
      <4>2. t.dev = "none"
        BY <2>1, <2>3, <3>2 DEF SameDevices
      <4> QED BY <1>3, <3>1, <3>2, <4>1, <4>2 DEF Ready, DeviceAt
    <3>3. CASE pos # 0
      BY <1>1, <2>3, <3>1, <3>3, DeviceSame
    <3> QED BY <3>1, <3>2, <3>3
  <2>6. t.ctrl = CtrlOf(j) /\ "RX_RDY" \notin t.stat /\ ~ t.irq
    BY <1>1, <2>3
  <2> QED BY <1>1, <1>3, <2>4, <2>5, <2>6 DEF Waiting, b
<1> QED BY <1>1, <1>2, <1>3

LEMMA StrayStep ==
    ASSUME NEW j \in Jobs, NEW s, Shape(s), SavedTyped(s), Waits(s), s.write = {},
           NEW pos \in Nat, Waiting(card, s, j, pos), NEW b \in {PAD, CARD},
           NEW t, t = write_tx(s, b)
    PROVE  Spoiled(card, t, j, pos) /\ SavedTyped(t) /\ t.write = {}
<1>1. /\ s.ctrl = CtrlOf(j) /\ "TX_EN" \in s.ctrl /\ j.dev \in {"pad", "card"} /\ pos > 0
      /\ ~ s.buf.on
  BY JobIs DEF Waiting, CtrlOf, Waits
<1>2. CASE s.dev = "pad" \/ (s.dev = "none" /\ b = PAD)
  <2>1. t = write_tx_pad(s, b)
    BY <1>1, <1>2 DEF write_tx, PadFastPath
  <2>2. /\ t.write = s.write /\ SavedTyped(t) /\ ~ t.shift.on /\ ~ t.buf.on /\ t.ctrl = s.ctrl
    BY <1>2, <2>1, TxPadIs
  <2>3. WritesOnly(t, j)
    BY <2>2 DEF WritesOnly
  <2> QED BY <1>1, <2>2, <2>3 DEF Spoiled
<1>3. CASE ~ (s.dev = "pad" \/ (s.dev = "none" /\ b = PAD))
  <2>1. j.dev = "card"
    <3>1. j.dev = "pad" => ~ s.shift.on
      BY DEF Waiting
    <3>2. j.dev = "pad" => s.dev = "pad"
      BY <1>1, <3>1 DEF Waiting, DeviceAt
    <3> QED BY <1>1, <1>3, <3>2
  <2>2. /\ s.shift.on => s.shift.byte = Script(j)[pos] /\ Ready(card, s, j, pos - 1)
        /\ ~ s.shift.on => DeviceAt(card, s, j, pos)
    BY DEF Waiting
  <2>3. \/ s.dev = "card" /\ (s.shift.on => pos - 1 # 0)
        \/ s.dev = "none" /\ s.shift.on /\ pos - 1 = 0 /\ s.owner # "pad"
    <3>1. ~ s.shift.on => s.dev = "card"
      BY <1>1, <2>1, <2>2 DEF DeviceAt, CardAt
    <3>2. s.shift.on /\ pos - 1 = 0 => s.dev = "none" /\ s.owner # "pad"
      BY <2>1, <2>2 DEF Ready, DeviceAt, CardAt
    <3>3. s.shift.on /\ pos - 1 # 0 => s.dev = "card"
      <4> DEFINE k == pos - 1
      <4>1. k \in Nat
        BY <1>1
      <4>2. s.shift.on /\ k # 0 => Ready(card, s, j, k) /\ k > 0
        BY <4>1, <2>2
      <4> HIDE DEF k
      <4>3. s.shift.on /\ k # 0 => s.dev = "card"
        BY <4>2, <2>1 DEF Ready, CardAt
      <4> QED BY <4>3 DEF k
    <3> QED BY <3>1, <3>2, <3>3
  <2>4. s.dev = "none" => b = CARD
    BY <1>3
  <2>5. t = write_tx_paced(s, b)
    BY <1>1, <2>3, <2>4 DEF write_tx, PadFastPath, PAD, CARD
  <2>6. /\ SameDevices(s, t) /\ t.ctrl = s.ctrl /\ t.heard = s.heard
        /\ t.owner \in {s.owner, BusOwner(b)}
        /\ ~ s.shift.on => t.shift.on /\ t.shift.byte = b /\ t.buf = s.buf
        /\ s.shift.on /\ ~ s.buf.on => t.shift = s.shift /\ t.buf.on
    BY <2>5, TxPacedIs
  <2>7. SavedTyped(t) /\ t.write = {} /\ WritesOnly(t, j)
    BY <2>6 DEF SavedTyped, SameDevices, WritesOnly
  <2>8. CASE s.shift.on
    <3>1. t.shift.on /\ t.shift.byte = s.shift.byte /\ t.buf.on
      BY <1>1, <2>6, <2>8
    <3>2. Ready(card, t, j, pos - 1)
      <4>1. CASE s.dev = "none"
        <5>1. t.dev = "none" /\ t.owner # "pad" /\ pos - 1 = 0
          BY <2>3, <2>4, <2>6, <4>1 DEF BusOwner, PAD, CARD, SameDevices
        <5> QED BY <2>1, <2>7, <5>1 DEF Ready, DeviceAt
      <4>2. CASE s.dev = "card"
        <5>1. pos - 1 # 0 /\ Ready(card, s, j, pos - 1)
          BY <2>2, <2>3, <2>8, <4>2
        <5> QED BY <2>6, <5>1, DeviceSame
      <4> QED BY <2>3, <4>1, <4>2
    <3> QED BY <1>1, <2>1, <2>2, <2>6, <2>7, <2>8, <3>1, <3>2 DEF Spoiled
  <2>9. CASE ~ s.shift.on
    <3>1. t.shift.on /\ ~ t.buf.on
      BY <1>1, <2>6, <2>9
    <3>2. DeviceAt(card, t, j, pos)
      BY <1>1, <2>2, <2>6, <2>9, DeviceSame
    <3> QED BY <1>1, <2>1, <2>6, <2>7, <3>1, <3>2 DEF Spoiled
  <2> QED BY <2>8, <2>9
<1> QED BY <1>2, <1>3

\* The interrupt: the device has taken the byte, its answer is read.
LEMMA HandleStep ==
    ASSUME NEW j \in Jobs, NEW s, Shape(s), SavedTyped(s), Waits(s), s.write = {}, s.irq,
           NEW pos \in Nat, Waiting(card, s, j, pos),
           NEW v, v = s.ctrl \cup {"ACK"}, NEW t, t = Acked(s, v)
    PROVE  /\ Sending(card, t, j, pos) /\ SavedTyped(t) /\ t.write = {}
           /\ ReplyAt(card, s, j, pos) /\ pos > 0
<1>0. DOMAIN s = Fields
  BY DEF Shape, BusShape
<1>1. ~ s.shift.on /\ s.heard
  BY DEF Waits, Waiting, Shape, BusShape
<1>2. s.ctrl = CtrlOf(j) /\ DeviceAt(card, s, j, pos) /\ ReplyAt(card, s, j, pos) /\ pos > 0
  BY <1>1 DEF Waiting
<1>3. "SELECT" \in v /\ "TX_EN" \in v /\ "RESET" \notin v
  BY <1>2 DEF CtrlOf
<1>9. v \ {"ACK", "RESET"} = CtrlOf(j)
  BY <1>2 DEF CtrlOf
<1>5. /\ SameDevices(s, t) /\ t.ctrl = v \ {"ACK", "RESET"} /\ t.heard = s.heard
      /\ "RX_RDY" \notin t.stat
  BY <1>0, <1>3, Acknowledged
<1>6. Ready(card, s, j, pos)
  BY <1>1, <1>2 DEF Ready, DeviceAt
<1>7. Ready(card, t, j, pos)
  BY <1>2, <1>5, <1>6, DeviceSame
<1>8. SavedTyped(t) /\ t.write = {}
  BY <1>5 DEF SavedTyped, SameDevices
<1> QED BY <1>2, <1>9, <1>5, <1>7, <1>8 DEF Sending

LEMMA BeginStep ==
    ASSUME NEW j \in Jobs, NEW s, Shape(s), SavedTyped(s), s.write = {}, s.dev = "none",
           s.owner = "none", NEW v, v \ {"ACK", "RESET"} = CtrlOf(j), "RESET" \notin v,
           NEW t, t = Acked(s, v)
    PROVE  Sending(card, t, j, 0) /\ SavedTyped(t) /\ t.write = {}
<1>1. "SELECT" \in v /\ "TX_EN" \in v /\ DOMAIN s = Fields
  BY DEF CtrlOf, Shape, BusShape
<1>2. /\ SameDevices(s, t) /\ t.ctrl = v \ {"ACK", "RESET"} /\ t.heard = s.heard
      /\ "RX_RDY" \notin t.stat /\ t.owner \in {s.owner, "none"}
  BY <1>1, Acknowledged
<1>3. t.dev = "none" /\ t.write = {} /\ t.owner # "pad" /\ SavedTyped(t)
  BY <1>2 DEF SavedTyped, SameDevices
<1>4. Ready(card, t, j, 0)
  BY <1>3 DEF Ready, DeviceAt
<1> QED BY <1>2, <1>3, <1>4 DEF Sending

----------------------------------------------------------------------------
(* The invariant of the cards.                                              *)

\* What a read has delivered so far.
Delivered(cd, g, j, n) ==
    j.cmd = READ =>
        /\ \E S : g.got \in Seq(S)
        /\ Len(g.got) = n
        /\ j.lsb < Sectors =>
              \A i \in 11..10 + SectorBytes : i <= n => g.got[i] = cd[j.slot].data[j.lsb][i - 10]
Read(cd, g, j) ==
    /\ j.cmd = READ /\ Delivered(cd, g, j, 12 + SectorBytes)
    /\ g.got[12 + SectorBytes] = GOOD => j.lsb < Sectors

\* The transfer in progress, by the driver's phase.
Transfer(cd, s, g, j) ==
    /\ g.pos \in Nat /\ InScript(j, g.pos)
    /\ g.phase = "send" =>
          /\ Sending(cd, s, j, g.pos) /\ Delivered(cd, g, j, g.pos)
          /\ j.dev = "card" => g.pos < Len(Script(j))
    /\ g.phase \in {"wait", "last"} => Waiting(cd, s, j, g.pos) /\ Delivered(cd, g, j, g.pos - 1)
    /\ g.phase = "wait" /\ j.dev = "card" => g.pos < Len(Script(j))
    /\ g.phase = "last" /\ j.dev = "card" => g.pos = Len(Script(j))
    /\ g.phase = "spoiled" => Spoiled(cd, s, j, g.pos) /\ g.stray = 1
    /\ g.phase = "halt" => AtRest(s)

\* The sector of a write in progress is not promised to anybody.
Unpromised(cf, j) == j.cmd = WRITE => \A c \in cf : ~ (c.slot = j.slot /\ c.sector = j.lsb)

\* The images and their files.
CardType == [present : BOOLEAN, data : Image, dirty : BOOLEAN]
FileType == [is : {"full", "short"}, data : Image]
ImagesInv(cd, dk) ==
    /\ cd \in [Slots -> CardType] /\ dk \in [Slots -> FileType]
    /\ \A i \in Slots :
          cd[i].present /\ ~ cd[i].dirty => dk[i].is = "full" /\ dk[i].data = cd[i].data

Promised(cd, cf) ==
    \A c \in cf : /\ c.slot \in Slots /\ c.sector \in 0..Sectors - 1
                  /\ cd[c.slot].present /\ cd[c.slot].data[c.sector] = c.data

GuestInv(cd, s, g, cf) ==
    /\ g.phase \in {"idle", "done"} => s.dev = "none" /\ s.owner = "none"
    /\ g.phase = "idle" => g.job = {}
    /\ g.phase # "idle" =>
          \E j \in Jobs :
              /\ g.job = {j}
              /\ g.phase = "done" => Read(cd, g, j)
              /\ g.phase # "done" => Transfer(cd, s, g, j) /\ Unpromised(cf, j)

CardInv(cd, dk, s, g, cf) ==
    /\ ImagesInv(cd, dk) /\ SavedTyped(s) /\ s.write = {}
    /\ GuestInv(cd, s, g, cf) /\ Promised(cd, cf)

\* A sector that was complete goes to the card: r before, t after, on the images cd and ce.
HandsOver(r, t) ==
    /\ t.write = {} /\ t.dev = r.dev /\ t.slot = r.slot /\ t.mcslot = r.mcslot
    /\ t.mc = r.mc /\ t.saved = r.saved /\ t.ctrl = r.ctrl /\ t.rx = r.rx /\ t.heard = r.heard
    /\ t.owner = r.owner /\ t.irq = r.irq /\ t.stat = r.stat
    /\ t.shift = r.shift /\ t.buf = r.buf /\ t.ack = r.ack
Takes(cd, ce, r, j) ==
    /\ \A i \in Slots : ce[i].present = cd[i].present
    /\ r.write = {} => ce = cd
    /\ r.write # {} =>
          \A i \in Slots : ce[i].data = IF i = j.slot THEN [cd[i].data EXCEPT ![j.lsb] = j.data]
                                                      ELSE cd[i].data

LEMMA StoredSettles ==
    ASSUME NEW j \in Jobs, NEW r, WritesOnly(r, j), NEW t, HandsOver(r, t), NEW cd, NEW ce,
           ImagesTyped(cd), Takes(cd, ce, r, j), Stored(cd, r, j)
    PROVE  Stored(ce, t, j)
<1>1. j.slot \in Slots /\ j.lsb \in Nat
  <2>1. j.slot \in Slots /\ j.lsb \in 0..255
    BY JobIs, Zenon
  <2> QED BY <2>1
<1>2. t.write = {} /\ j.lsb < Sectors
  BY DEF HandsOver, Stored
<1>3. CASE r.write = {}
  BY <1>2, <1>3 DEF Takes, Stored
<1>4. CASE r.write # {}
  <2> DEFINE x == cd[j.slot].data
             y == j.data
             l == j.lsb
  <2>1. ce[j.slot].data = [x EXCEPT ![l] = y]
    BY <1>1, <1>4 DEF Takes
  <2>2. l \in DOMAIN x
    <3>1. x \in Image
      BY <1>1 DEF ImagesTyped
    <3>2. l \in Nat /\ l < Sectors /\ Sectors \in Nat
      BY <1>1, <1>2, SerialAssumption
    <3> HIDE DEF x, l
    <3>3. DOMAIN x = 0..Sectors - 1
      BY <3>1 DEF Image
    <3> QED BY <3>2, <3>3
  <2> HIDE DEF x, y, l
  <2>3. [x EXCEPT ![l] = y][l] = y
    BY <2>2
  <2>4. ce[j.slot].data[j.lsb] = j.data
    BY <2>1, <2>3 DEF y, l
  <2> QED BY <1>2, <2>4 DEF Stored
<1> QED BY <1>3, <1>4

LEMMA DeviceSettles ==
    ASSUME NEW j \in Jobs, NEW r, WritesOnly(r, j), NEW t, HandsOver(r, t), NEW cd, NEW ce,
           ImagesTyped(cd), Takes(cd, ce, r, j), NEW k
    PROVE  /\ DeviceAt(cd, r, j, k) => DeviceAt(ce, t, j, k)
           /\ Ready(cd, r, j, k) => Ready(ce, t, j, k)
           /\ ReplyAt(cd, r, j, k) => ReplyAt(ce, t, j, k)
           /\ WritesOnly(t, j)
<1>1. Stored(cd, r, j) => Stored(ce, t, j)
  BY StoredSettles
<1>2. j.slot \in Slots /\ (j.cmd \in {READ, GETID} => ce = cd)
  <2>1. j.slot \in Slots
    BY JobIs
  <2>2. j.cmd \in {READ, GETID} => r.write = {}
    BY DEF WritesOnly, READ, WRITE, GETID
  <2> QED BY <2>1, <2>2 DEF Takes
<1>3. t.write = {} /\ ce[j.slot].present = cd[j.slot].present
  BY <1>2 DEF HandsOver, Takes
<1>4. j.cmd = WRITE /\ WriteAt(cd, r, j, k) => WriteAt(ce, t, j, k)
  BY <1>1, <1>3 DEF WriteAt, HandsOver
<1>5. j.cmd = READ /\ ReadAt(cd, r, j, k) => ReadAt(ce, t, j, k)
  <2>1. j.cmd = READ => ce = cd
    BY <1>2
  <2> QED BY <2>1, <1>3 DEF ReadAt, HandsOver
<1>6. IdAt(r, k) => IdAt(t, k)
  BY <1>3 DEF IdAt, HandsOver
<1>7. CardAt(cd, r, j, k) => CardAt(ce, t, j, k)
  BY <1>3, <1>4, <1>5, <1>6 DEF CardAt, HandsOver
<1>8. DeviceAt(cd, r, j, k) => DeviceAt(ce, t, j, k)
  BY <1>3, <1>7 DEF DeviceAt, HandsOver
<1>9. ReplyAt(cd, r, j, k) => ReplyAt(ce, t, j, k)
  <2>1. j.cmd = READ => ce = cd
    BY <1>2
  <2> QED BY <1>1, <2>1 DEF ReplyAt, HandsOver
<1>10. WritesOnly(t, j)
  BY <1>3 DEF WritesOnly
<1> QED BY <1>7, <1>8, <1>9, <1>10 DEF Ready

LEMMA TransferSettles ==
    ASSUME NEW j \in Jobs, NEW r, WritesOnly(r, j), NEW t, HandsOver(r, t), NEW cd, NEW ce,
           ImagesTyped(cd), Takes(cd, ce, r, j), NEW pos, NEW g, NEW n
    PROVE  /\ Sending(cd, r, j, pos) => Sending(ce, t, j, pos)
           /\ Waiting(cd, r, j, pos) => Waiting(ce, t, j, pos)
           /\ Spoiled(cd, r, j, pos) => Spoiled(ce, t, j, pos)
           /\ Delivered(cd, g, j, n) => Delivered(ce, g, j, n)
           /\ SavedTyped(r) => SavedTyped(t)
<1>1. ASSUME NEW k
      PROVE  /\ DeviceAt(cd, r, j, k) => DeviceAt(ce, t, j, k)
             /\ Ready(cd, r, j, k) => Ready(ce, t, j, k)
             /\ ReplyAt(cd, r, j, k) => ReplyAt(ce, t, j, k)
             /\ WritesOnly(t, j)
  BY DeviceSettles
<1>2. Sending(cd, r, j, pos) => Sending(ce, t, j, pos)
  BY <1>1 DEF Sending, HandsOver
<1>3. Waiting(cd, r, j, pos) => Waiting(ce, t, j, pos)
  BY <1>1 DEF Waiting, HandsOver
<1>4. Spoiled(cd, r, j, pos) => Spoiled(ce, t, j, pos)
  BY <1>1 DEF Spoiled, HandsOver
<1>5. Delivered(cd, g, j, n) => Delivered(ce, g, j, n)
  <2>1. j.cmd = READ => ce = cd
    BY DEF Takes, WritesOnly, READ, WRITE
  <2> QED BY <2>1 DEF Delivered
<1>6. SavedTyped(r) => SavedTyped(t)
  BY DEF SavedTyped, HandsOver
<1> QED BY <1>2, <1>3, <1>4, <1>5, <1>6

----------------------------------------------------------------------------
(* The images and their files.                                              *)

LEMMA ImageFacts ==
    /\ Blank \in Image /\ ZeroData \in SectorData
    /\ NoCard \in CardType /\ Short \in FileType
    /\ \A d \in Image : Full(d) \in FileType
    /\ \A f \in FileType : Loaded(f) \in CardType
<1>1. ZeroData \in SectorData
  BY DEF ZeroData, SectorData
<1>2. Blank \in Image
  BY <1>1 DEF Blank, Image
<1>3. NoCard \in CardType /\ Short \in FileType
  BY <1>2 DEF NoCard, CardType, Short, FileType
<1>4. \A d \in Image : Full(d) \in FileType
  BY DEF Full, FileType
<1>5. \A f \in FileType : Loaded(f) \in CardType
  BY <1>3 DEF Loaded, FileType, CardType
<1> QED BY <1>1, <1>2, <1>3, <1>4, <1>5

LEMMA ImagesAreTyped ==
    ASSUME NEW cd, NEW dk, ImagesInv(cd, dk)
    PROVE  ImagesTyped(cd)
BY DEF ImagesInv, ImagesTyped, CardType

\* A start over any files: a card that is there is the one in its file.
LEMMA LoadedInv ==
    ASSUME NEW files, files \in [Slots -> FileType],
           NEW cd, cd = [s \in Slots |-> Loaded(files[s])]
    PROVE  ImagesInv(cd, files)
<1>1. \A i \in Slots : cd[i] = Loaded(files[i]) /\ files[i] \in FileType
  OBVIOUS
<1>2. cd \in [Slots -> CardType]
  BY ImageFacts
<1>3. \A f : Loaded(f).present => f.is = "full" /\ f.data = Loaded(f).data
  BY DEF Loaded, NoCard
<1> QED BY <1>1, <1>2, <1>3 DEF ImagesInv

\* One sector goes to a card and the card to its file, which may fail.
LEMMA FlushInv ==
    ASSUME NEW c, c \in CardType, NEW f, f \in FileType, NEW w, w.data \in SectorData,
           NEW io, NEW m, m = memcard_write_sector(c, w),
           NEW e, e = flushed(m, io), NEW h, h = memcard_flush(f, m, io)
    PROVE  /\ e \in CardType /\ h \in FileType /\ e.present = c.present
           /\ e.data = [c.data EXCEPT ![w.sector] = w.data]
           /\ ~ e.dirty => h.is = "full" /\ h.data = e.data
<1> DEFINE d == [c.data EXCEPT ![w.sector] = w.data]
<1>1. c.data \in Image /\ c.present \in BOOLEAN /\ DOMAIN c = {"present", "data", "dirty"}
  BY DEF CardType
<1>2. d \in Image
  <2> DEFINE x == c.data
             y == w.data
  <2>1. x \in Image /\ y \in SectorData
    BY <1>1
  <2> HIDE DEF x, y
  <2>2. [x EXCEPT ![w.sector] = y] \in Image
    BY <2>1 DEF Image
  <2> QED BY <2>2 DEF x, y
<1>3. m = [c EXCEPT !.data = d, !.dirty = TRUE]
  BY <1>1 DEF memcard_write_sector
<1> HIDE DEF d
<1>4. /\ m.present = c.present /\ m.data = d /\ m.dirty = TRUE
      /\ DOMAIN m = {"present", "data", "dirty"}
  BY <1>1, <1>3
<1>5. e = [m EXCEPT !.dirty = (m.dirty /\ io # "ok")]
  BY <1>4 DEF flushed
<1>6. e.present = m.present /\ e.data = m.data /\ (e.dirty <=> io # "ok")
  BY <1>4, <1>5
<1>7. e = [present |-> m.present, data |-> m.data, dirty |-> (io # "ok")]
  BY <1>4, <1>5
<1>8. e \in CardType
  BY <1>1, <1>2, <1>4, <1>7 DEF CardType
<1>9. /\ io = "ok" => h = Full(d)
      /\ io = "short" => h = Short
      /\ io \notin {"ok", "short"} => h = f
  BY <1>4 DEF memcard_flush
<1>10. h \in FileType /\ (io = "ok" => h.is = "full" /\ h.data = d)
  BY <1>2, <1>9, ImageFacts DEF Full
<1> QED BY <1>4, <1>6, <1>8, <1>10 DEF d

LEMMA BytesAreData ==
    ASSUME NEW y \in [1..SectorBytes -> 0..255]
    PROVE  y \in SectorData
<1>0. 0..255 \subseteq Nat
  OBVIOUS
<1>1. \A i \in 1..SectorBytes : y[i] \in Nat
  BY <1>0, Zenon
<1>2. y = [i \in 1..SectorBytes |-> y[i]]
  BY Zenon
<1> QED BY <1>1, <1>2, Zenon DEF SectorData

LEMMA TickQuiet ==
    ASSUME ImagesInv(card, disk), NEW n, NEW io, Tick(n, io), sio_advance(sio, n).write = {}
    PROVE  card' = card /\ disk' = disk
<1> DEFINE r == sio_advance(sio, n)
           touched == {w.slot : w \in r.write}
           c == [s \in Slots |-> IF s \in touched
                              THEN memcard_write_sector(card[s], CHOOSE w \in r.write : TRUE)
                              ELSE card[s]]
<1>1. /\ card' = [s \in Slots |-> IF s \in touched THEN flushed(c[s], io) ELSE card[s]]
      /\ disk' = [s \in Slots |-> IF s \in touched THEN memcard_flush(disk[s], c[s], io) ELSE disk[s]]
  BY Zenon DEF Tick
<1>2. touched = {}
  OBVIOUS
<1> HIDE DEF touched, c, r
<1>3. card \in [Slots -> CardType] /\ disk \in [Slots -> FileType]
  BY DEF ImagesInv
<1>4. card' = [s \in Slots |-> card[s]] /\ disk' = [s \in Slots |-> disk[s]]
  BY <1>1, <1>2
<1> QED BY <1>3, <1>4

LEMMA TickImages ==
    ASSUME ImagesInv(card, disk), NEW n, NEW io, Tick(n, io), NEW j \in Jobs,
           NEW r, r = sio_advance(sio, n), WritesOnly(r, j)
    PROVE  ImagesInv(card', disk') /\ Takes(card, card', r, j)
<1>1. CASE r.write = {}
  <2>1. card' = card /\ disk' = disk
    BY <1>1, TickQuiet
  <2> QED BY <1>1, <2>1 DEF Takes
<1>2. CASE r.write # {}
  <2> DEFINE x == TheWrite(j)
             touched == {w.slot : w \in r.write}
             p == CHOOSE w \in r.write : TRUE
             c == [s \in Slots |-> IF s \in touched THEN memcard_write_sector(card[s], p) ELSE card[s]]
             l == j.slot
             m == memcard_write_sector(card[l], x)
             e == flushed(m, io)
             h == memcard_flush(disk[l], m, io)
  <2>1. r.write = {x} /\ j.cmd = WRITE
    BY <1>2 DEF WritesOnly
  <2>2. l \in Slots /\ x.slot = l /\ x.sector = j.lsb /\ x.data = j.data
    BY JobIs DEF TheWrite
  <2>3. x.data \in SectorData
    <3>1. j.data \in [1..SectorBytes -> 0..255]
      BY <2>1, JobIs, Zenon
    <3> DEFINE y == j.data
    <3>2. y \in [1..SectorBytes -> 0..255] /\ x.data = y
      BY <2>2, <3>1
    <3> HIDE DEF y, x
    <3>3. y \in SectorData
      BY <3>2, BytesAreData
    <3> QED BY <3>2, <3>3
  <2>4. touched = {l} /\ p = x
    <3> HIDE DEF x, l
    <3> QED BY <2>1, <2>2
  <2>5. /\ card' = [s \in Slots |-> IF s \in touched THEN flushed(c[s], io) ELSE card[s]]
        /\ disk' = [s \in Slots |-> IF s \in touched THEN memcard_flush(disk[s], c[s], io) ELSE disk[s]]
    BY Zenon DEF Tick
  <2>6. c[l] = m
    <3> HIDE DEF x, l, touched, p
    <3> QED BY <2>2, <2>4
  <2> HIDE DEF c, touched, x, l, p
  <2>7. /\ card \in [Slots -> CardType] /\ disk \in [Slots -> FileType]
        /\ \A i \in Slots :
              card[i].present /\ ~ card[i].dirty => disk[i].is = "full" /\ disk[i].data = card[i].data
    BY DEF ImagesInv
  <2>8. /\ e \in CardType /\ h \in FileType /\ e.present = card[l].present
        /\ e.data = [card[l].data EXCEPT ![x.sector] = x.data]
        /\ ~ e.dirty => h.is = "full" /\ h.data = e.data
    <3>1. card[l] \in CardType /\ disk[l] \in FileType
      BY <2>2, <2>7
    <3> QED BY <2>3, <3>1, FlushInv
  <2>9. /\ card' = [s \in Slots |-> IF s = l THEN e ELSE card[s]]
        /\ disk' = [s \in Slots |-> IF s = l THEN h ELSE disk[s]]
    BY <2>4, <2>5, <2>6
  <2> HIDE DEF e, h, m
  <2>10. ImagesInv(card', disk')
    <3>1. card' \in [Slots -> CardType] /\ disk' \in [Slots -> FileType]
      BY <2>7, <2>8, <2>9
    <3>2. ASSUME NEW i \in Slots, card'[i].present, ~ card'[i].dirty
          PROVE  disk'[i].is = "full" /\ disk'[i].data = card'[i].data
      <4>1. card'[i] = (IF i = l THEN e ELSE card[i]) /\ disk'[i] = (IF i = l THEN h ELSE disk[i])
        BY <2>9
      <4> QED BY <2>7, <2>8, <3>2, <4>1
    <3> QED BY <3>1, <3>2 DEF ImagesInv
  <2>11. Takes(card, card', r, j)
    <3>1. \A i \in Slots : card'[i] = IF i = l THEN e ELSE card[i]
      BY <2>9
    <3>2. e.data = [card[l].data EXCEPT ![j.lsb] = j.data]
      BY <2>2, <2>8
    <3>3. \A i \in Slots : card'[i].present = card[i].present
      BY <2>8, <3>1
    <3>4. \A i \in Slots : card'[i].data = IF i = l THEN [card[i].data EXCEPT ![j.lsb] = j.data]
                                                  ELSE card[i].data
      BY <3>1, <3>2
    <3> QED BY <1>2, <3>3, <3>4 DEF Takes, l
  <2> QED BY <2>10, <2>11
<1> QED BY <1>1, <1>2

----------------------------------------------------------------------------
(* Every step keeps the invariant of the cards.                             *)

CInv == CardInv(card, disk, sio, guest, confirmed)

LEMMA AppendIs ==
    ASSUME NEW S, NEW q \in Seq(S), NEW x
    PROVE  /\ \E T : Append(q, x) \in Seq(T)
           /\ Len(Append(q, x)) = Len(q) + 1 /\ Len(q) \in Nat
           /\ \A i \in 1..Len(q) : Append(q, x)[i] = q[i]
           /\ Append(q, x)[Len(q) + 1] = x
<1> DEFINE T == S \cup {x}
<1>1. q \in Seq(T) /\ x \in T
  BY SeqWiden
<1> HIDE DEF T
<1>2. /\ Append(q, x) \in Seq(T)
      /\ Len(Append(q, x)) = Len(q) + 1 /\ Len(q) \in Nat
      /\ \A i \in 1..Len(q) : Append(q, x)[i] = q[i]
      /\ Append(q, x)[Len(q) + 1] = x
  BY <1>1, AppendProperties
<1> QED BY <1>2

LEMMA DeliverMore ==
    ASSUME NEW cd, NEW g, NEW h, NEW j \in Jobs, NEW n \in Nat, n > 0, Delivered(cd, g, j, n - 1),
           NEW s, ReplyAt(cd, s, j, n), h.got = Append(g.got, s.rx)
    PROVE  Delivered(cd, h, j, n)
<1> SUFFICES ASSUME j.cmd = READ
             PROVE  /\ \E S : h.got \in Seq(S)
                    /\ Len(h.got) = n
                    /\ j.lsb < Sectors =>
                          \A i \in 11..10 + SectorBytes :
                              i <= n => h.got[i] = cd[j.slot].data[j.lsb][i - 10]
  BY DEF Delivered
<1> DEFINE q == g.got
           x == s.rx
           d == cd[j.slot].data[j.lsb]
           p == h.got
<1>1. PICK S : q \in Seq(S)
  BY DEF Delivered
<1>2. /\ Len(q) = n - 1
      /\ j.lsb < Sectors => \A i \in 11..10 + SectorBytes : i <= n - 1 => q[i] = d[i - 10]
  BY DEF Delivered
<1>3. j.lsb < Sectors /\ n \in 11..10 + SectorBytes => x = d[n - 10]
  BY DEF ReplyAt
<1>4. p = Append(q, x) /\ SectorBytes \in Nat
  BY SerialAssumption
<1> HIDE DEF q, x, d, p
<1>5. /\ \E T : p \in Seq(T)
      /\ Len(p) = Len(q) + 1
      /\ \A i \in 1..Len(q) : p[i] = q[i]
      /\ p[Len(q) + 1] = x
  BY <1>1, <1>4, AppendIs
<1>6. Len(p) = n /\ p[n] = x /\ (\A i \in 1..n - 1 : p[i] = q[i])
  BY <1>2, <1>5
<1>7. ASSUME j.lsb < Sectors, NEW i \in 11..10 + SectorBytes, i <= n
      PROVE  p[i] = d[i - 10]
  <2>1. CASE i = n
    BY <2>1, <1>3, <1>6, <1>7
  <2>2. CASE i # n
    <3>1. i \in 1..n - 1 /\ i <= n - 1
      BY <2>2, <1>4, <1>7
    <3> QED BY <3>1, <1>2, <1>6, <1>7
  <2> QED BY <2>1, <2>2
<1> QED BY <1>5, <1>6, <1>7 DEF p, d

LEMMA InTransfer ==
    ASSUME CInv, guest.phase \notin {"idle", "done"}
    PROVE  \E j \in Jobs : /\ guest.job = {j} /\ Job = j
                           /\ Transfer(card, sio, guest, j) /\ Unpromised(confirmed, j)
<1>1. PICK j \in Jobs : guest.job = {j} /\ Transfer(card, sio, guest, j) /\ Unpromised(confirmed, j)
  BY DEF CInv, CardInv, GuestInv
<1>2. Job = j
  BY <1>1 DEF Job
<1> QED BY <1>1, <1>2

LEMMA GoesOn ==
    ASSUME CInv, card' = card, disk' = disk, confirmed' \subseteq confirmed,
           SavedTyped(sio'), sio'.write = {},
           NEW j \in Jobs, guest'.job = {j}, guest'.phase \notin {"idle", "done"},
           Transfer(card, sio', guest', j), Unpromised(confirmed', j)
    PROVE  CInv'
<1>1. GuestInv(card', sio', guest', confirmed')
  BY DEF GuestInv
<1>2. Promised(card', confirmed')
  BY DEF CInv, CardInv, Promised
<1>3. ImagesInv(card', disk')
  BY DEF CInv, CardInv
<1> QED BY <1>1, <1>2, <1>3 DEF CInv, CardInv

LEMMA CardBegin ==
    ASSUME Inv, CInv, NEW j \in Jobs, Begin(j)
    PROVE  CInv'
<1> DEFINE v == {"TX_EN", "SELECT", "ACK_IRQ_EN"} \cup (IF j.slot = 1 THEN {"SLOT"} ELSE {})
                    \cup (IF GuestAcks THEN {"ACK"} ELSE {})
<1>1. /\ Shape(sio) /\ SavedTyped(sio) /\ sio.write = {} /\ sio.dev = "none" /\ sio.owner = "none"
  BY DEF Inv, PortInv, CInv, CardInv, GuestInv, Begin
<1>2. v \ {"ACK", "RESET"} = CtrlOf(j) /\ "RESET" \notin v
  BY DEF CtrlOf
<1>3. sio' = Acked(sio, v)
  BY DEF Begin, Acked
<1> HIDE DEF v
<1>4. Sending(card, sio', j, 0) /\ SavedTyped(sio') /\ sio'.write = {}
  BY <1>1, <1>2, <1>3, BeginStep
<1>5. /\ guest'.phase = "send" /\ guest'.job = {j} /\ guest'.pos = 0 /\ guest'.got = <<>>
  BY DEF Begin, NoJob
<1>6. j.dev = "card" => 0 < Len(Script(j)) /\ 0 <= Len(Script(j))
  BY ScriptIs, JobIs DEF READ, WRITE, GETID
<1>7. Delivered(card, guest', j, 0)
  <2>1. <<>> \in Seq({}) /\ Len(<<>>) = 0
    OBVIOUS
  <2>2. SectorBytes \in Nat
    BY SerialAssumption
  <2>3. \A i \in 11..10 + SectorBytes : ~ (i <= 0)
    BY <2>2
  <2> QED BY <1>5, <2>1, <2>3, Zenon DEF Delivered
<1>8. Transfer(card, sio', guest', j)
  BY <1>4, <1>5, <1>6, <1>7 DEF Transfer, InScript
<1>9. confirmed' \subseteq confirmed /\ Unpromised(confirmed', j)
  BY DEF Begin, Unpromised
<1>10. card' = card /\ disk' = disk
  BY DEF Begin
<1> QED BY <1>4, <1>5, <1>8, <1>9, <1>10, GoesOn

LEMMA CardSend ==
    ASSUME Inv, CInv, Send
    PROVE  CInv'
<1>1. PICK j \in Jobs : /\ guest.job = {j} /\ Job = j
                        /\ Transfer(card, sio, guest, j) /\ Unpromised(confirmed, j)
  BY InTransfer DEF Send
<1> DEFINE pos == guest.pos
           n == pos + 1
           next == IF n = Length(guest, j) THEN "last" ELSE "wait"
<1>2. /\ Shape(sio) /\ AtRest(sio) /\ ~ sio.irq /\ SavedTyped(sio) /\ sio.write = {}
      /\ GuestShape(guest)
  BY DEF Inv, PortInv, CInv, CardInv, Send
<1>3. /\ pos \in Nat /\ Sending(card, sio, j, pos) /\ Delivered(card, guest, j, pos)
      /\ j.dev = "card" => pos < Len(Script(j))
  BY <1>1 DEF Transfer, Send
<1>4. /\ sio' = write_tx(sio, Script(j)[n])
      /\ guest' = [guest EXCEPT !.pos = n, !.phase = next]
      /\ card' = card /\ disk' = disk /\ confirmed' = confirmed
  BY <1>1, <1>2 DEF Send, GuestShape
<1>5. next \in {"last", "wait"} /\ (j.dev = "card" => (next = "last" <=> n = Len(Script(j))))
  BY DEF Length
<1>6. j.dev = "card" => Len(Script(j)) \in Nat
  BY ScriptIs, JobIs DEF READ, WRITE, GETID
<1>7. n \in Nat /\ n > 0 /\ n - 1 = pos /\ n = pos + 1 /\ (j.dev = "card" => n <= Len(Script(j)))
  BY <1>3, <1>6
<1> HIDE DEF n, next, pos
<1>8. Waiting(card, sio', j, n) /\ SavedTyped(sio') /\ sio'.write = {}
  BY <1>2, <1>3, <1>4, <1>7, SendStep
<1>9. /\ guest'.phase = next /\ guest'.pos = n /\ guest'.job = {j} /\ guest'.got = guest.got
  BY <1>1, <1>2, <1>4 DEF GuestShape
<1>10. Delivered(card, guest', j, n - 1)
  BY <1>3, <1>7, <1>9 DEF Delivered
<1>11. Transfer(card, sio', guest', j)
  <2>1. next = "wait" /\ j.dev = "card" => n < Len(Script(j))
    BY <1>5, <1>6, <1>7
  <2>2. next = "last" /\ j.dev = "card" => n = Len(Script(j))
    BY <1>5
  <2> QED BY <2>1, <2>2, <1>5, <1>7, <1>8, <1>9, <1>10 DEF Transfer, InScript
<1> QED BY <1>1, <1>4, <1>5, <1>8, <1>9, <1>11, GoesOn

LEMMA CardHandle ==
    ASSUME Inv, CInv, Handle
    PROVE  CInv'
<1>1. PICK j \in Jobs : /\ guest.job = {j} /\ Job = j
                        /\ Transfer(card, sio, guest, j) /\ Unpromised(confirmed, j)
  BY InTransfer DEF Handle
<1> DEFINE pos == guest.pos
           v == sio.ctrl \cup {"ACK"}
<1>2. /\ Shape(sio) /\ Waits(sio) /\ SavedTyped(sio) /\ sio.write = {} /\ GuestShape(guest)
  BY DEF Inv, PortInv, CInv, CardInv, Handle
<1>3. /\ pos \in Nat /\ Waiting(card, sio, j, pos) /\ Delivered(card, guest, j, pos - 1)
      /\ InScript(j, pos) /\ (j.dev = "card" => pos < Len(Script(j)))
  BY <1>1 DEF Transfer, Handle
<1>4. /\ sio' = Acked(sio, v) /\ sio.irq
      /\ guest' = [guest EXCEPT !.phase = "send", !.got = Append(guest.got, sio.rx)]
      /\ card' = card /\ disk' = disk /\ confirmed' = confirmed
  BY <1>2 DEF Handle, Acked, GuestShape
<1>5. v = sio.ctrl \cup {"ACK"}
  OBVIOUS
<1> HIDE DEF v, pos
<1>6. /\ Sending(card, sio', j, pos) /\ SavedTyped(sio') /\ sio'.write = {}
      /\ ReplyAt(card, sio, j, pos) /\ pos > 0
  BY <1>2, <1>3, <1>4, <1>5, HandleStep
<1>7. /\ guest'.phase = "send" /\ guest'.pos = pos /\ guest'.job = {j}
      /\ guest'.got = Append(guest.got, sio.rx)
  BY <1>1, <1>2, <1>4 DEF GuestShape, pos
<1>8. Delivered(card, guest', j, pos)
  BY <1>3, <1>6, <1>7, DeliverMore
<1>9. Transfer(card, sio', guest', j)
  BY <1>3, <1>6, <1>7, <1>8 DEF Transfer
<1> QED BY <1>1, <1>4, <1>6, <1>7, <1>9, GoesOn

\* A transfer ends without a delivery.
LEMMA Ends ==
    ASSUME CInv, card' = card, disk' = disk, Promised(card, confirmed'),
           SavedTyped(sio'), sio'.write = {}, sio'.dev = "none", sio'.owner = "none", guest' = NoJob
    PROVE  CInv'
<1>1. guest'.phase = "idle" /\ guest'.job = {}
  BY DEF NoJob
<1>2. GuestInv(card', sio', guest', confirmed')
  BY <1>1 DEF GuestInv
<1> QED BY <1>2 DEF CInv, CardInv

LEMMA CardFinish ==
    ASSUME Inv, CInv, Finish
    PROVE  CInv'
<1>1. PICK j \in Jobs : /\ guest.job = {j} /\ Job = j
                        /\ Transfer(card, sio, guest, j) /\ Unpromised(confirmed, j)
  BY InTransfer DEF Finish
<1> DEFINE pos == guest.pos
           r == read_rx(sio)
<1>2. /\ Shape(sio) /\ "SELECT" \in sio.ctrl /\ SavedTyped(sio) /\ sio.write = {}
      /\ GuestShape(guest) /\ Promised(card, confirmed)
  BY DEF Inv, PortInv, CInv, CardInv, Finish
<1>3. /\ pos \in Nat /\ Waiting(card, sio, j, pos) /\ Delivered(card, guest, j, pos - 1)
      /\ j.dev = "card" => pos = Len(Script(j))
  BY <1>1 DEF Transfer, Finish
<1>4. DeviceAt(card, sio, j, pos) /\ ReplyAt(card, sio, j, pos) /\ pos > 0
  BY <1>3 DEF Waiting, Finish
<1>5. sio'.dev = "none" /\ sio'.owner = "none" /\ sio'.write = {} /\ SavedTyped(sio')
  <2>1. SameDevices(sio, r) /\ Shape(r) /\ r.ctrl = sio.ctrl
    BY <1>2, ReadSame
  <2>2. sio' = write_ctrl(r, {})
    BY DEF Finish
  <2> HIDE DEF r
  <2>3. SavedTyped(r) /\ r.write = {}
    BY <1>2, <2>1 DEF SavedTyped, SameDevices
  <2> QED BY <1>2, <2>1, <2>2, <2>3, CtrlDrops
<1>6. card' = card /\ disk' = disk
  BY DEF Finish
<1>7. Promised(card, confirmed')
  <2>1. CASE ~ (j.cmd = WRITE /\ sio.rx = GOOD)
    BY <1>1, <1>2, <2>1 DEF Finish
  <2>2. CASE j.cmd = WRITE /\ sio.rx = GOOD
    <3> DEFINE c == [slot |-> j.slot, sector |-> j.lsb, data |-> j.data]
    <3>1. confirmed' = confirmed \cup {c}
      BY <1>1, <2>2 DEF Finish
    <3>2. j.dev = "card" /\ j.slot \in Slots /\ SectorBytes \in Nat \ {0}
      BY <2>2, JobIs
    <3>3. pos = 10 + SectorBytes
      BY <1>3, <2>2, <3>2, ScriptIs
    <3>4. Stored(card, sio, j)
      BY <1>4, <2>2, <3>3 DEF ReplyAt
    <3>5. card[j.slot].data[j.lsb] = j.data
      BY <1>2, <3>4 DEF Stored
    <3>6. card[j.slot].present
      <4>1. pos # 0 /\ pos # 1
        BY <3>2, <3>3
      <4> QED BY <1>4, <3>2, <4>1 DEF DeviceAt, CardAt
    <3>7. j.lsb \in 0..Sectors - 1
      <4> DEFINE l == j.lsb
      <4>1. l \in 0..255
        BY JobIs, Zenon
      <4>2. l < Sectors
        BY <3>4, Zenon DEF Stored
      <4>3. Sectors \in Nat
        BY SerialAssumption
      <4> HIDE DEF l
      <4>4. l \in 0..Sectors - 1
        BY <4>1, <4>2, <4>3
      <4> QED BY <4>4 DEF l
    <3> QED BY <1>2, <3>1, <3>2, <3>5, <3>6, <3>7 DEF Promised
  <2> QED BY <2>1, <2>2
<1>8. CASE j.cmd # READ
  <2>1. guest' = NoJob
    BY <1>1, <1>8 DEF Finish
  <2> QED BY <1>5, <1>6, <1>7, <2>1, Ends
<1>9. CASE j.cmd = READ
  <2>1. guest' = [guest EXCEPT !.phase = "done", !.got = Append(guest.got, sio.rx)]
    BY <1>1, <1>2, <1>9 DEF Finish, GuestShape
  <2>2. guest'.phase = "done" /\ guest'.job = {j} /\ guest'.got = Append(guest.got, sio.rx)
    BY <1>1, <1>2, <2>1 DEF GuestShape
  <2>3. pos = 12 + SectorBytes
    BY <1>3, <1>9, JobIs, ScriptIs
  <2> HIDE DEF pos, r
  <2>4. Delivered(card, guest', j, pos) /\ guest'.got[pos] = sio.rx
    <3>1. pos \in Nat /\ pos > 0 /\ Delivered(card, guest, j, pos - 1) /\ ReplyAt(card, sio, j, pos)
      BY <1>3, <1>4
    <3>2. guest'.got = Append(guest.got, sio.rx)
      BY <2>2
    <3>3. Delivered(card, guest', j, pos)
      BY <3>1, <3>2, DeliverMore
    <3>4. PICK S : guest.got \in Seq(S)
      BY <1>9, <3>1 DEF Delivered
    <3>5. Len(guest.got) = pos - 1
      BY <1>9, <3>1 DEF Delivered
    <3>6. Append(guest.got, sio.rx)[Len(guest.got) + 1] = sio.rx
      BY <3>4, AppendIs
    <3>7. Len(guest.got) + 1 = pos
      BY <3>1, <3>5
    <3> QED BY <3>2, <3>3, <3>6, <3>7
  <2>5. sio.rx = GOOD => j.lsb < Sectors
    BY <1>4, <1>9, <2>3 DEF ReplyAt
  <2>6. Read(card, guest', j)
    BY <1>9, <2>3, <2>4, <2>5 DEF Read
  <2>7. GuestInv(card', sio', guest', confirmed')
    BY <1>5, <1>6, <2>2, <2>6 DEF GuestInv
  <2> QED BY <1>5, <1>6, <1>7, <2>7 DEF CInv, CardInv
<1> QED BY <1>8, <1>9

LEMMA CardGiveUp ==
    ASSUME Inv, CInv, GiveUp
    PROVE  CInv'
<1>1. /\ Shape(sio) /\ "SELECT" \in sio.ctrl /\ SavedTyped(sio) /\ sio.write = {}
      /\ Promised(card, confirmed)
  BY DEF Inv, PortInv, CInv, CardInv, GiveUp
<1>2. PICK v \in {{}, {"RESET"}} : sio' = write_ctrl(sio, v)
  BY DEF GiveUp
<1>3. sio'.dev = "none" /\ sio'.owner = "none" /\ sio'.write = {} /\ SavedTyped(sio')
  BY <1>1, <1>2, CtrlDrops
<1>4. /\ card' = card /\ disk' = disk /\ confirmed' = confirmed /\ guest' = NoJob
  BY DEF GiveUp
<1> QED BY <1>1, <1>3, <1>4, Ends

LEMMA CardHalt ==
    ASSUME Inv, CInv, Halt
    PROVE  CInv'
<1>1. PICK j \in Jobs : /\ guest.job = {j} /\ Job = j
                        /\ Transfer(card, sio, guest, j) /\ Unpromised(confirmed, j)
  BY InTransfer DEF Halt
<1>2. Shape(sio) /\ SavedTyped(sio) /\ sio.write = {} /\ GuestShape(guest)
  BY DEF Inv, PortInv, CInv, CardInv
<1>3. sio.ctrl = CtrlOf(j)
  BY <1>1 DEF Transfer, Waiting, Spoiled, Halt
<1>4. "SELECT" \in sio.ctrl /\ "TX_EN" \in sio.ctrl /\ "RESET" \notin sio.ctrl /\ "ACK" \notin sio.ctrl
  BY <1>3 DEF CtrlOf
<1>5. SameDevices(sio, sio') /\ AtRest(sio')
  BY <1>2, <1>4, CtrlHalts DEF Halt
<1>6. SavedTyped(sio') /\ sio'.write = {}
  BY <1>2, <1>5 DEF SavedTyped, SameDevices
<1>7. /\ guest' = [guest EXCEPT !.phase = "halt"]
      /\ card' = card /\ disk' = disk /\ confirmed' = confirmed
  BY DEF Halt
<1>8. guest'.phase = "halt" /\ guest'.pos = guest.pos /\ guest'.job = {j}
  BY <1>1, <1>2, <1>7 DEF GuestShape
<1>9. Transfer(card, sio', guest', j)
  BY <1>1, <1>5, <1>8 DEF Transfer
<1> QED BY <1>1, <1>6, <1>7, <1>8, <1>9, GoesOn

LEMMA CardStray ==
    ASSUME MaxStray <= 1, Inv, CInv, NEW b \in {PAD, CARD}, Stray(b)
    PROVE  CInv'
<1>1. PICK j \in Jobs : /\ guest.job = {j} /\ Job = j
                        /\ Transfer(card, sio, guest, j) /\ Unpromised(confirmed, j)
  BY InTransfer DEF Stray
<1>2. Shape(sio) /\ SavedTyped(sio) /\ sio.write = {} /\ GuestShape(guest)
  BY DEF Inv, PortInv, CInv, CardInv
<1>3. guest.phase = "wait"
  <2>1. guest.phase = "spoiled" => guest.stray = 1
    BY <1>1 DEF Transfer
  <2>2. guest.stray < MaxStray /\ MaxStray \in Nat
    BY SerialAssumption DEF Stray
  <2> QED BY <2>1, <2>2 DEF Stray
<1>4. Waits(sio) /\ guest.stray = 0
  BY <1>3 DEF Inv, PortInv
<1>5. guest.pos \in Nat /\ Waiting(card, sio, j, guest.pos) /\ InScript(j, guest.pos)
  BY <1>1, <1>3 DEF Transfer
<1>6. sio' = write_tx(sio, b)
  BY DEF Stray
<1>7. Spoiled(card, sio', j, guest.pos) /\ SavedTyped(sio') /\ sio'.write = {}
  BY <1>2, <1>4, <1>5, <1>6, StrayStep
<1>8. /\ guest' = [guest EXCEPT !.phase = "spoiled", !.stray = guest.stray + 1]
      /\ card' = card /\ disk' = disk /\ confirmed' = confirmed
  BY <1>2 DEF Stray, GuestShape
<1>9. /\ guest'.phase = "spoiled" /\ guest'.pos = guest.pos /\ guest'.job = {j}
      /\ guest'.stray = 1
  BY <1>1, <1>2, <1>4, <1>8 DEF GuestShape
<1>10. Transfer(card, sio', guest', j)
  BY <1>5, <1>7, <1>9 DEF Transfer
<1> QED BY <1>1, <1>7, <1>8, <1>9, <1>10, GoesOn

\* Polling STAT and the host's input code.
LEMMA CardAlike ==
    ASSUME CInv, Alike(sio, sio'), sio'.irq = sio.irq, AtRest(sio) => AtRest(sio'),
           card' = card, disk' = disk, guest' = guest, confirmed' = confirmed
    PROVE  CInv'
<1>1. SavedTyped(sio') /\ sio'.write = {} /\ sio'.dev = sio.dev /\ sio'.owner = sio.owner
  BY DEF CInv, CardInv, Alike, SameDevices, SavedTyped
<1>2. ASSUME NEW j, Transfer(card, sio, guest, j)
      PROVE  Transfer(card, sio', guest, j)
  <2>1. /\ Sending(card, sio, j, guest.pos) => Sending(card, sio', j, guest.pos)
        /\ Waiting(card, sio, j, guest.pos) => Waiting(card, sio', j, guest.pos)
        /\ Spoiled(card, sio, j, guest.pos) => Spoiled(card, sio', j, guest.pos)
    BY AlikeKeeps
  <2> QED BY <1>2, <2>1 DEF Transfer
<1>3. GuestInv(card', sio', guest', confirmed')
  BY <1>1, <1>2 DEF CInv, CardInv, GuestInv
<1> QED BY <1>1, <1>3 DEF CInv, CardInv

LEMMA CardPoll ==
    ASSUME Inv, CInv, PollStat
    PROVE  CInv'
<1>1. /\ Shape(sio) /\ DOMAIN sio = Fields /\ sio' = read_stat(sio)
      /\ card' = card /\ disk' = disk /\ guest' = guest /\ confirmed' = confirmed
  BY DEF Inv, PortInv, Shape, BusShape, PollStat
<1>2. Alike(sio, sio') /\ sio'.irq = sio.irq /\ sio'.ack = sio.ack
  BY <1>1 DEF read_stat, Fields, Alike, SameDevices
<1>3. AtRest(sio) => AtRest(sio')
  BY <1>2 DEF AtRest, Alike
<1> QED BY <1>1, <1>2, <1>3, CardAlike

LEMMA CardHost ==
    ASSUME Inv, CInv,
           \/ refresh_player_devices
           \/ \E s \in Pads, want \in HostModes : sio_request_pad_type(s, want)
    PROVE  CInv'
<1>1. Shape(sio) /\ DOMAIN sio = Fields
  BY DEF Inv, PortInv, Shape, BusShape
<1>2. \E q : sio' = [sio EXCEPT !.pads = q]
  BY HostSets
<1>3. PICK q : sio' = [sio EXCEPT !.pads = q]
  BY <1>2
<1>4. Alike(sio, sio') /\ sio'.irq = sio.irq /\ sio'.ack = sio.ack
  BY <1>1, <1>3 DEF Fields, Alike, SameDevices
<1>5. AtRest(sio) => AtRest(sio')
  BY <1>4 DEF AtRest, Alike
<1>6. card' = card /\ disk' = disk /\ guest' = guest /\ confirmed' = confirmed
  BY DEF refresh_player_devices, sio_request_pad_type
<1> QED BY <1>4, <1>5, <1>6, CardAlike

\* Time passes over a transfer; what the cards did not take yet is this transfer's write.
LEMMA TickTransfer ==
    ASSUME Inv, CInv, NEW j \in Jobs, Transfer(card, sio, guest, j),
           guest.phase \notin {"idle", "done"}, NEW n, NEW r, r = sio_advance(sio, n)
    PROVE  Transfer(card, r, guest, j) /\ WritesOnly(r, j) /\ SavedTyped(r)
<1> DEFINE pos == guest.pos
           ph == guest.phase
<1>1. Shape(sio) /\ SavedTyped(sio) /\ sio.write = {} /\ ImagesTyped(card)
  BY ImagesAreTyped DEF Inv, PortInv, CInv, CardInv
<1>2. Passes(sio, r)
  BY <1>1, AdvancePasses
<1>3. pos \in Nat /\ InScript(j, pos)
  BY DEF Transfer
<1>4. ph \in {"send", "wait", "last", "spoiled", "halt"}
  BY DEF Inv, PortInv, GuestShape, Phases
<1>5. CASE ph \in {"send", "halt"}
  <2>1. AtRest(sio)
    BY <1>5 DEF Inv, PortInv, Transfer
  <2>2. Alike(sio, r) /\ AtRest(r)
    BY <1>2, <2>1 DEF Passes, Kept
  <2>3. SavedTyped(r) /\ (Sending(card, sio, j, pos) => Sending(card, r, j, pos))
    BY <1>1, <2>2, AlikeKeeps
  <2>4. r.write = {}
    BY <1>1, <2>2 DEF Alike, SameDevices
  <2>5. WritesOnly(r, j)
    BY <2>4 DEF WritesOnly
  <2>6. Transfer(card, r, guest, j)
    BY <1>5, <2>2, <2>3 DEF Transfer
  <2> QED BY <2>3, <2>5, <2>6
<1>6. CASE ph \in {"wait", "last"}
  <2>1. Waits(sio)
    BY <1>6 DEF Inv, PortInv
  <2>2. Waiting(card, sio, j, pos)
    BY <1>6 DEF Transfer
  <2>3. Waiting(card, r, j, pos) /\ SavedTyped(r)
    BY <1>1, <1>2, <1>3, <2>1, <2>2 DEF Passes
  <2>4. \E k : DeviceAt(card, r, j, k)
    BY <2>3 DEF Waiting, Ready
  <2>5. WritesOnly(r, j)
    BY <2>4, DeviceWrites
  <2>6. Transfer(card, r, guest, j)
    BY <1>6, <2>3 DEF Transfer
  <2> QED BY <2>3, <2>5, <2>6
<1>7. CASE ph = "spoiled"
  <2>1. Spoiled(card, sio, j, pos)
    BY <1>7 DEF Transfer
  <2>2. Spoiled(card, r, j, pos) /\ SavedTyped(r)
    BY <1>1, <1>2, <1>3, <2>1 DEF Passes
  <2>3. WritesOnly(r, j)
    BY <2>2 DEF Spoiled
  <2>4. Transfer(card, r, guest, j)
    BY <1>7, <2>2 DEF Transfer
  <2> QED BY <2>2, <2>3, <2>4
<1> QED BY <1>4, <1>5, <1>6, <1>7

\* What was promised stays on the images: the write under way is to no promised sector.
LEMMA TakesPromised ==
    ASSUME NEW cd, ImagesTyped(cd), NEW ce, NEW r, NEW j \in Jobs, WritesOnly(r, j), Takes(cd, ce, r, j),
           NEW cf, Promised(cd, cf), Unpromised(cf, j)
    PROVE  Promised(ce, cf)
<1>1. CASE r.write = {}
  BY <1>1 DEF Takes
<1>2. CASE r.write # {}
  <2> SUFFICES ASSUME NEW c \in cf
               PROVE  /\ c.slot \in Slots /\ c.sector \in 0..Sectors - 1
                      /\ ce[c.slot].present /\ ce[c.slot].data[c.sector] = c.data
    BY DEF Promised
  <2>1. /\ c.slot \in Slots /\ c.sector \in 0..Sectors - 1
        /\ cd[c.slot].present /\ cd[c.slot].data[c.sector] = c.data
    BY DEF Promised
  <2>2. ~ (c.slot = j.slot /\ c.sector = j.lsb)
    BY <1>2 DEF WritesOnly, Unpromised
  <2>3. ce[c.slot].present
    BY <2>1 DEF Takes
  <2>4. CASE c.slot # j.slot
    <3>1. ce[c.slot].data = cd[c.slot].data
      BY <1>2, <2>1, <2>4 DEF Takes
    <3> QED BY <2>1, <2>3, <3>1
  <2>5. CASE c.slot = j.slot
    <3> DEFINE x == cd[c.slot].data
               l == j.lsb
               y == j.data
               k == c.sector
    <3>1. ce[c.slot].data = [x EXCEPT ![l] = y]
      BY <1>2, <2>1, <2>5 DEF Takes
    <3>2. x \in Image /\ k \in 0..Sectors - 1 /\ k # l
      BY <2>1, <2>2, <2>5 DEF ImagesTyped
    <3> HIDE DEF x, l, y, k
    <3>3. [x EXCEPT ![l] = y][k] = x[k]
      BY <3>2 DEF Image
    <3>4. ce[c.slot].data[c.sector] = cd[c.slot].data[c.sector]
      BY <3>1, <3>3 DEF x, k
    <3> QED BY <2>1, <2>3, <3>4
  <2> QED BY <2>4, <2>5
<1> QED BY <1>1, <1>2

LEMMA CardTick ==
    ASSUME Inv, CInv, NEW n, NEW io, Tick(n, io)
    PROVE  CInv'
<1> DEFINE r == sio_advance(sio, n)
<1>1. /\ Shape(sio) /\ SavedTyped(sio) /\ sio.write = {} /\ ImagesInv(card, disk) /\ ImagesTyped(card)
      /\ Promised(card, confirmed)
  BY ImagesAreTyped DEF Inv, PortInv, CInv, CardInv
<1>2. Passes(sio, r)
  BY <1>1, AdvancePasses
<1>3. sio' = [r EXCEPT !.write = {}] /\ guest' = guest /\ confirmed' = confirmed
  BY DEF Tick
<1>4. r = sio_advance(sio, n)
  OBVIOUS
<1> HIDE DEF r
<1>5. DOMAIN r = Fields
  BY <1>2 DEF Passes, Kept, Shape, BusShape
<1>6. HandsOver(r, sio')
  BY <1>3, <1>5 DEF Fields, HandsOver
<1>7. sio'.write = {} /\ (SavedTyped(r) => SavedTyped(sio'))
  BY <1>6 DEF HandsOver, SavedTyped
<1>8. CASE guest.phase \in {"idle", "done"}
  <2>1. AtRest(sio)
    BY <1>8 DEF Inv, PortInv
  <2>2. Alike(sio, r) /\ r.write = {}
    BY <1>1, <1>2, <2>1 DEF Passes, Alike, SameDevices
  <2>3. card' = card /\ disk' = disk
    BY <1>1, <1>4, <2>2, TickQuiet
  <2>4. SavedTyped(r)
    BY <1>1, <2>2, AlikeKeeps
  <2>5. sio'.dev = sio.dev /\ sio'.owner = sio.owner
    BY <1>6, <2>2 DEF HandsOver, Alike, SameDevices
  <2>6. GuestInv(card', sio', guest', confirmed')
    BY <1>3, <1>8, <2>3, <2>5 DEF CInv, CardInv, GuestInv
  <2> QED BY <1>1, <1>3, <1>7, <2>3, <2>4, <2>6 DEF CInv, CardInv
<1>9. CASE guest.phase \notin {"idle", "done"}
  <2>1. PICK j \in Jobs : /\ guest.job = {j}
                          /\ Transfer(card, sio, guest, j) /\ Unpromised(confirmed, j)
    BY <1>9, InTransfer
  <2>2. Transfer(card, r, guest, j) /\ WritesOnly(r, j) /\ SavedTyped(r)
    BY <1>4, <1>9, <2>1, TickTransfer
  <2>3. ImagesInv(card', disk') /\ Takes(card, card', r, j)
    BY <1>1, <1>4, <2>2, TickImages
  <2>4. Promised(card', confirmed)
    BY <1>1, <2>1, <2>2, <2>3, TakesPromised
  <2>5. /\ Sending(card, r, j, guest.pos) => Sending(card', sio', j, guest.pos)
        /\ Waiting(card, r, j, guest.pos) => Waiting(card', sio', j, guest.pos)
        /\ Spoiled(card, r, j, guest.pos) => Spoiled(card', sio', j, guest.pos)
    BY <1>1, <1>6, <2>2, <2>3, TransferSettles
  <2>6. \A k : Delivered(card, guest, j, k) => Delivered(card', guest, j, k)
    BY <1>1, <1>6, <2>2, <2>3, TransferSettles
  <2>7. AtRest(r) => AtRest(sio')
    BY <1>6 DEF AtRest, HandsOver
  <2>8. Transfer(card', sio', guest, j)
    BY <2>2, <2>5, <2>6, <2>7 DEF Transfer
  <2>9. GuestInv(card', sio', guest', confirmed')
    BY <1>3, <1>9, <2>1, <2>8 DEF GuestInv
  <2> QED BY <1>3, <1>7, <2>2, <2>3, <2>4, <2>9 DEF CInv, CardInv
<1> QED BY <1>8, <1>9

\* A start of the program over whatever files there are.
LEMMA BootedCards ==
    SavedTyped(Booted) /\ Booted.write = {} /\ Booted.dev = "none" /\ Booted.owner = "none"
<1> DEFINE s == sio_init
           pads == [i \in Slots |-> [s.pads[i] EXCEPT !.analog = TRUE, !.req = None]]
<1>1. /\ DOMAIN s = Fields /\ s.dev = "none" /\ s.owner = "none" /\ s.write = {}
      /\ s.mc = NewCard /\ s.saved = [i \in Slots |-> NewCard]
  BY DEF sio_init, Fields
<1>2. NewCard.state = "IDLE" /\ NewCard.data \in SectorData
  BY ImageFacts DEF NewCard
<1> HIDE DEF s
<1>3. Booted = [s EXCEPT !.pads = pads]
  BY <1>1 DEF Booted, Refreshed, s, Fields
<1> HIDE DEF pads
<1>4. /\ Booted.dev = "none" /\ Booted.owner = "none" /\ Booted.write = {}
      /\ Booted.mc = NewCard /\ Booted.saved = [i \in Slots |-> NewCard]
  BY <1>1, <1>3 DEF Fields
<1> QED BY <1>2, <1>4 DEF SavedTyped

LEMMA StartInv ==
    ASSUME NEW cd, NEW dk, ImagesInv(cd, dk), NEW cf, Promised(cd, cf)
    PROVE  CardInv(cd, dk, Booted, NoJob, cf)
<1>1. NoJob.phase = "idle" /\ NoJob.job = {}
  BY DEF NoJob
<1> QED BY <1>1, BootedCards DEF CardInv, GuestInv

LEMMA CardInit ==
    ASSUME Init
    PROVE  CInv
<1>1. PICK made \in SUBSET Cards :
         disk = [s \in Slots |-> IF s \in made THEN Full(Blank) ELSE Short]
  BY DEF Init
<1>2. disk \in [Slots -> FileType]
  BY <1>1, ImageFacts
<1>3. ImagesInv(card, disk)
  BY <1>2, LoadedInv DEF Init
<1>4. Promised(card, confirmed)
  BY DEF Init, Promised
<1> QED BY <1>3, <1>4, StartInv DEF Init, CInv

\* What is still promised after a restart is in its file.
LEMMA CardRestart ==
    ASSUME CInv, NEW files, files \in [Slots -> FileType], NEW saved, Restart(files, saved),
           \A i \in Slots : saved[i] /\ card[i].present =>
               files[i].is = "full" /\ files[i].data = card[i].data
    PROVE  CInv'
<1>1. /\ disk' = files /\ card' = [s \in Slots |-> Loaded(files[s])]
      /\ sio' = Booted /\ guest' = NoJob /\ confirmed' = {c \in confirmed : saved[c.slot]}
  BY DEF Restart
<1>2. ImagesInv(card', files)
  BY <1>1, LoadedInv
<1>3. Promised(card', confirmed')
  <2> SUFFICES ASSUME NEW c \in confirmed'
               PROVE  /\ c.slot \in Slots /\ c.sector \in 0..Sectors - 1
                      /\ card'[c.slot].present /\ card'[c.slot].data[c.sector] = c.data
    BY DEF Promised
  <2>1. c \in confirmed /\ saved[c.slot]
    BY <1>1
  <2>2. /\ c.slot \in Slots /\ c.sector \in 0..Sectors - 1
        /\ card[c.slot].present /\ card[c.slot].data[c.sector] = c.data
    BY <2>1 DEF CInv, CardInv, Promised
  <2>3. files[c.slot].is = "full" /\ files[c.slot].data = card[c.slot].data
    BY <2>1, <2>2
  <2>4. card'[c.slot] = Loaded(files[c.slot])
    BY <1>1, <2>2
  <2>5. card'[c.slot].present /\ card'[c.slot].data = files[c.slot].data
    BY <2>3, <2>4 DEF Loaded
  <2> QED BY <2>2, <2>3, <2>5
<1> QED BY <1>1, <1>2, <1>3, StartInv DEF CInv

LEMMA CardKill ==
    ASSUME CInv, Kill
    PROVE  CInv'
<1> DEFINE saved == [s \in Slots |-> ~card[s].dirty]
<1>1. /\ disk \in [Slots -> FileType]
      /\ \A i \in Slots :
            card[i].present /\ ~ card[i].dirty => disk[i].is = "full" /\ disk[i].data = card[i].data
  BY DEF CInv, CardInv, ImagesInv
<1>2. Restart(disk, saved)
  BY DEF Kill
<1>3. \A i \in Slots : saved[i] /\ card[i].present =>
          disk[i].is = "full" /\ disk[i].data = card[i].data
  BY <1>1
<1> HIDE DEF saved
<1> QED BY <1>1, <1>2, <1>3, CardRestart

LEMMA CardKillInFlush ==
    ASSUME CInv, NEW n, KillInFlush(n)
    PROVE  CInv'
<1>1. PICK w : Restart([disk EXCEPT ![w.slot] = Short], [s \in Slots |-> s # w.slot /\ ~card[s].dirty])
  BY DEF KillInFlush
<1> DEFINE files == [disk EXCEPT ![w.slot] = Short]
           saved == [s \in Slots |-> s # w.slot /\ ~card[s].dirty]
<1>2. ImagesInv(card, disk)
  BY DEF CInv, CardInv
<1>3. files \in [Slots -> FileType]
  BY <1>2, ImageFacts DEF ImagesInv
<1>4. ASSUME NEW i \in Slots, saved[i], card[i].present
      PROVE  files[i].is = "full" /\ files[i].data = card[i].data
  <2>1. i # w.slot /\ ~ card[i].dirty
    BY <1>4
  <2>2. files[i] = disk[i]
    BY <1>2, <2>1 DEF ImagesInv
  <2> QED BY <1>2, <1>4, <2>1, <2>2 DEF ImagesInv
<1>5. Restart(files, saved)
  BY <1>1
<1> HIDE DEF files, saved
<1> QED BY <1>3, <1>4, <1>5, CardRestart

LEMMA CardQuit ==
    ASSUME CInv, Quit
    PROVE  CInv'
<1>1. PICK io \in [Slots -> Outcomes] :
        /\ \A s \in Slots : ~card[s].dirty => io[s] = "ok"
        /\ Restart([s \in Slots |-> memcard_flush(disk[s], card[s], io[s])],
                   [s \in Slots |-> ~flushed(card[s], io[s]).dirty])
  BY DEF Quit
<1> DEFINE files == [s \in Slots |-> memcard_flush(disk[s], card[s], io[s])]
           saved == [s \in Slots |-> ~flushed(card[s], io[s]).dirty]
<1>2. /\ card \in [Slots -> CardType] /\ disk \in [Slots -> FileType]
      /\ \A i \in Slots :
            card[i].present /\ ~ card[i].dirty => disk[i].is = "full" /\ disk[i].data = card[i].data
  BY DEF CInv, CardInv, ImagesInv
<1>3. ASSUME NEW i \in Slots
      PROVE  /\ files[i] \in FileType
             /\ saved[i] /\ card[i].present => files[i].is = "full" /\ files[i].data = card[i].data
  <2> DEFINE c == card[i]
             f == disk[i]
             o == io[i]
             h == files[i]
  <2>1. c \in CardType /\ f \in FileType
    BY <1>2
  <2>2. h = memcard_flush(f, c, o) /\ (saved[i] <=> ~ flushed(c, o).dirty)
    OBVIOUS
  <2>3. c.present /\ ~ c.dirty => f.is = "full" /\ f.data = c.data
    BY <1>2
  <2> HIDE DEF c, f, o, h, saved
  <2>4. DOMAIN c = {"present", "data", "dirty"} /\ c.data \in Image /\ c.dirty \in BOOLEAN
    BY <2>1 DEF CardType
  <2>5. flushed(c, o) = [c EXCEPT !.dirty = (c.dirty /\ o # "ok")]
    BY <2>4 DEF flushed
  <2>6. flushed(c, o).dirty <=> (c.dirty /\ o # "ok")
    BY <2>4, <2>5
  <2>7. /\ o = "ok" /\ c.dirty => h = Full(c.data)
        /\ o = "short" /\ c.dirty => h = Short
        /\ ~ (o = "ok" /\ c.dirty) /\ ~ (o = "short" /\ c.dirty) => h = f
    BY <2>2 DEF memcard_flush
  <2>8. h \in FileType
    BY <2>1, <2>4, <2>7, ImageFacts
  <2>9. Full(c.data).is = "full" /\ Full(c.data).data = c.data
    BY DEF Full
  <2>10. saved[i] /\ c.present => h.is = "full" /\ h.data = c.data
    BY <2>2, <2>3, <2>6, <2>7, <2>9
  <2> QED BY <2>8, <2>10 DEF c, h
<1>4. files \in [Slots -> FileType]
  BY <1>3
<1>5. Restart(files, saved)
  BY <1>1
<1> HIDE DEF files, saved
<1> QED BY <1>3, <1>4, <1>5, CardRestart

LEMMA CardStepInv ==
    ASSUME GuestAcks, MaxStray <= 1, Inv, CInv, [Next]_vars
    PROVE  CInv'
<1>1. CASE \E j \in Jobs : Begin(j)
  BY <1>1, CardBegin
<1>2. CASE Send \/ Handle \/ PollStat \/ Finish \/ GiveUp \/ Halt
  BY <1>2, CardSend, CardHandle, CardPoll, CardFinish, CardGiveUp, CardHalt
<1>3. CASE \E b \in {PAD, CARD} : Stray(b)
  BY <1>3, CardStray
<1>4. CASE \/ \E s \in Pads, want \in HostModes : sio_request_pad_type(s, want)
           \/ refresh_player_devices
  BY <1>4, CardHost
<1>5. CASE Clock \/ FlushFails
  BY <1>5, CardTick DEF Clock, FlushFails
<1>6. CASE Kill \/ (\E n \in Chunks : KillInFlush(n)) \/ Quit
  BY <1>6, CardKill, CardKillInFlush, CardQuit
<1>7. CASE UNCHANGED vars
  BY <1>7 DEF vars, CInv
<1> QED BY <1>1, <1>2, <1>3, <1>4, <1>5, <1>6, <1>7 DEF Next

LEMMA CardsSafe ==
    ASSUME GuestAcks, MaxStray <= 1
    PROVE  Spec => [](Inv /\ CInv)
<1>1. Init => Inv /\ CInv
  BY RestartInv, CardInit DEF Init, Inv
<1>2. Inv /\ CInv /\ [Next]_vars => (Inv /\ CInv)'
  BY PortStepInv, CardStepInv
<1> QED BY <1>1, <1>2, PTL DEF Spec

\* The bytes a read delivered, as the sector they are.
LEMMA SectorOf ==
    ASSUME NEW S, NEW q \in Seq(S), Len(q) = 12 + SectorBytes, SectorBytes \in Nat \ {0},
           NEW d \in SectorData, \A i \in 11..10 + SectorBytes : q[i] = d[i - 10]
    PROVE  SubSeq(q, 11, 10 + SectorBytes) = d
<1> DEFINE b == SectorBytes
           p == SubSeq(q, 11, 10 + b)
<1>1. \A i \in 1..Len(q) : q[i] \in S
  OBVIOUS
<1>2. \A i \in 11..10 + b : q[i] \in S
  BY <1>1
<1>3. /\ p \in Seq(S) /\ Len(p) = b /\ \A i \in 1..b : p[i] = q[i + 10]
  <2>1. 11 \in Int /\ 10 + b \in Int /\ 11 <= 10 + b
    OBVIOUS
  <2> DEFINE m == 10 + b
  <2>2. m = 10 + b /\ m \in Int
    BY <2>1
  <2> HIDE DEF m
  <2>3. /\ SubSeq(q, 11, m) \in Seq(S)
        /\ Len(SubSeq(q, 11, m)) = IF 11 <= m THEN m - 11 + 1 ELSE 0
        /\ \A i \in 1..m - 11 + 1 : SubSeq(q, 11, m)[i] = q[11 + i - 1]
    BY <1>2, <2>2, SubSeqProperties
  <2>4. m - 11 + 1 = b /\ 11 <= m
    BY <2>2
  <2>5. \A i \in 1..b : 11 + i - 1 = i + 10
    OBVIOUS
  <2> QED BY <2>2, <2>3, <2>4, <2>5 DEF m
<1> SUFFICES p = d
  OBVIOUS
<1> HIDE DEF p
<1>4. p = [i \in 1..b |-> p[i]]
  BY <1>3
<1>5. \A i \in 1..b : i + 10 \in 11..10 + b /\ i + 10 - 10 = i
  OBVIOUS
<1>6. \A i \in 1..b : p[i] = d[i]
  BY <1>3, <1>5
<1>7. d = [i \in 1..b |-> d[i]]
  BY DEF SectorData
<1> QED BY <1>4, <1>6, <1>7

LEMMA OnTheCard ==
    ASSUME NEW l \in 0..255, l < Sectors
    PROVE  l \in 0..Sectors - 1
BY SerialAssumption

LEMMA ReadIsDelivered ==
    ASSUME Inv, CInv
    PROVE  ReadDelivers
<1> SUFFICES ASSUME guest.phase = "done", NEW j \in guest.job, j.cmd = READ,
                    guest.got[Len(guest.got)] = GOOD
             PROVE  /\ j.lsb < Sectors
                    /\ SubSeq(guest.got, 11, 10 + SectorBytes) = card[j.slot].data[j.lsb]
  BY DEF ReadDelivers
<1>1. j \in Jobs /\ Read(card, guest, j) /\ ImagesInv(card, disk)
  BY DEF CInv, CardInv, GuestInv
<1> DEFINE q == guest.got
           l == j.lsb
           x == card[j.slot].data
<1>2. /\ \E S : q \in Seq(S)
      /\ Len(q) = 12 + SectorBytes
      /\ l < Sectors => \A i \in 11..10 + SectorBytes : i <= 12 + SectorBytes => q[i] = x[l][i - 10]
      /\ q[12 + SectorBytes] = GOOD => l < Sectors
  BY <1>1 DEF Read, Delivered
<1>3. l < Sectors
  BY <1>2
<1>4. SectorBytes \in Nat \ {0} /\ Sectors \in Nat
  BY SerialAssumption
<1>5. x \in Image
  <2>1. j.slot \in Slots /\ ImagesTyped(card)
    BY <1>1, JobIs, ImagesAreTyped
  <2> QED BY <2>1 DEF ImagesTyped
<1>6. l \in 0..255
  BY <1>1, JobIs, Zenon
<1> SUFFICES l < Sectors /\ SubSeq(q, 11, 10 + SectorBytes) = x[l]
  OBVIOUS
<1> HIDE DEF q, l, x
<1>7. l \in 0..Sectors - 1
  BY <1>3, <1>6, OnTheCard, Zenon
<1>8. x[l] \in SectorData
  BY <1>5, <1>7 DEF Image
<1> DEFINE d == x[l]
<1>9. \A i \in 11..10 + SectorBytes : q[i] = d[i - 10]
  <2>1. \A i \in 11..10 + SectorBytes : i <= 12 + SectorBytes
    BY <1>4
  <2> QED BY <2>1, <1>2, <1>3
<1>10. d \in SectorData
  BY <1>8
<1> HIDE DEF d
<1>11. SubSeq(q, 11, 10 + SectorBytes) = d
  BY <1>2, <1>4, <1>9, <1>10, SectorOf
<1> QED BY <1>3, <1>11 DEF d

LEMMA TickKeepsSectors ==
    ASSUME Inv, CInv, NEW n, NEW io, Tick(n, io), NEW s \in Slots, NEW k \in 0..Sectors - 1,
           card'[s].data[k] # card[s].data[k]
    PROVE  \E j \in guest.job :
               /\ j.dev = "card" /\ j.cmd = WRITE /\ j.slot = s /\ j.lsb = k
               /\ card'[s].data[k] = j.data
<1> DEFINE r == sio_advance(sio, n)
<1>1. Shape(sio) /\ sio.write = {} /\ ImagesInv(card, disk) /\ ImagesTyped(card)
  BY ImagesAreTyped DEF Inv, PortInv, CInv, CardInv
<1>2. guest.phase \notin {"idle", "done"}
  <2> SUFFICES ASSUME guest.phase \in {"idle", "done"} PROVE FALSE
    OBVIOUS
  <2>1. AtRest(sio)
    BY DEF Inv, PortInv
  <2>2. Passes(sio, r)
    BY <1>1, AdvancePasses
  <2> HIDE DEF r
  <2>3. r.write = {}
    BY <1>1, <2>1, <2>2 DEF Passes, Alike, SameDevices
  <2>4. card' = card
    BY <1>1, <2>3, TickQuiet DEF r
  <2> QED BY <2>4
<1>3. PICK j \in Jobs : guest.job = {j} /\ Transfer(card, sio, guest, j)
  BY <1>2, InTransfer
<1>4. r = sio_advance(sio, n)
  OBVIOUS
<1> HIDE DEF r
<1>5. WritesOnly(r, j)
  BY <1>2, <1>3, <1>4, TickTransfer
<1>6. Takes(card, card', r, j)
  BY <1>1, <1>4, <1>5, TickImages
<1>7. r.write # {}
  BY <1>6 DEF Takes
<1>8. j.dev = "card" /\ j.cmd = WRITE
  BY <1>5, <1>7 DEF WritesOnly
<1>9. s = j.slot
  BY <1>6, <1>7 DEF Takes
<1> DEFINE x == card[s].data
           l == j.lsb
           y == j.data
<1>10. card'[s].data = [x EXCEPT ![l] = y]
  BY <1>6, <1>7, <1>9 DEF Takes
<1>11. x \in Image
  BY <1>1 DEF ImagesTyped
<1>12. [x EXCEPT ![l] = y][k] # x[k]
  BY <1>10
<1> HIDE DEF x, l, y
<1>13. k \in DOMAIN x
  BY <1>11 DEF Image
<1>14. l = k /\ [x EXCEPT ![l] = y][k] = y
  BY <1>12, <1>13
<1>15. j.lsb = k /\ card'[s].data[k] = j.data
  BY <1>10, <1>14 DEF l, y
<1> QED BY <1>3, <1>8, <1>9, <1>15

\* For every geometry of the cards, every set of transfers, cards and pads and every chunk
\* of time, with a driver that acknowledges in CTRL when it starts a transfer and at most
\* one byte out of turn in a transfer: what a read delivered and called good is the sector
\* asked for, of the slot asked for (mc_process_byte, sio_process_byte and the pending
\* transmit buffer of sio_handle_shift_complete).
THEOREM ReadsDeliver ==
    ASSUME GuestAcks, MaxStray <= 1
    PROVE  Spec => []ReadDelivers
<1>1. Spec => [](Inv /\ CInv)
  BY CardsSafe
<1>2. Inv /\ CInv => ReadDelivers
  BY ReadIsDelivered
<1> QED BY <1>1, <1>2, PTL

\* Under the same hypotheses, whatever flushes fail and whenever the program is killed,
\* in the middle of a flush too: a sector whose write was answered as good is on the card
\* until the guest writes it again or the program dies with the image dirty
\* (memcard_write_sector, memcard_flush, memcard_init_slots).
THEOREM ConfirmedStay ==
    ASSUME GuestAcks, MaxStray <= 1
    PROVE  Spec => []ConfirmedSurvives
<1>1. Spec => [](Inv /\ CInv)
  BY CardsSafe
<1>2. CInv => ConfirmedSurvives
  BY DEF CInv, CardInv, Promised, ConfirmedSurvives
<1> QED BY <1>1, <1>2, PTL

\* Under the same hypotheses, between two starts of the program: a sector changes only to
\* the whole data of the write in progress, at its own slot and address
\* (mc_process_byte's MC_WRITE_CHK, memcard_write_sector).
THEOREM SectorsKept ==
    ASSUME GuestAcks, MaxStray <= 1
    PROVE  Spec => CardKeepsSectors
<1> DEFINE Keeps == sio' # Booted =>
        \A s \in Slots, n \in 0..Sectors - 1 :
            card'[s].data[n] # card[s].data[n] =>
                \E j \in guest.job :
                    /\ j.dev = "card" /\ j.cmd = WRITE /\ j.slot = s /\ j.lsb = n
                    /\ card'[s].data[n] = j.data
<1>1. Spec => [](Inv /\ CInv)
  BY CardsSafe
<1>2. Inv /\ CInv /\ [Next]_vars => [Keeps]_vars
  <2> SUFFICES ASSUME Inv, CInv, Next PROVE Keeps
    OBVIOUS
  <2>1. CASE card' = card \/ sio' = Booted
    BY <2>1
  <2>2. CASE Clock \/ FlushFails
    BY <2>2, TickKeepsSectors DEF Clock, FlushFails
  <2>3. CASE Kill \/ (\E n \in Chunks : KillInFlush(n)) \/ Quit
    BY <2>1, <2>3 DEF Kill, KillInFlush, Quit, Restart
  <2>4. CASE \/ \E j \in Jobs : Begin(j)
             \/ Send \/ Handle \/ PollStat \/ Finish \/ GiveUp \/ Halt
             \/ \E b \in {PAD, CARD} : Stray(b)
             \/ \E s \in Pads, want \in HostModes : sio_request_pad_type(s, want)
             \/ refresh_player_devices
    <3>1. card' = card
      BY <2>4 DEF Begin, Send, Handle, PollStat, Finish, GiveUp, Halt, Stray,
                  sio_request_pad_type, refresh_player_devices
    <3> QED BY <2>1, <3>1
  <2> QED BY <2>2, <2>3, <2>4 DEF Next
<1>3. Spec => [][Keeps]_vars
  BY <1>1, <1>2, PTL DEF Spec
<1> QED BY <1>3 DEF CardKeepsSectors
=============================================================================
