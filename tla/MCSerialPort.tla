---------------------------- MODULE MCSerialPort ----------------------------
(***************************************************************************)
(* SerialPort for TLC: transfers to a card, to an empty card slot and to a *)
(* pad. The data of the write look like the byte that selects a pad.       *)
(***************************************************************************)
EXTENDS SerialPort, Bitwise

CardJob(slot, cmd, lsb, data) == [dev |-> "card", slot |-> slot, cmd |-> cmd, lsb |-> lsb, data |-> data]
PadJob(cmd, mode, lock) == [dev |-> "pad", slot |-> 0, cmd |-> cmd, lsb |-> 0, data |-> <<mode, lock>>]

MCXor(x, y) == x ^^ y

MCJobs ==
    {CardJob(0, WRITE, 0, <<1, 1>>), CardJob(0, READ, 0, <<>>), CardJob(1, READ, 0, <<>>),
     PadJob(POLL, 0, 0), PadJob(CONFIG, 1, 0), PadJob(CONFIG, 0, 0), PadJob(SETMODE, 1, 3)}
==============================================================================
