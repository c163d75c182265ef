------------------------------- MODULE Layout -------------------------------
(***************************************************************************)
(* p4n4_emu/hw/layout.py, and how shims.install() puts a layout's parts on *)
(* the buses and serves the board's files.                                 *)
(*                                                                         *)
(* A layout is a document that the user writes, checked as a whole before  *)
(* any part is attached.  An entry says what part, on what bus and where   *)
(* on it: an address, a chip select, a port or a serial number.  Parts are *)
(* numbered by their place in the document.  (Serial numbers that are made *)
(* up are hashes: they are taken to differ from each other and from the    *)
(* user's.)                                                                *)
(***************************************************************************)
EXTENDS Integers, Sequences, FiniteSets

CONSTANTS
    Entries,    \* [part, bus, at, fine]: fine when its other keys and values are
    MaxParts,   \* a bound of the model: entries in a layout
    None

I2C_PARTS == [bme280 |-> {118, 119}, mpu6050 |-> {104, 105}, ads1115 |-> 72..75]

PARTS == DOMAIN I2C_PARTS \cup {"mcp3008", "ds18b20", "loopback"}

VARIABLES
    doc,        \* the layout document
    verdict,    \* what parse() makes of it: None, "wrong" or "accepted"
    board,      \* what sits where on the I2C, SPI and serial buses
    onewire,    \* _onewire: the ids of the 1-Wire sensors, by their places in doc
    nodes       \* the buses and chip selects that have a file in /dev

vars == <<doc, verdict, board, onewire, nodes>>

(* The buses of a Pi with I2C, SPI and the serial port enabled. *)
Buses == {<<"i2c", 1>>, <<"spi", 0, 0>>, <<"spi", 0, 1>>, <<"uart", "/dev/serial0">>}

(* _part(): a known part, with keys of its own, at one of its addresses.   *)
_part(e) == e.part \in PARTS /\ e.fine
            /\ (e.part \in DOMAIN I2C_PARTS => e.at \in I2C_PARTS[e.part])

(* Part.where: None for a 1-Wire sensor without a serial number. *)
where(p) ==
    CASE p.part \in DOMAIN I2C_PARTS -> <<"i2c", p.bus, p.at>>
      [] p.part = "mcp3008"          -> <<"spi", p.bus, p.at>>
      [] p.part = "loopback"         -> <<"uart", p.at>>
      [] p.part = "ds18b20" /\ p.at # None -> <<"w1", p.at>>
      [] OTHER -> None

(* Bug: only the part before is compared. *)
TakenBefore(i) == i > 1 /\ where(doc[i]) # None /\ where(doc[i - 1]) = where(doc[i])

Taken(i) == where(doc[i]) # None /\ \E j \in 1..i - 1 : where(doc[j]) = where(doc[i])

-----------------------------------------------------------------------------
Write(e) ==
    /\ verdict = None /\ Len(doc) < MaxParts
    /\ doc' = Append(doc, e)
    /\ UNCHANGED <<verdict, board, onewire, nodes>>

(* parse(), of the whole document. *)
parse ==
    /\ verdict = None
    /\ verdict' = IF \A i \in DOMAIN doc : _part(doc[i]) /\ ~Taken(i) THEN "accepted" ELSE "wrong"
    /\ UNCHANGED <<doc, board, onewire, nodes>>

(* The ids of the 1-Wire sensors: their own, else made up, by their count. *)
Sensors == {i \in DOMAIN doc : doc[i].part = "ds18b20"}

Ids == [i \in Sensors |->
            IF doc[i].at # None THEN <<"own", doc[i].at>>
            ELSE <<"made up", Cardinality({j \in Sensors : j < i /\ doc[j].at = None})>>]

(* attach(), then _board_files(): attach_i2c() and the like let the last   *)
(* part of a place have it, and make buses that are not there.             *)
attach ==
    /\ verdict = "accepted" /\ board = <<>> /\ onewire = <<>> /\ nodes = {}
    /\ LET I == DOMAIN doc \ Sensors
       IN  /\ board' = [w \in {where(doc[i]) : i \in I} |->
                            CHOOSE i \in I : /\ where(doc[i]) = w
                                             /\ \A j \in I : where(doc[j]) = w => j <= i]
           /\ nodes' = Buses \cup {IF w[1] = "i2c" THEN <<"i2c", w[2]>> ELSE w : w \in DOMAIN board'}
    /\ onewire' = Ids
    /\ UNCHANGED <<doc, verdict>>

(* Bug: the parts stay on the buses. *)
resetLeavesParts ==
    /\ verdict # None
    /\ doc' = <<>> /\ verdict' = None
    /\ onewire' = <<>> /\ UNCHANGED <<board, nodes>>

(* shims.reset(), between the scripts of a test run. *)
reset ==
    /\ verdict # None
    /\ doc' = <<>> /\ verdict' = None
    /\ board' = <<>> /\ onewire' = <<>> /\ nodes' = {}

Init ==
    /\ doc = <<>> /\ verdict = None
    /\ board = <<>> /\ onewire = <<>> /\ nodes = {}

Next == (\E e \in Entries : Write(e)) \/ parse \/ attach \/ reset

Spec == Init /\ [][Next]_vars

-----------------------------------------------------------------------------
TypeOK ==
    /\ Len(doc) <= MaxParts
    /\ verdict \in {None, "wrong", "accepted"}
    /\ \A w \in DOMAIN board : board[w] \in DOMAIN doc

(* No part of a layout that is accepted hides another one, in a place on   *)
(* a bus, or as a 1-Wire sensor's files, and each has its file in /dev.    *)
NothingShadowed ==
    nodes # {} =>
        /\ \A i \in DOMAIN doc : doc[i].part # "ds18b20" => board[where(doc[i])] = i
        /\ \A i, j \in DOMAIN onewire : i # j => onewire[i] # onewire[j]
        /\ Cardinality(DOMAIN onewire) + Cardinality(DOMAIN board) = Len(doc)
        /\ \A w \in DOMAIN board : (IF w[1] = "i2c" THEN <<w[1], w[2]>> ELSE w) \in nodes
=============================================================================
