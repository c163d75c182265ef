-------------------------------- MODULE I2c --------------------------------
(***************************************************************************)
(* p4n4_emu/hw/buses.py's I2C bus, as smbus_stub's SMBus objects and       *)
(* lgpio_stub's i2c handles use it.                                        *)
(*                                                                         *)
(* A call is a sequence of transfers to one address.  buses holds its lock *)
(* over the transfers of a combined call; block_process_call and i2c_rdwr  *)
(* do not, and take it transfer by transfer.  The parts are                *)
(* RegisterDevices: a pointer that writes set and reads advance.           *)
(***************************************************************************)
EXTENDS Integers, Sequences, FiniteSets

CONSTANTS
    Addresses,  \* the addresses scripts use
    Attached,   \* those a part answers at
    Registers,  \* the number of registers (256), where the pointer wraps
    Counts,     \* the numbers of bytes scripts ask for
    Scripts,    \* threads, each with a bus object or handle of its own
    Libraries,  \* what each script may use: "smbus", "lgpio"
    None

Register == 0..(Registers - 1)

VARIABLES
    library,    \* what each script uses (fixed)
    open,       \* the scripts whose SMBus._bus is set, or whose handle is in _i2c
    pointer,    \* the register pointer of each part
    silent,     \* parts that a dropout keeps from answering
    lock,       \* the thread that holds buses._lock between two transfers
    call        \* the call each script is in: its kind, address and transfers to do,
                \* and (history) the register its next byte is asked from

vars == <<library, open, pointer, silent, lock, call>>

(* The transfers of a call: <<"w", r>> sets the pointer, <<"W", r>> also   *)
(* writes a value there, <<"r", n>> reads n bytes.  A block's count, which *)
(* the part sends, is n.                                                   *)
Transfers(r, n) ==
    [write              |-> <<<<"W", r>>>>,
     read               |-> <<<<"r", n>>>>,
     register_read      |-> <<<<"w", r>>, <<"r", n>>>>,
     block_read         |-> <<<<"w", r>>, <<"r", 1>>, <<"r", n>>>>,
     process_call       |-> <<<<"W", r>>, <<"r", n>>>>,
     block_process_call |-> <<<<"W", r>>, <<"r", 1>>, <<"r", n>>>>,
     rdwr               |-> <<<<"w", r>>, <<"r", n>>>>]

Kinds == DOMAIN Transfers(0, 1)

(* Bug: only what the libraries call a block is one transaction. *)
OnlyBlocks(kind) == kind = "block_read"

Combined(kind) == kind \in {"register_read", "block_read", "process_call"}

Busy(s) == call[s].todo # <<>>

-----------------------------------------------------------------------------
(* SMBus.open(), i2c_open(): the bus exists; nobody asks whether a part does. *)
Open(s) ==
    /\ s \notin open /\ ~Busy(s)
    /\ open' = open \cup {s}
    /\ UNCHANGED <<library, pointer, silent, lock, call>>

(* SMBus.close(), i2c_close(). *)
Close(s) ==
    /\ s \in open /\ ~Busy(s)
    /\ open' = open \ {s}
    /\ UNCHANGED <<library, pointer, silent, lock, call>>

(* _client(), _i2c_call(): a closed bus or handle is an error; lgpio has   *)
(* neither block process calls nor combined messages.                      *)
Begin(s, kind, a, r, n) ==
    /\ s \in open /\ ~Busy(s)
    /\ library[s] = "lgpio" => kind \notin {"block_process_call", "rdwr"}
    /\ call' = [call EXCEPT ![s] = [kind |-> kind, address |-> a, next |-> None,
                                    todo |-> Transfers(r, n)[kind]]]
    /\ UNCHANGED <<library, open, pointer, silent, lock>>

NoCall == [kind |-> "none", address |-> None, next |-> None, todo |-> <<>>]

Return(s) == call' = [call EXCEPT ![s] = NoCall] /\ lock' = None

(* RegisterDevice.write() and read(). *)
Works(s, a, what, n) ==
    LET after == CASE what = "r" -> (pointer[a] + n) % Registers
                   [] what = "w" -> n
                   [] what = "W" -> (n + 1) % Registers
    IN  /\ pointer' = [pointer EXCEPT ![a] = after]
        /\ IF Len(call[s].todo) = 1 THEN Return(s)
           ELSE /\ call' = [call EXCEPT ![s].todo = Tail(@),
                                        ![s].next = IF what = "r" THEN (@ + n) % Registers ELSE after]
                /\ lock' = IF Combined(call[s].kind) THEN s ELSE None

(* One transfer.  Between two of them the lock is the call's or nobody's.  *)
(* EREMOTEIO, or a status in lgpio: no part at the address, or a dropout.  *)
Transfer(s) ==
    /\ Busy(s) /\ lock \in {None, s}
    /\ LET a == call[s].address
           t == Head(call[s].todo)
       IN  IF a \in Attached \ silent THEN Works(s, a, t[1], t[2])
           ELSE Return(s) /\ UNCHANGED pointer
    /\ UNCHANGED <<library, open, silent>>

(* Parts fall silent and recover. *)
Dropout(a) ==
    /\ silent' = IF a \in silent THEN silent \ {a} ELSE silent \cup {a}
    /\ UNCHANGED <<library, open, pointer, lock, call>>

Init ==
    /\ library \in [Scripts -> Libraries]
    /\ open = {}
    /\ pointer = [a \in Attached |-> 0]
    /\ silent = {}
    /\ lock = None
    /\ call = [s \in Scripts |-> NoCall]

Script(s) ==
    \/ Open(s) \/ Close(s) \/ Transfer(s)
    \/ \E kind \in Kinds, a \in Addresses, r \in Register, n \in Counts : Begin(s, kind, a, r, n)

Next ==
    \/ \E s \in Scripts : Script(s)
    \/ \E a \in Attached : Dropout(a)

Spec == Init /\ [][Next]_vars

-----------------------------------------------------------------------------
TypeOK ==
    /\ open \subseteq Scripts
    /\ pointer \in [Attached -> Register]
    /\ lock \in Scripts \cup {None}
    /\ lock # None => Busy(lock)

(* buses.py:35: "a read starts at the pointer", which is the one the same  *)
(* call has set: whatever other threads do on the bus, and whichever calls *)
(* fail half-way, a combined call goes on to read the registers it asked   *)
(* for.  (block_process_call and i2c_rdwr do not keep to it.)              *)
ReadsAreWhole == \A s \in Scripts :
    call[s].kind \in {"register_read", "block_read", "process_call"} /\ call[s].next # None =>
        pointer[call[s].address] = call[s].next
=============================================================================
