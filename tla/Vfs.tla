--------------------------------- MODULE Vfs ---------------------------------
(***************************************************************************)
(* p4n4_emu/hw/vfs.py: the board's files, served from a scratch directory. *)
(*                                                                         *)
(* A virtual file is fixed, or dynamic: its contents come from a callable, *)
(* which shims.py points at a sensor.  Opening a dynamic file rewrites its *)
(* copy in the scratch directory under the module's lock, and opens the    *)
(* copy after it, so that another thread may be rewriting it by then.      *)
(* Samples are numbered as they are taken.                                 *)
(***************************************************************************)
EXTENDS Integers, FiniteSets

CONSTANTS
    Paths,      \* the paths scripts open
    Dynamic,    \* those whose contents a callable produces
    Threads,    \* the script's threads
    MaxSamples, \* a bound of the model: samples taken
    None        \* not there; no thread

Empty == 0      \* a copy that holds no sample

VARIABLES
    installed,  \* _root is not None
    files,      \* _files
    copy,       \* the scratch directory: None, or the number of the sample in the copy
    sample,     \* the number of the last sample taken
    lock,       \* the thread in _materialise
    pc, path,   \* where each thread is, and the path it opens
    since,      \* (history) the last sample when the open began
    got         \* what the last read returned

vars == <<installed, files, copy, sample, lock, pc, path, since, got>>

Redirected(p) == installed /\ p \in files

Goto(t, place) == pc' = [pc EXCEPT ![t] = place]

-----------------------------------------------------------------------------
(* add_file(): a dynamic file is listed, empty, before its first open.     *)
add_file(p) ==
    /\ lock = None
    /\ files' = files \cup {p}
    /\ copy' = IF installed THEN [copy EXCEPT ![p] = Empty] ELSE copy
    /\ UNCHANGED <<installed, sample, lock, pc, path, since, got>>

install ==
    /\ lock = None /\ ~installed
    /\ installed' = TRUE
    /\ copy' = [p \in Paths |-> IF p \in files THEN Empty ELSE None]
    /\ UNCHANGED <<files, sample, lock, pc, path, since, got>>

(* uninstall(), which shims.reset() calls between scripts. *)
uninstall ==
    /\ lock = None /\ installed
    /\ \A t \in Threads : pc[t] = "idle"
    /\ installed' = FALSE
    /\ files' = {}
    /\ copy' = [p \in Paths |-> None]
    /\ UNCHANGED <<sample, lock, pc, path, since, got>>

-----------------------------------------------------------------------------
(* Bug: a dynamic file is generated by its first open. *)
Once(t, p) ==
    IF p \in Dynamic /\ copy[p] = Empty THEN Goto(t, "generate") /\ lock' = t
    ELSE Goto(t, "open") /\ UNCHANGED lock

(* open(), os.open(): a dynamic file is generated again. *)
Refreshed(t, p) ==
    IF p \in Dynamic THEN Goto(t, "generate") /\ lock' = t
    ELSE Goto(t, "open") /\ UNCHANGED lock

open(t, p) ==
    /\ pc[t] = "idle" /\ lock = None /\ Redirected(p)
    /\ Refreshed(t, p)
    /\ path' = [path EXCEPT ![t] = p]
    /\ since' = [since EXCEPT ![t] = sample]
    /\ UNCHANGED <<installed, files, copy, sample, got>>

(* _materialise(): the sample, unless the sensor has dropped out (EIO).    *)
generate(t) ==
    /\ pc[t] = "generate"
    /\ \/ sample < MaxSamples /\ sample' = sample + 1 /\ Goto(t, "truncate") /\ UNCHANGED lock
       \/ Goto(t, "idle") /\ lock' = None /\ UNCHANGED sample
    /\ UNCHANGED <<installed, files, copy, path, since, got>>

truncate(t) ==
    /\ pc[t] = "truncate"
    /\ copy' = [copy EXCEPT ![path[t]] = Empty]
    /\ Goto(t, "write")
    /\ UNCHANGED <<installed, files, sample, lock, path, since, got>>

write(t) ==
    /\ pc[t] = "write"
    /\ copy' = [copy EXCEPT ![path[t]] = sample]
    /\ lock' = None
    /\ Goto(t, "open")
    /\ UNCHANGED <<installed, files, sample, path, since, got>>

(* The real open, and the read: the lock is not held. *)
read(t) ==
    /\ pc[t] = "open"
    /\ got' = [got EXCEPT ![t] = copy[path[t]]]
    /\ Goto(t, "read")
    /\ UNCHANGED <<installed, files, copy, sample, lock, path, since>>

close(t) ==
    /\ pc[t] = "read"
    /\ Goto(t, "idle")
    /\ got' = [got EXCEPT ![t] = None]
    /\ UNCHANGED <<installed, files, copy, sample, lock, path, since>>

Init ==
    /\ installed = FALSE
    /\ files = {}
    /\ copy = [p \in Paths |-> None]
    /\ sample = 0
    /\ lock = None
    /\ pc = [t \in Threads |-> "idle"]
    /\ path = [t \in Threads |-> None]
    /\ since = [t \in Threads |-> 0]
    /\ got = [t \in Threads |-> None]

Script(t) ==
    \/ \E p \in Paths : open(t, p)
    \/ generate(t) \/ truncate(t) \/ write(t) \/ read(t) \/ close(t)

Next ==
    \/ \E p \in Paths : add_file(p)
    \/ install \/ uninstall
    \/ \E t \in Threads : Script(t)

Spec == Init /\ [][Next]_vars

-----------------------------------------------------------------------------
TypeOK ==
    /\ files \subseteq Paths
    /\ copy \in [Paths -> 0..MaxSamples \cup {None}]
    /\ lock \in Threads \cup {None}
    /\ \A p \in Paths : copy[p] # None <=> Redirected(p)

(* vfs.py:8: dynamic files "are regenerated on every open, as reading the  *)
(* real file runs a conversion".  Whoever else opens it or lists it at the *)
(* time, a thread reads a sample taken since it opened the file.  (Or      *)
(* nothing, where another thread is rewriting the copy.)                   *)
FreshReads == \A t \in Threads :
    pc[t] = "read" /\ path[t] \in Dynamic => got[t] = Empty \/ got[t] > since[t]
=============================================================================
