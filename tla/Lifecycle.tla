----------------------------- MODULE Lifecycle -----------------------------
(***************************************************************************)
(* p4n4-emu up, down and profile switch (commands/up.py, down.py,          *)
(* profile.py), over the overlay files (overlays/paths.py), the shared     *)
(* network and the containers of the stacks (utils/compose.py).            *)
(*                                                                         *)
(* Each terminal runs a command at a time, a step of the model for each    *)
(* look at or call of Docker and each file it writes; nothing locks one    *)
(* terminal out while another is at work, any Docker call may fail half    *)
(* way, the look at a stack's containers may get no answer, and Ctrl-C     *)
(* ends a command after any of its steps.                                  *)
(***************************************************************************)
EXTENDS Budget, Sequences, SequencesExt

CONSTANTS
    Terminals,
    Services,       \* the services of each stack that its compose files enable
    Enabled,        \* the stacks that the project's manifest enables
    Profiles,       \* [name, cpus, memory, swap, pids, score, arch, gpu]
    Overrides,      \* of shares, by the profile and the project
    Commands,       \* [cmd, stacks, profile, native, auto, sim]
    Plain,          \* a container that was started without an overlay
    MaxCommands     \* a bound of the model: commands typed

VARIABLES
    net,            \* the shared network: "missing", "unlabelled" or "labelled"
    overlay,        \* the overlay file of each stack, or None
    containers,     \* the limits of each running container: None when it isn't
    sim,            \* whether the simulator's container runs
    term,           \* what each terminal does: [step, cmd, queue, was, started, new], and
                    \* (history) unseen: the stacks of which Docker told it nothing
    typed,          \* commands typed so far
    since,          \* (history) the stacks that run since before a terminal's command
    overlapped,     \* (history) whether commands ran at the same time
    strays          \* (history) stacks that were started and the project doesn't enable

vars == <<net, overlay, containers, sim, term, typed, since, overlapped, strays>>

Stacks == DOMAIN Services

Idle == [step |-> "idle", cmd |-> None, queue |-> <<>>, was |-> FALSE, started |-> <<>>,
         new |-> None, unseen |-> {}]

At(t, step) == term[t].step = step

Stack(t) == Head(term[t].queue)

Go(t, step) == term' = [term EXCEPT ![t].step = step]

NextStack(t, step) == term' = [term EXCEPT ![t].step = step, ![t].queue = Tail(@)]

EndOf(t) == term' = [term EXCEPT ![t] = Idle]

Runs(s) == \E c \in Services[s] : containers[s][c] # None

(* Bug: a stack runs when there is an overlay for it. *)
HasOverlay(s, answers) == answers /\ overlay[s] # None

(* A `docker compose ps` that fails lists nothing: no container runs.      *)
_is_running(s, answers) == answers /\ Runs(s)

(* Containers of s that come, go or change, and what has run since when. *)
Become(s, now) ==
    /\ containers' = [containers EXCEPT ![s] = now]
    /\ since' = [t \in Terminals |->
                    IF \A c \in Services[s] : now[c] = None THEN since[t] \ {s} ELSE since[t]]

Gone(s) == [c \in Services[s] |-> None]

-----------------------------------------------------------------------------
budget_stacks(stacks) == stacks \cup Enabled

SharesOf(prof, stacks) == Shares(Services, budget_stacks(stacks), Overrides, prof)

(* What each up would write, whatever the state of the stacks. *)
Overlays ==
    [c \in {c \in Commands : c.cmd = "up"} |->
        LET platform == resolve_platform(c.profile, c.native)
        IN  [s \in ToSet(c.stacks) |->
                render_overlay(c.profile, s, Services[s], SharesOf(c.profile, ToSet(c.stacks)),
                               platform, resolve_gpu(c.profile, platform),
                               IF c.auto THEN resolve_cpuset(c.profile) ELSE None, c.auto)]]

(* What a switch writes for a stack: the new limits for what up recorded.  *)
(* None: it is refused, for cores that the host lacks.                     *)
Switched(prof, s, stacks) ==
    LET old == overlay[s]
    IN  IF old.auto /\ ~HasCores(prof) THEN None
        ELSE render_overlay(prof, s, Services[s], SharesOf(prof, stacks), old.platform, old.gpu,
                            IF old.auto THEN resolve_cpuset(prof) ELSE old.cpuset, old.auto)

(* update_command(): all but disk rates, platform and GPU. *)
Updated(old, lim) ==
    IF old = Plain THEN [lim EXCEPT !.disk = None, !.platform = None, !.gpu = None]
    ELSE [lim EXCEPT !.disk = old.disk, !.platform = old.platform, !.gpu = old.gpu,
                     !.cpuset = IF @ = None THEN old.cpuset ELSE @]

-----------------------------------------------------------------------------
Type(t, c, start) ==
    /\ At(t, "idle") /\ typed < MaxCommands
    /\ term' = [term EXCEPT ![t] = start]
    /\ typed' = typed + 1
    /\ since' = [since EXCEPT ![t] = {s \in Stacks : Runs(s)}]
    /\ overlapped' = (overlapped \/ \E u \in Terminals \ {t} : ~At(u, "idle"))
    /\ strays' = IF c.cmd = "up" THEN strays \cup (ToSet(c.stacks) \ Enabled) ELSE strays
    /\ UNCHANGED <<net, overlay, containers, sim>>

up(t, c) ==
    /\ c.cmd = "up" /\ (c.auto => HasCores(c.profile))
    /\ Type(t, c, [Idle EXCEPT !.step = "look", !.cmd = c, !.queue = c.stacks])

(* Dependents first. *)
down(t, c) ==
    /\ c.cmd = "down"
    /\ Type(t, c, [Idle EXCEPT !.step = "stop", !.cmd = c, !.queue = Reverse(c.stacks)])

(* Of the stacks that run under p4n4-emu, on this architecture. *)
switch(t, c) ==
    LET running == {s \in ToSet(c.stacks) : overlay[s] # None}
        wanted == resolve_platform(c.profile, FALSE)
    IN  /\ c.cmd = "switch" /\ running # {}
        /\ \A s \in running : overlay[s].platform # None => overlay[s].platform = wanted
        /\ Type(t, c, [Idle EXCEPT !.step = "update", !.cmd = c, !.queue = c.stacks,
                           !.new = [s \in running |-> Switched(c.profile, s, running)]])

-----------------------------------------------------------------------------
(* up: a stack whose services are all disabled is skipped. *)
Skip(t) ==
    /\ At(t, "look") /\ term[t].queue # <<>> /\ Services[Stack(t)] = {}
    /\ NextStack(t, "look")
    /\ UNCHANGED <<net, overlay, containers, sim, typed, since, overlapped, strays>>

Look(t) ==
    /\ At(t, "look") /\ term[t].queue # <<>> /\ Services[Stack(t)] # {}
    /\ \E answers \in BOOLEAN :
        term' = [term EXCEPT ![t].step = "write", ![t].was = _is_running(Stack(t), answers),
                             ![t].unseen = IF answers THEN @ ELSE @ \cup {Stack(t)}]
    /\ UNCHANGED <<net, overlay, containers, sim, typed, since, overlapped, strays>>

Write(t) ==
    /\ At(t, "write")
    /\ overlay' = [overlay EXCEPT ![Stack(t)] = Overlays[term[t].cmd][Stack(t)]]
    /\ Go(t, "network")
    /\ UNCHANGED <<net, containers, sim, typed, since, overlapped, strays>>

(* iot owns the network; the other stacks use it as an external one.       *)
Owns(s) == s = "iot"

(* An unlabelled network is made anew by its owner, unless it is in use.   *)
ensure_network(t) ==
    /\ At(t, "network")
    /\ net' \in CASE net = "missing" -> {"labelled", "missing"}
                  [] net = "unlabelled" /\ Owns(Stack(t)) /\ \A s \in Stacks : ~Runs(s)
                        -> {"labelled", "missing", "unlabelled"}
                  [] OTHER -> {net}
    /\ Go(t, "compose")
    /\ UNCHANGED <<overlay, containers, sim, typed, since, overlapped, strays>>

(* Compose refuses an owner's network without the label, makes one that is *)
(* missing, and fails when an external one is, or when the overlay is.     *)
Composes(s) == overlay[s] # None /\ (IF Owns(s) THEN net # "unlabelled" ELSE net # "missing")

Started(t) == IF term[t].was THEN term[t].started ELSE Append(term[t].started, Stack(t))

ComposeUp(t) ==
    /\ At(t, "compose") /\ Composes(Stack(t))
    /\ Become(Stack(t), overlay[Stack(t)].services)
    /\ net' = IF net = "missing" THEN "labelled" ELSE net
    /\ term' = [term EXCEPT ![t].step = "look", ![t].queue = Tail(@), ![t].started = Started(t)]
    /\ UNCHANGED <<overlay, sim, typed, overlapped, strays>>

(* It fails with some of the containers made. *)
ComposeFails(t) ==
    /\ At(t, "compose")
    /\ LET s == Stack(t)
       IN  \E made \in IF Composes(s) THEN SUBSET Services[s] ELSE {{}} :
            Become(s, [c \in Services[s] |-> IF c \in made THEN overlay[s].services[c]
                                             ELSE containers[s][c]])
    /\ term' = [term EXCEPT ![t].step = "rollback", ![t].started = Started(t)]
    /\ UNCHANGED <<net, overlay, sim, typed, overlapped, strays>>

(* Every stack runs: the simulator is started, if asked for, or fails to.  *)
Finish(t) ==
    /\ At(t, "look") /\ term[t].queue = <<>>
    /\ EndOf(t)
    /\ sim' \in {sim, sim \/ term[t].cmd.sim}
    /\ UNCHANGED <<net, overlay, containers, typed, since, overlapped, strays>>

(* compose down: the network goes with its owner, if nothing else uses it. *)
Down(s) ==
    /\ Become(s, Gone(s))
    /\ net' = IF Owns(s) /\ \A u \in Stacks \ {s} : ~Runs(u) THEN "missing" ELSE net

DownFails(s) ==
    /\ \E left \in SUBSET Services[s] :
        Become(s, [c \in Services[s] |-> IF c \in left THEN containers[s][c] ELSE None])
    /\ UNCHANGED net

(* _roll_back(): the stacks started, the last one first. *)
RollBack(t) ==
    /\ At(t, "rollback") /\ term[t].started # <<>>
    /\ \/ Down(Last(term[t].started)) /\ Go(t, "drop")
       \/ /\ DownFails(Last(term[t].started))
          /\ term' = [term EXCEPT ![t].started = Front(@)]
    /\ UNCHANGED <<overlay, sim, typed, overlapped, strays>>

DropOverlay(t) ==
    /\ At(t, "drop")
    /\ overlay' = [overlay EXCEPT ![Last(term[t].started)] = None]
    /\ term' = [term EXCEPT ![t].step = "rollback", ![t].started = Front(@)]
    /\ UNCHANGED <<net, containers, sim, typed, since, overlapped, strays>>

RolledBack(t) ==
    /\ At(t, "rollback") /\ term[t].started = <<>>
    /\ EndOf(t)
    /\ UNCHANGED <<net, overlay, containers, sim, typed, since, overlapped, strays>>

-----------------------------------------------------------------------------
(* down: a stack that could not be stopped keeps its overlay. *)
Stop(t) ==
    /\ At(t, "stop") /\ term[t].queue # <<>>
    /\ \/ Down(Stack(t)) /\ Go(t, "remove")
       \/ DownFails(Stack(t)) /\ NextStack(t, "stop")
    /\ UNCHANGED <<overlay, sim, typed, overlapped, strays>>

RemoveOverlay(t) ==
    /\ At(t, "remove")
    /\ overlay' = [overlay EXCEPT ![Stack(t)] = None]
    /\ NextStack(t, "stop")
    /\ UNCHANGED <<net, containers, sim, typed, since, overlapped, strays>>

(* The simulator goes down with iot only. *)
Stopped(t) ==
    /\ At(t, "stop") /\ term[t].queue = <<>>
    /\ EndOf(t)
    /\ sim' = (sim /\ "iot" \notin ToSet(term[t].cmd.stacks))
    /\ UNCHANGED <<net, overlay, containers, typed, since, overlapped, strays>>

(* switch: a stack that did not run under p4n4-emu is passed over. *)
PassOver(t) ==
    /\ At(t, "update") /\ term[t].queue # <<>> /\ Stack(t) \notin DOMAIN term[t].new
    /\ NextStack(t, "update")
    /\ UNCHANGED <<net, overlay, containers, sim, typed, since, overlapped, strays>>

(* The stacks before this one have been switched by then. *)
Refuse(t) ==
    /\ At(t, "update") /\ term[t].queue # <<>> /\ Stack(t) \in DOMAIN term[t].new
    /\ term[t].new[Stack(t)] = None
    /\ EndOf(t)
    /\ UNCHANGED <<net, overlay, containers, sim, typed, since, overlapped, strays>>

(* docker update of each container that runs, some of which fail.          *)
Update(t) ==
    /\ At(t, "update") /\ term[t].queue # <<>> /\ Stack(t) \in DOMAIN term[t].new
    /\ term[t].new[Stack(t)] # None
    /\ LET s == Stack(t)
       IN  \E ok \in SUBSET {c \in Services[s] : containers[s][c] # None} :
            Become(s, [c \in Services[s] |->
                IF c \in ok THEN Updated(containers[s][c], term[t].new[s].services[c])
                ELSE containers[s][c]])
    /\ Go(t, "record")
    /\ UNCHANGED <<net, overlay, sim, typed, overlapped, strays>>

Record(t) ==
    /\ At(t, "record")
    /\ overlay' = [overlay EXCEPT ![Stack(t)] = term[t].new[Stack(t)]]
    /\ NextStack(t, "update")
    /\ UNCHANGED <<net, containers, sim, typed, since, overlapped, strays>>

Recorded(t) ==
    /\ At(t, "update") /\ term[t].queue = <<>>
    /\ EndOf(t)
    /\ UNCHANGED <<net, overlay, containers, sim, typed, since, overlapped, strays>>

Interrupt(t) ==
    /\ ~At(t, "idle")
    /\ EndOf(t)
    /\ UNCHANGED <<net, overlay, containers, sim, typed, since, overlapped, strays>>

(* Some stack may run already, as docker compose up has started it.        *)
Init ==
    /\ net \in {"missing", "unlabelled"}
    /\ overlay = [s \in Stacks |-> None]
    /\ containers \in {[s \in Stacks |-> Gone(s)],
                       [s \in Stacks |-> IF s = "iot" THEN [c \in Services[s] |-> Plain] ELSE Gone(s)]}
    /\ sim = FALSE
    /\ term = [t \in Terminals |-> Idle]
    /\ typed = 0
    /\ since = [t \in Terminals |-> {}]
    /\ overlapped = FALSE /\ strays = {}

Next ==
    \E t \in Terminals :
        \/ \E c \in Commands : up(t, c) \/ down(t, c) \/ switch(t, c)
        \/ Skip(t) \/ Look(t) \/ Write(t) \/ ensure_network(t) \/ ComposeUp(t) \/ ComposeFails(t)
        \/ Finish(t) \/ RollBack(t) \/ DropOverlay(t) \/ RolledBack(t)
        \/ Stop(t) \/ RemoveOverlay(t) \/ Stopped(t)
        \/ PassOver(t) \/ Refuse(t) \/ Update(t) \/ Record(t) \/ Recorded(t) \/ Interrupt(t)

Spec == Init /\ [][Next]_vars

-----------------------------------------------------------------------------
TypeOK ==
    /\ net \in {"missing", "unlabelled", "labelled"} /\ sim \in BOOLEAN
    /\ \A s \in Stacks : overlay[s] # None => DOMAIN overlay[s].services = Services[s]
    /\ \A t \in Terminals :
        /\ term[t].step \in {"idle", "look", "write", "network", "compose", "rollback", "drop",
                             "stop", "remove", "update", "record"}
        /\ since[t] \subseteq Stacks
        /\ ToSet(term[t].started) \subseteq Stacks
        /\ At(t, "idle") => term[t] = Idle

(* A roll back stops no stack that has run since before its command, even  *)
(* when other commands run at the same time, but for one of which Docker   *)
(* did not answer: compose.ps() takes that for a stack at rest, and        *)
(* _roll_back() then stops it, which its docstring says it never does.     *)
RollBackSpares ==
    \A t \in Terminals :
        At(t, "rollback") => ToSet(term[t].started) \cap since[t] \subseteq term[t].unseen

Emulated(s) == \E c \in Services[s] : containers[s][c] \notin {None, Plain}

(* As long as containers have limits there is an overlay that down finds,  *)
(* and status compares them with: it goes after they are gone, unless two  *)
(* commands run at the same time.                                          *)
LimitsAreKnown == ~overlapped => \A s \in Stacks : Emulated(s) => overlay[s] # None

LimitsFor(prof) ==
    LET C == {x \in UNION {{s} \X Services[s] : s \in Stacks} : containers[x[1]][x[2]] \notin {None, Plain}}
    IN  [x \in {x \in C : containers[x[1]][x[2]].profile = prof.name} |-> containers[x[1]][x[2]]]

(* The limits that containers have for one profile fit into its board,     *)
(* whether the project's stacks were started together or one at a time.    *)
LimitsFit ==
    /\ strays = {} => \A prof \in Profiles : Fits(LimitsFor(prof), prof)
    /\ \A prof \in Profiles : LET L == LimitsFor(prof) IN
        \A x \in DOMAIN L : L[x].cpuset # None => L[x].cpuset \subseteq 0..HostCpus - 1
=============================================================================
