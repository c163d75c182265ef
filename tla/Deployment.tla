----------------------------- MODULE Deployment -----------------------------
(***************************************************************************)
(* What runs outside the emulated board, side by side: the terminals in    *)
(* which commands start and stop the stacks (Lifecycle), a scenario on its *)
(* way into the simulator's container (Scenario), and the loop that runs   *)
(* there (Simulator).  They share no state: a step is one of them.         *)
(***************************************************************************)
EXTENDS Lifecycle

CONSTANTS
    Interval, Measurements, Samples, Faults, Naps, Delays, Scenarios, Busy, Jitter, MaxHeld, All,
    Entries, Replays, Options, Where, Rate, Length, N, NotLevels, MaxEntries, Refused

VARIABLES
    pc, due, silent, stuck, held, node, replay, out, told,
    doc, started

Loop == INSTANCE Simulator

Document == INSTANCE Scenario

-----------------------------------------------------------------------------
loopVars == <<pc, due, silent, stuck, held, node, replay, out, told>>

documentVars == <<doc, started>>

StacksStep == Next /\ UNCHANGED <<loopVars, documentVars>>

LoopStep == Loop!Next /\ UNCHANGED <<vars, documentVars>>

DocumentStep == Document!Next /\ UNCHANGED <<vars, loopVars>>

DeploymentInit == Init /\ Loop!Init /\ Document!Init

DeploymentNext == StacksStep \/ LoopStep \/ DocumentStep

DeploymentSpec == DeploymentInit /\ [][DeploymentNext]_<<vars, loopVars, documentVars>>

-----------------------------------------------------------------------------
(* The delayed readings are in order, a terminal that waits for a command  *)
(* is at work on none, and so on.                                          *)
DeploymentTypeOK == TypeOK /\ Loop!TypeOK /\ Document!TypeOK

(* sensor_sim.run(): nothing is published later than a turn and a sleep,   *)
(* nothing is taken while its device or measurement is silent, and it ends *)
(* only once there is nothing to publish.                                  *)
SimulatorKeepsTime == Loop!OnTime /\ Loop!SilenceHolds /\ Loop!EndsWhenDone

(* A scenario that the host accepts is the one that the container runs,    *)
(* and it runs.                                                            *)
AcceptedRuns == Document!AcceptedRuns

(* up rolls back only what it started, or took for stopped because Docker  *)
(* did not answer, and down and status find an overlay for what it         *)
(* limited.                                                                *)
UndoesOnlyItsOwn == RollBackSpares /\ LimitsAreKnown
=============================================================================
