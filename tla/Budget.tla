------------------------------- MODULE Budget -------------------------------
(***************************************************************************)
(* p4n4_emu/overlays/generator.py: how the services of all stacks share    *)
(* the board of a hardware profile, and what limits an overlay gives them. *)
(*                                                                         *)
(* Shares, factors and CPUs are in hundredths, sizes in MB.  (The boards   *)
(* of the model have memory of which a fixed service's is a whole          *)
(* percentage, or all.)  A scale is a fraction, <<left, total>>.           *)
(***************************************************************************)
EXTENDS Integers, FiniteSets, FiniteSetsExt

CONSTANTS
    HostCpus,   \* cores that the Docker engine sees
    HostScore,  \* calibration.load(): the host's score by platform; None: not measured
    Nvidia,     \* whether Docker has the NVIDIA runtime
    Native,     \* the host's own platform
    None

_MIN_MEMORY_MB == 6
_MIN_CPUS == 1
_MIN_PIDS == 64

Share(cpu, memory) == [cpu |-> cpu, memory |-> memory, fixed |-> FALSE]

(* A table of services, their CPU and their memory. *)
Table(rows) ==
    [name \in {row[1] : row \in rows} |->
        LET row == CHOOSE row \in rows : row[1] = name IN Share(row[2], row[3])]

SERVICE_SHARES ==
    [iot |-> Table({<<"mqtt", 10, 5>>, <<"influxdb", 40, 35>>, <<"node-red", 30, 15>>, <<"grafana", 15, 10>>}),
     ai |-> Table({<<"ollama", 60, 55>>, <<"letta", 20, 20>>, <<"n8n", 20, 15>>,
                   <<"ei-runner", 25, 10>>, <<"agent", 10, 4>>}),
     edge |-> Table({<<"ei-runner", 25, 10>>}),
     dashboard |-> Table({<<"dashboard", 5, 1>>}),
     extras |-> Table({})]

FALLBACK_SHARE == Share(10, 10)

FIXED_LIMITS == [iot |-> {}, ai |-> {"system1"}, edge |-> {}, dashboard |-> {}, extras |-> {}]

Fixed == [cpus |-> 200, memory |-> 2048]

NATIVE_SERVICES == {"system1"}

GPU_SERVICES == {"ollama", "ei-runner"}

-----------------------------------------------------------------------------
(* Fixed.share(): the service's own size, as a share of this board.        *)
FixedShare(prof) ==
    [cpu |-> Min({100, (100 * Fixed.cpus) \div prof.cpus}),
     memory |-> Min({100, (100 * Fixed.memory) \div prof.memory}), fixed |-> TRUE]

(* _apply(): an override changes a share field by field. *)
_apply(share, overrides, name) ==
    LET fields == IF name \in DOMAIN overrides THEN overrides[name] ELSE <<>>
    IN  [share EXCEPT !.cpu = IF "cpu" \in DOMAIN fields THEN fields.cpu ELSE @,
                      !.memory = IF "memory" \in DOMAIN fields THEN fields.memory ELSE @]

service_shares(stack, services, overrides, prof) ==
    LET known == SERVICE_SHARES[stack]
        base(name) == CASE name \in FIXED_LIMITS[stack] -> FixedShare(prof)
                        [] name \in DOMAIN known        -> known[name]
                        [] OTHER -> _apply(FALLBACK_SHARE, overrides, "*")
    IN  [name \in services |-> _apply(base(name), overrides, name)]

(* The shares of several stacks: {<<stack, service>>} to share.            *)
Shares(services, stacks, overrides, prof) ==
    [x \in UNION {{s} \X services[s] : s \in stacks} |->
        service_shares(x[1], services[x[1]], overrides, prof)[x[2]]]

Total(shares, field, fixed) ==
    MapThenSumSet(LAMBDA x : shares[x][field], {x \in DOMAIN shares : shares[x].fixed = fixed})

(* Bug: the fixed shares are taken out of nothing. *)
ScaleOfAll(shares, field) ==
    LET total == Total(shares, field, FALSE)
    IN  IF total > 100 THEN <<100, total>> ELSE <<1, 1>>

(* budget_scale(): shares are only scaled down, the fixed ones never. *)
budget_scale(shares, field) ==
    LET left == Max({0, 100 - Total(shares, field, TRUE)})
        total == Total(shares, field, FALSE)
    IN  IF total > left THEN <<left, total>> ELSE <<1, 1>>

-----------------------------------------------------------------------------
PlatformOf(arch) == IF arch = "arm64" THEN "linux/arm64" ELSE "linux/amd64"

resolve_platform(prof, native) ==
    IF native \/ prof.arch # "arm64" THEN None ELSE PlatformOf(prof.arch)

needs_qemu(platform) == platform # None /\ platform # Native

(* resolve_gpu(): of a profile that has one, if the run can use it. *)
resolve_gpu(prof, platform) ==
    IF prof.gpu = None \/ needs_qemu(platform) \/ ~Nvidia THEN None ELSE prof.gpu

(* resolve_cpu_factor(): board core / host core, never above 1.            *)
resolve_cpu_factor(prof, platform) ==
    LET on == IF platform = None THEN Native ELSE platform
    IN  IF prof.score = None \/ HostScore[on] = None \/ prof.score > HostScore[on]
        THEN 100 ELSE (100 * prof.score) \div HostScore[on]

(* resolve_cpuset("auto"): the first cores; None when the host lacks them. *)
Cores(prof) == (prof.cpus + 99) \div 100

HasCores(prof) == Cores(prof) <= HostCpus

resolve_cpuset(prof) == 0..Cores(prof) - 1

(* "%.2f" *)
Rounded(num, den) == (2 * num + den) \div (2 * den)

(* A fixed share is not scaled. *)
OwnScale(share, scale) ==
    IF share.fixed THEN [cpu |-> <<1, 1>>, memory |-> <<1, 1>>] ELSE scale

(* A service's entry in the overlay, and the profile that it is for.       *)
Limits(prof, name, share, platform, scale, gpu, factor, cpuset) ==
    LET own == OwnScale(share, scale)
        memory == Max({_MIN_MEMORY_MB, (prof.memory * share.memory * own.memory[1])
                                          \div (100 * own.memory[2])})
    IN  [cpus |-> Max({_MIN_CPUS, Rounded(prof.cpus * factor * share.cpu * own.cpu[1],
                                          10000 * own.cpu[2])}),
         memory |-> memory,
         memswap |-> Max({memory, (memory * prof.swap) \div prof.memory}),
         pids |-> Max({_MIN_PIDS, (prof.pids * share.memory * own.memory[1])
                                     \div (100 * own.memory[2])}),
         platform |-> IF name \in NATIVE_SERVICES THEN None ELSE platform,
         gpu |-> IF name \in GPU_SERVICES THEN gpu ELSE None,
         cpuset |-> cpuset, disk |-> prof.name, profile |-> prof.name]

render_overlay(prof, stack, services, shares, platform, gpu, cpuset, auto) ==
    LET scale == [cpu |-> budget_scale(shares, "cpu"), memory |-> budget_scale(shares, "memory")]
    IN  [profile |-> prof.name, platform |-> platform, gpu |-> gpu, cpuset |-> cpuset, auto |-> auto,
         services |-> [name \in services |->
             Limits(prof, name, shares[<<stack, name>>], platform, scale, gpu,
                    resolve_cpu_factor(prof, platform), cpuset)]]

-----------------------------------------------------------------------------
SumOf(lims, field) == MapThenSumSet(LAMBDA x : lims[x][field], DOMAIN lims)

AtLeast(lims, field, min) == Cardinality({x \in DOMAIN lims : lims[x][field] = min})

(* The limits of services that share a board fit into it, but for what     *)
(* Docker and the templates give every service as a minimum, and for the   *)
(* rounding of hundredths of a CPU.                                        *)
Fits(lims, prof) ==
    LET n == Cardinality(DOMAIN lims)
    IN  /\ SumOf(lims, "memory") <= prof.memory + _MIN_MEMORY_MB * AtLeast(lims, "memory", _MIN_MEMORY_MB)
        /\ SumOf(lims, "memswap") <= prof.swap
                + ((_MIN_MEMORY_MB * prof.swap) \div prof.memory) * AtLeast(lims, "memory", _MIN_MEMORY_MB)
        /\ SumOf(lims, "pids") <= prof.pids + _MIN_PIDS * AtLeast(lims, "pids", _MIN_PIDS)
        /\ SumOf(lims, "cpus") <= prof.cpus + n
        /\ \A x \in DOMAIN lims : lims[x].memswap >= lims[x].memory
=============================================================================
