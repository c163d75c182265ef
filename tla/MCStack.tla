------------------------------ MODULE MCStack ------------------------------
(***************************************************************************)
(* A deployment of which one part is at work: "which" chooses the          *)
(* simulator's loop, a document's way into the container, or the commands, *)
(* typed in one terminal or in two at the same time; the others rest.      *)
(***************************************************************************)
EXTENDS Deployment

CONSTANTS t1, t2

VARIABLE which

-----------------------------------------------------------------------------
(* Two devices with faults, one of which falls silent; a node; recordings. *)
Publishing(devices, nodes, rec, speed, loop) ==
    [devices |-> devices, nodes |-> nodes, rec |-> rec, speed |-> speed, loop |-> loop]

TheIntervals == <<4, 3>>

TheFaults ==
    {[type |-> "dropout", measurement |-> All, time |-> 4],
     [type |-> "stuck", measurement |-> "a", time |-> 3],
     [type |-> "delay", measurement |-> "a", time |-> 5]}

TheScenarios ==
    {Publishing({1}, {2}, <<>>, 1, FALSE), Publishing({}, {}, <<0, 2, 4>>, 2, TRUE),
     Publishing({}, {}, <<0, 2, 3>>, 0, FALSE)}

-----------------------------------------------------------------------------
Null == [kind |-> "null"]

Made(settings) == [kind |-> "wave", given |-> settings]

Wav(name) == [kind |-> "audio", given |-> [file |-> name, window |-> 50]]

Image == [kind |-> "image", given |-> [width |-> 2, height |-> 3, encoding |-> "uint8"]]

Entry(stem, n, count, measurements, faults) ==
    [stem |-> stem, n |-> n, count |-> count, interval |-> None, measurements |-> measurements,
     faults |-> faults, mcu |-> None]

Fault(type, measurement, settings) ==
    [type |-> type, probability |-> 50, measurement |-> measurement, given |-> settings]

NoSettings == [x \in {} |-> 0]

(* Good ones and bad ones, and ones that are good or bad with each other.  *)
TheEntries ==
    {Entry("a-", N, 2, [temperature |-> Null, raw |-> Null], {Fault("dropout", None, NoSettings)}),
     Entry("a-", 1, 1, [humidity |-> Made([min |-> 9600])], {}),
     Entry("a-", 1, 1, [humidity |-> Made([max |-> 6000, amplitude |-> 2000])],
           {Fault("spike", "humidity", [magnitude |-> 5])}),
     Entry("b", 0, 1, [raw |-> Null], {Fault("stuck", "raw", [duration |-> 100])}),
     Entry("b", 0, 1, [mic |-> Wav("door"), siren |-> Wav("../door")],
           {Fault("delay", "mic", [seconds |-> 200])}),
     Entry("b", 0, 1, [mic |-> Wav("door"), cam |-> Image], {Fault("drift", "cam", NoSettings)}),
     [Entry("c", 0, 1, [vibration |-> Made([base |-> 50, min |-> 0]), pressure |-> Null],
            {Fault("malformed", "pressure", NoSettings)}) EXCEPT !.mcu = [sleep |-> 6000], !.interval = 500],
     [Entry("c", 0, 1, [vibration |-> Made([min |-> 0])], {}) EXCEPT !.mcu = [buffer |-> -1]],
     Entry("x/y", 0, 1, [temperature |-> Null], {})}

Rec(file, speed, loop) == [file |-> file, speed |-> speed, loop |-> loop, devices |-> [old |-> "new"]]

Option(interval, devices, qos, retain, rec) ==
    [interval |-> interval, devices |-> devices, qos |-> qos, retain |-> retain, replay |-> rec]

Clip == <<"clips", "door">>

OtherClip == <<"more", "door">>

TheReplays == {Rec("rec", 10, TRUE), Rec("rec", 0, TRUE), Rec("gone", 1, FALSE)}

TheOptions ==
    {Option(None, None, None, None, None), Option(None, 0, None, None, None), Option(100, 3, 1, TRUE, None),
     Option(0, None, 0, FALSE, Rec("rec", 0, FALSE)), Option(None, 2, None, None, Rec("rec", 0, TRUE))}

TheFiles ==
    [x \in {"door", "../door", "./rec", "rec"} |->
        CASE x = "door" -> Clip [] x = "../door" -> OtherClip [] OTHER -> <<"clips", "rec">>]

TheRates == (Clip :> 8) @@ (OtherClip :> 11)

TheLengths == (Clip :> 10) @@ (OtherClip :> 7)

-----------------------------------------------------------------------------
(* A board of which the stacks' shares are too much, and one with a GPU.   *)
rpi5 == [name |-> "rpi5", cpus |-> 400, memory |-> 8192, swap |-> 8192, pids |-> 32768,
         score |-> 60, arch |-> "arm64", gpu |-> None]

nano == [name |-> "nano", cpus |-> 150, memory |-> 4096, swap |-> 6144, pids |-> 1000,
         score |-> None, arch |-> "x86_64", gpu |-> "nvidia"]

TheServices == [iot |-> {"mqtt", "influxdb"}, ai |-> {"ollama", "system1"}, extras |-> {}]

Command(cmd, stacks, profile, native, auto, wsim) ==
    [cmd |-> cmd, stacks |-> stacks, profile |-> profile, native |-> native, auto |-> auto, sim |-> wsim]

TheCommands ==
    {Command("up", <<"iot", "ai">>, nano, TRUE, TRUE, TRUE), Command("up", <<"ai">>, rpi5, FALSE, FALSE, FALSE),
     Command("up", <<"iot">>, rpi5, TRUE, FALSE, FALSE), Command("up", <<"ai", "extras">>, nano, TRUE, FALSE, FALSE),
     Command("down", <<"iot", "ai">>, rpi5, FALSE, FALSE, FALSE), Command("down", <<"ai">>, rpi5, FALSE, FALSE, FALSE),
     Command("switch", <<"iot", "ai">>, nano, FALSE, FALSE, FALSE), Command("switch", <<"iot", "ai">>, rpi5, FALSE, FALSE, FALSE)}

TheScores == ("linux/amd64" :> 100) @@ ("linux/arm64" :> None)

TheOverrides == "ollama" :> [memory |-> 90]

TheProfiles == {rpi5, nano}

-----------------------------------------------------------------------------
MCInit ==
    /\ which \in {"loop", "document", "one", "two"}
    /\ DeploymentInit
    /\ which # "loop" => node = <<>> /\ replay.speed = 0
    /\ which # "document" => doc = None
    /\ which \notin {"one", "two"} => net = "missing" /\ \A c \in Services.iot : containers["iot"][c] = None

MCNext ==
    /\ UNCHANGED which
    /\ \/ which = "loop" /\ LoopStep
       \/ which = "document" /\ DocumentStep
       \/ which = "one" /\ StacksStep /\ term'[t2] = Idle
       \/ which = "two" /\ StacksStep /\ typed' <= 2

MCSpec == MCInit /\ [][MCNext]_<<which, vars, loopVars, documentVars>>
=============================================================================
