----------------------------- MODULE DeviceHost -----------------------------
(***************************************************************************)
(* How the framework brings up its devices: main (fwmain.cpp) runs         *)
(* device_loader::create_all, which constructs a virtual_device for every  *)
(* module file and sends it to the forward manager, then opens the         *)
(* gateway.  The forward manager's timer thread starts with the first      *)
(* message; each tick consumes the queue and asks every device it has for  *)
(* a colour and a depth frame, which starts with the search for a block to *)
(* write.  SharedBuffer says when that search never ends: then the tick    *)
(* does not either.  The module is OpenNUI_Kinect2.                        *)
(*                                                                         *)
(* When the user leaves, main returns: its vector of devices goes, and the *)
(* function-local statics (the manager, the message of _on_timer, the      *)
(* gateway) are destroyed in the reverse order of their registration,      *)
(* while the timer may still tick.  Whether vee's async_timer::stop waits  *)
(* for a tick that runs is not known: stop_waits is an input.              *)
(***************************************************************************)
EXTENDS Integers, Sequences, FiniteSets

CONSTANTS
  Modules,      \* module files, numbered in the order in which scan lists them
  Faults,       \* what may be wrong with a file: subset of AllFaults
  BadSteps,     \* the steps of kinect2::open at which a sensor may fail
  Keys,         \* values of the hash of a module's path
  Capacity,     \* bound: largest queue; frdmgr::msg_queue_capacity is 1024
  MaxRemove,    \* bound: remove messages sent
  CallsRelease  \* force_release_all_devices is called; main's call is commented out

AllFaults == {"none", "missing", "not_loadable", "no_entry_point", "no_shared_memory"}

\* kinect2::open, in order; reaching "opened" is success.
OpenSteps == <<"sensor", "sensor_open", "color_source", "color_reader", "color_description",
               "depth_source", "depth_reader", "body_source", "body_reader", "opened">>

ASSUME FaultsAssumption == Faults \subseteq AllFaults /\ BadSteps \subseteq 1 .. 9
ASSUME HostAssumption ==
  /\ IsFiniteSet(Modules) /\ Modules \subseteq Nat \ {0}
  /\ Keys \subseteq Nat /\ Keys # {}
  /\ Capacity \in Nat \ {0} /\ MaxRemove \in Nat
  /\ CallsRelease \in BOOLEAN

VARIABLES
  fault, broken, key, \* the inputs: each file's fault, the step at which open fails (0: none), key
  capacity, \* an input: messages the queue holds
  stop_waits, \* an input: async_timer::stop returns when no tick runs any more
  main,     \* main thread: scan .. gateway, online, and from leave to gone
  module,   \* the module main works on
  todo,     \* files not yet loaded
  step,     \* of each device: how far kinect2::open got
  state,    \* device_state of each device
  buffers,  \* devices whose two shared buffers exist
  opened,   \* devices reported as "Virtual device is opened"
  statics,  \* function-local statics registered for destruction, in order
  stopped,  \* the timer was stopped
  timer,    \* timer thread: none, idle, drain, apply, color, depth, spin
  msg,      \* frdmgr::_on_timer's static message, its vd kept until the next one
  queue,    \* frdmgr::_msg_queue
  devices,  \* frdmgr::_devices: from key to module
  round,    \* keys of the devices the current tick has still to serve
  removes,  \* remove messages sent so far
  asked,    \* history: modules whose last message in the queue was create
  wanted,   \* history: keys whose last message in the queue was create
  lost,     \* history: modules of which a message found the queue full
  early,    \* history: main returned before every message was consumed
  released, \* history: force_release_all_devices has returned
  crashed   \* a thread dereferenced a null pointer: the process is gone

inputs  == <<fault, broken, key, capacity, stop_waits>>
loading == <<module, todo, step, state, buffers, opened>>
sending == <<queue, asked, wanted, lost, removes>>
ending  == <<statics, stopped, early, released>>
ticking == <<timer, msg, devices, round>>
vars    == <<inputs, main, loading, sending, ending, ticking, crashed>>

NoModule   == 0
NoMessage  == [opt |-> "none", vd |-> NoModule]
DeadObject == [opt |-> "destroyed", vd |-> NoModule]

\* The readers kinect2::open obtained before it returned.
HasColorReader(m) == step[m] > 4
HasDepthReader(m) == step[m] > 7

-----------------------------------------------------------------------------
(* The main thread.                                                        *)

Goto(l) == main' = l

Least(S) == CHOOSE k \in S : \A j \in S : k <= j

Room_OneTooMany == Len(queue) <= capacity
Room == Len(queue) < capacity

\* What the messages so far ask for, of modules or of keys, after one more about x.
After(S, opt, x) == IF opt = "create" THEN S \cup {x} ELSE S \ {x}

\* enqueue; nobody looks at what it returns.
Enqueue(opt, m) ==
  \/ /\ Room
     /\ queue' = Append(queue, [opt |-> opt, vd |-> m])
     /\ asked' = After(asked, opt, m)
     /\ wanted' = After(wanted, opt, key[m])
     /\ UNCHANGED lost
  \/ /\ ~Room
     /\ lost' = lost \cup {m}
     /\ UNCHANGED <<queue, asked, wanted>>

\* scan() and the loop of create_all
NextModule_SendsFirst ==
  /\ main = "scan"
  /\ todo # {}
  /\ module' = Least(todo)
  /\ todo' = todo \ {Least(todo)}
  /\ Enqueue("create", Least(todo))
  /\ timer' = IF timer = "none" THEN "idle" ELSE timer
  /\ Goto("load")
  /\ UNCHANGED <<inputs, step, state, buffers, opened, removes, ending, msg, devices, round, crashed>>
NextModule ==
  /\ main = "scan"
  /\ IF todo = {}
       THEN Goto("gateway") /\ UNCHANGED <<module, todo>>
       ELSE /\ module' = Least(todo)
            /\ todo' = todo \ {Least(todo)}
            /\ Goto("load")
  /\ UNCHANGED <<inputs, step, state, buffers, opened, sending, ending, ticking, crashed>>

\* The handler is outside the loop: the other modules are not loaded.
AfterException_Uncaught == "dead"
AfterException == "gateway"

\* virtual_device::_open: exists, LoadLibraryA
LoadModule ==
  /\ main = "load"
  /\ Goto(IF fault[module] \in {"missing", "not_loadable"} THEN AfterException ELSE "entry")
  /\ UNCHANGED <<inputs, loading, sending, ending, ticking, crashed>>

\* GetProcAddress; the test that follows is of module_handle, not of ep.
CallEntryPoint ==
  /\ main = "entry"
  /\ IF fault[module] = "no_entry_point"
       THEN crashed' = TRUE /\ UNCHANGED main
       ELSE Goto("open") /\ UNCHANGED crashed
  /\ UNCHANGED <<inputs, loading, sending, ending, ticking>>

\* One call of kinect2::open; a failure returns false, which nobody looks at.
OpenStep ==
  /\ main = "open"
  /\ IF step[module] = broken[module]
       THEN Goto("buffers") /\ UNCHANGED <<step, state>>
       ELSE /\ step' = [step EXCEPT ![module] = @ + 1]
            /\ IF OpenSteps[step[module] + 1] = "opened"
                 THEN Goto("buffers") /\ state' = [state EXCEPT ![module] = "opened"]
                 ELSE UNCHANGED <<main, state>>
  /\ UNCHANGED <<inputs, module, todo, buffers, opened, sending, ending, ticking, crashed>>

\* make_shared<shared_buffer>, twice; without shared memory the constructor throws,
\* and the destructor that would unload the module never runs.
MakeBuffers ==
  /\ main = "buffers"
  /\ IF fault[module] = "no_shared_memory"
       THEN Goto(AfterException) /\ UNCHANGED <<buffers, opened>>
       ELSE /\ buffers' = buffers \cup {module}
            /\ opened' = opened \cup {module}
            /\ Goto("send")
  /\ UNCHANGED <<inputs, module, todo, step, state, sending, ending, ticking, crashed>>

\* The first send_message constructs the manager, which starts the timer; only when
\* the constructor has returned is the static registered for destruction.
StartManager ==
  /\ main = "send" /\ timer = "none"
  /\ timer' = "idle"
  /\ Goto("register")
  /\ UNCHANGED <<inputs, loading, sending, ending, msg, devices, round, crashed>>

RegisterManager ==
  /\ main = "register"
  /\ statics' = Append(statics, "frdmgr")
  /\ Goto("send")
  /\ UNCHANGED <<inputs, loading, sending, stopped, early, released, ticking, crashed>>

SendCreate ==
  /\ main = "send" /\ timer # "none"
  /\ Enqueue("create", module)
  /\ Goto("scan")
  /\ UNCHANGED <<inputs, loading, removes, ending, ticking, crashed>>

\* gateway::open (Gateway); whatever fails in it is only logged.
OpenGateway ==
  /\ main = "gateway"
  /\ statics' = Append(statics, "gateway")
  /\ Goto("online")
  /\ UNCHANGED <<inputs, loading, sending, stopped, early, released, ticking, crashed>>

\* What main would send for its devices before it returns (fwmain.cpp:31).
SendRemove(m) ==
  /\ main = "online" /\ timer # "none"
  /\ removes < MaxRemove
  /\ m \in opened
  /\ removes' = removes + 1
  /\ Enqueue("remove", m)
  /\ UNCHANGED <<inputs, main, loading, ending, ticking, crashed>>

-----------------------------------------------------------------------------
(* The end: force_release_all_devices, and what follows main.              *)

\* _timer->stop(): no new tick begins.
Stop(here, next) ==
  /\ main = here
  /\ stopped' = TRUE
  /\ Goto(next)
  /\ UNCHANGED <<inputs, loading, sending, statics, early, released, ticking, crashed>>

\* A tick has begun and not ended; it may be in a search that never does.
TickRuns == timer \notin {"none", "idle"}

\* force_release_all_devices
Release_NoStop ==
  /\ main = "online" /\ CallsRelease /\ ~released /\ timer # "none"
  /\ Goto("clear")
  /\ UNCHANGED <<inputs, loading, sending, ending, ticking, crashed>>
Release ==
  /\ main = "online" /\ CallsRelease /\ ~released /\ timer # "none"
  /\ Goto("stop")
  /\ UNCHANGED <<inputs, loading, sending, ending, ticking, crashed>>

ReleaseStop == Stop("stop", "clear")

\* _devices.clear(), under the feet of a tick that stop did not wait for; a search
\* keeps the buffer it works on.
ReleaseClear ==
  /\ main = "clear"
  /\ stop_waits /\ stopped => ~TickRuns
  /\ devices' = <<>>
  /\ crashed' = (timer \in {"apply", "color", "depth"})
  /\ released' = TRUE
  /\ Goto("online")
  /\ UNCHANGED <<inputs, loading, sending, statics, stopped, early, timer, msg, round>>

\* The user presses enter; main returns and its vector of devices goes.
Leave ==
  /\ main = "online"
  /\ early' = (~stopped /\ (queue # <<>> \/ timer = "apply"))
  /\ Goto("leave")
  /\ UNCHANGED <<inputs, loading, sending, statics, stopped, released, ticking, crashed>>

Last(S) == S[Len(S)]
Front(S) == SubSeq(S, 1, Len(S) - 1)

\* ~gateway is close() (Gateway); the message lets go of its device.
DestroyStatic ==
  /\ main = "leave"
  /\ statics # <<>>
  /\ statics' = Front(statics)
  /\ msg' = IF Last(statics) = "msg" THEN DeadObject ELSE msg
  /\ Goto(IF Last(statics) = "frdmgr" THEN "dtor" ELSE "leave")
  /\ UNCHANGED <<inputs, loading, sending, stopped, early, released, timer, devices, round, crashed>>

\* ~frdmgr: stop(), then the members go, the map and the queue among them.
DtorStop == Stop("dtor", "members")

DestroyManager ==
  /\ main = "members"
  /\ stop_waits => ~TickRuns
  /\ devices' = <<>>
  /\ queue' = <<>>
  /\ crashed' = (TickRuns /\ timer # "spin")
  /\ Goto("leave")
  /\ UNCHANGED <<inputs, loading, asked, wanted, lost, removes, ending, timer, msg, round>>

Exit ==
  /\ main = "leave"
  /\ statics = <<>>
  /\ Goto("gone")
  /\ UNCHANGED <<inputs, loading, sending, ending, ticking, crashed>>

-----------------------------------------------------------------------------
(* The timer thread: frdmgr::_on_timer.                                    *)

\* The first tick constructs the static message.
OnTimer ==
  /\ timer = "idle" /\ ~stopped
  /\ timer' = "drain"
  /\ IF msg = NoMessage /\ "msg" \notin {statics[i] : i \in DOMAIN statics}
       THEN statics' = Append(statics, "msg") ELSE UNCHANGED statics
  /\ UNCHANGED <<inputs, main, loading, sending, stopped, early, released, msg, devices, round, crashed>>

\* std::map::insert keeps what is there; erase goes by the key alone.
insert(k, m) ==
  IF k \in DOMAIN devices THEN devices
                          ELSE [j \in DOMAIN devices \cup {k} |-> IF j = k THEN m ELSE devices[j]]
erase_Nothing(k) == devices
erase(k) == [j \in DOMAIN devices \ {k} |-> devices[j]]

\* dequeue moves the message out and lets go of the last one's device ...
Dequeue ==
  /\ timer = "drain"
  /\ queue # <<>>
  /\ IF msg = DeadObject
       THEN crashed' = TRUE /\ UNCHANGED <<queue, msg, timer>>
       ELSE /\ msg' = Head(queue)
            /\ queue' = Tail(queue)
            /\ timer' = "apply"
            /\ UNCHANGED crashed
  /\ UNCHANGED <<inputs, main, loading, asked, wanted, lost, removes, ending, devices, round>>

\* ... and the switch applies it.
ApplyMessage ==
  /\ timer = "apply"
  /\ IF msg = DeadObject
       THEN crashed' = TRUE /\ UNCHANGED <<devices, timer>>
       ELSE /\ devices' = IF msg.opt = "create" THEN insert(key[msg.vd], msg.vd) ELSE erase(key[msg.vd])
            /\ timer' = "drain"
            /\ UNCHANGED crashed
  /\ UNCHANGED <<inputs, main, loading, sending, ending, msg, round>>

QueueEmpty ==
  /\ timer = "drain"
  /\ queue = <<>>
  /\ round' = DOMAIN devices
  /\ timer' = "color"
  /\ UNCHANGED <<inputs, main, loading, sending, ending, msg, devices, crashed>>

\* get_writable_data_address returns no block: every lock is dead, or no frame of the
\* ring is older than this tick (SharedBuffer).  Nothing gets the thread out again.
SearchSpins ==
  /\ timer \in {"color", "depth"}
  /\ round # {}
  /\ timer' = "spin"
  /\ UNCHANGED <<inputs, main, loading, sending, ending, msg, devices, round, crashed>>

\* Or it returns one.  std::map is walked in the order of its keys.
AcquireColor ==
  /\ timer = "color"
  /\ round # {}
  /\ IF HasColorReader(devices[Least(round)])
       THEN timer' = "depth" /\ UNCHANGED crashed
       ELSE crashed' = TRUE /\ UNCHANGED timer
  /\ UNCHANGED <<inputs, main, loading, sending, ending, msg, devices, round>>

AcquireDepth ==
  /\ timer = "depth"
  /\ IF HasDepthReader(devices[Least(round)])
       THEN timer' = "color" /\ round' = round \ {Least(round)} /\ UNCHANGED crashed
       ELSE crashed' = TRUE /\ UNCHANGED <<timer, round>>
  /\ UNCHANGED <<inputs, main, loading, sending, ending, msg, devices>>

TickEnds_OneShot ==
  /\ timer = "color"
  /\ round = {}
  /\ timer' = "stopped"
  /\ UNCHANGED <<inputs, main, loading, sending, ending, msg, devices, round, crashed>>
TickEnds ==
  /\ timer = "color"
  /\ round = {}
  /\ timer' = "idle"
  /\ UNCHANGED <<inputs, main, loading, sending, ending, msg, devices, round, crashed>>

-----------------------------------------------------------------------------
Init ==
  /\ fault \in [Modules -> Faults]
  /\ broken \in [Modules -> {0} \cup BadSteps]
  /\ \A m \in Modules : broken[m] # 0 => fault[m] = "none"  \* one thing wrong with a device
  /\ key \in [Modules -> Keys]
  /\ capacity \in 1 .. Capacity
  /\ \E m \in Modules : key[m] = Least(Keys)  \* only their order matters
  /\ stop_waits \in BOOLEAN
  /\ main = "scan" /\ module = NoModule /\ todo = Modules
  /\ step = [m \in Modules |-> 1]
  /\ state = [m \in Modules |-> "unloaded"]
  /\ buffers = {} /\ opened = {}
  /\ timer = "none" /\ queue = <<>> /\ devices = <<>> /\ round = {} /\ msg = NoMessage
  /\ statics = <<>> /\ stopped = FALSE /\ early = FALSE /\ released = FALSE
  /\ removes = 0 /\ asked = {} /\ wanted = {} /\ lost = {} /\ crashed = FALSE

MainStep ==
  \/ NextModule \/ LoadModule \/ CallEntryPoint \/ OpenStep \/ MakeBuffers
  \/ StartManager \/ RegisterManager \/ SendCreate \/ OpenGateway
  \/ ReleaseStop \/ ReleaseClear
  \/ DestroyStatic \/ DtorStop \/ DestroyManager \/ Exit
TimerStep ==
  Dequeue \/ ApplyMessage \/ QueueEmpty \/ SearchSpins \/ AcquireColor \/ AcquireDepth \/ TickEnds

Next ==
  /\ ~crashed /\ main # "gone"
  /\ \/ MainStep
     \/ \E m \in Modules : SendRemove(m)
     \/ Release
     \/ Leave
     \/ OnTimer
     \/ TimerStep

Spec == Init /\ [][Next]_vars

\* main runs on, and the timer fires again and again.  The user need not leave.
Running == ~crashed /\ main # "gone"
FairSpec ==
  /\ Spec
  /\ WF_vars(Running /\ MainStep)
  /\ WF_vars(Running /\ OnTimer)
  /\ WF_vars(Running /\ TimerStep)

-----------------------------------------------------------------------------
TypeOK ==
  /\ capacity \in 1 .. Capacity /\ stop_waits \in BOOLEAN
  /\ main \in {"scan", "load", "entry", "open", "buffers", "send", "register", "gateway", "online",
               "stop", "clear", "leave", "dtor", "members", "gone"}
  /\ module \in Modules \cup {NoModule} /\ todo \subseteq Modules
  /\ step \in [Modules -> 1 .. 10]
  /\ state \in [Modules -> {"unloaded", "opened"}]
  /\ buffers \subseteq Modules /\ opened \subseteq Modules
  /\ asked \subseteq Modules /\ wanted \subseteq Keys /\ lost \subseteq Modules
  /\ statics \in Seq({"frdmgr", "msg", "gateway"}) /\ Len(statics) <= 3
  /\ timer \in {"none", "idle", "drain", "apply", "color", "depth", "spin"}
  /\ msg \in [opt : {"create", "remove"}, vd : Modules] \cup {NoMessage, DeadObject}
  /\ queue \in Seq([opt : {"create", "remove"}, vd : Modules]) /\ Len(queue) <= capacity
  /\ DOMAIN devices \subseteq Keys /\ \A k \in DOMAIN devices : devices[k] \in Modules
  /\ removes \in 0 .. MaxRemove
  /\ {stopped, early, released, crashed} \subseteq BOOLEAN

Served == {devices[k] : k \in DOMAIN devices}

\* virtual_device.cpp:20-70 against frdmgr.cpp:74-97: while main is still loading,
\* the timer thread never serves a device whose constructor has not finished.
ServedIsComplete ==
  \A m \in Served : m \in buffers /\ m \notin todo /\ (m = module => main \notin {"load", "entry", "open", "buffers"})

\* frdmgr.cpp:25-72: messages are applied once and in order.  While a tick serves its
\* devices, less what still waits in the queue, each was last asked for, and there is
\* one under exactly the keys whose last message was create: also with equal keys, where
\* a remove takes away the other device, and when messages found the queue full, which
\* then have no effect at all (but a tick that stop did not wait for may put a device
\* back into a map just cleared).
MapFollowsMessages ==
  (stopped => stop_waits) /\ timer \in {"color", "depth"} =>
    /\ \A m \in Served : m \in asked \/ \E j \in 1 .. Len(queue) : queue[j].vd = m
    /\ \A k \in Keys :
         \/ k \in DOMAIN devices <=> k \in wanted
         \/ \E j \in 1 .. Len(queue) : key[queue[j].vd] = k

\* The main thread has returned from main.
Leaving == main \in {"leave", "dtor", "members", "gone"}

\* The process dies of a missing entry point (virtual_device.cpp:38 tests the module's
\* handle, so the error of :40 is never reported), of a reader that open did not get,
\* of a stop() that returns while a tick still runs, or of messages not yet consumed
\* when main returned, and of nothing else: no other order of main's and the timer's
\* steps, and of the statics' destruction (frdmgr.cpp:7-10, 21, 49), touches what is
\* not there yet or any more.
DiesOnlyOf ==
  crashed => \/ main = "entry" /\ fault[module] = "no_entry_point"
             \/ \E m \in Served : broken[m] \in 1 .. 7
             \/ ~stop_waits /\ stopped
             \/ early /\ Leaving

\* frdmgr.cpp:107-112: when stop() waits for the tick, force_release_all_devices leaves
\* no device behind, and none comes back by a message that was still on its way.
ReleaseIsFinal == released /\ stop_waits => devices = <<>>

\* Every device that came up is served in the end, or the one that has its key,
\* although files after it failed; unless its message was lost, the timer's search
\* spins, the process dies, is left or told to stop, or a device is removed.
DeviceServed ==
  \A m \in Modules :
    (m \in opened) ~> \/ key[m] \in DOMAIN devices
                      \/ m \in lost \/ timer = "spin"
                      \/ removes > 0 \/ crashed \/ stopped \/ Leaving

\* A module that cannot be loaded does not keep main from opening the gateway.
GatewayOpens == <>(main = "online" \/ crashed)

\* fwmain.cpp:26-36: when the user leaves, the process ends: of all that the timer
\* thread may be doing, only a search that spins keeps a destructor waiting for ever,
\* and only if stop() waits for it.
ExitEnds == Leaving ~> (main = "gone" \/ crashed \/ (stop_waits /\ timer = "spin"))
=============================================================================
