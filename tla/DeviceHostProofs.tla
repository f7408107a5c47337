-------------------------- MODULE DeviceHostProofs --------------------------
(***************************************************************************)
(* Proofs about the loading, serving and release of devices, for any       *)
(* modules, faults, keys, queue and interleaving of main with the timer.   *)
(***************************************************************************)
EXTENDS DeviceHost, FiniteSetTheorems, SequenceTheorems, WellFoundedInduction, TLAPS

Constructing == {"load", "entry", "open", "buffers"}
Submitting      == {"send", "register"}
Entries      == [opt : {"create", "remove"}, vd : Modules]

\* The part of TypeOK the arguments below need.
Typed ==
  /\ broken \in [Modules -> {0} \cup BadSteps] /\ key \in [Modules -> Keys]
  /\ capacity \in 1 .. Capacity
  /\ {stop_waits, stopped, early, released, crashed} \subseteq BOOLEAN
  /\ module \in Modules \cup {NoModule} /\ todo \subseteq Modules
  /\ step \in [Modules -> 1 .. 10]
  /\ buffers \subseteq Modules /\ opened \subseteq Modules
  /\ asked \subseteq Modules /\ wanted \subseteq Keys /\ lost \subseteq Modules
  /\ timer \in {"none", "idle", "drain", "apply", "color", "depth", "spin"}
  /\ msg \in Entries \cup {NoMessage, DeadObject}
  /\ timer = "apply" => msg # NoMessage
  /\ queue \in Seq(Entries)
  /\ removes \in 0 .. MaxRemove
  /\ DOMAIN devices \subseteq Keys /\ \A k \in DOMAIN devices : devices[k] \in Modules

\* kinect2::open went through, or stopped at the step that fails.
OpenEnded(m) == step[m] = 10 \/ step[m] = broken[m]

\* The constructor of m's virtual_device has returned.
Complete(m) ==
  /\ m \in buffers /\ m \notin todo
  /\ m = module => main \notin Constructing
  /\ OpenEnded(m)

\* The device main works on.
Working ==
  /\ \A m \in todo : step[m] = 1
  /\ main \in Constructing \cup Submitting => module \in Modules /\ module \notin todo
  /\ main \in {"load", "entry"} => step[module] = 1
  /\ main = "open" => step[module] <= 9
  /\ main = "buffers" => OpenEnded(module)
  /\ main \in Submitting => Complete(module)

\* Only finished devices are sent, and so kept.
Completed == {m \in Modules : Complete(m)}

AllComplete ==
  /\ opened \subseteq Completed
  /\ \A j \in 1 .. Len(queue) : queue[j].vd \in Completed
  /\ msg \in Entries => msg.vd \in Completed
  /\ \A k \in DOMAIN devices : devices[k] \in Completed

\* The timer is stopped before the map is cleared, and stays so.
StopOrder ==
  /\ main \in {"clear", "members"} => stopped
  /\ released => stopped
  /\ released /\ stop_waits => ~TickRuns /\ devices = <<>>
  /\ stopped /\ ~Leaving /\ main # "clear" => released

\* A tick walks over devices of the map.
RoundInMap == timer \in {"color", "depth"} /\ ~crashed =>
  round \subseteq DOMAIN devices /\ (timer = "depth" => round # {})

\* After main has returned, messages are only consumed if some were left over.
LeftOver ==
  /\ msg = DeadObject => Leaving
  /\ Leaving /\ ~early => \/ queue = <<>> /\ timer # "apply"
                          \/ stopped /\ (stop_waits => ~TickRuns)

IInv ==
  /\ Typed /\ Working /\ AllComplete
  /\ StopOrder /\ RoundInMap /\ LeftOver /\ DiesOnlyOf

USE FaultsAssumption, HostAssumption DEF inputs, loading, sending, ending, ticking, Goto

\* Every set of numbers that is not empty has a least member: the choice is one.
LEMMA LeastIsMember ==
  ASSUME NEW S \in SUBSET Nat, S # {}
  PROVE  Least(S) \in S
<1>1. PICK k \in S : \A j \in S : ~ (<<j, k>> \in OpToRel(<, Nat))
  BY NatLessThanWellFounded, WFMin
<1>2. ASSUME NEW j \in S, j < k PROVE FALSE
  <2>1. <<j, k>> \in OpToRel(<, Nat)
    BY <1>2 DEF OpToRel
  <2> QED BY <1>1, <2>1
<1>3. \A j \in S : k <= j
  BY <1>2
<1> QED BY <1>3 DEF Least

\* enqueue appends the message, or changes nothing but lost.
LEMMA EnqueueEffect ==
  ASSUME Typed, NEW opt \in {"create", "remove"}, NEW m \in Modules, Enqueue(opt, m)
  PROVE  /\ queue' \in Seq(Entries)
         /\ queue' = queue \/ (queue' = Append(queue, [opt |-> opt, vd |-> m]) /\ Room)
         /\ asked' \subseteq Modules /\ wanted' \subseteq Keys /\ lost' \subseteq Modules
<1>1. [opt |-> opt, vd |-> m] \in Entries /\ key[m] \in Keys
  BY DEF Entries, Typed
<1>2. queue \in Seq(Entries) /\ asked \subseteq Modules /\ wanted \subseteq Keys /\ lost \subseteq Modules
  BY DEF Typed
<1>3. Append(queue, [opt |-> opt, vd |-> m]) \in Seq(Entries)
  BY <1>1, <1>2
<1>4. CASE Room
  <2>1. /\ queue' = Append(queue, [opt |-> opt, vd |-> m]) /\ lost' = lost
        /\ asked' = After(asked, opt, m) /\ wanted' = After(wanted, opt, key[m])
    BY <1>4 DEF Enqueue
  <2>2. asked' \subseteq Modules /\ wanted' \subseteq Keys
    BY <1>1, <1>2, <2>1 DEF After
  <2> QED BY <1>2, <1>3, <1>4, <2>1, <2>2
<1>5. CASE ~Room
  <2>1. queue' = queue /\ lost' = lost \cup {m} /\ asked' = asked /\ wanted' = wanted
    BY <1>5 DEF Enqueue
  <2> QED BY <1>2, <2>1
<1> QED BY <1>4, <1>5

\* The map after a message: of its devices, one may be new.
LEMMA MapEffect ==
  ASSUME Typed, NEW k \in Keys, NEW m \in Modules
  PROVE  /\ DOMAIN insert(k, m) \subseteq Keys
         /\ \A j \in DOMAIN insert(k, m) :
              insert(k, m)[j] = m \/ (j \in DOMAIN devices /\ insert(k, m)[j] = devices[j])
         /\ DOMAIN erase(k) \subseteq Keys
         /\ \A j \in DOMAIN erase(k) : j \in DOMAIN devices /\ erase(k)[j] = devices[j]
<1>1. CASE k \in DOMAIN devices
  <2>1. insert(k, m) = devices
    BY <1>1 DEF insert
  <2> QED BY <2>1 DEF Typed, erase
<1>2. CASE k \notin DOMAIN devices
  <2>1. insert(k, m) = [j \in DOMAIN devices \cup {k} |-> IF j = k THEN m ELSE devices[j]]
    BY <1>2 DEF insert
  <2> QED BY <2>1 DEF Typed, erase
<1> QED BY <1>1, <1>2

\* A message keeps the map's keys and devices what they are.
LEMMA MapTyped ==
  ASSUME Typed, NEW k \in Keys, NEW m \in Modules
  PROVE  /\ DOMAIN insert(k, m) \subseteq Keys /\ DOMAIN erase(k) \subseteq Keys
         /\ \A j \in DOMAIN insert(k, m) : insert(k, m)[j] \in Modules
         /\ \A j \in DOMAIN erase(k) : erase(k)[j] \in Modules
<1>1. \A j \in DOMAIN devices : devices[j] \in Modules
  BY DEF Typed
<1> QED BY <1>1, MapEffect

\* The initial state satisfies the inductive invariant.
LEMMA InitIInv == Init => IInv
<1> SUFFICES ASSUME Init PROVE IInv
  OBVIOUS
<1> USE DEF Init, NoModule, NoMessage, DeadObject, Entries
<1>1. Typed
  <2>1. queue \in Seq(Entries) /\ DOMAIN devices = {}
    OBVIOUS
  <2>2. removes \in 0 .. MaxRemove /\ step \in [Modules -> 1 .. 10]
    OBVIOUS
  <2>3. msg \in Entries \cup {NoMessage, DeadObject}
    OBVIOUS
  <2> QED BY <2>1, <2>2, <2>3 DEF Typed
<1>2. msg \notin Entries
  OBVIOUS
<1>3. Working /\ AllComplete
  BY <1>2 DEF Working, AllComplete, Constructing, Submitting
<1>4. StopOrder /\ RoundInMap /\ LeftOver /\ DiesOnlyOf
  BY DEF StopOrder, RoundInMap, LeftOver, DiesOnlyOf, Leaving
<1> QED BY <1>1, <1>3, <1>4 DEF IInv

\* A device once finished stays finished.
LEMMA CompleteKept ==
  ASSUME Typed, Working, Next, NEW m \in Modules, Complete(m)
  PROVE  Complete(m)'
<1> USE DEF Complete, OpenEnded, Constructing, Submitting
<1>1. CASE NextModule
  <2>1. CASE todo = {}
    BY <1>1, <2>1 DEF NextModule
  <2>2. CASE todo # {}
    <3>1. Least(todo) \in todo
      BY <2>2, LeastIsMember DEF Typed
    <3>2. m # Least(todo)
      BY <3>1
    <3> QED BY <1>1, <2>2, <3>2 DEF NextModule
  <2> QED BY <2>1, <2>2
<1>2. CASE OpenStep
  BY <1>2 DEF OpenStep, Typed
<1>3. CASE LoadModule \/ CallEntryPoint \/ MakeBuffers
  BY <1>3 DEF LoadModule, CallEntryPoint, MakeBuffers
<1>4. CASE StartManager \/ RegisterManager \/ SendCreate \/ OpenGateway
  BY <1>4 DEF StartManager, RegisterManager, SendCreate, OpenGateway
<1>5. CASE ReleaseStop \/ ReleaseClear \/ Release \/ Leave
  BY <1>5 DEF ReleaseStop, ReleaseClear, Release, Leave, Stop
<1>6. CASE DestroyStatic \/ DtorStop \/ DestroyManager \/ Exit
  BY <1>6 DEF DestroyStatic, DtorStop, DestroyManager, Exit, Stop
<1>7. ASSUME NEW n \in Modules, SendRemove(n) PROVE Complete(m)'
  BY <1>7 DEF SendRemove
<1>8. CASE OnTimer \/ TimerStep
  BY <1>8 DEF OnTimer, TimerStep, Dequeue, ApplyMessage, QueueEmpty, SearchSpins, AcquireColor, AcquireDepth, TickEnds
<1> QED BY <1>1, <1>2, <1>3, <1>4, <1>5, <1>6, <1>7, <1>8 DEF Next, MainStep

\* The construction of a device goes through its stages in order.
LEMMA WorkingStep ==
  ASSUME Typed, Working, AllComplete, Next PROVE Working'
<1> USE DEF Working, Complete, OpenEnded, Constructing, Submitting
<1>1. CASE NextModule
  <2>1. CASE todo = {}
    BY <1>1, <2>1 DEF NextModule
  <2>2. CASE todo # {}
    <3>1. Least(todo) \in todo
      BY <2>2, LeastIsMember DEF Typed
    <3> QED BY <1>1, <2>2, <3>1 DEF NextModule, Typed
  <2> QED BY <2>1, <2>2
<1>2. CASE LoadModule
  BY <1>2 DEF LoadModule, AfterException
<1>3. CASE CallEntryPoint
  BY <1>3 DEF CallEntryPoint
<1>4. CASE OpenStep
  <2> USE <1>4 DEF OpenStep
  <2>1. module \in Modules /\ module \notin todo /\ step[module] \in 1 .. 9 /\ main = "open"
    <3>1. main = "open"
      OBVIOUS
    <3>2. module \in Modules /\ module \notin todo /\ step[module] <= 9
      BY <3>1
    <3>3. step[module] \in 1 .. 10
      BY <3>2 DEF Typed
    <3> QED BY <3>1, <3>2, <3>3
  <2>2. \A m \in todo' : step'[m] = 1
    BY <2>1 DEF Typed
  <2>3. CASE step[module] = broken[module]
    BY <2>1, <2>2, <2>3
  <2>4. CASE step[module] # broken[module]
    <3>1. step'[module] = step[module] + 1
      BY <2>1, <2>4 DEF Typed
    <3>2. step[module] + 1 # 10 => OpenSteps[step[module] + 1] # "opened"
      BY <2>1 DEF OpenSteps
    <3>3. OpenSteps[10] = "opened"
      BY DEF OpenSteps
    <3>4. main' = "open" => step'[module] <= 9
      <4>1. SUFFICES ASSUME main' = "open" PROVE step[module] # 9
        BY <2>1, <3>1
      <4>2. OpenSteps[step[module] + 1] # "opened"
        BY <4>1, <2>4
      <4> QED BY <4>2, <3>3
    <3>5. main' = "buffers" => step'[module] = 10
      <4>1. SUFFICES ASSUME main' = "buffers" PROVE step[module] + 1 = 10
        BY <3>1
      <4>2. OpenSteps[step[module] + 1] = "opened"
        BY <4>1, <2>1, <2>4
      <4> QED BY <4>2, <3>2
    <3> QED BY <2>1, <2>2, <2>4, <3>4, <3>5
  <2> QED BY <2>3, <2>4
<1>5. CASE MakeBuffers
  BY <1>5 DEF MakeBuffers, AfterException
<1>6. CASE StartManager \/ RegisterManager \/ SendCreate \/ OpenGateway
  BY <1>6 DEF StartManager, RegisterManager, SendCreate, OpenGateway
<1>7. CASE ReleaseStop \/ ReleaseClear \/ Release \/ Leave
  BY <1>7 DEF ReleaseStop, ReleaseClear, Release, Leave, Stop
<1>8. CASE DestroyStatic \/ DtorStop \/ DestroyManager \/ Exit
  BY <1>8 DEF DestroyStatic, DtorStop, DestroyManager, Exit, Stop
<1>9. ASSUME NEW n \in Modules, SendRemove(n) PROVE Working'
  BY <1>9 DEF SendRemove
<1>10. CASE OnTimer \/ TimerStep
  BY <1>10 DEF OnTimer, TimerStep, Dequeue, ApplyMessage, QueueEmpty, SearchSpins, AcquireColor, AcquireDepth, TickEnds
<1> QED BY <1>1, <1>2, <1>3, <1>4, <1>5, <1>6, <1>7, <1>8, <1>9, <1>10 DEF Next, MainStep

\* No step leaves the types.
LEMMA TypedStep ==
  ASSUME Typed, Working, AllComplete, Next PROVE Typed'
<1> USE DEF Typed
<1>1. CASE NextModule
  <2>1. todo # {} => Least(todo) \in todo
    BY LeastIsMember
  <2> QED BY <1>1, <2>1 DEF NextModule
<1>2. CASE LoadModule \/ CallEntryPoint
  BY <1>2 DEF LoadModule, CallEntryPoint
<1>3. CASE OpenStep
  <2>1. module \in Modules /\ step[module] <= 9
    BY <1>3 DEF OpenStep, Working, Constructing
  <2>2. step[module] + 1 \in 1 .. 10
    BY <2>1
  <2>3. step' = step \/ step' = [step EXCEPT ![module] = step[module] + 1]
    BY <1>3 DEF OpenStep
  <2>4. step' \in [Modules -> 1 .. 10]
    BY <2>2, <2>3
  <2> QED BY <1>3, <2>4 DEF OpenStep
<1>4. CASE MakeBuffers
  <2>1. module \in Modules
    BY <1>4 DEF MakeBuffers, Working, Constructing
  <2> QED BY <1>4, <2>1 DEF MakeBuffers
<1>5. CASE StartManager \/ RegisterManager \/ OpenGateway
  BY <1>5 DEF StartManager, RegisterManager, OpenGateway
<1>6. CASE SendCreate
  <2>1. module \in Modules
    BY <1>6 DEF SendCreate, Working, Submitting
  <2> QED BY <1>6, <2>1, EnqueueEffect DEF SendCreate
<1>7. ASSUME NEW m \in Modules, SendRemove(m) PROVE Typed'
  <2>1. removes' \in 0 .. MaxRemove
    BY <1>7 DEF SendRemove
  <2>2. Enqueue("remove", m)
    BY <1>7 DEF SendRemove
  <2>3. queue' \in Seq(Entries) /\ asked' \subseteq Modules /\ wanted' \subseteq Keys /\ lost' \subseteq Modules
    BY <2>2, EnqueueEffect
  <2> QED BY <1>7, <2>1, <2>3 DEF SendRemove
<1>8. CASE ReleaseStop \/ ReleaseClear \/ Release \/ Leave \/ DtorStop
  <2>1. DOMAIN <<>> = {}
    OBVIOUS
  <2>2. CASE ReleaseClear
    <3>1. crashed' \in BOOLEAN /\ released' \in BOOLEAN
      BY <2>2 DEF ReleaseClear
    <3>2. DOMAIN devices' = {}
      BY <2>1, <2>2 DEF ReleaseClear
    <3> QED BY <2>2, <3>1, <3>2 DEF ReleaseClear
  <2>3. CASE Leave
    <3>1. early' \in BOOLEAN
      BY <2>3 DEF Leave
    <3> QED BY <2>3, <3>1 DEF Leave
  <2>4. CASE ReleaseStop \/ Release \/ DtorStop
    BY <2>4 DEF ReleaseStop, Release, DtorStop, Stop
  <2> QED BY <1>8, <2>2, <2>3, <2>4
<1>9. CASE DestroyStatic \/ DestroyManager \/ Exit
  <2>1. DOMAIN <<>> = {} /\ <<>> \in Seq(Entries)
    OBVIOUS
  <2>2. CASE DestroyManager
    <3>1. crashed' \in BOOLEAN
      BY <2>2 DEF DestroyManager, TickRuns
    <3>2. DOMAIN devices' = {} /\ queue' \in Seq(Entries)
      BY <2>1, <2>2 DEF DestroyManager
    <3> QED BY <2>2, <3>1, <3>2 DEF DestroyManager
  <2>3. CASE DestroyStatic
    <3>1. DeadObject # NoMessage
      BY DEF DeadObject, NoMessage
    <3> QED BY <2>3, <3>1 DEF DestroyStatic
  <2>4. CASE Exit
    BY <2>4 DEF Exit
  <2> QED BY <1>9, <2>2, <2>3, <2>4
<1>10. CASE OnTimer
  BY <1>10 DEF OnTimer
<1>11. CASE Dequeue
  <2>1. CASE msg = DeadObject
    BY <1>11, <2>1 DEF Dequeue
  <2>2. CASE msg # DeadObject
    <3>1. Head(queue) \in Entries /\ Tail(queue) \in Seq(Entries)
      BY <1>11 DEF Dequeue
    <3>2. NoMessage \notin Entries
      BY DEF NoMessage, Entries
    <3> QED BY <1>11, <2>2, <3>1, <3>2 DEF Dequeue
  <2> QED BY <2>1, <2>2
<1>12. CASE ApplyMessage
  <2>1. CASE msg = DeadObject
    BY <1>12, <2>1 DEF ApplyMessage
  <2>2. CASE msg # DeadObject
    <3>1. msg \in Entries
      BY <1>12, <2>2 DEF ApplyMessage
    <3>2. msg.vd \in Modules /\ key[msg.vd] \in Keys
      BY <3>1 DEF Entries
    <3>3. DOMAIN devices' \subseteq Keys /\ \A k \in DOMAIN devices' : devices'[k] \in Modules
      BY <1>12, <2>2, <3>2, MapTyped DEF ApplyMessage
    <3> QED BY <1>12, <2>2, <3>3 DEF ApplyMessage
  <2> QED BY <2>1, <2>2
<1>13. CASE QueueEmpty \/ TickEnds
  BY <1>13 DEF QueueEmpty, TickEnds
<1>14. CASE SearchSpins \/ AcquireColor \/ AcquireDepth
  BY <1>14 DEF SearchSpins, AcquireColor, AcquireDepth
<1> QED BY <1>1, <1>2, <1>3, <1>4, <1>5, <1>6, <1>7, <1>8, <1>9, <1>10, <1>11, <1>12, <1>13, <1>14
     DEF Next, MainStep, TimerStep

\* Only finished devices are sent, so queue, message and map hold no others.
LEMMA AllCompleteStep ==
  ASSUME Typed, Working, AllComplete, Next PROVE AllComplete'
<1>1. Completed \subseteq Completed'
  BY CompleteKept DEF Completed
<1>2. opened \subseteq Completed'
  BY <1>1 DEF AllComplete
<1>3. \A j \in 1 .. Len(queue) : queue[j].vd \in Completed'
  BY <1>1 DEF AllComplete
<1>4. msg \in Entries => msg.vd \in Completed'
  BY <1>1 DEF AllComplete
<1>5. \A k \in DOMAIN devices : devices[k] \in Completed'
  BY <1>1 DEF AllComplete
<1>6. ASSUME opened' = opened, queue' = queue, msg' = msg, devices' = devices PROVE AllComplete'
  BY <1>2, <1>3, <1>4, <1>5, <1>6 DEF AllComplete
<1>7. ASSUME NEW opt \in {"create", "remove"}, NEW m \in Modules, Enqueue(opt, m), m \in Completed',
             opened' = opened, msg' = msg, devices' = devices
      PROVE  AllComplete'
  <2>2. \A j \in 1 .. Len(queue') : queue'[j].vd \in Completed'
    <3>1. CASE queue' = queue
      BY <1>3, <3>1
    <3>2. CASE queue' = Append(queue, [opt |-> opt, vd |-> m])
      <4>1. [opt |-> opt, vd |-> m] \in Entries /\ queue \in Seq(Entries)
        BY DEF Entries, Typed
      <4>2. Len(queue') = Len(queue) + 1 /\ queue'[Len(queue) + 1] = [opt |-> opt, vd |-> m]
        BY <3>2, <4>1
      <4>3. \A j \in 1 .. Len(queue) : queue'[j] = queue[j]
        BY <3>2, <4>1
      <4>4. \A j \in 1 .. Len(queue') : j \in 1 .. Len(queue) \/ queue'[j].vd = m
        BY <4>1, <4>2
      <4> QED BY <1>3, <1>7, <4>3, <4>4
    <3> QED BY <1>7, <3>1, <3>2, EnqueueEffect
  <2> QED BY <1>2, <1>4, <1>5, <1>7, <2>2 DEF AllComplete
<1>8. CASE SendCreate
  <2>1. module \in Modules /\ module \in Completed'
    BY <1>1, <1>8 DEF SendCreate, Working, Submitting, Completed
  <2> QED BY <1>7, <1>8, <2>1 DEF SendCreate
<1>9. ASSUME NEW m \in Modules, SendRemove(m) PROVE AllComplete'
  <2>1. m \in Completed'
    BY <1>2, <1>9 DEF SendRemove
  <2>2. Enqueue("remove", m) /\ opened' = opened /\ msg' = msg /\ devices' = devices
    BY <1>9 DEF SendRemove
  <2> QED BY <1>7, <2>1, <2>2
<1>10. CASE NextModule \/ LoadModule \/ CallEntryPoint \/ OpenStep
  <2>1. opened' = opened /\ queue' = queue /\ msg' = msg /\ devices' = devices
    BY <1>10 DEF NextModule, LoadModule, CallEntryPoint, OpenStep
  <2> QED BY <1>6, <2>1
<1>19. CASE MakeBuffers
  <2>1. queue' = queue /\ msg' = msg /\ devices' = devices
    BY <1>19 DEF MakeBuffers
  <2>2. opened' \subseteq Completed'
    <3>1. CASE opened' = opened
      BY <1>2, <3>1
    <3>2. CASE opened' # opened
      <4>1. opened' = opened \cup {module} /\ main' = "send" /\ module' = module
        BY <1>19, <3>2 DEF MakeBuffers
      <4>2. module \in Modules
        BY <1>19 DEF MakeBuffers, Working, Constructing
      <4>3. Working'
        BY WorkingStep
      <4>4. module \in Completed'
        BY <4>1, <4>2, <4>3 DEF Working, Submitting, Completed
      <4> QED BY <1>2, <4>1, <4>4
    <3> QED BY <3>1, <3>2
  <2> QED BY <1>3, <1>4, <1>5, <2>1, <2>2 DEF AllComplete
<1>11. CASE StartManager \/ RegisterManager \/ OpenGateway
  <2>1. opened' = opened /\ queue' = queue /\ msg' = msg /\ devices' = devices
    BY <1>11 DEF StartManager, RegisterManager, OpenGateway
  <2> QED BY <1>6, <2>1
<1>12. CASE ReleaseStop \/ Release \/ Leave \/ DtorStop \/ Exit
  <2>1. opened' = opened /\ queue' = queue /\ msg' = msg /\ devices' = devices
    BY <1>12 DEF ReleaseStop, Release, Leave, DtorStop, Stop, Exit
  <2> QED BY <1>6, <2>1
<1>13. CASE ReleaseClear
  <2>1. opened' = opened /\ queue' = queue /\ msg' = msg /\ DOMAIN devices' = {}
    BY <1>13 DEF ReleaseClear
  <2> QED BY <1>2, <1>3, <1>4, <2>1 DEF AllComplete
<1>14. CASE DestroyManager
  <2>1. opened' = opened /\ Len(queue') = 0 /\ msg' = msg /\ DOMAIN devices' = {}
    BY <1>14 DEF DestroyManager
  <2> QED BY <1>2, <1>4, <2>1 DEF AllComplete
<1>15. CASE DestroyStatic
  <2>1. opened' = opened /\ queue' = queue /\ devices' = devices /\ (msg' = msg \/ msg' \notin Entries)
    BY <1>15 DEF DestroyStatic, DeadObject, Entries
  <2> QED BY <1>2, <1>3, <1>4, <1>5, <2>1 DEF AllComplete
<1>16. CASE OnTimer \/ QueueEmpty \/ SearchSpins \/ AcquireColor \/ AcquireDepth \/ TickEnds
  <2>1. opened' = opened /\ queue' = queue /\ msg' = msg /\ devices' = devices
    BY <1>16 DEF OnTimer, QueueEmpty, SearchSpins, AcquireColor, AcquireDepth, TickEnds
  <2> QED BY <1>6, <2>1
<1>17. CASE Dequeue
  <2>1. opened' = opened /\ devices' = devices
    BY <1>17 DEF Dequeue
  <2>2. CASE msg = DeadObject
    BY <1>6, <1>17, <2>2 DEF Dequeue
  <2>3. CASE msg # DeadObject
    <3>1. queue \in Seq(Entries) /\ queue # <<>>
      BY <1>17 DEF Dequeue, Typed
    <3>2. msg' = queue[1] /\ queue' = Tail(queue)
      BY <1>17, <2>3 DEF Dequeue
    <3>3. Len(queue) \in Nat \ {0} /\ Len(queue') = Len(queue) - 1
      BY <3>1, <3>2
    <3>4. \A j \in 1 .. Len(queue') : queue'[j] = queue[j + 1] /\ j + 1 \in 1 .. Len(queue)
      BY <3>1, <3>2, <3>3
    <3>5. msg'.vd \in Completed'
      BY <1>3, <3>2, <3>3
    <3> QED BY <1>2, <1>3, <1>5, <2>1, <3>4, <3>5 DEF AllComplete
  <2> QED BY <2>2, <2>3
<1>18. CASE ApplyMessage
  <2>1. opened' = opened /\ queue' = queue /\ msg' = msg
    BY <1>18 DEF ApplyMessage
  <2>2. CASE msg = DeadObject
    BY <1>6, <1>18, <2>1, <2>2 DEF ApplyMessage
  <2>3. CASE msg # DeadObject
    <3>1. msg \in Entries
      BY <1>18, <2>3 DEF ApplyMessage, Typed
    <3>2. msg.vd \in Modules /\ key[msg.vd] \in Keys /\ msg.vd \in Completed'
      BY <1>4, <3>1 DEF Entries, Typed
    <3>3. \A k \in DOMAIN insert(key[msg.vd], msg.vd) : insert(key[msg.vd], msg.vd)[k] \in Completed'
      BY <1>5, <3>2, MapEffect
    <3>4. \A k \in DOMAIN erase(key[msg.vd]) : erase(key[msg.vd])[k] \in Completed'
      BY <1>5, <3>2, MapEffect
    <3>5. devices' = insert(key[msg.vd], msg.vd) \/ devices' = erase(key[msg.vd])
      BY <1>18, <2>3 DEF ApplyMessage
    <3>6. \A k \in DOMAIN devices' : devices'[k] \in Completed'
      BY <3>3, <3>4, <3>5
    <3> QED BY <1>2, <1>3, <1>4, <2>1, <3>6 DEF AllComplete
  <2> QED BY <2>2, <2>3
<1> QED BY <1>8, <1>9, <1>10, <1>11, <1>12, <1>13, <1>14, <1>15, <1>16, <1>17, <1>18, <1>19
     DEF Next, MainStep, TimerStep

\* The timer stays stopped, and with it the map that was cleared stays empty.
LEMMA StopOrderStep ==
  ASSUME Typed, StopOrder, Next PROVE StopOrder'
<1> USE DEF StopOrder, TickRuns, Leaving
<1>1. CASE NextModule \/ LoadModule \/ CallEntryPoint \/ OpenStep \/ MakeBuffers
  BY <1>1 DEF NextModule, LoadModule, CallEntryPoint, OpenStep, MakeBuffers, AfterException
<1>2. CASE StartManager \/ RegisterManager \/ SendCreate \/ OpenGateway
  BY <1>2 DEF StartManager, RegisterManager, SendCreate, OpenGateway
<1>3. CASE ReleaseStop \/ Release \/ Leave \/ DtorStop
  BY <1>3 DEF ReleaseStop, Release, Leave, DtorStop, Stop
<1>4. CASE ReleaseClear
  BY <1>4 DEF ReleaseClear
<1>5. CASE DestroyStatic \/ DestroyManager \/ Exit
  BY <1>5 DEF DestroyStatic, DestroyManager, Exit
<1>6. ASSUME NEW m \in Modules, SendRemove(m) PROVE StopOrder'
  BY <1>6 DEF SendRemove
<1>7. CASE OnTimer
  BY <1>7 DEF OnTimer
<1>8. CASE Dequeue \/ ApplyMessage \/ QueueEmpty
  BY <1>8 DEF Dequeue, ApplyMessage, QueueEmpty
<1>9. CASE SearchSpins \/ AcquireColor \/ AcquireDepth \/ TickEnds
  BY <1>9 DEF SearchSpins, AcquireColor, AcquireDepth, TickEnds
<1> QED BY <1>1, <1>2, <1>3, <1>4, <1>5, <1>6, <1>7, <1>8, <1>9 DEF Next, MainStep, TimerStep

\* Whoever empties the map during a tick ends the process.
LEMMA RoundInMapStep ==
  ASSUME Typed, RoundInMap, Next PROVE RoundInMap'
<1> USE DEF RoundInMap, TickRuns, Next
<1>1. CASE NextModule \/ LoadModule \/ CallEntryPoint \/ OpenStep \/ MakeBuffers
  BY <1>1 DEF NextModule, LoadModule, CallEntryPoint, OpenStep, MakeBuffers
<1>2. CASE StartManager \/ RegisterManager \/ SendCreate \/ OpenGateway
  BY <1>2 DEF StartManager, RegisterManager, SendCreate, OpenGateway
<1>3. CASE ReleaseStop \/ Release \/ Leave \/ DtorStop
  BY <1>3 DEF ReleaseStop, Release, Leave, DtorStop, Stop
<1>4. CASE ReleaseClear
  BY <1>4 DEF ReleaseClear
<1>5. CASE DestroyStatic \/ DestroyManager \/ Exit
  BY <1>5 DEF DestroyStatic, DestroyManager, Exit
<1>6. ASSUME NEW m \in Modules, SendRemove(m) PROVE RoundInMap'
  BY <1>6 DEF SendRemove
<1>7. CASE OnTimer \/ Dequeue \/ ApplyMessage \/ QueueEmpty
  BY <1>7 DEF OnTimer, Dequeue, ApplyMessage, QueueEmpty
<1>8. CASE SearchSpins \/ AcquireColor \/ AcquireDepth \/ TickEnds
  BY <1>8 DEF SearchSpins, AcquireColor, AcquireDepth, TickEnds
<1> QED BY <1>1, <1>2, <1>3, <1>4, <1>5, <1>6, <1>7, <1>8 DEF MainStep, TimerStep

\* After main has returned no new messages come.
LEMMA LeftOverStep ==
  ASSUME Typed, StopOrder, LeftOver, Next PROVE LeftOver'
<1> USE DEF LeftOver, TickRuns, Leaving
<1>1. CASE NextModule \/ LoadModule \/ CallEntryPoint \/ OpenStep \/ MakeBuffers
  BY <1>1 DEF NextModule, LoadModule, CallEntryPoint, OpenStep, MakeBuffers, AfterException
<1>2. CASE StartManager \/ RegisterManager \/ SendCreate \/ OpenGateway
  BY <1>2 DEF StartManager, RegisterManager, SendCreate, OpenGateway
<1>3. CASE ReleaseStop \/ Release \/ DtorStop
  BY <1>3 DEF ReleaseStop, Release, DtorStop, Stop
<1>4. CASE Leave
  BY <1>4 DEF Leave, StopOrder
<1>5. CASE ReleaseClear
  BY <1>5 DEF ReleaseClear
<1>6. CASE DestroyStatic \/ DestroyManager \/ Exit
  BY <1>6 DEF DestroyStatic, DestroyManager, Exit
<1>7. ASSUME NEW m \in Modules, SendRemove(m) PROVE LeftOver'
  BY <1>7 DEF SendRemove
<1>8. CASE OnTimer
  BY <1>8 DEF OnTimer
<1>9. CASE Dequeue
  <2>1. msg = DeadObject \/ msg' = Head(queue)
    BY <1>9 DEF Dequeue
  <2>2. Head(queue) \in Entries
    BY <1>9 DEF Dequeue, Typed
  <2>3. DeadObject \notin Entries
    BY DEF DeadObject, Entries
  <2>4. msg' = DeadObject => Leaving'
    BY <1>9, <2>1, <2>2, <2>3 DEF Dequeue
  <2> QED BY <1>9, <2>4 DEF Dequeue
<1>10. CASE ApplyMessage
  BY <1>10 DEF ApplyMessage
<1>11. CASE QueueEmpty \/ SearchSpins \/ AcquireColor \/ AcquireDepth \/ TickEnds
  BY <1>11 DEF QueueEmpty, SearchSpins, AcquireColor, AcquireDepth, TickEnds
<1> QED BY <1>1, <1>2, <1>3, <1>4, <1>5, <1>6, <1>7, <1>8, <1>9, <1>10, <1>11 DEF Next, MainStep, TimerStep

\* A device of a tick whose open stopped before the reader asked of it.
LEMMA ReaderMissing ==
  ASSUME Typed, AllComplete, RoundInMap, ~crashed, timer \in {"color", "depth"}, round # {},
         ~HasDepthReader(devices[Least(round)])
  PROVE  \E m \in Served : broken[m] \in 1 .. 7
<1> DEFINE k == Least(round)
<1>1. round \subseteq DOMAIN devices
  BY DEF RoundInMap
<1>2. round \in SUBSET Nat
  BY <1>1 DEF Typed
<1>3. k \in DOMAIN devices
  BY <1>1, <1>2, LeastIsMember
<1>4. devices[k] \in Modules /\ devices[k] \in Served
  BY <1>3 DEF Typed, Served
<1>5. step[devices[k]] = 10 \/ step[devices[k]] = broken[devices[k]]
  BY <1>3 DEF AllComplete, Completed, Complete, OpenEnded
<1>6. step[devices[k]] \in 1 .. 10 /\ ~ step[devices[k]] > 7
  BY <1>4 DEF Typed, HasDepthReader
<1>7. broken[devices[k]] \in 1 .. 7
  BY <1>5, <1>6
<1> QED BY <1>4, <1>7

\* Every step that kills the process does so for one of the reasons named.
LEMMA DiesOnlyOfStep ==
  ASSUME Typed, Working, AllComplete, StopOrder, RoundInMap, LeftOver, Next
  PROVE  DiesOnlyOf'
<1> USE DEF DiesOnlyOf
<1>0. ~crashed
  BY DEF Next
<1>1. CASE CallEntryPoint
  BY <1>0, <1>1 DEF CallEntryPoint
<1>2. CASE ReleaseClear
  BY <1>2 DEF ReleaseClear, StopOrder, TickRuns
<1>3. CASE DestroyManager
  BY <1>3 DEF DestroyManager, StopOrder, TickRuns
<1>4. CASE Dequeue
  <2>1. CASE msg = DeadObject
    BY <1>4, <2>1 DEF Dequeue, LeftOver, TickRuns, Leaving
  <2>2. CASE msg # DeadObject
    BY <1>0, <1>4, <2>2 DEF Dequeue
  <2> QED BY <2>1, <2>2
<1>5. CASE ApplyMessage
  <2>1. CASE msg = DeadObject
    BY <1>5, <2>1 DEF ApplyMessage, LeftOver, TickRuns, Leaving
  <2>2. CASE msg # DeadObject
    BY <1>0, <1>5, <2>2 DEF ApplyMessage
  <2> QED BY <2>1, <2>2
<1>6. CASE AcquireColor
  <2>1. CASE HasColorReader(devices[Least(round)])
    BY <1>0, <1>6, <2>1 DEF AcquireColor
  <2>2. CASE ~HasColorReader(devices[Least(round)])
    <3>1. devices[Least(round)] \in Modules
      <4>1. round \subseteq DOMAIN devices /\ round # {}
        BY <1>0, <1>6 DEF AcquireColor, RoundInMap
      <4>2. Least(round) \in round
        BY <4>1, LeastIsMember DEF Typed
      <4> QED BY <4>1, <4>2 DEF Typed
    <3>2. ~HasDepthReader(devices[Least(round)])
      <4>1. step[devices[Least(round)]] \in 1 .. 10
        BY <3>1 DEF Typed
      <4> QED BY <2>2, <4>1 DEF HasColorReader, HasDepthReader
    <3>3. \E m \in Served : broken[m] \in 1 .. 7
      BY <1>0, <1>6, <3>2, ReaderMissing DEF AcquireColor
    <3>4. Served' = Served /\ broken' = broken
      BY <1>6 DEF AcquireColor, Served
    <3> QED BY <3>3, <3>4
  <2> QED BY <2>1, <2>2
<1>7. CASE AcquireDepth
  <2>1. CASE HasDepthReader(devices[Least(round)])
    BY <1>0, <1>7, <2>1 DEF AcquireDepth
  <2>2. CASE ~HasDepthReader(devices[Least(round)])
    <3>1. timer = "depth" /\ round # {}
      BY <1>0, <1>7 DEF AcquireDepth, RoundInMap
    <3>2. \E m \in Served : broken[m] \in 1 .. 7
      BY <1>0, <2>2, <3>1, ReaderMissing
    <3>3. Served' = Served /\ broken' = broken
      BY <1>7 DEF AcquireDepth, Served
    <3> QED BY <3>2, <3>3
  <2> QED BY <2>1, <2>2
<1>8. CASE NextModule \/ LoadModule \/ OpenStep \/ MakeBuffers
  BY <1>0, <1>8 DEF NextModule, LoadModule, OpenStep, MakeBuffers
<1>9. CASE StartManager \/ RegisterManager \/ SendCreate \/ OpenGateway
  BY <1>0, <1>9 DEF StartManager, RegisterManager, SendCreate, OpenGateway
<1>10. CASE ReleaseStop \/ Release \/ Leave \/ DtorStop \/ DestroyStatic \/ Exit
  BY <1>0, <1>10 DEF ReleaseStop, Release, Leave, DtorStop, Stop, DestroyStatic, Exit
<1>11. ASSUME NEW m \in Modules, SendRemove(m) PROVE DiesOnlyOf'
  BY <1>0, <1>11 DEF SendRemove
<1>12. CASE OnTimer \/ QueueEmpty \/ SearchSpins \/ TickEnds
  BY <1>0, <1>12 DEF OnTimer, QueueEmpty, SearchSpins, TickEnds
<1> QED BY <1>1, <1>2, <1>3, <1>4, <1>5, <1>6, <1>7, <1>8, <1>9, <1>10, <1>11, <1>12 DEF Next, MainStep, TimerStep

\* A step that changes nothing keeps the inductive invariant.
LEMMA Stutter == ASSUME IInv, UNCHANGED vars PROVE IInv'
<1> USE DEF IInv, vars
<1>1. Typed'
  BY DEF Typed
<1>2. Working'
  BY DEF Working, Complete, OpenEnded, Constructing, Submitting
<1>3. AllComplete'
  BY DEF AllComplete, Completed, Complete, OpenEnded
<1>4. StopOrder' /\ RoundInMap' /\ LeftOver'
  BY DEF StopOrder, RoundInMap, LeftOver, TickRuns, Leaving
<1>5. DiesOnlyOf'
  BY DEF DiesOnlyOf, Served, Leaving
<1> QED BY <1>1, <1>2, <1>3, <1>4, <1>5

\* The inductive invariant holds in every reachable state, for every number of
\* modules, every fault and every interleaving of main with the timer.
THEOREM Invariance == Spec => []IInv
<1>1. Init => IInv
  BY InitIInv
<1>2. IInv /\ [Next]_vars => IInv'
  <2> SUFFICES ASSUME IInv, [Next]_vars PROVE IInv'
    OBVIOUS
  <2>1. CASE Next
    BY <2>1, TypedStep, WorkingStep, AllCompleteStep, StopOrderStep, RoundInMapStep, LeftOverStep, DiesOnlyOfStep DEF IInv
  <2>2. CASE UNCHANGED vars
    BY <2>2, Stutter
  <2> QED BY <2>1, <2>2
<1> QED BY <1>1, <1>2, PTL DEF Spec

\* virtual_device.cpp:20-70, frdmgr.cpp:74-97: the timer serves only devices whose
\* constructor has returned.
THEOREM CompleteServed == Spec => []ServedIsComplete
<1>1. IInv => ServedIsComplete
  BY DEF IInv, AllComplete, Completed, Complete, Constructing, ServedIsComplete, Served
<1> QED BY <1>1, Invariance, PTL

\* frdmgr.cpp:107-112: a release whose stop() waits is final.
THEOREM ReleaseFinal == Spec => []ReleaseIsFinal
<1>1. IInv => ReleaseIsFinal
  BY DEF IInv, StopOrder, ReleaseIsFinal
<1> QED BY <1>1, Invariance, PTL

\* frdmgr.cpp:7-98, fwmain.cpp:17-37: the process dies of the four causes named and
\* of no other order of the steps of main and timer.
THEOREM KnownDeaths == Spec => []DiesOnlyOf
<1>1. IInv => DiesOnlyOf
  BY DEF IInv
<1> QED BY <1>1, Invariance, PTL

\* What is registered for destruction, each once; frdmgr by the thread that
\* constructed the manager, and the gateway when all modules are loaded.
Statics == {"frdmgr", "msg", "gateway"}
Absent(x) == \A i \in 1 .. Len(statics) : statics[i] # x
StaticsOnce ==
  /\ statics \in Seq(Statics)
  /\ \A i, j \in 1 .. Len(statics) : statics[i] = statics[j] => i = j
  /\ timer = "none" \/ main = "register" => Absent("frdmgr")
  /\ main = "register" => timer # "none"
  /\ main \in Constructing \cup Submitting \cup {"scan", "gateway"} => Absent("gateway")

\* The rest of TypeOK.
Places == {"scan", "gateway", "online", "stop", "clear", "leave", "dtor", "members", "gone"}
Ranges ==
  /\ main \in Constructing \cup Submitting \cup Places
  /\ state \in [Modules -> {"unloaded", "opened"}]
  /\ Len(queue) <= capacity

\* What is registered anew was not registered before.
LEMMA RegisterOnce ==
  ASSUME StaticsOnce, NEW x \in Statics, Absent(x), statics' = Append(statics, x)
  PROVE  /\ statics' \in Seq(Statics)
         /\ \A i, j \in 1 .. Len(statics') : statics'[i] = statics'[j] => i = j
         /\ \A y : Absent(y) /\ y # x => Absent(y)'
<1>1. statics \in Seq(Statics)
  BY DEF StaticsOnce
<1>2. statics' \in Seq(Statics) /\ Len(statics') = Len(statics) + 1 /\ statics'[Len(statics) + 1] = x
  BY <1>1
<1>3. \A i \in 1 .. Len(statics) : statics'[i] = statics[i]
  BY <1>1
<1>4. \A i \in 1 .. Len(statics') : i \in 1 .. Len(statics) \/ i = Len(statics) + 1
  BY <1>1, <1>2
<1> QED BY <1>1, <1>2, <1>3, <1>4 DEF StaticsOnce, Absent

\* Destroying the last one registered leaves the others as they are.
LEMMA DestroyLast ==
  ASSUME StaticsOnce, statics # <<>>, statics' = Front(statics)
  PROVE  /\ statics' \in Seq(Statics)
         /\ \A i, j \in 1 .. Len(statics') : statics'[i] = statics'[j] => i = j
         /\ \A y : Absent(y) => Absent(y)'
<1>1. statics \in Seq(Statics) /\ Len(statics) \in Nat \ {0}
  BY DEF StaticsOnce
<1>2. statics' \in Seq(Statics) /\ Len(statics') = Len(statics) - 1
  <2> DEFINE n == Len(statics) - 1
  <2>1. 1 \in Int /\ n \in Int /\ \A i \in 1 .. n : statics[i] \in Statics
    BY <1>1
  <2>2. SubSeq(statics, 1, n) \in Seq(Statics) /\ Len(SubSeq(statics, 1, n)) = IF 1 <= n THEN n - 1 + 1 ELSE 0
    <3> HIDE DEF n
    <3> QED BY <2>1, SubSeqProperties
  <2>3. n \in Nat
    BY <1>1
  <2>4. statics' = SubSeq(statics, 1, n)
    BY DEF Front
  <2>5. statics' \in Seq(Statics) /\ Len(statics') = n
    <3> HIDE DEF n
    <3> QED BY <2>2, <2>3, <2>4
  <2> QED BY <2>5
<1>3. \A i \in 1 .. Len(statics') : statics'[i] = statics[i] /\ i \in 1 .. Len(statics)
  BY <1>1, <1>2 DEF Front
<1> QED BY <1>1, <1>2, <1>3 DEF StaticsOnce, Absent

\* Every static is registered at most once at a time.
LEMMA StaticsStep ==
  ASSUME Typed, StaticsOnce, Next PROVE StaticsOnce'
<1> USE DEF Constructing, Submitting
<1>1. CASE RegisterManager
  <2>1. statics' = Append(statics, "frdmgr") /\ Absent("frdmgr") /\ main = "register" /\ main' = "send" /\ timer' = timer
    BY <1>1 DEF RegisterManager, StaticsOnce
  <2>2. Absent("gateway")'
    BY <2>1, RegisterOnce DEF StaticsOnce, Statics
  <2> QED BY <2>1, <2>2, RegisterOnce DEF StaticsOnce, Statics
<1>2. CASE OpenGateway
  <2>1. statics' = Append(statics, "gateway") /\ Absent("gateway") /\ main' = "online" /\ timer' = timer
    BY <1>2 DEF OpenGateway, StaticsOnce
  <2>2. timer = "none" => Absent("frdmgr")'
    BY <2>1, RegisterOnce DEF StaticsOnce, Statics
  <2> QED BY <2>1, <2>2, RegisterOnce DEF StaticsOnce, Statics
<1>3. CASE OnTimer
  <2>1. CASE statics' = statics
    BY <1>3, <2>1 DEF OnTimer, StaticsOnce, Absent
  <2>2. CASE statics' # statics
    <3>1. statics' = Append(statics, "msg") /\ "msg" \notin {statics[i] : i \in DOMAIN statics}
      BY <1>3, <2>2 DEF OnTimer
    <3>2. Absent("msg")
      BY <3>1 DEF Absent, StaticsOnce
    <3>3. main' = main /\ timer' = "drain"
      BY <1>3 DEF OnTimer
    <3>4. (Absent("frdmgr") => Absent("frdmgr")') /\ (Absent("gateway") => Absent("gateway")')
      BY <3>1, <3>2, RegisterOnce DEF Statics
    <3> QED BY <3>1, <3>2, <3>3, <3>4, RegisterOnce DEF StaticsOnce, Statics
  <2> QED BY <2>1, <2>2
<1>4. CASE DestroyStatic
  <2>1. statics # <<>> /\ statics' = Front(statics) /\ main' \in {"dtor", "leave"} /\ timer' = timer
    BY <1>4 DEF DestroyStatic
  <2>2. Absent("frdmgr") => Absent("frdmgr")'
    BY <2>1, DestroyLast
  <2> QED BY <2>1, <2>2, DestroyLast DEF StaticsOnce
<1>5. CASE StartManager
  BY <1>5 DEF StartManager, StaticsOnce, Absent
<1>6. CASE NextModule \/ LoadModule \/ CallEntryPoint \/ OpenStep \/ MakeBuffers
  BY <1>6 DEF NextModule, LoadModule, CallEntryPoint, OpenStep, MakeBuffers, AfterException, StaticsOnce, Absent
<1>7. CASE SendCreate
  BY <1>7 DEF SendCreate, StaticsOnce, Absent
<1>8. CASE ReleaseStop \/ ReleaseClear \/ Release \/ Leave
  BY <1>8 DEF ReleaseStop, ReleaseClear, Release, Leave, Stop, StaticsOnce, Absent
<1>9. CASE DtorStop \/ DestroyManager \/ Exit
  BY <1>9 DEF DtorStop, Stop, DestroyManager, Exit, StaticsOnce, Absent
<1>10. ASSUME NEW m \in Modules, SendRemove(m) PROVE StaticsOnce'
  BY <1>10 DEF SendRemove, StaticsOnce, Absent
<1>11. CASE TimerStep
  BY <1>11 DEF TimerStep, Dequeue, ApplyMessage, QueueEmpty, SearchSpins, AcquireColor, AcquireDepth, TickEnds, StaticsOnce, Absent
<1> QED BY <1>1, <1>2, <1>3, <1>4, <1>5, <1>6, <1>7, <1>8, <1>9, <1>10, <1>11 DEF Next, MainStep

\* The other variables stay in their ranges; a full queue takes no more.
LEMMA RangesStep ==
  ASSUME Typed, Working, Ranges, Next PROVE Ranges'
<1> USE DEF Ranges, Constructing, Submitting, Places
<1>1. queue \in Seq(Entries) /\ Len(queue) \in Nat /\ capacity \in Nat
  BY DEF Typed
<1>2. ASSUME NEW opt \in {"create", "remove"}, NEW m \in Modules, Enqueue(opt, m)
      PROVE  Len(queue') <= capacity
  <2>1. CASE queue' = queue
    BY <2>1
  <2>2. CASE queue' = Append(queue, [opt |-> opt, vd |-> m]) /\ Room
    <3>1. [opt |-> opt, vd |-> m] \in Entries
      BY DEF Entries
    <3>2. Len(queue') = Len(queue) + 1
      BY <1>1, <2>2, <3>1
    <3> QED BY <1>1, <2>2, <3>2 DEF Room
  <2> QED BY <1>2, <2>1, <2>2, EnqueueEffect
<1>3. CASE NextModule \/ LoadModule \/ CallEntryPoint \/ OpenStep
  BY <1>3 DEF NextModule, LoadModule, CallEntryPoint, OpenStep, AfterException
<1>4. CASE MakeBuffers
  <2>1. module \in Modules
    BY <1>4 DEF MakeBuffers, Working
  <2> QED BY <1>4, <2>1 DEF MakeBuffers, AfterException
<1>5. CASE StartManager \/ RegisterManager \/ OpenGateway
  BY <1>5 DEF StartManager, RegisterManager, OpenGateway
<1>6. CASE SendCreate
  <2>1. Enqueue("create", module) /\ module \in Modules
    BY <1>6 DEF SendCreate, Working
  <2>2. Len(queue') <= capacity
    BY <1>2, <2>1
  <2> QED BY <1>6, <2>2 DEF SendCreate
<1>7. ASSUME NEW m \in Modules, SendRemove(m) PROVE Ranges'
  <2>1. Len(queue') <= capacity
    BY <1>2, <1>7 DEF SendRemove
  <2> QED BY <1>7, <2>1 DEF SendRemove
<1>8. CASE ReleaseStop \/ ReleaseClear \/ Release \/ Leave \/ DtorStop \/ DestroyStatic \/ Exit
  BY <1>8 DEF ReleaseStop, ReleaseClear, Release, Leave, DtorStop, Stop, DestroyStatic, Exit
<1>9. CASE DestroyManager
  <2>1. Len(<<>>) = 0
    OBVIOUS
  <2>2. Len(queue') <= capacity'
    BY <1>1, <1>9, <2>1 DEF DestroyManager, Typed
  <2> QED BY <1>9, <2>2 DEF DestroyManager
<1>10. CASE OnTimer
  BY <1>10 DEF OnTimer
<1>11. CASE Dequeue
  BY <1>1, <1>11 DEF Dequeue
<1>12. CASE ApplyMessage \/ QueueEmpty \/ SearchSpins \/ AcquireColor \/ AcquireDepth \/ TickEnds
  BY <1>12 DEF ApplyMessage, QueueEmpty, SearchSpins, AcquireColor, AcquireDepth, TickEnds
<1> QED BY <1>3, <1>4, <1>5, <1>6, <1>7, <1>8, <1>9, <1>10, <1>11, <1>12 DEF Next, MainStep, TimerStep

\* Every reachable state is well typed; at most three statics wait for destruction.
THEOREM TypeCorrect == Spec => []TypeOK
<1>1. Init => StaticsOnce /\ Ranges
  BY DEF Init, StaticsOnce, Ranges, Absent, Places, Constructing, Submitting
<1>2. IInv /\ StaticsOnce /\ Ranges /\ [Next]_vars => StaticsOnce' /\ Ranges'
  <2> SUFFICES ASSUME IInv, StaticsOnce, Ranges, [Next]_vars PROVE StaticsOnce' /\ Ranges'
    OBVIOUS
  <2>1. CASE UNCHANGED vars
    BY <2>1 DEF vars, StaticsOnce, Ranges, Absent
  <2> QED BY <2>1, StaticsStep, RangesStep DEF IInv
<1>3. IInv /\ StaticsOnce /\ Ranges => TypeOK
  <2> SUFFICES ASSUME IInv, StaticsOnce, Ranges PROVE TypeOK
    OBVIOUS
  <2>1. Len(statics) <= 3
    <3>1. SUFFICES ASSUME Len(statics) >= 4 PROVE FALSE
      BY DEF StaticsOnce
    <3>2. \A i \in 1 .. 4 : i \in 1 .. Len(statics) /\ statics[i] \in Statics
      BY <3>1 DEF StaticsOnce
    <3>3. \A i, j \in 1 .. 4 : statics[i] = statics[j] => i = j
      BY <3>2 DEF StaticsOnce
    <3>4. /\ statics[1] \in Statics /\ statics[2] \in Statics /\ statics[3] \in Statics /\ statics[4] \in Statics
          /\ statics[1] # statics[2] /\ statics[1] # statics[3] /\ statics[1] # statics[4]
          /\ statics[2] # statics[3] /\ statics[2] # statics[4] /\ statics[3] # statics[4]
      BY <3>2, <3>3
    <3> QED BY <3>4 DEF Statics
  <2> QED BY <2>1 DEF IInv, Typed, Entries, StaticsOnce, Statics, Ranges, Places, Constructing, Submitting, TypeOK
<1> QED BY <1>1, <1>2, <1>3, Invariance, PTL DEF Spec

\* Messages q by what they are about, f[m] for module m: the module itself, or its key.
Self              == [m \in Modules |-> m]
Mentions(q, f, x) == \E j \in 1 .. Len(q) : f[q[j].vd] = x
IsLast(q, f, j)   == \A i \in 1 .. Len(q) : i > j => f[q[i].vd] # f[q[j].vd]
Says(e, f, S)     == e.opt = "create" <=> f[e.vd] \in S

\* The last message about anything asks for what S holds of it.
Agree(q, f, S) == \A j \in 1 .. Len(q) : IsLast(q, f, j) => Says(q[j], f, S)

\* A message sent is the last about its subject, and those about others stay last.
LEMMA AgreeSent ==
  ASSUME NEW q \in Seq(Entries), NEW e \in Entries, NEW f, NEW S, Agree(q, f, S)
  PROVE  /\ Agree(Append(q, e), f, After(S, e.opt, f[e.vd]))
         /\ \A x : ~Mentions(Append(q, e), f, x) =>
              ~Mentions(q, f, x) /\ (x \in After(S, e.opt, f[e.vd]) <=> x \in S)
<1> DEFINE p == Append(q, e)
           T == After(S, e.opt, f[e.vd])
<1>1. /\ Len(q) \in Nat /\ Len(p) = Len(q) + 1 /\ p[Len(q) + 1] = e
      /\ \A j \in 1 .. Len(q) : p[j] = q[j]
  OBVIOUS
<1>2. \A x : x # f[e.vd] => (x \in T <=> x \in S)
  BY DEF After
<1>3. Says(e, f, T)
  <2>1. CASE e.opt = "create"
    BY <2>1 DEF After, Says
  <2>2. CASE e.opt # "create"
    BY <2>2 DEF After, Says
  <2> QED BY <2>1, <2>2
<1> HIDE DEF p, T
<1>4. Agree(p, f, T)
  <2> SUFFICES ASSUME NEW j \in 1 .. Len(p), IsLast(p, f, j) PROVE Says(p[j], f, T)
    BY DEF Agree
  <2>1. CASE j = Len(q) + 1
    BY <1>1, <1>3, <2>1
  <2>2. CASE j # Len(q) + 1
    <3>1. j \in 1 .. Len(q) /\ p[j] = q[j]
      BY <1>1, <2>2
    <3>2. f[e.vd] # f[q[j].vd]
      BY <1>1, <3>1 DEF IsLast
    <3>3. IsLast(q, f, j)
      BY <1>1, <3>1 DEF IsLast
    <3>4. Says(q[j], f, S)
      BY <3>1, <3>3 DEF Agree
    <3> QED BY <1>2, <3>1, <3>2, <3>4 DEF Says
  <2> QED BY <2>1, <2>2
<1>5. ASSUME NEW x, ~Mentions(p, f, x) PROVE ~Mentions(q, f, x) /\ (x \in T <=> x \in S)
  <2>1. x # f[e.vd]
    BY <1>1, <1>5 DEF Mentions
  <2>2. ~Mentions(q, f, x)
    BY <1>1, <1>5 DEF Mentions
  <2> QED BY <1>2, <2>1, <2>2
<1> QED BY <1>4, <1>5 DEF p, T

\* The first message taken, the others still agree, and it does if none follows it.
LEMMA AgreeTaken ==
  ASSUME NEW q \in Seq(Entries), q # <<>>, NEW f, NEW S, Agree(q, f, S)
  PROVE  /\ Agree(Tail(q), f, S)
         /\ ~Mentions(Tail(q), f, f[Head(q).vd]) => Says(Head(q), f, S)
         /\ \A x : Mentions(q, f, x) => Mentions(Tail(q), f, x) \/ x = f[Head(q).vd]
<1> DEFINE p == Tail(q)
<1>1. /\ Len(q) \in Nat \ {0} /\ Len(p) = Len(q) - 1 /\ Head(q) = q[1]
      /\ \A j \in 1 .. Len(p) : p[j] = q[j + 1] /\ j + 1 \in 1 .. Len(q)
  OBVIOUS
<1> HIDE DEF p
<1>2. \A i \in 1 .. Len(q) : i # 1 => i - 1 \in 1 .. Len(p) /\ p[i - 1] = q[i]
  BY <1>1
<1>3. Agree(p, f, S)
  <2> SUFFICES ASSUME NEW j \in 1 .. Len(p), IsLast(p, f, j) PROVE Says(p[j], f, S)
    BY DEF Agree
  <2>1. j + 1 \in 1 .. Len(q) /\ p[j] = q[j + 1]
    BY <1>1
  <2>2. ASSUME NEW i \in 1 .. Len(q), i > j + 1 PROVE f[q[i].vd] # f[q[j + 1].vd]
    <3>1. i - 1 \in 1 .. Len(p) /\ p[i - 1] = q[i] /\ i - 1 > j
      BY <1>1, <1>2, <2>2
    <3> QED BY <2>1, <3>1 DEF IsLast
  <2>3. IsLast(q, f, j + 1)
    BY <2>2 DEF IsLast
  <2> QED BY <2>1, <2>3 DEF Agree
<1>4. ASSUME ~Mentions(p, f, f[Head(q).vd]) PROVE Says(Head(q), f, S)
  <2>1. \A i \in 1 .. Len(q) : i > 1 => f[q[i].vd] # f[q[1].vd]
    BY <1>1, <1>2, <1>4 DEF Mentions
  <2>2. IsLast(q, f, 1) /\ 1 \in 1 .. Len(q)
    BY <1>1, <2>1 DEF IsLast
  <2> QED BY <1>1, <2>2 DEF Agree
<1>5. ASSUME NEW x, Mentions(q, f, x), x # f[Head(q).vd] PROVE Mentions(p, f, x)
  <2>1. PICK i \in 1 .. Len(q) : f[q[i].vd] = x
    BY <1>5 DEF Mentions
  <2>2. i # 1
    BY <1>1, <1>5, <2>1
  <2> QED BY <1>2, <2>1, <2>2 DEF Mentions
<1> QED BY <1>3, <1>4, <1>5 DEF p

\* The last message about anything is in the queue, in hand ...
InHand(f, S)  == timer = "apply" /\ ~Mentions(queue, f, f[msg.vd]) => Says(msg, f, S)
Tells(f, S)   == Agree(queue, f, S) /\ InHand(f, S)

\* ... or applied: no device is in the map against it, and its key exactly if it asks so.
Settled(f, x) == ~Mentions(queue, f, x) /\ ~(timer = "apply" /\ f[msg.vd] = x)
MapTells ==
  /\ \A m \in Served : Settled(Self, m) => m \in asked
  /\ \A k \in Keys : Settled(key, k) => (k \in DOMAIN devices <=> k \in wanted)

\* Unless the map was cleared, or the message in hand destroyed.
Applies ==
  /\ stopped => stop_waits /\ TickRuns
  /\ timer = "apply" => msg # DeadObject

ByKey     == \A k \in DOMAIN devices : key[devices[k]] = k
Followed  == ByKey /\ (Applies => Tells(Self, asked) /\ Tells(key, wanted) /\ MapTells)

\* The devices of a map.
DevicesOf(d) == {d[k] : k \in DOMAIN d}

\* A create message adds its key, and its module at most; a remove message takes away
\* its key, and so its module.
LEMMA MapServes ==
  ASSUME Typed, ByKey, NEW m \in Modules
  PROVE  /\ \A j \in DOMAIN insert(key[m], m) : key[insert(key[m], m)[j]] = j
         /\ DOMAIN insert(key[m], m) = DOMAIN devices \cup {key[m]}
         /\ DevicesOf(insert(key[m], m)) \subseteq Served \cup {m}
         /\ \A j \in DOMAIN erase(key[m]) : key[erase(key[m])[j]] = j
         /\ DOMAIN erase(key[m]) = DOMAIN devices \ {key[m]}
         /\ DevicesOf(erase(key[m])) \subseteq Served \ {m}
<1> USE DEF DevicesOf, Served, ByKey
<1>1. /\ \A j \in DOMAIN erase(key[m]) : key[erase(key[m])[j]] = j
      /\ DOMAIN erase(key[m]) = DOMAIN devices \ {key[m]}
      /\ DevicesOf(erase(key[m])) \subseteq Served \ {m}
  <2>1. /\ DOMAIN erase(key[m]) = DOMAIN devices \ {key[m]}
        /\ \A j \in DOMAIN devices \ {key[m]} : erase(key[m])[j] = devices[j]
    BY DEF erase
  <2>2. \A j \in DOMAIN devices \ {key[m]} : devices[j] # m
    OBVIOUS
  <2> QED BY <2>1, <2>2
<1>2. CASE key[m] \in DOMAIN devices
  <2>1. insert(key[m], m) = devices
    BY <1>2 DEF insert
  <2>2. ASSUME NEW d, d = devices
        PROVE  /\ \A j \in DOMAIN d : key[d[j]] = j
               /\ DOMAIN d = DOMAIN devices \cup {key[m]}
               /\ DevicesOf(d) \subseteq Served \cup {m}
    BY <1>2, <2>2
  <2> HIDE DEF DevicesOf, Served, ByKey
  <2> QED BY <1>1, <2>1, <2>2
<1>3. CASE key[m] \notin DOMAIN devices
  <2>1. insert(key[m], m) = [j \in DOMAIN devices \cup {key[m]} |-> IF j = key[m] THEN m ELSE devices[j]]
    BY <1>3 DEF insert
  <2>2. DOMAIN insert(key[m], m) = DOMAIN devices \cup {key[m]} /\ insert(key[m], m)[key[m]] = m
    BY <2>1
  <2>3. \A j \in DOMAIN devices : insert(key[m], m)[j] = devices[j]
    BY <1>3, <2>1
  <2> QED BY <1>1, <2>2, <2>3
<1> QED BY <1>2, <1>3

\* Steps that touch neither messages nor map.
LEMMA FollowedSame ==
  ASSUME Typed, Followed, Applies' => Applies,
         queue' = queue, asked' = asked, wanted' = wanted, devices' = devices, key' = key,
         timer = "apply" => timer' = "apply",
         timer' = "apply" => timer = "apply" /\ (msg' = msg \/ msg' = DeadObject)
  PROVE  Followed'
<1>1. ByKey'
  BY DEF Followed, ByKey
<1>2. SUFFICES ASSUME Applies' PROVE Tells(Self, asked)' /\ Tells(key, wanted)' /\ MapTells'
  BY <1>1 DEF Followed
<1>3. Tells(Self, asked) /\ Tells(key, wanted) /\ MapTells
  BY <1>2 DEF Followed
<1>4. timer' = "apply" => msg' = msg
  BY <1>2 DEF Applies
<1>5. Agree(queue, Self, asked)' /\ Agree(queue, key, wanted)'
  BY <1>3 DEF Tells, Agree, IsLast, Says
<1>6. InHand(Self, asked)' /\ InHand(key, wanted)'
  BY <1>3, <1>4 DEF Tells, InHand, Mentions, Says
<1>7. /\ \A x : Settled(Self, x)' => Settled(Self, x)
      /\ \A x : Settled(key, x)' => Settled(key, x)
  BY <1>4 DEF Settled, Mentions
<1>8. MapTells'
  BY <1>3, <1>7 DEF MapTells, Served
<1> QED BY <1>5, <1>6, <1>8 DEF Tells

\* A message sent becomes the last of its module and of its key, or is lost.
LEMMA FollowedSent ==
  ASSUME Typed, Followed, NEW opt \in {"create", "remove"}, NEW m \in Modules, Enqueue(opt, m),
         UNCHANGED <<devices, key, msg, timer, stopped, stop_waits>>
  PROVE  Followed'
<1>1. CASE ~Room
  <2>1. queue' = queue /\ asked' = asked /\ wanted' = wanted
    BY <1>1 DEF Enqueue
  <2>2. Applies' => Applies
    BY DEF Applies, TickRuns
  <2> QED BY <2>1, <2>2, FollowedSame
<1>2. CASE Room
  <2> DEFINE e == [opt |-> opt, vd |-> m]
  <2>1. /\ queue' = Append(queue, e)
        /\ asked' = After(asked, opt, m) /\ wanted' = After(wanted, opt, key[m])
    BY <1>2 DEF Enqueue
  <2>2. queue \in Seq(Entries) /\ e \in Entries /\ e.opt = opt /\ e.vd = m /\ Self[m] = m
    BY DEF Typed, Entries, Self
  <2>3. ByKey'
    BY DEF Followed, ByKey
  <2>4. SUFFICES ASSUME Applies' PROVE Tells(Self, asked)' /\ Tells(key, wanted)' /\ MapTells'
    BY <2>3 DEF Followed
  <2>5. Tells(Self, asked) /\ Tells(key, wanted) /\ MapTells
    BY <2>4 DEF Followed, Applies, TickRuns
  <2> HIDE DEF e
  <2>6. /\ Agree(queue', Self, asked')
        /\ \A x : ~Mentions(queue', Self, x) => ~Mentions(queue, Self, x) /\ (x \in asked' <=> x \in asked)
    BY <2>1, <2>2, <2>5, AgreeSent DEF Tells
  <2>7. /\ Agree(queue', key, wanted')
        /\ \A x : ~Mentions(queue', key, x) => ~Mentions(queue, key, x) /\ (x \in wanted' <=> x \in wanted)
    BY <2>1, <2>2, <2>5, AgreeSent DEF Tells
  <2>8. InHand(Self, asked)'
    BY <2>5, <2>6 DEF Tells, InHand, Says
  <2>9. InHand(key, wanted)'
    BY <2>5, <2>7 DEF Tells, InHand, Says
  <2>10. MapTells'
    BY <2>5, <2>6, <2>7 DEF MapTells, Settled, Served
  <2> QED BY <2>6, <2>7, <2>8, <2>9, <2>10 DEF Tells
<1> QED BY <1>1, <1>2

\* The first message of the queue becomes the one in hand.
LEMMA FollowedTaken ==
  ASSUME Typed, Followed, Dequeue PROVE Followed'
<1>1. CASE msg = DeadObject
  BY <1>1, FollowedSame DEF Dequeue, Applies, TickRuns
<1>2. CASE msg # DeadObject
  <2>1. /\ queue \in Seq(Entries) /\ queue # <<>> /\ timer = "drain" /\ timer' = "apply"
        /\ msg' = Head(queue) /\ queue' = Tail(queue)
        /\ UNCHANGED <<asked, wanted, devices, key, stopped, stop_waits>>
    BY <1>2 DEF Dequeue, Typed
  <2>2. ByKey'
    BY <2>1 DEF Followed, ByKey
  <2>3. SUFFICES ASSUME Applies' PROVE Tells(Self, asked)' /\ Tells(key, wanted)' /\ MapTells'
    BY <2>2 DEF Followed
  <2>4. Tells(Self, asked) /\ Tells(key, wanted) /\ MapTells
    BY <2>1, <2>3 DEF Followed, Applies, TickRuns
  <2>5. /\ Agree(queue', Self, asked)
        /\ ~Mentions(queue', Self, Self[msg'.vd]) => Says(msg', Self, asked)
        /\ \A x : Mentions(queue, Self, x) => Mentions(queue', Self, x) \/ x = Self[msg'.vd]
    BY <2>1, <2>4, AgreeTaken DEF Tells
  <2>6. /\ Agree(queue', key, wanted)
        /\ ~Mentions(queue', key, key[msg'.vd]) => Says(msg', key, wanted)
        /\ \A x : Mentions(queue, key, x) => Mentions(queue', key, x) \/ x = key[msg'.vd]
    BY <2>1, <2>4, AgreeTaken DEF Tells
  <2>7. Tells(Self, asked)'
    BY <2>1, <2>5 DEF Tells, InHand
  <2>8. Tells(key, wanted)'
    BY <2>1, <2>6 DEF Tells, InHand
  <2>9. MapTells'
    BY <2>1, <2>4, <2>5, <2>6 DEF MapTells, Settled, Served
  <2> QED BY <2>7, <2>8, <2>9
<1> QED BY <1>1, <1>2

\* The message in hand is applied: the map agrees with what was asked of its module.
LEMMA FollowedApplied ==
  ASSUME Typed, Followed, ApplyMessage PROVE Followed'
<1>1. CASE msg = DeadObject
  BY <1>1, FollowedSame DEF ApplyMessage, Applies, TickRuns
<1>2. CASE msg # DeadObject
  <2> DEFINE m == msg.vd
  <2>1. /\ timer = "apply" /\ timer' = "drain"
        /\ UNCHANGED <<msg, queue, asked, wanted, key, stopped, stop_waits>>
    BY <1>2 DEF ApplyMessage
  <2>2. msg \in Entries /\ m \in Modules /\ key[m] \in Keys /\ Self[m] = m
    BY <1>2, <2>1 DEF Typed, Entries, Self
  <2>3. devices' = IF msg.opt = "create" THEN insert(key[m], m) ELSE erase(key[m])
    BY <1>2 DEF ApplyMessage
  <2>4. ByKey /\ Served' = DevicesOf(devices')
    BY DEF Followed, Served, DevicesOf
  <2> HIDE DEF m
  <2>5. /\ ByKey' /\ Served' \subseteq Served \cup {m}
        /\ msg.opt = "create" => DOMAIN devices' = DOMAIN devices \cup {key[m]}
        /\ msg.opt # "create" => DOMAIN devices' = DOMAIN devices \ {key[m]} /\ m \notin Served'
    <3>1. CASE msg.opt = "create"
      BY <2>1, <2>2, <2>3, <2>4, <3>1, MapServes DEF ByKey
    <3>2. CASE msg.opt # "create"
      BY <2>1, <2>2, <2>3, <2>4, <3>2, MapServes DEF ByKey
    <3> QED BY <3>1, <3>2
  <2>6. SUFFICES ASSUME Applies' PROVE Tells(Self, asked)' /\ Tells(key, wanted)' /\ MapTells'
    BY <2>5 DEF Followed
  <2>7. Tells(Self, asked) /\ Tells(key, wanted) /\ MapTells
    BY <1>2, <2>1, <2>6 DEF Followed, Applies, TickRuns
  <2>8. Tells(Self, asked)' /\ Tells(key, wanted)'
    BY <2>1, <2>7 DEF Tells, Agree, IsLast, Says, InHand
  <2>9. ASSUME NEW n \in Served', ~Mentions(queue, Self, n) PROVE n \in asked
    <3>1. CASE n = m
      BY <2>1, <2>2, <2>5, <2>7, <2>9, <3>1 DEF Tells, InHand, Says, m
    <3>2. CASE n # m
      BY <2>1, <2>2, <2>5, <2>7, <2>9, <3>2 DEF MapTells, Settled, m
    <3> QED BY <3>1, <3>2
  <2>10. ASSUME NEW k \in Keys, ~Mentions(queue, key, k) PROVE k \in DOMAIN devices' <=> k \in wanted
    <3>1. CASE k = key[m]
      BY <2>1, <2>5, <2>7, <2>10, <3>1 DEF Tells, InHand, Says, m
    <3>2. CASE k # key[m]
      BY <2>1, <2>5, <2>7, <2>10, <3>2 DEF MapTells, Settled, m
    <3> QED BY <3>1, <3>2
  <2>11. MapTells'
    BY <2>1, <2>9, <2>10 DEF MapTells, Settled, Mentions
  <2> QED BY <2>8, <2>11
<1> QED BY <1>1, <1>2

\* Messages are followed in every step, until the map is cleared for good.
LEMMA FollowedStep ==
  ASSUME Typed, Working, AllComplete, StopOrder, Followed, Next PROVE Followed'
<1> USE DEF Applies, TickRuns
<1>1. CASE NextModule \/ LoadModule \/ CallEntryPoint \/ OpenStep \/ MakeBuffers
  BY <1>1, FollowedSame DEF NextModule, LoadModule, CallEntryPoint, OpenStep, MakeBuffers
<1>2. CASE StartManager \/ RegisterManager \/ OpenGateway
  BY <1>2, FollowedSame DEF StartManager, RegisterManager, OpenGateway
<1>3. CASE ReleaseStop \/ Release \/ Leave \/ DtorStop \/ Exit
  BY <1>3, FollowedSame DEF ReleaseStop, Release, Leave, DtorStop, Stop, Exit
<1>4. CASE ReleaseClear
  <2>1. ~Applies' /\ DOMAIN devices' = {}
    BY <1>4 DEF ReleaseClear, StopOrder
  <2> QED BY <2>1 DEF Followed, ByKey
<1>5. CASE DestroyManager
  <2>1. ~Applies' /\ DOMAIN devices' = {}
    BY <1>5 DEF DestroyManager, StopOrder
  <2> QED BY <2>1 DEF Followed, ByKey
<1>6. CASE DestroyStatic
  BY <1>6, FollowedSame DEF DestroyStatic
<1>7. CASE SendCreate
  <2>1. module \in Modules /\ Enqueue("create", module)
    BY <1>7 DEF SendCreate, Working, Submitting
  <2> QED BY <1>7, <2>1, FollowedSent DEF SendCreate
<1>8. ASSUME NEW m \in Modules, SendRemove(m) PROVE Followed'
  BY <1>8, FollowedSent DEF SendRemove
<1>9. CASE OnTimer
  BY <1>9, FollowedSame DEF OnTimer
<1>10. CASE QueueEmpty \/ SearchSpins \/ AcquireColor \/ AcquireDepth \/ TickEnds
  BY <1>10, FollowedSame DEF QueueEmpty, SearchSpins, AcquireColor, AcquireDepth, TickEnds
<1>11. CASE Dequeue \/ ApplyMessage
  BY <1>11, FollowedTaken, FollowedApplied
<1> QED BY <1>1, <1>2, <1>3, <1>4, <1>5, <1>6, <1>7, <1>8, <1>9, <1>10, <1>11 DEF Next, MainStep, TimerStep

\* frdmgr.cpp:25-72: whatever tick a message waits for and whichever were lost, a tick
\* serves only devices last asked for, under exactly the keys last asked for.
THEOREM MessagesFollowed == Spec => []MapFollowsMessages
<1>1. Init => Followed
  <2> SUFFICES ASSUME Init PROVE Followed
    OBVIOUS
  <2>1. DOMAIN devices = {} /\ Len(queue) = 0 /\ wanted = {} /\ timer = "none"
    BY DEF Init
  <2> QED BY <2>1 DEF Followed, ByKey, Tells, Agree, InHand, MapTells, Served
<1>2. IInv /\ Followed /\ [Next]_vars => Followed'
  <2> SUFFICES ASSUME IInv, Followed, [Next]_vars PROVE Followed'
    OBVIOUS
  <2>1. CASE UNCHANGED vars
    BY <2>1, FollowedSame DEF vars, IInv, Applies, TickRuns
  <2> QED BY <2>1, FollowedStep DEF IInv
<1>3. IInv /\ Followed => MapFollowsMessages
  <2> SUFFICES ASSUME IInv, Followed, stopped => stop_waits, timer \in {"color", "depth"}
               PROVE  /\ \A m \in Served : m \in asked \/ \E j \in 1 .. Len(queue) : queue[j].vd = m
                      /\ \A k \in Keys : \/ k \in DOMAIN devices <=> k \in wanted
                                         \/ \E j \in 1 .. Len(queue) : key[queue[j].vd] = k
    BY DEF MapFollowsMessages
  <2>1. MapTells
    BY DEF Followed, Applies, TickRuns
  <2>2. \A j \in 1 .. Len(queue) : Self[queue[j].vd] = queue[j].vd
    <3>1. queue \in Seq(Entries)
      BY DEF IInv, Typed
    <3>2. \A j \in 1 .. Len(queue) : queue[j].vd \in Modules
      <4>1. \A j \in 1 .. Len(queue) : queue[j] \in Entries
        BY <3>1
      <4> QED BY <4>1 DEF Entries
    <3> QED BY <3>2 DEF Self
  <2> QED BY <2>1, <2>2 DEF MapTells, Settled, Mentions
<1> QED BY <1>1, <1>2, <1>3, Invariance, PTL DEF Spec
=============================================================================
