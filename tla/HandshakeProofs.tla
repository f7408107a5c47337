--------------------------- MODULE HandshakeProofs ---------------------------
(***************************************************************************)
(* Proofs about the handshake, for any number of clients.  What holds      *)
(* whatever is suspended, lost or killed is proved for all delays; that a  *)
(* prompt handshake succeeds, for all that leave the margins DelaysFit.    *)
(***************************************************************************)
EXTENDS Handshake, TLAPS

\* Ids name sessions: each is handed out once and reaches its own client only.
IdsOwn ==
  /\ \A c \in Clients : sid[c] = NoSid <=> clnt[c] = "start"
  /\ \A c, d \in Clients : sid[c] = sid[d] /\ sid[c] # NoSid => c = d
  /\ \A c \in Clients : ack[c] \in {NoSid, sid[c]} /\ id[c] \in {NoSid, sid[c]}
  /\ \A c \in Clients : clnt[c] \in Pipes \cup {"done", "failed"} => id[c] # NoSid
  /\ \A c \in Clients : hs[c] # "none" => sid[c] # NoSid

\* A pipe a client has connected to is its own, and tells its place: it connects to cts first.
PipesOwn ==
  \A c \in Clients :
    /\ \A k \in Pipes : peer[c][k] \in {None, c}
    /\ \A k \in Pipes : peer[c][k] = c => task[c][k] \in {"connected", "accepted", "timedout"} /\ id[c] # NoSid
    /\ \A k \in Pipes : task[c][k] \in {"connected", "accepted"} => peer[c][k] = c
    /\ peer[c]["cts"] = c => clnt[c] \in {"stc", "done", "failed", "dead"}
    /\ peer[c]["stc"] = c => clnt[c] \in {"done", "dead"}
    /\ clnt[c] = "stc" => peer[c]["cts"] = c
    /\ clnt[c] = "done" => \A k \in Pipes : peer[c][k] = c

\* What the handshake thread has found out is final.
OutcomeFinal ==
  \A c \in Clients :
    /\ clnt[c] \in {"start", "hello"} => hs[c] = "none"
    /\ hs[c] \in {"none", "parse", "rejected"} => \A k \in Pipes : task[c][k] = "none"
    /\ hs[c] = "success" => streams[c] /\ \A k \in Pipes : task[c][k] = "accepted"
    /\ hs[c] = "failed" => \E k \in Pipes : task[c][k] = "timedout"

\* The margins: tasks listen before the id is sent, and a client has three steps left to
\* take before the accepts that began with the sleep time out.
DelaysFit ==
  /\ StartDelay < SleepTime
  /\ SleepTime + 3 * ClientDelay < pipe_server_timeout

\* Where a prompt handshake is, and how long its accepts still wait.
WaitAtLeast(c, k, n) == task[c][k] = "listening" /\ wait[c][k] >= n
Joined(c, k) == task[c][k] = "accepted" \/ (task[c][k] = "connected" /\ wait[c][k] > 0)
Margin == pipe_server_timeout - SleepTime
Before(c) ==
  /\ hs[c] = "none"
  /\ clnt[c] \in {"start", "hello"}
Sleeping(c) ==
  /\ hs[c] = "sleep" /\ clnt[c] = "read" /\ late[c] = 0
  /\ \A k \in Pipes :
       \/ task[c][k] = "starting" /\ wait[c][k] = left[c] - (SleepTime - StartDelay)
       \/ WaitAtLeast(c, k, left[c] + Margin)
Answered(c) ==
  /\ hs[c] = "get" /\ late[c] <= ClientDelay
  /\ \/ clnt[c] = "read" /\ \A k \in Pipes : WaitAtLeast(c, k, Margin - late[c])
     \/ clnt[c] = "cts" /\ \A k \in Pipes : WaitAtLeast(c, k, Margin - ClientDelay - late[c])
     \/ /\ clnt[c] = "stc" /\ Joined(c, "cts")
        /\ WaitAtLeast(c, "stc", Margin - 2 * ClientDelay - late[c])
     \/ clnt[c] = "done" /\ \A k \in Pipes : Joined(c, k)
Scheduled(c) ==
  /\ \/ Before(c)
     \/ hs[c] = "parse" /\ clnt[c] = "read" /\ late[c] = 0
     \/ Sleeping(c) \/ Answered(c)
     \/ hs[c] = "success" /\ clnt[c] = "done"
  /\ ack[c] # NoSid <=> hs[c] = "get" /\ clnt[c] = "read"
OnSchedule == prompt => \A c \in Clients : Scheduled(c)

IInv == TypeOK /\ IdsOwn /\ PipesOwn /\ OutcomeFinal

USE TimesAssumption, SwitchesAssumption, ClientsAssumption DEF At, Step, Become, server, client

\* A timer that was set, and one that runs, is a number of ticks.
LEMMA TimersAreTicks ==
  /\ \A n \in Nat : Timer(n) \in Nat /\ Timer(n) <= n
  /\ \A n \in Nat : Less(n) \in Nat /\ Less(n) <= n
  /\ AcceptTimeout = pipe_server_timeout
  BY DEF Timer, Less, AcceptTimeout

\* Every step preserves the types.
LEMMA TypeStep == TypeOK /\ [Next]_vars => TypeOK'
<1> SUFFICES ASSUME TypeOK, [Next]_vars PROVE TypeOK'
  OBVIOUS
<1> USE DEF TypeOK, FirstSid, NoSid, Pipes
<1>1. ASSUME NEW c \in Clients, ClientStep(c) PROVE TypeOK'
  <2>1. CASE Connect(c)
    BY <2>1 DEF Connect, _generate_sid
  <2>2. CASE SendHello(c)
    BY <2>2 DEF SendHello
  <2>3. CASE ReadAck(c)
    BY <2>3 DEF ReadAck
  <2>4. CASE ReadAckPart(c)
    BY <2>4 DEF ReadAckPart
  <2>5. ASSUME NEW k \in Pipes, ConnectPipe(c, k) PROVE TypeOK'
    <3>1. PICK s \in Clients :
            /\ task' = [task EXCEPT ![s][k] = "connected"]
            /\ peer' = [peer EXCEPT ![s][k] = c]
      BY <2>5 DEF ConnectPipe, Listening
    <3>2. /\ task' \in [Clients -> [Pipes -> {"none", "starting", "listening", "connected", "accepted", "timedout"}]]
          /\ peer' \in [Clients -> [Pipes -> Clients \cup {None}]]
      BY <3>1
    <3> QED BY <2>5, <3>2 DEF ConnectPipe
  <2>6. CASE ConnectPipeFails(c)
    BY <2>6 DEF ConnectPipeFails
  <2> QED BY <1>1, <2>1, <2>2, <2>3, <2>4, <2>5, <2>6 DEF ClientStep
<1>2. ASSUME NEW c \in Clients, Die(c) PROVE TypeOK'
  BY <1>2 DEF Die
<1>3. ASSUME NEW c \in Clients, ServerStep(c) PROVE TypeOK'
  <2>1. CASE Parse(c)
    <3>1. CASE UNCHANGED <<type, task, wait, left>>
      BY <2>1, <3>1 DEF Parse
    <3>2. CASE /\ type' = At(type, c, "native")
               /\ task' = At(task, c, [k \in Pipes |-> "starting"])
               /\ wait' = At(wait, c, [k \in Pipes |-> Timer(StartDelay)])
               /\ left' = At(left, c, Timer(SleepTime))
      <4>1. wait' \in [Clients -> [Pipes -> Nat]] /\ left' \in [Clients -> 0 .. SleepTime]
        BY <3>2, TimersAreTicks
      <4>2. task' \in [Clients -> [Pipes -> {"none", "starting", "listening", "connected", "accepted", "timedout"}]]
        BY <3>2
      <4> QED BY <2>1, <3>2, <4>1, <4>2 DEF Parse
    <3> QED BY <2>1, <3>1, <3>2 DEF Parse
  <2>2. CASE SendAck(c)
    BY <2>2 DEF SendAck
  <2>3. CASE Get(c)
    BY <2>3 DEF Get, BothAccepted
  <2> QED BY <1>3, <2>1, <2>2, <2>3 DEF ServerStep
<1>4. ASSUME NEW c \in Clients, NEW k \in Pipes, TaskStep(c, k) PROVE TypeOK'
  <2>1. CASE TaskListens(c, k)
    <3>1. wait' \in [Clients -> [Pipes -> Nat]]
      BY <2>1, TimersAreTicks DEF TaskListens
    <3> QED BY <2>1, <3>1 DEF TaskListens
  <2>2. CASE TaskTimesOut(c, k)
    BY <2>2 DEF TaskTimesOut
  <2>3. CASE TaskAccepts(c, k)
    BY <2>3 DEF TaskAccepts
  <2> QED BY <1>4, <2>1, <2>2, <2>3 DEF TaskStep
<1>5. CASE Tick
  <2>1. /\ left' \in [Clients -> 0 .. SleepTime]
        /\ wait' \in [Clients -> [Pipes -> Nat]]
        /\ late' \in [Clients -> Nat]
    BY <1>5, TimersAreTicks DEF Tick
  <2> QED BY <1>5, <2>1 DEF Tick
<1>6. CASE UNCHANGED vars
  BY <1>6 DEF vars
<1> QED BY <1>1, <1>2, <1>3, <1>4, <1>5, <1>6 DEF Next

\* The initial state satisfies the inductive invariants.
LEMMA InitIInv == Init => IInv /\ OnSchedule
<1> SUFFICES ASSUME Init PROVE IInv /\ OnSchedule
  OBVIOUS
<1>1. TypeOK
  BY DEF Init, TypeOK, FirstSid, NoSid
<1>2. IdsOwn /\ PipesOwn /\ OutcomeFinal
  BY DEF Init, IdsOwn, PipesOwn, OutcomeFinal, Pipes
<1>3. OnSchedule
  BY DEF Init, OnSchedule, Scheduled, Before
<1> QED BY <1>1, <1>2, <1>3 DEF IInv

-----------------------------------------------------------------------------
(* Safety, whatever the timing.                                            *)

\* The counter hands out each id once, and only a session's client learns it.
LEMMA IdsStep == TypeOK /\ IdsOwn /\ [Next]_vars => IdsOwn'
<1> SUFFICES ASSUME TypeOK, IdsOwn, [Next]_vars PROVE IdsOwn'
  OBVIOUS
<1> USE DEF TypeOK, IdsOwn
<1>1. ASSUME NEW c \in Clients, ClientStep(c) PROVE IdsOwn'
  <2>1. CASE Connect(c)
    <3>1. /\ sid' = [sid EXCEPT ![c] = next_sid] /\ next_sid # NoSid
          /\ \A d \in Clients : sid[d] # next_sid
      BY <2>1 DEF Connect, _generate_sid, FirstSid, NoSid
    <3>2. sid[c] = NoSid /\ ack[c] = NoSid /\ id[c] = NoSid /\ hs[c] = "none"
      BY <2>1 DEF Connect
    <3> QED BY <2>1, <3>1, <3>2 DEF Connect, Pipes
  <2>2. CASE SendHello(c)
    BY <2>2 DEF SendHello, Pipes
  <2>3. CASE ReadAck(c)
    BY <2>3 DEF ReadAck, Pipes
  <2>4. CASE ReadAckPart(c)
    BY <2>4 DEF ReadAckPart, Pipes
  <2>5. ASSUME NEW k \in Pipes, ConnectPipe(c, k) PROVE IdsOwn'
    BY <2>5 DEF ConnectPipe, Pipes
  <2>6. CASE ConnectPipeFails(c)
    BY <2>6 DEF ConnectPipeFails, Pipes
  <2> QED BY <1>1, <2>1, <2>2, <2>3, <2>4, <2>5, <2>6 DEF ClientStep
<1>2. ASSUME NEW c \in Clients, Die(c) PROVE IdsOwn'
  BY <1>2 DEF Die, Pipes
<1>3. ASSUME NEW c \in Clients, ServerStep(c) PROVE IdsOwn'
  <2>1. CASE Parse(c) \/ Get(c)
    BY <2>1 DEF Parse, Get
  <2>2. CASE SendAck(c)
    BY <2>2 DEF SendAck
  <2> QED BY <1>3, <2>1, <2>2 DEF ServerStep
<1>4. ASSUME NEW c \in Clients, NEW k \in Pipes, TaskStep(c, k) PROVE IdsOwn'
  BY <1>4 DEF TaskStep, TaskListens, TaskAccepts, TaskTimesOut
<1>5. CASE Tick
  BY <1>5 DEF Tick
<1>6. CASE UNCHANGED vars
  BY <1>6 DEF vars
<1> QED BY <1>1, <1>2, <1>3, <1>4, <1>5, <1>6 DEF Next

\* The pipe a client connects to is its own session's: ids are not shared.
LEMMA OwnPipe ==
  ASSUME TypeOK, IdsOwn, NEW c \in Clients, NEW k \in Pipes, clnt[c] = k
  PROVE  Listening(id[c], k) = IF task[c][k] = "listening" THEN {c} ELSE {}
<1>1. id[c] = sid[c] /\ id[c] # NoSid
  BY DEF IdsOwn
<1>2. \A s \in Clients : sid[s] = id[c] <=> s = c
  BY <1>1 DEF IdsOwn
<1> QED BY <1>2 DEF Listening

\* So a pipe is connected to by its own client, at that client's place.
LEMMA PipesStep ==
  TypeOK /\ IdsOwn /\ PipesOwn /\ OutcomeFinal /\ [Next]_vars => PipesOwn' /\ OutcomeFinal'
<1> SUFFICES ASSUME TypeOK, IdsOwn, PipesOwn, OutcomeFinal, [Next]_vars
             PROVE  PipesOwn' /\ OutcomeFinal'
  OBVIOUS
<1> USE DEF TypeOK, PipesOwn, OutcomeFinal, Pipes
<1>1. ASSUME NEW c \in Clients, ClientStep(c) PROVE PipesOwn' /\ OutcomeFinal'
  <2>1. CASE Connect(c)
    BY <2>1 DEF Connect
  <2>2. CASE SendHello(c)
    BY <2>2 DEF SendHello
  <2>3. CASE ReadAck(c)
    BY <2>3 DEF ReadAck, IdsOwn
  <2>4. CASE ReadAckPart(c)
    BY <2>4 DEF ReadAckPart
  <2>5. ASSUME NEW k \in Pipes, ConnectPipe(c, k) PROVE PipesOwn' /\ OutcomeFinal'
    <3>1. /\ task[c][k] = "listening"
          /\ task' = [task EXCEPT ![c][k] = "connected"]
          /\ peer' = [peer EXCEPT ![c][k] = c]
      <4>1. PICK s \in Listening(id[c], k) :
              /\ task' = [task EXCEPT ![s][k] = "connected"]
              /\ peer' = [peer EXCEPT ![s][k] = c]
        BY <2>5 DEF ConnectPipe
      <4>2. clnt[c] = k
        BY <2>5 DEF ConnectPipe
      <4>3. Listening(id[c], k) = IF task[c][k] = "listening" THEN {c} ELSE {}
        BY <4>2, OwnPipe
      <4>4. s = c /\ task[c][k] = "listening"
        BY <4>1, <4>3
      <4> QED BY <4>1, <4>4
    <3>2. id[c] # NoSid /\ UNCHANGED <<hs, streams, id>>
      BY <2>5 DEF ConnectPipe, IdsOwn
    <3>3. clnt[c] = k /\ clnt' = [clnt EXCEPT ![c] = IF k = "cts" THEN "stc" ELSE "done"]
      BY <2>5 DEF ConnectPipe
    <3>4. OutcomeFinal'
      BY <3>1, <3>2, <3>3
    <3>5. PipesOwn'
      <4>1. /\ task'[c][k] = "connected" /\ peer'[c][k] = c
            /\ \A j \in Pipes \ {k} : task'[c][j] = task[c][j] /\ peer'[c][j] = peer[c][j]
            /\ clnt'[c] = IF k = "cts" THEN "stc" ELSE "done"
        BY <3>1, <3>3
      <4>2. \A d \in Clients \ {c} :
              task'[d] = task[d] /\ peer'[d] = peer[d] /\ clnt'[d] = clnt[d]
        BY <3>1, <3>3
      <4>3. k = "cts" => peer[c]["stc"] # c
        BY <3>3
      <4>4. k = "stc" => peer[c]["cts"] = c
        BY <3>3
      <4> QED BY <3>2, <4>1, <4>2, <4>3, <4>4
    <3> QED BY <3>4, <3>5
  <2>6. CASE ConnectPipeFails(c)
    BY <2>6 DEF ConnectPipeFails
  <2> QED BY <1>1, <2>1, <2>2, <2>3, <2>4, <2>5, <2>6 DEF ClientStep
<1>2. ASSUME NEW c \in Clients, Die(c) PROVE PipesOwn' /\ OutcomeFinal'
  BY <1>2 DEF Die
<1>3. ASSUME NEW c \in Clients, ServerStep(c) PROVE PipesOwn' /\ OutcomeFinal'
  <2>1. CASE Parse(c)
    <3>1. \A k \in Pipes : task[c][k] = "none"
      BY <2>1 DEF Parse
    <3>2. CASE task' = [task EXCEPT ![c] = [k \in Pipes |-> "starting"]] /\ hs' = [hs EXCEPT ![c] = "sleep"]
      BY <2>1, <3>1, <3>2 DEF Parse
    <3>3. CASE UNCHANGED task /\ hs' = [hs EXCEPT ![c] = "rejected"]
      BY <2>1, <3>1, <3>3 DEF Parse
    <3> QED BY <2>1, <3>2, <3>3 DEF Parse
  <2>2. CASE SendAck(c)
    BY <2>2 DEF SendAck
  <2>3. CASE Get(c)
    <3>1. BothAccepted(c) \/ \E k \in Pipes : task[c][k] = "timedout"
      BY <2>3 DEF Get, BothAccepted, Ended
    <3> QED BY <2>3, <3>1 DEF Get, BothAccepted
  <2> QED BY <1>3, <2>1, <2>2, <2>3 DEF ServerStep
<1>4. ASSUME NEW c \in Clients, NEW k \in Pipes, TaskStep(c, k) PROVE PipesOwn' /\ OutcomeFinal'
  <2>1. PICK l \in {"listening", "accepted", "timedout"} :
          /\ task' = [task EXCEPT ![c][k] = l]
          /\ \/ l = "listening" /\ task[c][k] = "starting"
             \/ l = "accepted" /\ task[c][k] = "connected"
             \/ l = "timedout" /\ task[c][k] \in {"listening", "connected"}
          /\ UNCHANGED <<hs, peer, streams, clnt, id>>
    BY <1>4 DEF TaskStep, TaskListens, TaskAccepts, TaskTimesOut
  <2>2. \A d \in Clients : \A j \in Pipes :
          /\ task'[d][j] = IF d = c /\ j = k THEN l ELSE task[d][j]
          /\ task[d][j] = "accepted" => task'[d][j] = "accepted"
          /\ task[d][j] = "timedout" => task'[d][j] = "timedout"
          /\ task[d][j] = "none" <=> task'[d][j] = "none"
    BY <2>1
  <2>3. PipesOwn'
    BY <2>1, <2>2
  <2>4. OutcomeFinal'
    BY <2>1, <2>2
  <2> QED BY <2>3, <2>4
<1>5. CASE Tick
  BY <1>5 DEF Tick
<1>6. CASE UNCHANGED vars
  BY <1>6 DEF vars
<1> QED BY <1>1, <1>2, <1>3, <1>4, <1>5, <1>6 DEF Next

-----------------------------------------------------------------------------
(* Prompt handshakes.                                                      *)

\* The step is one of c and its session: all others stay as they are, and on schedule.
OnlyOf(c) ==
  \A d \in Clients \ {c} :
    /\ hs'[d] = hs[d] /\ clnt'[d] = clnt[d] /\ late'[d] = late[d] /\ left'[d] = left[d]
    /\ task'[d] = task[d] /\ wait'[d] = wait[d] /\ ack'[d] = ack[d]

LEMMA OthersKeep ==
  ASSUME NEW c \in Clients, OnlyOf(c), NEW d \in Clients \ {c}, Scheduled(d)
  PROVE  Scheduled(d)'
  BY DEF OnlyOf, Scheduled, Before, Sleeping, Answered, WaitAtLeast, Joined

\* A prompt timer is exact.
LEMMA PromptTimer == prompt => \A n \in Nat : Timer(n) = n
  BY DEF Timer

\* The margins of a wait that has not ended.
LEMMA Margins ==
  DelaysFit => /\ Margin \in Int /\ Margin > 3 * ClientDelay /\ Margin > 0
               /\ SleepTime - StartDelay > 0
  BY DEF DelaysFit, Margin

\* A task of a prompt handshake that waits for its client, or is about to return, has
\* time left.
LEMMA TimeLeft ==
  ASSUME DelaysFit, TypeOK, PipesOwn, OutcomeFinal,
         NEW c \in Clients, Scheduled(c), NEW k \in Pipes, task[c][k] \in {"listening", "connected"}
  PROVE  wait[c][k] > 0
<1> USE Margins DEF TypeOK
<1>1. CASE Before(c) \/ hs[c] = "parse"
  BY <1>1 DEF Before, OutcomeFinal
<1>2. CASE Sleeping(c)
  <2>1. wait[c][k] >= left[c] + Margin
    BY <1>2 DEF Sleeping, WaitAtLeast
  <2>2. left[c] \in Nat /\ wait[c][k] \in Nat
    OBVIOUS
  <2> QED BY <2>1, <2>2
<1>3. CASE Answered(c)
  <2>1. k = "cts" \/ k = "stc"
    BY DEF Pipes
  <2> QED BY <1>3, <2>1 DEF Answered, WaitAtLeast, Joined
<1>4. CASE hs[c] = "success"
  BY <1>4 DEF OutcomeFinal
<1> QED BY <1>1, <1>2, <1>3, <1>4 DEF Scheduled

\* A prompt client finds the pipe it connects to listening.
LEMMA FindsPipe ==
  ASSUME NEW c \in Clients, NEW k \in Pipes, Scheduled(c), clnt[c] = k
  PROVE  Answered(c) /\ task[c][k] = "listening"
  BY DEF Scheduled, Before, Sleeping, Answered, WaitAtLeast, Pipes

\* The client's steps keep it on schedule.
LEMMA ClientOnTime ==
  ASSUME DelaysFit, prompt, TypeOK, IdsOwn, PipesOwn, OutcomeFinal,
         NEW c \in Clients, Scheduled(c), ClientStep(c)
  PROVE  Scheduled(c)' /\ OnlyOf(c)
<1> USE Margins DEF TypeOK, OnlyOf
<1>1. CASE Connect(c)
  <2>1. Before(c) /\ ack[c] = NoSid
    BY <1>1 DEF Connect, Scheduled, Before, Sleeping, Answered
  <2> QED BY <1>1, <2>1 DEF Connect, Scheduled, Before
<1>2. CASE SendHello(c)
  <2>1. Before(c) /\ ack[c] = NoSid
    BY <1>2 DEF SendHello, Scheduled, Before, Sleeping, Answered
  <2> QED BY <1>2, <2>1 DEF SendHello, Scheduled, Before
<1>3. CASE ReadAck(c)
  <2>1. Answered(c) /\ clnt[c] = "read"
    BY <1>3 DEF ReadAck, Scheduled, Before, Sleeping
  <2>2. \A k \in Pipes : WaitAtLeast(c, k, Margin - ClientDelay)
    BY <2>1 DEF Answered, WaitAtLeast
  <2>3. /\ clnt'[c] = "cts" /\ late'[c] = 0 /\ ack'[c] = NoSid
        /\ UNCHANGED <<hs, task, wait, left>>
    BY <1>3 DEF ReadAck
  <2>4. Answered(c)'
    BY <2>1, <2>2, <2>3 DEF Answered, WaitAtLeast
  <2> QED BY <1>3, <2>3, <2>4 DEF ReadAck, Scheduled
<1>4. CASE ReadAckPart(c)
  BY <1>4 DEF ReadAckPart
<1>5. ASSUME NEW k \in Pipes, ConnectPipe(c, k)
      PROVE  Scheduled(c)' /\ OnlyOf(c)
  <2>1. clnt[c] = k
    BY <1>5 DEF ConnectPipe
  <2>2. Answered(c) /\ Listening(id[c], k) = {c}
    BY <2>1, FindsPipe, OwnPipe
  <2>3. /\ task' = [task EXCEPT ![c][k] = "connected"]
        /\ clnt' = [clnt EXCEPT ![c] = IF k = "cts" THEN "stc" ELSE "done"]
        /\ late' = [late EXCEPT ![c] = 0]
        /\ UNCHANGED <<hs, left, ack, wait>>
    BY <1>5, <2>2 DEF ConnectPipe
  <2>4. Joined(c, k)' /\ ack[c] = NoSid
    <3>1. wait[c][k] > 0
      BY <2>1, <2>2, FindsPipe, TimeLeft
    <3>2. ack[c] = NoSid
      BY <2>1 DEF Scheduled, Pipes
    <3> QED BY <2>3, <3>1, <3>2 DEF Joined
  <2>5. CASE k = "cts"
    <3>1. WaitAtLeast(c, "stc", Margin - 2 * ClientDelay)
      BY <2>1, <2>2, <2>5 DEF Answered, WaitAtLeast, Pipes
    <3>2. Answered(c)'
      BY <2>2, <2>3, <2>4, <2>5, <3>1 DEF Answered, WaitAtLeast, Pipes
    <3> QED BY <2>3, <2>4, <2>5, <3>2 DEF Scheduled
  <2>6. CASE k = "stc"
    <3>1. Joined(c, "cts")
      BY <2>1, <2>2, <2>6 DEF Answered
    <3>2. Joined(c, "cts")'
      BY <2>3, <2>6, <3>1 DEF Joined, Pipes
    <3>3. Answered(c)'
      BY <2>2, <2>3, <2>4, <2>6, <3>2 DEF Answered, Pipes
    <3> QED BY <2>3, <2>4, <2>6, <3>3 DEF Scheduled
  <2> QED BY <2>5, <2>6 DEF Pipes
<1>6. CASE ConnectPipeFails(c)
  <2>1. PICK k \in Pipes : clnt[c] = k /\ Listening(id[c], k) = {}
    BY <1>6 DEF ConnectPipeFails
  <2>2. Listening(id[c], k) = {c}
    BY <2>1, FindsPipe, OwnPipe
  <2> QED BY <2>1, <2>2
<1> QED BY <1>1, <1>2, <1>3, <1>4, <1>5, <1>6 DEF ClientStep

\* So do its session's handshake thread and accept tasks.
LEMMA ServerOnTime ==
  ASSUME DelaysFit, prompt, TypeOK, IdsOwn, PipesOwn, OutcomeFinal,
         NEW c \in Clients, Scheduled(c), ServerStep(c)
  PROVE  Scheduled(c)' /\ OnlyOf(c)
<1> USE Margins, PromptTimer DEF TypeOK, OnlyOf
<1>1. CASE Parse(c)
  <2>1. clnt[c] = "read" /\ late[c] = 0 /\ ack[c] = NoSid
    BY <1>1 DEF Parse, Scheduled, Before, Sleeping, Answered
  <2>2. /\ task' = [task EXCEPT ![c] = [k \in Pipes |-> "starting"]]
        /\ wait' = [wait EXCEPT ![c] = [k \in Pipes |-> StartDelay]]
        /\ left' = [left EXCEPT ![c] = SleepTime]
        /\ hs' = [hs EXCEPT ![c] = "sleep"]
        /\ UNCHANGED <<clnt, late, ack>>
    BY <1>1 DEF Parse
  <2>3. Sleeping(c)'
    BY <2>1, <2>2 DEF Sleeping
  <2> QED BY <2>1, <2>2, <2>3 DEF Scheduled
<1>2. CASE SendAck(c)
  <2>1. Sleeping(c) /\ left[c] = 0
    BY <1>2 DEF SendAck, AckAllowed, Scheduled, Before, Answered
  <2>2. \A k \in Pipes : WaitAtLeast(c, k, Margin)
    BY <2>1 DEF Sleeping, WaitAtLeast
  <2>3. /\ hs' = [hs EXCEPT ![c] = "get"] /\ ack' = [ack EXCEPT ![c] = sid[c]] /\ sid[c] # NoSid
        /\ left' = [left EXCEPT ![c] = 0]
        /\ UNCHANGED <<clnt, late, task, wait>>
    BY <1>2 DEF SendAck, IdsOwn
  <2>4. Answered(c)'
    BY <2>1, <2>2, <2>3 DEF Sleeping, Answered, WaitAtLeast
  <2> QED BY <2>1, <2>3, <2>4 DEF Scheduled, Sleeping
<1>3. CASE Get(c)
  <2>1. Answered(c) /\ \A k \in Pipes : task[c][k] \notin {"listening", "connected"}
    BY <1>3 DEF Get, Ended, Scheduled, Before, Sleeping
  <2>2. clnt[c] = "done" /\ BothAccepted(c)
    BY <2>1 DEF Answered, WaitAtLeast, Joined, BothAccepted, Pipes
  <2>3. ack[c] = NoSid
    BY <2>2 DEF Scheduled
  <2> QED BY <1>3, <2>2, <2>3 DEF Get, Scheduled
<1> QED BY <1>1, <1>2, <1>3 DEF ServerStep

LEMMA TaskOnTime ==
  ASSUME DelaysFit, prompt, TypeOK, PipesOwn, OutcomeFinal,
         NEW c \in Clients, NEW k \in Pipes, Scheduled(c), TaskStep(c, k)
  PROVE  Scheduled(c)' /\ OnlyOf(c)
<1> USE Margins, PromptTimer DEF TypeOK, OnlyOf
<1>1. CASE TaskListens(c, k)
  <2>1. task[c][k] = "starting"
    BY <1>1 DEF TaskListens
  <2>2. Sleeping(c)
    <3>1. k = "cts" \/ k = "stc"
      BY DEF Pipes
    <3>2. ~Answered(c)
      BY <2>1, <3>1 DEF Answered, WaitAtLeast, Joined
    <3>3. hs[c] # "success"
      BY <2>1 DEF OutcomeFinal
    <3> QED BY <2>1, <3>2, <3>3 DEF Scheduled, Before, OutcomeFinal
  <2>3. /\ task' = [task EXCEPT ![c][k] = "listening"]
        /\ wait' = [wait EXCEPT ![c][k] = pipe_server_timeout]
        /\ UNCHANGED <<hs, clnt, late, left, ack>>
    BY <1>1 DEF TaskListens, AcceptTimeout
  <2>4. WaitAtLeast(c, k, left[c] + Margin)'
    BY <2>3 DEF WaitAtLeast, Margin
  <2>5. Sleeping(c)'
    BY <2>2, <2>3, <2>4 DEF Sleeping, WaitAtLeast
  <2> QED BY <2>2, <2>3, <2>5 DEF Scheduled, Sleeping
<1>2. CASE TaskTimesOut(c, k)
  BY <1>2, TimeLeft DEF TaskTimesOut
<1>3. CASE TaskAccepts(c, k)
  <2>1. /\ task[c][k] = "connected"
        /\ task' = [task EXCEPT ![c][k] = "accepted"]
        /\ wait' = [wait EXCEPT ![c][k] = 0]
        /\ UNCHANGED <<hs, clnt, late, left, ack>>
    BY <1>3 DEF TaskAccepts
  <2>2. Answered(c)
    <3>1. ~Before(c) /\ hs[c] # "parse" /\ hs[c] # "success"
      BY <2>1 DEF Before, OutcomeFinal
    <3>2. ~Sleeping(c)
      BY <2>1 DEF Sleeping, WaitAtLeast
    <3> QED BY <3>1, <3>2 DEF Scheduled
  <2>3. \A j \in Pipes : /\ Joined(c, j) => Joined(c, j)'
                        /\ task[c][j] = "listening" => task'[c][j] = task[c][j] /\ wait'[c][j] = wait[c][j]
    <3>1. \A j \in Pipes \ {k} : task'[c][j] = task[c][j] /\ wait'[c][j] = wait[c][j]
      BY <2>1
    <3>2. task'[c][k] = "accepted"
      BY <2>1
    <3>3. ASSUME NEW j \in Pipes PROVE Joined(c, j) => Joined(c, j)'
      BY <3>1, <3>2 DEF Joined
    <3> QED BY <2>1, <3>1, <3>3
  <2>4. Answered(c)'
    <3> USE <2>1, <2>2, <2>3 DEF Answered, WaitAtLeast, Joined, Pipes
    <3>1. CASE clnt[c] = "read"
      BY <3>1
    <3>2. CASE clnt[c] = "cts"
      BY <3>2
    <3>3. CASE clnt[c] = "stc"
      BY <3>3
    <3>4. CASE clnt[c] = "done"
      BY <3>4
    <3> QED BY <3>1, <3>2, <3>3, <3>4
  <2> QED BY <2>1, <2>2, <2>4 DEF Scheduled
<1> QED BY <1>1, <1>2, <1>3 DEF TaskStep

\* A tick passes for all at once, and only when nobody has used up its delay.
LEMMA TickOnTime ==
  ASSUME DelaysFit, prompt, TypeOK, PipesOwn, OutcomeFinal,
         NEW c \in Clients, Scheduled(c), Tick
  PROVE  Scheduled(c)'
<1> USE Margins DEF TypeOK
<1>1. /\ left'[c] = Less(left[c])
      /\ \A k \in Pipes : wait'[c][k] = Less(wait[c][k])
      /\ late'[c] = IF Ready(c) THEN late[c] + 1 ELSE 0
      /\ UNCHANGED <<hs, clnt, task, ack>>
  BY DEF Tick
<1>2. /\ hs[c] # "parse"
      /\ hs[c] = "sleep" => left[c] > 0
      /\ \A k \in Pipes : /\ task[c][k] \in {"starting", "listening"} => wait[c][k] > 0
                         /\ task[c][k] # "connected"
      /\ Ready(c) => late[c] < ClientDelay
  BY DEF Tick, NothingDue
<1>3. \A k \in Pipes : task[c][k] \in {"starting", "listening"} => wait'[c][k] = wait[c][k] - 1
  BY <1>1, <1>2 DEF Less
<1>4. CASE Before(c)
  BY <1>1, <1>4 DEF Before, Scheduled
<1>5. CASE Sleeping(c)
  <2>1. left'[c] = left[c] - 1 /\ late'[c] = 0
    <3>1. ack[c] = NoSid
      BY <1>5 DEF Scheduled, Sleeping
    <3> QED BY <1>1, <1>2, <1>5, <3>1 DEF Sleeping, Less, Ready, Pipes
  <2>2. ASSUME NEW k \in Pipes
        PROVE  \/ task'[c][k] = "starting" /\ wait'[c][k] = left'[c] - (SleepTime - StartDelay)
               \/ WaitAtLeast(c, k, left[c] + Margin)'
    <3>1. CASE task[c][k] = "starting"
      <4>1. wait[c][k] = left[c] - (SleepTime - StartDelay)
        BY <1>5, <3>1 DEF Sleeping, WaitAtLeast
      <4>2. wait'[c][k] = wait[c][k] - 1
        BY <1>3, <3>1
      <4>3. left[c] \in Nat /\ task'[c][k] = "starting"
        BY <1>1, <3>1
      <4> QED BY <2>1, <4>1, <4>2, <4>3
    <3>2. CASE WaitAtLeast(c, k, left[c] + Margin)
      BY <1>1, <1>3, <2>1, <3>2 DEF WaitAtLeast
    <3> QED BY <1>5, <3>1, <3>2 DEF Sleeping
  <2>3. Sleeping(c)'
    BY <1>1, <1>5, <2>1, <2>2 DEF Sleeping, WaitAtLeast
  <2> QED BY <1>1, <1>5, <2>3 DEF Scheduled, Sleeping
<1>6. CASE Answered(c)
  <2>1. CASE clnt[c] = "done"
    BY <1>1, <1>2, <1>6, <2>1 DEF Answered, Scheduled, Ready, Pipes, Joined
  <2>2. CASE clnt[c] \in {"read"} \cup Pipes
    <3>1. Ready(c) /\ late'[c] = late[c] + 1 /\ late[c] < ClientDelay
      BY <1>1, <1>2, <1>6, <2>2 DEF Ready, Scheduled, Answered
    <3>2. ASSUME clnt[c] = "read" PROVE \A k \in Pipes : WaitAtLeast(c, k, Margin - late[c])'
      BY <1>1, <1>3, <1>6, <3>1, <3>2 DEF Answered, WaitAtLeast
    <3>3. ASSUME clnt[c] = "cts"
          PROVE  \A k \in Pipes : WaitAtLeast(c, k, Margin - ClientDelay - late[c])'
      BY <1>1, <1>3, <1>6, <3>1, <3>3 DEF Answered, WaitAtLeast
    <3>4. ASSUME clnt[c] = "stc"
          PROVE  /\ Joined(c, "cts")'
                 /\ WaitAtLeast(c, "stc", Margin - 2 * ClientDelay - late[c])'
      BY <1>1, <1>2, <1>3, <1>6, <3>1, <3>4 DEF Answered, WaitAtLeast, Joined, Pipes
    <3>5. Answered(c)'
      BY <1>1, <1>6, <2>2, <3>1, <3>2, <3>3, <3>4 DEF Answered, Pipes
    <3> QED BY <1>1, <3>5 DEF Scheduled
  <2> QED BY <1>6, <2>1, <2>2 DEF Answered, Pipes
<1>7. CASE hs[c] = "success" /\ clnt[c] = "done"
  BY <1>1, <1>7 DEF Scheduled
<1> QED BY <1>2, <1>4, <1>5, <1>6, <1>7 DEF Scheduled

\* Every step keeps a prompt handshake on schedule.
LEMMA ScheduleStep == DelaysFit /\ IInv /\ OnSchedule /\ [Next]_vars => OnSchedule'
<1> SUFFICES ASSUME DelaysFit, IInv, OnSchedule, [Next]_vars, prompt' PROVE OnSchedule'
  BY DEF OnSchedule
<1>1. prompt
  BY DEF Next, ClientStep, ServerStep, TaskStep, Connect, SendHello, ReadAck, ReadAckPart, ConnectPipe,
     ConnectPipeFails, Die, Parse, SendAck, Get, TaskListens, TaskAccepts, TaskTimesOut, Tick, vars
<1>2. \A c \in Clients : Scheduled(c)
  BY <1>1 DEF OnSchedule
<1>3. ASSUME NEW c \in Clients, ClientStep(c) PROVE OnSchedule'
  BY <1>1, <1>2, <1>3, ClientOnTime, OthersKeep DEF OnSchedule, IInv
<1>4. ASSUME NEW c \in Clients, ServerStep(c) PROVE OnSchedule'
  BY <1>1, <1>2, <1>4, ServerOnTime, OthersKeep DEF OnSchedule, IInv
<1>5. ASSUME NEW c \in Clients, NEW k \in Pipes, TaskStep(c, k) PROVE OnSchedule'
  BY <1>1, <1>2, <1>5, TaskOnTime, OthersKeep DEF OnSchedule, IInv
<1>6. CASE Tick
  BY <1>1, <1>2, <1>6, TickOnTime DEF OnSchedule, IInv
<1>7. CASE UNCHANGED vars
  BY <1>7 DEF vars, OnSchedule, Scheduled, Before, Sleeping, Answered, WaitAtLeast, Joined
<1>8. ~\E c \in Clients : Die(c)
  BY <1>1 DEF Die
<1> QED BY <1>3, <1>4, <1>5, <1>6, <1>7, <1>8 DEF Next

-----------------------------------------------------------------------------
(* The theorems.                                                           *)

\* Every reachable state of the handshakes is well typed.
THEOREM TypeCorrect == Spec => []TypeOK
<1>1. Init => TypeOK
  BY InitIInv DEF IInv
<1> QED BY <1>1, TypeStep, PTL DEF Spec

\* The inductive invariant holds whatever the timing, what is lost and who is killed.
THEOREM Invariance == Spec => []IInv
<1>1. Init => IInv
  BY InitIInv
<1>2. IInv /\ [Next]_vars => IInv'
  BY TypeStep, IdsStep, PipesStep DEF IInv
<1> QED BY <1>1, <1>2, PTL DEF Spec

\* gateway.cpp:378-392: a handshake that succeeds has joined the session to its own client.
THEOREM SuccessIsAgreed == Spec => []SuccessAgreed
<1>1. IInv => SuccessAgreed
  BY DEF IInv, IdsOwn, PipesOwn, OutcomeFinal, SuccessAgreed, Pipes
<1> QED BY <1>1, Invariance, PTL

\* gateway.cpp:378-392 against native_session.cpp:99-118: the two sides disagree only if
\* an accept's timeout crossed with its client's connect.
THEOREM NoneOneSided == Spec => []NeverOneSided
<1>1. IInv => NeverOneSided
  BY DEF IInv, PipesOwn, OutcomeFinal, NeverOneSided, Crossed, Pipes
<1> QED BY <1>1, Invariance, PTL

\* protocol.h:29-30: no timeout of a handshake expires between sides that keep delays
\* which fit into the sleep and the timeout.
THEOREM PromptSucceed == ASSUME DelaysFit PROVE Spec => []PromptSucceeds
<1>1. Init => IInv /\ OnSchedule
  BY InitIInv
<1>2. IInv /\ OnSchedule /\ [Next]_vars => (IInv /\ OnSchedule)'
  BY TypeStep, IdsStep, PipesStep, ScheduleStep DEF IInv
<1>3. OnSchedule => PromptSucceeds
  BY DEF OnSchedule, Scheduled, Before, Sleeping, Answered, PromptSucceeds
<1> QED BY <1>1, <1>2, <1>3, PTL DEF Spec
=============================================================================
