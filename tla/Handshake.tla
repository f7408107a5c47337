------------------------------ MODULE Handshake ------------------------------
(***************************************************************************)
(* The handshake that opens a client's two message pipes.                  *)
(*                                                                         *)
(* Framework: gateway::_on_client_connected gives the session its id; once *)
(* the hello message is read, query_processing::handshake runs in a thread *)
(* of its own: it starts two accept tasks, sleeps, sends the session id    *)
(* and waits for both tasks.  Client: connect_to_local_framework sends the *)
(* hello, reads the id and connects to the two pipes named after it.       *)
(*                                                                         *)
(* Either everything goes well (prompt): time is counted in ticks, every   *)
(* thread that can run does so within its delay and timers are not late.   *)
(* Or nothing is promised: a thread may be suspended for as long as the    *)
(* scheduler likes, and since every other thread may be too, a timer may   *)
(* expire at any moment after it was set; reads may end anywhere and       *)
(* clients may be killed.                                                  *)
(*                                                                         *)
(* There is one session per client; it is named after the client.          *)
(***************************************************************************)
EXTENDS Integers

CONSTANTS
  Clients,            \* native clients, each connecting once
  SleepTime,          \* the sleep before the acknowledgement (1 s)
  pipe_server_timeout,\* how long an accept waits for its client (5 s)
  StartDelay,         \* prompt: ticks until a task that was launched listens
  ClientDelay,        \* prompt: ticks a client may take for each step
  CutHello,           \* else: the stream layer may lose the hello's data (SessionStream)
  CutAck,             \* else: the client may read the acknowledgement's data in two parts
  Deaths              \* else: client processes may be killed

ASSUME TimesAssumption ==
  SleepTime \in Nat /\ pipe_server_timeout \in Nat /\ StartDelay \in Nat /\ ClientDelay \in Nat
ASSUME SwitchesAssumption ==
  CutHello \in BOOLEAN /\ CutAck \in BOOLEAN /\ Deaths \in BOOLEAN

Pipes == {"cts", "stc"}
NoSid == 0
None  == "none"

ASSUME ClientsAssumption == None \notin Clients

VARIABLES
  prompt,      \* the input: does everything go well?
  next_sid,    \* the static counter of _generate_sid
  sid,         \* session->id
  hs,          \* the handshake thread of each session
  type,        \* session->type
  left,        \* ticks the handshake thread still sleeps
  task,        \* the accept task of each session and pipe
  wait,        \* ticks before the task listens, then before its accept times out
  peer,        \* the client that connected to the pipe
  streams,     \* are session->cts_msg_stream and stc_msg_stream set?
  ack,         \* the acknowledgement on its way: the session id in it
  clnt,        \* where each client is
  id,          \* ns->id
  late         \* prompt: ticks a client has spent on its current step

server == <<prompt, next_sid, sid, hs, type, left, task, wait, peer, streams>>
client == <<clnt, id, late>>
vars   == <<server, ack, client>>

FirstSid == 100

\* The ticks a timer set to n still runs; only a prompt one is that exact.
Timer(n) == IF prompt THEN n ELSE 0

At(f, c, v)  == [f EXCEPT ![c] = v]
Step(c, l)   == clnt' = At(clnt, c, l) /\ late' = At(late, c, 0)

-----------------------------------------------------------------------------
(* The client.                                                             *)

\* stream->connect: accepted by _on_client_connected, which makes the session.
_generate_sid_NotStored(c) == sid' = At(sid, c, next_sid) /\ UNCHANGED next_sid
_generate_sid_Pre(c) == sid' = At(sid, c, next_sid + 1) /\ next_sid' = next_sid + 1
_generate_sid(c)     == sid' = At(sid, c, next_sid) /\ next_sid' = next_sid + 1
Connect(c) ==
  /\ clnt[c] = "start"
  /\ _generate_sid(c)
  /\ Step(c, "hello")
  /\ UNCHANGED <<prompt, hs, type, left, task, wait, peer, streams, ack, id>>

\* write_some; the session's callback launches the handshake thread.
SendHello(c) ==
  /\ clnt[c] = "hello"
  /\ hs' = At(hs, c, "parse")
  /\ Step(c, "read")
  /\ UNCHANGED <<prompt, next_sid, sid, type, left, task, wait, peer, streams, ack, id>>

\* read_message returns the acknowledgement.
ReadAck(c) ==
  /\ clnt[c] = "read"
  /\ ack[c] # NoSid
  /\ id' = At(id, c, ack[c])
  /\ ack' = At(ack, c, NoSid)
  /\ Step(c, "cts")
  /\ UNCHANGED server

\* A first part of the data was read: it is neither the whole nor counted in the
\* next turn of the loop, which waits for as much again after the second part.
ReadAckPart(c) ==
  /\ CutAck /\ ~prompt
  /\ clnt[c] = "read"
  /\ ack[c] # NoSid
  /\ ack' = At(ack, c, NoSid)
  /\ Step(c, "read_more")
  /\ UNCHANGED <<server, id>>

\* The sessions whose pipe of this name and kind has an accept waiting.
Listening(i, k) == {s \in Clients : sid[s] = i /\ task[s][k] = "listening"}

\* connect(..., open_existing, ...): the client has its end, and goes on; that the
\* accept of the other end returns is a step of its own.
ConnectPipe(c, k) ==
  /\ clnt[c] = k
  /\ \E s \in Listening(id[c], k) :
       /\ task' = [task EXCEPT ![s][k] = "connected"]
       /\ peer' = [peer EXCEPT ![s][k] = c]
  /\ Step(c, IF k = "cts" THEN "stc" ELSE "done")
  /\ UNCHANGED <<prompt, next_sid, sid, hs, type, left, wait, streams, ack, id>>

\* Nobody listens, at once or until pipe_client_timeout: the exception is logged
\* and the session is returned without its pipes.
ConnectPipeFails_Never(c) == FALSE
ConnectPipeFails(c) ==
  /\ clnt[c] \in Pipes
  /\ Listening(id[c], clnt[c]) = {}
  /\ Step(c, "failed")
  /\ UNCHANGED <<server, ack, id>>

Die(c) ==
  /\ Deaths /\ ~prompt
  /\ clnt[c] \notin {"start", "dead"}
  /\ Step(c, "dead")
  /\ UNCHANGED <<server, ack, id>>

-----------------------------------------------------------------------------
(* query_processing::handshake                                             *)

Become(c, l) == hs' = At(hs, c, l)

\* The client type is read from the hello, and both accept tasks are launched
\* for a native client.  If it was lost, the thread gives up without an answer.
Parse(c) ==
  /\ hs[c] = "parse"
  /\ \/ /\ type' = At(type, c, "native")
        /\ task' = At(task, c, [k \in Pipes |-> "starting"])
        /\ wait' = At(wait, c, [k \in Pipes |-> Timer(StartDelay)])
        /\ left' = At(left, c, Timer(SleepTime))
        /\ Become(c, "sleep")
     \/ /\ CutHello /\ ~prompt
        /\ Become(c, "rejected")
        /\ UNCHANGED <<type, task, wait, left>>
  /\ UNCHANGED <<prompt, next_sid, sid, peer, streams, ack, client>>

AckAllowed_AtOnce(c) == TRUE
AckAllowed(c) == left[c] = 0
SendAck(c) ==
  /\ hs[c] = "sleep"
  /\ AckAllowed(c)
  /\ ack' = At(ack, c, sid[c])
  /\ left' = At(left, c, 0)
  /\ Become(c, "get")
  /\ UNCHANGED <<prompt, next_sid, sid, type, task, wait, peer, streams, client>>

\* cts_connection.get(), stc_connection.get()
Ended(c, k) == task[c][k] \in {"accepted", "timedout"}
BothAccepted_Either(c) == \E k \in Pipes : task[c][k] = "accepted"
BothAccepted(c) == \A k \in Pipes : task[c][k] = "accepted"
Get(c) ==
  /\ hs[c] = "get"
  /\ \A k \in Pipes : Ended(c, k)
  /\ Become(c, IF BothAccepted(c) THEN "success" ELSE "failed")
  /\ streams' = At(streams, c, BothAccepted(c))
  /\ UNCHANGED <<prompt, next_sid, sid, type, left, task, wait, peer, ack, client>>

-----------------------------------------------------------------------------
(* The two accept tasks of a session.                                      *)

AcceptTimeout == pipe_server_timeout
TaskListens(c, k) ==
  /\ task[c][k] = "starting"
  /\ task' = [task EXCEPT ![c][k] = "listening"]
  /\ wait' = [wait EXCEPT ![c][k] = Timer(AcceptTimeout)]
  /\ UNCHANGED <<prompt, next_sid, sid, hs, type, left, peer, streams, ack, client>>

\* accept returns: somebody has connected.
TaskAccepts(c, k) ==
  /\ task[c][k] = "connected"
  /\ task' = [task EXCEPT ![c][k] = "accepted"]
  /\ wait' = [wait EXCEPT ![c][k] = 0]
  /\ UNCHANGED <<prompt, next_sid, sid, hs, type, left, peer, streams, ack, client>>

\* accept throws: its time is up, although the client may have connected just before.
TaskTimesOut_Never(c, k) == FALSE
TaskTimesOut(c, k) ==
  /\ task[c][k] \in {"listening", "connected"}
  /\ wait[c][k] = 0
  /\ task' = [task EXCEPT ![c][k] = "timedout"]
  /\ UNCHANGED <<prompt, next_sid, sid, hs, type, left, wait, peer, streams, ack, client>>

-----------------------------------------------------------------------------
(* Time.                                                                   *)

\* A client that can go on; one that waits for the acknowledgement cannot.
Ready(c) == \/ clnt[c] \in {"hello"} \cup Pipes
            \/ clnt[c] = "read" /\ ack[c] # NoSid

\* Nothing that must happen before time goes on.
NothingDue ==
  \A c \in Clients :
    /\ hs[c] # "parse"
    /\ hs[c] = "sleep" => left[c] > 0
    /\ hs[c] = "get" => \E k \in Pipes : ~Ended(c, k)
    /\ \A k \in Pipes : /\ task[c][k] \in {"starting", "listening"} => wait[c][k] > 0
                       /\ task[c][k] # "connected"
    /\ Ready(c) => late[c] < ClientDelay

Less(n) == IF n = 0 THEN 0 ELSE n - 1

Tick ==
  /\ prompt /\ NothingDue
  /\ \E c \in Clients : left[c] > 0 \/ \E k \in Pipes : wait[c][k] > 0
  /\ left' = [c \in Clients |-> Less(left[c])]
  /\ wait' = [c \in Clients |-> [k \in Pipes |-> Less(wait[c][k])]]
  /\ late' = [c \in Clients |-> IF Ready(c) THEN late[c] + 1 ELSE 0]
  /\ UNCHANGED <<prompt, next_sid, sid, hs, type, task, peer, streams, ack, clnt, id>>

-----------------------------------------------------------------------------
Init ==
  /\ prompt \in BOOLEAN
  /\ next_sid = FirstSid
  /\ sid     = [c \in Clients |-> NoSid]
  /\ hs      = [c \in Clients |-> "none"]
  /\ type    = [c \in Clients |-> "null"]
  /\ left    = [c \in Clients |-> 0]
  /\ task    = [c \in Clients |-> [k \in Pipes |-> "none"]]
  /\ wait    = [c \in Clients |-> [k \in Pipes |-> 0]]
  /\ peer    = [c \in Clients |-> [k \in Pipes |-> None]]
  /\ streams = [c \in Clients |-> FALSE]
  /\ ack     = [c \in Clients |-> NoSid]
  /\ clnt    = [c \in Clients |-> "start"]
  /\ id      = [c \in Clients |-> NoSid]
  /\ late    = [c \in Clients |-> 0]

ClientStep(c) ==
  \/ Connect(c) \/ SendHello(c) \/ ReadAck(c) \/ ReadAckPart(c)
  \/ \E k \in Pipes : ConnectPipe(c, k)
  \/ ConnectPipeFails(c)

ServerStep(c)  == Parse(c) \/ SendAck(c) \/ Get(c)
TaskStep(c, k) == TaskListens(c, k) \/ TaskAccepts(c, k) \/ TaskTimesOut(c, k)

Next ==
  \/ \E c \in Clients : ClientStep(c) \/ ServerStep(c) \/ Die(c)
  \/ \E c \in Clients : \E k \in Pipes : TaskStep(c, k)
  \/ Tick

Spec == Init /\ [][Next]_vars

\* Threads run and time passes; a client need neither come nor stay alive, but
\* one that has connected goes on.
Fairness ==
  /\ WF_vars(Tick)
  /\ \A c \in Clients :
       /\ WF_vars(ServerStep(c))
       /\ \A k \in Pipes : WF_vars(TaskStep(c, k))
       /\ WF_vars(clnt[c] # "start" /\ ClientStep(c))

FairSpec == Spec /\ Fairness

-----------------------------------------------------------------------------
TypeOK ==
  /\ prompt \in BOOLEAN
  /\ next_sid \in Nat /\ next_sid >= FirstSid
  /\ sid \in [Clients -> {NoSid} \cup (FirstSid .. next_sid - 1)]
  /\ hs \in [Clients -> {"none", "parse", "sleep", "get", "success", "failed", "rejected"}]
  /\ type \in [Clients -> {"null", "native"}]
  /\ left \in [Clients -> 0 .. SleepTime]
  /\ task \in [Clients -> [Pipes -> {"none", "starting", "listening", "connected", "accepted", "timedout"}]]
  /\ wait \in [Clients -> [Pipes -> Nat]]
  /\ peer \in [Clients -> [Pipes -> Clients \cup {None}]]
  /\ streams \in [Clients -> BOOLEAN]
  /\ ack \in [Clients -> Nat]
  /\ clnt \in [Clients -> {"start", "hello", "read", "read_more", "done", "failed", "dead"} \cup Pipes]
  /\ id \in [Clients -> Nat]
  /\ late \in [Clients -> Nat]

\* gateway.cpp:378-392, native_session.cpp:99-118: when the framework reports
\* success, both streams of the session lead to that session's own client, and
\* that client (if it lives) has the session's id and has both ends.
SuccessAgreed ==
  \A c \in Clients : hs[c] = "success" =>
    /\ \A k \in Pipes : peer[c][k] = c
    /\ streams[c]
    /\ id[c] = sid[c]
    /\ clnt[c] \in {"done", "dead"}

\* An accept timed out just when its client had connected.
Crossed(c) == \E k \in Pipes : task[c][k] = "timedout" /\ peer[c][k] = c

\* gateway.cpp:338, 356 against native_session.cpp:110, 114: a client that returned with
\* its pipes was dropped by the framework only if an accept's timeout crossed with its
\* connect, and one that returned without is never taken for connected, whatever timed out.
NeverOneSided ==
  \A c \in Clients :
    /\ clnt[c] = "done" => hs[c] # "rejected" /\ (hs[c] = "failed" => Crossed(c))
    /\ clnt[c] = "failed" => hs[c] # "success"

\* protocol.h:29-30, gateway.cpp:367: with clients and tasks that keep their delays, no
\* timeout of the handshake expires and no client meets a pipe that does not exist
\* yet: neither side ever gives up.
PromptSucceeds ==
  prompt => \A c \in Clients : hs[c] \notin {"failed", "rejected"} /\ clnt[c] # "failed"

\* connect_to_local_framework has returned, or its process is gone.
Left(c) == clnt[c] \in {"done", "failed", "dead"}

\* A handshake thread ends, whatever becomes of its client: both accepts have
\* timeouts, so a detached thread and its session are not kept forever.
HandshakeEnds ==
  \A c \in Clients : (hs[c] # "none") ~> (hs[c] \in {"success", "failed", "rejected"})

\* A client that has sent its hello gets through, with its pipes or without, unless
\* the hello was lost (then nothing answers) or the acknowledgement came in parts:
\* whatever times out on either side, nobody waits for a peer that gave up.
LeavesUnlessCut ==
  \A c \in Clients :
    (clnt[c] = "hello") ~> (Left(c) \/ hs[c] = "rejected" \/ clnt[c] = "read_more")

\* native_session.cpp:91 "handshake ack signal, framework sends a session id":
\* a client whose hello was understood gets the id and so leaves the handshake.
ClientLeaves ==
  \A c \in Clients : (clnt[c] = "hello") ~> (Left(c) \/ hs[c] = "rejected")
=============================================================================
