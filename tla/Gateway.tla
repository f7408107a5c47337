------------------------------ MODULE Gateway ------------------------------
(***************************************************************************)
(* The gateway's two TCP servers (gateway.cpp): open() and close() on      *)
(* main's thread against the accept callbacks on the threads of the I/O    *)
(* service.  Each open() makes a new pair of servers; a server lives as    *)
(* long as the gateway's member or a bound callback refers to it.          *)
(*                                                                         *)
(* Of vee::net only what the code relies on is assumed: create_server      *)
(* returns a listening server or throws; every async_accept calls back     *)
(* once, with a client or with a failure, on a closed server with a        *)
(* failure; clients in the backlog of a closed server are turned away.     *)
(***************************************************************************)
EXTENDS Integers, FiniteSets

CONSTANTS
  Clients,    \* processes that connect
  IoThreads,  \* threads that run callbacks
  MaxOpens    \* bound: calls of open()

ASSUME GatewayAssumption ==
  IsFiniteSet(Clients) /\ IoThreads \in Nat \ {0} /\ MaxOpens \in Nat

Types    == {"native", "web"}
Servers  == Types \X (1 .. MaxOpens)
NoServer == <<"none", 0>>
NoClient == "none"
FirstSid == 100

VARIABLES
  caller,     \* main's thread: idle, or where it is in open() or close()
  opening,    \* the close() that runs was called by open()
  opens,      \* calls of open() so far: the generation of the servers
  member,     \* _native_server and _web_server
  flag,       \* _flag_open
  listening,  \* servers created and not closed
  accepts,    \* of each server: accepts issued that have not called back
  callback,   \* of each server: where _on_client_connected is
  backlog,    \* of each server: clients connected and not yet accepted
  client,     \* of each server: the client its callback was given
  copy,       \* of each server: the value of sid its callback has read
  sid,        \* the static int of _generate_sid
  session,    \* of each client: its session's id, 0 if it has none
  failed,     \* history: servers an accept of which failed before close()
  overlapped  \* history: two callbacks were inside sid++ at once

main_vars == <<caller, opening, opens, member, flag>>
io_vars   == <<callback, client, copy, sid, session, overlapped>>
vars      == <<main_vars, listening, accepts, backlog, failed, io_vars>>

Goto(l)  == caller' = l
Idle(s)  == callback[s] = "none"
Busy     == {s \in Servers : ~Idle(s)}
InSid(s) == callback[s] = "write"

-----------------------------------------------------------------------------
(* main's thread.                                                          *)

Open ==
  /\ caller = "idle"
  /\ opens < MaxOpens
  /\ opens' = opens + 1
  /\ opening' = TRUE
  /\ Goto("close_native")
  /\ UNCHANGED <<member, flag, listening, accepts, backlog, failed, io_vars>>

\* Also what ~gateway does.
Close ==
  /\ caller = "idle"
  /\ Goto("close_native")
  /\ UNCHANGED <<opening, opens, member, flag, listening, accepts, backlog, failed, io_vars>>

\* server->close(): outstanding accepts will fail, waiting clients are turned away.
close_NeverCalled(s) == UNCHANGED <<listening, backlog>>
close(s) ==
  /\ listening' = listening \ {s}
  /\ backlog' = [x \in Servers |-> IF x = s THEN {} ELSE backlog[x]]

CloseServer(t, here, next) ==
  /\ caller = here
  /\ IF member[t] = NoServer THEN UNCHANGED <<listening, backlog>> ELSE close(member[t])
  /\ member' = [member EXCEPT ![t] = NoServer]
  /\ Goto(next)
  /\ UNCHANGED <<opening, opens, flag, accepts, failed, io_vars>>

CloseNative == CloseServer("native", "close_native", "close_web")
CloseWeb    == CloseServer("web", "close_web", "clear_flag")

ClearFlag ==
  /\ caller = "clear_flag"
  /\ flag' = FALSE
  /\ opening' = FALSE
  /\ Goto(IF opening THEN "create_native" ELSE "idle")
  /\ UNCHANGED <<opens, member, listening, accepts, backlog, failed, io_vars>>

\* Where the handler of open() goes on: it logs, and open() returns.
AfterException_Uncaught == "dead"
AfterException_GoesOn == "set_flag"
AfterException == "idle"

\* net::tcp::create_server, net::rfc6455::create_server: a server or an exception.
CreateServer(t, here, next) ==
  /\ caller = here
  /\ \/ /\ member' = [member EXCEPT ![t] = <<t, opens>>]
        /\ listening' = listening \cup {<<t, opens>>}
        /\ Goto(next)
     \/ Goto(AfterException) /\ UNCHANGED <<member, listening>>
  /\ UNCHANGED <<opening, opens, flag, accepts, backlog, failed, io_vars>>

CreateNative == CreateServer("native", "create_native", "create_web")
CreateWeb    == CreateServer("web", "create_web", "accept_native")

async_accept_Dropped(s) == UNCHANGED accepts
async_accept(s) == accepts' = [accepts EXCEPT ![s] = @ + 1]

FirstAccept(t, here, next) ==
  /\ caller = here
  /\ async_accept(member[t])
  /\ Goto(next)
  /\ UNCHANGED <<opening, opens, member, flag, listening, backlog, failed, io_vars>>

AcceptNative == FirstAccept("native", "accept_native", "accept_web")
AcceptWeb    == FirstAccept("web", "accept_web", "set_flag")

SetFlag ==
  /\ caller = "set_flag"
  /\ flag' = TRUE
  /\ Goto("idle")
  /\ UNCHANGED <<opening, opens, member, listening, accepts, backlog, failed, io_vars>>

-----------------------------------------------------------------------------
(* Clients and the I/O service.                                            *)

Waiting(c) == \E s \in Servers : c \in backlog[s] \/ (~Idle(s) /\ client[s] = c)

Connect(c) ==
  /\ session[c] = 0
  /\ ~Waiting(c)
  /\ \E s \in listening : backlog' = [backlog EXCEPT ![s] = @ \cup {c}]
  /\ UNCHANGED <<main_vars, listening, accepts, failed, io_vars>>

\* _on_client_connected is called with a client ...
Accepted(s) ==
  /\ accepts[s] > 0 /\ Idle(s)
  /\ Cardinality(Busy) < IoThreads
  /\ \E c \in backlog[s] :
       /\ backlog' = [backlog EXCEPT ![s] = @ \ {c}]
       /\ client' = [client EXCEPT ![s] = c]
  /\ accepts' = [accepts EXCEPT ![s] = @ - 1]
  /\ callback' = [callback EXCEPT ![s] = "read"]
  /\ UNCHANGED <<main_vars, listening, failed, copy, sid, session, overlapped>>

\* ... or with a failure, which it logs: the accept is not issued again.
AcceptFails_Retried(s) ==
  /\ accepts[s] > 0 /\ Idle(s)
  /\ Cardinality(Busy) < IoThreads
  /\ failed' = IF s \in listening THEN failed \cup {s} ELSE failed
  /\ UNCHANGED <<main_vars, listening, accepts, backlog, io_vars>>
AcceptFails(s) ==
  /\ accepts[s] > 0 /\ Idle(s)
  /\ Cardinality(Busy) < IoThreads
  /\ accepts' = [accepts EXCEPT ![s] = @ - 1]
  /\ failed' = IF s \in listening THEN failed \cup {s} ELSE failed
  /\ UNCHANGED <<main_vars, listening, backlog, io_vars>>

\* _generate_sid is called by the callbacks of both servers: sid++ reads ...
ReadSid(s) ==
  /\ callback[s] = "read"
  /\ copy' = [copy EXCEPT ![s] = sid]
  /\ overlapped' = (overlapped \/ \E x \in Servers : InSid(x))
  /\ callback' = [callback EXCEPT ![s] = "write"]
  /\ UNCHANGED <<main_vars, listening, accepts, backlog, failed, client, sid, session>>

\* ... and writes.
Incremented_Twice(n) == n
Incremented(n) == n + 1
WriteSid(s) ==
  /\ callback[s] = "write"
  /\ sid' = Incremented(copy[s])
  /\ callback' = [callback EXCEPT ![s] = "start"]
  /\ UNCHANGED <<main_vars, listening, accepts, backlog, failed, client, copy, session, overlapped>>

\* The session starts to read its stream, and the server accepts the next client.
StartSession(s) ==
  /\ callback[s] = "start"
  /\ session' = [session EXCEPT ![client[s]] = copy[s]]
  /\ async_accept(s)
  /\ callback' = [callback EXCEPT ![s] = "none"]
  /\ client' = [client EXCEPT ![s] = NoClient]
  /\ copy' = [copy EXCEPT ![s] = 0]
  /\ UNCHANGED <<main_vars, listening, backlog, failed, sid, overlapped>>

-----------------------------------------------------------------------------
Init ==
  /\ caller = "idle" /\ opening = FALSE /\ opens = 0
  /\ member = [t \in Types |-> NoServer]
  /\ flag = FALSE
  /\ listening = {}
  /\ accepts  = [s \in Servers |-> 0]
  /\ callback = [s \in Servers |-> "none"]
  /\ backlog  = [s \in Servers |-> {}]
  /\ client   = [s \in Servers |-> NoClient]
  /\ copy     = [s \in Servers |-> 0]
  /\ sid = FirstSid
  /\ session = [c \in Clients |-> 0]
  /\ failed = {} /\ overlapped = FALSE

MainStep ==
  \/ CloseNative \/ CloseWeb \/ ClearFlag
  \/ CreateNative \/ CreateWeb \/ AcceptNative \/ AcceptWeb \/ SetFlag

CallbackStep(s) == ReadSid(s) \/ WriteSid(s) \/ StartSession(s)

Next ==
  \/ Open \/ Close \/ MainStep
  \/ \E c \in Clients : Connect(c)
  \/ \E s \in Servers : Accepted(s) \/ AcceptFails(s) \/ CallbackStep(s)

Spec == Init /\ [][Next]_vars

\* What the I/O service owes a server; an accept may, but need not fail while it listens.
Serve(s) == CallbackStep(s) \/ Accepted(s) \/ (s \notin listening /\ AcceptFails(s))

\* Calls run on; the I/O service completes an accept for which a client waits,
\* and every accept of a closed server.  Nobody need call open or close.
FairSpec ==
  /\ Spec
  /\ WF_vars(MainStep)
  /\ \A s \in Servers : WF_vars(Serve(s))

-----------------------------------------------------------------------------
TypeOK ==
  /\ caller \in {"idle", "close_native", "close_web", "clear_flag", "create_native", "create_web",
                 "accept_native", "accept_web", "set_flag"}
  /\ opening \in BOOLEAN /\ opens \in 0 .. MaxOpens
  /\ member \in [Types -> Servers \cup {NoServer}]
  /\ flag \in BOOLEAN
  /\ listening \subseteq Servers
  /\ accepts \in [Servers -> Nat]
  /\ callback \in [Servers -> {"none", "read", "write", "start"}]
  /\ backlog \in [Servers -> SUBSET Clients]
  /\ client \in [Servers -> Clients \cup {NoClient}]
  /\ \A s \in Servers : ~Idle(s) => client[s] \in Clients
  /\ copy \in [Servers -> Nat] /\ sid \in Nat /\ session \in [Clients -> Nat]
  /\ failed \subseteq Servers /\ overlapped \in BOOLEAN

\* An accept of s is outstanding, or its callback has yet to issue the next one.
Loops(s) == accepts[s] + (IF Idle(s) THEN 0 ELSE 1)

\* gateway.cpp:77-80: reset() lets go of a server only after close(), so a server
\* that listens can always be closed through the gateway; and no port has two.
NoOrphan == \A s \in listening : member[s[1]] = s

\* gateway.cpp:62, 83: when open or close has returned, _flag_open says whether
\* both servers listen, each with one accept loop unless its accept failed; when
\* it is false no server that listens accepts anybody (the native one when the
\* web server could not be created).
FlagTellsTruth ==
  caller = "idle" =>
    IF flag
      THEN \A t \in Types : member[t] \in listening /\ Loops(member[t]) = IF member[t] \in failed THEN 0 ELSE 1
      ELSE \A s \in listening : Loops(s) = 0

\* gateway.cpp:256: ids are distinct, although two servers' callbacks share the
\* counter without a lock, unless two callbacks really met in sid++.
SidsDistinct ==
  ~overlapped =>
    \A c, d \in Clients : session[c] # 0 /\ session[c] = session[d] => c = d

\* gateway.cpp:94: clients in the backlog get their sessions, unless the server is
\* closed, its accept failed, or it never began to accept (its twin did not come up).
ClientsServed ==
  \A s \in Servers :
    (backlog[s] # {}) ~> \/ backlog[s] = {} /\ Idle(s)
                         \/ s \notin listening \/ s \in failed \/ (caller = "idle" /\ ~flag)

\* gateway.cpp:96-99: the accept loop of a closed server comes to an end, and with
\* it the last reference to the server.
ClosedServersGo ==
  \A s \in Servers : (s[2] <= opens /\ s \notin listening) ~> (s \in listening \/ Loops(s) = 0)
=============================================================================
