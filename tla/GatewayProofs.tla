---------------------------- MODULE GatewayProofs ----------------------------
(***************************************************************************)
(* Proofs about the gateway's servers, for any number of clients, threads  *)
(* of the I/O service and calls of open() and close().                     *)
(***************************************************************************)
EXTENDS Gateway, TLAPS

Creating == {"create_native", "create_web", "accept_native", "accept_web", "set_flag"}

\* The accept loop of a server that was started, and of one that was not yet.
Serving(s) == Loops(s) = IF s \in failed THEN 0 ELSE 1
Fresh(s)   == Loops(s) = 0 /\ s \notin failed

\* open() creates when its close() is over; the flag is off and a generation begun.
CallsNest ==
  /\ caller \in Creating => ~flag /\ ~opening /\ opens >= 1
  /\ caller = "idle" => ~opening
  /\ opening => opens >= 1

\* A member is a server of its type that listens, and no other server listens.
MembersListen ==
  \A t \in Types : member[t] = NoServer \/ (member[t] \in listening /\ member[t][1] = t)

\* Which members there are at each line of close() and open().
MembersAtLine ==
  /\ caller = "close_web" => member["native"] = NoServer
  /\ caller \in {"clear_flag", "create_native"} => \A t \in Types : member[t] = NoServer
  /\ caller = "create_web" => member["web"] = NoServer /\ member["native"] = <<"native", opens>>
  /\ caller \in {"accept_native", "accept_web", "set_flag"} =>
       \A t \in Types : member[t] = <<t, opens>>

\* Servers that open() has yet to make, or to start.
NotYet(s) ==
  \/ s[2] > opens
  \/ s[2] = opens /\ (opening \/ caller = "create_native")
Unstarted(s) ==
  s[2] = opens /\ \/ caller \in {"create_web", "accept_native"}
                  \/ caller = "accept_web" /\ s[1] = "web"
Started(s) ==
  s[2] = opens /\ \/ caller = "accept_web" /\ s[1] = "native"
                  \/ caller = "set_flag"
LoopsAtLine ==
  \A s \in Servers :
    /\ NotYet(s) => s \notin listening /\ Fresh(s)
    /\ Unstarted(s) => Fresh(s)
    /\ Started(s) => Serving(s)

\* Ids that were read from the counter lie below it once it is written.
SidsBelow ==
  ~overlapped =>
    /\ \A s \in Servers : InSid(s) => copy[s] = sid
    /\ \A s, x \in Servers : InSid(s) /\ InSid(x) => s = x
    /\ \A s \in Servers : callback[s] = "start" =>
         /\ copy[s] < sid
         /\ \A x \in Servers : callback[x] = "start" /\ copy[x] = copy[s] => x = s
         /\ \A c \in Clients : session[c] # copy[s] \/ session[c] = 0
    /\ \A c \in Clients : session[c] < sid

Calls == CallsNest /\ MembersListen /\ NoOrphan /\ MembersAtLine /\ LoopsAtLine /\ FlagTellsTruth
Ids   == SidsBelow /\ SidsDistinct
IInv  == TypeOK /\ Calls /\ Ids

USE GatewayAssumption

\* A server is its type and the open() that made it; no server is NoServer.
LEMMA ServerParts ==
  /\ \A s \in Servers : s[1] \in Types /\ s[2] \in 1 .. MaxOpens /\ s = <<s[1], s[2]>> /\ s # NoServer
  /\ \A t \in Types : \A n \in 1 .. MaxOpens : <<t, n>> \in Servers
  BY DEF Servers, Types, NoServer

\* Servers of one open() are equal when they are of one type.
LEMMA SameServer ==
  \A s, x \in Servers : s[1] = x[1] /\ s[2] = x[2] => s = x
  BY ServerParts

\* The initial state satisfies the inductive invariant.
LEMMA InitIInv == Init => IInv
<1> SUFFICES ASSUME Init PROVE IInv
  OBVIOUS
<1>1. TypeOK
  <2>1. callback \in [Servers -> {"none", "read", "write", "start"}] /\ \A s \in Servers : Idle(s)
    BY DEF Init, Idle
  <2>2. backlog \in [Servers -> SUBSET Clients] /\ client \in [Servers -> Clients \cup {NoClient}]
    BY DEF Init
  <2>3. member \in [Types -> Servers \cup {NoServer}]
    BY DEF Init
  <2>4. accepts \in [Servers -> Nat] /\ copy \in [Servers -> Nat] /\ session \in [Clients -> Nat]
    BY DEF Init
  <2>5. opens \in 0 .. MaxOpens /\ sid \in Nat
    BY DEF Init, FirstSid
  <2> QED BY <2>1, <2>2, <2>3, <2>4, <2>5 DEF Init, TypeOK
<1>2. \A s \in Servers : Loops(s) = 0 /\ s[2] >= 1
  BY ServerParts DEF Init, Loops, Idle
<1>3. Calls
  BY <1>2, ServerParts DEF Init, Calls, CallsNest, Creating, MembersListen, NoOrphan, MembersAtLine,
     LoopsAtLine, NotYet, Unstarted, Started, Fresh, FlagTellsTruth
<1>4. Ids
  BY DEF Init, Ids, SidsBelow, SidsDistinct, InSid, FirstSid
<1> QED BY <1>1, <1>3, <1>4 DEF IInv

-----------------------------------------------------------------------------
(* Types.                                                                  *)

\* The steps of open() and close() keep the types.
LEMMA MainTypes ==
  TypeOK /\ CallsNest /\ (Open \/ Close \/ MainStep) => TypeOK'
<1> SUFFICES ASSUME TypeOK, CallsNest, Open \/ Close \/ MainStep PROVE TypeOK'
  OBVIOUS
<1> USE DEF TypeOK, Goto, io_vars, Idle
<1>1. CASE Open
  BY <1>1 DEF Open
<1>2. CASE Close
  BY <1>2 DEF Close
<1>3. ASSUME NEW t \in Types, NEW here, NEW next \in {"close_web", "clear_flag"},
             CloseServer(t, here, next)
      PROVE  TypeOK'
  <2>1. CASE member[t] = NoServer
    BY <1>3, <2>1 DEF CloseServer
  <2>2. CASE member[t] # NoServer
    BY <1>3, <2>2 DEF CloseServer, close
  <2> QED BY <2>1, <2>2
<1>4. CASE ClearFlag
  BY <1>4 DEF ClearFlag
<1>5. ASSUME NEW t \in Types, NEW here \in Creating, NEW next \in {"create_web", "accept_native"},
             CreateServer(t, here, next)
      PROVE  TypeOK'
  <2>1. <<t, opens>> \in Servers
    BY <1>5, ServerParts DEF CreateServer, CallsNest
  <2> QED BY <1>5, <2>1 DEF CreateServer, AfterException
<1>6. ASSUME NEW t \in Types, NEW here, NEW next \in {"accept_web", "set_flag"},
             FirstAccept(t, here, next)
      PROVE  TypeOK'
  <2>1. accepts' \in [Servers -> Nat]
    <3>1. CASE member[t] \in Servers
      BY <1>6, <3>1 DEF FirstAccept, async_accept
    <3>2. CASE member[t] \notin Servers
      BY <1>6, <3>2 DEF FirstAccept, async_accept
    <3> QED BY <3>1, <3>2
  <2> QED BY <1>6, <2>1 DEF FirstAccept
<1>7. CASE SetFlag
  BY <1>7 DEF SetFlag
<1> QED BY <1>1, <1>2, <1>3, <1>4, <1>5, <1>6, <1>7
        DEF MainStep, CloseNative, CloseWeb, CreateNative, CreateWeb, AcceptNative, AcceptWeb,
            Types, Creating

\* So do clients and the I/O service.
LEMMA IoTypes ==
  ASSUME TypeOK,
         (\E c \in Clients : Connect(c))
           \/ (\E s \in Servers : Accepted(s) \/ AcceptFails(s) \/ CallbackStep(s))
  PROVE  TypeOK'
<1> USE DEF TypeOK, main_vars, io_vars, Idle
<1>1. ASSUME NEW c \in Clients, Connect(c) PROVE TypeOK'
  BY <1>1 DEF Connect
<1>2. ASSUME NEW s \in Servers, Accepted(s) PROVE TypeOK'
  BY <1>2 DEF Accepted
<1>3. ASSUME NEW s \in Servers, AcceptFails(s) PROVE TypeOK'
  BY <1>3 DEF AcceptFails
<1>4. ASSUME NEW s \in Servers, ReadSid(s) PROVE TypeOK'
  BY <1>4 DEF ReadSid
<1>5. ASSUME NEW s \in Servers, WriteSid(s) PROVE TypeOK'
  BY <1>5 DEF WriteSid, Incremented
<1>6. ASSUME NEW s \in Servers, StartSession(s) PROVE TypeOK'
  BY <1>6 DEF StartSession, async_accept
<1> QED BY <1>1, <1>2, <1>3, <1>4, <1>5, <1>6 DEF CallbackStep

-----------------------------------------------------------------------------
(* The calls on main's thread.                                             *)

\* Callbacks and clients leave main's thread and the servers it made alone, they keep an
\* accept loop that serves and do not start another one.
IoFrame ==
  /\ UNCHANGED <<main_vars, listening>>
  /\ \A x \in Servers :
       /\ Loops(x) = 0 => Loops(x)' = 0
       /\ Fresh(x) => Fresh(x)'
       /\ x \in listening /\ Serving(x) => Serving(x)'

LEMMA IoSteps ==
  ASSUME TypeOK,
         (\E c \in Clients : Connect(c))
           \/ (\E s \in Servers : Accepted(s) \/ AcceptFails(s) \/ CallbackStep(s))
  PROVE  IoFrame
<1> USE DEF TypeOK, IoFrame, Loops, Fresh, Serving, Idle
<1>1. ASSUME NEW c \in Clients, Connect(c) PROVE IoFrame
  BY <1>1 DEF Connect, io_vars
<1>2. ASSUME NEW s \in Servers, Accepted(s) PROVE IoFrame
  BY <1>2 DEF Accepted
<1>3. ASSUME NEW s \in Servers, AcceptFails(s) PROVE IoFrame
  BY <1>3 DEF AcceptFails, io_vars
<1>4. ASSUME NEW s \in Servers, ReadSid(s) PROVE IoFrame
  BY <1>4 DEF ReadSid
<1>5. ASSUME NEW s \in Servers, WriteSid(s) PROVE IoFrame
  BY <1>5 DEF WriteSid
<1>6. ASSUME NEW s \in Servers, StartSession(s) PROVE IoFrame
  BY <1>6 DEF StartSession, async_accept
<1> QED BY <1>1, <1>2, <1>3, <1>4, <1>5, <1>6 DEF CallbackStep

\* A server that was started at this line is the member of its type, so it listens.
LEMMA StartedListens ==
  ASSUME TypeOK, MembersListen, MembersAtLine, NEW s \in Servers, Started(s)
  PROVE  s \in listening
<1>1. member[s[1]] = s
  BY ServerParts DEF Started, MembersAtLine
<1> QED BY <1>1, ServerParts DEF MembersListen

\* So none of their steps disturbs what the calls rely on.
LEMMA IoCalls ==
  ASSUME TypeOK, Calls, IoFrame
  PROVE  Calls'
<1> USE DEF IoFrame, main_vars, Calls
<1>1. CallsNest' /\ MembersListen' /\ NoOrphan' /\ MembersAtLine'
  BY DEF CallsNest, MembersListen, NoOrphan, MembersAtLine
<1>2. LoopsAtLine'
  BY StartedListens DEF LoopsAtLine, NotYet, Unstarted, Started
<1>3. FlagTellsTruth'
  <2>1. ASSUME caller = "idle", flag, NEW t \in Types
        PROVE  member[t] \in listening /\ Serving(member[t])'
    BY <2>1 DEF FlagTellsTruth, Serving, TypeOK
  <2>2. ASSUME caller = "idle", ~flag, NEW s \in listening PROVE Loops(s)' = 0
    BY <2>2 DEF FlagTellsTruth, TypeOK
  <2> QED BY <2>1, <2>2 DEF FlagTellsTruth, Serving
<1> QED BY <1>1, <1>2, <1>3

\* A step of main's thread, unless it starts an accept, leaves every loop as it is.
LoopsStay == \A x \in Servers : Loops(x)' = Loops(x) /\ (x \in failed' <=> x \in failed)

\* The generation an open() begins has no servers yet.
LEMMA OpenCalls == TypeOK /\ Calls /\ (Open \/ Close) => Calls'
<1> SUFFICES ASSUME TypeOK, Calls, Open \/ Close PROVE Calls'
  OBVIOUS
<1> USE DEF Open, Close, Goto, io_vars, Calls
<1>1. LoopsStay
  BY DEF LoopsStay, Loops, Idle
<1>2. CallsNest' /\ MembersListen' /\ NoOrphan' /\ MembersAtLine' /\ FlagTellsTruth'
  BY DEF CallsNest, MembersListen, NoOrphan, MembersAtLine, FlagTellsTruth, Creating, TypeOK
<1>3. ASSUME NEW s \in Servers, NotYet(s)' PROVE NotYet(s)
  BY <1>3, ServerParts DEF NotYet, TypeOK
<1>4. LoopsAtLine'
  BY <1>1, <1>3 DEF LoopsStay, LoopsAtLine, Unstarted, Started, Fresh
<1> QED BY <1>2, <1>4

\* close() takes a member out of the servers that listen when it lets go of it.
LEMMA CloseCalls == TypeOK /\ Calls /\ (CloseNative \/ CloseWeb) => Calls'
<1> SUFFICES ASSUME TypeOK, Calls,
                    NEW t \in Types, NEW here \in {"close_native", "close_web"},
                    NEW next \in {"close_web", "clear_flag"}, CloseServer(t, here, next),
                    here = "close_native" => t = "native" /\ next = "close_web",
                    here = "close_web" => t = "web" /\ next = "clear_flag"
             PROVE  Calls'
  BY DEF CloseNative, CloseWeb, Types
<1> USE DEF Calls
<1>1. /\ caller = here /\ caller' = next /\ UNCHANGED <<opening, opens, flag, failed>>
      /\ member' = [member EXCEPT ![t] = NoServer]
      /\ listening' = IF member[t] = NoServer THEN listening ELSE listening \ {member[t]}
  BY DEF CloseServer, close, Goto
<1>2. LoopsStay
  BY DEF CloseServer, io_vars, LoopsStay, Loops, Idle
<1>3. CallsNest' /\ MembersAtLine'
  BY <1>1 DEF CallsNest, MembersAtLine, Creating, TypeOK, Types
<1>4. NoOrphan'
  BY <1>1, ServerParts DEF NoOrphan, TypeOK
<1>5. MembersListen'
  BY <1>1 DEF MembersListen, TypeOK
<1>6. LoopsAtLine' /\ FlagTellsTruth'
  BY <1>1, <1>2 DEF LoopsStay, LoopsAtLine, NotYet, Unstarted, Started, Fresh, FlagTellsTruth
<1> QED BY <1>3, <1>4, <1>5, <1>6

\* With both members gone nothing listens, which is what a flag that is off says.
LEMMA ClearCalls == TypeOK /\ Calls /\ ClearFlag => Calls'
<1> SUFFICES ASSUME TypeOK, Calls, ClearFlag PROVE Calls'
  OBVIOUS
<1> USE DEF ClearFlag, Goto, io_vars, Calls
<1>1. listening = {}
  BY ServerParts DEF MembersAtLine, NoOrphan, TypeOK
<1>2. LoopsStay
  BY DEF LoopsStay, Loops, Idle
<1>3. CallsNest' /\ MembersListen' /\ NoOrphan' /\ MembersAtLine' /\ FlagTellsTruth'
  BY <1>1 DEF CallsNest, MembersListen, NoOrphan, MembersAtLine, FlagTellsTruth, Creating
<1>4. LoopsAtLine'
  BY <1>2 DEF LoopsStay, LoopsAtLine, NotYet, Unstarted, Started, Fresh
<1> QED BY <1>3, <1>4

\* A server is created in a generation that has none of its type, and does not accept.
LEMMA CreateCalls == TypeOK /\ Calls /\ (CreateNative \/ CreateWeb) => Calls'
<1> SUFFICES ASSUME TypeOK, Calls,
                    NEW t \in Types, NEW here \in {"create_native", "create_web"},
                    NEW next \in {"create_web", "accept_native"}, CreateServer(t, here, next),
                    here = "create_native" => t = "native" /\ next = "create_web",
                    here = "create_web" => t = "web" /\ next = "accept_native"
             PROVE  Calls'
  BY DEF CreateNative, CreateWeb, Types
<1> USE DEF Calls, Goto
<1>1. caller = here /\ ~flag /\ ~opening /\ member[t] = NoServer
  BY DEF CreateServer, CallsNest, Creating, MembersAtLine
<1>2. LoopsStay
  BY DEF CreateServer, io_vars, LoopsStay, Loops, Idle
<1>3. <<t, opens>> \in Servers
  BY <1>1, ServerParts DEF CallsNest, Creating, TypeOK
<1>4. CASE caller' = "idle" /\ UNCHANGED <<member, listening>>
  <2>1. UNCHANGED <<opening, opens, flag>>
    BY DEF CreateServer
  <2>2. \A s \in listening : s[2] = opens /\ caller = "create_web" /\ Loops(s) = 0
    <3>1. ASSUME NEW s \in listening PROVE s = <<"native", opens>> /\ caller = "create_web"
      BY <1>1, ServerParts DEF NoOrphan, MembersAtLine, TypeOK, Types
    <3> QED BY <3>1 DEF LoopsAtLine, Unstarted, Fresh, TypeOK
  <2>3. FlagTellsTruth'
    BY <1>1, <1>2, <1>4, <2>1, <2>2 DEF FlagTellsTruth, LoopsStay, TypeOK
  <2>4. CallsNest' /\ MembersListen' /\ NoOrphan' /\ MembersAtLine'
    BY <1>1, <1>4, <2>1 DEF CallsNest, MembersListen, NoOrphan, MembersAtLine, Creating
  <2>5. LoopsAtLine'
    BY <1>2, <1>4, <2>1 DEF LoopsAtLine, LoopsStay, NotYet, Unstarted, Started, Fresh
  <2> QED BY <2>3, <2>4, <2>5
<1>5. CASE /\ member' = [member EXCEPT ![t] = <<t, opens>>]
           /\ listening' = listening \cup {<<t, opens>>}
           /\ caller' = next
  <2>1. UNCHANGED <<opening, opens, flag>>
    BY DEF CreateServer
  <2>2. CallsNest' /\ MembersAtLine'
    BY <1>1, <1>5, <2>1 DEF CallsNest, MembersAtLine, Creating, TypeOK, Types
  <2>3. MembersListen' /\ NoOrphan'
    BY <1>1, <1>3, <1>5, ServerParts DEF MembersListen, NoOrphan, TypeOK
  <2>4. FlagTellsTruth'
    BY <1>5 DEF FlagTellsTruth
  <2>5. \A s \in Servers : s[2] = opens => Fresh(s)
    BY <1>1 DEF LoopsAtLine, NotYet, Unstarted
  <2>6. LoopsAtLine'
    <3> SUFFICES ASSUME NEW s \in Servers
                 PROVE  /\ NotYet(s)' => s \notin listening' /\ Fresh(s)'
                        /\ Unstarted(s)' => Fresh(s)'
                        /\ ~Started(s)'
      BY DEF LoopsAtLine
    <3>1. Fresh(s) => Fresh(s)'
      BY <1>2 DEF LoopsStay, Fresh
    <3>2. ~Started(s)' /\ (Unstarted(s)' => s[2] = opens)
      BY <1>5, <2>1 DEF Started, Unstarted
    <3>3. NotYet(s)' => NotYet(s) /\ s # <<t, opens>>
      BY <1>1, <1>5, <2>1, ServerParts DEF NotYet, TypeOK
    <3> QED BY <1>5, <2>5, <3>1, <3>2, <3>3 DEF LoopsAtLine
  <2> QED BY <2>2, <2>3, <2>4, <2>6
<1> QED BY <1>4, <1>5, <1>1 DEF CreateServer, AfterException

\* The first accept begins the loop of a server that has none.
LEMMA AcceptCalls == TypeOK /\ Calls /\ (AcceptNative \/ AcceptWeb) => Calls'
<1> SUFFICES ASSUME TypeOK, Calls,
                    NEW t \in Types, NEW here \in {"accept_native", "accept_web"},
                    NEW next \in {"accept_web", "set_flag"}, FirstAccept(t, here, next),
                    here = "accept_native" => t = "native" /\ next = "accept_web",
                    here = "accept_web" => t = "web" /\ next = "set_flag"
             PROVE  Calls'
  BY DEF AcceptNative, AcceptWeb, Types
<1> USE DEF Calls, Goto
<1>1. /\ caller = here /\ caller' = next /\ member[t] = <<t, opens>> /\ opens >= 1
      /\ UNCHANGED <<opening, opens, member, flag, listening, failed>>
  BY DEF FirstAccept, CallsNest, Creating, MembersAtLine, io_vars
<1>2. <<t, opens>> \in Servers
  BY <1>1, ServerParts DEF TypeOK
<1>3. /\ Loops(<<t, opens>>)' = Loops(<<t, opens>>) + 1
      /\ \A s \in Servers : s # <<t, opens>> => Loops(s)' = Loops(s)
  BY <1>1, <1>2 DEF FirstAccept, async_accept, io_vars, Loops, Idle, TypeOK
<1>4. Fresh(<<t, opens>>)
  BY <1>1, <1>2 DEF LoopsAtLine, Unstarted
<1>5. Serving(<<t, opens>>)'
  BY <1>1, <1>3, <1>4 DEF Serving, Fresh
<1>6. CallsNest' /\ MembersListen' /\ NoOrphan' /\ MembersAtLine' /\ FlagTellsTruth'
  BY <1>1 DEF CallsNest, MembersListen, NoOrphan, MembersAtLine, FlagTellsTruth, Creating
<1>7. LoopsAtLine'
  <2> SUFFICES ASSUME NEW s \in Servers
               PROVE  /\ NotYet(s)' => s \notin listening /\ Fresh(s)'
                      /\ Unstarted(s)' => Fresh(s)'
                      /\ Started(s)' => Serving(s)'
    BY <1>1 DEF LoopsAtLine
  <2>1. CASE s = <<t, opens>>
    BY <1>1, <1>5, <2>1 DEF NotYet, Unstarted, CallsNest, Creating, TypeOK
  <2>2. CASE s # <<t, opens>>
    <3>1. s[2] = opens => s[1] # t
      BY <2>2, ServerParts
    <3>2. /\ Fresh(s) => Fresh(s)'
          /\ Serving(s) => Serving(s)'
      BY <1>1, <1>3, <2>2 DEF Fresh, Serving
    <3>3. NotYet(s)' => NotYet(s)
      BY <1>1 DEF NotYet
    <3>4. Unstarted(s)' => Unstarted(s)
      BY <1>1 DEF Unstarted
    <3>5. Started(s)' => Started(s)
      BY <1>1, <3>1, ServerParts DEF Started, Types
    <3> QED BY <3>2, <3>3, <3>4, <3>5 DEF LoopsAtLine
  <2> QED BY <2>1, <2>2
<1> QED BY <1>6, <1>7

\* _flag_open is set when both loops have begun.
LEMMA SetCalls == TypeOK /\ Calls /\ SetFlag => Calls'
<1> SUFFICES ASSUME TypeOK, Calls, SetFlag PROVE Calls'
  OBVIOUS
<1> USE DEF SetFlag, Goto, io_vars, Calls
<1>1. LoopsStay
  BY DEF LoopsStay, Loops, Idle
<1>2. CallsNest' /\ MembersListen' /\ NoOrphan' /\ MembersAtLine'
  BY DEF CallsNest, MembersListen, NoOrphan, MembersAtLine, Creating
<1>3. LoopsAtLine'
  BY <1>1 DEF LoopsStay, LoopsAtLine, NotYet, Unstarted, Started, Fresh
<1>4. ASSUME NEW t \in Types PROVE member[t] \in listening /\ Serving(member[t])
  <2>1. member[t] = <<t, opens>> /\ <<t, opens>> \in Servers
    BY ServerParts DEF MembersAtLine, CallsNest, Creating, TypeOK
  <2>2. Started(<<t, opens>>)
    BY DEF Started
  <2> QED BY <2>1, <2>2, StartedListens DEF LoopsAtLine
<1>5. FlagTellsTruth'
  BY <1>1, <1>4 DEF FlagTellsTruth, LoopsStay, Serving, TypeOK
<1> QED BY <1>2, <1>3, <1>5

\* Every step preserves what the calls rely on.
LEMMA CallsStep == TypeOK /\ Calls /\ [Next]_vars => Calls'
<1> SUFFICES ASSUME TypeOK, Calls, [Next]_vars PROVE Calls'
  OBVIOUS
<1>1. CASE UNCHANGED vars
  BY <1>1 DEF vars, main_vars, io_vars, Calls, CallsNest, MembersListen, NoOrphan, MembersAtLine,
     LoopsAtLine, NotYet, Unstarted, Started, Fresh, Serving, Loops, Idle, FlagTellsTruth
<1>2. CASE Open \/ Close \/ MainStep
  BY <1>2, OpenCalls, CloseCalls, ClearCalls, CreateCalls, AcceptCalls, SetCalls DEF MainStep
<1>3. CASE \/ \E c \in Clients : Connect(c)
           \/ \E s \in Servers : Accepted(s) \/ AcceptFails(s) \/ CallbackStep(s)
  BY <1>3, IoSteps, IoCalls
<1> QED BY <1>1, <1>2, <1>3 DEF Next

-----------------------------------------------------------------------------
(* The session ids.                                                        *)

\* The reading half of sid++: until another callback reads too, the copy is the counter.
LEMMA ReadIds ==
  ASSUME TypeOK, Ids, NEW s \in Servers, ReadSid(s)
  PROVE  Ids'
<1> USE DEF ReadSid, TypeOK, InSid, Ids
<1>1. SidsDistinct'
  BY DEF SidsDistinct
<1>2. ASSUME ~overlapped' PROVE ~overlapped /\ \A x \in Servers : ~InSid(x)
  BY <1>2
<1>3. \A x \in Servers : x # s => callback'[x] = callback[x] /\ copy'[x] = copy[x]
  OBVIOUS
<1>4. callback'[s] = "write" /\ copy'[s] = sid /\ UNCHANGED <<sid, session>>
  OBVIOUS
<1>5. SidsBelow'
  BY <1>2, <1>3, <1>4 DEF SidsBelow
<1> QED BY <1>1, <1>5

\* The writing half: the counter passes the copy, which nobody else has.
LEMMA WriteIds ==
  ASSUME TypeOK, Ids, NEW s \in Servers, WriteSid(s)
  PROVE  Ids'
<1> USE DEF WriteSid, Incremented, TypeOK, InSid, Ids
<1>1. SidsDistinct'
  BY DEF SidsDistinct
<1>2. \A x \in Servers : x # s => callback'[x] = callback[x]
  OBVIOUS
<1>3. callback'[s] = "start" /\ sid' = copy[s] + 1 /\ UNCHANGED <<copy, session, overlapped>>
  OBVIOUS
<1>4. ASSUME ~overlapped
      PROVE  copy[s] = sid /\ \A x \in Servers : x # s => callback[x] # "write"
  BY <1>4 DEF SidsBelow
<1>5. ASSUME ~overlapped PROVE SidsBelow'
  BY <1>2, <1>3, <1>4, <1>5 DEF SidsBelow
<1> QED BY <1>1, <1>3, <1>5 DEF SidsBelow

\* The copy becomes the id of a session when no session has it.
LEMMA StartIds ==
  ASSUME TypeOK, Ids, NEW s \in Servers, StartSession(s)
  PROVE  Ids'
<1> USE DEF StartSession, TypeOK, InSid, Ids
<1>1. client[s] \in Clients
  BY DEF Idle
<1>2. \A x \in Servers : x # s => callback'[x] = callback[x] /\ copy'[x] = copy[x]
  OBVIOUS
<1>3. callback'[s] = "none" /\ UNCHANGED <<sid, overlapped>>
  OBVIOUS
<1>4. /\ session'[client[s]] = copy[s]
      /\ \A c \in Clients : c # client[s] => session'[c] = session[c]
  BY <1>1
<1>5. ASSUME ~overlapped PROVE SidsBelow' /\ SidsDistinct'
  <2>1. /\ copy[s] < sid
        /\ \A x \in Servers : callback[x] = "start" /\ copy[x] = copy[s] => x = s
        /\ \A c \in Clients : session[c] # copy[s] \/ session[c] = 0
    BY <1>5 DEF SidsBelow
  <2>2. SidsBelow'
    BY <1>2, <1>3, <1>4, <1>5, <2>1 DEF SidsBelow
  <2>3. SidsDistinct'
    BY <1>3, <1>4, <1>5, <2>1 DEF SidsDistinct
  <2> QED BY <2>2, <2>3
<1> QED BY <1>3, <1>5 DEF SidsBelow, SidsDistinct

\* Every step preserves what is known of the ids.
LEMMA IdsStep == TypeOK /\ Ids /\ [Next]_vars => Ids'
<1> SUFFICES ASSUME TypeOK, Ids, [Next]_vars PROVE Ids'
  OBVIOUS
<1>1. ASSUME UNCHANGED <<callback, copy, sid, session, overlapped>> PROVE Ids'
  BY <1>1 DEF Ids, SidsBelow, SidsDistinct, InSid
<1>2. CASE Open \/ Close \/ MainStep
  BY <1>1, <1>2 DEF Open, Close, MainStep, CloseNative, CloseWeb, CloseServer, ClearFlag, CreateNative,
     CreateWeb, CreateServer, AcceptNative, AcceptWeb, FirstAccept, SetFlag, io_vars
<1>3. ASSUME NEW c \in Clients, Connect(c) PROVE Ids'
  BY <1>1, <1>3 DEF Connect, io_vars
<1>4. ASSUME NEW s \in Servers, Accepted(s) PROVE Ids'
  <2>1. \A x \in Servers : callback'[x] = IF x = s THEN "read" ELSE callback[x]
    BY <1>4 DEF Accepted, TypeOK
  <2>2. callback[s] = "none" /\ UNCHANGED <<copy, sid, session, overlapped>>
    BY <1>4 DEF Accepted, Idle
  <2> QED BY <2>1, <2>2 DEF Ids, SidsBelow, SidsDistinct, InSid
<1>5. ASSUME NEW s \in Servers, AcceptFails(s) PROVE Ids'
  BY <1>1, <1>5 DEF AcceptFails, io_vars
<1>6. ASSUME NEW s \in Servers, CallbackStep(s) PROVE Ids'
  BY <1>6, ReadIds, WriteIds, StartIds DEF CallbackStep
<1>7. CASE UNCHANGED vars
  BY <1>1, <1>7 DEF vars, io_vars
<1> QED BY <1>2, <1>3, <1>4, <1>5, <1>6, <1>7 DEF Next

-----------------------------------------------------------------------------
(* The theorems.                                                           *)

\* The invariant is inductive.
LEMMA NextIInv == IInv /\ [Next]_vars => IInv'
<1> SUFFICES ASSUME IInv, [Next]_vars PROVE IInv'
  OBVIOUS
<1>1. TypeOK'
  <2>1. CASE UNCHANGED vars
    BY <2>1 DEF vars, main_vars, io_vars, IInv, TypeOK, Idle
  <2> QED BY <2>1, MainTypes, IoTypes DEF IInv, Calls, Next
<1>2. Calls'
  BY CallsStep DEF IInv
<1>3. Ids'
  BY IdsStep DEF IInv
<1> QED BY <1>1, <1>2, <1>3 DEF IInv

\* Every reachable state satisfies the inductive invariant.
THEOREM Invariance == Spec => []IInv
  BY InitIInv, NextIInv, PTL DEF Spec

\* Every reachable state of the gateway is well typed: open() only starts servers it made.
THEOREM TypeCorrect == Spec => []TypeOK
<1>1. IInv => TypeOK
  BY DEF IInv
<1> QED BY <1>1, Invariance, PTL

\* gateway.cpp:77-80: a server that listens is a member of the gateway, so close() reaches
\* it, after any number of calls and failures.
THEOREM NoneOrphaned == Spec => []NoOrphan
<1>1. IInv => NoOrphan
  BY DEF IInv, Calls
<1> QED BY <1>1, Invariance, PTL

\* gateway.cpp:62, 83: between calls _flag_open says whether both servers listen, with one
\* accept loop each unless its accept failed.
THEOREM FlagCorrect == Spec => []FlagTellsTruth
<1>1. IInv => FlagTellsTruth
  BY DEF IInv, Calls
<1> QED BY <1>1, Invariance, PTL

\* gateway.cpp:256: session ids are distinct unless two callbacks met in sid++.
THEOREM IdsDistinct == Spec => []SidsDistinct
<1>1. IInv => SidsDistinct
  BY DEF IInv, Ids
<1> QED BY <1>1, Invariance, PTL
=============================================================================
