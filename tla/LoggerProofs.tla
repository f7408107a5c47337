---------------------------- MODULE LoggerProofs ----------------------------
(***************************************************************************)
(* Proofs about the two loggers, for any number of threads and any colours *)
(* of messages, while the threads that log through the SDK's copy only use *)
(* system_log, as OpenNUI_Kinect2 does.                                    *)
(***************************************************************************)
EXTENDS Logger, TLAPS

Holding  == {"get_back", "get_text", "set", "print", "restore", "unlock"}
OnlyLogs == ClntKinds \subseteq {"log"}

\* The lock of a copy is taken by the one thread of it that is inside.
LocksHeld ==
  /\ \A t \in Threads : pc[t] \in Holding => lock[CopyOf(t)]
  /\ \A t, u \in Threads :
       CopyOf(t) = CopyOf(u) /\ pc[t] \in Holding /\ pc[u] \in Holding => t = u

\* Plain lines leave the colour alone, and an SDK thread prints no others.
LogsPlain ==
  /\ \A t \in ClntThreads : kind[t] = "log"
  /\ \A t \in Threads : kind[t] = "log" =>
       pc[t] \notin {"get_back", "get_text", "set", "restore"} /\ wanted[t] = Default[2]

\* A thread that changes the colour has found the default, and sees its own.
ColorKnown ==
  \A t \in SysThreads : kind[t] # "log" =>
    /\ pc[t] = "get_text" => old[t][1] = Default[1]
    /\ pc[t] \in {"set", "print", "restore"} => old[t] = Default
    /\ pc[t] \in {"print", "restore"} => color = Attributes(wanted[t])

IInv == TypeOK /\ LocksHeld /\ LogsPlain /\ ColorKnown /\ ColorRestored /\ LinesInOwnColor

USE ThreadsAssumption, KindsAssumption DEF Threads, Copies, CopyOf, Goto

\* Masked as in the code, attributes are two colours of four bits.
LEMMA AttributesAreColors == \A c \in 0 .. 255 : Attributes(c) \in (0 .. 15) \X (0 .. 15)
  BY DEF Attributes

\* The attributes of the default colour are what system("color 7") set.
LEMMA DefaultAttributes == Attributes(Default[2]) = Default /\ Default \in (0 .. 15) \X (0 .. 15)
  BY DEF Attributes, Default

\* Every step preserves the types.
LEMMA TypeStep == TypeOK /\ [Next]_vars => TypeOK'
<1> SUFFICES ASSUME TypeOK, [Next]_vars PROVE TypeOK'
  OBVIOUS
<1> USE DEF TypeOK
<1>1. CASE UNCHANGED vars
  BY <1>1 DEF vars
<1>2. ASSUME NEW t \in Threads, CallAny(t) PROVE TypeOK'
  <2>1. ASSUME NEW k \in {"log", "error", "msg"}, NEW c \in 0 .. 255, Call(t, k, c) PROVE TypeOK'
    BY <2>1 DEF Call
  <2>2. Default[2] \in 0 .. 255 /\ ErrorColor \in 0 .. 255
    BY DEF Default, ErrorColor
  <2> QED BY <1>2, <2>1, <2>2 DEF CallAny
<1>3. ASSUME NEW t \in Threads, Lock(t) PROVE TypeOK'
  BY <1>3 DEF Lock
<1>4. ASSUME NEW t \in Threads, Inside(t) PROVE TypeOK'
  <2>1. CASE GetBack(t)
    BY <2>1 DEF GetBack
  <2>2. CASE GetText(t)
    BY <2>2 DEF GetText
  <2>3. CASE SetColor(t)
    BY <2>3, AttributesAreColors DEF SetColor
  <2>4. CASE WriteLine(t)
    BY <2>4 DEF WriteLine
  <2>5. CASE Restore(t)
    BY <2>5 DEF Restore, Restored
  <2>6. CASE Unlock(t)
    BY <2>6 DEF Unlock
  <2> QED BY <1>4, <2>1, <2>2, <2>3, <2>4, <2>5, <2>6 DEF Inside
<1> QED BY <1>1, <1>2, <1>3, <1>4 DEF Next

\* The initial state satisfies the inductive invariant.
LEMMA InitIInv == Init => IInv
  BY DefaultAttributes DEF Init, IInv, TypeOK, LocksHeld, Holding, LogsPlain, ColorKnown,
     ColorRestored, LinesInOwnColor, NoLine, Default

\* The spin locks: a copy's lock is taken before and released after each call.
LEMMA LocksStep == TypeOK /\ LocksHeld /\ [Next]_vars => LocksHeld'
<1> SUFFICES ASSUME TypeOK, LocksHeld, [Next]_vars PROVE LocksHeld'
  OBVIOUS
<1> USE DEF TypeOK, LocksHeld, Holding
<1>1. CASE UNCHANGED vars
  BY <1>1 DEF vars
<1>2. ASSUME NEW t \in Threads, CallAny(t) PROVE LocksHeld'
  BY <1>2 DEF CallAny, Call
<1>3. ASSUME NEW t \in Threads, Lock(t) PROVE LocksHeld'
  BY <1>3 DEF Lock, LockFree
<1>4. ASSUME NEW t \in Threads, Inside(t) PROVE LocksHeld'
  <2>1. CASE GetBack(t)
    BY <2>1 DEF GetBack
  <2>2. CASE GetText(t)
    BY <2>2 DEF GetText
  <2>3. CASE SetColor(t)
    BY <2>3 DEF SetColor
  <2>4. CASE WriteLine(t)
    BY <2>4 DEF WriteLine
  <2>5. CASE Restore(t)
    BY <2>5 DEF Restore
  <2>6. CASE Unlock(t)
    BY <2>6 DEF Unlock
  <2> QED BY <1>4, <2>1, <2>2, <2>3, <2>4, <2>5, <2>6 DEF Inside
<1> QED BY <1>1, <1>2, <1>3, <1>4 DEF Next

\* Plain lines never enter the part of a call that sets a colour.
LEMMA PlainStep == OnlyLogs /\ TypeOK /\ LogsPlain /\ [Next]_vars => LogsPlain'
<1> SUFFICES ASSUME OnlyLogs, TypeOK, LogsPlain, [Next]_vars PROVE LogsPlain'
  OBVIOUS
<1> USE DEF TypeOK, LogsPlain
<1>1. CASE UNCHANGED vars
  BY <1>1 DEF vars
<1>2. ASSUME NEW t \in Threads, CallAny(t) PROVE LogsPlain'
  <2>1. CASE Call(t, "log", Default[2])
    BY <2>1 DEF Call
  <2>2. ASSUME NEW k \in {"error", "msg"}, NEW c \in 0 .. 255, Call(t, k, c) PROVE LogsPlain'
    BY <2>2 DEF Call, KindsOf, OnlyLogs
  <2> QED BY <1>2, <2>1, <2>2 DEF CallAny, ErrorColor
<1>3. ASSUME NEW t \in Threads, Lock(t) PROVE LogsPlain'
  BY <1>3 DEF Lock
<1>4. ASSUME NEW t \in Threads, Inside(t) PROVE LogsPlain'
  BY <1>4 DEF Inside, GetBack, GetText, SetColor, WriteLine, Restore, Unlock
<1> QED BY <1>1, <1>2, <1>3, <1>4 DEF Next

\* While a thread of the framework is inside, nobody else has set a colour.
LEMMA AloneInside ==
  ASSUME TypeOK, LocksHeld, LogsPlain, NEW t \in SysThreads, pc[t] \in Holding,
         NEW u \in Threads, u # t
  PROVE  pc[u] \notin {"set", "print", "restore", "unlock"} \/ kind[u] = "log"
  BY DEF LocksHeld, LogsPlain, Holding

\* So the colour it finds is the default, until it sets one itself.
LEMMA FindsDefault ==
  ASSUME TypeOK, LocksHeld, LogsPlain, ColorRestored, NEW t \in SysThreads, pc[t] \in Holding,
         pc[t] \notin {"print", "restore"} \/ kind[t] = "log"
  PROVE  color = Default
  BY AloneInside DEF ColorRestored

\* A thread with a colour to set, and not a plain line, is one of the framework.
LEMMA SettersAreSys ==
  ASSUME LogsPlain, NEW t \in Threads, kind[t] # "log"
  PROVE  t \in SysThreads
  BY DEF LogsPlain

\* What a thread knows of the colour and of the one it found stays true.
LEMMA ColorStep ==
  TypeOK /\ LocksHeld /\ LogsPlain /\ ColorKnown /\ ColorRestored /\ [Next]_vars
    => ColorKnown' /\ ColorRestored'
<1> SUFFICES ASSUME TypeOK, LocksHeld, LogsPlain, ColorKnown, ColorRestored, [Next]_vars
             PROVE  ColorKnown' /\ ColorRestored'
  OBVIOUS
<1> USE DEF TypeOK
<1>1. CASE UNCHANGED vars
  BY <1>1 DEF vars, ColorKnown, ColorRestored
<1>2. ASSUME NEW t \in Threads, CallAny(t) PROVE ColorKnown' /\ ColorRestored'
  <2>1. ASSUME NEW k \in {"log", "error", "msg"}, NEW c \in 0 .. 255, Call(t, k, c)
        PROVE  ColorKnown' /\ ColorRestored'
    BY <2>1 DEF Call, ColorKnown, ColorRestored
  <2> QED BY <1>2, <2>1 DEF CallAny, ErrorColor, Default
<1>3. ASSUME NEW t \in Threads, Lock(t) PROVE ColorKnown' /\ ColorRestored'
  BY <1>3 DEF Lock, ColorKnown, ColorRestored
<1>4. ASSUME NEW t \in Threads, Inside(t) PROVE ColorKnown' /\ ColorRestored'
  <2>1. CASE GetBack(t)
    <3>1. t \in SysThreads /\ color = Default
      BY <2>1, FindsDefault, SettersAreSys DEF GetBack, LogsPlain, Holding
    <3> QED BY <2>1, <3>1 DEF GetBack, ColorKnown, ColorRestored
  <2>2. CASE GetText(t)
    <3>1. t \in SysThreads /\ kind[t] # "log" /\ color = Default /\ old[t][1] = Default[1]
      BY <2>2, FindsDefault, SettersAreSys DEF GetText, LogsPlain, Holding, ColorKnown
    <3>2. old'[t] = Default
      BY <2>2, <3>1 DEF GetText, Default
    <3> QED BY <2>2, <3>1, <3>2 DEF GetText, ColorKnown, ColorRestored
  <2>3. CASE SetColor(t)
    <3>1. t \in SysThreads /\ kind[t] # "log" /\ old[t] = Default
      BY <2>3, SettersAreSys DEF SetColor, LogsPlain, ColorKnown
    <3>2. \A u \in Threads : u # t /\ kind[u] # "log" =>
            pc[u] \notin {"set", "print", "restore", "unlock"}
      BY <2>3, <3>1, AloneInside DEF SetColor, Holding
    <3> QED BY <2>3, <3>1, <3>2 DEF SetColor, ColorKnown, ColorRestored
  <2>4. CASE WriteLine(t)
    BY <2>4 DEF WriteLine, ColorKnown, ColorRestored
  <2>5. CASE Restore(t)
    <3>1. t \in SysThreads /\ kind[t] # "log" /\ old[t] = Default
      BY <2>5, SettersAreSys DEF Restore, LogsPlain, ColorKnown
    <3>2. \A u \in Threads : u # t /\ kind[u] # "log" =>
            pc[u] \notin {"set", "print", "restore", "unlock"}
      BY <2>5, <3>1, AloneInside DEF Restore, Holding
    <3> QED BY <2>5, <3>1, <3>2 DEF Restore, Restored, ColorKnown, ColorRestored
  <2>6. CASE Unlock(t)
    BY <2>6 DEF Unlock, ColorKnown, ColorRestored
  <2> QED BY <1>4, <2>1, <2>2, <2>3, <2>4, <2>5, <2>6 DEF Inside
<1> QED BY <1>1, <1>2, <1>3, <1>4 DEF Next

\* A line is printed by a thread that knows the colour, or finds the default.
LEMMA LinesStep ==
  TypeOK /\ LocksHeld /\ LogsPlain /\ ColorKnown /\ ColorRestored /\ LinesInOwnColor
    /\ [Next]_vars => LinesInOwnColor'
<1> SUFFICES ASSUME TypeOK, LocksHeld, LogsPlain, ColorKnown, ColorRestored, LinesInOwnColor,
                    [Next]_vars
             PROVE  LinesInOwnColor'
  OBVIOUS
<1>1. CASE UNCHANGED line
  BY <1>1 DEF LinesInOwnColor
<1>2. ASSUME NEW t \in SysThreads, WriteLine(t) PROVE LinesInOwnColor'
  <2>1. CASE kind[t] = "log"
    <3>1. color = Default
      BY <1>2, <2>1, FindsDefault DEF WriteLine, Holding
    <3>2. wanted[t] = Default[2]
      BY <2>1 DEF LogsPlain
    <3> QED BY <1>2, <3>1, <3>2, DefaultAttributes DEF WriteLine, LinesInOwnColor
  <2>2. CASE kind[t] # "log"
    BY <1>2, <2>2 DEF WriteLine, ColorKnown, LinesInOwnColor
  <2> QED BY <2>1, <2>2
<1>3. ASSUME NEW t \in ClntThreads, WriteLine(t) PROVE LinesInOwnColor'
  BY <1>3 DEF WriteLine, LinesInOwnColor
<1>4. UNCHANGED line \/ \E t \in Threads : WriteLine(t)
  BY DEF Next, vars, CallAny, Call, Lock, Inside, GetBack, GetText, SetColor, Restore, Unlock
<1> QED BY <1>1, <1>2, <1>3, <1>4

\* The invariant is inductive.
LEMMA NextIInv == OnlyLogs /\ IInv /\ [Next]_vars => IInv'
  BY TypeStep, LocksStep, PlainStep, ColorStep, LinesStep DEF IInv

\* Every reachable state of the loggers is well typed.
THEOREM TypeCorrect == Spec => []TypeOK
<1>1. Init => TypeOK
  BY InitIInv DEF IInv
<1> QED BY <1>1, TypeStep, PTL DEF Spec

\* The inductive invariant holds while SDK threads only print plain lines.
THEOREM Invariance == ASSUME OnlyLogs PROVE Spec => []IInv
<1>1. IInv /\ [Next]_vars => IInv'
  BY NextIInv
<1> QED BY <1>1, InitIInv, PTL DEF Spec

\* logger.cpp:66-99: the console gets its own colour back, with any number of threads.
THEOREM ColorsRestored == ASSUME OnlyLogs PROVE Spec => []ColorRestored
<1>1. IInv => ColorRestored
  BY DEF IInv
<1> QED BY <1>1, Invariance, PTL

\* logger.cpp:15-99: each line of the framework is shown in the colour of its kind.
THEOREM LinesKeepColor == ASSUME OnlyLogs PROVE Spec => []LinesInOwnColor
<1>1. IInv => LinesInOwnColor
  BY DEF IInv
<1> QED BY <1>1, Invariance, PTL
=============================================================================
