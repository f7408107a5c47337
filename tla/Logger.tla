------------------------------- MODULE Logger -------------------------------
(***************************************************************************)
(* The console log: opennui::sys::logger in the framework and its copy     *)
(* opennui::clnt::logger in the SDK, which a device module brings into the *)
(* framework's process.  Each has a spin lock of its own; the console and  *)
(* its colours are one.  system_error_log and system_msg set the colour,   *)
(* print a line and put back the colour they found; system_log just        *)
(* prints.                                                                 *)
(***************************************************************************)
EXTENDS Naturals, FiniteSets

CONSTANTS
  SysThreads,   \* threads of the framework: main, timer, I/O, handshakes
  ClntThreads,  \* threads that log through the SDK's copy
  ClntKinds,    \* the calls those make: OpenNUI_Kinect2 only uses system_log
  MsgColors     \* attributes given to system_msg: 16 * background + text

VARIABLES
  lock,     \* the spin lock of each copy: is it taken?
  color,    \* the console's attributes: background and text colour
  pc,       \* where each thread is in its call
  kind,     \* which call it makes
  wanted,   \* the attributes the call sets
  old,      \* the colour it found
  line      \* history: kind, wanted and actual colour of the last line printed

vars == <<lock, color, pc, kind, wanted, old, line>>

ASSUME ThreadsAssumption == SysThreads \cap ClntThreads = {}
ASSUME KindsAssumption ==
  ClntKinds \subseteq {"log", "error", "msg"} /\ MsgColors \subseteq 0 .. 255

Threads  == SysThreads \cup ClntThreads
Copies   == {"sys", "clnt"}
CopyOf(t) == IF t \in SysThreads THEN "sys" ELSE "clnt"
KindsOf(t) == IF t \in SysThreads THEN {"log", "error", "msg"} ELSE ClntKinds

Default    == <<0, 7>>  \* system("color 7")
ErrorColor == 12
Attributes(c) == <<c \div 16, c % 16>>
NoLine     == [kind |-> "none", wanted |-> Default, shown |-> Default, by |-> "none"]

Goto(t, l) == pc' = [pc EXCEPT ![t] = l]

-----------------------------------------------------------------------------
\* The call formats its line in a buffer of its own, then wants the lock.
Call(t, k, c) ==
  /\ pc[t] = "idle"
  /\ k \in KindsOf(t)
  /\ kind' = [kind EXCEPT ![t] = k]
  /\ wanted' = [wanted EXCEPT ![t] = c]
  /\ Goto(t, "lock")
  /\ UNCHANGED <<lock, color, old, line>>

CallAny(t) ==
  \/ Call(t, "log", Default[2])
  \/ Call(t, "error", ErrorColor)
  \/ \E c \in MsgColors : Call(t, "msg", c)

\* lock_guard's constructor, when the spinning ends
LockFree_Ignored(t) == TRUE
LockFree(t) == ~lock[CopyOf(t)]
Lock(t) ==
  /\ pc[t] = "lock"
  /\ LockFree(t)
  /\ lock' = [lock EXCEPT ![CopyOf(t)] = TRUE]
  /\ Goto(t, IF kind[t] = "log" THEN "print" ELSE "get_back")
  /\ UNCHANGED <<color, kind, wanted, old, line>>

\* set_console_color: the old colour is read in two calls, then the new one set.
GetBack(t) ==
  /\ pc[t] = "get_back"
  /\ old' = [old EXCEPT ![t] = <<color[1], @[2]>>]
  /\ Goto(t, "get_text")
  /\ UNCHANGED <<lock, color, kind, wanted, line>>

GetText(t) ==
  /\ pc[t] = "get_text"
  /\ old' = [old EXCEPT ![t] = <<@[1], color[2]>>]
  /\ Goto(t, "set")
  /\ UNCHANGED <<lock, color, kind, wanted, line>>

SetColor(t) ==
  /\ pc[t] = "set"
  /\ color' = Attributes(wanted[t])
  /\ Goto(t, "print")
  /\ UNCHANGED <<lock, kind, wanted, old, line>>

\* fprintf
WriteLine(t) ==
  /\ pc[t] = "print"
  /\ line' = [kind |-> kind[t], wanted |-> Attributes(wanted[t]), shown |-> color, by |-> CopyOf(t)]
  /\ Goto(t, IF kind[t] = "log" THEN "unlock" ELSE "restore")
  /\ UNCHANGED <<lock, color, kind, wanted, old>>

\* set_console_color(old)
Restored_Forgotten(t) == UNCHANGED color
Restored(t) == color' = old[t]
Restore(t) ==
  /\ pc[t] = "restore"
  /\ Restored(t)
  /\ Goto(t, "unlock")
  /\ UNCHANGED <<lock, kind, wanted, old, line>>

\* lock_guard's destructor
Unlock(t) ==
  /\ pc[t] = "unlock"
  /\ lock' = [lock EXCEPT ![CopyOf(t)] = FALSE]
  /\ Goto(t, "idle")
  /\ UNCHANGED <<color, kind, wanted, old, line>>

-----------------------------------------------------------------------------
Init ==
  /\ lock = [c \in Copies |-> FALSE]
  /\ color = Default
  /\ pc = [t \in Threads |-> "idle"]
  /\ kind = [t \in Threads |-> "log"]
  /\ wanted = [t \in Threads |-> Default[2]]
  /\ old = [t \in Threads |-> Default]
  /\ line = NoLine

Inside(t) == GetBack(t) \/ GetText(t) \/ SetColor(t) \/ WriteLine(t) \/ Restore(t) \/ Unlock(t)

Next == \E t \in Threads : CallAny(t) \/ Lock(t) \/ Inside(t)

Spec == Init /\ [][Next]_vars

-----------------------------------------------------------------------------
TypeOK ==
  /\ lock \in [Copies -> BOOLEAN]
  /\ color \in (0 .. 15) \X (0 .. 15)
  /\ pc \in [Threads -> {"idle", "lock", "get_back", "get_text", "set", "print", "restore", "unlock"}]
  /\ kind \in [Threads -> {"log", "error", "msg"}]
  /\ wanted \in [Threads -> 0 .. 255]
  /\ old \in [Threads -> (0 .. 15) \X (0 .. 15)]

\* logger.cpp:66-99: whatever is being logged, the console has its own colour
\* back when no thread is between setting and restoring it.
ColorRestored ==
  (\A t \in Threads : pc[t] \notin {"print", "restore"} \/ kind[t] = "log") => color = Default

\* Each line of the framework is shown in the colour of its kind, although other
\* threads set colours of their own all the time.
LinesInOwnColor ==
  line.by = "sys" => line.shown = line.wanted
=============================================================================
