--------------------------- MODULE MessageStream ---------------------------
(***************************************************************************)
(* What the keep-alive stream of a session promises, without cells, reads  *)
(* and buffers: messages are worked off one by one in the order sent, and  *)
(* each hello is handed over once, as it was sent.                         *)
(*                                                                         *)
(* The promise ends with a fault: an abnormal message, or a read that ends *)
(* inside a message.                                                       *)
(***************************************************************************)
EXTENDS Naturals, Sequences

CONSTANTS
  Messages,        \* records with an opcode, among others
  handshake_hello  \* the opcode that is handed over

VARIABLES
  sent,     \* the messages sent
  done,     \* how many of them have been worked off
  out,      \* the hellos handed over
  faulted   \* nothing is promised any more

vars == <<sent, done, out, faulted>>

Init == sent = <<>> /\ done = 0 /\ out = <<>> /\ faulted = FALSE

Send(m) ==
  /\ sent' = Append(sent, m)
  /\ UNCHANGED <<done, out, faulted>>

Work ==
  /\ done < Len(sent)
  /\ done' = done + 1
  /\ out' = IF sent[done'].opcode = handshake_hello THEN Append(out, sent[done']) ELSE out
  /\ UNCHANGED <<sent, faulted>>

Fault ==
  /\ faulted' = TRUE
  /\ sent' \in Seq(Messages) /\ done' \in Nat

Next == (\E m \in Messages : Send(m)) \/ Work \/ Fault

Spec == Init /\ [][Next]_vars
=============================================================================
