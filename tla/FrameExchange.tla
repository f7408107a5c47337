--------------------------- MODULE FrameExchange ---------------------------
(***************************************************************************)
(* What the ring of frame blocks promises, without its locks, indices and  *)
(* searches: frames are put on shelves under ever newer ticks; a client    *)
(* asks for a frame newer than the last one it saw and then fills its      *)
(* image, part by part, with nothing older than that frame.                *)
(*                                                                         *)
(* A shelf may be cleared and a client may start anew at any time.  Once a *)
(* process clears a shelf that is in use the exchange is broken, and       *)
(* nothing is promised any more.                                           *)
(***************************************************************************)
EXTENDS Integers

CONSTANTS Places, Clients

VARIABLES
  shelf,   \* of each place: the tick of the frame there, 0 if none
  seen,    \* of each client: the tick of the frame it was given last
  image,   \* of each client: the ticks of the first and the last part of its image
  broken   \* a place was cleared while in use

vars == <<shelf, seen, image, broken>>

Parts == {1, 2}

Init ==
  /\ shelf = [p \in Places |-> 0]
  /\ seen = [c \in Clients |-> 0]
  /\ image = [c \in Clients |-> <<0, 0>>]
  /\ broken = FALSE

\* A frame replaces an older one, or none.
Publish(p) ==
  /\ shelf'[p] \in Nat /\ shelf'[p] > shelf[p]
  /\ shelf' = [shelf EXCEPT ![p] = shelf'[p]]
  /\ UNCHANGED <<seen, image, broken>>

\* A request is answered with a frame that is there and newer than the last.
Take(c) ==
  /\ \E p \in Places : shelf[p] > seen[c] /\ seen' = [seen EXCEPT ![c] = shelf[p]]
  /\ UNCHANGED <<shelf, image, broken>>

\* The image is filled with that frame, or with what has replaced it meanwhile.
Fill(c, k) ==
  /\ image'[c][k] \in Nat /\ image'[c][k] >= seen[c]
  /\ image' = [image EXCEPT ![c][k] = image'[c][k]]
  /\ UNCHANGED <<shelf, seen, broken>>

Forget(c) ==
  /\ seen' = [seen EXCEPT ![c] = 0]
  /\ image' = [image EXCEPT ![c] = <<0, 0>>]
  /\ UNCHANGED <<shelf, broken>>

Clear(p) ==
  /\ shelf' = [shelf EXCEPT ![p] = 0]
  /\ UNCHANGED <<seen, image, broken>>

Break ==
  /\ broken' = TRUE
  /\ shelf' \in [Places -> Nat]
  /\ seen' \in [Clients -> Nat]
  /\ image' \in [Clients -> Nat \X Nat]

Next ==
  \/ \E p \in Places : Publish(p) \/ Clear(p)
  \/ \E c \in Clients : Take(c) \/ Forget(c) \/ \E k \in Parts : Fill(c, k)
  \/ Break

Spec == Init /\ [][Next]_vars
=============================================================================
