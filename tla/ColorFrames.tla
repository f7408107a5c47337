----------------------------- MODULE ColorFrames -----------------------------
(***************************************************************************)
(* The order of the colour channels of the images in the colour ring.      *)
(* kinect2::acquire_color_frame has the sensor's frame converted to RGBA   *)
(* in the block and then swaps the first and third byte of every pixel of  *)
(* the block, also when there was no frame to convert.  The sensor has a   *)
(* new frame for about every other tick of the forward manager's timer, so *)
(* that case is as common as the other.  The test application takes the    *)
(* image it copies for RGBA.                                               *)
(*                                                                         *)
(* A tick of the timer is one step here (SharedBuffer has its parts); the  *)
(* client may hold or copy a block meanwhile.                              *)
(***************************************************************************)
EXTENDS Integers, FiniteSets

CONSTANTS
  block_count,  \* blocks of the ring (15)
  MaxTick       \* bound: ticks of the timer

ASSUME RingAssumption == block_count \in Nat \ {0} /\ MaxTick \in Nat

VARIABLES
  tick,        \* the timer's tick
  timestamps,  \* of each block
  order,       \* channel order of the image in each block
  next_write,  \* extension_next_write_idx
  next_read,   \* extension_next_read_idx
  ts,          \* the client's last timestamp
  pc,          \* the client: idle, hold, copy
  ci,          \* the block it has chosen
  image,       \* channel order of the client's image
  displaced    \* history: blocks skipped or written out of turn, because one was locked, and
               \* not written anew in their turn since

vars == <<tick, timestamps, order, next_write, next_read, ts, pc, ci, image, displaced>>

Slots  == 0 .. block_count - 1
Orders == {"none", "rgba", "bgra"}

NextIndex_Stays(i) == i
NextIndex(i) == (i + 1) % block_count
Locked(i) == pc = "hold" /\ ci = i

Swapped(o) == IF o = "rgba" THEN "bgra" ELSE IF o = "bgra" THEN "rgba" ELSE "none"

\* acquire_color_frame on a block with image o: convert, then swap in any case.
Acquired(o, result) == Swapped(IF result THEN "rgba" ELSE o)

-----------------------------------------------------------------------------
\* The colour half of frdmgr::_on_timer: result says whether there was a frame.
OnTimer(result) ==
  LET i == IF Locked(next_write) THEN NextIndex(next_write) ELSE next_write IN
  /\ tick < MaxTick
  /\ ~Locked(i)
  /\ tick' = tick + 1
  /\ order' = [order EXCEPT ![i] = Acquired(@, result)]
  /\ timestamps' = [timestamps EXCEPT ![i] = IF result THEN tick' ELSE @]
  /\ next_write' = NextIndex(next_write)
  /\ displaced' = IF i # next_write THEN displaced \cup {next_write, i}
                   ELSE IF result THEN displaced \ {i}
                   ELSE displaced
  /\ UNCHANGED <<next_read, ts, pc, ci, image>>

\* How far block i is from the client's next index.
Ahead(i) == (i - next_read) % block_count

\* get_readable_data_address: the first block from next_read on that is newer.
AcquireFrame(i) ==
  /\ pc = "idle"
  /\ timestamps[i] > ts
  /\ \A j \in Slots : Ahead(j) < Ahead(i) => timestamps[j] <= ts
  /\ ci' = i
  /\ pc' = "hold"
  /\ UNCHANGED <<tick, timestamps, order, next_write, next_read, ts, image, displaced>>

\* The timestamp is noted and the block released ...
Release ==
  /\ pc = "hold"
  /\ ts' = timestamps[ci]
  /\ next_read' = NextIndex(next_read)
  /\ pc' = "copy"
  /\ UNCHANGED <<tick, timestamps, order, next_write, ci, image, displaced>>

\* ... before the image is copied.
Copy ==
  /\ pc = "copy"
  /\ image' = order[ci]
  /\ pc' = "idle"
  /\ UNCHANGED <<tick, timestamps, order, next_write, next_read, ts, ci, displaced>>

Init ==
  /\ tick = 0
  /\ timestamps = [i \in Slots |-> 0]
  /\ order = [i \in Slots |-> "none"]
  /\ next_write = 0 /\ next_read = 0
  /\ ts = 0 /\ pc = "idle" /\ ci = 0 /\ image = "none"
  /\ displaced = {}

Next ==
  \/ \E result \in BOOLEAN : OnTimer(result)
  \/ \E i \in Slots : AcquireFrame(i)
  \/ Release
  \/ Copy

Spec == Init /\ [][Next]_vars

-----------------------------------------------------------------------------
TypeOK ==
  /\ tick \in 0 .. MaxTick
  /\ timestamps \in [Slots -> 0 .. tick]
  /\ order \in [Slots -> Orders]
  /\ next_write \in Slots /\ next_read \in Slots /\ ci \in Slots
  /\ ts \in 0 .. tick
  /\ pc \in {"idle", "hold", "copy"}
  /\ image \in Orders
  /\ displaced \subseteq Slots

\* Turns of the ring since the image in block i was converted: as many ticks found no
\* frame for it since.
Turns(i) == (tick - timestamps[i]) \div block_count

\* OpenNUI_Kinect2.cpp:204-231 against frdmgr.cpp:79-84: the swap of a tick without
\* a frame turns the image that is already in the block, so the images of the ring
\* come in both orders at any time.  Which one an image has can be told from its
\* timestamp alone: BGRA within the first turn of the ring, RGBA within the next, and
\* so on; unless a client once made the timer skip the block or write it out of turn.
OrderTellsAge ==
  \A i \in Slots \ displaced :
    timestamps[i] # 0 => order[i] = IF Turns(i) % 2 = 0 THEN "bgra" ELSE "rgba"

\* clnt_main.cpp:28 "// RGBA Raw Image" says of the buffer that the test application
\* has acquire_kinect2_color_frame fill: an image that was grabbed is in RGBA.
GrabsRgba == image # "none" => image = "rgba"
=============================================================================
