---------------------------- MODULE SharedBuffer ----------------------------
(***************************************************************************)
(* The ring of frame blocks that the framework and its clients share       *)
(* (opennui::shared_buffer), with the two loops that use it: the writer    *)
(* half of frdmgr::_on_timer in a framework process, and                   *)
(* temp_acquire_kinect2_{color,depth}_frame in a client process.           *)
(*                                                                         *)
(* Each step touches the shared memory at most once, so every interleaving *)
(* of the processes at that granularity is a behaviour.  A process starts  *)
(* by running the constructor of shared_buffer, which zeroes the WHOLE     *)
(* shared memory, whoever else already uses it.                            *)
(***************************************************************************)
EXTENDS Integers, FiniteSets

CONSTANTS
  block_count,  \* blocks in the ring (15 in the code)
  Writers,      \* framework processes (one timer thread each)
  Readers,      \* client processes
  TickModulus,  \* timestamps are uint32_t: 2^32 in the code
  MaxTick,      \* bound: a writer takes no tick beyond this one
  MaxCrash      \* bound: processes killed in a behaviour

ASSUME BlockCountAssumption == block_count \in Nat \ {0}
ASSUME ProcsAssumption == Writers \cap Readers = {}
ASSUME TickAssumption == TickModulus \in Nat \ {0}
ASSUME BoundAssumption == MaxTick \in Nat /\ MaxCrash \in Nat

VARIABLES
  locks,       \* shared memory: the lock word of each block
  timestamps,  \* shared memory: the tick of the frame in each block, 0 if none
  blocks,      \* shared memory: frame found in the first and last bytes of each block
  pc,          \* where each process is in its loop
  ci,          \* the local "ci" (or the index memset has reached)
  next_idx,    \* extension_next_write_idx / extension_next_read_idx
  ts,          \* writer: the current tick; reader: the static "ts"
  dst,         \* the frame in the first and last bytes of a reader's image
  crashes,     \* number of processes killed so far
  raced        \* history: a constructor zeroed a block somebody was using

shm  == <<locks, timestamps, blocks>>
vars == <<locks, timestamps, blocks, pc, ci, next_idx, ts, dst, crashes, raced>>

Procs    == Writers \cup Readers
Slots    == 0 .. block_count - 1
unlocked == 0
locked   == 1
NoFrame  == <<0, 0>>

Wiping  == {"wipe_locks", "wipe_timestamps", "wipe_blocks"}
HoldPcs == {"check", "skip", "hold", "fill", "stamp", "unlock"}
CopyPcs == {"copy_first", "copy_last"}
Pcs     == Wiping \cup HoldPcs \cup CopyPcs \cup {"idle", "try", "dead", "leaked"}

\* p took the lock of block i, is alive, and has not released it.
Holding(p, i) == pc[p] \in HoldPcs /\ ci[p] = i

\* p is inside block i: under its lock, or copying it after the release.
Using(p, i) == pc[p] \in HoldPcs \cup CopyPcs /\ ci[p] = i

\* Block i carries a timestamp its bytes do not match.
Torn(i) == timestamps[i] # 0 /\ blocks[i] # <<timestamps[i], timestamps[i]>>

-----------------------------------------------------------------------------
\* ++ci %= block_count
NextIndex_NoWrap(i) == i + 1
NextIndex(i) == (i + 1) % block_count

\* The timestamp test of get_writable_data_address and get_readable_data_address.
Acceptable_AnyBlock(p) == TRUE
Acceptable(p) == IF p \in Writers THEN timestamps[ci[p]] < ts[p]
                                  ELSE timestamps[ci[p]] > ts[p]

\* lock(): the compare-and-swap finds the word unlocked.
lock_Blind(i) == TRUE
lock(i) == locks[i] = unlocked

\* unlock(): the word is unlocked afterwards, whatever it was before.
unlock_Missing(i) == UNCHANGED locks
unlock(i) == locks' = [locks EXCEPT ![i] = unlocked]

Goto(p, l) == pc' = [pc EXCEPT ![p] = l]

-----------------------------------------------------------------------------
(* shared_buffer::shared_buffer: memset(_shm->get_address(), 0, shm_size), *)
(* in ascending addresses: all lock words, all timestamps, all blocks.     *)

\* memset moves on from index ci[p] of one array, at its end to the next.
Advance(p, next) ==
  IF ci[p] = block_count - 1
    THEN Goto(p, next) /\ ci' = [ci EXCEPT ![p] = 0]
    ELSE UNCHANGED pc /\ ci' = [ci EXCEPT ![p] = @ + 1]

WipeLock(p) ==
  LET i == ci[p] IN
  /\ pc[p] = "wipe_locks"
  /\ locks' = [locks EXCEPT ![i] = 0]
  /\ raced' = (raced \/ Torn(i) \/ \E q \in Procs : Using(q, i))
  /\ Advance(p, "wipe_timestamps")
  /\ UNCHANGED <<timestamps, blocks, next_idx, ts, dst, crashes>>

WipeTimestamp(p) ==
  LET i == ci[p] IN
  /\ pc[p] = "wipe_timestamps"
  /\ timestamps' = [timestamps EXCEPT ![i] = 0]
  /\ raced' = (raced \/ \E q \in Procs : Using(q, i))
  /\ Advance(p, "wipe_blocks")
  /\ UNCHANGED <<locks, blocks, next_idx, ts, dst, crashes>>

WipeBlock(p) ==
  LET i == ci[p] IN
  /\ pc[p] = "wipe_blocks"
  /\ blocks' = [blocks EXCEPT ![i] = NoFrame]
  /\ raced' = (raced \/ timestamps[i] # 0 \/ \E q \in Procs : Using(q, i))
  /\ Advance(p, "idle")
  /\ UNCHANGED <<locks, timestamps, next_idx, ts, dst, crashes>>

-----------------------------------------------------------------------------
(* get_writable_data_address and get_readable_data_address: the spin loop  *)
(* common to writers and readers.                                          *)

TryLock(p) ==
  /\ pc[p] = "try"
  /\ IF lock(ci[p])
       THEN /\ locks' = [locks EXCEPT ![ci[p]] = locked]
            /\ Goto(p, "check")
            /\ UNCHANGED ci
       ELSE /\ ci' = [ci EXCEPT ![p] = NextIndex(@)]
            /\ UNCHANGED <<locks, pc>>
  /\ UNCHANGED <<timestamps, blocks, next_idx, ts, dst, crashes, raced>>

CheckTimestamp(p) ==
  /\ pc[p] = "check"
  /\ Goto(p, IF Acceptable(p) THEN "hold" ELSE "skip")
  /\ UNCHANGED <<shm, ci, next_idx, ts, dst, crashes, raced>>

SkipBlock(p) ==
  /\ pc[p] = "skip"
  /\ unlock(ci[p])
  /\ ci' = [ci EXCEPT ![p] = NextIndex(@)]
  /\ Goto(p, "try")
  /\ UNCHANGED <<timestamps, blocks, next_idx, ts, dst, crashes, raced>>

-----------------------------------------------------------------------------
(* The writer: frdmgr::_on_timer for one frame buffer of one device.       *)

OnTimer(w) ==
  /\ pc[w] = "idle"
  /\ ts[w] < MaxTick
  /\ ts' = [ts EXCEPT ![w] = (@ + 1) % TickModulus]
  /\ ci' = [ci EXCEPT ![w] = next_idx[w]]
  /\ Goto(w, "try")
  /\ UNCHANGED <<shm, next_idx, dst, crashes, raced>>

\* acquire_*_frame starts to write the frame into the block ...
AcquireFirstBytes(w) ==
  /\ pc[w] = "hold"
  /\ blocks' = [blocks EXCEPT ![ci[w]][1] = ts[w]]
  /\ Goto(w, "fill")
  /\ UNCHANGED <<locks, timestamps, ci, next_idx, ts, dst, crashes, raced>>

\* ... and ends, returning true.
AcquireLastBytes(w) ==
  /\ pc[w] = "fill"
  /\ blocks' = [blocks EXCEPT ![ci[w]][2] = ts[w]]
  /\ Goto(w, "stamp")
  /\ UNCHANGED <<locks, timestamps, ci, next_idx, ts, dst, crashes, raced>>

\* acquire_*_frame returns false: no frame was there, the timestamp is kept.  The
\* colour twin still swaps two channels of the image in the block: ColorFrames.
AcquireFails_Stamped(w) ==
  /\ pc[w] = "hold"
  /\ Goto(w, "stamp")
  /\ UNCHANGED <<shm, ci, next_idx, ts, dst, crashes, raced>>
AcquireFails(w) ==
  /\ pc[w] = "hold"
  /\ Goto(w, "unlock")
  /\ UNCHANGED <<shm, ci, next_idx, ts, dst, crashes, raced>>

WriteTimestamp(w) ==
  /\ pc[w] = "stamp"
  /\ timestamps' = [timestamps EXCEPT ![ci[w]] = ts[w]]
  /\ Goto(w, "unlock")
  /\ UNCHANGED <<locks, blocks, ci, next_idx, ts, dst, crashes, raced>>

FinishWrite(w) ==
  /\ pc[w] = "unlock"
  /\ unlock(ci[w])
  /\ next_idx' = [next_idx EXCEPT ![w] = NextIndex(@)]
  /\ Goto(w, "idle")
  /\ UNCHANGED <<timestamps, blocks, ci, ts, dst, crashes, raced>>

-----------------------------------------------------------------------------
(* The reader: temp_acquire_kinect2_color_frame (and its depth twin).      *)

AcquireFrame(r) ==
  /\ pc[r] = "idle"
  /\ ci' = [ci EXCEPT ![r] = next_idx[r]]
  /\ Goto(r, "try")
  /\ UNCHANGED <<shm, next_idx, ts, dst, crashes, raced>>

ReadTimestamp(r) ==
  /\ pc[r] = "hold"
  /\ ts' = [ts EXCEPT ![r] = timestamps[ci[r]]]
  /\ Goto(r, "unlock")
  /\ UNCHANGED <<shm, ci, next_idx, dst, crashes, raced>>

\* The block is released before memmove(dst, readable.first, ...) copies it.
ReleaseBeforeCopy(r) ==
  /\ pc[r] = "unlock"
  /\ unlock(ci[r])
  /\ next_idx' = [next_idx EXCEPT ![r] = NextIndex(@)]
  /\ Goto(r, "copy_first")
  /\ UNCHANGED <<timestamps, blocks, ci, ts, dst, crashes, raced>>

CopyFirstBytes(r) ==
  /\ pc[r] = "copy_first"
  /\ dst' = [dst EXCEPT ![r][1] = blocks[ci[r]][1]]
  /\ Goto(r, "copy_last")
  /\ UNCHANGED <<shm, ci, next_idx, ts, crashes, raced>>

CopyLastBytes(r) ==
  /\ pc[r] = "copy_last"
  /\ dst' = [dst EXCEPT ![r][2] = blocks[ci[r]][2]]
  /\ Goto(r, "idle")
  /\ UNCHANGED <<shm, ci, next_idx, ts, crashes, raced>>

-----------------------------------------------------------------------------
(* The environment: a process is killed anywhere, and started again.  Its  *)
(* lock words live in the shared memory and stay as they are.              *)

Alive(p) == pc[p] \notin {"dead", "leaked"}

Crash(p) ==
  /\ Alive(p)
  /\ crashes < MaxCrash
  /\ crashes' = crashes + 1
  /\ Goto(p, IF pc[p] \in HoldPcs THEN "leaked" ELSE "dead")
  /\ UNCHANGED <<shm, ci, next_idx, ts, dst, raced>>

Restart(p) ==
  /\ ~Alive(p)
  /\ Goto(p, "wipe_locks")
  /\ ci' = [ci EXCEPT ![p] = 0]
  /\ next_idx' = [next_idx EXCEPT ![p] = 0]
  /\ ts' = [ts EXCEPT ![p] = 0]
  /\ dst' = [q \in Readers |-> IF q = p THEN NoFrame ELSE dst[q]]
  /\ UNCHANGED <<shm, crashes, raced>>

-----------------------------------------------------------------------------
Init ==
  /\ locks      = [i \in Slots |-> 0]
  /\ timestamps = [i \in Slots |-> 0]
  /\ blocks     = [i \in Slots |-> NoFrame]
  /\ pc         = [p \in Procs |-> "wipe_locks"]
  /\ ci         = [p \in Procs |-> 0]
  /\ next_idx   = [p \in Procs |-> 0]
  /\ ts         = [p \in Procs |-> 0]
  /\ dst        = [r \in Readers |-> NoFrame]
  /\ crashes    = 0
  /\ raced      = FALSE

Construct(p) == WipeLock(p) \/ WipeTimestamp(p) \/ WipeBlock(p)
Search(p)    == TryLock(p) \/ CheckTimestamp(p) \/ SkipBlock(p)

WriterStep(w) ==
  \/ AcquireFirstBytes(w)
  \/ AcquireLastBytes(w)
  \/ AcquireFails(w)
  \/ WriteTimestamp(w)
  \/ FinishWrite(w)

ReaderStep(r) ==
  \/ ReadTimestamp(r)
  \/ ReleaseBeforeCopy(r)
  \/ CopyFirstBytes(r)
  \/ CopyLastBytes(r)

Next ==
  \/ \E p \in Procs : Construct(p) \/ Search(p) \/ Crash(p) \/ Restart(p)
  \/ \E w \in Writers : OnTimer(w) \/ WriterStep(w)
  \/ \E r \in Readers : AcquireFrame(r) \/ ReaderStep(r)

Spec == Init /\ [][Next]_vars

\* Only what a thread does on its own once it is in a call is fair: neither
\* the next tick, nor the next request of a client, nor a restart need come.
Fairness ==
  /\ \A p \in Procs : WF_vars(Construct(p) \/ Search(p))
  /\ \A w \in Writers : WF_vars(WriterStep(w))
  /\ \A r \in Readers : WF_vars(ReaderStep(r))

FairSpec == Spec /\ Fairness

-----------------------------------------------------------------------------
\* Type correctness of the shared memory and of every process.
TypeOK ==
  /\ locks \in [Slots -> {unlocked, locked}]
  /\ timestamps \in [Slots -> Nat]
  /\ blocks \in [Slots -> Nat \X Nat]
  /\ pc \in [Procs -> Pcs]
  /\ ci \in [Procs -> Slots]
  /\ next_idx \in [Procs -> Slots]
  /\ ts \in [Procs -> Nat]
  /\ dst \in [Readers -> Nat \X Nat]
  /\ crashes \in Nat
  /\ raced \in BOOLEAN

-----------------------------------------------------------------------------
(* Why the safety properties hold: the inductive invariant.                *)

\* Each kind of process stays in its own code.
KindOK ==
  /\ \A w \in Writers : pc[w] \notin CopyPcs
  /\ \A r \in Readers : pc[r] \notin {"fill", "stamp"}
  /\ \A r \in Readers : pc[r] \in Wiping => ts[r] = 0

\* Whoever is inside a lock finds its word set.
LockHeld == \A p \in Procs : \A i \in Slots : Holding(p, i) => locks[i] = locked

\* Two processes are never inside the lock of one block.
Exclusive ==
  \A p, q \in Procs : \A i \in Slots : Holding(p, i) /\ Holding(q, i) => p = q

\* Only a writer between its first byte and its timestamp leaves a block torn,
\* and if it dies there the lock word stays set.
TornIsLocked ==
  \A i \in Slots : Torn(i) =>
    /\ locks[i] = locked
    /\ \A p \in Procs : Holding(p, i) => pc[p] \in {"fill", "stamp"}

\* A writer holds a block older than its tick until it stamps it.
WriterInside ==
  \A w \in Writers :
    /\ pc[w] \in {"hold", "fill", "stamp"} => timestamps[ci[w]] < ts[w]
    /\ pc[w] = "fill"  => blocks[ci[w]][1] = ts[w]
    /\ pc[w] = "stamp" => blocks[ci[w]] = <<ts[w], ts[w]>>

\* The block a reader has chosen never becomes older than what it recorded.
ReaderInside ==
  \A r \in Readers :
    /\ pc[r] = "hold" => timestamps[ci[r]] > ts[r]
    /\ pc[r] \in {"unlock"} \cup CopyPcs => 0 < ts[r] /\ ts[r] <= timestamps[ci[r]]

\* No byte of a stamped block is older than its timestamp.
BytesNotOlder ==
  \A i \in Slots : timestamps[i] # 0 =>
    blocks[i][1] >= timestamps[i] /\ blocks[i][2] >= timestamps[i]

\* No byte of a reader's image is older than the timestamp it recorded.
ImageNotOlder ==
  \A r \in Readers :
    /\ pc[r] = "idle" => dst[r][1] >= ts[r] /\ dst[r][2] >= ts[r]
    /\ pc[r] = "copy_last" => dst[r][1] >= ts[r]

Discipline ==
  /\ LockHeld
  /\ Exclusive
  /\ TornIsLocked
  /\ WriterInside
  /\ ReaderInside
  /\ BytesNotOlder
  /\ ImageNotOlder

\* The inductive invariant: together these say who may touch a block when, and
\* what a block may hold meanwhile, until a constructor zeroes one in use.
IInv ==
  /\ TypeOK
  /\ KindOK
  /\ ~raced => Discipline

-----------------------------------------------------------------------------
(* The safety properties.                                                  *)

\* lock()/unlock(): as long as no constructor zeroed a block in use, two
\* processes are never inside the same block's lock, whoever died before.
MutualExclusion ==
  ~raced => Exclusive

\* _on_timer stamps a block only after the frame is there, under the lock, and
\* not at all when the device had no frame: a block whose lock is free and whose
\* timestamp is t holds the whole frame of tick t, or the reader gets garbage.
PublishedWhole ==
  ~raced => \A i \in Slots : locks[i] = unlocked => ~Torn(i)

\* temp_acquire_* copies without the lock, so the image may mix two frames, but
\* never one older than the timestamp reported to the caller: what overwrites
\* the block meanwhile passed the test of get_writable_data_address.
CopyNotOlder ==
  ~raced => ImageNotOlder

\* get_writable_data_address never hands out a block with a newer frame, even
\* to a second framework process whose tick lags: timestamps only grow, unless
\* a constructor zeroes them.
TimestampsAdvance ==
  [][~raced' => \A i \in Slots : timestamps'[i] = 0 \/ timestamps'[i] >= timestamps[i]]_vars

\* get_readable_data_address: successive frames returned to one client have
\* strictly increasing timestamps, although the timestamp is read twice and the
\* ring is searched from an index that may lag behind the writer's.
ReadsAdvance ==
  [][~raced' => \A r \in Readers :
        Alive(r) /\ ts'[r] # ts[r] => ts'[r] > ts[r]]_vars

\* What all this amounts to for the users of the ring: it is a frame exchange.
FE == INSTANCE FrameExchange WITH
        Places <- Slots, Clients <- Readers,
        shelf <- timestamps, seen <- [r \in Readers |-> ts[r]], image <- dst, broken <- raced

\* shared_buffer with its two users implements FrameExchange: whatever the searches,
\* locks, crashes and restarts do, each step publishes a newer frame, answers a request
\* with a newer one, fills an image with nothing older, or is invisible.
ImplementsFrameExchange == FE!Spec

\* clnt_main.cpp: "press enter key to grab new color and depth image": the image
\* grabbed is the frame whose timestamp was recorded, not a mix of two.
GrabsOneImage ==
  \A r \in Readers : pc[r] = "idle" /\ ~raced => dst[r] = <<ts[r], ts[r]>>

-----------------------------------------------------------------------------
(* Progress.                                                               *)

Quiet(p)   == pc[p] \in {"idle", "dead", "leaked"}
Seeking(p) == pc[p] \in {"try", "check", "skip"}

\* Block i has the timestamp p looks for, and no process died holding its lock.
Usable(p, i) ==
  /\ IF p \in Writers THEN timestamps[i] < ts[p] ELSE timestamps[i] > ts[p]
  /\ \A q \in Procs : ~(pc[q] = "leaked" /\ ci[q] = i)

\* The spin loops end: a process that searches while the others rest, and for
\* which a usable block remains, does not spin forever, whatever the others did
\* before and wherever they were killed (no lock word is left behind by a live
\* process).  Under contention nothing stronger holds: the lock is not fair.
SearchEnds ==
  \A p \in Procs :
    <>[](/\ \A q \in Procs \ {p} : Quiet(q)
         /\ Seeking(p) => \E i \in Slots : Usable(p, i))
      => []<>(~Seeking(p))
=============================================================================
