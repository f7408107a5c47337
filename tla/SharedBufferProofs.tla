------------------------- MODULE SharedBufferProofs -------------------------
(***************************************************************************)
(* Machine-checked proofs about SharedBuffer, for every number of blocks,  *)
(* writers, readers, ticks and crashes.                                    *)
(***************************************************************************)
EXTENDS SharedBuffer, TLAPS

USE BlockCountAssumption, ProcsAssumption, TickAssumption, BoundAssumption

\* The search index stays inside the ring: ++ci %= block_count.
LEMMA NextIndexInRing == \A i \in Slots : NextIndex(i) \in Slots
  BY DEF NextIndex, Slots

\* So does memset's index, until the last element of the array.
LEMMA StepInRing == \A i \in Slots : i # block_count - 1 => i + 1 \in Slots
  BY DEF Slots

\* The first block is a block.
LEMMA ZeroInRing == 0 \in Slots
  BY DEF Slots

\* The initial state satisfies the inductive invariant.
LEMMA InitIInv == Init => IInv
<1> SUFFICES ASSUME Init PROVE IInv
  OBVIOUS
<1>1. TypeOK
  <2>1. 0 \in Nat /\ NoFrame \in Nat \X Nat
    BY DEF NoFrame
  <2>2. "wipe_locks" \in Pcs
    BY DEF Pcs, Wiping
  <2> QED BY <2>1, <2>2, ZeroInRing DEF Init, TypeOK, locked, unlocked
<1>2. \A p \in Procs : pc[p] = "wipe_locks" /\ ts[p] = 0
  BY DEF Init
<1>3. KindOK
  BY <1>2 DEF KindOK, CopyPcs, Procs
<1>4. \A p \in Procs : \A i \in Slots : ~Holding(p, i)
  BY <1>2 DEF Holding, HoldPcs
<1>5. \A i \in Slots : timestamps[i] = 0
  BY DEF Init
<1>6. LockHeld /\ Exclusive
  BY <1>4 DEF LockHeld, Exclusive
<1>7. TornIsLocked /\ BytesNotOlder
  BY <1>5 DEF TornIsLocked, BytesNotOlder, Torn
<1>8. WriterInside /\ ReaderInside /\ ImageNotOlder
  BY <1>2 DEF WriterInside, ReaderInside, ImageNotOlder, CopyPcs, Procs
<1> QED BY <1>1, <1>3, <1>6, <1>7, <1>8 DEF IInv, Discipline

\* Every step preserves the types.
LEMMA TypeStep == TypeOK /\ [Next]_vars => TypeOK'
<1> SUFFICES ASSUME TypeOK, [Next]_vars PROVE TypeOK'
  OBVIOUS
<1> USE ZeroInRing, NextIndexInRing DEF TypeOK
<1>1. CASE UNCHANGED vars
  BY <1>1 DEF vars
<1>2. ASSUME NEW p \in Procs, Construct(p) PROVE TypeOK'
  <2>1. ASSUME NEW next \in Pcs, Advance(p, next)
        PROVE  ci' \in [Procs -> Slots] /\ pc' \in [Procs -> Pcs]
    <3>1. CASE ci[p] = block_count - 1
      BY <2>1, <3>1 DEF Advance, Goto
    <3>2. CASE ci[p] # block_count - 1
      <4>1. ci[p] \in Slots
        OBVIOUS
      <4>2. ci[p] + 1 \in Slots
        BY <3>2, <4>1, StepInRing
      <4> QED BY <2>1, <3>2, <4>2 DEF Advance
    <3> QED BY <3>1, <3>2
  <2>2. CASE WipeLock(p)
    BY <2>1, <2>2 DEF WipeLock, unlocked, locked, Pcs, Wiping
  <2>3. CASE WipeTimestamp(p)
    BY <2>1, <2>3 DEF WipeTimestamp, Pcs, Wiping
  <2>4. CASE WipeBlock(p)
    BY <2>1, <2>4 DEF WipeBlock, NoFrame, Pcs
  <2> QED BY <1>2, <2>2, <2>3, <2>4 DEF Construct
<1>3. ASSUME NEW p \in Procs, Search(p) PROVE TypeOK'
  <2>1. CASE TryLock(p)
    <3>1. CASE lock(ci[p])
      BY <2>1, <3>1 DEF TryLock, Goto, locked, Pcs, HoldPcs
    <3>2. CASE ~lock(ci[p])
      BY <2>1, <3>2 DEF TryLock
    <3> QED BY <3>1, <3>2
  <2>2. CASE CheckTimestamp(p)
    BY <2>2 DEF CheckTimestamp, Goto, shm, Pcs, HoldPcs
  <2>3. CASE SkipBlock(p)
    BY <2>3 DEF SkipBlock, unlock, Goto, unlocked, locked, Pcs
  <2> QED BY <1>3, <2>1, <2>2, <2>3 DEF Search
<1>4. ASSUME NEW p \in Procs, Crash(p) PROVE TypeOK'
  BY <1>4 DEF Crash, Goto, shm, Pcs
<1>5. ASSUME NEW p \in Procs, Restart(p) PROVE TypeOK'
  BY <1>5 DEF Restart, Goto, shm, NoFrame, Pcs, Wiping
<1>6. ASSUME NEW w \in Writers, OnTimer(w) PROVE TypeOK'
  <2>1. (ts[w] + 1) % TickModulus \in Nat /\ w \in Procs
    BY DEF Procs
  <2> QED BY <1>6, <2>1 DEF OnTimer, Goto, shm, Pcs
<1>7. ASSUME NEW w \in Writers, WriterStep(w) PROVE TypeOK'
  <2>0. w \in Procs
    BY DEF Procs
  <2>1. CASE AcquireFirstBytes(w)
    BY <2>0, <2>1 DEF AcquireFirstBytes, Goto, Pcs, HoldPcs
  <2>2. CASE AcquireLastBytes(w)
    BY <2>0, <2>2 DEF AcquireLastBytes, Goto, Pcs, HoldPcs
  <2>3. CASE AcquireFails(w)
    BY <2>0, <2>3 DEF AcquireFails, Goto, shm, Pcs, HoldPcs
  <2>4. CASE WriteTimestamp(w)
    BY <2>0, <2>4 DEF WriteTimestamp, Goto, Pcs, HoldPcs
  <2>5. CASE FinishWrite(w)
    BY <2>0, <2>5 DEF FinishWrite, unlock, Goto, unlocked, locked, Pcs
  <2> QED BY <1>7, <2>1, <2>2, <2>3, <2>4, <2>5 DEF WriterStep
<1>8. ASSUME NEW r \in Readers, AcquireFrame(r) PROVE TypeOK'
  BY <1>8 DEF AcquireFrame, Goto, shm, Pcs, Procs
<1>9. ASSUME NEW r \in Readers, ReaderStep(r) PROVE TypeOK'
  <2>0. r \in Procs
    BY DEF Procs
  <2>1. CASE ReadTimestamp(r)
    BY <2>0, <2>1 DEF ReadTimestamp, Goto, shm, Pcs, HoldPcs
  <2>2. CASE ReleaseBeforeCopy(r)
    BY <2>0, <2>2 DEF ReleaseBeforeCopy, unlock, Goto, unlocked, locked, Pcs, CopyPcs
  <2>3. CASE CopyFirstBytes(r)
    BY <2>0, <2>3 DEF CopyFirstBytes, Goto, shm, Pcs, CopyPcs
  <2>4. CASE CopyLastBytes(r)
    BY <2>0, <2>4 DEF CopyLastBytes, Goto, shm, Pcs
  <2> QED BY <1>9, <2>1, <2>2, <2>3, <2>4 DEF ReaderStep
<1> QED
  BY <1>1, <1>2, <1>3, <1>4, <1>5, <1>6, <1>7, <1>8, <1>9 DEF Next

-----------------------------------------------------------------------------
(* The constructor.                                                        *)

\* What a step of p's constructor leaves as it was: whoever is in a block stays
\* where it is, and nobody gets into one or comes to rest but p.
ConstructFrames(p) ==
  /\ \A q \in Procs : pc'[q] \notin Wiping \cup {"idle"} =>
       pc'[q] = pc[q] /\ ci'[q] = ci[q]
  /\ \A q \in Procs : pc'[q] = "idle" => pc[q] = "idle" \/ pc[q] \in Wiping
  /\ \A q \in Procs : \A i \in Slots : Holding(q, i)' => Holding(q, i) /\ pc'[q] = pc[q]

\* The constructor's loop changes nothing of the other processes, and leaves
\* its own process either in the constructor or at rest.
LEMMA AdvanceFrame ==
  ASSUME TypeOK, NEW p \in Procs, NEW next \in {"wipe_timestamps", "wipe_blocks", "idle"},
         pc[p] \in Wiping, Advance(p, next)
  PROVE  /\ \A q \in Procs \ {p} : pc'[q] = pc[q] /\ ci'[q] = ci[q]
         /\ pc'[p] \in Wiping \cup {"idle"}
<1>1. CASE ci[p] = block_count - 1
  BY <1>1 DEF TypeOK, Advance, Goto, Wiping
<1>2. CASE ci[p] # block_count - 1
  BY <1>2 DEF TypeOK, Advance
<1> QED BY <1>1, <1>2

\* So nobody gets into or out of a block while a constructor runs.
LEMMA ConstructFrame ==
  ASSUME TypeOK, NEW p \in Procs, Construct(p)
  PROVE  ConstructFrames(p)
<1>1. pc[p] \in Wiping
  BY DEF Construct, WipeLock, WipeTimestamp, WipeBlock, Wiping
<1>2. \E next \in {"wipe_timestamps", "wipe_blocks", "idle"} : Advance(p, next)
  BY DEF Construct, WipeLock, WipeTimestamp, WipeBlock
<1>3. /\ \A q \in Procs \ {p} : pc'[q] = pc[q] /\ ci'[q] = ci[q]
      /\ pc'[p] \in Wiping \cup {"idle"}
  BY <1>1, <1>2, AdvanceFrame
<1> QED BY <1>1, <1>3 DEF ConstructFrames, Holding, HoldPcs, Wiping

\* So no two processes come to hold one block, and what a reader recorded stays.
LEMMA ConstructKeepsRest ==
  ASSUME TypeOK, KindOK, Discipline, NEW p \in Procs, Construct(p)
  PROVE  Exclusive' /\ ImageNotOlder'
<1> USE DEF Discipline
<1>1. ConstructFrames(p)
  BY ConstructFrame
<1>2. Exclusive'
  BY <1>1 DEF ConstructFrames, Exclusive
<1>3. ImageNotOlder'
  <2>1. dst' = dst /\ ts' = ts
    BY DEF Construct, WipeLock, WipeTimestamp, WipeBlock
  <2> SUFFICES ASSUME NEW r \in Readers
               PROVE  /\ pc'[r] = "idle" => dst[r][1] >= ts[r] /\ dst[r][2] >= ts[r]
                      /\ pc'[r] = "copy_last" => dst[r][1] >= ts[r]
    BY <2>1 DEF ImageNotOlder
  <2>2. dst[r][1] \in Nat /\ dst[r][2] \in Nat /\ r \in Procs
    BY DEF TypeOK, Procs
  <2>3. pc[r] \in Wiping => ts[r] = 0
    BY DEF KindOK
  <2>4. pc'[r] = "copy_last" => pc[r] = "copy_last"
    BY <1>1, <2>2 DEF ConstructFrames, Wiping
  <2> QED BY <1>1, <2>2, <2>3, <2>4 DEF ConstructFrames, ImageNotOlder
<1> QED BY <1>2, <1>3

\* Zeroing the lock word of a block that nobody uses and that is not torn.
LEMMA WipeLockKeeps ==
  ASSUME TypeOK, TypeOK', KindOK, Discipline, ~raced', NEW p \in Procs, WipeLock(p)
  PROVE  Discipline'
<1> USE DEF Discipline, ConstructFrames
<1>a. ~Torn(ci[p]) /\ \A q \in Procs : ~Using(q, ci[p])
  BY DEF WipeLock, TypeOK
<1>b. ConstructFrames(p)
  BY ConstructFrame DEF Construct
<1>1. LockHeld'
  BY <1>a, <1>b DEF WipeLock, LockHeld, TypeOK, Holding, Using
<1>2. Exclusive' /\ ImageNotOlder'
  BY ConstructKeepsRest DEF Construct
<1>3. TornIsLocked'
  <2> SUFFICES ASSUME NEW i \in Slots, Torn(i)'
               PROVE  /\ locks'[i] = locked
                      /\ \A q \in Procs : Holding(q, i)' => pc'[q] \in {"fill", "stamp"}
    BY DEF TornIsLocked
  <2>1. Torn(i) /\ locks'[i] = locks[i]
    BY <1>a DEF WipeLock, Torn, TypeOK
  <2> QED BY <1>b, <2>1 DEF TornIsLocked
<1>4. WriterInside'
  <2> SUFFICES ASSUME NEW w \in Writers, pc'[w] \in {"hold", "fill", "stamp"}
               PROVE  /\ timestamps[ci'[w]] < ts[w]
                      /\ pc'[w] = "fill"  => blocks'[ci'[w]][1] = ts[w]
                      /\ pc'[w] = "stamp" => blocks'[ci'[w]] = <<ts[w], ts[w]>>
    BY DEF WipeLock, WriterInside
  <2>1. w \in Procs /\ pc'[w] = pc[w] /\ ci'[w] = ci[w]
    BY <1>b DEF Wiping, Procs
  <2>2. ci[w] # ci[p] /\ ci[w] \in Slots
    BY <1>a, <2>1 DEF Using, HoldPcs, TypeOK
  <2>3. blocks'[ci[w]] = blocks[ci[w]]
    BY <2>2 DEF WipeLock, TypeOK
  <2> QED BY <2>1, <2>3 DEF WriterInside
<1>5. ReaderInside'
  BY <1>a, <1>b DEF WipeLock, ReaderInside, TypeOK, Procs, Using, HoldPcs, CopyPcs, Wiping
<1>6. BytesNotOlder'
  BY <1>a, <1>b DEF WipeLock, BytesNotOlder, TypeOK
<1> QED BY <1>1, <1>2, <1>3, <1>4, <1>5, <1>6

\* Zeroing the timestamp of a block that nobody uses.
LEMMA WipeTimestampKeeps ==
  ASSUME TypeOK, TypeOK', KindOK, Discipline, ~raced', NEW p \in Procs, WipeTimestamp(p)
  PROVE  Discipline'
<1> USE DEF Discipline, ConstructFrames
<1>a. timestamps'[ci[p]] = 0 /\ \A q \in Procs : ~Using(q, ci[p])
  BY DEF WipeTimestamp, TypeOK
<1>b. ConstructFrames(p)
  BY ConstructFrame DEF Construct
<1>1. LockHeld'
  BY <1>a, <1>b DEF WipeTimestamp, LockHeld, TypeOK, Holding, Using
<1>2. Exclusive' /\ ImageNotOlder'
  BY ConstructKeepsRest DEF Construct
<1>3. TornIsLocked'
  <2> SUFFICES ASSUME NEW i \in Slots, Torn(i)'
               PROVE  /\ locks'[i] = locked
                      /\ \A q \in Procs : Holding(q, i)' => pc'[q] \in {"fill", "stamp"}
    BY DEF TornIsLocked
  <2>1. Torn(i) /\ locks'[i] = locks[i]
    BY <1>a DEF WipeTimestamp, Torn, TypeOK
  <2> QED BY <1>b, <2>1 DEF TornIsLocked
<1>4. WriterInside'
  <2> SUFFICES ASSUME NEW w \in Writers, pc'[w] \in {"hold", "fill", "stamp"}
               PROVE  /\ timestamps'[ci'[w]] < ts[w]
                      /\ pc'[w] = "fill"  => blocks[ci'[w]][1] = ts[w]
                      /\ pc'[w] = "stamp" => blocks[ci'[w]] = <<ts[w], ts[w]>>
    BY DEF WipeTimestamp, WriterInside
  <2>1. w \in Procs /\ pc'[w] = pc[w] /\ ci'[w] = ci[w]
    BY <1>b DEF Wiping, Procs
  <2>2. ci[w] # ci[p]
    BY <1>a, <2>1 DEF Using, HoldPcs
  <2>3. timestamps'[ci[w]] = timestamps[ci[w]]
    BY <2>1, <2>2 DEF WipeTimestamp, TypeOK
  <2> QED BY <2>1, <2>3 DEF WriterInside
<1>5. ReaderInside'
  BY <1>a, <1>b DEF WipeTimestamp, ReaderInside, TypeOK, Procs, Using, HoldPcs, CopyPcs, Wiping
<1>6. BytesNotOlder'
  BY <1>a, <1>b DEF WipeTimestamp, BytesNotOlder, TypeOK
<1> QED BY <1>1, <1>2, <1>3, <1>4, <1>5, <1>6

\* Zeroing the bytes of a block that nobody uses and that is not published.
LEMMA WipeBlockKeeps ==
  ASSUME TypeOK, TypeOK', KindOK, Discipline, ~raced', NEW p \in Procs, WipeBlock(p)
  PROVE  Discipline'
<1> USE DEF Discipline, ConstructFrames
<1>a. timestamps[ci[p]] = 0 /\ \A q \in Procs : ~Using(q, ci[p])
  BY DEF WipeBlock, TypeOK
<1>b. ConstructFrames(p)
  BY ConstructFrame DEF Construct
<1>1. LockHeld'
  BY <1>a, <1>b DEF WipeBlock, LockHeld, TypeOK, Holding, Using
<1>2. Exclusive' /\ ImageNotOlder'
  BY ConstructKeepsRest DEF Construct
<1>3. TornIsLocked'
  <2> SUFFICES ASSUME NEW i \in Slots, Torn(i)'
               PROVE  /\ locks'[i] = locked
                      /\ \A q \in Procs : Holding(q, i)' => pc'[q] \in {"fill", "stamp"}
    BY DEF TornIsLocked
  <2>1. Torn(i) /\ locks'[i] = locks[i]
    BY <1>a DEF WipeBlock, Torn, TypeOK
  <2> QED BY <1>b, <2>1 DEF TornIsLocked
<1>4. WriterInside'
  <2> SUFFICES ASSUME NEW w \in Writers, pc'[w] \in {"hold", "fill", "stamp"}
               PROVE  /\ timestamps[ci'[w]] < ts[w]
                      /\ pc'[w] = "fill"  => blocks'[ci'[w]][1] = ts[w]
                      /\ pc'[w] = "stamp" => blocks'[ci'[w]] = <<ts[w], ts[w]>>
    BY DEF WipeBlock, WriterInside
  <2>1. w \in Procs /\ pc'[w] = pc[w] /\ ci'[w] = ci[w]
    BY <1>b DEF Wiping, Procs
  <2>2. ci[w] # ci[p] /\ ci[w] \in Slots
    BY <1>a, <2>1 DEF Using, HoldPcs, TypeOK
  <2>3. blocks'[ci[w]] = blocks[ci[w]]
    BY <2>2 DEF WipeBlock, TypeOK
  <2> QED BY <2>1, <2>3 DEF WriterInside
<1>5. ReaderInside'
  BY <1>a, <1>b DEF WipeBlock, ReaderInside, TypeOK, Procs, Using, HoldPcs, CopyPcs, Wiping
<1>6. BytesNotOlder'
  BY <1>a, <1>b DEF WipeBlock, BytesNotOlder, TypeOK
<1> QED BY <1>1, <1>2, <1>3, <1>4, <1>5, <1>6

-----------------------------------------------------------------------------
(* The search, the environment, the writer and the reader.                 *)

\* A process that finds the word unlocked is alone in the block, which is whole.
LEMMA TryLockKeeps ==
  ASSUME TypeOK, TypeOK', KindOK, Discipline, ~raced', NEW p \in Procs, TryLock(p)
  PROVE  Discipline'
<1>1. LockHeld'
  BY DEF TryLock, TypeOK, Discipline, LockHeld, Goto, Holding, HoldPcs, Exclusive
<1>2. Exclusive'
  BY DEF TryLock, TypeOK, Discipline, Exclusive, Goto, Holding, HoldPcs, lock,
         unlocked, locked, LockHeld
<1>3. TornIsLocked'
  BY DEF TryLock, TypeOK, Discipline, TornIsLocked, Goto, Holding, HoldPcs, Torn,
         lock, unlocked, locked
<1>4. WriterInside'
  BY DEF TryLock, TypeOK, Discipline, WriterInside, Goto, Procs, unlocked
<1>5. ReaderInside'
  BY DEF TryLock, TypeOK, Discipline, ReaderInside, Goto, Procs, CopyPcs
<1>6. BytesNotOlder'
  BY DEF TryLock, TypeOK, Discipline, BytesNotOlder, Goto
<1>7. ImageNotOlder'
  BY DEF TryLock, TypeOK, Discipline, ImageNotOlder, Goto, Procs
<1> QED BY <1>1, <1>2, <1>3, <1>4, <1>5, <1>6, <1>7 DEF Discipline

\* The timestamp test brings a writer in with an older block, a reader with a newer one.
LEMMA CheckTimestampKeeps ==
  ASSUME TypeOK, TypeOK', KindOK, Discipline, ~raced', NEW p \in Procs, CheckTimestamp(p)
  PROVE  Discipline'
<1>1. LockHeld'
  BY DEF CheckTimestamp, TypeOK, Discipline, LockHeld, Goto, shm, Holding, HoldPcs
<1>2. Exclusive'
  BY DEF CheckTimestamp, TypeOK, Discipline, Exclusive, Goto, Holding, HoldPcs
<1>3. TornIsLocked'
  BY DEF CheckTimestamp, TypeOK, Discipline, TornIsLocked, Goto, shm, Holding,
         HoldPcs, Torn
<1>4. WriterInside'
  BY DEF CheckTimestamp, TypeOK, Discipline, WriterInside, Goto, shm, Acceptable
<1>5. ReaderInside'
  BY DEF CheckTimestamp, TypeOK, Discipline, ReaderInside, Goto, shm, CopyPcs,
         Acceptable
<1>6. BytesNotOlder'
  BY DEF CheckTimestamp, TypeOK, Discipline, BytesNotOlder, Goto, shm
<1>7. ImageNotOlder'
  BY DEF CheckTimestamp, TypeOK, Discipline, ImageNotOlder, Goto
<1> QED BY <1>1, <1>2, <1>3, <1>4, <1>5, <1>6, <1>7 DEF Discipline

\* A block skipped was not written, so its lock can be released.
LEMMA SkipBlockKeeps ==
  ASSUME TypeOK, TypeOK', KindOK, Discipline, ~raced', NEW p \in Procs, SkipBlock(p)
  PROVE  Discipline'
<1>1. LockHeld'
  BY DEF SkipBlock, TypeOK, Discipline, LockHeld, Goto, Holding, HoldPcs, unlock,
         Exclusive
<1>2. Exclusive'
  BY DEF SkipBlock, TypeOK, Discipline, Exclusive, Goto, Holding, HoldPcs
<1>3. TornIsLocked'
  BY DEF SkipBlock, TypeOK, Discipline, TornIsLocked, Goto, Holding, HoldPcs, Torn,
         unlock
<1>4. WriterInside'
  BY DEF SkipBlock, TypeOK, Discipline, WriterInside, Goto, Procs
<1>5. ReaderInside'
  BY DEF SkipBlock, TypeOK, Discipline, ReaderInside, Goto, CopyPcs
<1>6. BytesNotOlder'
  BY DEF SkipBlock, TypeOK, Discipline, BytesNotOlder, Goto
<1>7. ImageNotOlder'
  BY DEF SkipBlock, TypeOK, Discipline, ImageNotOlder, Goto
<1> QED BY <1>1, <1>2, <1>3, <1>4, <1>5, <1>6, <1>7 DEF Discipline

\* A process killed under a lock leaves its word set; it is inside no block any more.
LEMMA CrashKeeps ==
  ASSUME TypeOK, TypeOK', KindOK, Discipline, ~raced', NEW p \in Procs, Crash(p)
  PROVE  Discipline'
<1>1. LockHeld'
  BY DEF Crash, TypeOK, Discipline, LockHeld, Goto, shm, Holding, HoldPcs
<1>2. Exclusive'
  BY DEF Crash, TypeOK, Discipline, Exclusive, Goto, Holding, HoldPcs
<1>3. TornIsLocked'
  BY DEF Crash, TypeOK, Discipline, TornIsLocked, Goto, shm, Holding, HoldPcs, Torn
<1>4. WriterInside'
  BY DEF Crash, TypeOK, Discipline, WriterInside, Goto, shm
<1>5. ReaderInside'
  BY DEF Crash, TypeOK, Discipline, ReaderInside, Goto, shm, CopyPcs
<1>6. BytesNotOlder'
  BY DEF Crash, TypeOK, Discipline, BytesNotOlder, Goto, shm
<1>7. ImageNotOlder'
  BY DEF Crash, TypeOK, Discipline, ImageNotOlder, Goto
<1> QED BY <1>1, <1>2, <1>3, <1>4, <1>5, <1>6, <1>7 DEF Discipline

\* A process started again is inside no block and has recorded nothing.
LEMMA RestartKeeps ==
  ASSUME TypeOK, TypeOK', KindOK, Discipline, ~raced', NEW p \in Procs, Restart(p)
  PROVE  Discipline'
<1>1. LockHeld'
  BY DEF Restart, TypeOK, Discipline, LockHeld, Goto, shm, Holding, HoldPcs
<1>2. Exclusive'
  BY DEF Restart, TypeOK, Discipline, Exclusive, Goto, Holding, HoldPcs
<1>3. TornIsLocked'
  BY DEF Restart, TypeOK, Discipline, TornIsLocked, Goto, shm, Holding, HoldPcs, Torn
<1>4. WriterInside'
  BY DEF Restart, TypeOK, Discipline, WriterInside, Goto, shm, Procs
<1>5. ReaderInside'
  BY DEF Restart, TypeOK, Discipline, ReaderInside, Goto, shm, CopyPcs
<1>6. BytesNotOlder'
  BY DEF Restart, TypeOK, Discipline, BytesNotOlder, Goto, shm
<1>7. ImageNotOlder'
  BY DEF Restart, TypeOK, Discipline, ImageNotOlder, Goto
<1> QED BY <1>1, <1>2, <1>3, <1>4, <1>5, <1>6, <1>7 DEF Discipline

\* A new tick starts outside every block.
LEMMA OnTimerKeeps ==
  ASSUME TypeOK, TypeOK', KindOK, Discipline, ~raced', NEW w \in Writers, OnTimer(w)
  PROVE  Discipline'
<1>1. LockHeld'
  BY DEF OnTimer, TypeOK, Discipline, LockHeld, Goto, shm, Holding, HoldPcs
<1>2. Exclusive'
  BY DEF OnTimer, TypeOK, Discipline, Exclusive, Goto, Holding, HoldPcs
<1>3. TornIsLocked'
  BY DEF OnTimer, TypeOK, Discipline, TornIsLocked, Goto, shm, Holding, HoldPcs, Torn
<1>4. WriterInside'
  BY DEF OnTimer, TypeOK, Discipline, WriterInside, Goto, shm, Procs
<1>5. ReaderInside'
  BY DEF OnTimer, TypeOK, Discipline, ReaderInside, Goto, shm
<1>6. BytesNotOlder'
  BY DEF OnTimer, TypeOK, Discipline, BytesNotOlder, Goto, shm
<1>7. ImageNotOlder'
  BY DEF OnTimer, TypeOK, Discipline, ImageNotOlder, Goto
<1> QED BY <1>1, <1>2, <1>3, <1>4, <1>5, <1>6, <1>7 DEF Discipline

\* The frame's first bytes are newer than the timestamp they stand under, and the
\* writer is alone in the block it tears.
LEMMA AcquireFirstBytesKeeps ==
  ASSUME TypeOK, TypeOK', KindOK, Discipline, ~raced', NEW w \in Writers, AcquireFirstBytes(w)
  PROVE  Discipline'
<1>1. LockHeld'
  BY DEF AcquireFirstBytes, TypeOK, Discipline, LockHeld, Goto, Holding, HoldPcs
<1>2. Exclusive'
  BY DEF AcquireFirstBytes, TypeOK, Discipline, Exclusive, Goto, Holding, HoldPcs
<1>3. TornIsLocked'
  BY DEF AcquireFirstBytes, TypeOK, Discipline, TornIsLocked, Goto, Holding, HoldPcs,
         Torn, Exclusive, LockHeld
<1>4. WriterInside'
  BY DEF AcquireFirstBytes, TypeOK, Discipline, WriterInside, Goto, Procs, Holding,
         HoldPcs, Exclusive
<1>5. ReaderInside'
  BY DEF AcquireFirstBytes, TypeOK, Discipline, ReaderInside, Goto
<1>6. BytesNotOlder'
  BY DEF AcquireFirstBytes, TypeOK, Discipline, BytesNotOlder, Goto, WriterInside
<1>7. ImageNotOlder'
  BY DEF AcquireFirstBytes, TypeOK, Discipline, ImageNotOlder, Goto
<1> QED BY <1>1, <1>2, <1>3, <1>4, <1>5, <1>6, <1>7 DEF Discipline

\* The frame's last bytes make the block whole but for its timestamp.
LEMMA AcquireLastBytesKeeps ==
  ASSUME TypeOK, TypeOK', KindOK, Discipline, ~raced', NEW w \in Writers, AcquireLastBytes(w)
  PROVE  Discipline'
<1>1. LockHeld'
  BY DEF AcquireLastBytes, TypeOK, Discipline, LockHeld, Goto, Holding, HoldPcs
<1>2. Exclusive'
  BY DEF AcquireLastBytes, TypeOK, Discipline, Exclusive, Goto, Holding, HoldPcs
<1>3. TornIsLocked'
  BY DEF AcquireLastBytes, TypeOK, Discipline, TornIsLocked, Goto, Holding, Torn,
         WriterInside
<1>4. WriterInside'
  BY DEF AcquireLastBytes, TypeOK, Discipline, WriterInside, Goto, Procs
<1>5. ReaderInside'
  BY DEF AcquireLastBytes, TypeOK, Discipline, ReaderInside, Goto
<1>6. BytesNotOlder'
  BY DEF AcquireLastBytes, TypeOK, Discipline, BytesNotOlder, Goto, WriterInside
<1>7. ImageNotOlder'
  BY DEF AcquireLastBytes, TypeOK, Discipline, ImageNotOlder, Goto
<1> QED BY <1>1, <1>2, <1>3, <1>4, <1>5, <1>6, <1>7 DEF Discipline

\* A block that got no frame keeps its timestamp, and is still whole.
LEMMA AcquireFailsKeeps ==
  ASSUME TypeOK, TypeOK', KindOK, Discipline, ~raced', NEW w \in Writers, AcquireFails(w)
  PROVE  Discipline'
<1>1. LockHeld'
  BY DEF AcquireFails, TypeOK, Discipline, LockHeld, Goto, shm, Holding, HoldPcs
<1>2. Exclusive'
  BY DEF AcquireFails, TypeOK, Discipline, Exclusive, Goto, Holding, HoldPcs
<1>3. TornIsLocked'
  BY DEF AcquireFails, TypeOK, Discipline, TornIsLocked, Goto, shm, Holding, HoldPcs,
         Torn
<1>4. WriterInside'
  BY DEF AcquireFails, TypeOK, Discipline, WriterInside, Goto, shm
<1>5. ReaderInside'
  BY DEF AcquireFails, TypeOK, Discipline, ReaderInside, Goto, shm
<1>6. BytesNotOlder'
  BY DEF AcquireFails, TypeOK, Discipline, BytesNotOlder, Goto, shm
<1>7. ImageNotOlder'
  BY DEF AcquireFails, TypeOK, Discipline, ImageNotOlder, Goto
<1> QED BY <1>1, <1>2, <1>3, <1>4, <1>5, <1>6, <1>7 DEF Discipline

\* The timestamp written under the lock matches the bytes, and grew: readers that
\* chose the block before still see none older.
LEMMA WriteTimestampKeeps ==
  ASSUME TypeOK, TypeOK', KindOK, Discipline, ~raced', NEW w \in Writers, WriteTimestamp(w)
  PROVE  Discipline'
<1>1. LockHeld'
  BY DEF WriteTimestamp, TypeOK, Discipline, LockHeld, Goto, Holding, HoldPcs
<1>2. Exclusive'
  BY DEF WriteTimestamp, TypeOK, Discipline, Exclusive, Goto, Holding, HoldPcs
<1>3. TornIsLocked'
  BY DEF WriteTimestamp, TypeOK, Discipline, TornIsLocked, Goto, Holding, Torn,
         WriterInside
<1>4. WriterInside'
  BY DEF WriteTimestamp, TypeOK, Discipline, WriterInside, Goto, Procs, Holding,
         HoldPcs, Exclusive
<1>5. ReaderInside'
  BY DEF WriteTimestamp, TypeOK, Discipline, ReaderInside, Goto, Procs, WriterInside
<1>6. BytesNotOlder'
  BY DEF WriteTimestamp, TypeOK, Discipline, BytesNotOlder, Goto, WriterInside
<1>7. ImageNotOlder'
  BY DEF WriteTimestamp, TypeOK, Discipline, ImageNotOlder, Goto
<1> QED BY <1>1, <1>2, <1>3, <1>4, <1>5, <1>6, <1>7 DEF Discipline

\* A writer releases a block that is whole.
LEMMA FinishWriteKeeps ==
  ASSUME TypeOK, TypeOK', KindOK, Discipline, ~raced', NEW w \in Writers, FinishWrite(w)
  PROVE  Discipline'
<1>1. LockHeld'
  BY DEF FinishWrite, TypeOK, Discipline, LockHeld, Goto, Holding, HoldPcs, unlock,
         Exclusive
<1>2. Exclusive'
  BY DEF FinishWrite, TypeOK, Discipline, Exclusive, Goto, Holding, HoldPcs
<1>3. TornIsLocked'
  BY DEF FinishWrite, TypeOK, Discipline, TornIsLocked, Goto, Holding, HoldPcs, Torn,
         unlock, Exclusive
<1>4. WriterInside'
  BY DEF FinishWrite, TypeOK, Discipline, WriterInside, Goto
<1>5. ReaderInside'
  BY DEF FinishWrite, TypeOK, Discipline, ReaderInside, Goto
<1>6. BytesNotOlder'
  BY DEF FinishWrite, TypeOK, Discipline, BytesNotOlder, Goto
<1>7. ImageNotOlder'
  BY DEF FinishWrite, TypeOK, Discipline, ImageNotOlder, Goto
<1> QED BY <1>1, <1>2, <1>3, <1>4, <1>5, <1>6, <1>7 DEF Discipline

\* A new request starts outside every block.
LEMMA AcquireFrameKeeps ==
  ASSUME TypeOK, TypeOK', KindOK, Discipline, ~raced', NEW r \in Readers, AcquireFrame(r)
  PROVE  Discipline'
<1>1. LockHeld'
  BY DEF AcquireFrame, TypeOK, Discipline, LockHeld, Goto, shm, Holding, HoldPcs
<1>2. Exclusive'
  BY DEF AcquireFrame, TypeOK, Discipline, Exclusive, Goto, Holding, HoldPcs
<1>3. TornIsLocked'
  BY DEF AcquireFrame, TypeOK, Discipline, TornIsLocked, Goto, shm, Holding, HoldPcs,
         Torn
<1>4. WriterInside'
  BY DEF AcquireFrame, TypeOK, Discipline, WriterInside, Goto, shm, Procs
<1>5. ReaderInside'
  BY DEF AcquireFrame, TypeOK, Discipline, ReaderInside, Goto, shm, CopyPcs
<1>6. BytesNotOlder'
  BY DEF AcquireFrame, TypeOK, Discipline, BytesNotOlder, Goto, shm
<1>7. ImageNotOlder'
  BY DEF AcquireFrame, TypeOK, Discipline, ImageNotOlder, Goto
<1> QED BY <1>1, <1>2, <1>3, <1>4, <1>5, <1>6, <1>7 DEF Discipline

\* The timestamp read a second time is still the one that was tested, or newer.
LEMMA ReadTimestampKeeps ==
  ASSUME TypeOK, TypeOK', KindOK, Discipline, ~raced', NEW r \in Readers, ReadTimestamp(r)
  PROVE  Discipline'
<1>1. LockHeld'
  BY DEF ReadTimestamp, TypeOK, Discipline, LockHeld, Goto, shm, Holding, HoldPcs
<1>2. Exclusive'
  BY DEF ReadTimestamp, TypeOK, Discipline, Exclusive, Goto, Holding, HoldPcs
<1>3. TornIsLocked'
  BY DEF ReadTimestamp, TypeOK, Discipline, TornIsLocked, Goto, shm, Holding, HoldPcs,
         Torn
<1>4. WriterInside'
  BY DEF ReadTimestamp, TypeOK, Discipline, WriterInside, Goto, shm
<1>5. ReaderInside'
  BY DEF ReadTimestamp, TypeOK, Discipline, ReaderInside, Goto, shm
<1>6. BytesNotOlder'
  BY DEF ReadTimestamp, TypeOK, Discipline, BytesNotOlder, Goto, shm
<1>7. ImageNotOlder'
  BY DEF ReadTimestamp, TypeOK, Discipline, ImageNotOlder, Goto
<1> QED BY <1>1, <1>2, <1>3, <1>4, <1>5, <1>6, <1>7 DEF Discipline

\* A reader releases a block that it never tore.
LEMMA ReleaseBeforeCopyKeeps ==
  ASSUME TypeOK, TypeOK', KindOK, Discipline, ~raced', NEW r \in Readers, ReleaseBeforeCopy(r)
  PROVE  Discipline'
<1>1. LockHeld'
  BY DEF ReleaseBeforeCopy, TypeOK, Discipline, LockHeld, Goto, Holding, HoldPcs,
         unlock, Exclusive
<1>2. Exclusive'
  BY DEF ReleaseBeforeCopy, TypeOK, Discipline, Exclusive, Goto, Holding, HoldPcs
<1>3. TornIsLocked'
  BY DEF ReleaseBeforeCopy, TypeOK, Discipline, TornIsLocked, Goto, Holding, HoldPcs,
         Torn, unlock
<1>4. WriterInside'
  BY DEF ReleaseBeforeCopy, TypeOK, Discipline, WriterInside, Goto
<1>5. ReaderInside'
  BY DEF ReleaseBeforeCopy, TypeOK, Discipline, ReaderInside, Goto
<1>6. BytesNotOlder'
  BY DEF ReleaseBeforeCopy, TypeOK, Discipline, BytesNotOlder, Goto
<1>7. ImageNotOlder'
  BY DEF ReleaseBeforeCopy, TypeOK, Discipline, ImageNotOlder, Goto
<1> QED BY <1>1, <1>2, <1>3, <1>4, <1>5, <1>6, <1>7 DEF Discipline

\* The first bytes copied are not older than the timestamp recorded, whoever writes.
LEMMA CopyFirstBytesKeeps ==
  ASSUME TypeOK, TypeOK', KindOK, Discipline, ~raced', NEW r \in Readers, CopyFirstBytes(r)
  PROVE  Discipline'
<1>1. LockHeld'
  BY DEF CopyFirstBytes, TypeOK, Discipline, LockHeld, Goto, shm, Holding, HoldPcs
<1>2. Exclusive'
  BY DEF CopyFirstBytes, TypeOK, Discipline, Exclusive, Goto, Holding, HoldPcs
<1>3. TornIsLocked'
  BY DEF CopyFirstBytes, TypeOK, Discipline, TornIsLocked, Goto, shm, Holding,
         HoldPcs, Torn
<1>4. WriterInside'
  BY DEF CopyFirstBytes, TypeOK, Discipline, WriterInside, Goto, shm
<1>5. ReaderInside'
  BY DEF CopyFirstBytes, TypeOK, Discipline, ReaderInside, Goto, shm, CopyPcs
<1>6. BytesNotOlder'
  BY DEF CopyFirstBytes, TypeOK, Discipline, BytesNotOlder, Goto, shm
<1>7. ImageNotOlder'
  BY DEF CopyFirstBytes, TypeOK, Discipline, ImageNotOlder, Goto, CopyPcs, Holding,
         HoldPcs, Torn, ReaderInside, unlocked, LockHeld, BytesNotOlder
<1> QED BY <1>1, <1>2, <1>3, <1>4, <1>5, <1>6, <1>7 DEF Discipline

\* Nor are the last bytes.
LEMMA CopyLastBytesKeeps ==
  ASSUME TypeOK, TypeOK', KindOK, Discipline, ~raced', NEW r \in Readers, CopyLastBytes(r)
  PROVE  Discipline'
<1>1. LockHeld'
  BY DEF CopyLastBytes, TypeOK, Discipline, LockHeld, Goto, shm, Holding, HoldPcs
<1>2. Exclusive'
  BY DEF CopyLastBytes, TypeOK, Discipline, Exclusive, Goto, Holding, HoldPcs
<1>3. TornIsLocked'
  BY DEF CopyLastBytes, TypeOK, Discipline, TornIsLocked, Goto, shm, Holding, HoldPcs,
         Torn
<1>4. WriterInside'
  BY DEF CopyLastBytes, TypeOK, Discipline, WriterInside, Goto, shm
<1>5. ReaderInside'
  BY DEF CopyLastBytes, TypeOK, Discipline, ReaderInside, Goto, shm, CopyPcs
<1>6. BytesNotOlder'
  BY DEF CopyLastBytes, TypeOK, Discipline, BytesNotOlder, Goto, shm
<1>7. ImageNotOlder'
  BY DEF CopyLastBytes, TypeOK, Discipline, ImageNotOlder, Goto, CopyPcs, HoldPcs,
         TornIsLocked, Torn, ReaderInside, LockHeld, BytesNotOlder
<1> QED BY <1>1, <1>2, <1>3, <1>4, <1>5, <1>6, <1>7 DEF Discipline

-----------------------------------------------------------------------------
(* The inductive invariant.                                                *)

\* A process stays in the code of its kind, and a reader that starts again has
\* recorded nothing until it is at rest.
LEMMA KindStep == TypeOK /\ KindOK /\ [Next]_vars => KindOK'
<1> SUFFICES ASSUME TypeOK, KindOK, [Next]_vars PROVE KindOK'
  OBVIOUS
<1> USE DEF KindOK, CopyPcs, Wiping
<1>1. CASE UNCHANGED vars
  BY <1>1 DEF vars
<1>2. ASSUME NEW p \in Procs, Construct(p) PROVE KindOK'
  <2>1. /\ pc[p] \in Wiping /\ ts' = ts
        /\ \E next \in {"wipe_timestamps", "wipe_blocks", "idle"} : Advance(p, next)
    BY <1>2 DEF Construct, WipeLock, WipeTimestamp, WipeBlock
  <2>2. /\ \A q \in Procs \ {p} : pc'[q] = pc[q]
        /\ pc'[p] \in Wiping \cup {"idle"}
    BY <2>1, AdvanceFrame
  <2> QED BY <2>1, <2>2 DEF Procs
<1>3. ASSUME NEW p \in Procs, Search(p) PROVE KindOK'
  <2>1. /\ ts' = ts
        /\ \A q \in Procs : pc'[q] = pc[q] \/ pc'[q] \in {"try", "check", "hold", "skip"}
    BY <1>3 DEF Search, TryLock, CheckTimestamp, SkipBlock, Goto, TypeOK
  <2> QED BY <2>1 DEF Procs
<1>4. ASSUME NEW p \in Procs, Crash(p) PROVE KindOK'
  BY <1>4 DEF Crash, Goto, TypeOK
<1>5. ASSUME NEW p \in Procs, Restart(p) PROVE KindOK'
  BY <1>5 DEF Restart, Goto, TypeOK
<1>6. ASSUME NEW w \in Writers, OnTimer(w) \/ WriterStep(w) PROVE KindOK'
  <2>1. /\ \A q \in Procs \ {w} : pc'[q] = pc[q] /\ ts'[q] = ts[q]
        /\ pc'[w] \notin CopyPcs
    BY <1>6 DEF OnTimer, WriterStep, AcquireFirstBytes, AcquireLastBytes, AcquireFails,
                WriteTimestamp, FinishWrite, Goto, TypeOK, Procs
  <2> QED BY <2>1 DEF Procs
<1>7. ASSUME NEW r \in Readers, AcquireFrame(r) \/ ReaderStep(r) PROVE KindOK'
  <2>1. /\ \A q \in Procs \ {r} : pc'[q] = pc[q] /\ ts'[q] = ts[q]
        /\ pc'[r] \notin {"fill", "stamp"} \cup Wiping
    BY <1>7 DEF AcquireFrame, ReaderStep, ReadTimestamp, ReleaseBeforeCopy,
                CopyFirstBytes, CopyLastBytes, Goto, TypeOK, Procs
  <2> QED BY <2>1 DEF Procs
<1> QED BY <1>1, <1>2, <1>3, <1>4, <1>5, <1>6, <1>7 DEF Next

\* A race is never forgotten.
LEMMA RacedStays == TypeOK /\ [Next]_vars /\ ~raced' => ~raced
  BY DEF TypeOK, Next, vars, Construct, WipeLock, WipeTimestamp, WipeBlock, Search, TryLock,
         CheckTimestamp, SkipBlock, Crash, Restart, OnTimer, WriterStep, AcquireFirstBytes,
         AcquireLastBytes, AcquireFails, WriteTimestamp, FinishWrite, AcquireFrame,
         ReaderStep, ReadTimestamp, ReleaseBeforeCopy, CopyFirstBytes, CopyLastBytes

\* Every step that is not a race preserves the discipline.
LEMMA DisciplineStep ==
  ASSUME TypeOK, TypeOK', KindOK, Discipline, ~raced', [Next]_vars
  PROVE  Discipline'
<1>1. CASE UNCHANGED vars
  BY <1>1 DEF vars, Discipline, LockHeld, Exclusive, TornIsLocked, WriterInside, ReaderInside,
              BytesNotOlder, ImageNotOlder, Holding, Torn
<1>2. ASSUME NEW p \in Procs, Construct(p) PROVE Discipline'
  BY <1>2, WipeLockKeeps, WipeTimestampKeeps, WipeBlockKeeps DEF Construct
<1>3. ASSUME NEW p \in Procs, Search(p) PROVE Discipline'
  BY <1>3, TryLockKeeps, CheckTimestampKeeps, SkipBlockKeeps DEF Search
<1>4. ASSUME NEW p \in Procs, Crash(p) \/ Restart(p) PROVE Discipline'
  BY <1>4, CrashKeeps, RestartKeeps
<1>5. ASSUME NEW w \in Writers, OnTimer(w) \/ WriterStep(w) PROVE Discipline'
  BY <1>5, OnTimerKeeps, AcquireFirstBytesKeeps, AcquireLastBytesKeeps, AcquireFailsKeeps,
     WriteTimestampKeeps, FinishWriteKeeps DEF WriterStep
<1>6. ASSUME NEW r \in Readers, AcquireFrame(r) \/ ReaderStep(r) PROVE Discipline'
  BY <1>6, AcquireFrameKeeps, ReadTimestampKeeps, ReleaseBeforeCopyKeeps, CopyFirstBytesKeeps,
     CopyLastBytesKeeps DEF ReaderStep
<1> QED BY <1>1, <1>2, <1>3, <1>4, <1>5, <1>6 DEF Next

\* IInv is inductive.
LEMMA IInvStep == IInv /\ [Next]_vars => IInv'
<1> SUFFICES ASSUME IInv, [Next]_vars PROVE IInv'
  OBVIOUS
<1>1. TypeOK /\ KindOK /\ (~raced => Discipline)
  BY DEF IInv
<1>2. TypeOK' /\ KindOK'
  BY <1>1, TypeStep, KindStep
<1>3. ASSUME ~raced' PROVE Discipline'
  BY <1>1, <1>2, <1>3, RacedStays, DisciplineStep
<1> QED BY <1>2, <1>3 DEF IInv

-----------------------------------------------------------------------------
(* The theorems.                                                           *)

\* Type correctness of every reachable state: among others, the block indices
\* of shared_buffer.cpp never leave the ring.
THEOREM TypeCorrect == Spec => []TypeOK
<1>1. Init => TypeOK
  BY InitIInv DEF IInv
<1> QED BY <1>1, TypeStep, PTL DEF Spec

\* The inductive invariant of the ring holds in every reachable state.
THEOREM Invariance == Spec => []IInv
  BY InitIInv, IInvStep, PTL DEF Spec

\* lock()/unlock() exclude: never two processes inside the lock of one block,
\* whatever the number of processes and whoever is killed where, as long as no
\* constructor zeroes a block in use.
THEOREM LocksExclude == Spec => []MutualExclusion
<1>1. IInv => MutualExclusion
  BY DEF IInv, Discipline, MutualExclusion
<1> QED BY <1>1, Invariance, PTL

\* A block whose lock is free holds the whole frame its timestamp names, or no
\* frame: _on_timer publishes only what acquire_*_frame finished.
THEOREM FramesPublishedWhole == Spec => []PublishedWhole
<1>1. IInv => PublishedWhole
  BY DEF IInv, Discipline, PublishedWhole, TornIsLocked, locked, unlocked
<1> QED BY <1>1, Invariance, PTL

\* The copy that temp_acquire_* makes after unlock() is never older than the
\* timestamp it recorded, in any part.
THEOREM CopiesNotOlder == Spec => []CopyNotOlder
<1>1. IInv => CopyNotOlder
  BY DEF IInv, Discipline, CopyNotOlder
<1> QED BY <1>1, Invariance, PTL

\* Outside the constructor, no step makes a block's timestamp smaller.
THEOREM TimestampsGrow == Spec => TimestampsAdvance
<1> DEFINE Grow == ~raced' => \A i \in Slots : timestamps'[i] = 0 \/ timestamps'[i] >= timestamps[i]
<1>1. IInv /\ [Next]_vars => [Grow]_vars
  <2> SUFFICES ASSUME IInv, [Next]_vars, ~raced', NEW i \in Slots
               PROVE  timestamps'[i] = 0 \/ timestamps'[i] >= timestamps[i]
    OBVIOUS
  <2>1. TypeOK /\ Discipline /\ timestamps[i] \in Nat
    BY RacedStays DEF IInv, TypeOK
  <2>2. CASE timestamps' = timestamps
    BY <2>1, <2>2
  <2>3. ASSUME NEW p \in Procs, WipeTimestamp(p) PROVE timestamps'[i] \in {0, timestamps[i]}
    BY <2>1, <2>3 DEF WipeTimestamp, TypeOK
  <2>4. ASSUME NEW w \in Writers, WriteTimestamp(w) PROVE timestamps'[i] >= timestamps[i]
    <3>1. timestamps[ci[w]] < ts[w] /\ ts[w] \in Nat
      BY <2>1, <2>4 DEF WriteTimestamp, Discipline, WriterInside, TypeOK, Procs
    <3>2. timestamps'[i] \in {timestamps[i], ts[w]} /\ (timestamps'[i] # timestamps[i] => i = ci[w])
      BY <2>1, <2>4 DEF WriteTimestamp, TypeOK
    <3> QED BY <2>1, <3>1, <3>2
  <2>5. \/ timestamps' = timestamps
        \/ \E p \in Procs : WipeTimestamp(p)
        \/ \E w \in Writers : WriteTimestamp(w)
    BY DEF Next, vars, shm, Construct, WipeLock, WipeBlock, Search, TryLock, CheckTimestamp,
           SkipBlock, Crash, Restart, OnTimer, WriterStep, AcquireFirstBytes, AcquireLastBytes,
           AcquireFails, FinishWrite, AcquireFrame, ReaderStep, ReadTimestamp,
           ReleaseBeforeCopy, CopyFirstBytes, CopyLastBytes
  <2> QED BY <2>1, <2>2, <2>3, <2>4, <2>5
<1> QED BY <1>1, Invariance, PTL DEF Spec, TimestampsAdvance

\* The frames returned to one client have strictly increasing timestamps.
THEOREM ReadsGrow == Spec => ReadsAdvance
<1> DEFINE Grow == ~raced' => \A r \in Readers : Alive(r) /\ ts'[r] # ts[r] => ts'[r] > ts[r]
<1>1. IInv /\ [Next]_vars => [Grow]_vars
  <2> SUFFICES ASSUME IInv, [Next]_vars, ~raced', NEW r \in Readers, Alive(r), ts'[r] # ts[r]
               PROVE  ts'[r] > ts[r]
    OBVIOUS
  <2>1. TypeOK /\ Discipline /\ r \in Procs /\ r \notin Writers
    BY RacedStays DEF IInv, Procs
  <2>2. ASSUME NEW p \in Procs, Restart(p) PROVE ts'[r] = ts[r]
    BY <2>1, <2>2 DEF Restart, TypeOK
  <2>3. ASSUME NEW w \in Writers, OnTimer(w) PROVE ts'[r] = ts[r]
    BY <2>1, <2>3 DEF OnTimer, TypeOK, Procs
  <2>4. ASSUME NEW q \in Readers, ReadTimestamp(q) PROVE ts'[r] > ts[r]
    BY <2>1, <2>4 DEF ReadTimestamp, TypeOK, Procs, Discipline, ReaderInside
  <2>5. \/ ts' = ts
        \/ \E p \in Procs : Restart(p)
        \/ \E w \in Writers : OnTimer(w)
        \/ \E q \in Readers : ReadTimestamp(q)
    BY DEF Next, vars, Construct, WipeLock, WipeTimestamp, WipeBlock, Search, TryLock,
           CheckTimestamp, SkipBlock, Crash, WriterStep, AcquireFirstBytes, AcquireLastBytes,
           AcquireFails, WriteTimestamp, FinishWrite, AcquireFrame, ReaderStep,
           ReleaseBeforeCopy, CopyFirstBytes, CopyLastBytes
  <2> QED BY <2>2, <2>3, <2>4, <2>5
<1> QED BY <1>1, Invariance, PTL DEF Spec, ReadsAdvance

-----------------------------------------------------------------------------
(* The refinement: the ring is a frame exchange.                           *)

\* A fresh ring is a fresh exchange.
LEMMA FreshExchange == Init => FE!Init
  BY DEF Init, FE!Init, NoFrame, Procs

\* What a step must leave alone to be invisible in the exchange.
LEMMA Invisible ==
  ASSUME timestamps' = timestamps, dst' = dst, raced' = raced,
         \A r \in Readers : ts'[r] = ts[r]
  PROVE  UNCHANGED FE!vars
  BY DEF FE!vars

\* Once a constructor has zeroed a block in use, every step is Break.
LEMMA RacedIsBreak == TypeOK' /\ raced' => FE!Break
  BY DEF TypeOK, FE!Break, Procs

\* WriteTimestamp publishes: the writer inside has passed the timestamp test.
LEMMA StampPublishes ==
  ASSUME TypeOK, Discipline, NEW w \in Writers, WriteTimestamp(w)
  PROVE  FE!Publish(ci[w])
<1>1. timestamps[ci[w]] < ts[w] /\ ts[w] \in Nat /\ ci[w] \in Slots
  BY DEF WriteTimestamp, Discipline, WriterInside, TypeOK, Procs
<1>2. timestamps' = [timestamps EXCEPT ![ci[w]] = ts[w]] /\ timestamps'[ci[w]] = ts[w]
  BY <1>1 DEF WriteTimestamp, TypeOK
<1>3. dst' = dst /\ raced' = raced /\ ts' = ts
  BY DEF WriteTimestamp
<1> QED BY <1>1, <1>2, <1>3 DEF FE!Publish

\* ReadTimestamp takes: the block's timestamp is the one that passed the test, or newer.
LEMMA ReadTakes ==
  ASSUME TypeOK, Discipline, NEW r \in Readers, ReadTimestamp(r)
  PROVE  FE!Take(r)
<1>1. timestamps[ci[r]] > ts[r] /\ ci[r] \in Slots
  BY DEF ReadTimestamp, Discipline, ReaderInside, TypeOK, Procs
<1>2. ts' = [ts EXCEPT ![r] = timestamps[ci[r]]] /\ r \in Procs
  BY DEF ReadTimestamp, Procs
<1>3. [q \in Readers |-> ts'[q]] = [[q \in Readers |-> ts[q]] EXCEPT ![r] = timestamps[ci[r]]]
  BY <1>2 DEF TypeOK, Procs
<1>4. timestamps' = timestamps /\ dst' = dst /\ raced' = raced
  BY DEF ReadTimestamp, shm
<1> QED BY <1>1, <1>3, <1>4 DEF FE!Take

\* The copies fill the image with nothing older than what was taken.
LEMMA CopyFills ==
  ASSUME TypeOK, Discipline, NEW r \in Readers, CopyFirstBytes(r) \/ CopyLastBytes(r)
  PROVE  \E k \in FE!Parts : FE!Fill(r, k)
<1>1. /\ pc[r] \in CopyPcs /\ ci[r] \in Slots
      /\ 0 < ts[r] /\ ts[r] <= timestamps[ci[r]] /\ ts[r] \in Nat
  BY DEF CopyFirstBytes, CopyLastBytes, CopyPcs, Discipline, ReaderInside, TypeOK, Procs
<1>2. /\ blocks[ci[r]][1] \in Nat /\ blocks[ci[r]][2] \in Nat
      /\ blocks[ci[r]][1] >= ts[r] /\ blocks[ci[r]][2] >= ts[r]
  BY <1>1 DEF Discipline, BytesNotOlder, TypeOK
<1>3. /\ timestamps' = timestamps /\ raced' = raced /\ ts' = ts
      /\ [q \in Readers |-> ts'[q]] = [q \in Readers |-> ts[q]]
  BY DEF CopyFirstBytes, CopyLastBytes, shm
<1>4. CASE CopyFirstBytes(r)
  <2>1. dst' = [dst EXCEPT ![r][1] = blocks[ci[r]][1]] /\ dst'[r][1] = blocks[ci[r]][1]
    BY <1>4 DEF CopyFirstBytes, TypeOK
  <2>2. FE!Fill(r, 1)
    BY <1>2, <1>3, <2>1 DEF FE!Fill
  <2> QED BY <2>2 DEF FE!Parts
<1>5. CASE CopyLastBytes(r)
  <2>1. dst' = [dst EXCEPT ![r][2] = blocks[ci[r]][2]] /\ dst'[r][2] = blocks[ci[r]][2]
    BY <1>5 DEF CopyLastBytes, TypeOK
  <2>2. FE!Fill(r, 2)
    BY <1>2, <1>3, <2>1 DEF FE!Fill
  <2> QED BY <2>2 DEF FE!Parts
<1> QED BY <1>4, <1>5

\* A client that starts again forgets, a framework process that does is invisible.
LEMMA RestartForgets ==
  ASSUME TypeOK, NEW p \in Procs, Restart(p)
  PROVE  (p \in Readers /\ FE!Forget(p)) \/ UNCHANGED FE!vars
<1>1. timestamps' = timestamps /\ raced' = raced /\ ts' = [ts EXCEPT ![p] = 0]
  BY DEF Restart, shm
<1>2. CASE p \in Readers
  <2>1. [q \in Readers |-> ts'[q]] = [[q \in Readers |-> ts[q]] EXCEPT ![p] = 0]
    BY <1>1, <1>2 DEF TypeOK, Procs
  <2>2. dst' = [dst EXCEPT ![p] = <<0, 0>>]
    BY <1>2 DEF Restart, TypeOK, NoFrame
  <2> QED BY <1>1, <1>2, <2>1, <2>2 DEF FE!Forget
<1>3. CASE p \notin Readers
  <2>1. dst' = dst /\ \A r \in Readers : ts'[r] = ts[r]
    BY <1>1, <1>3 DEF Restart, TypeOK, Procs
  <2> QED BY <1>1, <2>1, Invisible
<1> QED BY <1>2, <1>3

\* Every step of the ring is a step of the exchange, or invisible in it.
LEMMA ExchangeStep == IInv /\ [Next]_vars => [FE!Next]_(FE!vars)
<1> SUFFICES ASSUME IInv, [Next]_vars PROVE FE!Next \/ UNCHANGED FE!vars
  OBVIOUS
<1>1. TypeOK /\ TypeOK' /\ (~raced => Discipline)
  BY TypeStep DEF IInv
<1>2. CASE raced'
  BY <1>1, <1>2, RacedIsBreak DEF FE!Next
<1>3. CASE ~raced'
  <2>1. ~raced /\ Discipline
    BY <1>1, <1>3, RacedStays
  <2>2. CASE UNCHANGED vars
    BY <2>2, Invisible DEF vars
  <2>3. ASSUME NEW p \in Procs, Construct(p) PROVE FE!Next \/ UNCHANGED FE!vars
    <3>1. dst' = dst /\ ts' = ts /\ raced' = raced
      <4>1. dst' = dst /\ ts' = ts
        BY <2>3 DEF Construct, WipeLock, WipeTimestamp, WipeBlock
      <4>2. raced' = raced
        BY <1>1, <1>3, <2>1 DEF TypeOK
      <4> QED BY <4>1, <4>2
    <3>2. CASE WipeTimestamp(p)
      <4>1. timestamps' = [timestamps EXCEPT ![ci[p]] = 0] /\ ci[p] \in Slots
        BY <1>1, <3>2 DEF WipeTimestamp, TypeOK
      <4>2. FE!Clear(ci[p])
        BY <3>1, <4>1 DEF FE!Clear
      <4> QED BY <4>1, <4>2 DEF FE!Next
    <3>3. CASE WipeLock(p) \/ WipeBlock(p)
      BY <3>1, <3>3, Invisible DEF WipeLock, WipeBlock
    <3> QED BY <2>3, <3>2, <3>3 DEF Construct
  <2>4. ASSUME NEW p \in Procs, Search(p) \/ Crash(p) PROVE UNCHANGED FE!vars
    BY <2>4, Invisible DEF Search, TryLock, CheckTimestamp, SkipBlock, Crash, shm
  <2>5. ASSUME NEW p \in Procs, Restart(p) PROVE FE!Next \/ UNCHANGED FE!vars
    BY <1>1, <2>5, RestartForgets DEF FE!Next
  <2>6. ASSUME NEW w \in Writers, OnTimer(w) PROVE UNCHANGED FE!vars
    <3>1. /\ timestamps' = timestamps /\ dst' = dst /\ raced' = raced
          /\ \A r \in Readers : ts'[r] = ts[r]
      BY <1>1, <2>6 DEF OnTimer, shm, TypeOK, Procs
    <3> QED BY <3>1, Invisible
  <2>7. ASSUME NEW w \in Writers, WriterStep(w) PROVE FE!Next \/ UNCHANGED FE!vars
    <3>1. CASE WriteTimestamp(w)
      <4>1. ci[w] \in Slots
        BY <1>1 DEF TypeOK, Procs
      <4> QED BY <1>1, <2>1, <3>1, <4>1, StampPublishes DEF FE!Next
    <3>2. CASE ~WriteTimestamp(w)
      BY <2>7, <3>2, Invisible DEF WriterStep, AcquireFirstBytes, AcquireLastBytes, AcquireFails,
                                   FinishWrite, shm
    <3> QED BY <3>1, <3>2
  <2>8. ASSUME NEW r \in Readers, AcquireFrame(r) PROVE UNCHANGED FE!vars
    BY <2>8, Invisible DEF AcquireFrame, shm
  <2>9. ASSUME NEW r \in Readers, ReaderStep(r) PROVE FE!Next \/ UNCHANGED FE!vars
    <3>1. CASE ReadTimestamp(r)
      BY <1>1, <2>1, <3>1, ReadTakes DEF FE!Next
    <3>2. CASE CopyFirstBytes(r) \/ CopyLastBytes(r)
      BY <1>1, <2>1, <3>2, CopyFills DEF FE!Next
    <3>3. CASE ReleaseBeforeCopy(r)
      BY <3>3, Invisible DEF ReleaseBeforeCopy
    <3> QED BY <2>9, <3>1, <3>2, <3>3 DEF ReaderStep
  <2> QED BY <2>2, <2>3, <2>4, <2>5, <2>6, <2>7, <2>8, <2>9 DEF Next
<1> QED BY <1>2, <1>3

\* shared_buffer, as its two users use it, implements the abstract exchange: every
\* step publishes a newer frame, answers a request with a newer one, fills an image with
\* nothing older than promised, or does not show.
THEOREM RingImplementsExchange == Spec => ImplementsFrameExchange
  BY FreshExchange, ExchangeStep, Invariance, PTL DEF Spec, ImplementsFrameExchange, FE!Spec
=============================================================================
