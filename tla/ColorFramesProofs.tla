-------------------------- MODULE ColorFramesProofs --------------------------
(***************************************************************************)
(* Proofs about the channel order of the colour ring, for any number of    *)
(* blocks and ticks.                                                       *)
(***************************************************************************)
EXTENDS ColorFrames, TLAPS

USE RingAssumption

\* Ticks since the timer passed block i, while its index is not displaced.
Since(i) == IF i < next_write THEN next_write - i ELSE next_write - i + block_count

\* The order an image is in after n swaps too many.
AfterTurns(n) == IF n % 2 = 0 THEN "bgra" ELSE "rgba"

\* The age of a frame is a number of whole turns of the ring, each of which swapped
\* its image, and the ticks since the last one.
TurnsSwap ==
  \A i \in Slots \ displaced : timestamps[i] # 0 =>
    \E n \in Nat : /\ tick - timestamps[i] = n * block_count + Since(i) - 1
                  /\ order[i] = AfterTurns(n)

IInv == TypeOK /\ TurnsSwap

\* Division by the number of blocks counts whole turns.
LEMMA WholeTurns ==
  ASSUME NEW n \in Nat, NEW r \in 0 .. block_count - 1
  PROVE  (n * block_count + r) \div block_count = n
<1> DEFINE d == n * block_count + r
           k == d \div block_count
<1>1. n * block_count \in Nat /\ d \in Nat
  OBVIOUS
<1>2. k \in Int /\ k * block_count <= d /\ d < k * block_count + block_count
  BY <1>1
<1> HIDE DEF k
<1>3. CASE k < n
  <2>1. PICK j \in Nat : n = k + 1 + j
    <3>1. n - k - 1 \in Nat /\ n = k + 1 + (n - k - 1)
      BY <1>2, <1>3
    <3> QED BY <3>1
  <2>2. n * block_count = k * block_count + block_count + j * block_count /\ j * block_count \in Nat
    BY <1>2, <2>1
  <2> QED BY <1>1, <1>2, <2>2
<1>4. CASE k > n
  <2>1. PICK j \in Nat : k = n + 1 + j
    <3>1. k - n - 1 \in Nat /\ k = n + 1 + (k - n - 1)
      BY <1>2, <1>4
    <3> QED BY <3>1
  <2>2. k * block_count = n * block_count + block_count + j * block_count /\ j * block_count \in Nat
    BY <2>1
  <2> QED BY <1>1, <1>2, <2>2
<1> QED BY <1>2, <1>3, <1>4 DEF k

\* The index returns to the first block after the last one.
LEMMA NextInRing ==
  ASSUME NEW i \in Slots
  PROVE  /\ NextIndex(i) \in Slots
         /\ NextIndex(i) = IF i = block_count - 1 THEN 0 ELSE i + 1
<1>1. CASE i = block_count - 1
  BY <1>1 DEF NextIndex, Slots
<1>2. CASE i # block_count - 1
  BY <1>2 DEF NextIndex, Slots
<1> QED BY <1>1, <1>2

\* The initial state satisfies the inductive invariant.
LEMMA InitIInv == Init => IInv
<1> SUFFICES ASSUME Init PROVE IInv
  OBVIOUS
<1>1. 0 \in Slots /\ 0 \in 0 .. 0 /\ "none" \in Orders
  BY DEF Slots, Orders
<1>2. timestamps \in [Slots -> 0 .. tick] /\ order \in [Slots -> Orders]
  <2>1. tick = 0 /\ timestamps = [i \in Slots |-> 0] /\ order = [i \in Slots |-> "none"]
    BY DEF Init
  <2> QED BY <1>1, <2>1
<1>3. TypeOK
  <2>1. tick \in 0 .. MaxTick /\ ts \in 0 .. tick
    BY DEF Init
  <2>2. pc \in {"idle", "hold", "copy"} /\ image \in Orders /\ displaced \subseteq Slots
    BY <1>1 DEF Init
  <2>3. next_write \in Slots /\ next_read \in Slots /\ ci \in Slots
    BY <1>1 DEF Init
  <2> QED BY <1>2, <2>1, <2>2, <2>3 DEF TypeOK
<1>4. TurnsSwap
  BY DEF Init, TurnsSwap
<1> QED BY <1>3, <1>4 DEF IInv

\* Every step preserves the types.
LEMMA TypeStep == TypeOK /\ [Next]_vars => TypeOK'
<1> SUFFICES ASSUME TypeOK, [Next]_vars PROVE TypeOK'
  OBVIOUS
<1> USE DEF TypeOK
<1>1. ASSUME NEW result \in BOOLEAN, OnTimer(result) PROVE TypeOK'
  <2>1. PICK i \in Slots :
          /\ order' = [order EXCEPT ![i] = Acquired(@, result)]
          /\ timestamps' = [timestamps EXCEPT ![i] = IF result THEN tick' ELSE @]
    BY <1>1, NextInRing DEF OnTimer
  <2>2. order' \in [Slots -> Orders]
    BY <2>1 DEF Acquired, Swapped, Orders
  <2>3. tick' = tick + 1 /\ tick' \in 0 .. MaxTick
    BY <1>1 DEF OnTimer
  <2>4. timestamps' \in [Slots -> 0 .. tick']
    BY <2>1, <2>3
  <2>5. displaced' \subseteq Slots /\ next_write' \in Slots
    BY <1>1, NextInRing DEF OnTimer
  <2> QED BY <1>1, <2>2, <2>3, <2>4, <2>5 DEF OnTimer
<1>2. ASSUME NEW i \in Slots, AcquireFrame(i) PROVE TypeOK'
  BY <1>2 DEF AcquireFrame
<1>3. CASE Release
  BY <1>3, NextInRing DEF Release
<1>4. CASE Copy
  BY <1>4 DEF Copy
<1>5. CASE UNCHANGED vars
  BY <1>5 DEF vars
<1> QED BY <1>1, <1>2, <1>3, <1>4, <1>5 DEF Next

\* Only the timer changes the ring; it passes one block at a time, and swaps its image.
LEMMA SwapStep == TypeOK /\ TurnsSwap /\ [Next]_vars => TurnsSwap'
<1> SUFFICES ASSUME TypeOK, TurnsSwap, [Next]_vars PROVE TurnsSwap'
  OBVIOUS
<1> USE DEF TypeOK
<1>1. ASSUME UNCHANGED <<tick, timestamps, order, next_write, displaced>> PROVE TurnsSwap'
  BY <1>1 DEF TurnsSwap, Since
<1>2. ASSUME NEW result \in BOOLEAN, OnTimer(result) PROVE TurnsSwap'
  <2> SUFFICES ASSUME NEW i \in Slots \ displaced', timestamps'[i] # 0
               PROVE  \E n \in Nat : /\ tick' - timestamps'[i] = n * block_count + Since(i)' - 1
                                    /\ order'[i] = AfterTurns(n)
    BY DEF TurnsSwap
  <2>1. /\ tick' = tick + 1
        /\ next_write' = IF next_write = block_count - 1 THEN 0 ELSE next_write + 1
    BY <1>2, NextInRing DEF OnTimer
  <2>2. CASE i # next_write
    <3>1. /\ timestamps'[i] = timestamps[i] /\ order'[i] = order[i]
          /\ i \notin displaced
      BY <1>2, <2>2 DEF OnTimer
    <3>2. Since(i)' = Since(i) + 1 /\ Since(i) \in Int
      BY <2>1, <2>2 DEF Since, Slots
    <3>3. PICK n \in Nat : /\ tick - timestamps[i] = n * block_count + Since(i) - 1
                          /\ order[i] = AfterTurns(n)
      BY <3>1 DEF TurnsSwap
    <3>4. n * block_count \in Nat /\ timestamps[i] \in Nat
      OBVIOUS
    <3>5. tick' - timestamps'[i] = n * block_count + Since(i)' - 1
      BY <2>1, <3>1, <3>2, <3>3, <3>4
    <3> QED BY <3>1, <3>3, <3>5
  <2>3. CASE i = next_write
    <3>1. /\ order' = [order EXCEPT ![i] = Acquired(@, result)]
          /\ timestamps' = [timestamps EXCEPT ![i] = IF result THEN tick' ELSE @]
          /\ ~result => i \notin displaced
      BY <1>2, <2>3 DEF OnTimer
    <3>2. Since(i)' = 1 /\ Since(i) = block_count
      BY <2>1, <2>3 DEF Since, Slots
    <3>3. CASE result
      <4>1. tick' - timestamps'[i] = 0 * block_count + Since(i)' - 1
        BY <2>1, <3>1, <3>2, <3>3
      <4>2. order'[i] = AfterTurns(0)
        BY <3>1, <3>3 DEF Acquired, Swapped, AfterTurns
      <4> QED BY <4>1, <4>2
    <3>4. CASE ~result
      <4>1. /\ timestamps'[i] = timestamps[i] /\ order'[i] = Swapped(order[i])
            /\ timestamps[i] \in Nat
        BY <3>1, <3>4 DEF Acquired
      <4>2. PICK n \in Nat : /\ tick - timestamps[i] = n * block_count + Since(i) - 1
                            /\ order[i] = AfterTurns(n)
        BY <3>1, <3>4, <4>1 DEF TurnsSwap
      <4>3. (n + 1) * block_count = n * block_count + block_count /\ n * block_count \in Nat
        OBVIOUS
      <4>4. tick' - timestamps'[i] = (n + 1) * block_count + Since(i)' - 1
        BY <2>1, <3>2, <4>1, <4>2, <4>3
      <4>5. Swapped(AfterTurns(n)) = AfterTurns(n + 1)
        BY DEF Swapped, AfterTurns
      <4> QED BY <4>1, <4>2, <4>4, <4>5
    <3> QED BY <3>3, <3>4
  <2> QED BY <2>2, <2>3
<1>3. ASSUME NEW i \in Slots, AcquireFrame(i) PROVE TurnsSwap'
  BY <1>1, <1>3 DEF AcquireFrame
<1>4. CASE Release \/ Copy
  BY <1>1, <1>4 DEF Release, Copy
<1>5. CASE UNCHANGED vars
  BY <1>1, <1>5 DEF vars
<1> QED BY <1>2, <1>3, <1>4, <1>5 DEF Next

\* Every reachable state of the colour ring is well typed.
THEOREM TypeCorrect == Spec => []TypeOK
<1>1. Init => TypeOK
  BY InitIInv DEF IInv
<1> QED BY <1>1, TypeStep, PTL DEF Spec

\* OpenNUI_Kinect2.cpp:204-231: the order of a frame's channels follows from its age, for
\* any number of blocks and whenever there were frames.
THEOREM AgeTellsOrder == Spec => []OrderTellsAge
<1>1. IInv /\ [Next]_vars => IInv'
  BY TypeStep, SwapStep DEF IInv
<1>2. IInv => OrderTellsAge
  <2> SUFFICES ASSUME IInv, NEW i \in Slots \ displaced, timestamps[i] # 0
               PROVE  order[i] = AfterTurns(Turns(i))
    BY DEF OrderTellsAge, AfterTurns
  <2>1. PICK n \in Nat : /\ tick - timestamps[i] = n * block_count + Since(i) - 1
                        /\ order[i] = AfterTurns(n)
    BY DEF IInv, TurnsSwap
  <2>2. Since(i) - 1 \in 0 .. block_count - 1
    BY DEF IInv, TypeOK, Since, Slots
  <2>3. n * block_count + (Since(i) - 1) = n * block_count + Since(i) - 1
    BY <2>2
  <2>4. Turns(i) = n
    BY <2>1, <2>2, <2>3, WholeTurns DEF Turns
  <2> QED BY <2>1, <2>4
<1> QED BY <1>1, <1>2, InitIInv, PTL DEF Spec
=============================================================================
