------------------------- MODULE SessionQueryProofs -------------------------
(***************************************************************************)
(* Proofs about what the session stream hands to handshake threads: the    *)
(* stream implements MessageStream, and in or out of step every query is a *)
(* hello that was sent, with its own data.                                 *)
(***************************************************************************)
EXTENDS SessionStreamProofs

USE LayoutAssumption DEF opcode_null, handshake_hello, handshake_ack, end_of_record, Garbage

-----------------------------------------------------------------------------
(* The refinement of MessageStream                                         *)

\* Without a fault no read ends inside the data, so none of it is read before all is.
Whole == ~Faulted /\ state = "read_data" => bytes_in = HeaderSize

\* What the abstract stream sees.
AbsSent == [j \in 1 .. Len(sent) |-> sent[j].msg]
AbsOut  == [k \in 1 .. Len(queries) |-> Received(queries[k])]
Query   == [opcode: {handshake_hello}, block_size: 0 .. DataMax,
            message_id: Nat, data_section: [1 .. DataMax -> Nat]]

\* A fault stays.
LEMMA NoFaultBefore ==
  ASSUME Typed, Staged, [Next]_vars, ~Faulted'
  PROVE  ~Faulted /\ Sound /\ cuts = {} /\ Sound'
<1>1. cuts' = {} /\ Sound'
  BY DEF Faulted, Sound
<1>2. Sound
  BY <1>1, SoundBefore
<1>3. cuts \subseteq cuts'
  <2>1. ASSUME NEW m \in Messages, Send(m) PROVE cuts \subseteq cuts'
    BY <2>1, SendEffect
  <2>2. ASSUME NEW n \in 1 .. BufferSize, OnDataReceived(n) PROVE cuts \subseteq cuts'
    BY <2>2, ReceiveEffect
  <2>3. CASE OnReadFailed \/ UNCHANGED vars
    BY <2>3 DEF OnReadFailed, vars
  <2>4. CASE HeaderPart \/ DataPart
    BY <2>4, HeaderPartEffect, DataPartEffect DEF Kept
  <2>5. CASE HeaderWhole \/ DataWhole
    BY <2>5, HeaderWholeEffect, DataWholeEffect
  <2> QED BY <2>1, <2>2, <2>3, <2>4, <2>5 DEF Next, Receive, Processing
<1> QED BY <1>1, <1>2, <1>3 DEF Sound, Faulted

\* With the header just read, a part of the data is none of it unless a read ended inside.
LEMMA NoneOfTheData ==
  ASSUME Typed, Staged, Placed, DataPart, bytes_in = HeaderSize, "data" \notin cuts,
         NEW j \in 1 .. Len(sent), sent[j].at = Base, HeaderIs(memory, sent[j].msg)
  PROVE  Len(buffer) = 0
<1>1. /\ state = "read_data" /\ Len(buffer) < remaining_data_size
  BY DataPartEffect DEF DataPart
<1>2. Reading
  BY <1>1 DEF Staged, Confused
<1>3. Len(buffer) < memory[1] /\ memory[1] = sent[j].msg.block_size
  <2>1. memory[1] = sent[j].msg.block_size /\ sent[j].msg.block_size \in Nat
    BY EntryTyped DEF HeaderIs
  <2> QED BY <1>1, <1>2, <2>1, Differences, Lengths
<1>4. /\ sent[j].at \in Nat /\ sent[j].msg.block_size \in Nat
      /\ EndOf(sent[j]) = sent[j].at + 3 + sent[j].msg.block_size
  BY EntryTyped
<1>5. taken = sent[j].at + HeaderSize + Len(buffer) /\ Len(buffer) \in Nat
  BY <1>4, Lengths DEF Base, Pos
<1>6. ASSUME Len(buffer) # 0 PROVE FALSE
  <2>1. sent[j].at + HeaderSize < taken /\ taken < EndOf(sent[j])
    BY <1>3, <1>4, <1>5, <1>6
  <2> QED BY <2>1 DEF Placed, CutsKnown
<1> QED BY <1>6

\* The same, without a fault.
LEMMA DataPartNone ==
  ASSUME Typed, Staged, Placed, InPhase, Whole, ~Faulted, DataPart
  PROVE  Len(buffer) = 0
<1>1. state = "read_data"
  BY DataPartEffect
<1>2. bytes_in = HeaderSize
  BY <1>1 DEF Whole
<1>3. PICK j \in 1 .. Len(sent) : sent[j].at = Base /\ HeaderIs(memory, sent[j].msg)
  BY <1>1 DEF InPhase
<1>4. "data" \notin cuts
  BY DEF Faulted
<1> QED BY <1>2, <1>3, <1>4, NoneOfTheData

\* Without a fault the data is counted only when it is all there.
LEMMA WholeStep ==
  ASSUME IInv, Whole, [Next]_vars
  PROVE  Whole'
<1> SUFFICES ASSUME ~Faulted', state' = "read_data" PROVE bytes_in' = HeaderSize
  BY DEF Whole
<1>1. Typed /\ Staged /\ Placed
  BY DEF IInv
<1>2. ~Faulted /\ Sound
  BY <1>1, NoFaultBefore
<1>3. InPhase /\ Handed
  BY <1>2 DEF IInv, Followed
<1>4. ASSUME UNCHANGED <<state, bytes_in>> PROVE bytes_in' = HeaderSize
  BY <1>2, <1>4 DEF Whole
<1>5. ASSUME NEW m \in Messages, Send(m) PROVE bytes_in' = HeaderSize
  BY <1>1, <1>4, <1>5, SendEffect
<1>6. ASSUME NEW n \in 1 .. BufferSize, OnDataReceived(n) PROVE bytes_in' = HeaderSize
  BY <1>1, <1>4, <1>6, ReceiveEffect
<1>7. CASE OnReadFailed \/ UNCHANGED vars
  BY <1>4, <1>7 DEF OnReadFailed, vars
<1>8. CASE HeaderPart
  BY <1>1, <1>8, HeaderPartEffect DEF Kept
<1>9. CASE HeaderWhole
  BY <1>1, <1>2, <1>3, <1>9, HeaderWholeFollowed
<1>10. CASE DataPart
  <2>1. Len(buffer) = 0
    BY <1>1, <1>2, <1>3, <1>10, DataPartNone
  <2>2. state = "read_data" /\ bytes_in' = bytes_in + Len(buffer) /\ bytes_in = HeaderSize
    BY <1>1, <1>2, <1>10, DataPartEffect DEF Kept, Whole
  <2> QED BY <2>1, <2>2
<1>11. CASE DataWhole
  BY <1>1, <1>11, DataWholeEffect
<1> QED BY <1>5, <1>6, <1>7, <1>8, <1>9, <1>10, <1>11 DEF Next, Receive, Processing

\* The abstract variables have the types the abstract stream expects.
LEMMA AbsTyped ==
  ASSUME Typed
  PROVE  /\ AbsSent \in Seq(Messages) /\ Len(AbsSent) = Len(sent)
         /\ \A j \in 1 .. Len(sent) : AbsSent[j] = sent[j].msg
         /\ Cardinality(WorkedOff) \in Nat
<1>1. Len(sent) \in Nat /\ \A j \in 1 .. Len(sent) : sent[j].msg \in Messages
  BY EntryTyped, Lengths
<1>2. AbsSent \in [1 .. Len(sent) -> Messages]
  BY <1>1 DEF AbsSent
<1>3. AbsSent \in Seq(Messages) /\ Len(AbsSent) = Len(sent)
  BY <1>1, <1>2, SeqDef
<1>4. WorkedOff \subseteq 1 .. Len(sent)
  BY DEF WorkedOff
<1>5. IsFiniteSet(1 .. Len(sent))
  BY <1>1, FS_Interval
<1>6. Cardinality(WorkedOff) \in Nat
  BY <1>4, <1>5, FS_Subset, FS_CardinalityType
<1> QED BY <1>1, <1>2, <1>3, <1>6 DEF AbsSent

\* The types hold after a step, too.
LEMMA AbsTypedNext ==
  (Typed => AbsSent \in Seq(Messages) /\ Cardinality(WorkedOff) \in Nat)'
<1>1. Typed => AbsSent \in Seq(Messages) /\ Cardinality(WorkedOff) \in Nat
  BY AbsTyped
<1> QED BY <1>1, PTL

\* What changes neither messages nor queries nor the base does not show.
LEMMA Unseen ==
  ASSUME UNCHANGED <<sent, queries>>, Base' = Base
  PROVE  AbsSent' = AbsSent /\ AbsOut' = AbsOut /\ Cardinality(WorkedOff)' = Cardinality(WorkedOff)
<1>1. WorkedOff = {j \in 1 .. Len(sent) : EndOf(sent[j]) <= Base}
  BY DEF WorkedOff, Base, Pos
<1>2. WorkedOff' = {j \in 1 .. Len(sent') : EndOf(sent'[j]) <= Base'}
  BY DEF WorkedOff, Base, Pos, EndOf
<1>3. WorkedOff' = WorkedOff
  BY <1>1, <1>2
<1> QED BY <1>3 DEF AbsSent, AbsOut, Received

\* Keeping cells moves position and count by as much.
LEMMA KeptBase ==
  ASSUME Typed, Placed, Kept PROVE Base' = Base
<1>1. Dropped(Len(buffer)) /\ UNCHANGED <<sent, wire, taken, cuts>> /\ bytes_in' = bytes_in + Len(buffer)
  BY KeptDrops DEF Kept
<1>2. Pos' = Pos + Len(buffer)
  BY <1>1, DropPlaced
<1> QED BY <1>1, <1>2, Lengths DEF Base

\* Sending appends the message; nothing is worked off.
LEMMA SendSeen ==
  ASSUME Typed, Placed, InPhase, NEW m \in Messages, Send(m), Typed'
  PROVE  AbsSent' = Append(AbsSent, m) /\ AbsOut' = AbsOut
         /\ Cardinality(WorkedOff)' = Cardinality(WorkedOff)
<1> DEFINE L == Len(sent)
<1>1. /\ Len(sent') = L + 1 /\ sent'[L + 1] = [msg |-> m, at |-> Total]
      /\ \A j \in 1 .. L : sent'[j] = sent[j]
      /\ UNCHANGED <<bytes_in, queries>> /\ L \in Nat
  BY SendEffect, Lengths
<1>2. Pos' = Pos /\ Base' = Base
  BY <1>1, SendPlaced DEF Base
<1>3. AbsOut' = AbsOut
  BY <1>1 DEF AbsOut, Received
<1>4. AbsSent' = Append(AbsSent, m)
  <2>1. AbsSent \in Seq(Messages) /\ Len(AbsSent) = L /\ \A j \in 1 .. L : AbsSent[j] = sent[j].msg
    BY AbsTyped
  <2>2. AbsSent' \in Seq(Messages) /\ Len(AbsSent') = L + 1
        /\ \A j \in 1 .. L + 1 : AbsSent'[j] = sent'[j].msg
    <3>1. AbsSent' = [j \in 1 .. L + 1 |-> sent'[j].msg]
      BY <1>1 DEF AbsSent
    <3>2. \A j \in 1 .. L + 1 : sent'[j].msg \in Messages
      <4>1. ASSUME NEW j \in 1 .. L + 1 PROVE sent'[j].msg \in Messages
        <5>1. CASE j \in 1 .. L
          BY <1>1, <5>1, EntryTyped
        <5>2. CASE j = L + 1
          BY <1>1, <5>2
        <5> QED BY <1>1, <5>1, <5>2
      <4> QED BY <4>1
    <3>3. AbsSent' \in [1 .. L + 1 -> Messages] /\ L + 1 \in Nat
      BY <1>1, <3>1, <3>2
    <3> QED BY <3>1, <3>3, SeqDef
  <2>3. /\ Append(AbsSent, m) \in Seq(Messages) /\ Len(Append(AbsSent, m)) = L + 1
        /\ \A j \in 1 .. L : Append(AbsSent, m)[j] = AbsSent[j]
        /\ Append(AbsSent, m)[L + 1] = m
    BY <2>1, AppendProperties
  <2>4. ASSUME NEW j \in 1 .. L + 1 PROVE AbsSent'[j] = Append(AbsSent, m)[j]
    <3>1. CASE j \in 1 .. L
      BY <1>1, <2>1, <2>2, <2>3, <3>1
    <3>2. CASE j = L + 1
      BY <1>1, <2>2, <2>3, <3>2
    <3>3. j \in 1 .. L \/ j = L + 1
      BY <1>1
    <3> QED BY <3>1, <3>2, <3>3
  <2> HIDE DEF L
  <2> QED BY <2>2, <2>3, <2>4, SeqEqual
<1>5. WorkedOff' = WorkedOff
  <2>1. WorkedOff = {j \in 1 .. L : EndOf(sent[j]) <= Base}
    BY DEF WorkedOff, Base, Pos
  <2>2. WorkedOff' = {j \in 1 .. L + 1 : EndOf(sent'[j]) <= Base}
    BY <1>1, <1>2 DEF WorkedOff, Base, Pos, EndOf
  <2>3. ~(EndOf(sent'[L + 1]) <= Base)
    <3>1. EndOf(sent'[L + 1]) = Total + 3 + m.block_size /\ m.block_size \in Nat
      BY <1>1, Written DEF EndOf
    <3> QED BY <3>1, Lengths DEF Base
  <2>4. \A j \in 1 .. L + 1 : (j \in 1 .. L /\ sent'[j] = sent[j]) \/ j = L + 1
    BY <1>1
  <2>5. L + 1 \notin 1 .. L /\ 1 .. L \subseteq 1 .. L + 1
    BY <1>1
  <2> HIDE DEF L
  <2> QED BY <2>1, <2>2, <2>3, <2>4, <2>5, <1>1
<1> QED BY <1>3, <1>4, <1>5

\* What is worked off are the messages before the one that starts at the base.
LEMMA WorkedBefore ==
  ASSUME Typed, LaidOut, NEW j \in 1 .. Len(sent)
  PROVE  /\ Cardinality({i \in 1 .. Len(sent) : EndOf(sent[i]) <= sent[j].at}) = j - 1
         /\ Cardinality({i \in 1 .. Len(sent) : EndOf(sent[i]) <= EndOf(sent[j])}) = j
<1>1. Len(sent) \in Nat /\ j \in Nat /\ j >= 1 /\ j <= Len(sent)
  BY Lengths
<1>2. \A i \in 1 .. Len(sent) : /\ EndOf(sent[i]) <= sent[j].at <=> i < j
                                /\ EndOf(sent[i]) <= EndOf(sent[j]) <=> i <= j
  BY Order
<1>3. {i \in 1 .. Len(sent) : EndOf(sent[i]) <= sent[j].at} = 1 .. (j - 1)
  BY <1>1, <1>2
<1>4. {i \in 1 .. Len(sent) : EndOf(sent[i]) <= EndOf(sent[j])} = 1 .. j
  BY <1>1, <1>2
<1>5. Cardinality(1 .. (j - 1)) = j - 1 /\ Cardinality(1 .. j) = j
  <2>1. j - 1 \in Int /\ j \in Int /\ 1 \in Int
    BY <1>1
  <2>2. Cardinality(1 .. (j - 1)) = IF 1 > j - 1 THEN 0 ELSE j - 1 - 1 + 1
    BY <2>1, FS_Interval
  <2>3. Cardinality(1 .. j) = IF 1 > j THEN 0 ELSE j - 1 + 1
    BY <2>1, FS_Interval
  <2> QED BY <1>1, <2>2, <2>3
<1> QED BY <1>3, <1>4, <1>5

\* What the launcher copies is the message itself, when it was read in whole parts.
LEMMA CopiedWhole ==
  ASSUME Typed, Staged, Placed, NEW j \in 1 .. Len(sent), sent[j].at = Base, bytes_in = HeaderSize,
         HeaderIs(memory, sent[j].msg), sent[j].msg.block_size <= DataMax,
         sent[j].msg.block_size <= Len(buffer)
  PROVE  Received(Parsed(Moved(HeaderSize, sent[j].msg.block_size))) = sent[j].msg
<1> DEFINE m == sent[j].msg
           b == m.block_size
           mem == Moved(HeaderSize, b)
<1>1. /\ m \in Messages /\ sent[j].at \in Nat /\ b \in Nat
  BY EntryTyped
<1>2. /\ Len(buffer) \in Nat /\ taken \in Nat /\ Pos \in Nat /\ Pos = taken - Len(buffer)
      /\ Pos = sent[j].at + HeaderSize
  BY <1>1, Lengths DEF Base, Pos
<1>3. /\ m.opcode \in Nat /\ m.message_id \in Nat /\ m.data \in Seq(Nat) /\ Len(m.data) = b
      /\ \A k \in 1 .. b : to_binary(m)[HeaderSize + k] = m.data[k]
  BY <1>1, Written
<1>4. /\ mem \in [Addresses -> Nat] /\ \A a \in Addresses : a < HeaderSize => mem[a] = memory[a]
      /\ \A a \in Addresses : mem[a] = IF HeaderSize <= a /\ a < HeaderSize + b
           THEN buffer[a - HeaderSize + 1] ELSE memory[a]
  <2>1. HeaderSize \in Nat /\ b \in 0 .. Len(buffer) /\ HeaderSize + b <= HeaderSize + DataMax
    <3>1. b \in Nat /\ b <= DataMax /\ b <= Len(buffer)
      BY <1>1
    <3>2. DataMax \in Nat /\ Len(buffer) \in Nat /\ HeaderSize = 3
      BY <1>2
    <3> HIDE DEF b
    <3> QED BY <3>1, <3>2
  <2> HIDE DEF b
  <2> QED BY <2>1, MovedCells
<1> HIDE DEF mem
<1>5. ASSUME NEW k \in 1 .. b PROVE mem[HeaderSize + k - 1] = m.data[k] /\ k \in 1 .. DataMax
  <2>1. k \in Nat /\ 1 <= k /\ k <= b /\ b <= DataMax
    BY <1>1
  <2>2. HeaderSize + k \in 1 .. HeaderSize + sent[j].msg.block_size
    BY <1>1, <2>1
  <2> DEFINE p == sent[j].at + (HeaderSize + k) - 1
  <2>3. p >= Pos /\ p < taken /\ p - (taken - Len(buffer)) + 1 = k
    <3>1. b <= Len(buffer) /\ b \in Nat
      BY <1>1
    <3>2. sent[j].at \in Nat
      BY <1>1
    <3> DEFINE x == sent[j].at
    <3> HIDE DEF x, b
    <3>3. p = Pos + k - 1
      <4>1. Pos = x + HeaderSize /\ x \in Nat /\ p = x + (HeaderSize + k) - 1
        BY <1>2, <3>2 DEF x
      <4> HIDE DEF p
      <4> QED BY <2>1, <4>1
    <3>4. k <= Len(buffer)
      BY <1>2, <2>1, <3>1
    <3> HIDE DEF p
    <3> QED BY <1>2, <2>1, <3>3, <3>4
  <2>4. At(buffer, wire, taken, p) = to_binary(m)[HeaderSize + k]
    BY <2>2, <2>3, CellOf
  <2> HIDE DEF p
  <2>5. At(buffer, wire, taken, p) = buffer[k]
    BY <2>3 DEF At
  <2> DEFINE a == HeaderSize + k - 1
  <2>6. a \in Addresses /\ HeaderSize <= a /\ a < HeaderSize + b /\ a - HeaderSize + 1 = k
    <3>1. b \in Nat /\ DataMax \in Nat /\ HeaderSize = 3
      BY <1>1
    <3> HIDE DEF b
    <3> QED BY <2>1, <3>1 DEF Addresses
  <2> HIDE DEF a
  <2>7. mem[a] = buffer[k]
    BY <1>4, <2>6
  <2>8. mem[HeaderSize + k - 1] = buffer[k]
    BY <2>7 DEF a
  <2>9. to_binary(m)[HeaderSize + k] = m.data[k]
    BY <1>3
  <2>10. k \in 1 .. DataMax
    <3>1. b \in Nat
      BY <1>1
    <3> HIDE DEF b
    <3> QED BY <2>1, <3>1
  <2> QED BY <2>4, <2>5, <2>8, <2>9, <2>10
<1>6. mem[0] = m.opcode /\ mem[1] = b /\ mem[2] = m.message_id
  <2>1. 0 \in Addresses /\ 1 \in Addresses /\ 2 \in Addresses
    BY DEF Addresses
  <2> QED BY <1>4, <2>1 DEF HeaderIs
<1> DEFINE ds == [k \in 1 .. DataMax |-> mem[HeaderSize + k - 1]]
<1>7. SubSeq(ds, 1, b) = m.data
  <2>1. ASSUME NEW k \in 1 .. b PROVE ds[k] = m.data[k] /\ ds[k] \in Nat
    <3>1. k \in 1 .. DataMax /\ mem[HeaderSize + k - 1] = m.data[k]
      BY <1>5
    <3>2. ds[k] = mem[HeaderSize + k - 1]
      BY <3>1
    <3> HIDE DEF ds
    <3>3. m.data[k] \in Nat
      <4>1. m.data \in Seq(Nat) /\ k \in 1 .. Len(m.data)
        BY <1>3
      <4> HIDE DEF m, b
      <4> QED BY <4>1
    <3> QED BY <3>1, <3>2, <3>3
  <2> HIDE DEF ds
  <2>2. /\ SubSeq(ds, 1, b) \in Seq(Nat)
        /\ Len(SubSeq(ds, 1, b)) = IF 1 <= b THEN b - 1 + 1 ELSE 0
        /\ \A i \in 1 .. b - 1 + 1 : SubSeq(ds, 1, b)[i] = ds[1 + i - 1]
    BY <1>1, <2>1, SubSeqProperties
  <2>3. Len(SubSeq(ds, 1, b)) = b
    BY <1>1, <2>2
  <2>4. ASSUME NEW i \in 1 .. b PROVE SubSeq(ds, 1, b)[i] = m.data[i]
    <3>1. i \in 1 .. b - 1 + 1 /\ 1 + i - 1 = i
      BY <1>1
    <3> QED BY <2>1, <2>2, <3>1
  <2> HIDE DEF b
  <2> QED BY <1>3, <2>2, <2>3, <2>4, SeqEqual
<1>8. Received(Parsed(mem)) = [opcode |-> m.opcode, block_size |-> b, message_id |-> m.message_id,
        data |-> m.data]
  BY <1>6, <1>7 DEF Received, Parsed
<1>9. m = [opcode |-> m.opcode, block_size |-> m.block_size, message_id |-> m.message_id, data |-> m.data]
  <2>1. m \in [opcode: Nat, block_size: Nat, message_id: Nat, data: Seq(Nat)]
    BY <1>1, MessagesAssumption
  <2> HIDE DEF m
  <2> QED BY <2>1
<1> QED BY <1>8, <1>9 DEF mem

\* The end of the data works off one message, and hands it over if it is a hello.
LEMMA WorkSeen ==
  ASSUME Typed, Staged, Placed, InPhase, Whole, ~Faulted, DataWhole
  PROVE  /\ Cardinality(WorkedOff) < Len(AbsSent)
         /\ Cardinality(WorkedOff)' = Cardinality(WorkedOff) + 1
         /\ AbsOut' = IF AbsSent[Cardinality(WorkedOff) + 1].opcode = handshake_hello
                        THEN Append(AbsOut, AbsSent[Cardinality(WorkedOff) + 1]) ELSE AbsOut
         /\ AbsSent' = AbsSent
<1> DEFINE n   == remaining_data_size
           mem == Moved(HeaderSize, n)
<1>1. /\ Dropped(n) /\ state = "read_data" /\ bytes_in' = 0
      /\ UNCHANGED <<sent, wire, taken, cuts>>
  BY DataWholeEffect
<1>2. bytes_in = HeaderSize
  BY <1>1 DEF Whole
<1>3. PICK j \in 1 .. Len(sent) : sent[j].at = Base /\ HeaderIs(memory, sent[j].msg)
  BY <1>1 DEF InPhase
<1>4. /\ sent[j].at \in Nat /\ sent[j].msg.block_size \in Nat /\ memory[1] = sent[j].msg.block_size
      /\ EndOf(sent[j]) = sent[j].at + 3 + sent[j].msg.block_size /\ j \in Nat
  BY <1>3, EntryTyped, Lengths DEF HeaderIs
<1>5. /\ n = sent[j].msg.block_size /\ n <= DataMax /\ n <= Len(buffer)
      /\ queries' = IF memory[0] = handshake_hello THEN Append(queries, Parsed(mem)) ELSE queries
  <2>1. ~Confused /\ Reading
    BY <1>1, <1>2 DEF Staged, Confused
  <2>2. n = HeaderSize + memory[1] - bytes_in /\ memory[1] <= DataMax
    BY <2>1, Differences DEF Reading
  <2>3. n = sent[j].msg.block_size
    BY <1>2, <1>4, <2>2
  <2>4. queries' = IF memory[0] = handshake_hello THEN Append(queries, Parsed(mem)) ELSE queries
    BY <2>1, DataWholeEffect
  <2> QED BY <1>1, <1>4, <2>2, <2>3, <2>4 DEF Dropped
<1> HIDE DEF n
<1>6. Base' = EndOf(sent[j])
  <2>1. Pos' = Pos + n
    BY <1>1, DropPlaced
  <2> QED BY <1>1, <1>2, <1>3, <1>4, <1>5, <2>1, Lengths DEF Base
<1>7. Cardinality(WorkedOff) = j - 1
  <2>1. WorkedOff = {i \in 1 .. Len(sent) : EndOf(sent[i]) <= sent[j].at}
    BY <1>3 DEF WorkedOff, Base, Pos
  <2> QED BY <2>1, WorkedBefore DEF Placed
<1>8. Cardinality(WorkedOff)' = j
  <2>1. WorkedOff' = {i \in 1 .. Len(sent) : EndOf(sent[i]) <= EndOf(sent[j])}
    BY <1>1, <1>6 DEF WorkedOff, Base, Pos, EndOf
  <2> QED BY <2>1, WorkedBefore DEF Placed
<1>9. Len(AbsSent) = Len(sent) /\ AbsSent[j] = sent[j].msg /\ AbsSent' = AbsSent
  BY <1>1, AbsTyped DEF AbsSent
<1>10. Cardinality(WorkedOff) < Len(AbsSent) /\ Cardinality(WorkedOff)' = Cardinality(WorkedOff) + 1
       /\ Cardinality(WorkedOff) + 1 = j
  BY <1>4, <1>7, <1>8, <1>9, Lengths
<1>11. AbsSent[j].opcode = memory[0]
  BY <1>3, <1>9 DEF HeaderIs
<1>12. CASE memory[0] # handshake_hello
  <2>1. AbsOut' = AbsOut
    BY <1>5, <1>12 DEF AbsOut, Received
  <2> QED BY <1>9, <1>10, <1>11, <1>12, <2>1
<1>13. CASE memory[0] = handshake_hello
  <2> DEFINE L == Len(queries)
             Copies == {Received(q) : q \in Query \cup {Parsed(mem)}}
  <2>1. queries \in Seq(Query) /\ queries' = Append(queries, Parsed(mem)) /\ L \in Nat
    BY <1>5, <1>13 DEF Typed, TypeOK, Query
  <2>2. /\ Len(queries') = L + 1 /\ queries'[L + 1] = Parsed(mem)
        /\ \A k \in 1 .. L : queries'[k] = queries[k]
    <3> HIDE DEF mem
    <3> QED BY <2>1
  <2>3. \A k \in 1 .. L : queries[k] \in Query
    BY <2>1
  <2> HIDE DEF mem
  <2>4. AbsOut' = [k \in 1 .. L + 1 |-> Received(queries'[k])]
    BY <2>2 DEF AbsOut, Received
  <2>5. AbsOut = [k \in 1 .. L |-> Received(queries[k])]
    BY DEF AbsOut
  <2>6. Received(Parsed(mem)) = AbsSent[j]
    BY <1>2, <1>3, <1>5, <1>9, CopiedWhole DEF mem
  <2>7. \A k \in 1 .. L : Received(queries[k]) \in Copies
    BY <2>3
  <2>8. Received(Parsed(mem)) \in Copies
    OBVIOUS
  <2> HIDE DEF Copies
  <2>9. \A k \in 1 .. L + 1 : (k \in 1 .. L /\ queries'[k] = queries[k])
          \/ (k = L + 1 /\ queries'[k] = Parsed(mem))
    BY <2>1, <2>2
  <2>10. AbsOut \in Seq(Copies) /\ Len(AbsOut) = L
    <3>1. AbsOut \in [1 .. L -> Copies]
      BY <2>5, <2>7
    <3> HIDE DEF L
    <3> QED BY <2>1, <3>1, SeqDef
  <2>11. AbsOut' \in Seq(Copies) /\ Len(AbsOut') = L + 1
    <3>1. AbsOut' \in [1 .. L + 1 -> Copies]
      BY <2>4, <2>7, <2>8, <2>9
    <3> HIDE DEF L
    <3>2. L + 1 \in Nat
      BY <2>1
    <3> QED BY <3>1, <3>2, SeqDef
  <2> DEFINE A == Append(AbsOut, Received(Parsed(mem)))
  <2> HIDE DEF L
  <2>12. /\ A \in Seq(Copies) /\ Len(A) = L + 1 /\ A[L + 1] = Received(Parsed(mem))
         /\ \A k \in 1 .. L : A[k] = AbsOut[k]
    BY <2>8, <2>10, AppendProperties
  <2> HIDE DEF A
  <2>13. ASSUME NEW k \in 1 .. L + 1 PROVE AbsOut'[k] = A[k]
    <3>1. CASE k \in 1 .. L /\ queries'[k] = queries[k]
      BY <2>4, <2>5, <2>12, <3>1
    <3>2. CASE k = L + 1 /\ queries'[k] = Parsed(mem)
      BY <2>4, <2>12, <3>2
    <3> QED BY <2>9, <3>1, <3>2
  <2>14. AbsOut' = A
    BY <2>11, <2>12, <2>13, SeqEqual
  <2>15. AbsOut' = Append(AbsOut, AbsSent[j])
    BY <2>6, <2>14 DEF A
  <2> QED BY <1>9, <1>10, <1>11, <1>13, <2>15
<1> QED BY <1>12, <1>13

\* A new session is a new abstract stream.
LEMMA FreshStream ==
  ASSUME Init PROVE MS!Init
<1>1. sent = <<>> /\ queries = <<>> /\ cuts = {} /\ overrun = FALSE /\ Len(<<>>) = 0
  BY DEF Init
<1>2. AllWellFormed
  BY <1>1 DEF AllWellFormed
<1>3. Faulted = FALSE
  BY <1>1, <1>2 DEF Faulted
<1>4. WorkedOff = {}
  BY <1>1 DEF WorkedOff
<1>5. Cardinality(WorkedOff) = 0
  BY <1>4, FS_EmptySet
<1>6. AbsSent = <<>> /\ AbsOut = <<>>
  BY <1>1 DEF AbsSent, AbsOut
<1> QED BY <1>3, <1>5, <1>6 DEF MS!Init, AbsSent, AbsOut

\* Every step works off one message, takes one in, is a fault, or does not show.
LEMMA StreamStep == IInv /\ Whole /\ [Next]_vars => [MS!Next]_(MS!vars)
<1> SUFFICES ASSUME IInv, Whole, [Next]_vars PROVE MS!Next \/ UNCHANGED MS!vars
  OBVIOUS
<1>1. Typed /\ Staged /\ Placed
  BY DEF IInv
<1>2. Typed'
  BY <1>1, TypedStep
<1>3. CASE Faulted'
  <2>1. AbsSent' \in Seq(Messages) /\ Cardinality(WorkedOff)' \in Nat
    BY <1>2, AbsTypedNext
  <2>2. Faulted' = TRUE
    BY <1>3 DEF Faulted
  <2>3. MS!Fault
    BY <2>1, <2>2 DEF MS!Fault, AbsSent
  <2> QED BY <2>3 DEF MS!Next
<1>4. CASE ~Faulted'
  <2>1. ~Faulted /\ Sound
    BY <1>1, <1>4, NoFaultBefore
  <2>2. Faulted' = Faulted
    <3>1. Faulted \in BOOLEAN /\ Faulted' \in BOOLEAN
      BY DEF Faulted
    <3> QED BY <1>4, <2>1, <3>1
  <2>3. InPhase /\ Handed
    BY <2>1 DEF IInv, Followed
  <2>4. ASSUME UNCHANGED <<sent, queries>>, Base' = Base PROVE UNCHANGED MS!vars
    BY <2>2, <2>4, Unseen DEF MS!vars, AbsSent, AbsOut
  <2>5. ASSUME NEW m \in Messages, Send(m) PROVE MS!Next
    <3>1. MS!Send(m)
      BY <1>1, <1>2, <2>2, <2>3, <2>5, SendSeen DEF MS!Send, AbsSent, AbsOut
    <3> QED BY <3>1 DEF MS!Next
  <2>6. ASSUME NEW n \in 1 .. BufferSize, OnDataReceived(n) PROVE UNCHANGED MS!vars
    <3>1. UNCHANGED <<sent, queries, bytes_in>> /\ Pos' = Pos
      BY <1>1, <2>6, ReceiveEffect, ReceivePlaced
    <3> QED BY <2>4, <3>1 DEF Base
  <2>7. CASE OnReadFailed \/ UNCHANGED vars
    <3>1. UNCHANGED <<sent, queries, bytes_in, taken, buffer>>
      BY <2>7 DEF OnReadFailed, vars
    <3> QED BY <2>4, <3>1 DEF Base, Pos
  <2>8. CASE HeaderPart
    <3>1. UNCHANGED <<sent, queries>> /\ Base' = Base
      BY <1>1, <2>8, KeptBase, HeaderPartEffect DEF Kept
    <3> QED BY <2>4, <3>1
  <2>9. CASE DataPart
    <3>1. UNCHANGED <<sent, queries>> /\ Base' = Base
      BY <1>1, <2>9, KeptBase, DataPartEffect DEF Kept
    <3> QED BY <2>4, <3>1
  <2>10. CASE HeaderWhole
    <3>1. UNCHANGED <<sent, queries>> /\ Base' = Base
      BY <1>1, <2>1, <2>3, <2>10, HeaderWholeFollowed, HeaderWholeEffect
    <3> QED BY <2>4, <3>1
  <2>11. CASE DataWhole
    <3>1. MS!Work
      BY <1>1, <2>1, <2>2, <2>3, <2>11, WorkSeen DEF MS!Work, AbsSent, AbsOut
    <3> QED BY <3>1 DEF MS!Next
  <2> QED BY <2>5, <2>6, <2>7, <2>8, <2>9, <2>10, <2>11 DEF Next, Receive, Processing
<1> QED BY <1>3, <1>4

\* gateway.cpp:133-252: until a fault, the two processing functions calling each other on one
\* buffer are a queue that works off one message at a time and hands over each hello as sent.
THEOREM StreamImplementsMessages == Spec => ImplementsMessageStream
<1>1. Init => IInv /\ Whole /\ MS!Init
  BY InitInv, FreshStream DEF Init, Whole
<1>2. IInv /\ Whole /\ [Next]_vars => (IInv /\ Whole)'
  BY NextInv, WholeStep
<1> QED BY <1>1, <1>2, StreamStep, PTL DEF Spec, ImplementsMessageStream, MS!Spec

-----------------------------------------------------------------------------
(* Nothing but hellos is handed over, also out of step                     *)

NoCut == cuts = {} /\ ~overrun

\* Behind a header there is nothing in msgbuf_in, or, before anything was read, what
\* the allocator left there.
Empty(mem, p) ==
  \A k \in 1 .. DataMax : mem[HeaderSize + k - 1] \in IF p = 0 THEN {0, Garbage} ELSE {0}

\* The header in msgbuf_in is a hello's only when it is one's that was sent.
OwnHeader ==
  /\ state = "read_header" /\ bytes_in = 0 => Empty(memory, Pos)
  /\ state = "read_header" /\ bytes_in # 0 => memory[0] # handshake_hello \/ memory[1] > DataMax
  /\ state = "read_data" /\ memory[0] = handshake_hello =>
       /\ bytes_in = HeaderSize /\ Empty(memory, Base)
       /\ \E j \in Hellos : sent[j].at = Base /\ HeaderIs(memory, sent[j].msg)

\* The queries so far are messages that are worked off.
Known ==
  /\ Len(queries) <= Cardinality(Worked)
  /\ \A k \in 1 .. Len(queries) : \E j \in Worked : Shows(queries[k], sent[j])

Strict == NoCut => OwnHeader /\ Known

\* Where a header with a hello's opcode can begin.
LEMMA HelloAhead ==
  ASSUME Typed, Placed, OpcodesStandOut, "header" \notin cuts,
         Len(buffer) # 0, buffer[1] = handshake_hello
  PROVE  Starts(Pos) \/ (Len(buffer) >= 2 /\ buffer[2] > DataMax)
<1>1. /\ Len(buffer) \in Nat /\ taken \in Nat /\ Pos \in Nat /\ Total \in Nat /\ taken <= Total
      /\ Pos = taken - Len(buffer) /\ Pos < taken
  BY Lengths DEF Pos
<1>2. Pos \in 0 .. Total - 1
  BY <1>1
<1>3. PICK j \in 1 .. Len(sent) : sent[j].at <= Pos /\ Pos < EndOf(sent[j])
  BY <1>2 DEF Placed, LaidOut
<1> DEFINE m == sent[j].msg
           b == m.block_size
           k == Pos - sent[j].at + 1
<1>4. /\ m \in Messages /\ sent[j].at \in Nat /\ b \in Nat /\ EndOf(sent[j]) = sent[j].at + 3 + b
  BY EntryTyped
<1>5. /\ to_binary(m)[1] = m.opcode /\ to_binary(m)[2] = b /\ to_binary(m)[3] = m.message_id
      /\ \A i \in 1 .. b : to_binary(m)[HeaderSize + i] = m.data[i]
      /\ Len(m.data) = b
  BY <1>4, Written
<1>6. k \in 1 .. HeaderSize + b
  <2>1. b \in Nat /\ HeaderSize = 3
    BY <1>4
  <2> HIDE DEF b
  <2>2. ASSUME NEW x \in Nat, x <= Pos, Pos < x + 3 + b PROVE Pos - x + 1 \in 1 .. 3 + b
    BY <1>1, <2>1, <2>2
  <2> HIDE DEF k
  <2>3. k \in 1 .. 3 + b
    BY <1>3, <1>4, <2>2 DEF k
  <2> QED BY <2>1, <2>3
<1>7. ASSUME NEW i \in Nat, i >= 1, i <= Len(buffer), k + i - 1 <= HeaderSize + b
      PROVE  buffer[i] = to_binary(m)[k + i - 1]
  <2> DEFINE p == sent[j].at + (k + i - 1) - 1
  <2>1. k + i - 1 \in 1 .. HeaderSize + sent[j].msg.block_size
    <3>1. k \in Nat /\ k >= 1
      BY <1>4, <1>6
    <3> QED BY <1>4, <1>7, <3>1
  <2>2. p >= Pos /\ p < taken /\ p - (taken - Len(buffer)) + 1 = i
    <3>1. p = Pos + i - 1
      BY <1>1, <1>4, <1>7, SMTT(30)
    <3> HIDE DEF p
    <3> QED BY <1>1, <1>7, <3>1
  <2>3. At(buffer, wire, taken, p) = to_binary(m)[k + i - 1]
    BY <2>1, <2>2, CellOf
  <2> HIDE DEF p
  <2>4. At(buffer, wire, taken, p) = buffer[i]
    BY <2>2 DEF At
  <2> QED BY <2>3, <2>4
<1>8. buffer[1] = to_binary(m)[k]
  <2>1. k + 1 - 1 = k /\ k <= HeaderSize + b
    BY <1>1, <1>4, <1>6
  <2>2. 1 \in Nat /\ 1 >= 1 /\ 1 <= Len(buffer)
    BY <1>1
  <2> HIDE DEF k
  <2>3. buffer[1] = to_binary(m)[k + 1 - 1]
    BY <1>7, <2>1, <2>2
  <2> QED BY <2>1, <2>3
<1>9. CASE k = 1
  <2>1. sent[j].at = Pos
    BY <1>1, <1>4, <1>9, SMTT(30)
  <2> QED BY <2>1 DEF Starts
<1>10. CASE k = 2
  <2>1. b = handshake_hello
    BY <1>5, <1>8, <1>10
  <2>2. m.message_id > DataMax
    BY <1>4, <2>1 DEF OpcodesStandOut
  <2>3. Pos = sent[j].at + 1
    BY <1>1, <1>4, <1>10, SMTT(30)
  <2>4. ASSUME Len(buffer) < 2 PROVE FALSE
    <3>1. sent[j].at < taken /\ taken < sent[j].at + HeaderSize
      BY <1>1, <1>4, <2>3, <2>4
    <3> QED BY <3>1 DEF Placed, CutsKnown
  <2>5. Len(buffer) >= 2
    BY <1>1, <2>4
  <2>6. k + 2 - 1 = 3 /\ 3 <= HeaderSize + b
    BY <1>4, <1>10
  <2> HIDE DEF k, b
  <2>7. buffer[2] = to_binary(m)[3]
    BY <1>7, <2>5, <2>6
  <2> QED BY <1>5, <2>2, <2>5, <2>7
<1>11. CASE k = 3
  <2>1. m.message_id = handshake_hello
    BY <1>5, <1>8, <1>11
  <2> QED BY <1>4, <2>1 DEF OpcodesStandOut
<1>12. CASE k > 3
  <2> DEFINE i == k - 3
  <2>1. i \in 1 .. b /\ k = HeaderSize + i
    <3> HIDE DEF b, k
    <3> QED BY <1>4, <1>6, <1>12
  <2> HIDE DEF i, k
  <2>2. m.data[i] = handshake_hello
    BY <1>5, <1>8, <2>1
  <2>3. i \in 1 .. Len(m.data)
    BY <1>5, <2>1
  <2> QED BY <1>4, <2>2, <2>3 DEF OpcodesStandOut
<1>13. k = 1 \/ k = 2 \/ k = 3 \/ k > 3
  <2> HIDE DEF b, k
  <2> QED BY <1>4, <1>6
<1> QED BY <1>9, <1>10, <1>11, <1>12, <1>13

\* The cells of the header that are written first.
LEMMA FirstCells ==
  ASSUME Typed, NEW n \in 0 .. Len(buffer), n <= HeaderSize
  PROVE  /\ Moved(0, n) \in [Addresses -> Nat]
         /\ n >= 1 => Moved(0, n)[0] = buffer[1]
         /\ n >= 2 => Moved(0, n)[1] = buffer[2]
         /\ n >= 3 => Moved(0, n)[2] = buffer[3]
         /\ n = 0 => Moved(0, n) = memory
         /\ \A k \in 1 .. DataMax : Moved(0, n)[HeaderSize + k - 1] = memory[HeaderSize + k - 1]
<1>1. n \in Nat
  BY Lengths
<1>2. /\ Moved(0, n) \in [Addresses -> Nat]
      /\ n = 0 => Moved(0, n) = memory
      /\ \A a \in Addresses : Moved(0, n)[a] =
           IF 0 <= a /\ a < 0 + n THEN buffer[a - 0 + 1] ELSE memory[a]
  <2>1. 0 \in Nat /\ 0 + n <= HeaderSize + DataMax
    BY <1>1
  <2> QED BY <2>1, MovedCells
<1>3. 0 \in Addresses /\ 1 \in Addresses /\ 2 \in Addresses
  BY DEF Addresses
<1>4. ASSUME NEW k \in 1 .. DataMax PROVE Moved(0, n)[HeaderSize + k - 1] = memory[HeaderSize + k - 1]
  <2> DEFINE a == HeaderSize + k - 1
  <2>1. a \in Addresses /\ ~(a < 0 + n)
    BY <1>1 DEF Addresses
  <2> HIDE DEF a
  <2> QED BY <1>2, <2>1 DEF a
<1>5. n >= 1 => Moved(0, n)[0] = buffer[1]
  <2>1. n >= 1 => 0 < 0 + n
    BY <1>1
  <2> QED BY <1>2, <1>3, <2>1
<1>6. n >= 2 => Moved(0, n)[1] = buffer[2]
  <2>1. n >= 2 => 1 < 0 + n
    BY <1>1
  <2> QED BY <1>2, <1>3, <2>1
<1>7. n >= 3 => Moved(0, n)[2] = buffer[3]
  <2>1. n >= 3 => 2 < 0 + n
    BY <1>1
  <2> QED BY <1>2, <1>3, <2>1
<1> QED BY <1>2, <1>4, <1>5, <1>6, <1>7

\* No cut is ever forgotten.
LEMMA NoCutBefore ==
  ASSUME Typed, Staged, [Next]_vars, NoCut' PROVE NoCut
<1>1. ASSUME NEW m \in Messages, Send(m) PROVE NoCut
  BY <1>1, SendEffect DEF NoCut
<1>2. ASSUME NEW n \in 1 .. BufferSize, OnDataReceived(n) PROVE NoCut
  BY <1>2, ReceiveEffect DEF NoCut
<1>3. CASE OnReadFailed \/ UNCHANGED vars
  BY <1>3 DEF OnReadFailed, vars, NoCut
<1>4. CASE HeaderPart
  BY <1>4, HeaderPartEffect DEF Kept, NoCut
<1>5. CASE DataPart
  BY <1>5, DataPartEffect DEF Kept, NoCut
<1>6. CASE HeaderWhole
  BY <1>6, HeaderWholeEffect DEF NoCut
<1>7. CASE DataWhole
  BY <1>7, DataWholeEffect DEF NoCut
<1> QED BY <1>1, <1>2, <1>3, <1>4, <1>5, <1>6, <1>7 DEF Next, Receive, Processing

\* What was worked off stays so, while the base moves on.
LEMMA KnownKeeps ==
  ASSUME Typed, Typed', Known, queries' = queries, Base' \in Int, Base \in Int, Base <= Base',
         Len(sent) <= Len(sent'), \A j \in 1 .. Len(sent) : sent'[j] = sent[j]
  PROVE  Known' /\ Worked \subseteq Worked'
<1>1. Len(sent) \in Nat /\ Len(sent') \in Nat
  BY DEF Typed
<1>2. ASSUME NEW j \in Worked PROVE j \in Worked'
  <2>1. j \in 1 .. Len(sent) /\ sent[j].msg.opcode = handshake_hello /\ EndOf(sent[j]) <= Base
    BY DEF Worked, Hellos
  <2>2. EndOf(sent[j]) \in Int
    BY <2>1, EntryTyped
  <2>3. j \in 1 .. Len(sent') /\ sent'[j] = sent[j] /\ EndOf(sent[j]) <= Base'
    BY <1>1, <2>1, <2>2
  <2> QED BY <2>1, <2>3 DEF Worked, Hellos, EndOf
<1>3. Worked \subseteq Worked'
  BY <1>2
<1>4. Worked' \subseteq 1 .. Len(sent')
  BY DEF Worked, Hellos
<1>5. IsFiniteSet(Worked') /\ IsFiniteSet(Worked) /\ Cardinality(Worked) <= Cardinality(Worked')
      /\ Cardinality(Worked) \in Nat /\ Cardinality(Worked') \in Nat
  <2>1. IsFiniteSet(1 .. Len(sent'))
    BY <1>1, FS_Interval
  <2>2. IsFiniteSet(Worked')
    BY <1>4, <2>1, FS_Subset
  <2> QED BY <1>3, <2>2, FS_Subset, FS_CardinalityType
<1>6. Len(queries) \in Nat
  BY DEF Typed, TypeOK
<1>7. Len(queries') <= Cardinality(Worked')
  BY <1>5, <1>6 DEF Known
<1>8. ASSUME NEW k \in 1 .. Len(queries') PROVE \E j \in Worked' : Shows(queries'[k], sent'[j])
  <2>1. PICK j \in Worked : Shows(queries[k], sent[j])
    BY <1>8 DEF Known
  <2>2. j \in Worked' /\ sent'[j] = sent[j]
    BY <1>3 DEF Worked, Hellos
  <2> QED BY <2>1, <2>2
<1> QED BY <1>3, <1>7, <1>8 DEF Known, Shows, SameHeader

\* A copy of msgbuf_in with the hello's header and data, and nothing behind, shows it.
LEMMA CopyShows ==
  ASSUME Typed, Staged, Placed, NEW j \in 1 .. Len(sent), sent[j].at = Base, bytes_in = HeaderSize,
         HeaderIs(memory, sent[j].msg), Empty(memory, Base), sent[j].msg.block_size <= DataMax,
         sent[j].msg.block_size <= Len(buffer)
  PROVE  Shows(Parsed(Moved(HeaderSize, sent[j].msg.block_size)), sent[j])
<1> DEFINE m == sent[j].msg
           b == m.block_size
           mem == Moved(HeaderSize, b)
           q == Parsed(mem)
<1>1. /\ m \in Messages /\ sent[j].at \in Nat /\ b \in Nat /\ m.data \in Seq(Nat) /\ Len(m.data) = b
  BY EntryTyped, Written
<1>2. Received(q) = m
  BY CopiedWhole
<1>3. q.opcode = m.opcode /\ q.block_size = b /\ q.message_id = m.message_id
  <2> HIDE DEF q, m
  <2>1. Received(q).opcode = q.opcode /\ Received(q).block_size = q.block_size
        /\ Received(q).message_id = q.message_id
    BY DEF Received
  <2> QED BY <1>2, <2>1
<1>4. SubSeq(q.data_section, 1, b) = m.data
  <2> HIDE DEF q, m, b
  <2>1. Received(q).data = SubSeq(q.data_section, 1, q.block_size)
    BY DEF Received
  <2> QED BY <1>2, <1>3, <2>1
<1>5. \A k \in 1 .. DataMax : q.data_section[k] = mem[HeaderSize + k - 1]
  BY DEF Parsed
<1>6. \A a \in Addresses : mem[a] = IF HeaderSize <= a /\ a < HeaderSize + b
        THEN buffer[a - HeaderSize + 1] ELSE memory[a]
  <2>1. HeaderSize \in Nat /\ b \in 0 .. Len(buffer) /\ HeaderSize + b <= HeaderSize + DataMax
    BY <1>1, Lengths
  <2> HIDE DEF b
  <2> QED BY <2>1, MovedCells
<1>7. mem \in [Addresses -> Nat]
  <2>1. HeaderSize \in Nat /\ b \in 0 .. Len(buffer)
    BY <1>1, Lengths
  <2> HIDE DEF b
  <2> QED BY <2>1, MovedCells
<1>8. b \in Nat /\ b <= DataMax
  BY <1>1
<1> HIDE DEF q, mem, b
<1>9. ASSUME NEW k \in 1 .. DataMax, k <= b PROVE q.data_section[k] = m.data[k]
  <2>1. k \in 1 .. b
    BY <1>8, <1>9
  <2>2. \A i \in 1 .. b : q.data_section[i] \in Nat
    <3>1. \A i \in 1 .. DataMax : HeaderSize + i - 1 \in Addresses
      BY DEF Addresses
    <3>2. \A i \in 1 .. b : i \in 1 .. DataMax
      BY <1>8
    <3> QED BY <1>5, <1>7, <3>1, <3>2
  <2> DEFINE ds == q.data_section
  <2> HIDE DEF ds
  <2>3. \A i \in 1 .. b - 1 + 1 : SubSeq(ds, 1, b)[i] = ds[1 + i - 1]
    <3>1. \A i \in 1 .. b : ds[i] \in Nat
      BY <2>2 DEF ds
    <3>2. 1 \in Int /\ b \in Int
      BY <1>8
    <3> QED BY <3>1, <3>2, SubSeqProperties
  <2>4. k \in 1 .. b - 1 + 1 /\ 1 + k - 1 = k
    BY <1>8, <2>1
  <2>5. SubSeq(ds, 1, b)[k] = ds[k]
    BY <2>3, <2>4
  <2> QED BY <1>4, <2>5 DEF ds
<1>10. ASSUME NEW k \in 1 .. DataMax, ~(k <= b)
       PROVE  q.data_section[k] \in IF sent[j].at = 0 THEN {0, Garbage} ELSE {0}
  <2> DEFINE a == HeaderSize + k - 1
  <2>1. a \in Addresses /\ ~(a < HeaderSize + b)
    BY <1>8, <1>10 DEF Addresses
  <2>2. q.data_section[k] = mem[a]
    BY <1>5
  <2>3. memory[a] \in IF sent[j].at = 0 THEN {0, Garbage} ELSE {0}
    BY DEF Empty
  <2> HIDE DEF a
  <2>4. mem[a] = memory[a]
    BY <1>6, <2>1
  <2> QED BY <2>2, <2>3, <2>4
<1>11. SameHeader(q, m)
  BY <1>3 DEF SameHeader, b
<1>12. Shows(q, sent[j])
  BY <1>9, <1>10, <1>11 DEF Shows, b
<1> QED BY <1>12 DEF q, mem, b

\* A part of a header: what looks like a hello's opcode lies before a message id.
LEMMA HeaderPartStrict ==
  ASSUME Typed, Staged, Placed, OpcodesStandOut, NoCut, OwnHeader, Known, HeaderPart
  PROVE  OwnHeader' /\ Known'
<1> DEFINE n == Len(buffer)
<1>1. /\ state = "read_header" /\ state' = "read_header" /\ bytes_in' < HeaderSize
      /\ bytes_in' = bytes_in + n /\ UNCHANGED <<sent, wire, taken, queries, cuts>>
      /\ memory' = Moved(3 * bytes_in, n)
  BY HeaderPartEffect DEF Kept
<1>2. n \in Nat /\ bytes_in \in Nat /\ memory[0] \in Nat /\ memory[1] \in Nat
  <2>1. 0 \in Addresses /\ 1 \in Addresses
    BY DEF Addresses
  <2> QED BY <2>1, Lengths DEF Typed, TypeOK
<1>3. Base' = Base /\ Pos' = Pos + n /\ Base \in Int
  <2>1. Dropped(n) /\ Base' = Base
    BY HeaderPartEffect, KeptDrops, KeptBase
  <2> QED BY <1>1, <2>1, DropPlaced, Lengths DEF Base
<1>4. Known'
  <2>1. Typed'
    BY TypedStep DEF Next, Processing
  <2>2. Len(sent) \in Nat /\ Base <= Base'
    BY <1>3, Lengths
  <2> QED BY <1>1, <1>3, <2>1, <2>2, KnownKeeps
<1>5. CASE bytes_in # 0
  <2>1. memory'[0] = memory[0] /\ memory'[1] = memory[1]
    <3>1. 3 * bytes_in \in Nat /\ n \in 0 .. Len(buffer) /\ 0 < 3 * bytes_in /\ 1 < 3 * bytes_in
      BY <1>2, <1>5
    <3>2. 0 \in Addresses /\ 1 \in Addresses
      BY DEF Addresses
    <3> HIDE DEF n
    <3> QED BY <1>1, <3>1, <3>2, MovedCells
  <2>2. bytes_in' # 0
    BY <1>1, <1>2, <1>5
  <2>3. OwnHeader'
    BY <1>1, <1>5, <2>1, <2>2 DEF OwnHeader
  <2> QED BY <1>4, <2>3
<1>6. CASE bytes_in = 0
  <2>1. memory' = Moved(0, n) /\ bytes_in' = n /\ n < HeaderSize
    <3>1. 3 * bytes_in = 0
      BY <1>6
    <3> QED BY <1>1, <1>2, <1>6, <3>1
  <2>2. n \in 0 .. Len(buffer) /\ n <= HeaderSize
    BY <1>2, <2>1
  <2>3. CASE n = 0
    <3>1. memory' = memory /\ Pos' = Pos /\ bytes_in' = bytes_in
      BY <1>3, <1>2, <1>6, <2>1, <2>2, <2>3, FirstCells, Lengths
    <3> QED BY <1>1, <1>4, <1>6, <3>1 DEF OwnHeader, Empty
  <2>4. CASE n # 0 /\ memory'[0] = handshake_hello
    <3>1. n >= 1 /\ buffer[1] = handshake_hello
      BY <1>2, <2>1, <2>2, <2>4, FirstCells
    <3>2. "header" \notin cuts
      BY DEF NoCut
    <3>3. ~Starts(Pos)
      <4>1. ASSUME Starts(Pos) PROVE FALSE
        <5>1. Len(buffer) >= HeaderSize
          BY <2>4, <3>2, <4>1, HeaderAhead
        <5> QED BY <1>2, <2>1, <5>1
      <4> QED BY <4>1
    <3>4. n >= 2 /\ buffer[2] > DataMax
      BY <2>4, <3>1, <3>2, <3>3, HelloAhead
    <3>5. memory'[1] > DataMax
      BY <2>1, <2>2, <3>4, FirstCells
    <3> QED BY <1>1, <1>4, <2>1, <2>4, <3>5 DEF OwnHeader
  <2>5. CASE n # 0 /\ memory'[0] # handshake_hello
    BY <1>1, <1>4, <2>1, <2>5 DEF OwnHeader
  <2> QED BY <2>3, <2>4, <2>5
<1> QED BY <1>5, <1>6

\* A whole header: a valid one with a hello's opcode is a hello's.
LEMMA HeaderWholeStrict ==
  ASSUME Typed, Staged, Placed, OpcodesStandOut, NoCut, OwnHeader, Known, HeaderWhole
  PROVE  OwnHeader' /\ Known'
<1> DEFINE n   == HeaderSize - bytes_in
           mem == Moved(3 * bytes_in, n)
<1>1. /\ state = "read_header" /\ bytes_in < HeaderSize /\ Dropped(n)
      /\ UNCHANGED <<sent, wire, taken, queries, cuts>>
      /\ mem \in [Addresses -> Nat]
      /\ \/ /\ validate_header(mem) /\ memory' = mem /\ bytes_in' = HeaderSize
            /\ state' = "read_data"
         \/ /\ ~validate_header(mem) /\ memory' = Cleared /\ bytes_in' = 0
            /\ state' = state \/ state' = "read_data"
  BY HeaderWholeEffect
<1>2. bytes_in \in Nat /\ n \in Nat /\ n <= Len(buffer) /\ Len(buffer) \in Nat
  BY <1>1, Lengths DEF Dropped
<1>3. Pos' = Pos + n /\ Total' = Total
  BY <1>1, DropPlaced
<1>4. Base \in Int /\ Base' \in Int /\ Base <= Base' /\ (bytes_in' = HeaderSize => Base' = Base)
  <2>1. Base = Pos - bytes_in /\ Base' = Pos' - bytes_in' /\ Pos \in Nat
    BY Lengths DEF Base
  <2>2. CASE bytes_in' = HeaderSize
    BY <1>2, <1>3, <2>1, <2>2
  <2>3. CASE bytes_in' = 0
    BY <1>2, <1>3, <2>1, <2>3
  <2> QED BY <1>1, <2>2, <2>3
<1>5. Known'
  <2>1. Typed'
    BY TypedStep DEF Next, Processing
  <2>2. Len(sent) \in Nat
    BY Lengths
  <2> QED BY <1>1, <1>4, <2>1, <2>2, KnownKeeps
<1>6. 0 \in Addresses /\ 1 \in Addresses /\ 2 \in Addresses
  BY DEF Addresses
<1>7. CASE ~validate_header(mem)
  <2>1. memory' = Cleared /\ bytes_in' = 0
    BY <1>1, <1>7
  <2>2. \A k \in 1 .. DataMax : Cleared[HeaderSize + k - 1] = 0
    <3>1. \A k \in 1 .. DataMax : HeaderSize + k - 1 \in Addresses
      BY DEF Addresses
    <3> QED BY <3>1 DEF Cleared
  <2>3. memory'[0] # handshake_hello
    BY <2>1, ClearedTyped
  <2>4. \A p : Empty(Cleared, p)
    BY <2>2 DEF Empty
  <2>5. Empty(memory', Pos')
    BY <2>1, <2>4
  <2> QED BY <1>5, <2>1, <2>3, <2>5 DEF OwnHeader
<1>8. CASE validate_header(mem)
  <2>1. memory' = mem /\ bytes_in' = HeaderSize /\ state' = "read_data" /\ mem[1] <= DataMax /\ mem[1] \in Nat
    BY <1>1, <1>6, <1>8 DEF validate_header
  <2>2. CASE mem[0] # handshake_hello
    BY <1>5, <2>1, <2>2 DEF OwnHeader
  <2>3. CASE mem[0] = handshake_hello
    <3>1. bytes_in = 0
      <4>1. ASSUME bytes_in # 0 PROVE FALSE
        <5>1. 3 * bytes_in \in Nat /\ n \in 0 .. Len(buffer) /\ 0 < 3 * bytes_in /\ 1 < 3 * bytes_in
          BY <1>2, <4>1
        <5> HIDE DEF n
        <5>2. mem[0] = memory[0] /\ mem[1] = memory[1]
          BY <1>6, <5>1, MovedCells
        <5>3. memory[0] # handshake_hello \/ memory[1] > DataMax
          BY <1>1, <4>1 DEF OwnHeader
        <5> HIDE DEF mem
        <5> QED BY <2>1, <2>3, <5>2, <5>3
      <4> QED BY <4>1
    <3>2. mem = Moved(0, 3) /\ 3 \in 0 .. Len(buffer) /\ Len(buffer) # 0
      <4>1. n = 3 /\ 3 * bytes_in = 0
        BY <3>1
      <4> QED BY <1>2, <4>1
    <3> HIDE DEF mem
    <3>3. /\ mem[0] = buffer[1] /\ mem[1] = buffer[2] /\ mem[2] = buffer[3]
          /\ \A k \in 1 .. DataMax : mem[HeaderSize + k - 1] = memory[HeaderSize + k - 1]
      BY <3>2, FirstCells
    <3>4. "header" \notin cuts
      BY DEF NoCut
    <3>5. Starts(Pos)
      <4>1. Starts(Pos) \/ buffer[2] > DataMax
        BY <2>3, <3>2, <3>3, <3>4, HelloAhead
      <4> QED BY <2>1, <3>3, <4>1
    <3>6. PICK j \in 1 .. Len(sent) :
            /\ sent[j].at = Pos
            /\ buffer[1] = sent[j].msg.opcode /\ buffer[2] = sent[j].msg.block_size
            /\ buffer[3] = sent[j].msg.message_id
      BY <3>2, <3>4, <3>5, HeaderAhead
    <3>7. Base = Pos /\ Base' = Pos
      BY <1>4, <2>1, <3>1, Lengths DEF Base
    <3>8. j \in Hellos' /\ sent'[j].at = Base' /\ HeaderIs(memory', sent'[j].msg)
      BY <1>1, <2>1, <2>3, <3>3, <3>6, <3>7 DEF Hellos, HeaderIs
    <3>9. Empty(memory', Base')
      <4>1. Empty(memory, Pos)
        BY <1>1, <3>1 DEF OwnHeader
      <4> QED BY <2>1, <3>3, <3>7, <4>1 DEF Empty
    <3>10. OwnHeader'
      BY <2>1, <3>8, <3>9 DEF OwnHeader
    <3> QED BY <1>5, <3>10
  <2> QED BY <2>2, <2>3
<1> QED BY <1>7, <1>8

\* A part of the data: of a hello's, none.
LEMMA DataPartStrict ==
  ASSUME Typed, Staged, Placed, NoCut, OwnHeader, Known, DataPart
  PROVE  OwnHeader' /\ Known'
<1>1. /\ state = "read_data" /\ state' = "read_data" /\ UNCHANGED <<sent, wire, taken, queries, cuts>>
      /\ bytes_in' = bytes_in + Len(buffer) /\ memory'[0] = memory[0]
  <2>1. 0 \in Addresses /\ 0 < HeaderSize
    BY DEF Addresses
  <2> QED BY <2>1, DataPartEffect DEF Kept
<1>2. Base' = Base /\ Base \in Int
  BY DataPartEffect, KeptBase, Lengths DEF Base
<1>3. Known'
  <2>1. Typed'
    BY TypedStep DEF Next, Processing
  <2>2. Len(sent) \in Nat /\ Base <= Base'
    BY <1>2, Lengths
  <2> QED BY <1>1, <1>2, <2>1, <2>2, KnownKeeps
<1>4. CASE memory[0] # handshake_hello
  BY <1>1, <1>3, <1>4 DEF OwnHeader
<1>5. CASE memory[0] = handshake_hello
  <2>1. /\ bytes_in = HeaderSize /\ Empty(memory, Base)
        /\ \E j \in Hellos : sent[j].at = Base /\ HeaderIs(memory, sent[j].msg)
    BY <1>1, <1>5 DEF OwnHeader
  <2>2. PICK j \in 1 .. Len(sent) : sent[j].at = Base /\ HeaderIs(memory, sent[j].msg)
    BY <2>1 DEF Hellos
  <2>3. Len(buffer) = 0
    BY <1>1, <2>1, <2>2, NoneOfTheData DEF NoCut
  <2>4. memory' = memory /\ bytes_in' = bytes_in
    BY <1>1, <2>3, DataPartEffect, Lengths
  <2>5. Hellos' = Hellos
    BY <1>1 DEF Hellos
  <2>6. OwnHeader'
    BY <1>1, <1>2, <2>1, <2>4, <2>5 DEF OwnHeader, Empty
  <2> QED BY <1>3, <2>6
<1> QED BY <1>4, <1>5

\* All of the data: the copy that is handed over shows the hello it belongs to.
LEMMA DataWholeStrict ==
  ASSUME Typed, Staged, Placed, NoCut, OwnHeader, Known, DataWhole
  PROVE  OwnHeader' /\ Known'
<1> DEFINE n   == remaining_data_size
           mem == Moved(HeaderSize, n)
<1>1. /\ Dropped(n) /\ state = "read_data" /\ bytes_in' = 0 /\ state' = "read_header" /\ memory' = Cleared
      /\ UNCHANGED <<sent, wire, taken, cuts>>
  BY DataWholeEffect
<1>2. OwnHeader'
  <2>1. \A k \in 1 .. DataMax : Cleared[HeaderSize + k - 1] = 0
    <3>1. \A k \in 1 .. DataMax : HeaderSize + k - 1 \in Addresses
      BY DEF Addresses
    <3> QED BY <3>1 DEF Cleared
  <2>2. \A p : Empty(Cleared, p)
    BY <2>1 DEF Empty
  <2>3. Empty(memory', Pos')
    BY <1>1, <2>2
  <2> QED BY <1>1, <2>3 DEF OwnHeader
<1>3. /\ \/ /\ Reading /\ n = HeaderSize + memory[1] - bytes_in
            /\ queries' = IF memory[0] = handshake_hello THEN Append(queries, Parsed(mem)) ELSE queries
         \/ Confused /\ n = HeaderSize - bytes_in /\ queries' = queries
  BY DataWholeEffect
<1> HIDE DEF n
<1>4. Base' = Pos + n /\ n \in Nat /\ Pos \in Nat /\ bytes_in \in Nat /\ Base = Pos - bytes_in
  <2>1. Pos' = Pos + n
    BY <1>1, DropPlaced
  <2> QED BY <1>1, <2>1, Lengths DEF Base, Dropped
<1>5. Base \in Int /\ Base' \in Int /\ Base <= Base'
  BY <1>4
<1>6. Typed'
  BY TypedStep DEF Next, Processing
<1>7. Len(sent) \in Nat /\ sent' = sent
  BY <1>1, Lengths
<1>8. CASE queries' = queries
  BY <1>2, <1>5, <1>6, <1>7, <1>8, KnownKeeps
<1>9. CASE Reading /\ n = HeaderSize + memory[1] - bytes_in /\ memory[0] = handshake_hello
           /\ queries' = Append(queries, Parsed(mem))
  <2>1. /\ bytes_in = HeaderSize /\ Empty(memory, Base)
        /\ \E j \in Hellos : sent[j].at = Base /\ HeaderIs(memory, sent[j].msg)
    BY <1>1, <1>9 DEF OwnHeader
  <2>2. PICK j \in Hellos : sent[j].at = Base /\ HeaderIs(memory, sent[j].msg)
    BY <2>1
  <2>3. j \in 1 .. Len(sent)
    BY DEF Hellos
  <2>4. /\ sent[j].at \in Nat /\ sent[j].msg.block_size \in Nat /\ memory[1] = sent[j].msg.block_size
        /\ EndOf(sent[j]) = sent[j].at + 3 + sent[j].msg.block_size
    BY <2>2, <2>3, EntryTyped DEF HeaderIs
  <2>5. n = sent[j].msg.block_size /\ n <= DataMax /\ n <= Len(buffer)
    <3>1. n = memory[1] /\ memory[1] <= DataMax
      BY <1>9, <2>1, <2>4 DEF Reading
    <3> QED BY <1>1, <2>4, <3>1 DEF Dropped
  <2>6. Shows(Parsed(mem), sent[j])
    BY <2>1, <2>2, <2>3, <2>5, CopyShows
  <2>7. Base' = EndOf(sent[j]) /\ ~(EndOf(sent[j]) <= Base)
    BY <1>4, <2>1, <2>2, <2>4, <2>5
  <2>8. Worked' = {i \in Hellos : EndOf(sent[i]) <= Base'} /\ Hellos' = Hellos
    BY <1>7 DEF Worked, Hellos, EndOf
  <2>9. j \in Worked' /\ j \notin Worked
    <3>1. EndOf(sent[j]) <= EndOf(sent[j])
      BY <2>4
    <3> QED BY <2>7, <2>8, <3>1 DEF Worked
  <2>10. Worked \subseteq Worked'
    <3>1. ASSUME NEW i \in Worked PROVE i \in Worked'
      <4>1. i \in Hellos /\ i \in 1 .. Len(sent) /\ EndOf(sent[i]) <= Base
        BY DEF Worked, Hellos
      <4>2. EndOf(sent[i]) \in Int
        BY <4>1, EntryTyped
      <4> QED BY <1>5, <2>8, <4>1, <4>2
    <3> QED BY <3>1
  <2>11. Cardinality(Worked) + 1 <= Cardinality(Worked')
    <3>1. Worked \in SUBSET Hellos /\ Worked' \in SUBSET Hellos
      BY <2>8 DEF Worked
    <3>2. IsFiniteSet(Worked) /\ IsFiniteSet(Worked')
      BY <3>1, HellosFinite
    <3>3. Cardinality(Worked \cup {j}) = Cardinality(Worked) + 1
      BY <2>9, <3>2, FS_AddElement
    <3>4. Worked \cup {j} \subseteq Worked'
      BY <2>9, <2>10
    <3>5. Cardinality(Worked \cup {j}) <= Cardinality(Worked')
      BY <3>2, <3>4, FS_Subset
    <3> QED BY <3>3, <3>5
  <2>12. queries \in Seq(Query) /\ Len(queries) \in Nat
    BY DEF Typed, TypeOK, Query
  <2> HIDE DEF mem
  <2>13. /\ Len(queries') = Len(queries) + 1 /\ queries'[Len(queries) + 1] = Parsed(mem)
         /\ \A k \in 1 .. Len(queries) : queries'[k] = queries[k]
    BY <1>9, <2>12
  <2>14. Len(queries') <= Cardinality(Worked')
    <3>1. Worked \in SUBSET Hellos /\ Worked' \in SUBSET Hellos
      BY <2>8 DEF Worked
    <3>2. Cardinality(Worked) \in Nat /\ Cardinality(Worked') \in Nat
      BY <3>1, HellosFinite
    <3> QED BY <2>11, <2>12, <2>13, <3>2 DEF Known
  <2>15. ASSUME NEW k \in 1 .. Len(queries') PROVE \E i \in Worked' : Shows(queries'[k], sent[i])
    <3>1. k \in 1 .. Len(queries) \/ k = Len(queries) + 1
      BY <2>12, <2>13
    <3>2. CASE k \in 1 .. Len(queries)
      <4>1. PICK i \in Worked : Shows(queries[k], sent[i])
        BY <3>2 DEF Known
      <4> QED BY <2>10, <2>13, <3>2, <4>1
    <3>3. CASE k = Len(queries) + 1
      BY <2>6, <2>9, <2>13, <3>3
    <3> QED BY <3>1, <3>2, <3>3
  <2>16. Known'
    BY <1>7, <2>14, <2>15 DEF Known, Shows, SameHeader
  <2> QED BY <1>2, <2>16
<1> QED BY <1>3, <1>8, <1>9

\* Every step keeps to the hellos that were sent.
LEMMA StrictStep ==
  ASSUME OpcodesStandOut, Typed, Staged, Placed, Strict, [Next]_vars
  PROVE  Strict'
<1> SUFFICES ASSUME NoCut' PROVE OwnHeader' /\ Known'
  BY DEF Strict
<1>0. NoCut /\ OwnHeader /\ Known /\ Typed'
  BY NoCutBefore, TypedStep DEF Strict
<1>1. ASSUME NEW m \in Messages, Send(m) PROVE OwnHeader' /\ Known'
  <2>1. /\ Len(sent') = Len(sent) + 1 /\ \A j \in 1 .. Len(sent) : sent'[j] = sent[j]
        /\ UNCHANGED <<state, memory, bytes_in, queries>> /\ Len(sent) \in Nat
    BY <1>1, SendEffect, Lengths
  <2>2. Pos' = Pos /\ Base' = Base /\ Base \in Int /\ Base <= Base'
    BY <1>1, <2>1, SendPlaced, Lengths DEF Base
  <2>3. Known'
    BY <1>0, <2>1, <2>2, KnownKeeps
  <2>4. \A j \in Hellos : j \in Hellos' /\ sent'[j] = sent[j]
    BY <2>1 DEF Hellos
  <2>5. OwnHeader'
    BY <1>0, <2>1, <2>2, <2>4 DEF OwnHeader
  <2> QED BY <2>3, <2>5
<1>2. ASSUME UNCHANGED <<sent, state, memory, bytes_in, queries>>, Pos' = Pos PROVE OwnHeader' /\ Known'
  <2>1. Base' = Base /\ Base \in Int /\ Base <= Base' /\ Len(sent) \in Nat
    BY <1>2, Lengths DEF Base
  <2>2. Known'
    BY <1>0, <1>2, <2>1, KnownKeeps
  <2>3. Hellos' = Hellos
    BY <1>2 DEF Hellos
  <2>4. OwnHeader'
    BY <1>0, <1>2, <2>1, <2>3 DEF OwnHeader
  <2> QED BY <2>2, <2>4
<1>3. ASSUME NEW n \in 1 .. BufferSize, OnDataReceived(n) PROVE OwnHeader' /\ Known'
  BY <1>2, <1>3, ReceiveEffect, ReceivePlaced
<1>4. CASE OnReadFailed \/ UNCHANGED vars
  BY <1>2, <1>4 DEF OnReadFailed, vars, Pos
<1>5. CASE HeaderPart
  BY <1>0, <1>5, HeaderPartStrict
<1>6. CASE HeaderWhole
  BY <1>0, <1>6, HeaderWholeStrict
<1>7. CASE DataPart
  BY <1>0, <1>7, DataPartStrict
<1>8. CASE DataWhole
  BY <1>0, <1>8, DataWholeStrict
<1> QED BY <1>1, <1>3, <1>4, <1>5, <1>6, <1>7, <1>8 DEF Next, Receive, Processing

\* A new session has handed over nothing, and found nothing in msgbuf_in.
LEMMA InitStrict == ASSUME Init PROVE Strict
<1>1. Len(sent) = 0 /\ Len(queries) = 0 /\ Pos = 0 /\ state = "read_header" /\ bytes_in = 0
  <2>1. Len(<<>>) = 0
    OBVIOUS
  <2>2. sent = <<>> /\ queries = <<>> /\ buffer = <<>> /\ taken = 0
    BY DEF Init
  <2>3. Len(sent) = 0 /\ Len(queries) = 0 /\ Len(buffer) = 0
    BY <2>1, <2>2
  <2>4. Pos = 0
    <3>1. taken = 0 /\ Len(buffer) = 0
      BY <2>2, <2>3
    <3> QED BY <3>1 DEF Pos
  <2>5. state = "read_header" /\ bytes_in = 0
    BY DEF Init
  <2> QED BY <2>3, <2>4, <2>5
<1>2. Empty(memory, 0)
  <2>1. \A k \in 1 .. DataMax : HeaderSize + k - 1 \in Addresses /\ ~(HeaderSize + k - 1 < HeaderSize)
                                /\ HeaderSize + k - 1 # 0
    BY DEF Addresses
  <2>2. PICK g \in {0, Garbage} :
          memory = [a \in Addresses |-> IF a = 0 THEN opcode_null ELSE IF a < HeaderSize THEN 0 ELSE g]
    BY DEF Init
  <2>3. \A k \in 1 .. DataMax : memory[HeaderSize + k - 1] = g
    BY <2>1, <2>2
  <2> QED BY <2>3 DEF Empty
<1>3. OwnHeader
  BY <1>1, <1>2 DEF OwnHeader
<1>4. Cardinality(Worked) \in Nat
  <2>1. Worked = {}
    BY <1>1 DEF Worked, Hellos
  <2> QED BY <2>1, FS_EmptySet
<1>5. Known
  BY <1>1, <1>4 DEF Known
<1> QED BY <1>3, <1>5 DEF Strict

\* gateway.cpp:133-252: even when abnormal headers have put the reader out of step, as long
\* as no read ends inside a message every handshake thread has one of the hellos that were read
\* to their end, its data followed by nothing of another message, and there are no more threads
\* than such hellos.
THEOREM OnlyHellosHandedOver == ASSUME OpcodesStandOut PROVE Spec => []OnlySentQueries
<1>1. Init => IInv /\ Strict
  BY InitInv, InitStrict
<1>2. IInv /\ Strict /\ [Next]_vars => (IInv /\ Strict)'
  BY NextInv, StrictStep DEF IInv
<1>3. IInv /\ Strict => OnlySentQueries
  <2> SUFFICES ASSUME IInv, Strict, cuts = {} /\ ~overrun
               PROVE  /\ \A k \in 1 .. Len(queries) : \E j \in Arrived : Shows(queries[k], sent[j])
                      /\ Len(queries) <= Cardinality(Arrived)
    BY DEF OnlySentQueries
  <2>1. Known /\ Typed
    BY DEF Strict, NoCut, IInv
  <2>2. Worked \subseteq Arrived
    <3>1. ASSUME NEW i \in Worked PROVE i \in Arrived
      <4>1. i \in Hellos /\ i \in 1 .. Len(sent) /\ EndOf(sent[i]) <= Base
        BY DEF Worked, Hellos
      <4>2. EndOf(sent[i]) \in Int /\ Base \in Int /\ taken \in Nat /\ Base <= taken
        BY <2>1, <4>1, EntryTyped, Lengths, SMTT(30) DEF Base
      <4> QED BY <4>1, <4>2 DEF Arrived
    <3> QED BY <3>1
  <2>3. Cardinality(Worked) <= Cardinality(Arrived) /\ Cardinality(Worked) \in Nat
          /\ Cardinality(Arrived) \in Nat
    <3>1. Worked \in SUBSET Hellos /\ Arrived \in SUBSET Hellos
      BY DEF Worked, Arrived
    <3>2. IsFiniteSet(Arrived)
      BY <2>1, <3>1, HellosFinite
    <3> QED BY <2>1, <2>2, <3>1, <3>2, HellosFinite, FS_Subset
  <2>4. Len(queries) \in Nat
    BY <2>1 DEF Typed, TypeOK
  <2>5. Len(queries) <= Cardinality(Arrived)
    BY <2>1, <2>3, <2>4 DEF Known
  <2> QED BY <2>1, <2>2, <2>5 DEF Known
<1> QED BY <1>1, <1>2, <1>3, PTL DEF Spec
=============================================================================
