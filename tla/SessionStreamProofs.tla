------------------------ MODULE SessionStreamProofs ------------------------
(***************************************************************************)
(* Proofs about the session stream that need no bound on messages, their   *)
(* sizes, their number or where the reads end.  One read is outstanding;   *)
(* the types hold; and the reader stays in step with what clients send     *)
(* until a header is abnormal or a read ends inside one.                   *)
(*                                                                         *)
(* Each action gets a lemma on its effect (...Effect), with the size_t     *)
(* arithmetic of the code worked out, before the invariants are taken on.  *)
(***************************************************************************)
EXTENDS SessionStream, TLAPS, SequenceTheorems, FiniteSetTheorems

(* One reader                                                              *)

\* What the number of reads means for the stages of the callback.
Stages == pc \in {"idle", "header", "data", "closed"}

\* A read completes when no callback runs, and the callback starts with none.
LEMMA ReceiveKeeps ==
  ASSUME Stages, OneReader, Receive \/ OnReadFailed
  PROVE  Stages' /\ OneReader'
<1>1. CASE Receive
  <2>1. PICK n \in 1 .. BufferSize : OnDataReceived(n)
    BY <1>1 DEF Receive
  <2> QED BY <2>1 DEF OnDataReceived, Stages, OneReader
<1>2. CASE OnReadFailed
  BY <1>2 DEF OnReadFailed, Stages, OneReader
<1> QED BY <1>1, <1>2

\* Each branch of the two processing functions hands on to the other, or issues the
\* next read and ends the callback.
LEMMA ProcessingKeeps ==
  ASSUME Stages, OneReader, Processing
  PROVE  Stages' /\ OneReader'
<1>1. CASE HeaderPart \/ DataPart
  BY <1>1 DEF HeaderPart, DataPart, Keep, async_read_some, Stages, OneReader
<1>2. CASE HeaderWhole
  BY <1>2 DEF HeaderWhole, Stages, OneReader
<1>3. CASE DataWhole
  BY <1>3 DEF DataWhole, Stages, OneReader
<1> QED BY <1>1, <1>2, <1>3 DEF Processing

\* gateway.cpp:102-252: whatever is sent, well formed or not, and wherever reads
\* end, one read is outstanding while no callback runs and none while one does.
THEOREM NeverDeafNorRacing == Spec => []OneReader
<1>1. Init => Stages /\ OneReader
  BY DEF Init, Stages, OneReader
<1>2. Stages /\ OneReader /\ [Next]_vars => Stages' /\ OneReader'
  <2> SUFFICES ASSUME Stages, OneReader, [Next]_vars PROVE Stages' /\ OneReader'
    OBVIOUS
  <2>1. ASSUME NEW m \in Messages, Send(m) PROVE Stages' /\ OneReader'
    BY <2>1 DEF Send, Stages, OneReader
  <2>2. CASE UNCHANGED vars
    BY <2>2 DEF vars, Stages, OneReader
  <2> QED BY <2>1, <2>2, ReceiveKeeps, ProcessingKeeps DEF Next
<1> QED BY <1>1, <1>2, PTL DEF Spec

-----------------------------------------------------------------------------
(* The width of size_t, and what each action does                          *)

USE LayoutAssumption DEF opcode_null, handshake_hello, handshake_ack, end_of_record, Garbage

\* A size below the width of size_t is kept; one below zero wraps once.
LEMMA Wraps ==
  /\ \A x \in Nat : x < SizeModulus => x % SizeModulus = x
  /\ \A x \in Nat : 0 < x /\ x <= SizeModulus => (0 - x) % SizeModulus = SizeModulus - x
OBVIOUS

\* Steps of DataMax cells stay below the width of size_t, as the layout assumes.
LEMMA DataBound ==
  /\ \A n \in Nat : n < DataMax => DataMax * n \in Nat /\ HeaderSize + DataMax * n < SizeModulus
  /\ SizeModulus > 4 * DataMax + HeaderSize
<1>1. DataMax * DataMax \in Nat /\ SizeModulus > 4 * (DataMax * DataMax) + 12 * DataMax
  OBVIOUS
<1>2. \A n \in Nat : n < DataMax => DataMax * n \in Nat /\ DataMax * n <= DataMax * DataMax
  OBVIOUS
<1>3. DataMax * DataMax >= 0
  OBVIOUS
<1> QED BY <1>1, <1>2, <1>3

\* Where the code's memmoves lead.
LEMMA Targets ==
  /\ HeaderPlus(0) = 0 /\ HeaderPlus(1) = 3 /\ HeaderPlus(2) = 6
  /\ \A n \in Nat : n < DataMax => DataPlus(n) = HeaderSize + DataMax * n
  /\ DataPlus(SizeModulus - 3) >= HeaderSize + DataMax
  /\ DataPlus(SizeModulus - 2) >= HeaderSize + DataMax
<1>0. SizeModulus \in Nat /\ SizeModulus > 6
  BY DataBound
<1>1. HeaderPlus(0) = 0 /\ HeaderPlus(1) = 3 /\ HeaderPlus(2) = 6
  <2>1. ASSUME NEW n \in 0 .. 2 PROVE HeaderPlus(n) = 3 * n
    <3>1. HeaderSize * n = 3 * n /\ 3 * n \in Nat /\ 3 * n < SizeModulus
      BY <1>0
    <3> QED BY <3>1, Wraps DEF HeaderPlus
  <2> QED BY <2>1
<1>2. ASSUME NEW n \in Nat, n < DataMax PROVE DataPlus(n) = HeaderSize + DataMax * n
  <2>1. HeaderSize + DataMax * n \in Nat /\ HeaderSize + DataMax * n < SizeModulus
    BY <1>2, DataBound
  <2> QED BY <2>1, Wraps DEF DataPlus
<1>3. ASSUME NEW q \in Nat, NEW r \in Nat, r < SizeModulus
      PROVE  (SizeModulus * q + r) % SizeModulus = r
  <2> DEFINE x == SizeModulus * q + r
             d == x \div SizeModulus
             m == x % SizeModulus
  <2>1. x \in Nat
    BY <1>0
  <2>2. d \in Int /\ m \in Nat /\ m < SizeModulus /\ x = SizeModulus * d + m
    BY <1>0, <2>1
  <2> HIDE DEF d, m
  <2>3. SizeModulus * (d - q) = r - m
    BY <1>0, <2>2
  <2> HIDE DEF x
  <2>4. ~ (d - q >= 1)
    BY <1>0, <1>3, <2>2, <2>3
  <2>5. ~ (d - q <= 0 - 1)
    BY <1>0, <1>3, <2>2, <2>3
  <2>6. d = q
    BY <2>2, <2>4, <2>5
  <2>7. SizeModulus * (d - q) = 0
    BY <1>0, <2>6, <2>2
  <2> QED BY <2>2, <2>3, <2>7 DEF m, x
<1>4. HeaderSize + DataMax * (SizeModulus - 3) = SizeModulus * (DataMax - 1) + (SizeModulus + 3 - 3 * DataMax)
  OBVIOUS
<1>5. HeaderSize + DataMax * (SizeModulus - 2) = SizeModulus * (DataMax - 1) + (SizeModulus + 3 - 2 * DataMax)
  OBVIOUS
<1>6. SizeModulus + 3 - 3 * DataMax \in Nat /\ SizeModulus + 3 - 3 * DataMax < SizeModulus
      /\ SizeModulus + 3 - 2 * DataMax \in Nat /\ SizeModulus + 3 - 2 * DataMax < SizeModulus
  BY DataBound
<1>7. DataMax - 1 \in Nat
  OBVIOUS
<1> QED BY <1>1, <1>2, <1>3, <1>4, <1>5, <1>6, <1>7, DataBound, SMTT(30) DEF DataPlus

\* The types, with the history of what was sent.
Entries == [msg : Messages, at : Nat]
Typed   == TypeOK /\ sent \in Seq(Entries) /\ Len(buffer) <= taken

\* What msgbuf_in and the count say while data is awaited: there is a header that was
\* found valid, or msgbuf_in was cleared after a bad header with nothing behind it.
Reading ==
  /\ memory[0] \in {handshake_hello, handshake_ack} /\ memory[1] <= DataMax
  /\ HeaderSize <= bytes_in /\ bytes_in <= HeaderSize + memory[1]
  /\ pc # "data" => bytes_in < HeaderSize + memory[1]
Confused == memory[0] = 0 /\ memory[1] = 0 /\ bytes_in < HeaderSize

\* How the stages of the callback, the state and the count go together.
Staged ==
  /\ pc = "header" => state = "read_header"
  /\ pc = "data" => state = "read_data"
  /\ pc \in {"idle", "closed"} => buffer = <<>>
  /\ state = "read_header" => bytes_in < HeaderSize
  /\ state = "read_data" => Reading \/ Confused

\* A memmove that leaves msgbuf_in is not followed; one that stays writes its cells only.
LEMMA MovedCells ==
  ASSUME Typed, NEW off \in Nat, NEW n \in 0 .. Len(buffer)
  PROVE  /\ Moved(off, n) \in [Addresses -> Nat]
         /\ \A a \in Addresses : a < off => Moved(off, n)[a] = memory[a]
         /\ n = 0 \/ off + n > HeaderSize + DataMax => Moved(off, n) = memory
         /\ off + n <= HeaderSize + DataMax =>
              \A a \in Addresses : Moved(off, n)[a] =
                IF off <= a /\ a < off + n THEN buffer[a - off + 1] ELSE memory[a]
<1>1. memory \in [Addresses -> Nat] /\ buffer \in Seq(Nat) /\ Len(buffer) \in Nat
  BY DEF Typed, TypeOK
<1>2. \A a \in Addresses : a \in Int
  BY DEF Addresses
<1>3. \A a \in Addresses : off <= a /\ a < off + n => a - off + 1 \in 1 .. Len(buffer)
  BY <1>1, <1>2
<1>4. \A k \in 1 .. Len(buffer) : buffer[k] \in Nat
  BY <1>1
<1>5. CASE n = 0
  BY <1>1, <1>2, <1>5 DEF Moved, Fits
<1>6. CASE n # 0
  BY <1>1, <1>2, <1>3, <1>4, <1>6 DEF Moved, Fits
<1> QED BY <1>5, <1>6

\* The size_t differences, by what the header says.
LEMMA Differences ==
  ASSUME Typed
  PROVE  /\ bytes_in < HeaderSize => remaining_header_size = HeaderSize - bytes_in
         /\ Reading => /\ data_transferred = bytes_in - HeaderSize
                       /\ remaining_data_size = HeaderSize + memory[1] - bytes_in
         /\ Confused => /\ data_transferred = SizeModulus - HeaderSize + bytes_in
                        /\ remaining_data_size = HeaderSize - bytes_in
<1>1. bytes_in \in Nat /\ SizeModulus \in Nat /\ SizeModulus > 4 * DataMax + HeaderSize /\ HeaderSize = 3
  BY DataBound DEF Typed, TypeOK
<1>2. ASSUME NEW x \in Nat, x < SizeModulus PROVE x % SizeModulus = x
  BY <1>2, Wraps
<1>3. ASSUME NEW x \in Nat, 0 < x, x <= SizeModulus PROVE (0 - x) % SizeModulus = SizeModulus - x
  BY <1>3, Wraps
<1>4. memory[1] \in Nat
  <2>1. 1 \in Addresses
    BY DEF Addresses
  <2> QED BY <2>1 DEF Typed, TypeOK
<1>5. CASE bytes_in < HeaderSize
  <2>1. remaining_header_size = HeaderSize - bytes_in
    BY <1>1, <1>2, <1>5 DEF remaining_header_size, Minus
  <2>2. data_transferred = SizeModulus - HeaderSize + bytes_in
    <3>1. HeaderSize - bytes_in \in Nat /\ 0 < HeaderSize - bytes_in /\ HeaderSize - bytes_in <= SizeModulus
      BY <1>1, <1>5
    <3>2. bytes_in - HeaderSize = 0 - (HeaderSize - bytes_in)
      BY <1>1
    <3>3. (0 - (HeaderSize - bytes_in)) % SizeModulus = SizeModulus - (HeaderSize - bytes_in)
      BY <1>3, <3>1
    <3> QED BY <1>1, <3>2, <3>3 DEF data_transferred, Minus
  <2>3. Confused => remaining_data_size = HeaderSize - bytes_in
    <3>1. SizeModulus - HeaderSize + bytes_in \in Nat /\ SizeModulus - HeaderSize + bytes_in > 0
          /\ SizeModulus - HeaderSize + bytes_in <= SizeModulus
      BY <1>1, <1>5
    <3>2. (0 - (SizeModulus - HeaderSize + bytes_in)) % SizeModulus = HeaderSize - bytes_in
      <4>1. (0 - (SizeModulus - HeaderSize + bytes_in)) % SizeModulus
              = SizeModulus - (SizeModulus - HeaderSize + bytes_in)
        BY <3>1, <1>3
      <4> QED BY <1>1, <4>1
    <3> QED BY <2>2, <3>2 DEF remaining_data_size, Minus, Confused
  <2> QED BY <1>1, <1>5, <2>1, <2>2, <2>3 DEF Reading
<1>6. CASE Reading
  <2>1. bytes_in - HeaderSize \in Nat /\ bytes_in - HeaderSize < SizeModulus
    BY <1>1, <1>4, <1>6 DEF Reading
  <2>2. data_transferred = bytes_in - HeaderSize
    BY <1>2, <2>1 DEF data_transferred, Minus
  <2>3. memory[1] - (bytes_in - HeaderSize) \in Nat /\ memory[1] - (bytes_in - HeaderSize) < SizeModulus
    BY <1>1, <1>4, <1>6 DEF Reading
  <2>4. remaining_data_size = memory[1] - (bytes_in - HeaderSize)
    BY <1>2, <2>2, <2>3 DEF remaining_data_size, Minus
  <2> QED BY <1>1, <1>4, <1>6, <2>2, <2>4 DEF Reading, Confused
<1>7. Confused => bytes_in < HeaderSize
  BY DEF Confused
<1> QED BY <1>5, <1>6, <1>7

\* What a callback leaves that keeps all cells and waits for more.
Kept ==
  /\ buffer' = <<>> /\ pc' = "idle" /\ reads' = reads + 1
  /\ bytes_in' = bytes_in + Len(buffer)
  /\ UNCHANGED <<sent, wire, taken, state, queries, rejected, cuts>>

\* Part of a header: the count stays below its size.
LEMMA HeaderPartEffect ==
  ASSUME Typed, Staged, HeaderPart
  PROVE  /\ Kept /\ state = "read_header" /\ bytes_in' < HeaderSize
         /\ memory' = Moved(3 * bytes_in, Len(buffer))
         /\ memory' \in [Addresses -> Nat]
         /\ overrun' = (overrun \/ ~Fits(3 * bytes_in, Len(buffer)))
<1>1. state = "read_header" /\ bytes_in < HeaderSize /\ bytes_in \in Nat /\ Len(buffer) \in Nat
  BY DEF HeaderPart, Staged, Typed, TypeOK
<1>2. Len(buffer) < HeaderSize - bytes_in
  BY <1>1, Differences DEF HeaderPart
<1>3. HeaderPlus(bytes_in) = 3 * bytes_in
  <2>1. bytes_in = 0 \/ bytes_in = 1 \/ bytes_in = 2
    BY <1>1
  <2> QED BY <2>1, Targets
<1>4. Minus(bytes_in + Len(buffer), 0) = bytes_in + Len(buffer)
  <2>1. bytes_in + Len(buffer) \in Nat /\ bytes_in + Len(buffer) < SizeModulus
    BY <1>1, <1>2, DataBound
  <2> QED BY <2>1, Wraps DEF Minus
<1>5. Moved(3 * bytes_in, Len(buffer)) \in [Addresses -> Nat]
  <2>1. 3 * bytes_in \in Nat /\ Len(buffer) \in 0 .. Len(buffer)
    BY <1>1
  <2> QED BY <2>1, MovedCells
<1> QED BY <1>1, <1>2, <1>3, <1>4, <1>5 DEF HeaderPart, Keep, async_read_some, Kept

\* Part of the data: the header stays, and without one nothing is written.
LEMMA DataPartEffect ==
  ASSUME Typed, Staged, DataPart
  PROVE  /\ Kept /\ state = "read_data"
         /\ memory' \in [Addresses -> Nat]
         /\ \A a \in Addresses : a < HeaderSize => memory'[a] = memory[a]
         /\ overrun => overrun'
         /\ overrun' \in BOOLEAN
         /\ \/ Reading /\ bytes_in' < HeaderSize + memory[1]
            \/ Confused /\ memory' = memory /\ bytes_in' < HeaderSize
         /\ Len(buffer) = 0 => memory' = memory /\ overrun' = overrun
<1> DEFINE n   == Len(buffer)
           off == DataPlus(data_transferred)
<1>1. state = "read_data" /\ (Reading \/ Confused) /\ bytes_in \in Nat /\ n \in Nat
        /\ bytes_in <= HeaderSize + DataMax
  BY DEF DataPart, Staged, Typed, TypeOK
<1>2. n < remaining_data_size
  BY DEF DataPart
<1>3. /\ memory' = Moved(off, n) /\ overrun' = (overrun \/ ~Fits(off, n))
      /\ bytes_in' = Minus(bytes_in + n, 0)
      /\ buffer' = <<>> /\ pc' = "idle" /\ reads' = reads + 1
      /\ UNCHANGED <<sent, wire, taken, state, queries, rejected, cuts>>
  BY DEF DataPart, Keep, async_read_some
<1>4. memory[1] \in Nat
  <2>1. 1 \in Addresses
    BY DEF Addresses
  <2> QED BY <2>1 DEF Typed, TypeOK
<1>5. CASE Reading
  <2>1. n < HeaderSize + memory[1] - bytes_in
    BY <1>2, <1>5, Differences
  <2>2. data_transferred = bytes_in - HeaderSize /\ data_transferred \in Nat /\ data_transferred < DataMax
    BY <1>1, <1>4, <1>5, <2>1, Differences DEF Reading
  <2>3. off \in Nat /\ off >= HeaderSize
    <3>1. DataMax * data_transferred \in Nat
      BY <2>2
    <3> QED BY <2>2, <3>1, Targets
  <2>4. bytes_in' = bytes_in + n
    <3>1. bytes_in + n \in Nat /\ bytes_in + n < SizeModulus
      BY <1>1, <1>4, <1>5, <2>1, DataBound DEF Reading
    <3> QED BY <1>3, <3>1, Wraps DEF Minus
  <2> HIDE DEF off
  <2>5. /\ memory' \in [Addresses -> Nat]
        /\ \A a \in Addresses : a < off => memory'[a] = memory[a]
        /\ n = 0 => memory' = memory
    BY <1>1, <1>3, <2>3, MovedCells
  <2>6. \A a \in Addresses : a < HeaderSize => memory'[a] = memory[a]
    BY <2>3, <2>5 DEF Addresses
  <2>7. bytes_in' < HeaderSize + memory[1]
    BY <1>1, <1>4, <2>1, <2>4
  <2>8. n = 0 => Fits(off, n)
    BY DEF Fits
  <2>9. (overrun => overrun') /\ overrun' \in BOOLEAN /\ (n = 0 => overrun' = overrun)
    BY <1>3, <2>8 DEF Typed, TypeOK
  <2> QED BY <1>1, <1>3, <1>5, <2>4, <2>5, <2>6, <2>7, <2>9 DEF Kept
<1>6. CASE Confused
  <2>1. n < HeaderSize - bytes_in /\ bytes_in < HeaderSize
    BY <1>2, <1>6, Differences DEF Confused
  <2>2. n = 0 \/ off >= HeaderSize + DataMax
    <3>1. n = 0 \/ bytes_in = 0 \/ bytes_in = 1
      BY <1>1, <2>1
    <3>2. data_transferred = SizeModulus - 3 + bytes_in
      BY <1>6, Differences
    <3>3. CASE bytes_in = 0
      <4>1. data_transferred = SizeModulus - 3
        BY <3>2, <3>3
      <4> QED BY <4>1, Targets
    <3>4. CASE bytes_in = 1
      <4>1. data_transferred = SizeModulus - 2
        BY <3>2, <3>4
      <4> QED BY <4>1, Targets
    <3> QED BY <3>1, <3>3, <3>4
  <2>3. off \in Nat
    <3>1. data_transferred = SizeModulus - HeaderSize + bytes_in /\ SizeModulus \in Nat
            /\ SizeModulus > HeaderSize
      BY <1>6, Differences, DataBound
    <3>2. DataMax * data_transferred \in Nat
      BY <1>1, <3>1
    <3>3. \A x \in Nat : x % SizeModulus \in Nat
      BY <3>1
    <3> QED BY <3>2, <3>3 DEF DataPlus
  <2>4. bytes_in' = bytes_in + n
    <3>1. bytes_in + n \in Nat /\ bytes_in + n < SizeModulus
      BY <1>1, <2>1, DataBound
    <3> QED BY <1>3, <3>1, Wraps DEF Minus
  <2> HIDE DEF off
  <2>5. memory' = memory
    <3>1. n = 0 \/ off + n > HeaderSize + DataMax
      BY <1>1, <2>2, <2>3
    <3> QED BY <1>1, <1>3, <2>3, <3>1, MovedCells
  <2> QED BY <1>1, <1>3, <1>6, <2>1, <2>4, <2>5 DEF Kept, Fits, Typed, TypeOK
<1> QED BY <1>1, <1>5, <1>6

\* The buffer without its first n cells.
Dropped(n) ==
  /\ n \in Nat /\ n <= Len(buffer)
  /\ buffer' \in Seq(Nat) /\ Len(buffer') = Len(buffer) - n
  /\ \A k \in 1 .. Len(buffer) - n : buffer'[k] = buffer[k + n]

\* memmove(buffer, buffer + n, excess) drops the first n cells.
LEMMA RestDrops ==
  ASSUME Typed, NEW n \in Nat, n <= Len(buffer), buffer' = Rest(n)
  PROVE  Dropped(n)
<1>1. buffer \in Seq(Nat) /\ Len(buffer) \in Nat
  BY DEF Typed, TypeOK
<1>2. \A i \in n + 1 .. Len(buffer) : i \in 1 .. Len(buffer)
  BY <1>1
<1>3. \A i \in n + 1 .. Len(buffer) : buffer[i] \in Nat
  BY <1>1, <1>2
<1>4. /\ SubSeq(buffer, n + 1, Len(buffer)) \in Seq(Nat)
      /\ Len(SubSeq(buffer, n + 1, Len(buffer))) = IF n + 1 <= Len(buffer)
           THEN Len(buffer) - (n + 1) + 1 ELSE 0
      /\ \A i \in 1 .. Len(buffer) - (n + 1) + 1 :
           SubSeq(buffer, n + 1, Len(buffer))[i] = buffer[n + 1 + i - 1]
  <2>1. n + 1 \in Int /\ Len(buffer) \in Int
    BY <1>1
  <2> QED BY <1>3, <2>1, SubSeqProperties
<1> QED BY <1>1, <1>4 DEF Rest, Dropped

\* A whole header: data is awaited, or the header is refused and msgbuf_in cleared.
LEMMA HeaderWholeEffect ==
  ASSUME Typed, Staged, HeaderWhole
  PROVE  LET n   == HeaderSize - bytes_in
             mem == Moved(3 * bytes_in, n)
         IN
         /\ state = "read_header" /\ bytes_in < HeaderSize /\ Dropped(n)
         /\ UNCHANGED <<sent, wire, taken, reads, queries, cuts>>
         /\ overrun' = (overrun \/ ~Fits(3 * bytes_in, n))
         /\ mem \in [Addresses -> Nat]
         /\ \/ /\ validate_header(mem) /\ memory' = mem /\ bytes_in' = HeaderSize
               /\ pc' = "data" /\ state' = "read_data" /\ rejected' = rejected
            \/ /\ ~validate_header(mem) /\ memory' = Cleared /\ bytes_in' = 0
               /\ rejected' = rejected + 1
               /\ \/ pc' = "header" /\ state' = state /\ Len(buffer) > n
                  \/ pc' = "data" /\ state' = "read_data" /\ Len(buffer) = n
<1> DEFINE n   == HeaderSize - bytes_in
           mem == Moved(3 * bytes_in, n)
<1>1. state = "read_header" /\ bytes_in < HeaderSize /\ bytes_in \in Nat /\ Len(buffer) \in Nat
  BY DEF HeaderWhole, Staged, Typed, TypeOK
<1>2. remaining_header_size = n
  BY <1>1, Differences
<1>3. HeaderPlus(bytes_in) = 3 * bytes_in
  <2>1. bytes_in = 0 \/ bytes_in = 1 \/ bytes_in = 2
    BY <1>1
  <2> QED BY <2>1, Targets
<1>4. n \in Nat /\ n <= Len(buffer) /\ buffer' = Rest(n)
  BY <1>1, <1>2 DEF HeaderWhole
<1>5. Dropped(n)
  BY <1>4, RestDrops
<1>6. mem \in [Addresses -> Nat]
  <2>1. 3 * bytes_in \in Nat /\ n \in 0 .. Len(buffer)
    BY <1>1, <1>4
  <2> QED BY <2>1, MovedCells
<1>7. bytes_in + n = HeaderSize
  BY <1>1
<1> HIDE DEF n
<1>8. /\ UNCHANGED <<sent, wire, taken, reads, queries, cuts>>
      /\ overrun' = (overrun \/ ~Fits(3 * bytes_in, n))
      /\ \/ /\ validate_header(mem) /\ memory' = mem /\ bytes_in' = HeaderSize
            /\ pc' = "data" /\ state' = "read_data" /\ rejected' = rejected
         \/ /\ ~validate_header(mem) /\ memory' = Cleared /\ bytes_in' = 0
            /\ rejected' = rejected + 1
            /\ \/ pc' = "header" /\ state' = state /\ Len(buffer) > n
               \/ pc' = "data" /\ state' = "read_data" /\ ~(Len(buffer) > n)
  BY <1>2, <1>3, <1>7 DEF HeaderWhole
<1>9. ~(Len(buffer) > n) => Len(buffer) = n
  BY <1>1, <1>4
<1> QED BY <1>1, <1>5, <1>6, <1>8, <1>9 DEF n

\* All of the data: a hello is handed on as it stands, and msgbuf_in is cleared.
LEMMA DataWholeEffect ==
  ASSUME Typed, Staged, DataWhole
  PROVE  LET n == remaining_data_size IN
         /\ Dropped(n) /\ state = "read_data"
         /\ memory' = Cleared /\ bytes_in' = 0 /\ state' = "read_header" /\ pc' = "header"
         /\ UNCHANGED <<sent, wire, taken, reads, rejected, cuts>>
         /\ overrun' = (overrun \/ ~Fits(HeaderSize, n))
         /\ Moved(HeaderSize, n) \in [Addresses -> Nat]
         /\ \A a \in Addresses : a < HeaderSize => Moved(HeaderSize, n)[a] = memory[a]
         /\ \/ /\ Reading /\ n = HeaderSize + memory[1] - bytes_in
               /\ queries' = IF memory[0] = handshake_hello
                               THEN Append(queries, Parsed(Moved(HeaderSize, n))) ELSE queries
            \/ Confused /\ n = HeaderSize - bytes_in /\ queries' = queries
<1> DEFINE n   == remaining_data_size
           mem == Moved(HeaderSize, n)
<1>1. state = "read_data" /\ (Reading \/ Confused) /\ bytes_in \in Nat /\ Len(buffer) \in Nat
        /\ memory[1] \in Nat
  <2>1. 1 \in Addresses
    BY DEF Addresses
  <2> QED BY <2>1 DEF DataWhole, Staged, Typed, TypeOK
<1>2. /\ Reading => n = HeaderSize + memory[1] - bytes_in
      /\ Confused => n = HeaderSize - bytes_in
  BY Differences
<1>3. n \in Nat
  BY <1>1, <1>2 DEF Reading, Confused
<1>4. /\ n <= Len(buffer) /\ buffer' = Rest(n)
      /\ memory' = Cleared /\ bytes_in' = 0 /\ state' = "read_header" /\ pc' = "header"
      /\ UNCHANGED <<sent, wire, taken, reads, rejected, cuts>>
      /\ overrun' = (overrun \/ ~Fits(HeaderSize, n))
      /\ queries' = IF mem[0] = handshake_hello THEN Append(queries, Parsed(mem)) ELSE queries
  <2>1. n <= Len(buffer)
    BY <1>1, <1>3 DEF DataWhole
  <2> QED BY <2>1 DEF DataWhole, clear_msgbuf_in, Launched
<1> HIDE DEF n
<1>5. Dropped(n)
  BY <1>3, <1>4, RestDrops
<1>6. /\ mem \in [Addresses -> Nat]
      /\ \A a \in Addresses : a < HeaderSize => mem[a] = memory[a]
  <2>1. HeaderSize \in Nat /\ n \in 0 .. Len(buffer)
    BY <1>1, <1>3, <1>4
  <2> QED BY <2>1, MovedCells
<1>7. mem[0] = memory[0]
  <2>1. 0 \in Addresses /\ 0 < HeaderSize
    BY DEF Addresses
  <2> QED BY <1>6, <2>1
<1>8. Confused => queries' = queries
  BY <1>4, <1>7 DEF Confused
<1> QED BY <1>1, <1>2, <1>4, <1>5, <1>6, <1>7, <1>8 DEF n

\* The cells of two sequences put together.
LEMMA Joined ==
  ASSUME NEW s \in Seq(Nat), NEW t \in Seq(Nat)
  PROVE  /\ s \o t \in Seq(Nat) /\ Len(s \o t) = Len(s) + Len(t)
         /\ \A k \in 1 .. Len(s) : (s \o t)[k] = s[k]
         /\ \A k \in 1 .. Len(t) : (s \o t)[Len(s) + k] = t[k]
<1>1. Len(s) \in Nat /\ Len(t) \in Nat
  OBVIOUS
<1>2. /\ s \o t \in Seq(Nat) /\ Len(s \o t) = Len(s) + Len(t)
      /\ \A i \in 1 .. Len(s) + Len(t) : (s \o t)[i] = IF i <= Len(s) THEN s[i] ELSE t[i - Len(s)]
  BY ConcatProperties
<1>3. ASSUME NEW k \in 1 .. Len(t) PROVE (s \o t)[Len(s) + k] = t[k]
  <2>1. Len(s) + k \in 1 .. Len(s) + Len(t) /\ ~(Len(s) + k <= Len(s)) /\ Len(s) + k - Len(s) = k
    BY <1>1
  <2> QED BY <1>2, <2>1
<1> QED BY <1>1, <1>2, <1>3, SMTT(30)

\* What a client writes: the header's fields, then the data.
LEMMA Written ==
  ASSUME NEW m \in Messages
  PROVE  /\ m.opcode \in Nat /\ m.block_size \in Nat /\ m.message_id \in Nat
         /\ m.data \in Seq(Nat) /\ Len(m.data) = m.block_size
         /\ to_binary(m) \in Seq(Nat) /\ Len(to_binary(m)) = HeaderSize + m.block_size
         /\ to_binary(m)[1] = m.opcode /\ to_binary(m)[2] = m.block_size /\ to_binary(m)[3] = m.message_id
         /\ \A k \in 1 .. m.block_size : to_binary(m)[HeaderSize + k] = m.data[k]
<1>1. /\ m.opcode \in Nat /\ m.block_size \in Nat /\ m.message_id \in Nat
      /\ m.data \in Seq(Nat) /\ Len(m.data) = m.block_size
  BY MessagesAssumption
<1> DEFINE h == <<m.opcode, m.block_size, m.message_id>>
<1>2. h \in Seq(Nat) /\ Len(h) = 3 /\ h[1] = m.opcode /\ h[2] = m.block_size /\ h[3] = m.message_id
  BY <1>1
<1> HIDE DEF h
<1>3. to_binary(m) = h \o m.data
  BY DEF to_binary, h
<1>4. /\ to_binary(m) \in Seq(Nat) /\ Len(to_binary(m)) = HeaderSize + m.block_size
      /\ \A i \in 1 .. Len(h) : to_binary(m)[i] = h[i]
      /\ \A k \in 1 .. m.block_size : to_binary(m)[HeaderSize + k] = m.data[k]
  <2> DEFINE d == m.data
  <2>1. d \in Seq(Nat) /\ Len(d) = m.block_size /\ to_binary(m) = h \o d
    BY <1>1, <1>3
  <2> HIDE DEF d
  <2>2. /\ h \o d \in Seq(Nat) /\ Len(h \o d) = Len(h) + Len(d)
        /\ \A k \in 1 .. Len(h) : (h \o d)[k] = h[k]
        /\ \A k \in 1 .. Len(d) : (h \o d)[Len(h) + k] = d[k]
    BY <1>2, <2>1, Joined
  <2> QED BY <1>2, <2>1, <2>2 DEF d
<1>5. to_binary(m)[1] = h[1] /\ to_binary(m)[2] = h[2] /\ to_binary(m)[3] = h[3]
  BY <1>2, <1>4
<1> QED BY <1>1, <1>2, <1>4, <1>5

\* Sending adds an entry and its cells.
LEMMA SendEffect ==
  ASSUME Typed, NEW m \in Messages, Send(m)
  PROVE  /\ sent' = Append(sent, [msg |-> m, at |-> Total]) /\ sent' \in Seq(Entries)
         /\ Len(sent') = Len(sent) + 1 /\ sent'[Len(sent) + 1] = [msg |-> m, at |-> Total]
         /\ \A j \in 1 .. Len(sent) : sent'[j] = sent[j]
         /\ wire' \in Seq(Nat) /\ Len(wire') = Len(wire) + HeaderSize + m.block_size
         /\ \A k \in 1 .. Len(wire) : wire'[k] = wire[k]
         /\ \A k \in 1 .. HeaderSize + m.block_size : wire'[Len(wire) + k] = to_binary(m)[k]
         /\ pc # "closed" /\ Total \in Nat
         /\ UNCHANGED <<taken, pc, reads, buffer, state, memory, bytes_in, queries, rejected, cuts, overrun>>
<1>1. sent \in Seq(Entries) /\ wire \in Seq(Nat) /\ taken \in Nat
  BY DEF Typed, TypeOK
<1>2. Total \in Nat
  BY <1>1 DEF Total
<1>3. [msg |-> m, at |-> Total] \in Entries
  BY <1>2 DEF Entries
<1>4. /\ sent' = Append(sent, [msg |-> m, at |-> Total]) /\ wire' = wire \o to_binary(m) /\ pc # "closed"
      /\ UNCHANGED <<taken, pc, reads, buffer, state, memory, bytes_in, queries, rejected, cuts, overrun>>
  BY DEF Send
<1>5. sent' \in Seq(Entries)
  BY <1>1, <1>3, <1>4
<1>6. /\ Len(sent') = Len(sent) + 1 /\ sent'[Len(sent) + 1] = [msg |-> m, at |-> Total]
      /\ \A j \in 1 .. Len(sent) : sent'[j] = sent[j]
  BY <1>1, <1>3, <1>4
<1>7. /\ wire' \in Seq(Nat) /\ Len(wire') = Len(wire) + HeaderSize + m.block_size
      /\ \A k \in 1 .. Len(wire) : wire'[k] = wire[k]
      /\ \A k \in 1 .. HeaderSize + m.block_size : wire'[Len(wire) + k] = to_binary(m)[k]
  <2> DEFINE b == to_binary(m)
  <2>1. b \in Seq(Nat) /\ Len(b) = HeaderSize + m.block_size
    BY Written
  <2> HIDE DEF b
  <2>2. /\ wire \o b \in Seq(Nat) /\ Len(wire \o b) = Len(wire) + Len(b)
        /\ \A k \in 1 .. Len(wire) : (wire \o b)[k] = wire[k]
        /\ \A k \in 1 .. Len(b) : (wire \o b)[Len(wire) + k] = b[k]
    BY <1>1, <2>1, Joined
  <2>3. Len(wire) \in Nat /\ m.block_size \in Nat
    BY <1>1, Written
  <2> QED BY <1>4, <2>1, <2>2, <2>3, SMTT(30) DEF b
<1> QED BY <1>2, <1>4, <1>5, <1>6, <1>7

\* A completed read takes the first n cells of the wire.
LEMMA ReceiveEffect ==
  ASSUME Typed, Staged, NEW n \in 1 .. BufferSize, OnDataReceived(n)
  PROVE  /\ n <= Len(wire) /\ pc = "idle" /\ reads > 0 /\ reads' = reads - 1
         /\ buffer = <<>> /\ buffer' \in Seq(Nat) /\ Len(buffer') = n
         /\ \A k \in 1 .. n : buffer'[k] = wire[k]
         /\ wire' \in Seq(Nat) /\ Len(wire') = Len(wire) - n
         /\ \A k \in 1 .. Len(wire) - n : wire'[k] = wire[k + n]
         /\ taken' = taken + n
         /\ pc' = IF state = "read_header" THEN "header" ELSE "data"
         /\ cuts' = cuts \cup Inside(taken + n) /\ cuts' \subseteq CutIn
         /\ UNCHANGED <<sent, state, memory, bytes_in, queries, rejected, overrun>>
<1>0. n \in Nat /\ n >= 1
  BY DataBound DEF BufferSize
<1>1. /\ n <= Len(wire) /\ pc = "idle" /\ reads > 0 /\ reads' = reads - 1
      /\ buffer' = SubSeq(wire, 1, n) /\ wire' = SubSeq(wire, n + 1, Len(wire))
      /\ taken' = taken + n
      /\ pc' = IF state = "read_header" THEN "header" ELSE "data"
      /\ cuts' = cuts \cup Inside(taken + n) /\ Inside(taken + n) \subseteq CutIn
      /\ UNCHANGED <<sent, state, memory, bytes_in, queries, rejected, overrun>>
  BY DEF OnDataReceived
<1>2. wire \in Seq(Nat) /\ Len(wire) \in Nat /\ cuts \subseteq CutIn
  BY DEF Typed, TypeOK
<1>3. buffer = <<>>
  BY <1>1 DEF Staged
<1>4. \A i \in 1 .. Len(wire) : wire[i] \in Nat
  BY <1>2
<1>5. /\ buffer' \in Seq(Nat) /\ Len(buffer') = n
      /\ \A k \in 1 .. n : buffer'[k] = wire[k]
  <2>1. \A i \in 1 .. n : i \in 1 .. Len(wire) /\ wire[i] \in Nat
    BY <1>0, <1>1, <1>2, <1>4
  <2>2. /\ SubSeq(wire, 1, n) \in Seq(Nat)
        /\ Len(SubSeq(wire, 1, n)) = IF 1 <= n THEN n - 1 + 1 ELSE 0
        /\ \A i \in 1 .. n - 1 + 1 : SubSeq(wire, 1, n)[i] = wire[1 + i - 1]
    BY <1>0, <2>1, SubSeqProperties
  <2> QED BY <1>0, <1>1, <2>2
<1>6. /\ wire' \in Seq(Nat) /\ Len(wire') = Len(wire) - n
      /\ \A k \in 1 .. Len(wire) - n : wire'[k] = wire[k + n]
  <2>1. \A i \in n + 1 .. Len(wire) : i \in 1 .. Len(wire) /\ wire[i] \in Nat
    BY <1>0, <1>2, <1>4
  <2>2. /\ SubSeq(wire, n + 1, Len(wire)) \in Seq(Nat)
        /\ Len(SubSeq(wire, n + 1, Len(wire))) = IF n + 1 <= Len(wire) THEN Len(wire) - (n + 1) + 1 ELSE 0
        /\ \A i \in 1 .. Len(wire) - (n + 1) + 1 : SubSeq(wire, n + 1, Len(wire))[i] = wire[n + 1 + i - 1]
    BY <1>0, <1>2, <2>1, SubSeqProperties
  <2> QED BY <1>0, <1>1, <1>2, <2>2
<1> QED BY <1>1, <1>2, <1>3, <1>5, <1>6

-----------------------------------------------------------------------------
(* Types and stages                                                        *)

\* A new session has the right types, and no callback runs.
LEMMA InitTyped ==
  ASSUME Init PROVE Typed /\ Staged
<1>1. memory \in [Addresses -> Nat]
  BY DEF Init, Addresses
<1>2. <<>> \in Seq(Nat) /\ <<>> \in Seq(Entries) /\ Len(<<>>) = 0
  OBVIOUS
<1>3. queries \in Seq([opcode: {handshake_hello}, block_size: 0 .. DataMax,
                       message_id: Nat, data_section: [1 .. DataMax -> Nat]])
  BY DEF Init
<1>4. /\ taken = 0 /\ reads = 1 /\ rejected = 0 /\ cuts = {} /\ bytes_in = 0
      /\ pc = "idle" /\ state = "read_header" /\ sent = <<>> /\ wire = <<>> /\ buffer = <<>>
  BY DEF Init
<1>6. overrun \in BOOLEAN
  BY DEF Init
<1>5. Typed
  BY <1>1, <1>2, <1>3, <1>4, <1>6 DEF Typed, TypeOK
<1> QED BY <1>4, <1>5 DEF Staged

\* A cleared msgbuf_in holds no valid header.
LEMMA ClearedTyped == Cleared \in [Addresses -> Nat] /\ Cleared[0] = 0 /\ Cleared[1] = 0 /\ Cleared[2] = 0
  BY DEF Cleared, Addresses

\* What is copied out of a msgbuf_in with a validated hello is a record of the right type.
LEMMA ParsedTyped ==
  ASSUME NEW mem \in [Addresses -> Nat], mem[0] = handshake_hello, mem[1] <= DataMax
  PROVE  Parsed(mem) \in [opcode: {handshake_hello}, block_size: 0 .. DataMax,
                          message_id: Nat, data_section: [1 .. DataMax -> Nat]]
<1>1. 1 \in Addresses /\ 2 \in Addresses /\ \A k \in 1 .. DataMax : HeaderSize + k - 1 \in Addresses
  BY DEF Addresses
<1>2. mem[1] \in 0 .. DataMax /\ mem[2] \in Nat
  BY <1>1
<1>3. [k \in 1 .. DataMax |-> mem[HeaderSize + k - 1]] \in [1 .. DataMax -> Nat]
  BY <1>1
<1> QED BY <1>2, <1>3 DEF Parsed

\* Keeping the cells keeps the types.
LEMMA KeptTyped ==
  ASSUME Typed, Kept, memory' \in [Addresses -> Nat], bytes_in' \in 0 .. HeaderSize + DataMax,
           overrun' \in BOOLEAN
  PROVE  Typed'
<1>1. buffer' \in Seq(Nat) /\ Len(buffer') = 0 /\ reads' \in Nat /\ taken \in Nat
  BY DEF Kept, Typed, TypeOK
<1>2. pc' = "idle" /\ UNCHANGED <<sent, wire, taken, state, queries, rejected, cuts>>
  BY DEF Kept
<1> QED BY <1>1, <1>2 DEF Typed, TypeOK

\* Every step keeps types and stages.
LEMMA TypedStep ==
  ASSUME Typed, Staged, [Next]_vars
  PROVE  Typed' /\ Staged'
<1>0. /\ wire \in Seq(Nat) /\ buffer \in Seq(Nat) /\ taken \in Nat /\ reads \in Nat /\ rejected \in Nat
      /\ pc \in {"idle", "header", "data", "closed"} /\ state \in {"read_header", "read_data"}
      /\ memory \in [Addresses -> Nat] /\ bytes_in \in 0 .. HeaderSize + DataMax
      /\ cuts \subseteq CutIn /\ overrun \in BOOLEAN
      /\ sent \in Seq(Entries) /\ Len(buffer) <= taken /\ Len(buffer) \in Nat
  BY DEF Typed, TypeOK
<1>a. 0 \in Addresses /\ 1 \in Addresses /\ 2 \in Addresses
  BY DEF Addresses
<1>1. ASSUME NEW m \in Messages, Send(m) PROVE Typed' /\ Staged'
  <2>1. Typed'
    BY <1>1, SendEffect DEF Typed, TypeOK
  <2>2. Staged'
    BY <1>1, SendEffect DEF Staged, Reading, Confused
  <2> QED BY <2>1, <2>2
<1>2. ASSUME NEW n \in 1 .. BufferSize, OnDataReceived(n) PROVE Typed' /\ Staged'
  <2>0. n \in Nat
    BY DataBound DEF BufferSize
  <2>1. n \in Nat /\ reads - 1 \in Nat /\ taken + n \in Nat /\ n <= taken + n
    <3>1. reads > 0
      BY <1>2, ReceiveEffect
    <3> QED BY <1>0, <2>0, <3>1
  <2>2. Typed'
    BY <1>0, <1>2, <2>1, ReceiveEffect DEF Typed, TypeOK
  <2>3. Staged'
    BY <1>0, <1>2, ReceiveEffect DEF Staged, Reading, Confused
  <2> QED BY <2>2, <2>3
<1>3. CASE OnReadFailed
  <2>1. reads - 1 \in Nat
    BY <1>0, <1>3 DEF OnReadFailed
  <2>2. Typed'
    BY <1>0, <1>3, <2>1 DEF OnReadFailed, Typed, TypeOK
  <2>3. Staged'
    BY <1>3 DEF OnReadFailed, Staged, Reading, Confused
  <2> QED BY <2>2, <2>3
<1>4. CASE HeaderPart
  <2>1. overrun' \in BOOLEAN
    BY <1>0, <1>4, HeaderPartEffect
  <2>2. bytes_in' \in 0 .. HeaderSize + DataMax
    BY <1>0, <1>4, HeaderPartEffect DEF Kept
  <2>3. Typed'
    BY <1>4, <2>1, <2>2, HeaderPartEffect, KeptTyped
  <2>4. Staged'
    BY <1>4, HeaderPartEffect DEF Staged, Kept
  <2> QED BY <2>3, <2>4
<1>5. CASE DataPart
  <2>1. memory'[0] = memory[0] /\ memory'[1] = memory[1] /\ memory[1] \in Nat
    BY <1>0, <1>a, <1>5, DataPartEffect
  <2>2. bytes_in' \in 0 .. HeaderSize + DataMax
    BY <1>0, <1>5, <2>1, DataPartEffect DEF Kept, Reading
  <2>3. Typed'
    BY <1>5, <2>2, DataPartEffect, KeptTyped
  <2>4. (Reading \/ Confused)'
    BY <1>0, <1>5, <2>1, DataPartEffect, SMTT(30) DEF Reading, Confused, Kept
  <2>5. Staged'
    BY <1>5, <2>4, DataPartEffect DEF Staged, Kept
  <2> QED BY <2>3, <2>5
<1>6. CASE HeaderWhole
  <2> DEFINE n   == HeaderSize - bytes_in
             mem == Moved(3 * bytes_in, n)
  <2>1. mem \in [Addresses -> Nat] /\ mem[0] \in Nat /\ mem[1] \in Nat
    BY <1>a, <1>6, HeaderWholeEffect
  <2>2. overrun' \in BOOLEAN /\ rejected' \in Nat
    BY <1>0, <1>6, HeaderWholeEffect
  <2>3. buffer' \in Seq(Nat) /\ Len(buffer') <= taken
    BY <1>0, <1>6, HeaderWholeEffect DEF Dropped
  <2>4. memory' \in [Addresses -> Nat] /\ bytes_in' \in {0, HeaderSize}
        /\ pc' \in {"header", "data"} /\ state' \in {"read_header", "read_data"}
    BY <1>6, HeaderWholeEffect, ClearedTyped
  <2>5. Typed'
    BY <1>0, <1>6, <2>2, <2>3, <2>4, HeaderWholeEffect, SMTT(30) DEF Typed, TypeOK
  <2>6. ASSUME validate_header(mem), memory' = mem, bytes_in' = HeaderSize, pc' = "data", state' = "read_data"
        PROVE  Staged'
    BY <2>1, <2>6 DEF Staged, Reading, validate_header
  <2>7. ASSUME bytes_in' = 0, pc' = "header", state' = "read_header"
        PROVE  Staged'
    BY <2>7 DEF Staged
  <2>8. ASSUME memory' = Cleared, bytes_in' = 0, pc' = "data", state' = "read_data"
        PROVE  Staged'
    BY <2>8, ClearedTyped DEF Staged, Confused
  <2> QED BY <1>6, <2>5, <2>6, <2>7, <2>8, HeaderWholeEffect
<1>7. CASE DataWhole
  <2> DEFINE mem == Moved(HeaderSize, remaining_data_size)
  <2>1. overrun' \in BOOLEAN
    BY <1>0, <1>7, DataWholeEffect
  <2>2. buffer' \in Seq(Nat) /\ Len(buffer') <= taken
    BY <1>0, <1>7, DataWholeEffect DEF Dropped
  <2>3. mem \in [Addresses -> Nat] /\ mem[0] = memory[0] /\ mem[1] = memory[1]
    BY <1>a, <1>7, DataWholeEffect
  <2> DEFINE Q == [opcode: {handshake_hello}, block_size: 0 .. DataMax,
                   message_id: Nat, data_section: [1 .. DataMax -> Nat]]
  <2>4. queries' \in Seq(Q)
    <3>1. queries \in Seq(Q)
      BY DEF Typed, TypeOK
    <3>2. CASE queries' = queries
      BY <3>1, <3>2
    <3>3. CASE Reading /\ memory[0] = handshake_hello /\ queries' = Append(queries, Parsed(mem))
      <4>1. Parsed(mem) \in Q
        BY <2>3, <3>3, ParsedTyped DEF Reading
      <4> HIDE DEF Q
      <4> QED BY <3>1, <3>3, <4>1
    <3> QED BY <1>7, <3>2, <3>3, DataWholeEffect
  <2>5. /\ memory' \in [Addresses -> Nat] /\ bytes_in' = 0 /\ state' = "read_header" /\ pc' = "header"
        /\ UNCHANGED <<sent, wire, taken, reads, rejected, cuts>>
    BY <1>7, ClearedTyped, DataWholeEffect
  <2> HIDE DEF mem
  <2>7. Typed'
    BY <1>0, <2>1, <2>2, <2>4, <2>5 DEF Typed, TypeOK
  <2>6. Staged'
    BY <1>7, DataWholeEffect DEF Staged
  <2> QED BY <2>6, <2>7
<1>8. CASE UNCHANGED vars
  BY <1>8 DEF vars, Typed, TypeOK, Staged, Reading, Confused
<1> QED BY <1>1, <1>2, <1>3, <1>4, <1>5, <1>6, <1>7, <1>8 DEF Next, Receive, Processing

-----------------------------------------------------------------------------
(* Where the messages lie in the stream                                    *)

\* The position of the first cell that is not worked off.
Pos == taken - Len(buffer)

\* The messages lie one behind the other, without gaps.
LaidOut ==
  /\ \A j \in 1 .. Len(sent) : EndOf(sent[j]) <= Total
  /\ \A i, j \in 1 .. Len(sent) : i < j => EndOf(sent[i]) <= sent[j].at
  /\ \A p \in 0 .. Total - 1 : \E j \in 1 .. Len(sent) : sent[j].at <= p /\ p < EndOf(sent[j])

\* What is in the buffer and on the wire is what was sent.
At(b, w, t, p) == IF p < t THEN b[p - (t - Len(b)) + 1] ELSE w[p - t + 1]
CellsAreSent ==
  \A j \in 1 .. Len(sent) : \A k \in 1 .. HeaderSize + sent[j].msg.block_size :
    sent[j].at + k - 1 >= Pos => At(buffer, wire, taken, sent[j].at + k - 1) = to_binary(sent[j].msg)[k]

\* A read that ended inside a message is known.
CutsKnown ==
  \A j \in 1 .. Len(sent) :
    /\ sent[j].at < taken /\ taken < sent[j].at + HeaderSize => "header" \in cuts
    /\ sent[j].at + HeaderSize < taken /\ taken < EndOf(sent[j]) => "data" \in cuts

Placed == LaidOut /\ CellsAreSent /\ CutsKnown

\* What the history says of one message.
LEMMA EntryTyped ==
  ASSUME Typed, NEW j \in 1 .. Len(sent)
  PROVE  /\ sent[j].msg \in Messages /\ sent[j].at \in Nat /\ sent[j].msg.block_size \in Nat
         /\ EndOf(sent[j]) = sent[j].at + 3 + sent[j].msg.block_size
         /\ EndOf(sent[j]) \in Nat /\ sent[j].at + 3 <= EndOf(sent[j])
<1>1. sent[j] \in Entries
  BY DEF Typed
<1>2. sent[j].msg \in Messages /\ sent[j].at \in Nat
  BY <1>1 DEF Entries
<1>3. sent[j].msg.block_size \in Nat
  BY <1>2, Written
<1> QED BY <1>2, <1>3 DEF EndOf

\* The lengths and positions are natural numbers, in this order.
LEMMA Lengths ==
  ASSUME Typed
  PROVE  /\ Len(sent) \in Nat /\ Len(wire) \in Nat /\ Len(buffer) \in Nat /\ taken \in Nat
         /\ Pos \in Nat /\ Total \in Nat /\ taken <= Total /\ Pos <= taken /\ bytes_in \in Nat
  BY DEF Typed, TypeOK, Pos, Total

\* The cell of a message that is still to be read, by its position.
LEMMA CellOf ==
  ASSUME Typed, Placed, NEW j \in 1 .. Len(sent), NEW k \in 1 .. HeaderSize + sent[j].msg.block_size,
         NEW p, p = sent[j].at + k - 1, p >= Pos
  PROVE  p \in Nat /\ p < Total /\ At(buffer, wire, taken, p) = to_binary(sent[j].msg)[k]
<1>1. /\ sent[j].at \in Nat /\ sent[j].msg.block_size \in Nat
      /\ EndOf(sent[j]) = sent[j].at + 3 + sent[j].msg.block_size
  BY EntryTyped
<1>2. EndOf(sent[j]) <= Total /\ Total \in Nat
  BY Lengths DEF Placed, LaidOut
<1>3. p \in Nat /\ p < Total
  <2>1. k \in Nat /\ 1 <= k /\ k <= 3 + sent[j].msg.block_size
    BY <1>1
  <2>2. p \in Nat /\ p < EndOf(sent[j])
    BY <1>1, <2>1, SMTT(30)
  <2> QED BY <1>2, <2>2, EntryTyped
<1>4. At(buffer, wire, taken, p) = to_binary(sent[j].msg)[k]
  BY DEF Placed, CellsAreSent
<1> QED BY <1>3, <1>4

\* While nothing is sent, what is to be read stays what it is.
LEMMA CellsKeep ==
  ASSUME Typed, Placed, sent' = sent, Pos' >= Pos, Pos' \in Nat,
         \A p \in Nat : Pos' <= p /\ p < Total => At(buffer', wire', taken', p) = At(buffer, wire, taken, p)
  PROVE  CellsAreSent'
<1>1. ASSUME NEW j \in 1 .. Len(sent), NEW k \in 1 .. HeaderSize + sent[j].msg.block_size,
        sent[j].at + k - 1 >= Pos'
      PROVE  At(buffer', wire', taken', sent[j].at + k - 1) = to_binary(sent[j].msg)[k]
  <2> DEFINE p == sent[j].at + k - 1
  <2>1. p >= Pos
    BY <1>1, Lengths, EntryTyped, SMTT(30)
  <2>2. p \in Nat /\ p < Total /\ At(buffer, wire, taken, p) = to_binary(sent[j].msg)[k]
    BY <2>1, CellOf
  <2> HIDE DEF p
  <2>3. p >= Pos'
    BY <1>1 DEF p
  <2> QED BY <2>2, <2>3 DEF p
<1> QED BY <1>1 DEF CellsAreSent

\* A new message lies behind all the others.
LEMMA SendPlaced ==
  ASSUME Typed, Placed, NEW m \in Messages, Send(m)
  PROVE  Placed' /\ Pos' = Pos /\ Total' = Total + HeaderSize + m.block_size
<1> DEFINE L == Len(sent)
           e == [msg |-> m, at |-> Total]
           b == m.block_size
<1>0. L \in Nat /\ Len(wire) \in Nat /\ taken \in Nat /\ Pos \in Nat /\ Total \in Nat /\ b \in Nat
      /\ Total = taken + Len(wire) /\ Pos <= taken
  BY Lengths, Written DEF Total
<1>1. /\ Len(sent') = L + 1 /\ sent'[L + 1] = e
      /\ \A j \in 1 .. L : sent'[j] = sent[j]
      /\ Len(wire') = Len(wire) + HeaderSize + b
      /\ \A k \in 1 .. Len(wire) : wire'[k] = wire[k]
      /\ \A k \in 1 .. HeaderSize + b : wire'[Len(wire) + k] = to_binary(m)[k]
      /\ taken' = taken /\ buffer' = buffer /\ cuts' = cuts
  BY SendEffect
<1>2. e.msg = m /\ e.at = Total /\ EndOf(e) = Total + HeaderSize + b
  BY <1>0 DEF EndOf
<1> HIDE DEF e, b
<1>3. Pos' = Pos /\ Total' = Total + HeaderSize + b
  <2>1. Total' = taken' + Len(wire')
    BY DEF Total
  <2>2. Pos' = taken' - Len(buffer')
    BY DEF Pos
  <2>3. Pos' = Pos
    BY <1>1, <2>2 DEF Pos
  <2>4. Total' = taken + (Len(wire) + HeaderSize + b)
    BY <1>1, <2>1
  <2> QED BY <1>0, <2>3, <2>4
<1>4. \A j \in 1 .. Len(sent') : (j \in 1 .. L /\ sent'[j] = sent[j]) \/ (j = L + 1 /\ sent'[j] = e)
  BY <1>0, <1>1
<1>5. \A j \in 1 .. L : sent[j].at \in Nat /\ EndOf(sent[j]) \in Nat /\ EndOf(sent[j]) <= Total
  BY EntryTyped DEF Placed, LaidOut
<1>6. LaidOut'
  <2>1. ASSUME NEW j \in 1 .. Len(sent') PROVE EndOf(sent'[j]) <= Total'
    <3>1. CASE sent'[j] = e
      BY <1>2, <1>3, <3>1, <1>0
    <3>2. CASE j \in 1 .. L /\ sent'[j] = sent[j]
      <4>1. EndOf(sent'[j]) <= Total /\ EndOf(sent'[j]) \in Nat
        BY <1>5, <3>2
      <4> QED BY <1>0, <1>3, <4>1
    <3> QED BY <1>4, <3>1, <3>2
  <2>2. ASSUME NEW i \in 1 .. Len(sent'), NEW j \in 1 .. Len(sent'), i < j
        PROVE  EndOf(sent'[i]) <= sent'[j].at
    <3>1. i \in 1 .. L /\ sent'[i] = sent[i]
      BY <1>0, <1>1, <2>2
    <3>2. CASE sent'[j] = e
      BY <1>2, <1>5, <3>1, <3>2
    <3>3. CASE j \in 1 .. L /\ sent'[j] = sent[j]
      BY <2>2, <3>1, <3>3 DEF Placed, LaidOut
    <3> QED BY <1>4, <3>2, <3>3
  <2>3. ASSUME NEW p \in 0 .. Total' - 1
        PROVE  \E j \in 1 .. Len(sent') : sent'[j].at <= p /\ p < EndOf(sent'[j])
    <3>1. CASE p < Total
      <4>1. p \in 0 .. Total - 1
        BY <1>0, <1>3, <3>1
      <4>2. PICK j \in 1 .. L : sent[j].at <= p /\ p < EndOf(sent[j])
        BY <4>1 DEF Placed, LaidOut
      <4>3. j \in 1 .. Len(sent') /\ sent'[j] = sent[j]
        BY <1>0, <1>1
      <4> QED BY <4>2, <4>3
    <3>2. CASE p >= Total
      <4>1. L + 1 \in 1 .. Len(sent') /\ sent'[L + 1] = e
        BY <1>0, <1>1
      <4>2. e.at <= p /\ p < EndOf(e)
        BY <1>0, <1>2, <1>3, <3>2
      <4> QED BY <4>1, <4>2
    <3> QED BY <1>0, <1>3, <3>1, <3>2
  <2> QED BY <2>1, <2>2, <2>3 DEF LaidOut, EndOf
<1>7. CellsAreSent'
  <2>1. ASSUME NEW j \in 1 .. Len(sent'), NEW k \in 1 .. HeaderSize + sent'[j].msg.block_size,
               NEW p, p = sent'[j].at + k - 1, p >= Pos
        PROVE  At(buffer', wire', taken', p) = to_binary(sent'[j].msg)[k]
    <3>1. CASE j \in 1 .. L /\ sent'[j] = sent[j]
      <4>1. p \in Nat /\ p < Total /\ At(buffer, wire, taken, p) = to_binary(sent[j].msg)[k]
        BY <2>1, <3>1, CellOf
      <4>2. ~(p < taken) => p - taken + 1 \in 1 .. Len(wire)
        BY <1>0, <4>1
      <4>3. At(buffer', wire', taken', p) = At(buffer, wire, taken, p)
        BY <1>1, <4>2 DEF At
      <4> QED BY <3>1, <4>1, <4>3
    <3>2. CASE j = L + 1 /\ sent'[j] = e
      <4>1. k \in 1 .. HeaderSize + b /\ p = Total + k - 1
        BY <1>2, <2>1, <3>2 DEF b
      <4>2. ~(p < taken) /\ p - taken + 1 = Len(wire) + k
        BY <1>0, <4>1
      <4>3. At(buffer', wire', taken', p) = wire'[Len(wire) + k]
        BY <1>1, <4>2 DEF At
      <4> QED BY <1>1, <1>2, <3>2, <4>1, <4>3
    <3> QED BY <1>4, <3>1, <3>2
  <2> QED BY <1>3, <2>1 DEF CellsAreSent
<1>8. CutsKnown'
  <2>1. ASSUME NEW j \in 1 .. Len(sent')
        PROVE  /\ sent'[j].at < taken /\ taken < sent'[j].at + HeaderSize => "header" \in cuts
               /\ sent'[j].at + HeaderSize < taken /\ taken < EndOf(sent'[j]) => "data" \in cuts
    <3>1. CASE j \in 1 .. L /\ sent'[j] = sent[j]
      BY <3>1 DEF Placed, CutsKnown
    <3>2. CASE sent'[j] = e
      BY <1>0, <1>2, <3>2
    <3> QED BY <1>4, <3>1, <3>2
  <2> QED BY <1>1, <2>1 DEF CutsKnown, EndOf
<1> QED BY <1>3, <1>6, <1>7, <1>8 DEF Placed, b

\* A place inside a message is noted.
LEMMA InsideTells ==
  ASSUME Typed, NEW q \in Nat, NEW j \in 1 .. Len(sent)
  PROVE  /\ sent[j].at < q /\ q < sent[j].at + HeaderSize => "header" \in Inside(q)
         /\ sent[j].at + HeaderSize < q /\ q < EndOf(sent[j]) => "data" \in Inside(q)
<1> DEFINE part(i) == LET off == q - sent[i].at IN
                      IF 0 < off /\ off < HeaderSize THEN {"header"}
                      ELSE IF HeaderSize < off /\ off < HeaderSize + sent[i].msg.block_size THEN {"data"}
                      ELSE {}
<1>1. sent[j].at \in Nat /\ sent[j].msg.block_size \in Nat
        /\ EndOf(sent[j]) = sent[j].at + 3 + sent[j].msg.block_size
  BY EntryTyped
<1>2. ASSUME sent[j].at < q, q < sent[j].at + HeaderSize PROVE "header" \in part(j)
  <2>1. 0 < q - sent[j].at /\ q - sent[j].at < HeaderSize
    BY <1>1, <1>2
  <2> QED BY <2>1
<1>3. ASSUME sent[j].at + HeaderSize < q, q < EndOf(sent[j]) PROVE "data" \in part(j)
  <2>1. ~(q - sent[j].at < HeaderSize) /\ HeaderSize < q - sent[j].at
        /\ q - sent[j].at < HeaderSize + sent[j].msg.block_size
    BY <1>1, <1>3
  <2> QED BY <2>1
<1>4. Inside(q) = UNION {part(i) : i \in 1 .. Len(sent)}
  BY Zenon DEF Inside
<1> HIDE DEF part
<1> QED BY <1>2, <1>3, <1>4

\* A read moves cells from the wire into the empty buffer.
LEMMA ReceivePlaced ==
  ASSUME Typed, Staged, Placed, NEW n \in 1 .. BufferSize, OnDataReceived(n)
  PROVE  Placed' /\ Pos' = Pos /\ Total' = Total /\ Pos = taken
<1>1. /\ n <= Len(wire) /\ Len(buffer') = n /\ Len(wire') = Len(wire) - n /\ taken' = taken + n
      /\ \A k \in 1 .. n : buffer'[k] = wire[k]
      /\ \A k \in 1 .. Len(wire) - n : wire'[k] = wire[k + n]
      /\ sent' = sent /\ cuts' = cuts \cup Inside(taken + n) /\ buffer = <<>>
  BY ReceiveEffect
<1>0. n \in Nat /\ n > 0 /\ Len(wire) \in Nat /\ taken \in Nat /\ Len(buffer) = 0 /\ Pos = taken
        /\ Total = taken + Len(wire)
  <2>1. BufferSize \in Nat
    BY DataBound DEF BufferSize
  <2>2. Len(buffer) = 0
    BY <1>1
  <2> QED BY <2>1, <2>2, Lengths DEF Pos, Total
<1>2. Pos' = Pos /\ Total' = Total
  <2>1. Total' = taken' + Len(wire') /\ Pos' = taken' - Len(buffer')
    BY DEF Total, Pos
  <2> QED BY <1>0, <1>1, <2>1
<1>3. LaidOut'
  BY <1>1, <1>2 DEF Placed, LaidOut, EndOf
<1>4. CellsAreSent'
  <2>1. ASSUME NEW p \in Nat, Pos <= p, p < Total
        PROVE  At(buffer', wire', taken', p) = At(buffer, wire, taken, p)
    <3>3. At(buffer, wire, taken, p) = wire[p - taken + 1]
      BY <1>0, <2>1 DEF At
    <3>4. CASE p < taken + n
      <4>1. p - taken + 1 \in 1 .. n /\ p - (taken + n - n) + 1 = p - taken + 1
        BY <1>0, <2>1, <3>4
      <4>2. At(buffer', wire', taken', p) = buffer'[p - (taken + n - n) + 1]
        BY <1>0, <1>1, <2>1, <3>4 DEF At
      <4> QED BY <1>1, <3>3, <4>1, <4>2
    <3>5. CASE ~(p < taken + n)
      <4>1. p - (taken + n) + 1 \in 1 .. Len(wire) - n /\ p - (taken + n) + 1 + n = p - taken + 1
        BY <1>0, <1>1, <2>1, <3>5
      <4>2. At(buffer', wire', taken', p) = wire'[p - (taken + n) + 1]
        BY <1>1, <3>5 DEF At
      <4> QED BY <1>1, <3>3, <4>1, <4>2
    <3> QED BY <3>4, <3>5
  <2>2. Pos' \in Nat /\ Pos' >= Pos
    BY <1>0, <1>2
  <2> QED BY <1>1, <1>2, <2>1, <2>2, CellsKeep
<1>5. CutsKnown'
  <2>0. taken + n \in Nat
    BY <1>0
  <2>1. ASSUME NEW j \in 1 .. Len(sent)
        PROVE  /\ sent[j].at < taken + n /\ taken + n < sent[j].at + HeaderSize
                    => "header" \in Inside(taken + n)
               /\ sent[j].at + HeaderSize < taken + n /\ taken + n < EndOf(sent[j])
                    => "data" \in Inside(taken + n)
    BY <2>0, InsideTells
  <2> QED BY <1>1, <2>1 DEF CutsKnown, EndOf
<1> QED BY <1>0, <1>2, <1>3, <1>4, <1>5 DEF Placed

\* Dropping cells from the buffer moves Pos on.
LEMMA DropPlaced ==
  ASSUME Typed, Placed, NEW n, Dropped(n), UNCHANGED <<sent, wire, taken, cuts>>
  PROVE  Placed' /\ Pos' = Pos + n /\ Total' = Total
<1>0. n \in Nat /\ Len(buffer) \in Nat /\ taken \in Nat /\ Pos = taken - Len(buffer)
        /\ n <= Len(buffer) /\ Pos \in Nat
  BY Lengths DEF Dropped, Pos
<1>1. Pos' = Pos + n /\ Total' = Total
  <2>1. Pos' = taken' - Len(buffer') /\ Total' = taken' + Len(wire')
    BY DEF Pos, Total
  <2> QED BY <1>0, <2>1 DEF Dropped, Total
<1>2. LaidOut' /\ CutsKnown'
  BY <1>1 DEF Placed, LaidOut, CutsKnown, EndOf
<1>3. CellsAreSent'
  <2>1. ASSUME NEW p \in Nat, Pos + n <= p
        PROVE  At(buffer', wire', taken', p) = At(buffer, wire, taken, p)
    <3>2. CASE p < taken
      <4> DEFINE k == p - (taken - (Len(buffer) - n)) + 1
      <4>1. k \in 1 .. Len(buffer) - n /\ k + n = p - (taken - Len(buffer)) + 1
        BY <1>0, <2>1, <3>2
      <4>2. At(buffer', wire', taken', p) = buffer'[k] /\
              At(buffer, wire, taken, p) = buffer[p - (taken - Len(buffer)) + 1]
        BY <3>2 DEF At, Dropped
      <4> HIDE DEF k
      <4>3. buffer'[k] = buffer[k + n]
        BY <4>1 DEF Dropped
      <4> QED BY <4>1, <4>2, <4>3
    <3>3. CASE ~(p < taken)
      BY <3>3 DEF At
    <3> QED BY <3>2, <3>3
  <2>2. Pos' \in Nat /\ Pos' >= Pos
    BY <1>0, <1>1
  <2> QED BY <1>1, <2>1, <2>2, CellsKeep
<1> QED BY <1>1, <1>2, <1>3 DEF Placed

\* Keeping the cells drops them all.
LEMMA KeptDrops ==
  ASSUME Typed, Kept
  PROVE  Dropped(Len(buffer))
<1>1. Len(buffer) \in Nat /\ buffer' \in Seq(Nat) /\ Len(buffer') = 0
  BY Lengths DEF Kept
<1> QED BY <1>1 DEF Dropped

-----------------------------------------------------------------------------
(* In step with the stream                                                 *)

\* The position of the first cell of the message that is being read.
Base == Pos - bytes_in

\* No abnormal header, no read that ended inside one, no memmove out of msgbuf_in.
Sound == AllWellFormed /\ cuts \subseteq {"data"} /\ ~overrun

\* A message starts at p, or will.
Starts(p) == p = Total \/ \E j \in 1 .. Len(sent) : sent[j].at = p

HeaderIs(mem, m) == mem[0] = m.opcode /\ mem[1] = m.block_size /\ mem[2] = m.message_id

\* Between messages nothing is counted; inside one its header is in msgbuf_in.
InPhase ==
  /\ state = "read_header" => bytes_in = 0 /\ Starts(Pos)
  /\ state = "read_data" => /\ HeaderSize <= bytes_in
                            /\ \E j \in 1 .. Len(sent) : sent[j].at = Base /\ HeaderIs(memory, sent[j].msg)

\* What is worked off was handed over, if it was a hello.
Worked == {j \in Hellos : EndOf(sent[j]) <= Base}
Handed ==
  /\ Len(queries) = Cardinality(Worked)
  /\ \A j \in Worked : SameHeader(queries[Rank(j)], sent[j].msg)

Followed == Sound => InPhase /\ Handed

\* Once out of step, never in step again.
LEMMA SoundBefore ==
  ASSUME Typed, Staged, [Next]_vars, Sound' PROVE Sound
<1>1. ASSUME NEW m \in Messages, Send(m) PROVE Sound
  <2>1. \A j \in 1 .. Len(sent) : j \in 1 .. Len(sent') /\ sent'[j] = sent[j]
    <3>1. Len(sent') = Len(sent) + 1 /\ \A j \in 1 .. Len(sent) : sent'[j] = sent[j]
      BY <1>1, SendEffect
    <3> QED BY <3>1, Lengths
  <2>2. cuts' = cuts /\ overrun' = overrun
    BY <1>1, SendEffect
  <2> QED BY <2>1, <2>2 DEF Sound, AllWellFormed
<1>2. ASSUME NEW n \in 1 .. BufferSize, OnDataReceived(n) PROVE Sound
  BY <1>2, ReceiveEffect DEF Sound, AllWellFormed
<1>3. CASE OnReadFailed
  BY <1>3 DEF OnReadFailed, Sound, AllWellFormed
<1>4. CASE HeaderPart
  BY <1>4, HeaderPartEffect DEF Kept, Sound, AllWellFormed
<1>5. CASE DataPart
  BY <1>5, DataPartEffect DEF Kept, Sound, AllWellFormed
<1>6. CASE HeaderWhole
  BY <1>6, HeaderWholeEffect DEF Sound, AllWellFormed
<1>7. CASE DataWhole
  BY <1>7, DataWholeEffect DEF Sound, AllWellFormed
<1>8. CASE UNCHANGED vars
  BY <1>8 DEF vars, Sound, AllWellFormed
<1> QED BY <1>1, <1>2, <1>3, <1>4, <1>5, <1>6, <1>7, <1>8 DEF Next, Receive, Processing

\* The order of two messages.
LEMMA Order ==
  ASSUME Typed, LaidOut, NEW i \in 1 .. Len(sent), NEW j \in 1 .. Len(sent)
  PROVE  /\ i < j => EndOf(sent[i]) <= sent[j].at
         /\ EndOf(sent[i]) <= sent[j].at => i < j
         /\ EndOf(sent[i]) <= EndOf(sent[j]) <=> i <= j
         /\ sent[j].at < EndOf(sent[i]) /\ sent[i].at < EndOf(sent[j]) => i = j
<1>1. /\ sent[i].at \in Nat /\ EndOf(sent[i]) \in Nat /\ sent[i].at < EndOf(sent[i])
      /\ sent[j].at \in Nat /\ EndOf(sent[j]) \in Nat /\ sent[j].at < EndOf(sent[j])
  BY EntryTyped
<1>2. i \in Nat /\ j \in Nat
  BY Lengths
<1>3. /\ i < j => EndOf(sent[i]) <= sent[j].at
      /\ j < i => EndOf(sent[j]) <= sent[i].at
  BY DEF LaidOut
<1>4. i < j \/ j < i \/ i = j
  BY <1>2
<1>5. CASE i < j
  BY <1>1, <1>2, <1>3, <1>5
<1>6. CASE j < i
  BY <1>1, <1>2, <1>3, <1>6
<1>7. CASE i = j
  BY <1>1, <1>2, <1>7
<1> QED BY <1>4, <1>5, <1>6, <1>7

\* Behind a message the next one starts.
LEMMA NextStarts ==
  ASSUME Typed, LaidOut, NEW j \in 1 .. Len(sent)
  PROVE  Starts(EndOf(sent[j]))
<1> DEFINE p == EndOf(sent[j])
<1>1. p \in Nat /\ p <= Total /\ Total \in Nat
  BY EntryTyped, Lengths DEF LaidOut
<1>2. CASE p = Total
  BY <1>2 DEF Starts
<1>3. CASE p # Total
  <2>1. p \in 0 .. Total - 1
    BY <1>1, <1>3
  <2>2. PICK i \in 1 .. Len(sent) : sent[i].at <= p /\ p < EndOf(sent[i])
    BY <2>1 DEF LaidOut
  <2>3. /\ sent[i].at \in Nat /\ EndOf(sent[i]) \in Nat /\ sent[j].at \in Nat /\ sent[j].at < p
    BY EntryTyped
  <2>4. j < i
    <3>1. ~(EndOf(sent[i]) <= EndOf(sent[j]))
      BY <1>1, <2>2, <2>3
    <3>2. ~(i <= j)
      BY <3>1, Order
    <3> QED BY <3>2, Lengths
  <2>5. p <= sent[i].at
    BY <2>4, Order
  <2>6. sent[i].at = p
    BY <1>1, <2>2, <2>3, <2>5
  <2> QED BY <2>6 DEF Starts
<1> QED BY <1>2, <1>3

\* When a message starts at Pos, the buffer is empty or holds the whole header.
LEMMA HeaderAhead ==
  ASSUME Typed, Placed, Starts(Pos), "header" \notin cuts, Len(buffer) # 0
  PROVE  \E j \in 1 .. Len(sent) :
           /\ sent[j].at = Pos /\ Len(buffer) >= HeaderSize
           /\ buffer[1] = sent[j].msg.opcode /\ buffer[2] = sent[j].msg.block_size
           /\ buffer[3] = sent[j].msg.message_id
<1>1. /\ Len(buffer) \in Nat /\ taken \in Nat /\ Pos \in Nat /\ Total \in Nat /\ taken <= Total
      /\ Pos = taken - Len(buffer) /\ Pos < taken
  BY Lengths DEF Pos
<1>2. PICK j \in 1 .. Len(sent) : sent[j].at = Pos
  BY <1>1 DEF Starts
<1>3. Len(buffer) >= HeaderSize
  BY <1>1, <1>2 DEF Placed, CutsKnown
<1>4. ASSUME NEW k \in 1 .. 3 PROVE buffer[k] = to_binary(sent[j].msg)[k]
  <2>1. k \in 1 .. HeaderSize + sent[j].msg.block_size
    BY EntryTyped
  <2>2. At(buffer, wire, taken, Pos + k - 1) = to_binary(sent[j].msg)[k]
    <3>1. Pos + k - 1 >= Pos
      BY <1>1
    <3> QED BY <1>2, <2>1, <3>1, CellOf
  <2> DEFINE p == Pos + k - 1
  <2>3. p < taken /\ p - (taken - Len(buffer)) + 1 = k
    BY <1>1, <1>3
  <2> HIDE DEF p
  <2>4. At(buffer, wire, taken, p) = buffer[p - (taken - Len(buffer)) + 1]
    BY <2>3 DEF At
  <2>5. buffer[p - (taken - Len(buffer)) + 1] = buffer[k]
    BY <2>3
  <2> QED BY <2>2, <2>4, <2>5 DEF p
<1>5. /\ to_binary(sent[j].msg)[1] = sent[j].msg.opcode /\ to_binary(sent[j].msg)[2] = sent[j].msg.block_size
      /\ to_binary(sent[j].msg)[3] = sent[j].msg.message_id
  BY EntryTyped, Written
<1> QED BY <1>2, <1>3, <1>4, <1>5

\* While messages stay and nothing is worked off, nothing more is handed over.
LEMMA HandedSame ==
  ASSUME Handed, UNCHANGED <<sent, queries>>, Base' = Base
  PROVE  Handed'
<1>1. Hellos' = Hellos
  BY DEF Hellos
<1>2. Worked' = Worked
  BY <1>1 DEF Worked, EndOf
<1>3. \A j : Rank(j)' = Rank(j)
  BY <1>1 DEF Rank
<1> QED BY <1>2, <1>3 DEF Handed, SameHeader

\* Sending disturbs neither the phase nor what was handed over.
LEMMA SendFollowed ==
  ASSUME Typed, Placed, InPhase, Handed, NEW m \in Messages, Send(m)
  PROVE  InPhase' /\ Handed'
<1> DEFINE L == Len(sent)
<1>1. /\ Len(sent') = L + 1 /\ sent'[L + 1] = [msg |-> m, at |-> Total]
      /\ \A j \in 1 .. L : sent'[j] = sent[j]
      /\ UNCHANGED <<state, memory, bytes_in, queries>>
  BY SendEffect
<1>2. Pos' = Pos /\ Base' = Base
  BY <1>1, SendPlaced DEF Base
<1>3. L \in Nat /\ Total \in Nat /\ Pos \in Nat /\ bytes_in \in Nat /\ Pos <= Total /\ Base <= Total
        /\ m.block_size \in Nat
  BY Lengths, Written DEF Base
<1>4. \A j \in 1 .. L : j \in 1 .. Len(sent') /\ sent'[j] = sent[j]
  BY <1>1, <1>3
<1>5. InPhase'
  <2>1. ASSUME Starts(Pos) PROVE Starts(Pos)'
    <3>1. CASE Pos = Total
      <4>1. L + 1 \in 1 .. Len(sent') /\ sent'[L + 1].at = Pos'
        BY <1>1, <1>2, <1>3, <3>1
      <4> QED BY <4>1 DEF Starts
    <3>2. CASE \E j \in 1 .. L : sent[j].at = Pos
      BY <1>2, <1>4, <3>2 DEF Starts
    <3> QED BY <2>1, <3>1, <3>2 DEF Starts
  <2>2. ASSUME NEW j \in 1 .. L, sent[j].at = Base /\ HeaderIs(memory, sent[j].msg)
        PROVE  \E i \in 1 .. Len(sent') : sent'[i].at = Base' /\ HeaderIs(memory', sent'[i].msg)
    <3>1. HeaderIs(memory', sent'[j].msg)
      BY <1>1, <1>4, <2>2 DEF HeaderIs
    <3> QED BY <1>2, <1>4, <2>2, <3>1
  <2> QED BY <1>1, <2>1, <2>2 DEF InPhase
<1>6. Handed'
  <2>1. \A j \in 1 .. Len(sent') : (j \in 1 .. L /\ sent'[j] = sent[j])
          \/ (j = L + 1 /\ EndOf(sent'[j]) > Base)
    <3>1. EndOf([msg |-> m, at |-> Total]) = Total + 3 + m.block_size
      BY <1>3 DEF EndOf
    <3>2. EndOf(sent'[L + 1]) > Base
      <4>1. Base \in Int
        BY <1>3 DEF Base
      <4> QED BY <1>1, <1>3, <3>1, <4>1
    <3> QED BY <1>1, <1>3, <3>2
  <2>2. \A i \in 1 .. L : i \in Hellos' <=> i \in Hellos
    BY <1>4 DEF Hellos
  <2>3. Worked' = Worked
    <3>1. \A j : EndOf(j)' = EndOf(j)
      BY DEF EndOf
    <3>2. Hellos' \subseteq 1 .. Len(sent') /\ Hellos \subseteq 1 .. L
      BY DEF Hellos
    <3>3. Worked' = {j \in Hellos' : EndOf(sent'[j]) <= Base}
      BY <1>2 DEF Worked, EndOf
    <3>4. ASSUME NEW j \in Worked' PROVE j \in Worked
      <4>1. j \in Hellos' /\ j \in 1 .. Len(sent') /\ EndOf(sent'[j]) <= Base
        BY <3>2, <3>3, <3>4
      <4>2. j \in 1 .. L
        <5>1. j = L + 1 => FALSE
          <6>1. Base \in Int /\ EndOf(sent'[L + 1]) \in Int
            BY <1>1, <1>3 DEF Base, EndOf
          <6> QED BY <2>1, <1>3, <4>1, <6>1
        <5> QED BY <2>1, <4>1, <5>1
      <4> QED BY <1>4, <2>2, <4>1, <4>2 DEF Worked
    <3>5. ASSUME NEW j \in Worked PROVE j \in Worked'
      BY <1>4, <2>2, <3>2, <3>3, <3>5 DEF Worked
    <3> QED BY <3>4, <3>5
  <2>4. ASSUME NEW j \in Worked PROVE Rank(j)' = Rank(j) /\ sent'[j] = sent[j]
    <3>1. j \in 1 .. L
      BY DEF Worked, Hellos
    <3>2. Hellos' \subseteq Nat /\ Hellos \subseteq 1 .. L /\ Hellos' \subseteq 1 .. Len(sent')
      BY <1>1, <1>3 DEF Hellos
    <3>3. \A i \in Nat : i <= j /\ i \in 1 .. Len(sent') => i \in 1 .. L
      BY <1>3, <3>1
    <3>4. {i \in Hellos' : i <= j} = {i \in Hellos : i <= j}
      BY <1>4, <2>2, <3>2, <3>3
    <3> QED BY <1>4, <3>1, <3>4 DEF Rank
  <2> QED BY <1>1, <2>3, <2>4 DEF Handed, SameHeader
<1> QED BY <1>5, <1>6

\* Reading disturbs neither.
LEMMA ReceiveFollowed ==
  ASSUME Typed, Staged, Placed, InPhase, Handed, NEW n \in 1 .. BufferSize, OnDataReceived(n)
  PROVE  InPhase' /\ Handed'
<1>1. UNCHANGED <<sent, state, memory, bytes_in, queries>>
  BY ReceiveEffect
<1>2. Pos' = Pos /\ Total' = Total /\ Base' = Base
  BY <1>1, ReceivePlaced DEF Base
<1>3. InPhase'
  BY <1>1, <1>2 DEF InPhase, Starts, HeaderIs
<1> QED BY <1>1, <1>2, <1>3, HandedSame

\* In phase, part of a header is none of it.
LEMMA HeaderPartFollowed ==
  ASSUME Typed, Staged, Placed, Sound, InPhase, Handed, HeaderPart
  PROVE  InPhase' /\ Handed'
<1>1. state = "read_header" /\ bytes_in = 0 /\ Starts(Pos)
  BY HeaderPartEffect DEF InPhase
<1>2. Len(buffer) = 0
  <2>1. bytes_in' = bytes_in + Len(buffer) /\ bytes_in' < HeaderSize
    BY HeaderPartEffect DEF Kept
  <2>2. Len(buffer) < HeaderSize /\ Len(buffer) \in Nat
    BY <1>1, <2>1, Lengths
  <2>3. "header" \notin cuts
    BY DEF Sound
  <2>4. ASSUME Len(buffer) # 0 PROVE FALSE
    <3>1. Len(buffer) >= HeaderSize
      BY <1>1, <2>3, <2>4, HeaderAhead
    <3> QED BY <2>2, <3>1
  <2> QED BY <2>4
<1>3. /\ UNCHANGED <<sent, wire, taken, state, queries, cuts>> /\ bytes_in' = 0
  BY <1>1, <1>2, HeaderPartEffect DEF Kept
<1>4. Pos' = Pos /\ Total' = Total /\ Base' = Base
  <2>1. Dropped(Len(buffer))
    BY HeaderPartEffect, KeptDrops
  <2>2. Pos' = Pos + Len(buffer) /\ Total' = Total
    BY <1>3, <2>1, DropPlaced
  <2> QED BY <1>1, <1>2, <1>3, <2>2, Lengths DEF Base
<1>5. InPhase'
  BY <1>1, <1>3, <1>4 DEF InPhase, Starts
<1> QED BY <1>3, <1>4, <1>5, HandedSame

\* In phase, a whole header is that of the message that starts there.
LEMMA HeaderWholeFollowed ==
  ASSUME Typed, Staged, Placed, Sound, InPhase, Handed, HeaderWhole
  PROVE  /\ InPhase' /\ Handed'
         /\ bytes_in' = HeaderSize /\ state' = "read_data" /\ Base' = Base
<1>1. state = "read_header" /\ bytes_in = 0 /\ Starts(Pos) /\ "header" \notin cuts
  BY HeaderWholeEffect DEF InPhase, Sound
<1>2. HeaderSize - bytes_in = HeaderSize /\ 3 * bytes_in = 0
  BY <1>1
<1>3. /\ Dropped(HeaderSize) /\ UNCHANGED <<sent, wire, taken, queries, cuts>>
      /\ Moved(0, HeaderSize) \in [Addresses -> Nat]
      /\ validate_header(Moved(0, HeaderSize)) =>
           memory' = Moved(0, HeaderSize) /\ bytes_in' = HeaderSize /\ state' = "read_data"
  BY <1>2, HeaderWholeEffect
<1>4. HeaderSize <= Len(buffer) /\ Len(buffer) \in Nat
  BY <1>3, Lengths DEF Dropped
<1>5. PICK j \in 1 .. Len(sent) :
        /\ sent[j].at = Pos /\ buffer[1] = sent[j].msg.opcode /\ buffer[2] = sent[j].msg.block_size
        /\ buffer[3] = sent[j].msg.message_id
  BY <1>1, <1>4, HeaderAhead
<1> DEFINE mem == Moved(0, HeaderSize)
<1>6. mem[0] = buffer[1] /\ mem[1] = buffer[2] /\ mem[2] = buffer[3]
  <2>1. \A a \in Addresses : mem[a] = IF 0 <= a /\ a < 0 + HeaderSize THEN buffer[a - 0 + 1] ELSE memory[a]
    <3>1. 0 \in Nat /\ HeaderSize \in 0 .. Len(buffer) /\ 0 + HeaderSize <= HeaderSize + DataMax
      BY <1>4
    <3> QED BY <3>1, MovedCells
  <2>2. 0 \in Addresses /\ 1 \in Addresses /\ 2 \in Addresses
    BY DEF Addresses
  <2>3. mem[0] = buffer[0 - 0 + 1] /\ mem[1] = buffer[1 - 0 + 1] /\ mem[2] = buffer[2 - 0 + 1]
    BY <2>1, <2>2
  <2> QED BY <2>3
<1>7. validate_header(mem)
  BY <1>5, <1>6 DEF validate_header, Sound, AllWellFormed
<1>8. memory' = mem /\ bytes_in' = HeaderSize /\ state' = "read_data"
  BY <1>3, <1>7
<1>9. Base' = Base /\ Base = Pos
  <2>1. Pos' = Pos + HeaderSize
    BY <1>3, DropPlaced
  <2> QED BY <1>1, <1>8, <2>1, Lengths DEF Base
<1> HIDE DEF mem
<1>10. InPhase'
  <2>1. sent'[j].at = Base' /\ HeaderIs(memory', sent'[j].msg)
    BY <1>3, <1>5, <1>6, <1>8, <1>9 DEF HeaderIs
  <2> QED BY <1>3, <1>8, <2>1 DEF InPhase
<1> QED BY <1>3, <1>8, <1>9, <1>10, HandedSame

\* Part of the data moves on inside the message.
LEMMA DataPartFollowed ==
  ASSUME Typed, Staged, Placed, InPhase, Handed, DataPart
  PROVE  InPhase' /\ Handed' /\ Base' = Base
<1>1. /\ state = "read_data" /\ UNCHANGED <<sent, wire, taken, state, queries, cuts>>
      /\ bytes_in' = bytes_in + Len(buffer)
      /\ \A a \in Addresses : a < HeaderSize => memory'[a] = memory[a]
  BY DataPartEffect DEF Kept
<1>2. memory'[0] = memory[0] /\ memory'[1] = memory[1] /\ memory'[2] = memory[2]
  <2>1. 0 \in Addresses /\ 1 \in Addresses /\ 2 \in Addresses
    BY DEF Addresses
  <2> QED BY <1>1, <2>1
<1>3. Base' = Base
  <2>1. Dropped(Len(buffer))
    BY DataPartEffect, KeptDrops
  <2>2. Pos' = Pos + Len(buffer)
    BY <1>1, <2>1, DropPlaced
  <2> QED BY <1>1, <2>2, Lengths DEF Base
<1>4. HeaderSize <= bytes_in'
  BY <1>1, Lengths DEF InPhase
<1>5. InPhase'
  BY <1>1, <1>2, <1>3, <1>4 DEF InPhase, HeaderIs
<1> QED BY <1>1, <1>3, <1>5, HandedSame

\* The messages up to a place, and their hellos, are finitely many.
LEMMA HellosFinite ==
  ASSUME Typed, NEW S \in SUBSET Hellos
  PROVE  IsFiniteSet(S) /\ Cardinality(S) \in Nat
<1>1. Len(sent) \in Nat /\ S \subseteq 1 .. Len(sent)
  BY Lengths DEF Hellos
<1>2. IsFiniteSet(1 .. Len(sent))
  BY <1>1, FS_Interval
<1> QED BY <1>1, <1>2, FS_Subset, FS_CardinalityType

\* A hello that is worked off has one of the first places.
LEMMA RankInside ==
  ASSUME Typed, LaidOut, NEW j \in Worked
  PROVE  Rank(j) \in 1 .. Cardinality(Worked)
<1> DEFINE S == {i \in Hellos : i <= j}
<1>1. j \in Hellos /\ j \in 1 .. Len(sent) /\ j \in Nat /\ EndOf(sent[j]) <= Base
  BY Lengths DEF Worked, Hellos
<1>2. ASSUME NEW i \in S PROVE i \in Worked
  <2>1. i \in Hellos /\ i \in 1 .. Len(sent) /\ i <= j
    BY DEF Hellos
  <2>2. EndOf(sent[i]) <= EndOf(sent[j])
    BY <1>1, <2>1, Order
  <2>3. EndOf(sent[i]) \in Int /\ EndOf(sent[j]) \in Int /\ Base \in Int
    BY <1>1, <2>1, EntryTyped, Lengths DEF Base
  <2> QED BY <1>1, <2>1, <2>2, <2>3 DEF Worked
<1>3. S \subseteq Worked /\ S \in SUBSET Hellos /\ Worked \in SUBSET Hellos /\ j \in S
  <2>1. Worked \subseteq Hellos
    BY DEF Worked
  <2>2. S \subseteq Worked
    BY <1>2
  <2>3. j <= j
    BY <1>1
  <2> QED BY <1>1, <2>1, <2>2, <2>3
<1>4. IsFiniteSet(Worked) /\ IsFiniteSet(S) /\ Cardinality(S) \in Nat /\ Cardinality(Worked) \in Nat
  BY <1>3, HellosFinite
<1>5. Cardinality(S) <= Cardinality(Worked)
  BY <1>3, <1>4, FS_Subset
<1>6. Cardinality(S) # 0
  BY <1>3, <1>4, FS_EmptySet
<1> QED BY <1>4, <1>5, <1>6 DEF Rank

\* In phase, the end of the data is the end of the message, and a hello goes on
\* as the next one, with its header.
LEMMA DataWholeFollowed ==
  ASSUME Typed, Staged, Placed, InPhase, Handed, DataWhole
  PROVE  InPhase' /\ Handed'
<1> DEFINE n   == remaining_data_size
           mem == Moved(HeaderSize, n)
<1>1. /\ Dropped(n) /\ state = "read_data" /\ bytes_in' = 0 /\ state' = "read_header"
      /\ UNCHANGED <<sent, wire, taken, cuts>>
      /\ mem \in [Addresses -> Nat]
      /\ \A a \in Addresses : a < HeaderSize => mem[a] = memory[a]
  BY DataWholeEffect
<1>2. HeaderSize <= bytes_in
  BY <1>1 DEF InPhase
<1>3. PICK j \in 1 .. Len(sent) : sent[j].at = Base /\ HeaderIs(memory, sent[j].msg)
  BY <1>1 DEF InPhase
<1>4. /\ n = HeaderSize + memory[1] - bytes_in
      /\ queries' = IF memory[0] = handshake_hello THEN Append(queries, Parsed(mem)) ELSE queries
  <2>1. ~Confused
    BY <1>2, Lengths DEF Confused
  <2> QED BY <2>1, DataWholeEffect
<1> HIDE DEF n
<1>5. Pos' = Pos + n /\ Total' = Total
  BY <1>1, DropPlaced
<1>6. Pos + n = EndOf(sent[j])
  <2>1. memory[1] = sent[j].msg.block_size /\ sent[j].msg.block_size \in Nat
        /\ EndOf(sent[j]) = sent[j].at + 3 + sent[j].msg.block_size
    BY <1>3, EntryTyped DEF HeaderIs
  <2> QED BY <1>3, <1>4, <2>1, Lengths, SMTT(30) DEF Base
<1>7. Base' = EndOf(sent[j])
  <2>1. EndOf(sent[j]) \in Nat
    BY EntryTyped
  <2> QED BY <1>1, <1>5, <1>6, <2>1 DEF Base
<1>8. InPhase'
  <2>1. Starts(EndOf(sent[j]))
    BY NextStarts DEF Placed
  <2> QED BY <1>1, <1>5, <1>6, <2>1 DEF InPhase, Starts
<1>9. \A i \in 1 .. Len(sent) : EndOf(sent[i]) <= EndOf(sent[j]) <=> EndOf(sent[i]) <= Base \/ i = j
  <2>1. ASSUME NEW i \in 1 .. Len(sent)
        PROVE  EndOf(sent[i]) <= EndOf(sent[j]) <=> EndOf(sent[i]) <= Base \/ i = j
    <3>1. /\ EndOf(sent[i]) <= EndOf(sent[j]) <=> i <= j
          /\ EndOf(sent[i]) <= sent[j].at <=> i < j
      BY Order DEF Placed
    <3>2. i \in Nat /\ j \in Nat
      BY Lengths
    <3> QED BY <1>3, <3>1, <3>2
  <2> QED BY <2>1
<1>10. Hellos' = Hellos /\ \A i \in 1 .. Len(sent) : sent'[i] = sent[i]
  BY <1>1 DEF Hellos
<1>11. Worked' = IF j \in Hellos THEN Worked \cup {j} ELSE Worked
  <2>1. Hellos \subseteq 1 .. Len(sent)
    BY DEF Hellos
  <2>2. Worked' = {i \in Hellos : EndOf(sent[i]) <= EndOf(sent[j])}
    BY <1>1, <1>7, <1>10 DEF Worked, EndOf
  <2> QED BY <1>9, <2>1, <2>2 DEF Worked
<1>12. j \in Hellos <=> memory[0] = handshake_hello
  BY <1>3 DEF Hellos, HeaderIs
<1>13. \A i : Rank(i)' = Rank(i)
  BY <1>10 DEF Rank
<1>14. queries \in Seq([opcode: {handshake_hello}, block_size: 0 .. DataMax,
                        message_id: Nat, data_section: [1 .. DataMax -> Nat]])
  BY DEF Typed, TypeOK
<1>15. Worked \in SUBSET Hellos /\ IsFiniteSet(Worked) /\ Cardinality(Worked) \in Nat
  BY HellosFinite DEF Worked
<1>16. CASE j \notin Hellos
  <2>1. queries' = queries /\ Worked' = Worked
    BY <1>4, <1>11, <1>12, <1>16
  <2>2. Handed'
    BY <1>1, <1>13, <2>1 DEF Handed, SameHeader
  <2> QED BY <1>8, <2>2
<1>17. CASE j \in Hellos
  <2>1. queries' = Append(queries, Parsed(mem)) /\ Worked' = Worked \cup {j}
    BY <1>4, <1>11, <1>12, <1>17
  <2>2. j \notin Worked
    <3>1. sent[j].at < EndOf(sent[j]) /\ sent[j].at \in Nat /\ EndOf(sent[j]) \in Nat
      BY EntryTyped
    <3> QED BY <1>3, <3>1 DEF Worked
  <2>3. Cardinality(Worked') = Cardinality(Worked) + 1
    BY <1>15, <2>1, <2>2, FS_AddElement
  <2>4. /\ Len(queries') = Len(queries) + 1 /\ queries'[Len(queries) + 1] = Parsed(mem)
        /\ \A k \in 1 .. Len(queries) : queries'[k] = queries[k]
    <3> HIDE DEF mem
    <3> QED BY <1>14, <2>1
  <2>5. Len(queries) = Cardinality(Worked)
    BY DEF Handed
  <2>6. Rank(j) = Len(queries) + 1
    <3>1. ASSUME NEW i \in Hellos PROVE i <= j <=> i \in Worked \cup {j}
      <4>1. i \in 1 .. Len(sent)
        BY DEF Hellos
      <4>2. EndOf(sent[i]) <= EndOf(sent[j]) <=> i <= j
        BY <4>1, Order DEF Placed
      <4> QED BY <1>9, <4>1, <4>2 DEF Worked
    <3>2. {i \in Hellos : i <= j} = Worked \cup {j}
      BY <1>15, <1>17, <3>1
    <3> QED BY <2>1, <2>3, <2>5, <3>2 DEF Rank
  <2>7. SameHeader(Parsed(mem), sent[j].msg)
    <3>1. 0 \in Addresses /\ 1 \in Addresses /\ 2 \in Addresses
      BY DEF Addresses
    <3>2. mem[0] = memory[0] /\ mem[1] = memory[1] /\ mem[2] = memory[2]
      BY <1>1, <3>1
    <3> QED BY <1>3, <3>2 DEF Parsed, SameHeader, HeaderIs
  <2>8. ASSUME NEW i \in Worked' PROVE SameHeader(queries'[Rank(i)], sent[i].msg)
    <3>1. CASE i = j
      BY <2>4, <2>6, <2>7, <3>1
    <3>2. CASE i \in Worked
      <4>1. Rank(i) \in 1 .. Len(queries)
        BY <2>5, <3>2, RankInside DEF Placed
      <4>2. SameHeader(queries[Rank(i)], sent[i].msg)
        BY <3>2 DEF Handed
      <4> QED BY <2>4, <4>1, <4>2
    <3> QED BY <2>1, <3>1, <3>2
  <2>9. Handed'
    BY <1>1, <1>13, <2>3, <2>4, <2>5, <2>8 DEF Handed, SameHeader
  <2> QED BY <1>8, <2>9
<1> QED BY <1>16, <1>17

\* Every step keeps the layout.
LEMMA PlacedStep ==
  ASSUME Typed, Staged, Placed, [Next]_vars
  PROVE  Placed'
<1>1. ASSUME NEW m \in Messages, Send(m) PROVE Placed'
  BY <1>1, SendPlaced
<1>2. ASSUME NEW n \in 1 .. BufferSize, OnDataReceived(n) PROVE Placed'
  BY <1>2, ReceivePlaced
<1>3. CASE UNCHANGED <<sent, wire, taken, cuts, buffer>>
  BY <1>3 DEF Placed, LaidOut, CellsAreSent, CutsKnown, EndOf, Total, Pos, At
<1>4. CASE OnReadFailed
  BY <1>3, <1>4 DEF OnReadFailed
<1>5. CASE HeaderPart \/ DataPart
  BY <1>5, HeaderPartEffect, DataPartEffect, KeptDrops, DropPlaced DEF Kept
<1>6. CASE HeaderWhole
  BY <1>6, HeaderWholeEffect, DropPlaced
<1>7. CASE DataWhole
  BY <1>7, DataWholeEffect, DropPlaced
<1>8. CASE UNCHANGED vars
  BY <1>3, <1>8 DEF vars
<1> QED BY <1>1, <1>2, <1>4, <1>5, <1>6, <1>7, <1>8 DEF Next, Receive, Processing

\* Every step keeps in step.
LEMMA FollowedStep ==
  ASSUME Typed, Staged, Placed, Followed, [Next]_vars
  PROVE  Followed'
<1> SUFFICES ASSUME Sound' PROVE InPhase' /\ Handed'
  BY DEF Followed
<1>0. Sound /\ InPhase /\ Handed
  BY SoundBefore DEF Followed
<1>1. ASSUME NEW m \in Messages, Send(m) PROVE InPhase' /\ Handed'
  BY <1>0, <1>1, SendFollowed
<1>2. ASSUME NEW n \in 1 .. BufferSize, OnDataReceived(n) PROVE InPhase' /\ Handed'
  BY <1>0, <1>2, ReceiveFollowed
<1>3. ASSUME UNCHANGED <<sent, wire, taken, buffer, state, memory, bytes_in, queries>>
      PROVE InPhase' /\ Handed'
  <2>1. Pos' = Pos /\ Total' = Total /\ Base' = Base
    BY <1>3 DEF Pos, Total, Base
  <2>2. InPhase'
    BY <1>0, <1>3, <2>1 DEF InPhase, Starts
  <2> QED BY <1>0, <1>3, <2>1, <2>2, HandedSame
<1>4. CASE OnReadFailed
  BY <1>3, <1>4 DEF OnReadFailed
<1>5. CASE HeaderPart
  BY <1>0, <1>5, HeaderPartFollowed
<1>6. CASE HeaderWhole
  BY <1>0, <1>6, HeaderWholeFollowed
<1>7. CASE DataPart
  BY <1>0, <1>7, DataPartFollowed
<1>8. CASE DataWhole
  BY <1>0, <1>8, DataWholeFollowed
<1>9. CASE UNCHANGED vars
  BY <1>3, <1>9 DEF vars
<1> QED BY <1>1, <1>2, <1>4, <1>5, <1>6, <1>7, <1>8, <1>9 DEF Next, Receive, Processing

-----------------------------------------------------------------------------
(* The theorems on the invariants                                          *)

\* The inductive invariant.
IInv == Typed /\ Staged /\ Placed /\ Followed

\* A new session has nothing to be out of step with.
LEMMA InitInv ==
  ASSUME Init PROVE IInv
<1>1. Typed /\ Staged
  BY InitTyped
<1>2. Len(sent) = 0 /\ Len(wire) = 0 /\ Len(buffer) = 0 /\ taken = 0 /\ Total = 0 /\ Pos = 0
  <2>1. Len(<<>>) = 0
    OBVIOUS
  <2>2. sent = <<>> /\ wire = <<>> /\ buffer = <<>> /\ taken = 0
    BY DEF Init
  <2>3. Len(sent) = 0 /\ Len(wire) = 0 /\ Len(buffer) = 0 /\ taken = 0
    BY <2>1, <2>2
  <2> QED BY <2>3 DEF Total, Pos
<1>3. Placed
  BY <1>2 DEF Placed, LaidOut, CellsAreSent, CutsKnown
<1>4. InPhase
  BY <1>2 DEF InPhase, Init, Starts
<1>5. Worked = {}
  BY <1>2 DEF Worked, Hellos
<1>6. Cardinality({}) = 0
  BY FS_EmptySet
<1>7. Handed
  BY <1>5, <1>6 DEF Handed, Init
<1> QED BY <1>1, <1>3, <1>4, <1>7 DEF IInv, Followed

\* The invariant is inductive.
LEMMA NextInv ==
  ASSUME IInv, [Next]_vars PROVE IInv'
BY TypedStep, PlacedStep, FollowedStep DEF IInv

\* The inductive invariant: types, the stages of a callback (gateway.cpp:118-131), where the
\* messages lie in the stream, and how far the session has followed them.
THEOREM Invariance == Spec => []IInv
BY InitInv, NextInv, PTL DEF Spec

\* gateway.cpp:118-252: whatever is sent and wherever reads end, bytes_transferred_in never
\* exceeds the size of a message, although two size_t differences wrap on the way, and no
\* handshake thread gets a header that was not validated, or not a hello's.
THEOREM TypeCorrect == Spec => []TypeOK
<1>1. IInv => TypeOK
  BY DEF IInv, Typed
<1> QED BY <1>1, Invariance, PTL

\* Between two callbacks the buffer is empty.
LEMMA IdleInPhase ==
  ASSUME IInv, pc = "idle", Sound
  PROVE  /\ InPhase /\ Handed /\ Pos = taken /\ taken \in Nat /\ bytes_in \in Nat
         /\ state = "read_data" => \E j \in 1 .. Len(sent) :
              /\ sent[j].at = Base /\ sent[j].at <= taken /\ taken < EndOf(sent[j])
              /\ bytes_in = taken - sent[j].at
<1>1. InPhase /\ Handed
  BY DEF IInv, Followed
<1>2. Len(buffer) = 0
  BY DEF IInv, Staged
<1>3. Pos = taken /\ taken \in Nat /\ bytes_in \in Nat
  BY <1>2, Lengths DEF IInv, Pos
<1>4. ASSUME state = "read_data"
      PROVE  \E j \in 1 .. Len(sent) :
               /\ sent[j].at = Base /\ sent[j].at <= taken /\ taken < EndOf(sent[j])
               /\ bytes_in = taken - sent[j].at
  <2>1. PICK j \in 1 .. Len(sent) : sent[j].at = Base /\ HeaderIs(memory, sent[j].msg)
    BY <1>1, <1>4 DEF InPhase
  <2>2. HeaderSize <= bytes_in
    BY <1>1, <1>4 DEF InPhase
  <2>3. Reading
    BY <1>3, <1>4, <2>2 DEF IInv, Staged, Confused
  <2>4. bytes_in < HeaderSize + memory[1] /\ memory[1] = sent[j].msg.block_size
    BY <2>1, <2>3 DEF Reading, HeaderIs
  <2>5. EndOf(sent[j]) = sent[j].at + 3 + sent[j].msg.block_size /\ sent[j].at \in Nat
          /\ sent[j].msg.block_size \in Nat
    BY EntryTyped DEF IInv
  <2>6. sent[j].at = taken - bytes_in
    BY <1>3, <2>1 DEF Base
  <2> QED BY <1>3, <2>1, <2>4, <2>5, <2>6
<1> QED BY <1>1, <1>3, <1>4

\* At the start of a message no message is current.
LEMMA NoneCurrent ==
  ASSUME Typed, LaidOut, NEW p \in Nat, Starts(p), p <= Total, NEW j \in 1 .. Len(sent),
         sent[j].at <= p, p < EndOf(sent[j])
  PROVE  sent[j].at = p
<1>1. EndOf(sent[j]) <= Total /\ EndOf(sent[j]) \in Nat /\ sent[j].at \in Nat /\ Total \in Nat
  BY EntryTyped, Lengths DEF LaidOut
<1>2. PICK i \in 1 .. Len(sent) : sent[i].at = p
  BY <1>1 DEF Starts
<1>3. sent[i].at \in Nat /\ EndOf(sent[i]) \in Nat /\ sent[i].at < EndOf(sent[i])
  BY EntryTyped
<1>4. sent[j].at < EndOf(sent[i])
  BY <1>1, <1>2, <1>3
<1>5. i = j
  BY <1>2, <1>4, Order
<1> QED BY <1>2, <1>5

\* gateway.cpp:133-252: while clients send good messages and no read ends inside a header,
\* bytes_transferred_in and the state always say where in the current message the stream is.
THEOREM StreamInStep == Spec => []InStep
<1>1. ASSUME IInv PROVE InStep
  <2> SUFFICES ASSUME pc = "idle", Sound
               PROVE  LET current == {j \in 1 .. Len(sent) : sent[j].at <= taken /\ taken < EndOf(sent[j])} IN
                      /\ bytes_in = IF current = {} THEN 0 ELSE taken - sent[CHOOSE j \in current : TRUE].at
                      /\ state = IF bytes_in < HeaderSize THEN "read_header" ELSE "read_data"
    BY DEF InStep, Sound
  <2> DEFINE current == {j \in 1 .. Len(sent) : sent[j].at <= taken /\ taken < EndOf(sent[j])}
             c == CHOOSE j \in current : TRUE
  <2>1. /\ InPhase /\ Pos = taken /\ taken \in Nat /\ bytes_in \in Nat /\ Typed /\ LaidOut /\ taken <= Total
        /\ state \in {"read_header", "read_data"}
    BY <1>1, IdleInPhase, Lengths DEF IInv, Placed, Typed, TypeOK
  <2>2. current # {} => c \in current
    BY Zenon
  <2>3. CASE state = "read_header"
    <3>1. bytes_in = 0 /\ Starts(taken)
      BY <2>1, <2>3 DEF InPhase
    <3>2. current # {} => sent[c].at = taken
      BY <2>1, <2>2, <3>1, NoneCurrent
    <3> HIDE DEF c
    <3>3. current # {} => taken - sent[c].at = 0
      BY <2>1, <3>2
    <3> HIDE DEF current
    <3>4. bytes_in = IF current = {} THEN 0 ELSE taken - sent[c].at
      BY <3>1, <3>3
    <3>5. state = IF bytes_in < HeaderSize THEN "read_header" ELSE "read_data"
      BY <2>3, <3>1
    <3> QED BY <3>4, <3>5, Zenon DEF c, current
  <2>4. CASE state = "read_data"
    <3>1. PICK j \in 1 .. Len(sent) : /\ sent[j].at <= taken /\ taken < EndOf(sent[j])
                                      /\ bytes_in = taken - sent[j].at
      BY <1>1, <2>4, IdleInPhase
    <3>2. j \in current
      BY <3>1
    <3>3. c \in 1 .. Len(sent) /\ sent[c].at <= taken /\ taken < EndOf(sent[c])
      BY <2>2, <3>2
    <3> HIDE DEF c
    <3>4. /\ sent[c].at \in Nat /\ EndOf(sent[c]) \in Nat /\ sent[j].at \in Nat /\ EndOf(sent[j]) \in Nat
      BY <2>1, <3>3, EntryTyped
    <3>5. c = j
      <4>1. sent[c].at < EndOf(sent[j]) /\ sent[j].at < EndOf(sent[c])
        BY <2>1, <3>1, <3>3, <3>4
      <4> QED BY <2>1, <3>3, <4>1, Order
    <3>6. HeaderSize <= bytes_in
      BY <2>1, <2>4 DEF InPhase
    <3>7. ~(bytes_in < HeaderSize)
      BY <2>1, <3>6
    <3> HIDE DEF current
    <3>8. bytes_in = IF current = {} THEN 0 ELSE taken - sent[c].at
      BY <3>1, <3>2, <3>5
    <3>9. state = IF bytes_in < HeaderSize THEN "read_header" ELSE "read_data"
      BY <2>4, <3>7
    <3> QED BY <3>8, <3>9, Zenon DEF c, current
  <2> QED BY <2>1, <2>3, <2>4
<1> QED BY <1>1, Invariance, PTL

\* gateway.cpp:133-252: under the same conditions, whatever the reads coalesce or cut inside
\* data, every hello read to its end was handed over once, in its place in the order sent,
\* with its own header.
THEOREM FramesKept == Spec => []FramingKept
<1>1. ASSUME IInv PROVE FramingKept
  <2> SUFFICES ASSUME pc = "idle", Sound
               PROVE  /\ Len(queries) = Cardinality(Arrived)
                      /\ \A j \in Arrived : SameHeader(queries[Rank(j)], sent[j].msg)
    BY DEF FramingKept, Sound
  <2>1. /\ InPhase /\ Handed /\ Pos = taken /\ taken \in Nat /\ bytes_in \in Nat /\ Typed /\ LaidOut
        /\ state \in {"read_header", "read_data"}
    BY <1>1, IdleInPhase DEF IInv, Placed, Typed, TypeOK
  <2>2. ASSUME NEW i \in Hellos PROVE EndOf(sent[i]) <= taken <=> EndOf(sent[i]) <= Base
    <3>1. i \in 1 .. Len(sent) /\ EndOf(sent[i]) \in Nat /\ Base = taken - bytes_in
      BY <2>1, EntryTyped DEF Hellos, Base
    <3>2. CASE state = "read_header"
      <4>1. bytes_in = 0
        BY <2>1, <3>2 DEF InPhase
      <4> QED BY <2>1, <3>1, <4>1
    <3>3. CASE state = "read_data"
      <4>1. PICK j \in 1 .. Len(sent) : /\ sent[j].at = Base
                                        /\ sent[j].at <= taken /\ taken < EndOf(sent[j])
        BY <1>1, <3>3, IdleInPhase
      <4>2. EndOf(sent[j]) \in Nat /\ sent[j].at \in Nat
        BY <2>1, EntryTyped
      <4>3. ASSUME EndOf(sent[i]) <= taken PROVE EndOf(sent[i]) <= sent[j].at
        <5>1. ~(EndOf(sent[j]) <= EndOf(sent[i]))
          BY <2>1, <3>1, <4>1, <4>2, <4>3
        <5>2. ~(j <= i)
          BY <2>1, <3>1, <5>1, Order
        <5>3. i < j
          BY <2>1, <3>1, <5>2, Lengths
        <5> QED BY <2>1, <3>1, <5>3, Order
      <4> QED BY <2>1, <3>1, <4>1, <4>2, <4>3
    <3> QED BY <2>1, <3>2, <3>3
  <2>3. Arrived = Worked
    BY <2>2 DEF Arrived, Worked
  <2> QED BY <2>1, <2>3 DEF Handed
<1> QED BY <1>1, Invariance, PTL
=============================================================================
