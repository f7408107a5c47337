---------------------------- MODULE SessionStream ----------------------------
(***************************************************************************)
(* How the framework cuts the keep-alive stream of a session back into     *)
(* messages: gateway::_on_data_received, _header_processing,               *)
(* _data_processing and _async_query_proc_launcher, with validate_header   *)
(* and the part of opennui::sys::comm::session they work on.               *)
(*                                                                         *)
(* Sizes are counted in cells.  A cell stands for a field of the header or *)
(* for a few bytes of data, so a read may end between any two cells.  The  *)
(* two memmove targets that the code computes on pointers to the whole     *)
(* header and to the whole data section step by HeaderSize and by DataMax  *)
(* cells, and size_t wraps at SizeModulus, as in the 32-bit build.         *)
(***************************************************************************)
EXTENDS Integers, Sequences, FiniteSets

CONSTANTS
  HeaderSize,   \* sizeof(message_header): opcode, block_size, message_id
  DataMax,      \* message::data_section_max
  SizeModulus,  \* 2^32: width of size_t
  Messages,     \* what clients send: [opcode, block_size, message_id, data]
  MaxMessages,  \* bound: messages sent in a behaviour
  CutIn         \* inside which parts of a message a read may end

opcode_null     == 1
handshake_hello == 2
handshake_ack   == 3
end_of_record   == 4

\* In the code: headers of 12 bytes, data sections of 512, and a size_t of 2^32.
ASSUME LayoutAssumption ==
  /\ HeaderSize = 3
  /\ DataMax \in Nat /\ DataMax > HeaderSize
  /\ SizeModulus \in Nat /\ SizeModulus > 4 * DataMax * (HeaderSize + DataMax)
ASSUME MessagesAssumption ==
  /\ Messages \subseteq [opcode: Nat, block_size: Nat, message_id: Nat, data: Seq(Nat)]
  /\ \A m \in Messages : Len(m.data) = m.block_size
ASSUME StreamAssumption == MaxMessages \in Nat /\ CutIn \subseteq {"header", "data"}

VARIABLES
  sent,      \* history: the messages sent, each with the position of its first cell
  wire,      \* cells in flight
  taken,     \* history: number of cells read so far
  pc,        \* the session's callback: idle, header, data, or closed
  reads,     \* async_read_some calls outstanding on the stream
  buffer,    \* buffer_in, up to io_result.bytes_transferred
  state,     \* session::state
  memory,    \* msgbuf_in: the header cells, then the data section
  bytes_in,  \* session::bytes_transferred_in
  queries,   \* the messages handed to handshake threads
  rejected,  \* number of headers validate_header refused
  cuts,      \* history: the kinds of places inside a message where a read ended
  overrun    \* a memmove left msgbuf_in: from here on the code's behaviour is undefined

vars == <<sent, wire, taken, pc, reads, buffer, state, memory, bytes_in, queries,
          rejected, cuts, overrun>>

Addresses   == 0 .. HeaderSize + DataMax - 1
Cleared     == [a \in Addresses |-> 0]
Garbage     == 99  \* what memory that was never written may hold
BufferSize  == 2 * (HeaderSize + DataMax)
Total       == taken + Len(wire)
Minus(a, b) == (a - b) % SizeModulus

\* The bytes a client writes: message::to_binary.
to_binary(m) == <<m.opcode, m.block_size, m.message_id>> \o m.data

\* What msgbuf_in holds: the header's fields and the whole data section.
Parsed(mem) == [opcode |-> mem[0], block_size |-> mem[1], message_id |-> mem[2],
                data_section |-> [k \in 1 .. DataMax |-> mem[HeaderSize + k - 1]]]

validate_header(mem) ==
  /\ opcode_null < mem[0] /\ mem[0] < end_of_record
  /\ mem[1] <= DataMax

\* memmove(msgbuf_in + offset, buffer_in, n)
Fits(offset, n) == n = 0 \/ offset + n <= HeaderSize + DataMax
Moved(offset, n) ==
  IF Fits(offset, n)
    THEN [a \in Addresses |-> IF offset <= a /\ a < offset + n THEN buffer[a - offset + 1]
                                                               ELSE memory[a]]
    ELSE memory

\* memmove(buffer, buffer + n, excess)
Rest(n) == SubSeq(buffer, n + 1, Len(buffer))

\* &msgbuf_in.header + n and &msgbuf_in.data_section + n
HeaderPlus(n) == (HeaderSize * n) % SizeModulus
DataPlus(n)   == (HeaderSize + DataMax * n) % SizeModulus

-----------------------------------------------------------------------------
\* native client: one write_some call for a whole message.
Send(m) ==
  /\ Len(sent) < MaxMessages
  /\ pc # "closed"
  /\ sent' = Append(sent, [msg |-> m, at |-> Total])
  /\ wire' = wire \o to_binary(m)
  /\ UNCHANGED <<taken, pc, reads, buffer, state, memory, bytes_in, queries, rejected, cuts, overrun>>

\* Where in a message a read may end: between its cells.
Inside(pos) ==
  UNION {LET off == pos - sent[j].at IN
         IF 0 < off /\ off < HeaderSize THEN {"header"}
         ELSE IF HeaderSize < off /\ off < HeaderSize + sent[j].msg.block_size THEN {"data"}
         ELSE {} : j \in 1 .. Len(sent)}

\* The outstanding async_read_some completes with n cells: _on_data_received.
OnDataReceived(n) ==
  /\ reads > 0
  /\ pc = "idle"
  /\ 0 < n /\ n <= Len(wire) /\ n <= BufferSize
  /\ Inside(taken + n) \subseteq CutIn
  /\ cuts' = cuts \cup Inside(taken + n)
  /\ reads' = reads - 1
  /\ buffer' = SubSeq(wire, 1, n)
  /\ wire' = SubSeq(wire, n + 1, Len(wire))
  /\ taken' = taken + n
  /\ pc' = IF state = "read_header" THEN "header" ELSE "data"
  /\ UNCHANGED <<sent, state, memory, bytes_in, queries, rejected, overrun>>

\* The client is gone: the read fails and is not issued again.
OnReadFailed ==
  /\ reads > 0
  /\ pc = "idle"
  /\ reads' = reads - 1
  /\ pc' = "closed"
  /\ UNCHANGED <<sent, wire, taken, buffer, state, memory, bytes_in, queries, rejected, cuts, overrun>>

-----------------------------------------------------------------------------
(* _header_processing                                                      *)

remaining_header_size == Minus(HeaderSize, bytes_in)

async_read_some_Missing == UNCHANGED reads
async_read_some == reads' = reads + 1

\* memmove, count, and wait for the rest.
Keep(offset) ==
  /\ memory' = Moved(offset, Len(buffer))
  /\ overrun' = (overrun \/ ~Fits(offset, Len(buffer)))
  /\ bytes_in' = Minus(bytes_in + Len(buffer), 0)
  /\ buffer' = <<>>
  /\ async_read_some
  /\ pc' = "idle"
  /\ UNCHANGED <<sent, wire, taken, state, queries, rejected, cuts>>

HeaderPart ==
  /\ pc = "header"
  /\ Len(buffer) < remaining_header_size
  /\ Keep(HeaderPlus(bytes_in))

HeaderWhole ==
  LET n   == remaining_header_size
      off == HeaderPlus(bytes_in)
      mem == Moved(off, n)
  IN
  /\ pc = "header"
  /\ Len(buffer) >= n
  /\ overrun' = (overrun \/ ~Fits(off, n))
  /\ buffer' = Rest(n)
  /\ IF validate_header(mem)
       THEN /\ memory' = mem
            /\ bytes_in' = bytes_in + n
            /\ pc' = "data"
            /\ state' = "read_data"
            /\ UNCHANGED rejected
       ELSE /\ memory' = Cleared
            /\ bytes_in' = 0
            /\ rejected' = rejected + 1
            /\ IF Len(buffer) > n
                 THEN pc' = "header" /\ UNCHANGED state
                 ELSE pc' = "data" /\ state' = "read_data"
  /\ UNCHANGED <<sent, wire, taken, reads, queries, cuts>>

-----------------------------------------------------------------------------
(* _data_processing                                                        *)

data_transferred == Minus(bytes_in, HeaderSize)
remaining_data_size_Whole == memory[1]
remaining_data_size == Minus(memory[1], data_transferred)

DataPart ==
  /\ pc = "data"
  /\ Len(buffer) < remaining_data_size
  /\ Keep(DataPlus(data_transferred))

\* std::thread copies msgbuf_in before clear_msgbuf_in; other opcodes throw.
Launched_AnyOpcode(mem) == Append(queries, Parsed(mem))
Launched(mem) == IF mem[0] = handshake_hello THEN Append(queries, Parsed(mem)) ELSE queries

clear_msgbuf_in_CountOnly == bytes_in' = 0 /\ memory' = Moved(HeaderSize, remaining_data_size)
clear_msgbuf_in == bytes_in' = 0 /\ memory' = Cleared

DataWhole ==
  LET n == remaining_data_size IN
  /\ pc = "data"
  /\ Len(buffer) >= n
  /\ overrun' = (overrun \/ ~Fits(HeaderSize, n))
  /\ queries' = Launched(Moved(HeaderSize, n))
  /\ buffer' = Rest(n)
  /\ clear_msgbuf_in
  /\ state' = "read_header"
  /\ pc' = "header"
  /\ UNCHANGED <<sent, wire, taken, reads, rejected, cuts>>

-----------------------------------------------------------------------------
\* _on_client_connected: the session starts with a read outstanding.  Its
\* constructor leaves the data section of msgbuf_in as the allocator found it.
Init ==
  /\ sent = <<>> /\ wire = <<>> /\ taken = 0
  /\ pc = "idle"
  /\ reads = 1
  /\ buffer = <<>>
  /\ state = "read_header"
  /\ \E g \in {0, Garbage} :
       memory = [a \in Addresses |-> IF a = 0 THEN opcode_null ELSE IF a < HeaderSize THEN 0 ELSE g]
  /\ bytes_in = 0
  /\ queries = <<>>
  /\ rejected = 0
  /\ cuts = {}
  /\ overrun = FALSE

Processing == HeaderPart \/ HeaderWhole \/ DataPart \/ DataWhole
Receive    == \E n \in 1 .. BufferSize : OnDataReceived(n)

Next ==
  \/ \E m \in Messages : Send(m)
  \/ Receive
  \/ OnReadFailed
  \/ Processing

Spec == Init /\ [][Next]_vars

\* The I/O service runs the callbacks, and what is on the wire arrives.
FairSpec == Spec /\ WF_vars(Receive) /\ WF_vars(Processing)

-----------------------------------------------------------------------------
AllWellFormed ==
  \A j \in 1 .. Len(sent) :
    LET m == sent[j].msg IN
    opcode_null < m.opcode /\ m.opcode < end_of_record /\ m.block_size <= DataMax

\* Type correctness; no message outgrows msgbuf_in by its count, whatever was sent,
\* and handshake threads get hellos with a validated header only.
TypeOK ==
  /\ wire \in Seq(Nat) /\ buffer \in Seq(Nat)
  /\ taken \in Nat /\ reads \in Nat /\ rejected \in Nat
  /\ pc \in {"idle", "header", "data", "closed"}
  /\ state \in {"read_header", "read_data"}
  /\ memory \in [Addresses -> Nat]
  /\ bytes_in \in 0 .. HeaderSize + DataMax
  /\ queries \in Seq([opcode: {handshake_hello}, block_size: 0 .. DataMax,
                       message_id: Nat, data_section: [1 .. DataMax -> Nat]])
  /\ cuts \subseteq CutIn
  /\ overrun \in BOOLEAN

\* Query q is the sent message e, with nothing of another message behind its data:
\* zeros, or in the first message of a session what the allocator left there.
SameHeader(q, m) ==
  q.opcode = m.opcode /\ q.block_size = m.block_size /\ q.message_id = m.message_id
Shows(q, e) ==
  /\ SameHeader(q, e.msg)
  /\ \A k \in 1 .. DataMax :
       IF k <= e.msg.block_size THEN q.data_section[k] = e.msg.data[k]
                                ELSE q.data_section[k] \in IF e.at = 0 THEN {0, Garbage} ELSE {0}

\* The hello messages, those whose last cell has been read, and the place of one
\* of them in their order.
EndOf(e)  == e.at + HeaderSize + e.msg.block_size
Hellos    == {j \in 1 .. Len(sent) : sent[j].msg.opcode = handshake_hello}
Arrived   == {j \in Hellos : EndOf(sent[j]) <= taken}
Rank(j)   == Cardinality({i \in Hellos : i <= j})

\* gateway.cpp:102-252: on every path of the two processing functions exactly one
\* read is outstanding while no callback runs, and none while one does: a session
\* neither stops listening nor lets two callbacks loose on its buffers.
OneReader == reads = IF pc = "idle" THEN 1 ELSE 0

\* Whatever the reads coalesce, once the callback returns every hello read to its
\* end has been handed over once and in order, with its own opcode, size and id,
\* also when reads end inside the data.
FramingKept ==
  pc = "idle" /\ AllWellFormed /\ cuts \subseteq {"data"} /\ ~overrun =>
    /\ Len(queries) = Cardinality(Arrived)
    /\ \A j \in Arrived : SameHeader(queries[Rank(j)], sent[j].msg)

\* bytes_transferred_in and the state say where in the current message the
\* stream stands; so neither size_t difference ever wraps.
InStep ==
  pc = "idle" /\ AllWellFormed /\ cuts \subseteq {"data"} /\ ~overrun =>
    LET current == {j \in 1 .. Len(sent) : sent[j].at <= taken /\ taken < EndOf(sent[j])} IN
    /\ bytes_in = IF current = {} THEN 0 ELSE taken - sent[CHOOSE j \in current : TRUE].at
    /\ state = IF bytes_in < HeaderSize THEN "read_header" ELSE "read_data"

\* What clients send behind an opcode does not look like the header of a hello,
\* wherever the framework takes it for one after it has lost step.
OpcodesStandOut ==
  \A m \in Messages :
    /\ m.message_id # handshake_hello
    /\ \A k \in 1 .. Len(m.data) : m.data[k] # handshake_hello
    /\ m.block_size = handshake_hello => m.message_id > DataMax

\* validate_header and the launcher: after an abnormal header the rest of the
\* stream is read out of step, yet no handshake starts on anything but a hello
\* read to its end, and no more of them than were.
OnlySentQueries ==
  cuts = {} /\ ~overrun =>
    /\ \A k \in 1 .. Len(queries) : \E j \in Arrived : Shows(queries[k], sent[j])
    /\ Len(queries) <= Cardinality(Arrived)

\* The message a handshake thread finds in its copy of msgbuf_in.
Received(q) == [opcode |-> q.opcode, block_size |-> q.block_size, message_id |-> q.message_id,
                data |-> SubSeq(q.data_section, 1, q.block_size)]

\* What lies before the message that is being read has been worked off.
WorkedOff == {j \in 1 .. Len(sent) : EndOf(sent[j]) <= taken - Len(buffer) - bytes_in}

Faulted == cuts # {} \/ overrun \/ ~AllWellFormed

MS == INSTANCE MessageStream WITH
        sent <- [j \in 1 .. Len(sent) |-> sent[j].msg], done <- Cardinality(WorkedOff),
        out <- [k \in 1 .. Len(queries) |-> Received(queries[k])], faulted <- Faulted

\* gateway.cpp:167-252: the mutual recursion of the two processing functions on one buffer
\* implements a queue: until a fault each step works off one message, or is invisible.
ImplementsMessageStream == MS!Spec

\* gateway.cpp:296 "// Parse the data from client": the data a handshake parses
\* is the data its client sent.
ParsesDataFromClient ==
  ~overrun => \A k \in 1 .. Len(queries) : \E j \in Arrived : Shows(queries[k], sent[j])

\* Every hello sent is handed over in the end, unless the connection is lost or a
\* header was abnormal, or cut and taken for abnormal.
HelloHandled ==
  \A k \in 1 .. MaxMessages :
    (Cardinality(Hellos) >= k) ~>
       (Len(queries) >= k \/ pc = "closed" \/ overrun \/ rejected > 0 \/ "header" \in cuts)
=============================================================================
