--------------------------- MODULE MCSessionStream ---------------------------
(* Messages for the model-checking instances of SessionStream.             *)
EXTENDS SessionStream

\* Data cells (3..9) do not look like the opcode of a hello, and neither do message ids.
Hello      == [opcode |-> handshake_hello, block_size |-> 2, message_id |-> 20, data |-> <<9, 8>>]
HelloEmpty == [opcode |-> handshake_hello, block_size |-> 0, message_id |-> 22, data |-> <<>>]
Ack        == [opcode |-> handshake_ack, block_size |-> 1, message_id |-> 24, data |-> <<6>>]
\* Abnormal headers: no such opcode, at either end of them, and too much data, in which
\* the framework finds a message of its own.
Unknown    == [opcode |-> end_of_record, block_size |-> 0, message_id |-> 25, data |-> <<>>]
Null       == [opcode |-> opcode_null, block_size |-> 0, message_id |-> 26, data |-> <<>>]
TooBig     == [opcode |-> handshake_hello, block_size |-> 5, message_id |-> 27, data |-> <<3, 1, 9, 8, 4>>]

AllMessages == {Hello, HelloEmpty, Ack, Unknown, Null, TooBig}
OneHello    == {Hello}

\* What OnlyHellosHandedOver assumes of the messages holds of these.
ASSUME OpcodesStandOut

Anywhere == {"header", "data"}
InData   == {"data"}
=============================================================================
