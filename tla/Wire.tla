-------------------------------- MODULE Wire --------------------------------
(***************************************************************************)
(* The responses of the data and range protocols on the wire               *)
(* (zing-cdn-core/src/p2p/protocol.rs): a u32 length, a status byte, and   *)
(* the data, which the data protocol precedes by a u32 length of its own.  *)
(* The writer does not look at the limit that the reader insists on.       *)
(*                                                                         *)
(* A frame is what the writer puts on the stream: `len` is the length it   *)
(* declares and `body` the data that really follows.                       *)
(***************************************************************************)
EXTENDS Integers, Sequences

CONSTANTS
    MAX_MESSAGE_SIZE,  \* the longest message that is read
    U32                \* the number of values of a u32

ASSUME WireAssumption ==
    /\ MAX_MESSAGE_SIZE \in Nat /\ U32 \in Nat
    /\ 5 <= MAX_MESSAGE_SIZE /\ MAX_MESSAGE_SIZE < U32

\* not_found and every error of the codec are the same to who asked.
NoReply == [ok |-> FALSE, data |-> <<>>]
Have(d) == [ok |-> TRUE, data |-> d]

NotFoundFrame == [len |-> 1, status |-> 0, data_len |-> 0, body |-> <<>>]

\* BinaryProtocolCodec::write_response.  (Where 5 + data_len overflows, the
\* debug build panics and nothing is sent.)
write_response(res) ==
    LET data_len == Len(res.data) % U32
    IN  IF ~res.ok THEN NotFoundFrame
        ELSE [len |-> (5 + data_len) % U32, status |-> 1,
              data_len |-> data_len, body |-> res.data]

\* BinaryProtocolCodec::read_response: exactly `len` bytes are read.
read_response(frame) ==
    IF /\ frame.len \in 1 .. MAX_MESSAGE_SIZE
       /\ frame.status = 1
       /\ frame.len >= 5 /\ frame.len = 5 + frame.data_len
       /\ frame.len <= 5 + Len(frame.body)
    THEN Have(SubSeq(frame.body, 1, frame.len - 5))
    ELSE NoReply

\* RangeProtocolCodec::write_response and read_response.
write_range_response(res) ==
    IF ~res.ok THEN NotFoundFrame
    ELSE [len |-> (1 + (Len(res.data) % U32)) % U32, status |-> 1,
          data_len |-> 0, body |-> res.data]

read_range_response(frame) ==
    IF /\ frame.len \in 1 .. MAX_MESSAGE_SIZE
       /\ frame.status = 1
       /\ frame.len <= 1 + Len(frame.body)
    THEN Have(SubSeq(frame.body, 1, frame.len - 1))
    ELSE NoReply

\* A response as it arrives.
Sent(res)      == read_response(write_response(res))
SentRange(res) == read_range_response(write_range_response(res))

=============================================================================
