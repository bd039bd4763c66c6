------------------------------ MODULE ByteStream ------------------------------
(***************************************************************************)
(* The flow-controlled in-memory byte stream of libsponge/byte_stream.cc.  *)
(*                                                                         *)
(* A stream object is a record with one field per data member of the       *)
(* class; a method that changes the object is an operator that returns     *)
(* the new record.  A string is a sequence of bytes, and a byte is         *)
(* identified by its position in the stream its writer means to send, so   *)
(* that losing, repeating or misplacing one is visible.                    *)
(***************************************************************************)
EXTENDS Naturals, Sequences

\* std::string::substr(pos, n): at most n bytes, starting at offset pos.
Substr(s, pos, n) ==
    SubSeq(s, pos + 1, IF pos + n > Len(s) THEN Len(s) ELSE pos + n)

ByteStreams ==
    [capacity : Nat, buffer : Seq(Nat), input_end : BOOLEAN, error : BOOLEAN,
     bytes_written : Nat, bytes_read : Nat]

NewByteStream(capacity) ==
    [capacity |-> capacity, buffer |-> << >>, input_end |-> FALSE,
     error |-> FALSE, bytes_written |-> 0, bytes_read |-> 0]

remaining_capacity(s) == s.capacity - Len(s.buffer)

eof(s) == s.input_end /\ s.buffer = << >>

\* The return value of write(): how many bytes of data the stream takes.
WriteCount(s, data) ==
    IF s.input_end \/ s.error THEN 0
    ELSE IF remaining_capacity(s) < Len(data) THEN remaining_capacity(s)
    ELSE Len(data)

write(s, data) ==
    [s EXCEPT !.buffer = @ \o Substr(data, 0, WriteCount(s, data)),
              !.bytes_written = @ + WriteCount(s, data)]

peek_output(s, len) == Substr(s.buffer, 0, len)

pop_output(s, len) ==
    LET n == Len(peek_output(s, len))
    IN  [s EXCEPT !.bytes_read = @ + n,
                  !.buffer = SubSeq(@, n + 1, Len(@))]

\* read() returns bytes and pops them: what it returns, and the stream after.
ReadResult(s, len) == IF s.error THEN << >> ELSE peek_output(s, len)

AfterRead(s, len) == IF s.error THEN s ELSE pop_output(s, len)

end_input(s) == [s EXCEPT !.input_end = TRUE]

set_error(s) == [s EXCEPT !.error = TRUE]
===============================================================================
