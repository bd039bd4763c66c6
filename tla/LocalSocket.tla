------------------------------ MODULE LocalSocket ------------------------------
(***************************************************************************)
(* FileDescriptor::read and write, and Socket::shutdown, on a pair of      *)
(* connected AF_UNIX stream sockets (libsponge/util/file_descriptor.cc,    *)
(* util/socket.cc).  The kernel's part is external: each direction is a    *)
(* channel with a bounded buffer, which shutdown() at either end closes;   *)
(* what is in the buffer then can still be read.                           *)
(***************************************************************************)
EXTENDS ByteStream

CONSTANT PipeCapacity   \* bound: the kernel's buffer for one direction

ASSUME PipeAssumption == PipeCapacity \in Nat \ {0}

Channels == [bytes : Seq(Nat), shut : BOOLEAN]

NewChannel == [bytes |-> << >>, shut |-> FALSE]

\* poll(): POLLIN at the reading end, POLLOUT at the writing end (which Linux
\* reports whether or not the channel is shut).
Readable(ch) == ch.bytes # << >> \/ ch.shut

HasRoom(ch) == Len(ch.bytes) < PipeCapacity

\* read(limit): what it returns, the channel after it, and whether it sets _eof.
FdRead(ch, limit) == Substr(ch.bytes, 0, limit)

FdAfterRead(ch, limit) ==
    [ch EXCEPT !.bytes = SubSeq(@, Len(FdRead(ch, limit)) + 1, Len(@))]

\* Mutant of FdHitsEof: a short read is taken for the end.
ShortReadIsEof(ch, limit) == Len(FdRead(ch, limit)) < limit

FdHitsEof(ch, limit) == limit > 0 /\ FdRead(ch, limit) = << >>

\* write(data, false): one writev(), which takes what fits.
FdWritten(ch, data) ==
    IF Len(data) <= PipeCapacity - Len(ch.bytes) THEN Len(data) ELSE PipeCapacity - Len(ch.bytes)

FdAfterWrite(ch, data) == [ch EXCEPT !.bytes = @ \o Substr(data, 0, FdWritten(ch, data))]

\* writev() of something into a channel that is shut: EPIPE, and with it SIGPIPE,
\* which nothing in the program catches.
Breaks(ch, data) == ch.shut /\ data # << >>

\* Socket::shutdown on one direction.
Shut(ch) == [ch EXCEPT !.shut = TRUE]
================================================================================
