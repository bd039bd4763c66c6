----------------------------- MODULE ConnectionSpec -----------------------------
(***************************************************************************)
(* Two TCPConnections, each run by the event loop of a TCPSpongeSocket,    *)
(* over a network that loses, repeats and reorders segments.               *)
(* The client calls connect(), the server listen_and_accept().             *)
(* One event-loop callback or tick is one step; what it leaves in          *)
(* segments_out() is handed to the network at once (rule 4 of the loop),   *)
(* and a segment that waits there is one the network delays.               *)
(***************************************************************************)
EXTENDS TCPConnection

CONSTANTS
    RecvCapacity,  \* _cfg.recv_capacity of each end
    SendCapacity,  \* _cfg.send_capacity
    RtTimeout,     \* _cfg.rt_timeout, and the length of a tick
    StreamLen,     \* StreamLen[e]: bound, how many bytes the application at e writes
    Closers,       \* the ends whose application closes its stream
    Isn,           \* Isn[e]: the initial sequence number of e
    MaxFaults      \* bound: how often the network loses, repeats, reorders or delays

Ends == {"client", "server"}

ASSUME ConnectionSpecAssumption ==
    /\ RecvCapacity \in [Ends -> Nat] /\ SendCapacity \in Nat
    /\ RtTimeout \in Nat \ {0}
    /\ StreamLen \in [Ends -> Nat] /\ Closers \subseteq Ends /\ Isn \in [Ends -> WrappingInt]
    /\ MaxFaults \in Nat

VARIABLES
    conn,  \* conn[e]: the TCPConnection at e
    net,   \* net[e]: the segments under way to e
    faults \* how many faults the network has committed

vars == <<conn, net, faults>>

Peer(e) == IF e = "client" THEN "server" ELSE "client"

Init ==
    /\ conn = [e \in Ends |->
                 NewConnection(RecvCapacity[e], SendCapacity, RtTimeout, Isn[e])]
    /\ net = [e \in Ends |-> << >>]
    /\ faults = 0

Excerpt(index, len) == [k \in 1 .. len |-> (index + k) - 1]

Without(queue, i) == SubSeq(queue, 1, i - 1) \o SubSeq(queue, i + 1, Len(queue))

Fault(isFault) ==
    /\ faults' = IF isFault THEN faults + 1 ELSE faults
    /\ faults' <= MaxFaults

\* A callback at e turns the connection into c while left is under way to e.
Run(e, c, left, isFault) ==
    /\ Fault(isFault)
    /\ net' = [net EXCEPT ![e] = left, ![Peer(e)] = @ \o c.segments_out]
    /\ conn' = [conn EXCEPT ![e] = [c EXCEPT !.segments_out = << >>]]

Connect ==
    /\ ~conn["client"].sender.SYN_sent
    /\ conn["client"].active
    /\ Run("client", connect(conn["client"]), net["client"], FALSE)

\* The adapter of a listening socket lets nothing pass before a SYN.
Listening(e) == e = "server" /\ conn[e].receiver.isn = None

Filtered(e, seg) == Listening(e) /\ (~seg.syn \/ seg.rst)

\* Rule 1: a segment arrives, perhaps before older ones, and the network may
\* keep it to deliver it again.
Deliver(e, i, again) ==
    /\ i <= Len(net[e])
    /\ LET seg  == net[e][i]
           left == IF again THEN net[e] ELSE Without(net[e], i)
       IN  Run(e, IF Filtered(e, seg) THEN conn[e] ELSE ConnectionSegment(conn[e], seg),
               left, again \/ i > 1)

Lose(e, i) ==
    /\ Fault(TRUE)
    /\ net' = [net EXCEPT ![e] = Without(@, i)]
    /\ UNCHANGED conn

\* A tick while segments are under way is a fault too: the network is slow.
Tick(e) ==
    /\ conn[e].active
    /\ Run(e, ConnectionTick(conn[e], RtTimeout), net[e], \E d \in Ends : net[d] # << >>)

\* connect() and listen_and_accept() have returned to the application.
Returned(e) ==
    IF e = "client"
    THEN conn[e].sender.SYN_sent /\ state(conn[e]) # OfficialState.SYN_SENT
    ELSE state(conn[e]) \notin {OfficialState.LISTEN, OfficialState.SYN_RCVD,
                                OfficialState.SYN_SENT}

\* Rule 2 is interested: there is room for what the application may write.
Writable(e) ==
    /\ Returned(e)
    /\ conn[e].active
    /\ ~conn[e].sender.stream.input_end
    /\ remaining_outbound_capacity(conn[e]) > 0

\* Rule 2: len bytes come from the application.
AppWrite(e, len) ==
    LET s == conn[e].sender.stream
    IN  /\ Writable(e)
        /\ len <= remaining_outbound_capacity(conn[e])
        /\ s.bytes_written + len <= StreamLen[e]
        /\ Run(e, ConnectionWrite(conn[e], Excerpt(s.bytes_written, len)), net[e], FALSE)

\* Rule 2: no bytes come, the application has closed.
AppClose(e) ==
    /\ Writable(e)
    /\ e \in Closers
    /\ Run(e, end_input_stream(ConnectionWrite(conn[e], << >>)), net[e], FALSE)

\* Rule 3: the application takes bytes from the inbound stream.
AppRead(e, len) ==
    /\ Returned(e)
    /\ inbound_stream(conn[e]).buffer # << >>
    /\ Run(e, [conn[e] EXCEPT !.receiver.reassembler.output = pop_output(@, len)], net[e],
           FALSE)

Next ==
    \/ Connect
    \/ \E e \in Ends :
          \/ \E i \in 1 .. Len(net[e]) :
                Lose(e, i) \/ \E again \in BOOLEAN : Deliver(e, i, again)
          \/ Tick(e)
          \/ \E len \in 1 .. StreamLen[e] : AppWrite(e, len)
          \/ AppClose(e)
          \/ \E len \in 1 .. RecvCapacity[e] : AppRead(e, len)

Spec == Init /\ [][Next]_vars

--------------------------------------------------------------------------------
TypeOK ==
    /\ conn \in [Ends -> Connections]
    /\ net \in [Ends -> Seq(WireSegments)]
    /\ faults \in 0 .. MaxFaults

Out(e) == conn[e].sender.stream

In(e) == inbound_stream(conn[e])

Clean(e) == ~conn[e].active /\ ~In(e).error

(***************************************************************************)
(* End to end, the bytes the application reads at one end are the bytes    *)
(* written at the other, in order and each once, whatever the network does.*)
(***************************************************************************)
EndToEnd ==
    \A e \in Ends :
        /\ \A k \in 1 .. Len(In(e).buffer) : In(e).buffer[k] = (In(e).bytes_read + k) - 1
        /\ In(e).bytes_written = In(e).bytes_read + Len(In(e).buffer)
        /\ In(e).bytes_written <= Out(Peer(e)).bytes_written

(***************************************************************************)
(* What a sender was told is received has been written to the output       *)
(* stream at the other end: no byte is acknowledged and then lost.         *)
(***************************************************************************)
AckedIsDelivered ==
    \A e \in Ends :
        conn[e].sender.abs_ackno <=
            1 + In(Peer(e)).bytes_written + (IF In(Peer(e)).input_end THEN 1 ELSE 0)

(***************************************************************************)
(* An end that closes cleanly has had all of its stream delivered, and has *)
(* received all of its peer's: tick() clears _active only when the peer    *)
(* has assembled every byte and the FIN of this end, and the other way.    *)
(***************************************************************************)
CleanMeansDelivered ==
    \A e \in Ends : Clean(e) =>
        /\ In(Peer(e)).input_end /\ In(Peer(e)).bytes_written = Out(e).bytes_written
        /\ In(e).input_end /\ In(e).bytes_written = Out(Peer(e)).bytes_written

(***************************************************************************)
(* The ends never both skip lingering: one of them stays to acknowledge    *)
(* the other's FIN again, should the acknowledgment have been lost.        *)
(***************************************************************************)
SomeoneLingers ==
    \E e \in Ends : conn[e].linger_after_streams_finish

(***************************************************************************)
(* While the network has been good, no connection is reset: neither a      *)
(* closed window nor a slow application makes an end give up.              *)
(***************************************************************************)
NoFaultNoReset == faults = 0 => \A e \in Ends : ~In(e).error

--------------------------------------------------------------------------------
\* The two directions of the connection, as the applications see them.
ToServer == INSTANCE BytePipe WITH
    written <- Out("client").bytes_written, closed <- Out("client").input_end,
    cut <- Out("client").error,
    delivered <- In("server").bytes_written, ended <- In("server").input_end,
    taken <- In("server").bytes_read, broken <- In("server").error

ToClient == INSTANCE BytePipe WITH
    written <- Out("server").bytes_written, closed <- Out("server").input_end,
    cut <- Out("server").error,
    delivered <- In("client").bytes_written, ended <- In("client").input_end,
    taken <- In("client").bytes_read, broken <- In("client").error

(***************************************************************************)
(* The two connections implement a reliable byte pipe each way: every step *)
(* of the event loops and of the network is, seen through the ByteStreams  *)
(* of the two ends, a step of BytePipe or none.  No byte comes out before  *)
(* it was written, the end only behind the last byte of a closed stream,   *)
(* nothing after a reset.  BytePipe counts bytes: that they are the right  *)
(* ones, in order, is EndToEnd.                                            *)
(***************************************************************************)
ImplementsBytePipes == ToServer!Spec /\ ToClient!Spec

--------------------------------------------------------------------------------
(***************************************************************************)
(* The network delivers what it does not lose, the event loop ticks, and   *)
(* the applications go on reading and in the end close.  _tcp_loop calls   *)
(* tick() on every iteration, so fairness to it is strong: the fault bound *)
(* disables Tick while segments are under way, the code never does.        *)
(* Fairness to Connect is WF_vars; the others are the same formula (for    *)
(* Tick, that of SF_vars) with the state predicate that says when the      *)
(* action is enabled in the place of ENABLED, which TLC evaluates slowly.  *)
(***************************************************************************)
CanTick(e) ==
    /\ conn[e].active
    /\ ConnectionTick(conn[e], RtTimeout) # conn[e]
    /\ faults < MaxFaults \/ \A d \in Ends : net[d] = << >>

CanRead(e) == Returned(e) /\ In(e).buffer # << >>

Read(e) == \E len \in 1 .. RecvCapacity[e] : AppRead(e, len)

FairSpec ==
    /\ Spec
    /\ WF_vars(Connect)
    /\ \A e \in Ends :
          /\ []<><<Deliver(e, 1, FALSE)>>_vars \/ []<>(net[e] = << >>)
          /\ []<><<Tick(e)>>_vars \/ <>[](~CanTick(e))
          /\ []<><<Read(e)>>_vars \/ []<>(~CanRead(e))
          /\ []<><<AppClose(e)>>_vars \/ []<>(~Writable(e) \/ e \notin Closers)

\* The peer is gone and e has no way to tell: it only gives up by counting
\* retransmissions, and it has nothing to retransmit, or counts none because the
\* last window it heard of was closed.
Abandoned(e) ==
    /\ ~conn[Peer(e)].active
    /\ IF bytes_in_flight(conn[e].sender) = 0 THEN In(Peer(e)).error
       ELSE conn[e].sender.window_size = 0

(***************************************************************************)
(* Both connections come to an end, cleanly or by a reset, unless no SYN   *)
(* ever reached the server (then it keeps listening) or an end is left     *)
(* Abandoned.  A closed window by itself does not stop the transfer: the   *)
(* sender probes it.                                                       *)
(***************************************************************************)
Terminates ==
    <>\A e \in Ends : ~conn[e].active \/ Listening(e) \/ Abandoned(e)

(***************************************************************************)
(* An end with segments to retransmit to a peer that is gone gives up:     *)
(* MAX_RETX_ATTEMPTS is the "maximum re-transmit attempts before giving    *)
(* up".                                                                    *)
(***************************************************************************)
GivesUpOnGonePeer ==
    \A e \in Ends :
        (~conn[Peer(e)].active /\ bytes_in_flight(conn[e].sender) > 0) ~> ~conn[e].active
================================================================================
