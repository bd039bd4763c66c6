------------------------------- MODULE SocketSpec -------------------------------
(***************************************************************************)
(* The life of a connected TCPSpongeSocket: the TCP thread with its event  *)
(* loop (tcp_sponge_socket.cc), the owner that copies stdin to the socket  *)
(* and the socket to stdout with an event loop of its own                  *)
(* (apps/bidirectional_stream_copy.cc) and then waits for the end, or is   *)
(* thrown out of the copying and destroys the socket.                      *)
(*                                                                         *)
(* The TCPConnection is seen from its loop only: two ByteStreams, whether  *)
(* it is active, and what it has to send.  Segments from the peer are of   *)
(* four kinds.  How they come about is the matter of ConnectionSpec.       *)
(***************************************************************************)
EXTENDS LocalSocket, SequencesExt

CONSTANTS
    Capacity,      \* of the four ByteStreams
    StdinLen,      \* bound: the bytes on stdin, before its end
    PeerLen,       \* bound: the bytes the peer sends
    Linger,        \* ticks without a segment before a finished connection ends
    PeerResets,    \* whether the peer may send a RST
    StdoutBreaks,  \* whether the reader of stdout may go away
    MaxWire        \* bound: the segments that wait at the adapter

ASSUME SocketAssumption ==
    /\ Capacity \in Nat \ {0} /\ StdinLen \in Nat /\ PeerLen \in Nat /\ Linger \in Nat
    /\ MaxWire \in Nat \ {0}
    /\ PeerResets \in BOOLEAN /\ StdoutBreaks \in BOOLEAN

VARIABLES
    up, down,   \* the channels from owner to TCP thread and back
    tcp,        \* what belongs to the TCP thread: connection, flags, stage
    tcpLoop,    \* its EventLoop
    app,        \* what belongs to the owner: streams, flags, stage
    appLoop,    \* its EventLoop
    stdin,      \* how many bytes have been read from stdin, and whether it is a pipe
    stdout,     \* what has been written to stdout
    stdoutGone, \* whether the reader of stdout has gone away
    wire,       \* the segments that wait at the datagram adapter
    peer,       \* what the peer has sent: bytes, FIN, RST
    sent,       \* history: the kinds of segments handed to the adapter
    abort,      \* _abort
    death       \* why the process has ended, if it has: an exception in the TCP
                \* thread, or SIGPIPE

vars == <<up, down, tcp, tcpLoop, app, appLoop, stdin, stdout, stdoutGone, wire, peer, sent,
          abort, death>>

tcpVars == <<tcp, tcpLoop>>
appVars == <<app, appLoop, stdin, stdout>>
envVars == <<wire, peer, stdoutGone>>

TcpRules == <<"datagram_in", "pipe_in", "pipe_out", "datagram_out">>
AppRules == <<"stdin", "socket_out", "socket_in", "stdout">>
Kinds == {"data", "ack", "fin", "rst"}

Excerpt(index, len) == [k \in 1 .. len |-> (index + k) - 1]

--------------------------------------------------------------------------------
\* The connection as its loop sees it, with a peer whose window is one sequence
\* number.  flight: whether that one is in use; idle: ticks since the last segment.
NewConn ==
    [active |-> TRUE, inbound |-> NewByteStream(Capacity), outbound |-> NewByteStream(Capacity),
     flight |-> FALSE, fin_sent |-> FALSE, linger |-> TRUE, idle |-> 0, segments_out |-> {}]

\* TCPSender::fill_window, and send_all.
ConnFills(c) ==
    LET data == ~c.flight /\ ~c.fin_sent /\ ReadResult(c.outbound, 1) # << >>
        fin  == ~c.flight /\ ~c.fin_sent /\ eof(c.outbound)
    IN  [c EXCEPT !.outbound = IF data THEN AfterRead(@, 1) ELSE @,
                  !.flight = @ \/ data \/ fin, !.fin_sent = @ \/ fin,
                  !.segments_out = @ \cup {k \in {"data"} : data} \cup {k \in {"fin"} : fin}]

\* unclean_shutdown, with and without a RST.
ConnReset(c, rst_sent) ==
    LET sends == IF rst_sent THEN [ConnFills(c) EXCEPT !.segments_out = @ \cup {"rst"}] ELSE c
    IN  [sends EXCEPT !.inbound = set_error(@), !.outbound = set_error(@), !.active = FALSE]

\* What follow_prereq does, and what it returns.
ConnMayLinger(c) == [c EXCEPT !.linger = @ /\ ~(eof(c.inbound) /\ ~c.fin_sent)]

\* Mutant of Finished: bytes_in_flight() is forgotten.
FinishedInFlight(c) == c.inbound.input_end /\ eof(c.outbound) /\ c.fin_sent

Finished(c) == c.inbound.input_end /\ eof(c.outbound) /\ c.fin_sent /\ ~c.flight

ConnReceives(c, kind) ==
    LET awake == [c EXCEPT !.idle = 0]
        taken == CASE kind = "data" -> [awake EXCEPT !.inbound = write(@, <<@.bytes_written>>)]
                   [] kind = "fin"  -> [awake EXCEPT !.inbound = end_input(@)]
                   [] kind = "ack"  -> [awake EXCEPT !.flight = FALSE]
                   [] kind = "rst"  -> ConnReset(awake, FALSE)
    IN  IF ~c.active THEN c
        ELSE IF kind = "rst" THEN taken
        ELSE [ConnMayLinger(taken) EXCEPT
                 !.segments_out = IF kind = "ack" THEN @ ELSE @ \cup {"ack"}]

ConnWrites(c, data) == ConnFills([c EXCEPT !.outbound = write(@, data)])

ConnEndsInput(c) == ConnFills([c EXCEPT !.outbound = end_input(@)])

\* tick(): after too many retransmissions the connection gives up.
ConnTick(c, givesUp) ==
    LET ticked == ConnMayLinger(ConnFills([c EXCEPT !.idle = IF @ < Linger THEN @ + 1 ELSE @]))
    IN  IF givesUp THEN ConnReset(c, TRUE)
        ELSE [ticked EXCEPT
                 !.active = ~(Finished(ticked) /\ (~ticked.linger \/ ticked.idle >= Linger))]

\* ~TCPConnection: what is left in segments_out is destroyed with it.
ConnDestroyed(c) == IF c.active THEN ConnReset(c, TRUE) ELSE c

--------------------------------------------------------------------------------
TcpIsOver(w, r) == r = "pipe_in" /\ w.eof

\* Mutants of TcpInterest: rule 4 is interested when there is nothing to send, rule 1
\* when the connection has ended.
AlwaysSends(w, r) ==
    CASE r = "datagram_in" -> w.conn.active
      [] r = "pipe_in" ->
            w.conn.active /\ ~w.outbound_shutdown /\ remaining_capacity(w.conn.outbound) > 0
      [] r = "pipe_out" ->
            \/ w.conn.inbound.buffer # << >>
            \/ (eof(w.conn.inbound) \/ w.conn.inbound.error) /\ ~w.inbound_shutdown
      [] r = "datagram_out" -> TRUE

AlwaysListens(w, r) ==
    \/ r = "datagram_in"
    \/ r = "pipe_in" /\ w.conn.active /\ ~w.outbound_shutdown /\ remaining_capacity(w.conn.outbound) > 0
    \/ r = "pipe_out" /\ \/ w.conn.inbound.buffer # << >>
                         \/ (eof(w.conn.inbound) \/ w.conn.inbound.error) /\ ~w.inbound_shutdown
    \/ r = "datagram_out" /\ w.conn.segments_out # {}

TcpInterest(w, r) ==
    CASE r = "datagram_in" -> w.conn.active
      [] r = "pipe_in" ->
            w.conn.active /\ ~w.outbound_shutdown /\ remaining_capacity(w.conn.outbound) > 0
      [] r = "pipe_out" ->
            \/ w.conn.inbound.buffer # << >>
            \/ (eof(w.conn.inbound) \/ w.conn.inbound.error) /\ ~w.inbound_shutdown
      [] r = "datagram_out" -> w.conn.segments_out # {}

TcpCancel(w, r) ==
    IF r = "pipe_in" THEN [w EXCEPT !.conn = ConnEndsInput(@), !.outbound_shutdown = TRUE] ELSE w

TcpReady(r) ==
    CASE r = "datagram_in" -> wire # << >>
      [] r = "pipe_in" -> Readable(up)
      [] r = "pipe_out" -> HasRoom(down)
      [] r = "datagram_out" -> TRUE

TcpHup(r) == r \in {"pipe_in", "pipe_out"} /\ up.shut /\ down.shut

TcpErr(r) == FALSE

TcpEvents == INSTANCE EventLoop WITH
    IsOver <- TcpIsOver, Interest <- TcpInterest, Cancel <- TcpCancel,
    Ready <- TcpReady, Hup <- TcpHup, Err <- TcpErr

AppIsOver(w, r) ==
    \/ r = "stdin" /\ w.input_eof
    \/ r = "socket_in" /\ w.socket_eof
    \/ r = "stdout" /\ w.output_closed

AppInterest(w, r) ==
    CASE r = "stdin" -> ~w.outbound.error /\ remaining_capacity(w.outbound) > 0 /\ ~w.inbound.error
      [] r = "socket_out" ->
            w.outbound.buffer # << >> \/ (eof(w.outbound) /\ ~w.outbound_shutdown)
      [] r = "socket_in" -> ~w.inbound.error /\ remaining_capacity(w.inbound) > 0 /\ ~w.outbound.error
      [] r = "stdout" -> w.inbound.buffer # << >> \/ (eof(w.inbound) /\ ~w.inbound_shutdown)

AppCancel(w, r) ==
    IF r \in {"stdin", "socket_out"} THEN [w EXCEPT !.outbound = end_input(@)]
    ELSE [w EXCEPT !.inbound = end_input(@)]

\* A file at its end is readable, a pipe has hung up.
AppReady(r) ==
    CASE r = "stdin" -> stdin.read < StdinLen \/ ~stdin.pipe
      [] r = "socket_out" -> HasRoom(up)
      [] r = "socket_in" -> Readable(down)
      [] r = "stdout" -> TRUE

AppHup(r) ==
    \/ r = "stdin" /\ stdin.pipe /\ stdin.read = StdinLen
    \/ r \in {"socket_in", "socket_out"} /\ up.shut /\ down.shut

AppErr(r) == r = "stdout" /\ stdoutGone

AppEvents == INSTANCE EventLoop WITH
    IsOver <- AppIsOver, Interest <- AppInterest, Cancel <- AppCancel,
    Ready <- AppReady, Hup <- AppHup, Err <- AppErr

Init ==
    /\ up = NewChannel /\ down = NewChannel
    /\ tcp = [conn |-> NewConn, eof |-> FALSE, outbound_shutdown |-> FALSE,
              inbound_shutdown |-> FALSE, stage |-> "poll"]
    /\ tcpLoop = TcpEvents!SetUp(FoldLeft(TcpEvents!add_rule, TcpEvents!NewLoop, TcpRules), tcp).l
    /\ app = [outbound |-> NewByteStream(Capacity), inbound |-> NewByteStream(Capacity),
              input_eof |-> FALSE, socket_eof |-> FALSE, output_closed |-> FALSE,
              outbound_shutdown |-> FALSE, inbound_shutdown |-> FALSE, stage |-> "callbacks"]
    /\ appLoop = FoldLeft(AppEvents!add_rule, AppEvents!NewLoop, AppRules)
    /\ stdin \in [read : {0}, pipe : BOOLEAN] /\ stdout = << >> /\ stdoutGone = FALSE
    /\ wire = << >> /\ peer = [bytes |-> 0, fin |-> FALSE, rst |-> FALSE]
    /\ sent = {} /\ abort = FALSE /\ death = "none"

--------------------------------------------------------------------------------
\* The TCP thread.  Its pipe never merely hangs up: the owner shuts it only after it
\* has read its end.  After the callbacks of one wait_next_event, _tcp_loop looks at
\* _abort, ticks, and calls it again.
TcpTurn(givesUp) ==
    LET ticked == [tcp EXCEPT !.conn = IF @.active THEN ConnTick(@, givesUp) ELSE @]
        waits  == TcpEvents!SetUp(tcpLoop, ticked)
    IN  /\ tcp.stage = "callbacks" /\ tcpLoop.todo = << >>
        /\ givesUp => tcp.conn.active /\ tcp.conn.flight /\ ~abort
        /\ IF abort THEN tcp' = [tcp EXCEPT !.stage = "main"] /\ UNCHANGED tcpLoop
           ELSE /\ tcpLoop' = waits.l
                /\ tcp' = [waits.w EXCEPT !.stage = IF TcpEvents!Exits(waits.l) THEN "main" ELSE "poll"]
        /\ UNCHANGED <<up, down, appVars, envVars, sent, abort, death>>

\* poll() with a timeout of TCP_TICK_MS.
TcpPoll ==
    /\ tcp.stage = "poll"
    /\ tcpLoop' = TcpEvents!Polled(tcpLoop)
    /\ tcp' = [tcp EXCEPT !.stage = "callbacks"]
    /\ UNCHANGED <<up, down, appVars, envVars, sent, abort, death>>

TcpNext(r) ==
    /\ tcp.stage = "callbacks" /\ tcpLoop.todo # << >>
    /\ Head(tcpLoop.todo) = <<r, "ready">>
    /\ tcpLoop' = TcpEvents!Handled(tcpLoop)
    /\ UNCHANGED <<appVars, stdoutGone, peer, abort>>

\* Rule 1.
DatagramIn ==
    /\ TcpNext("datagram_in")
    /\ tcp' = [tcp EXCEPT !.conn = ConnReceives(@, Head(wire))]
    /\ wire' = Tail(wire)
    /\ UNCHANGED <<up, down, sent, death>>

\* Rule 2.
PipeIn ==
    LET room == remaining_capacity(tcp.conn.outbound)
        data == FdRead(up, room)
        w    == [tcp EXCEPT !.conn = ConnWrites(@, data), !.eof = @ \/ FdHitsEof(up, room)]
    IN  /\ TcpNext("pipe_in")
        /\ up' = FdAfterRead(up, room)
        /\ death' = IF WriteCount(tcp.conn.outbound, data) # Len(data) THEN "short write" ELSE death
        /\ tcp' = IF w.eof THEN TcpCancel(w, "pipe_in") ELSE w
        /\ UNCHANGED <<down, wire, sent>>

\* Rule 3.  Mutant of PipeOut: it pops what it meant to write.
PipeOutPopsAll ==
    LET data == tcp.conn.inbound.buffer
    IN  /\ TcpNext("pipe_out")
        /\ down' = FdAfterWrite(down, data)
        /\ tcp' = [tcp EXCEPT !.conn.inbound = pop_output(@, Len(data))]
        /\ UNCHANGED <<up, wire, sent, death>>

PipeOut ==
    LET data    == tcp.conn.inbound.buffer
        inbound == pop_output(tcp.conn.inbound, FdWritten(down, data))
        ended   == eof(inbound) \/ inbound.error
    IN  /\ TcpNext("pipe_out")
        /\ IF Breaks(down, data) THEN death' = "SIGPIPE in TCP thread" /\ UNCHANGED <<tcp, down>>
           ELSE /\ down' = LET written == FdAfterWrite(down, data)
                           IN  IF ended THEN Shut(written) ELSE written
                /\ tcp' = [tcp EXCEPT !.conn.inbound = inbound, !.inbound_shutdown = @ \/ ended]
                /\ UNCHANGED death
        /\ UNCHANGED <<up, wire, sent>>

\* Rule 4.
DatagramOut ==
    LET w == [tcp EXCEPT !.conn.segments_out = {}]
    IN  /\ TcpNext("datagram_out")
        /\ sent' = sent \cup tcp.conn.segments_out
        /\ tcp' = w
        /\ death' = IF TcpEvents!BusyWait(tcp.conn.segments_out # {}, w, "datagram_out")
                    THEN "busy wait" ELSE death
        /\ UNCHANGED <<up, down, wire>>

\* _tcp_main after its loop: shutdown(SHUT_RDWR) of the owner's end, _tcp.reset().
TcpMainEnds ==
    /\ tcp.stage = "main"
    /\ up' = Shut(up) /\ down' = Shut(down)
    /\ tcp' = [tcp EXCEPT !.conn = ConnDestroyed(@), !.stage = "over"]
    /\ UNCHANGED <<tcpLoop, appVars, envVars, sent, abort, death>>

--------------------------------------------------------------------------------
\* The owner copies until its loop exits; its poll() has no timeout.
AppTurn ==
    LET waits == AppEvents!SetUp(appLoop, app)
    IN  /\ app.stage = "callbacks" /\ appLoop.todo = << >>
        /\ appLoop' = waits.l
        /\ app' = [waits.w EXCEPT !.stage = IF AppEvents!Exits(waits.l) THEN "copied" ELSE "poll"]
        /\ UNCHANGED <<up, down, tcpVars, stdin, stdout, envVars, sent, abort, death>>

AppPoll ==
    /\ app.stage = "poll"
    /\ AppEvents!Wakes(appLoop)
    /\ appLoop' = AppEvents!Polled(appLoop)
    /\ app' = [app EXCEPT !.stage = "callbacks"]
    /\ UNCHANGED <<up, down, tcpVars, stdin, stdout, envVars, sent, abort, death>>

AppNext(r, how) ==
    /\ app.stage = "callbacks" /\ appLoop.todo # << >>
    /\ Head(appLoop.todo) = <<r, how>>
    /\ UNCHANGED <<tcpVars, envVars, sent>>

\* Rule 1: len bytes come from stdin, none at its end.
Stdin(len) ==
    LET room == remaining_capacity(app.outbound)
        most == IF room < StdinLen - stdin.read THEN room ELSE StdinLen - stdin.read
        read == [app EXCEPT !.outbound = write(@, Excerpt(stdin.read, len)),
                            !.input_eof = @ \/ (len = 0 /\ room > 0)]
    IN  /\ AppNext("stdin", "ready")
        /\ len <= most /\ (len = 0 => most = 0)
        /\ stdin' = [stdin EXCEPT !.read = @ + len]
        /\ app' = IF read.input_eof THEN AppCancel(read, "stdin") ELSE read
        /\ appLoop' = AppEvents!Handled(appLoop)
        /\ UNCHANGED <<up, down, stdout, abort, death>>

\* Rule 2.
SocketOut ==
    LET data     == app.outbound.buffer
        outbound == pop_output(app.outbound, FdWritten(up, data))
    IN  /\ AppNext("socket_out", "ready")
        /\ IF Breaks(up, data) THEN death' = "SIGPIPE in owner" /\ UNCHANGED <<app, up>>
           ELSE /\ up' = LET written == FdAfterWrite(up, data)
                         IN  IF eof(outbound) THEN Shut(written) ELSE written
                /\ app' = [app EXCEPT !.outbound = outbound, !.outbound_shutdown = @ \/ eof(outbound)]
                /\ UNCHANGED death
        /\ appLoop' = AppEvents!Handled(appLoop)
        /\ UNCHANGED <<down, stdin, stdout, abort>>

\* Rule 3.
SocketIn ==
    LET room == remaining_capacity(app.inbound)
        read == [app EXCEPT !.inbound = write(@, FdRead(down, room)),
                            !.socket_eof = @ \/ FdHitsEof(down, room)]
    IN  /\ AppNext("socket_in", "ready")
        /\ down' = FdAfterRead(down, room)
        /\ app' = IF read.socket_eof THEN AppCancel(read, "socket_in") ELSE read
        /\ appLoop' = AppEvents!Handled(appLoop)
        /\ UNCHANGED <<up, stdin, stdout, abort, death>>

\* Rule 4: stdout takes len bytes.
Stdout(len) ==
    LET inbound == pop_output(app.inbound, len)
    IN  /\ AppNext("stdout", "ready")
        /\ len <= Len(app.inbound.buffer) /\ (len = 0 => app.inbound.buffer = << >>)
        /\ stdout' = stdout \o peek_output(app.inbound, len)
        /\ app' = [app EXCEPT !.inbound = inbound, !.output_closed = @ \/ eof(inbound),
                               !.inbound_shutdown = @ \/ eof(inbound)]
        /\ appLoop' = AppEvents!Handled(appLoop)
        /\ UNCHANGED <<up, down, stdin, abort, death>>

AppHangup(r) ==
    /\ AppNext(r, "hup")
    /\ appLoop' = AppEvents!Erased(appLoop, r)
    /\ app' = AppCancel(app, r)
    /\ UNCHANGED <<up, down, stdin, stdout, abort, death>>

\* "error on polled file descriptor" leaves bidirectional_stream_copy, and
\* ~TCPSpongeSocket sets _abort before it joins the thread.
AppThrows ==
    /\ AppNext("stdout", "error")
    /\ app' = [app EXCEPT !.stage = "join"]
    /\ abort' = TRUE
    /\ UNCHANGED <<up, down, appLoop, stdin, stdout, death>>

wait_until_closed ==
    /\ app.stage = "copied"
    /\ up' = Shut(up) /\ down' = Shut(down)
    /\ app' = [app EXCEPT !.stage = "join"]
    /\ UNCHANGED <<tcpVars, appLoop, stdin, stdout, envVars, sent, abort, death>>

Join ==
    /\ app.stage = "join" /\ tcp.stage = "over"
    /\ app' = [app EXCEPT !.stage = "done"]
    /\ UNCHANGED <<up, down, tcpVars, appLoop, stdin, stdout, envVars, sent, abort, death>>

--------------------------------------------------------------------------------
\* The peer sends what its own connection lets it: bytes into the window, a FIN
\* after them, acknowledgments of what is in flight, perhaps a RST.
PeerMay(kind) ==
    LET c == tcp.conn
    IN  CASE kind = "data" ->
               /\ peer.bytes < PeerLen
               /\ peer.bytes - c.inbound.bytes_read < Capacity
          [] kind = "fin" -> peer.bytes = PeerLen /\ ~peer.fin
          [] kind = "ack" ->
               c.flight /\ c.segments_out \cap {"data", "fin"} = {} /\ "ack" \notin Range(wire)
          [] kind = "rst" -> PeerResets

PeerSends(kind) ==
    /\ tcp.stage # "over" /\ ~peer.rst /\ Len(wire) < MaxWire /\ PeerMay(kind)
    /\ wire' = Append(wire, kind)
    /\ peer' = [bytes |-> peer.bytes + (IF kind = "data" THEN 1 ELSE 0),
                fin |-> peer.fin \/ kind = "fin", rst |-> kind = "rst"]
    /\ UNCHANGED <<up, down, tcpVars, appVars, stdoutGone, sent, abort, death>>

StdoutReaderLeaves ==
    /\ StdoutBreaks /\ ~stdoutGone /\ app.stage \notin {"copied", "join", "done"}
    /\ stdoutGone' = TRUE
    /\ UNCHANGED <<up, down, tcpVars, appVars, wire, peer, sent, abort, death>>

TcpThread ==
    /\ death = "none"
    /\ \/ \E givesUp \in BOOLEAN : TcpTurn(givesUp)
       \/ TcpPoll \/ DatagramIn \/ PipeIn \/ PipeOut \/ DatagramOut \/ TcpMainEnds

Owner ==
    /\ death = "none"
    /\ \/ AppTurn \/ AppPoll \/ SocketOut \/ SocketIn
       \/ \E len \in 0 .. Capacity : Stdin(len) \/ Stdout(len)
       \/ \E r \in {"stdin", "socket_out"} : AppHangup(r)
       \/ AppThrows \/ wait_until_closed \/ Join

Peer(kind) == death = "none" /\ PeerSends(kind)

Next == TcpThread \/ Owner \/ (\E kind \in Kinds : Peer(kind)) \/ StdoutReaderLeaves

Spec == Init /\ [][Next]_vars

\* Weak fairness, with the enabling conditions written out: both threads run (the
\* owner waits in poll() and in join()), and a peer that has not sent a RST goes on
\* to its end.
OwnerWaits ==
    \/ app.stage = "done"
    \/ app.stage = "join" /\ tcp.stage # "over"
    \/ app.stage = "poll" /\ ~AppEvents!Wakes(appLoop)

FairSpec ==
    /\ Spec
    /\ []<><<TcpThread>>_vars \/ []<>(tcp.stage = "over" \/ death # "none")
    /\ []<><<Owner>>_vars \/ []<>(OwnerWaits \/ death # "none")
    /\ \A kind \in Kinds \ {"rst"} :
          \/ []<><<Peer(kind)>>_vars
          \/ []<>(tcp.stage = "over" \/ death # "none" \/ peer.rst \/ Len(wire) >= MaxWire
                     \/ ~PeerMay(kind))

--------------------------------------------------------------------------------
IsStream(s) ==
    /\ DOMAIN s = DOMAIN NewByteStream(Capacity)
    /\ Len(s.buffer) <= Capacity /\ s.bytes_written = s.bytes_read + Len(s.buffer)

TypeOK ==
    /\ {up, down} \subseteq Channels
    /\ \A s \in {tcp.conn.inbound, tcp.conn.outbound, app.inbound, app.outbound} : IsStream(s)
    /\ tcp.stage \in {"poll", "callbacks", "main", "over"}
    /\ app.stage \in {"poll", "callbacks", "copied", "join", "done"}
    /\ Range(tcpLoop.rules) \subseteq Range(TcpRules) /\ Range(appLoop.rules) \subseteq Range(AppRules)
    /\ tcpLoop.events \subseteq Range(TcpRules) /\ appLoop.events \subseteq Range(AppRules)
    /\ stdin.read \in 0 .. StdinLen /\ peer.bytes \in 0 .. PeerLen
    /\ wire \in Seq(Kinds) /\ sent \subseteq Kinds
    /\ death \in {"none", "short write", "busy wait", "SIGPIPE in TCP thread", "SIGPIPE in owner"}

(***************************************************************************)
(* Partial reads and writes of the two loops, on four streams and a pipe   *)
(* that both threads use, lose, repeat and reorder nothing: what lies      *)
(* between the connection and stdout, or stdin and the connection, is      *)
(* always one excerpt of the stream (outbound: while there is a            *)
(* connection to give it to).                                              *)
(***************************************************************************)
BothWaysInOrder ==
    LET in  == tcp.conn.inbound
        out == tcp.conn.outbound
    IN  /\ stdout \o app.inbound.buffer \o down.bytes \o in.buffer = Excerpt(0, in.bytes_written)
        /\ death = "none" /\ tcp.stage # "over" =>
               out.buffer \o up.bytes \o app.outbound.buffer =
                   Excerpt(out.bytes_read, stdin.read - out.bytes_read)

(***************************************************************************)
(* Nobody announces an end too early: when end_input_stream() is called,   *)
(* all of stdin has been written to the connection; when the owner closes  *)
(* stdout, all the peer sent is on it, unless the connection was reset.    *)
(***************************************************************************)
EndsOnlyAtTheEnd ==
    /\ tcp.conn.outbound.input_end /\ death = "none" => tcp.conn.outbound.bytes_written = StdinLen
    /\ app.output_closed => tcp.conn.inbound.error \/ Len(stdout) = PeerLen

(***************************************************************************)
(* When wait_until_closed() returns and there was no reset, both streams   *)
(* have been copied to their ends and acknowledged.                        *)
(***************************************************************************)
CleanMeansCopied ==
    app.stage = "done" /\ ~abort /\ ~tcp.conn.inbound.error =>
        Len(stdout) = PeerLen /\ tcp.conn.fin_sent /\ ~tcp.conn.flight /\ tcp.conn.outbound.bytes_read = StdinLen

(***************************************************************************)
(* Without a reset the process is not killed: no thread writes to a pipe   *)
(* the other has shut, and rule 2 never reads more than write() takes.     *)
(* And no callback ever trips wait_next_event's check for busy waiting,    *)
(* whatever earlier callbacks of the same poll() have done.                *)
(***************************************************************************)
OnlyResetsKill == death # "none" => tcp.conn.inbound.error /\ death # "busy wait"

(***************************************************************************)
(* If stdin ends and the peer answers, the life of the socket ends: both   *)
(* loops exit, or an error ends the copying, and the join returns.         *)
(***************************************************************************)
Terminates == <>(app.stage = "done" \/ death # "none")

(***************************************************************************)
(* "TCPConnection::write() accepted less than advertised length": rule 2   *)
(* reads no more from the pipe than the connection takes.                  *)
(***************************************************************************)
TakesWhatItAdvertises == death # "short write"

(***************************************************************************)
(* "if TCPSpongeSocket is destructed while a TCP connection is open, the   *)
(* connection is immediately terminated with a RST".                       *)
(***************************************************************************)
AbortSendsRst ==
    app.stage = "done" /\ abort /\ "rst" \in tcp.conn.segments_out => "rst" \in sent
================================================================================
