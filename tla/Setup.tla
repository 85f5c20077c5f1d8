------------------------------- MODULE Setup --------------------------------
(***************************************************************************)
(* One Minecraft connection from the moment it reaches the client proxy to *)
(* the moment both proxies forward, where module Tunnel takes over: the    *)
(* accept loops and connection handlers of p2p_client and p2p_server       *)
(* (src/p2p_pipe.rs), and those of connect_tcp and listen_tcp              *)
(* (src/dumbpipe.rs) on the sides in dumbpipe.                             *)
(*                                                                         *)
(* The client's handler peeks the handshake once, looks the server up,     *)
(* connects, opens a stream and greets the other proxy on it; when a step  *)
(* fails, a p2p_pipe.rs handler tells the Minecraft client why.  The       *)
(* server's handler waits for the stream, reads the greeting and connects  *)
(* to the Minecraft server.  Other connections matter only in that they    *)
(* may break the server's accept loop.                                     *)
(***************************************************************************)
EXTENDS Handshake

CONSTANTS
    Hellos,    \* handshakes a Minecraft client may send
    Reasons,   \* lengths of the reason in a login disconnect
    PeekBuf    \* bytes one peek() can return, 512 in the code

Side == {"client", "server"}

\* The lengths of what is sent are numbers of 32 bits: the packet of a reason
\* is six bytes longer at most, not counting its own length.
ASSUME SetupAssumption == \A r \in Reasons : r \in Nat \ {0} /\ r + 6 \in I32
ASSUME HelloAssumption == \A h \in Hellos : IsHandshake(h)
ASSUME PeekAssumption == PeekBuf \in Nat \ {0}

VARIABLES
    dumbpipe,  \* the sides that run dumbpipe.rs; it never changes
    hello,     \* the handshake of this Minecraft client
    mc,        \* "open" or "gone": the Minecraft client
    arrived,   \* how many bytes of it have reached the client proxy
    cancel,    \* cancel[s]: the application cancelled side s
    loop,      \* loop[s]: its accept loop
    phase,     \* the client's handler
    peeked,    \* how many bytes its peek() returned, 0 before
    info,      \* what it read from them
    consumed,  \* bytes it discarded
    told,      \* the length of the reason it sent, 0 for none
    unread,    \* the Minecraft client did not take the reason
    conn,      \* the QUIC connection
    greeting,  \* the five bytes: "unsent", "sent" or "read"
    srv        \* the server's handler

minecraft == <<dumbpipe, hello, mc, arrived>>
parsing   == <<peeked, info>>
telling   == <<consumed, told, unread>>
quic      == <<conn, greeting>>
vars == <<minecraft, cancel, loop, phase, parsing, telling, quic, srv>>

\* A Minecraft client sends its next packet right after the handshake.
Packet == [h \in Hellos |-> WireHandshake(h)]
Stream == [h \in Hellos |-> Packet[h] \o <<1, 0>>]

\* What the parser makes of the first n bytes.
Understood ==
    [h \in Hellos |->
        [n \in DOMAIN Stream[h] |-> ParseHandshake(SubSeq(Stream[h], 1, n))]]

Init ==
    /\ dumbpipe \in SUBSET Side
    /\ hello \in Hellos /\ mc = "open" /\ arrived = 0
    /\ cancel = [s \in Side |-> FALSE]
    /\ loop = [s \in Side |-> "listening"]
    /\ phase = "backlog"
    /\ peeked = 0 /\ info = [outcome |-> "none"]
    /\ consumed = 0 /\ told = 0 /\ unread = FALSE
    /\ conn = "none" /\ greeting = "unsent"
    /\ srv = "none"

-----------------------------------------------------------------------------
(* The environment.                                                        *)

\* TCP cuts the stream where it likes.
Arrive ==
    /\ mc = "open"
    /\ arrived' \in {n \in DOMAIN Stream[hello] : n > arrived}
    /\ UNCHANGED <<dumbpipe, hello, mc>>
    /\ UNCHANGED <<cancel, loop, phase, parsing, telling, quic, srv>>

McLeaves ==
    /\ mc = "open"
    /\ mc' = "gone"
    /\ UNCHANGED <<dumbpipe, hello, arrived>>
    /\ UNCHANGED <<cancel, loop, phase, parsing, telling, quic, srv>>

AppCancel(s) ==
    /\ ~cancel[s]
    /\ cancel' = [cancel EXCEPT ![s] = TRUE]
    /\ UNCHANGED <<minecraft, loop, phase, parsing, telling, quic, srv>>

\* The network or a process is gone: both ends notice in the end.
ConnLost ==
    /\ conn \in {"dialing", "up"}
    /\ conn' = "closed"
    /\ UNCHANGED <<minecraft, cancel, loop, phase, parsing, telling, greeting, srv>>

-----------------------------------------------------------------------------
(* The client's accept loop.                                               *)

\* What endpoint.close(), or dropping the last handle of a connection, does.
Closed == IF conn = "none" THEN "none" ELSE "closed"

\* The select! of p2p_pipe.rs is biased: after a cancellation it accepts
\* nobody.  That of dumbpipe.rs may.  An accept that fails changes nothing.
Accept ==
    /\ phase = "backlog"
    /\ loop["client"] = "listening"
    /\ "client" \in dumbpipe \/ ~cancel["client"]
    /\ phase' = "parse"
    /\ UNCHANGED <<minecraft, cancel, loop, parsing, telling, quic, srv>>

\* The listener goes with its backlog; p2p_pipe.rs also closes the endpoint.
StopListening ==
    /\ loop["client"] = "listening"
    /\ cancel["client"]
    /\ loop' = [loop EXCEPT !["client"] = "ended"]
    /\ phase' = IF phase = "backlog" THEN "closed" ELSE phase
    /\ conn' = IF "client" \in dumbpipe THEN conn ELSE Closed
    /\ UNCHANGED <<minecraft, cancel, parsing, telling, greeting, srv>>

-----------------------------------------------------------------------------
(* The client's handler.                                                   *)

\* As much of what has arrived as the buffer takes.
Peekable == IF arrived <= PeekBuf THEN arrived ELSE PeekBuf

\* Mutant: the handler goes on whatever it read.
PeekUnchecked ==
    /\ phase = "parse"
    /\ arrived > 0
    /\ peeked' = Peekable
    /\ info' = Understood[hello][Peekable]
    /\ phase' = "lookup"
    /\ UNCHANGED <<minecraft, cancel, loop, telling, quic, srv>>

\* parse_handshake: one peek, of whatever has arrived by then.  A handshake
\* that was not understood, or a panic, drops the socket.
Peek ==
    /\ phase = "parse"
    /\ arrived > 0
    /\ peeked' = Peekable
    /\ info' = Understood[hello][Peekable]
    /\ phase' = IF Understood[hello][Peekable].outcome = "ok" THEN "lookup" ELSE "closed"
    /\ UNCHANGED <<minecraft, cancel, loop, telling, quic, srv>>

\* Nothing in 500 ms, the end of the stream, or a reset.
NoHandshake ==
    /\ phase = "parse"
    /\ arrived = 0 \/ mc = "gone"
    /\ info' = Failed
    /\ phase' = "closed"
    /\ UNCHANGED <<minecraft, cancel, loop, peeked, telling, quic, srv>>

\* Mutant: the handler of p2p_pipe.rs returns its errors, as dumbpipe.rs does.
GiveUpSilently ==
    /\ phase' = "closed"
    /\ conn' = Closed

\* A step failed.  p2p_pipe.rs holds what it has until it has told why;
\* dumbpipe.rs returns an error, or panics at the lookup.
GiveUp ==
    IF "client" \in dumbpipe
    THEN phase' = "closed" /\ conn' = Closed
    ELSE phase' = "refuse" /\ conn' = conn

\* lookup_iroh_mapping and EndpointTicket::from_str.
Lookup ==
    /\ phase = "lookup"
    /\ phase' = "dial"
    /\ UNCHANGED <<minecraft, cancel, loop, parsing, telling, quic, srv>>

\* No record, no answer from the DHT, or no ticket in it.
LookupFails ==
    /\ phase = "lookup"
    /\ GiveUp
    /\ UNCHANGED <<minecraft, cancel, loop, parsing, telling, greeting, srv>>

\* The endpoint of p2p_pipe.rs is closed with its loop.
Dial ==
    /\ phase = "dial"
    /\ conn = "none"
    /\ "client" \in dumbpipe \/ loop["client"] = "listening"
    /\ conn' = "dialing"
    /\ UNCHANGED <<minecraft, cancel, loop, phase, parsing, telling, greeting, srv>>

Connected ==
    /\ phase = "dial"
    /\ conn = "up"
    /\ phase' = "open"
    /\ UNCHANGED <<minecraft, cancel, loop, parsing, telling, quic, srv>>

\* The future of connect() is gone with its connection.
DialFails ==
    /\ phase = "dial"
    /\ phase' = IF "client" \in dumbpipe THEN "closed" ELSE "refuse"
    /\ conn' = Closed
    /\ UNCHANGED <<minecraft, cancel, loop, parsing, telling, greeting, srv>>

\* Nothing is sent yet: the other proxy does not see the stream.
OpenBi ==
    /\ phase = "open"
    /\ conn = "up"
    /\ phase' = "hello"
    /\ UNCHANGED <<minecraft, cancel, loop, parsing, telling, quic, srv>>

\* Mutant: the handler forwards without a greeting.
GreetNot ==
    /\ phase = "hello"
    /\ conn = "up"
    /\ phase' = "forward"
    /\ UNCHANGED <<minecraft, cancel, loop, parsing, telling, quic, srv>>

Greet ==
    /\ phase = "hello"
    /\ conn = "up"
    /\ greeting' = "sent"
    /\ phase' = "forward"
    /\ UNCHANGED <<minecraft, cancel, loop, parsing, telling, conn, srv>>

\* open_bi or write_all on a connection that is no longer up.
StreamFails ==
    /\ phase \in {"open", "hello"}
    /\ conn = "closed"
    /\ GiveUp
    /\ UNCHANGED <<minecraft, cancel, loop, parsing, telling, greeting, srv>>

-----------------------------------------------------------------------------
(* disconnect! and send_login_disconnect.                                  *)

\* Of len bytes, those the Minecraft client has sent.
SentOf(len) == IF arrived >= len THEN len ELSE arrived

\* Mutant: packet_len counts the length prefix twice.
DiscardTooMuch ==
    /\ phase = "refuse"
    /\ info.next = 2
    /\ arrived >= info.len + 1 \/ mc = "gone"
    /\ consumed' = SentOf(info.len + 1)
    /\ phase' = "tell"
    /\ UNCHANGED <<minecraft, cancel, loop, parsing, told, unread, quic, srv>>

\* read_exact of as many bytes as the handshake announced, without a timeout:
\* it ends with the last of them, or with an error, which is ignored, when the
\* Minecraft client is gone.
Discard ==
    /\ phase = "refuse"
    /\ info.next = 2
    /\ arrived >= info.len \/ mc = "gone"
    /\ consumed' = SentOf(info.len)
    /\ phase' = "tell"
    /\ UNCHANGED <<minecraft, cancel, loop, parsing, told, unread, quic, srv>>

Tell ==
    /\ phase = "tell"
    /\ told' \in Reasons
    /\ phase' = "closed"
    /\ conn' = Closed
    /\ UNCHANGED <<minecraft, cancel, loop, parsing, consumed, unread, greeting, srv>>

\* The write fails, or is not through after 500 ms.
TellFails ==
    /\ phase = "tell"
    /\ unread' = TRUE
    /\ phase' = "closed"
    /\ conn' = Closed
    /\ UNCHANGED <<minecraft, cancel, loop, parsing, consumed, told, greeting, srv>>

\* Not a login: the socket is only shut down.
ShutDown ==
    /\ phase = "refuse"
    /\ info.next # 2
    /\ phase' = "closed"
    /\ conn' = Closed
    /\ UNCHANGED <<minecraft, cancel, loop, parsing, telling, greeting, srv>>

\* p2p_client races the handler against the token.  The tasks of a handler
\* that forwards outlive it: see module Tunnel.
HandlerCancelled ==
    /\ "client" \notin dumbpipe
    /\ cancel["client"]
    /\ phase \notin {"backlog", "forward", "closed"}
    /\ phase' = "closed"
    /\ conn' = Closed
    /\ UNCHANGED <<minecraft, cancel, loop, parsing, telling, greeting, srv>>

\* The end of what Tunnel describes.
ForwardEnds ==
    /\ phase = "forward"
    /\ phase' = "closed"
    /\ conn' = Closed
    /\ UNCHANGED <<minecraft, cancel, loop, parsing, telling, greeting, srv>>

-----------------------------------------------------------------------------
(* The server's accept loop and handler.                                   *)

\* The loop hands the connection to a handler, whose accepting.await
\* completes with the client's connect().
TakeIncoming ==
    /\ loop["server"] = "listening"
    /\ conn = "dialing"
    /\ conn' = "up"
    /\ srv' = "stream"
    /\ UNCHANGED <<minecraft, cancel, loop, phase, parsing, telling, greeting>>

\* incoming.accept() fails, for this connection or another.  The endpoint is
\* dropped with the task of the loop: what is up may be lost.
LoopBreaks ==
    /\ loop["server"] = "listening"
    /\ loop' = [loop EXCEPT !["server"] = "broke"]
    /\ UNCHANGED <<minecraft, cancel, phase, parsing, telling, quic, srv>>

\* Mutant: the loop of p2p_pipe.rs ends and leaves the endpoint open.
StopServingOpen ==
    /\ loop["server"] = "listening"
    /\ cancel["server"]
    /\ loop' = [loop EXCEPT !["server"] = "ended"]
    /\ UNCHANGED <<minecraft, cancel, phase, parsing, telling, quic, srv>>

\* p2p_pipe.rs closes the endpoint, and its connections with it.
StopServing ==
    /\ loop["server"] = "listening"
    /\ cancel["server"]
    /\ loop' = [loop EXCEPT !["server"] = "ended"]
    /\ conn' = IF "server" \in dumbpipe THEN conn ELSE Closed
    /\ UNCHANGED <<minecraft, cancel, phase, parsing, telling, greeting, srv>>

\* accept_bi: a stream exists for this end once something is written to it.
AcceptBi ==
    /\ srv = "stream"
    /\ conn = "up"
    /\ greeting = "sent"
    /\ srv' = "hello"
    /\ UNCHANGED <<minecraft, cancel, loop, phase, parsing, telling, quic>>

\* Mutant: the five bytes are left in the stream.
ReadHelloNot ==
    /\ srv = "hello"
    /\ srv' = "connect"
    /\ UNCHANGED <<minecraft, cancel, loop, phase, parsing, telling, quic>>

ReadHello ==
    /\ srv = "hello"
    /\ conn = "up"
    /\ greeting' = "read"
    /\ srv' = "connect"
    /\ UNCHANGED <<minecraft, cancel, loop, phase, parsing, telling, conn>>

\* accepting, accept_bi or read_exact fails: the connection is gone.
AcceptFails ==
    /\ srv \in {"stream", "hello"}
    /\ conn = "closed"
    /\ srv' = "done"
    /\ UNCHANGED <<minecraft, cancel, loop, phase, parsing, telling, quic>>

TcpConnect ==
    /\ srv = "connect"
    /\ srv' = "forward"
    /\ UNCHANGED <<minecraft, cancel, loop, phase, parsing, telling, quic>>

\* Nobody listens at the Minecraft server's address, or forwarding is over:
\* the handler returns and drops the connection.
ServerEnds ==
    /\ srv \in {"connect", "forward"}
    /\ srv' = "done"
    /\ conn' = Closed
    /\ UNCHANGED <<minecraft, cancel, loop, phase, parsing, telling, greeting>>

-----------------------------------------------------------------------------

Environment == Arrive \/ McLeaves \/ ConnLost \/ \E s \in Side : AppCancel(s)

ClientHandler ==
    \/ Peek \/ NoHandshake \/ Lookup \/ LookupFails
    \/ Dial \/ Connected \/ DialFails \/ OpenBi \/ Greet \/ StreamFails
    \/ Discard \/ Tell \/ TellFails \/ ShutDown

ServerHandler == AcceptBi \/ ReadHello \/ AcceptFails \/ TcpConnect

Next ==
    \/ Environment
    \/ Accept \/ StopListening \/ ClientHandler \/ HandlerCancelled \/ ForwardEnds
    \/ TakeIncoming \/ LoopBreaks \/ StopServing \/ ServerHandler \/ ServerEnds

Spec == Init /\ [][Next]_vars

\* tokio polls what is ready and fires its timers; a lookup and a dial have
\* an end, one way or the other; closing a connection reaches the peer.
\* Nobody has to send, leave, cancel or stop forwarding.
Fairness ==
    /\ WF_vars(ClientHandler) /\ WF_vars(HandlerCancelled)
    /\ WF_vars(Accept) /\ WF_vars(StopListening)
    /\ WF_vars(ServerHandler) /\ WF_vars(StopServing)
    /\ WF_vars(srv = "connect" /\ (TcpConnect \/ ServerEnds))

FairSpec == Spec /\ Fairness

-----------------------------------------------------------------------------
(* Properties.                                                             *)

Phases == {"backlog", "parse", "lookup", "dial", "open", "hello", "forward",
           "refuse", "tell", "closed"}

Outcomes == {"none", "ok", "failed", "panic"}

\* The type of every variable, and how far the connection is in each phase.
TypeOK ==
    /\ dumbpipe \subseteq Side
    /\ hello \in Hellos
    /\ mc \in {"open", "gone"}
    /\ arrived \in {0} \cup DOMAIN Stream[hello]
    /\ cancel \in [Side -> BOOLEAN]
    /\ loop \in [Side -> {"listening", "ended", "broke"}]
    /\ phase \in Phases
    /\ peeked \in {0} \cup DOMAIN Stream[hello]
    /\ info.outcome \in Outcomes
    /\ phase \notin {"backlog", "parse", "closed"} => info.outcome = "ok"
    /\ consumed = 0 \/ consumed = info.len \/ (mc = "gone" /\ consumed = arrived)
    /\ told \in Reasons \cup {0}
    /\ unread \in BOOLEAN
    /\ conn \in {"none", "dialing", "up", "closed"}
    /\ phase \in {"open", "hello", "forward"} => conn \in {"up", "closed"}
    /\ greeting \in {"unsent", "sent", "read"}
    /\ srv \in {"none", "stream", "hello", "connect", "forward", "done"}
    /\ srv \notin {"none", "done"} => conn \in {"up", "closed"}

\* How many bytes a handshake announces, its length among them.
Announced(h) == Len(Packet[h]) + h.owed

\* Where the port of a handshake is.
PortAt(h) == Len(Packet[h]) - 2 - Len(WireVarInt(h.next))

\* However TCP cuts the stream, the parser reads exactly what the client
\* sent when the whole handshake was peeked, for any protocol version, any
\* plain address with any marker behind it, and any announced length
\* (decode_varint, src/util/parse_server.rs:62-140);
\* a part of a handshake is never taken for another, and the task panics only
\* when the cut is before or inside the port (line 97).
ParsedIsSent ==
    info.outcome # "none" /\ peeked > 0 =>
        IF peeked >= Len(Packet[hello])
        THEN info = [outcome  |-> "ok",
                     server   |-> hello.server,
                     protocol |-> hello.protocol,
                     next     |-> hello.next,
                     len      |-> Announced(hello)]
        ELSE info.outcome =
                 IF peeked - PortAt(hello) \in {0, 1} THEN "panic" ELSE "failed"

\* A reason is sent only to a client that is logging in, after exactly the
\* bytes its handshake announced were taken out of the stream, or all it sent
\* before it left, and in a packet whose lengths Minecraft reads as they are
\* meant (encode_varint, build_login_disconnect).
ToldIsFramed ==
    told # 0 =>
        /\ hello.next = 2
        /\ \/ consumed = Announced(hello)
           \/ mc = "gone" /\ consumed = arrived /\ arrived < Announced(hello)
        /\ LET fields == <<0>> \o WireVarInt(told)
           IN  LoginDisconnect(told) = WireVarInt(Len(fields) + told) \o fields

\* src/p2p_pipe.rs:226: a login whose handshake was understood does not end
\* in silence.  When the handler has let go of it, it was forwarded, or told
\* why not, unless it did not listen or the application cancelled the proxy.
LoginIsAnswered ==
    phase = "closed" /\ info.outcome = "ok" /\ "client" \notin dumbpipe =>
        \/ info.next # 2
        \/ greeting # "unsent"
        \/ told # 0 \/ unread
        \/ cancel["client"]

\* The Minecraft server is connected to only when it is going to read what
\* the Minecraft client wrote, from its first byte to nothing before: the
\* client's handler peeked and took nothing out of the socket, told nothing,
\* and the proxies' greeting was read (src/util/parse_server.rs:43,
\* src/p2p_pipe.rs:41).
StreamIsMinecrafts ==
    srv \in {"connect", "forward"} =>
        /\ greeting = "read"
        /\ info.outcome = "ok"
        /\ consumed = 0 /\ told = 0

\* The discard waits for bytes that the Minecraft client, which stays, has
\* announced and not sent: read_exact has no timeout
\* (src/util/mc_disconnect.rs:188).
DiscardWaits ==
    /\ phase = "refuse" /\ info.next = 2
    /\ mc = "open" /\ arrived < info.len

\* Every connection the client proxy accepts is forwarded or closed, however
\* the steps of its handler fail and whatever they have to wait for, save one
\* wait that is exempt: a refused login that announced more bytes than it
\* sends, and neither sends them nor leaves, is waited for until then.
HandlerSettles == phase = "parse" ~> phase \in {"forward", "closed"} \/ []DiscardWaits

\* The server's handler has no timeout of its own (src/p2p_pipe.rs:452-466):
\* it never waits for good for a stream or a greeting, since the client
\* greets it or lets go of the connection.
ServerNotStranded == srv \in {"stream", "hello"} ~> srv \in {"forward", "done"}

\* Whatever the two handlers are doing, the cancellation of a p2p_pipe.rs
\* side takes the connection between them down for good, at whichever await
\* it meets them; a server whose loop broke before does not hear of it
\* (src/p2p_pipe.rs:373, 483).
CancelDisconnects ==
    \A s \in Side :
        s \notin dumbpipe /\ cancel[s]
            ~> [](conn \notin {"dialing", "up"}) \/ loop[s] = "broke"
=============================================================================
