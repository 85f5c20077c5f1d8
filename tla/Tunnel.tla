------------------------------- MODULE Tunnel -------------------------------
(***************************************************************************)
(* A Minecraft connection once both proxies forward it.  On each side one  *)
(* forward_bidi runs over a TCP socket to the local Minecraft end and the  *)
(* two halves of one QUIC stream: a task copy_to_noq (TCP to QUIC), a task *)
(* copy_from_noq (QUIC to TCP), the body that awaits them, and a           *)
(* cancellation token the three share.                                     *)
(*                                                                         *)
(* A side in Dumbpipe runs src/dumbpipe.rs (its token is a child of the    *)
(* application's token); the others run src/p2p_pipe.rs (a token of their  *)
(* own, fired by control-c, while the application's token closes the       *)
(* endpoint and, on the client, drops the handler).  Both speak the same   *)
(* protocol, so a tunnel may mix them.                                     *)
(*                                                                         *)
(* Bytes are chunks, and a stream is the number of chunks that passed each *)
(* of its stations: TCP and QUIC deliver in order, so a position in the    *)
(* writer's stream identifies a chunk.                                     *)
(***************************************************************************)
EXTENDS Integers, FiniteSets

CONSTANTS
    MaxSend,     \* bound: chunks each Minecraft end writes
    CopyBuf,     \* tokio::io::copy's buffer, in chunks
    Window,      \* QUIC flow control: chunks written and not yet read
    MaxFaults,   \* bound: resets, interrupts, cancellations and losses in a run
    Dumbpipe     \* the sides that run src/dumbpipe.rs

Side == {"client", "server"}
Other(s) == IF s = "client" THEN "server" ELSE "client"

ASSUME TunnelAssumption ==
    /\ MaxSend \in Nat
    /\ CopyBuf \in Nat \ {0}
    /\ Window \in Nat \ {0}
    /\ MaxFaults \in Nat
    /\ Dumbpipe \subseteq Side

VARIABLES
    sent,      \* chunks the Minecraft end at s wrote to its socket
    appEnd,    \* its writing half: "open", "eof" (shut down), "reset"
    rd,        \* chunks copy_to_noq read from the socket at s
    wr,        \* chunks copy_to_noq wrote to the QUIC stream at s
    stream,    \* the QUIC stream written at s: "open", "fin", "reset"
    stop,      \* the peer asked s to stop writing its stream
    got,       \* chunks copy_from_noq at s read from the peer's stream
    put,       \* chunks copy_from_noq at s wrote to the socket
    toNoq,     \* task copy_to_noq at s: "run", "ok", "err"
    fromNoq,   \* task copy_from_noq at s: "run", "ok", "err"
    token,     \* forward_bidi's token at s is cancelled
    ctrlC,     \* control-c was pressed at s
    bidi,      \* forward_bidi's body at s: the task it awaits, or its end
    cancel,    \* the application's token at s is cancelled
    conn       \* the QUIC connection: "up", "closed", "lost"

apps  == <<sent, appEnd>>
flow  == <<rd, wr, got, put>>
quic  == <<stream, stop, conn>>
tasks == <<toNoq, fromNoq, bidi>>
vars  == <<apps, flow, quic, tasks, token, ctrlC, cancel>>

Init ==
    /\ sent = [s \in Side |-> 0]
    /\ appEnd = [s \in Side |-> "open"]
    /\ rd = [s \in Side |-> 0]
    /\ wr = [s \in Side |-> 0]
    /\ stream = [s \in Side |-> "open"]
    /\ stop = [s \in Side |-> FALSE]
    /\ got = [s \in Side |-> 0]
    /\ put = [s \in Side |-> 0]
    /\ toNoq = [s \in Side |-> "run"]
    /\ fromNoq = [s \in Side |-> "run"]
    /\ token = [s \in Side |-> FALSE]
    /\ ctrlC = [s \in Side |-> FALSE]
    /\ bidi = [s \in Side |-> "awaitFrom"]
    /\ cancel = [s \in Side |-> FALSE]
    /\ conn = "up"

-----------------------------------------------------------------------------
(* The bound on what goes wrong.                                           *)

Faults ==
    Cardinality({s \in Side : appEnd[s] = "reset"})
        + Cardinality({s \in Side : ctrlC[s]})
        + Cardinality({s \in Side : cancel[s]})
        + (IF conn = "lost" THEN 1 ELSE 0)

CanFail == Faults < MaxFaults

-----------------------------------------------------------------------------
(* The Minecraft ends: a client and a server outside this program.         *)

AppSend(s) ==
    /\ appEnd[s] = "open"
    /\ sent[s] < MaxSend
    /\ sent' = [sent EXCEPT ![s] = @ + 1]
    /\ UNCHANGED <<appEnd, flow, quic, tasks, token, ctrlC, cancel>>

AppClose(s) ==
    /\ appEnd[s] = "open"
    /\ appEnd' = [appEnd EXCEPT ![s] = "eof"]
    /\ UNCHANGED <<sent, flow, quic, tasks, token, ctrlC, cancel>>

AppReset(s) ==
    /\ CanFail
    /\ appEnd[s] # "reset"
    /\ appEnd' = [appEnd EXCEPT ![s] = "reset"]
    /\ UNCHANGED <<sent, flow, quic, tasks, token, ctrlC, cancel>>

-----------------------------------------------------------------------------
(* How a task ends.                                                        *)

\* .map_err(cancel_token(token)): a failed task cancels the shared token.
CancelOnErrForgotten(s) == token' = token
CancelOnErr(s) == token' = [token EXCEPT ![s] = TRUE]

\* What the end of a SendStream tells the peer; on a connection that is no
\* longer up it tells nothing.
EndStream(s, end) ==
    stream' = IF conn = "up" THEN [stream EXCEPT ![s] = end] ELSE stream

\* A SendStream dropped without finish or reset finishes by itself, unless
\* the peer stopped it.
DropStream(s) == EndStream(s, IF stop[s] THEN "reset" ELSE "fin")

ToNoqFails(s) ==
    /\ toNoq' = [toNoq EXCEPT ![s] = "err"]
    /\ CancelOnErr(s)
    /\ UNCHANGED <<apps, flow, stop, conn, fromNoq, bidi, ctrlC, cancel>>

\* Dropping the RecvStream before its end, or stop(0), stops the peer.
FromNoqFails(s) ==
    /\ fromNoq' = [fromNoq EXCEPT ![s] = "err"]
    /\ CancelOnErr(s)
    /\ UNCHANGED <<apps, flow, stream, conn, toNoq, bidi, ctrlC, cancel>>

-----------------------------------------------------------------------------
(* copy_to_noq: tokio::io::copy from the socket to the stream, raced       *)
(* against the token.  select! polls both, so a cancelled copy may still   *)
(* move chunks before the cancelled branch is taken.                       *)

TcpReadPastEnd(s) ==
    /\ toNoq[s] = "run"
    /\ rd[s] - wr[s] < CopyBuf
    /\ rd' = [rd EXCEPT ![s] = @ + 1]
    /\ UNCHANGED <<apps, wr, got, put, quic, tasks, token, ctrlC, cancel>>

TcpRead(s) ==
    /\ toNoq[s] = "run"
    /\ rd[s] < sent[s]
    /\ rd[s] - wr[s] < CopyBuf
    /\ rd' = [rd EXCEPT ![s] = @ + 1]
    /\ UNCHANGED <<apps, wr, got, put, quic, tasks, token, ctrlC, cancel>>

NoqWrite(s) ==
    /\ toNoq[s] = "run"
    /\ wr[s] < rd[s]
    /\ wr[s] - got[Other(s)] < Window
    /\ conn = "up"
    /\ wr' = [wr EXCEPT ![s] = @ + 1]
    /\ UNCHANGED <<apps, rd, got, put, quic, tasks, token, ctrlC, cancel>>

\* The socket is at its end and every chunk is written.
Copied(s) == appEnd[s] = "eof" /\ rd[s] = sent[s] /\ wr[s] = rd[s]

TcpEof(s) ==
    /\ toNoq[s] = "run"
    /\ Copied(s)
    /\ toNoq' = [toNoq EXCEPT ![s] = "ok"]
    /\ EndStream(s, "fin")
    /\ UNCHANGED <<apps, flow, stop, conn, fromNoq, bidi, token, ctrlC, cancel>>

TcpReadError(s) ==
    /\ toNoq[s] = "run"
    /\ appEnd[s] = "reset"
    /\ DropStream(s)
    /\ ToNoqFails(s)

\* Writing, or finish()?, on a stopped stream or a dead connection.
NoqWriteError(s) ==
    /\ toNoq[s] = "run"
    /\ wr[s] < rd[s] \/ Copied(s)
    /\ stop[s] \/ conn # "up"
    /\ DropStream(s)
    /\ ToNoqFails(s)

ToNoqCancelledFinishes(s) ==
    /\ toNoq[s] = "run"
    /\ token[s]
    /\ EndStream(s, "fin")
    /\ ToNoqFails(s)

ToNoqCancelled(s) ==
    /\ toNoq[s] = "run"
    /\ token[s]
    /\ EndStream(s, "reset")
    /\ ToNoqFails(s)

-----------------------------------------------------------------------------
(* copy_from_noq: tokio::io::copy from the peer's stream to the socket,    *)
(* raced against the token.                                                *)

NoqRead(s) ==
    /\ fromNoq[s] = "run"
    /\ got[s] < wr[Other(s)]
    /\ got[s] - put[s] < CopyBuf
    /\ got' = [got EXCEPT ![s] = @ + 1]
    /\ UNCHANGED <<apps, rd, wr, put, quic, tasks, token, ctrlC, cancel>>

TcpWrite(s) ==
    /\ fromNoq[s] = "run"
    /\ put[s] < got[s]
    /\ put' = [put EXCEPT ![s] = @ + 1]
    /\ UNCHANGED <<apps, rd, wr, got, quic, tasks, token, ctrlC, cancel>>

NoqEndUnflushed(s) ==
    /\ fromNoq[s] = "run"
    /\ stream[Other(s)] = "fin"
    /\ got[s] = wr[Other(s)]
    /\ fromNoq' = [fromNoq EXCEPT ![s] = "ok"]
    /\ UNCHANGED <<apps, flow, quic, toNoq, bidi, token, ctrlC, cancel>>

NoqEndAfterToNoq(s) ==
    /\ fromNoq[s] = "run"
    /\ toNoq[s] # "run"
    /\ stream[Other(s)] = "fin"
    /\ got[s] = wr[Other(s)]
    /\ put[s] = got[s]
    /\ fromNoq' = [fromNoq EXCEPT ![s] = "ok"]
    /\ UNCHANGED <<apps, flow, quic, toNoq, bidi, token, ctrlC, cancel>>

\* The peer finished and everything it wrote is in the socket.  The write
\* half is dropped here, which shuts the socket's writing side down; the
\* token is left alone, so the opposite direction goes on.
NoqEnd(s) ==
    /\ fromNoq[s] = "run"
    /\ stream[Other(s)] = "fin"
    /\ got[s] = wr[Other(s)]
    /\ put[s] = got[s]
    /\ fromNoq' = [fromNoq EXCEPT ![s] = "ok"]
    /\ UNCHANGED <<apps, flow, quic, toNoq, bidi, token, ctrlC, cancel>>

\* The peer reset its stream, or the connection went: what was in flight
\* may or may not have been read before.
NoqReadError(s) ==
    /\ fromNoq[s] = "run"
    /\ stream[Other(s)] = "reset" \/ conn # "up"
    /\ FromNoqFails(s)
    /\ UNCHANGED stop

TcpWriteError(s) ==
    /\ fromNoq[s] = "run"
    /\ appEnd[s] = "reset"
    /\ put[s] < got[s]
    /\ FromNoqFails(s)
    /\ stop' = [stop EXCEPT ![Other(s)] = TRUE]

FromNoqCancelled(s) ==
    /\ fromNoq[s] = "run"
    /\ token[s]
    /\ FromNoqFails(s)
    /\ stop' = [stop EXCEPT ![Other(s)] = TRUE]

-----------------------------------------------------------------------------
(* forward_bidi's body and the handler around it.                          *)

JoinFromNoqOkOnly(s) ==
    /\ bidi[s] = "awaitFrom"
    /\ fromNoq[s] = "ok"
    /\ bidi' = [bidi EXCEPT ![s] = "awaitTo"]
    /\ UNCHANGED <<apps, flow, quic, toNoq, fromNoq, token, ctrlC, cancel>>

\* forward_to_stdout.await??: an error returns without awaiting the other
\* task, which is detached, not aborted.
JoinFromNoq(s) ==
    /\ bidi[s] = "awaitFrom"
    /\ fromNoq[s] # "run"
    /\ bidi' = [bidi EXCEPT ![s] = IF fromNoq[s] = "ok" THEN "awaitTo" ELSE "err"]
    /\ UNCHANGED <<apps, flow, quic, toNoq, fromNoq, token, ctrlC, cancel>>

JoinToNoq(s) ==
    /\ bidi[s] = "awaitTo"
    /\ toNoq[s] # "run"
    /\ bidi' = [bidi EXCEPT ![s] = toNoq[s]]
    /\ UNCHANGED <<apps, flow, quic, toNoq, fromNoq, token, ctrlC, cancel>>

\* The _control_c task of p2p_pipe.rs: detached, it waits for control-c
\* whether or not the token is cancelled by then, and ends with it.
CtrlC(s) ==
    /\ CanFail
    /\ s \notin Dumbpipe
    /\ ~ctrlC[s]
    /\ ctrlC' = [ctrlC EXCEPT ![s] = TRUE]
    /\ token' = [token EXCEPT ![s] = TRUE]
    /\ UNCHANGED <<apps, flow, quic, tasks, cancel>>

\* The application cancels.  In dumbpipe.rs forward_bidi's token is a child
\* of the application's, so it is cancelled with it.
AppCancel(s) ==
    /\ CanFail
    /\ ~cancel[s]
    /\ cancel' = [cancel EXCEPT ![s] = TRUE]
    /\ token' = [token EXCEPT ![s] = @ \/ s \in Dumbpipe]
    /\ UNCHANGED <<apps, flow, quic, tasks, ctrlC>>

Finished(s) == bidi[s] \in {"ok", "err", "dropped"}
Ended(s) == toNoq[s] # "run" /\ fromNoq[s] # "run"

\* The tasks of the connection that still live at s, the handler that runs
\* forward_bidi's body among them.
Tasks(s) ==
    {t \in {"copy_to_noq", "copy_from_noq", "handler", "_control_c"} :
        CASE t = "copy_to_noq"   -> toNoq[s] = "run"
          [] t = "copy_from_noq" -> fromNoq[s] = "run"
          [] t = "handler"       -> ~Finished(s)
          [] t = "_control_c"    -> s \notin Dumbpipe /\ ~ctrlC[s]}

\* p2p_client races every handler against the application's token: the
\* handler's future is dropped where it stands, its spawned tasks are not.
HandlerCancelled ==
    /\ "client" \notin Dumbpipe
    /\ cancel["client"]
    /\ ~Finished("client")
    /\ bidi' = [bidi EXCEPT !["client"] = "dropped"]
    /\ UNCHANGED <<apps, flow, quic, toNoq, fromNoq, token, ctrlC, cancel>>

EndpointCloseForgotten(s) == FALSE

\* The accept loop of p2p_pipe.rs ends with endpoint.close().
EndpointClose(s) ==
    /\ s \notin Dumbpipe
    /\ cancel[s]
    /\ conn = "up"
    /\ conn' = "closed"
    /\ UNCHANGED <<apps, flow, stream, stop, tasks, token, ctrlC, cancel>>

-----------------------------------------------------------------------------
(* The QUIC connection.                                                    *)

\* A connection closes by itself when one end has dropped every handle to
\* it: the handler's and those of the two stream halves.
ConnDropped(s) ==
    /\ Finished(s) /\ Ended(s)
    /\ conn = "up"
    /\ conn' = "closed"
    /\ UNCHANGED <<apps, flow, stream, stop, tasks, token, ctrlC, cancel>>

\* The network or the peer's process is gone (idle timeout).
ConnLost ==
    /\ CanFail
    /\ conn = "up"
    /\ conn' = "lost"
    /\ UNCHANGED <<apps, flow, stream, stop, tasks, token, ctrlC, cancel>>

-----------------------------------------------------------------------------

App(s) == AppSend(s) \/ AppClose(s) \/ AppReset(s)

CopyToNoq(s) ==
    TcpRead(s) \/ NoqWrite(s) \/ TcpEof(s) \/ TcpReadError(s) \/ NoqWriteError(s)

CopyFromNoq(s) ==
    NoqRead(s) \/ TcpWrite(s) \/ NoqEnd(s) \/ NoqReadError(s) \/ TcpWriteError(s)

Join(s) == JoinFromNoq(s) \/ JoinToNoq(s)

Next ==
    \/ \E s \in Side :
        \/ App(s) \/ CopyToNoq(s) \/ ToNoqCancelled(s)
        \/ CopyFromNoq(s) \/ FromNoqCancelled(s) \/ Join(s)
        \/ CtrlC(s) \/ AppCancel(s) \/ EndpointClose(s) \/ ConnDropped(s)
    \/ HandlerCancelled
    \/ ConnLost

Spec == Init /\ [][Next]_vars

\* What tokio's scheduler and the QUIC stack owe: a task that can move is
\* polled, a cancelled token wakes its waiters, a closed handle is noticed.
\* TcpWrite in CopyFromNoq also assumes a Minecraft end that drains its
\* socket.  Nothing is owed by the writers, the user or the network.
Fairness ==
    /\ \A s \in Side :
        /\ WF_vars(CopyToNoq(s)) /\ WF_vars(ToNoqCancelled(s))
        /\ WF_vars(CopyFromNoq(s)) /\ WF_vars(FromNoqCancelled(s))
        /\ WF_vars(Join(s)) /\ WF_vars(EndpointClose(s)) /\ WF_vars(ConnDropped(s))
    /\ WF_vars(HandlerCancelled)

FairSpec == Spec /\ Fairness

-----------------------------------------------------------------------------
(* Properties.                                                             *)

\* The type of every variable; no station passes more chunks than MaxSend.
TypeOK ==
    /\ sent \in [Side -> 0..MaxSend]
    /\ appEnd \in [Side -> {"open", "eof", "reset"}]
    /\ rd \in [Side -> 0..MaxSend]
    /\ wr \in [Side -> 0..MaxSend]
    /\ stream \in [Side -> {"open", "fin", "reset"}]
    /\ stop \in [Side -> BOOLEAN]
    /\ got \in [Side -> 0..MaxSend]
    /\ put \in [Side -> 0..MaxSend]
    /\ toNoq \in [Side -> {"run", "ok", "err"}]
    /\ fromNoq \in [Side -> {"run", "ok", "err"}]
    /\ token \in [Side -> BOOLEAN]
    /\ ctrlC \in [Side -> BOOLEAN]
    /\ bidi \in [Side -> {"awaitFrom", "awaitTo", "ok", "err", "dropped"}]
    /\ cancel \in [Side -> BOOLEAN]
    /\ conn \in {"up", "closed", "lost"}

\* If copy_from_noq on one side ends well, then the Minecraft end there has
\* been handed every chunk the opposite Minecraft end wrote, whatever was
\* cancelled, stopped, reset or lost meanwhile on either side; the one
\* exception is an end whose own TCP connection was reset.  copy_to_noq's
\* finish, its reset on cancellation and copy_from_noq's Ok together.
CleanEndIsComplete ==
    \A s \in Side :
        fromNoq[s] = "ok" =>
            put[s] = sent[Other(s)] \/ appEnd[Other(s)] = "reset"

\* The tunnel is the two independent streams of module Duplex: a prefix in
\* order, ended cleanly only when complete.
DuplexOutcome ==
    [s \in Side |-> IF fromNoq[s] = "run" THEN "open"
                    ELSE IF fromNoq[s] = "ok" THEN "complete" ELSE "aborted"]
D == INSTANCE Duplex WITH delivered <- put, outcome <- DuplexOutcome
ImplementsDuplex == D!Spec

\* A task that fails ends its sibling too, even a sibling that waits for a
\* silent Minecraft end or a silent peer (cancel_token in forward_bidi).
FailureStopsBoth ==
    \A s \in Side : (toNoq[s] = "err" \/ fromNoq[s] = "err") ~> Ended(s)

\* When a Minecraft end shuts its writing side down, the other proxy stops
\* forwarding to the opposite end: it sees the end of the stream or an
\* abort, even though the opposite direction stays open (finish()).
EofReachesPeer ==
    \A s \in Side : appEnd[s] = "eof" ~> fromNoq[Other(s)] # "run"

\* Once both Minecraft ends are done writing, the tunnel gives back its
\* connection and its tasks on both sides, save one that is exempt: the
\* _control_c task of p2p_pipe.rs:161-165 is detached and ends by nothing but
\* a control-c, so each connection leaves one behind for as long as the
\* program runs.
TunnelReclaimed ==
    (\A s \in Side : appEnd[s] # "open") ~>
        (conn # "up" /\ \A s \in Side : Tasks(s) \subseteq {"_control_c"})

\* After the application cancels, both tasks end: at once under dumbpipe.rs,
\* where the token is a child; under p2p_pipe.rs through endpoint.close(),
\* which only a running copy_from_noq notices.
CancelStopsForwarding ==
    \A s \in Side :
        cancel[s] ~> Ended(s) \/ (s \notin Dumbpipe /\ fromNoq[s] = "ok")

\* src/p2p_pipe.rs:358 says the handler is wrapped "so the specific
\* connection also dies on cancellation".
ConnectionDiesOnCancel == cancel["client"] ~> Ended("client")

\* src/p2p_pipe.rs:36 says the protocol "is basically just passing data
\* through 1:1": when nobody resets, cancels or loses anything, no
\* direction is aborted.
LosslessWhenGraceful ==
    (/\ conn # "lost"
     /\ \A s \in Side : appEnd[s] # "reset" /\ ~cancel[s] /\ ~ctrlC[s])
    => \A s \in Side : fromNoq[s] # "err"
=============================================================================
