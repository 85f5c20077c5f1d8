-------------------------------- MODULE Link --------------------------------
(***************************************************************************)
(* One WebRTC connection of the data channel proxy: a dialer in            *)
(* PeerConnection::connect, a listener in handle_offer, which accepts the  *)
(* offer (PeerConnection::accept), detaches the data channel, connects to  *)
(* the Minecraft server and copies between the two (proxy_traffic).        *)
(*                                                                         *)
(* Offer and reply go through module Session, which may lose them when a   *)
(* websocket closes or a server is cancelled; here a call just fails or    *)
(* never returns.  What the webrtc crate does is external: the two         *)
(* RTCPeerConnections come up together once both descriptions are set,     *)
(* the dialer's channel opens, and the listener is told of it.             *)
(* The application may cancel jude_server at any time.                     *)
(***************************************************************************)

VARIABLES
    dialer,     \* how far connect() is
    listener,   \* how far handle_offer is
    offered,    \* the offer is on its way, or arrived
    replied,    \* the reply is
    pc,         \* pc[s]: the RTCPeerConnection of side s
    opened,     \* history: the data channel "primary" was opened on side s, and
                \* may be closed since; what detach() and on_open ask for
    waiter,     \* the listener's ResponseManager has a oneshot for "primary"
    announced,  \* what became of on_data_channel's channel
    task,       \* task[t]: the two tasks of proxy_traffic
    token,      \* their CancellationToken
    minecraft   \* the Minecraft server's end of the TCP connection

signaling == <<offered, replied>>
channel   == <<opened, waiter, announced>>
proxy     == <<task, token, minecraft>>
vars == <<dialer, listener, signaling, pc, channel, proxy>>

Side == {"dialer", "listener"}
Other(s) == IF s = "dialer" THEN "listener" ELSE "dialer"
Task == {"read", "write"}

Init ==
    /\ dialer = "register"
    /\ listener = "idle"
    /\ offered = FALSE /\ replied = FALSE
    /\ pc = [s \in Side |-> "none"]
    /\ opened = [s \in Side |-> FALSE]
    /\ waiter = FALSE /\ announced = "no"
    /\ task = [t \in Task |-> "none"] /\ token = FALSE
    /\ minecraft = "open"

-----------------------------------------------------------------------------
(* connect().                                                              *)

Register ==
    /\ dialer = "register"
    /\ dialer' = "prepare"
    /\ UNCHANGED <<listener, signaling, pc, channel, proxy>>

\* The connection, its state listener, its channel, and an offer with all
\* candidates gathered.
SendOffer ==
    /\ dialer = "prepare"
    /\ dialer' = "offer"
    /\ pc' = [pc EXCEPT !["dialer"] = "new"]
    /\ offered' = TRUE
    /\ UNCHANGED <<listener, replied, channel, proxy>>

\* set_remote_description
TakeReply ==
    /\ dialer = "offer"
    /\ replied
    /\ dialer' = "described"
    /\ UNCHANGED <<listener, signaling, pc, channel, proxy>>

\* A step of connect() returns an error; the PeerConnection, if there is one,
\* is dropped.
ConnectFails ==
    /\ dialer \in {"register", "prepare", "offer"}
    /\ dialer' = "over"
    /\ UNCHANGED <<listener, signaling, pc, channel, proxy>>

\* Mutant: on_open is not called for a channel that is open already.
HookUnlessOpen ==
    /\ dialer = "described"
    /\ ~opened["dialer"]
    /\ dialer' = "opening"
    /\ UNCHANGED <<listener, signaling, pc, channel, proxy>>

\* wait_for_data_channel_to_open; on_open calls back at once if it is open.
Hook ==
    /\ dialer = "described"
    /\ dialer' = "opening"
    /\ UNCHANGED <<listener, signaling, pc, channel, proxy>>

Ready ==
    /\ dialer = "opening"
    /\ opened["dialer"]
    /\ dialer' = "ready"
    /\ UNCHANGED <<listener, signaling, pc, channel, proxy>>

\* The caller of connect() is done with the connection.
LetGo ==
    /\ dialer = "ready"
    /\ dialer' = "over"
    /\ UNCHANGED <<listener, signaling, pc, channel, proxy>>

-----------------------------------------------------------------------------
(* accept().  accept_channel is called before the reply, but it is an      *)
(* async fn: nothing of it runs before it is awaited.                      *)

\* jude_server spawns handle_offer.
TakeOffer ==
    /\ listener = "idle"
    /\ offered
    /\ listener' = "prepare"
    /\ pc' = [pc EXCEPT !["listener"] = "new"]
    /\ UNCHANGED <<dialer, signaling, channel, proxy>>

\* Both descriptions are set and all candidates gathered.
SendReply ==
    /\ listener = "prepare"
    /\ replied' = TRUE
    /\ listener' = "replied"
    /\ UNCHANGED <<dialer, offered, pc, channel, proxy>>

AcceptFails ==
    /\ listener = "prepare"
    /\ listener' = "over"
    /\ UNCHANGED <<dialer, signaling, pc, channel, proxy>>

\* Mutant: the channel is not waited for.
WaitNot ==
    /\ listener = "replied"
    /\ listener' = "tcp"
    /\ UNCHANGED <<dialer, signaling, pc, channel, proxy>>

\* primary_channel_future.await: only now wait_for_response registers.
Wait ==
    /\ listener = "replied"
    /\ waiter' = TRUE
    /\ listener' = "wait"
    /\ UNCHANGED <<dialer, signaling, pc, opened, announced, proxy>>

\* The oneshot is completed.
Accepted ==
    /\ listener = "wait"
    /\ announced = "delivered"
    /\ listener' = "detach"
    /\ UNCHANGED <<dialer, signaling, pc, channel, proxy>>

\* detach() needs a channel that was opened, whatever its connection does
\* since, and the callback that delivers the channel comes before it is: the
\* listener may be too quick.
Detach ==
    /\ listener = "detach"
    /\ listener' = IF opened["listener"] THEN "tcp" ELSE "over"
    /\ UNCHANGED <<dialer, signaling, pc, channel, proxy>>

-----------------------------------------------------------------------------
(* MinecraftConnector::connect and proxy_traffic.                          *)

\* Mutant: the write task is not spawned.
TcpConnectReads ==
    /\ listener = "tcp"
    /\ listener' = "proxy"
    /\ task' = [task EXCEPT !["read"] = "run"]
    /\ UNCHANGED <<dialer, signaling, pc, channel, token, minecraft>>

TcpConnect ==
    /\ listener = "tcp"
    /\ listener' = "proxy"
    /\ task' = [t \in Task |-> "run"]
    /\ UNCHANGED <<dialer, signaling, pc, channel, token, minecraft>>

TcpConnectFails ==
    /\ listener = "tcp"
    /\ listener' = "over"
    /\ UNCHANGED <<dialer, signaling, pc, channel, proxy>>

Running(t) == task[t] \in {"run", "body"}

Goes(t, from, to) ==
    /\ task[t] = from
    /\ task' = [task EXCEPT ![t] = to]
    /\ UNCHANGED <<dialer, listener, signaling, pc, channel, token, minecraft>>

\* The read task.  In the body of select!'s arm, write_all, it does not see
\* the token.  The end of the channel is no end for it: it reads zero bytes,
\* writes them, which succeeds at once, and reads again.
ReadData == pc["listener"] = "up" /\ Goes("read", "run", "body")
Written == minecraft # "reset" /\ Goes("read", "body", "run")
ReadFails == pc["listener"] # "up" /\ Goes("read", "run", "err")
TcpWriteFails == minecraft # "open" /\ Goes("read", "body", "err")
ReadCancelled == token /\ Goes("read", "run", "ok")

\* Mutant: zero bytes from the socket are not taken for its end.
TcpEofUnseen == FALSE

\* The write task.  The write of its body queues the bytes, and waits when the
\* crate's bounded queue is full, until the peer takes some: there it sees
\* neither the token nor the socket, and a connection that closes need not
\* wake it.
TcpEof == minecraft = "eof" /\ Goes("write", "run", "ok")
TcpReadFails == minecraft = "reset" /\ Goes("write", "run", "err")
WriteWaits ==
    pc["listener"] = "up" /\ minecraft # "reset" /\ Goes("write", "run", "body")
Drained == Goes("write", "body", "run")
WriteFails ==
    /\ pc["listener"] # "up"
    /\ \/ minecraft # "reset" /\ Goes("write", "run", "err")
       \/ Goes("write", "body", "err")
WriteCancelled == token /\ Goes("write", "run", "ok")

\* Mutant: the tasks are not cancelled.
SelectLeaves ==
    /\ listener = "proxy"
    /\ \E t \in Task : ~Running(t)
    /\ listener' = "join"
    /\ UNCHANGED <<dialer, signaling, pc, channel, proxy>>

\* select! takes the result out of the handle that is done.
Select ==
    /\ listener = "proxy"
    /\ \E t \in Task : ~Running(t)
    /\ token' = TRUE
    /\ listener' = "join"
    /\ UNCHANGED <<dialer, signaling, pc, channel, task, minecraft>>

\* join! polls both handles, also the one that was polled to its end, and
\* tokio panics: the task of handle_offer unwinds, and the other handle is
\* dropped, which detaches its task.
JoinPanics ==
    /\ listener = "join"
    /\ listener' = "over"
    /\ UNCHANGED <<dialer, signaling, pc, channel, proxy>>

\* jude_server_cancellable drops its runtime, and with it handle_offer, both
\* tasks, and the tasks of the connection: what Drop spawns then never runs,
\* but nobody answers the peer any more.
Cancel ==
    /\ listener # "over" \/ \E t \in Task : Running(t)
    /\ listener' = "over"
    /\ task' = [t \in Task |-> IF Running(t) THEN "dropped" ELSE task[t]]
    /\ pc' = [pc EXCEPT !["listener"] = IF @ = "none" THEN "none" ELSE "closed"]
    /\ UNCHANGED <<dialer, signaling, channel, token, minecraft>>

MinecraftEnds ==
    /\ \E t \in Task : Running(t)
    /\ minecraft = "open"
    /\ minecraft' \in {"eof", "reset"}
    /\ UNCHANGED <<dialer, listener, signaling, pc, channel, task, token>>

-----------------------------------------------------------------------------
(* The two RTCPeerConnections.                                             *)

Over(s) == IF s = "dialer" THEN dialer = "over" ELSE listener = "over"

\* Mutant: a PeerConnection that is dropped is left open.
DropOpen(s) == FALSE

\* Drop for PeerConnection spawns close().
Drop(s) ==
    /\ Over(s)
    /\ pc[s] \notin {"none", "closed"}
    /\ pc' = [pc EXCEPT ![s] = "closed"]
    /\ UNCHANGED <<dialer, listener, signaling, channel, proxy>>

\* ICE, DTLS and SCTP are through.
LinkUp ==
    /\ dialer \in {"described", "opening"}
    /\ listener \notin {"idle", "prepare"}
    /\ \A s \in Side : pc[s] = "new"
    /\ pc' = [s \in Side |-> "up"]
    /\ UNCHANGED <<dialer, listener, signaling, channel, proxy>>

ChannelOpens ==
    /\ pc["dialer"] = "up"
    /\ ~opened["dialer"]
    /\ opened' = [opened EXCEPT !["dialer"] = TRUE]
    /\ UNCHANGED <<dialer, listener, signaling, pc, waiter, announced, proxy>>

\* Mutant: the callback is not set.
OnDataChannelUnset == FALSE

\* The callback of PeerConnection::new: handle_response drops a channel
\* nobody has registered for.
OnDataChannel ==
    /\ pc["listener"] = "up"
    /\ opened["dialer"]
    /\ announced = "no"
    /\ announced' = IF waiter THEN "delivered" ELSE "missed"
    /\ waiter' = FALSE
    /\ UNCHANGED <<dialer, listener, signaling, pc, opened, proxy>>

\* The channel opens for the listener once its callback has returned.
OpensForListener ==
    /\ pc["listener"] = "up"
    /\ announced # "no"
    /\ ~opened["listener"]
    /\ opened' = [opened EXCEPT !["listener"] = TRUE]
    /\ UNCHANGED <<dialer, listener, signaling, pc, waiter, announced, proxy>>

\* No route, no keepalive, or a peer that closed.  The state listener sends
\* to done_rx, which nobody reads: neither connect() nor accept() notices.
PcFails(s) ==
    /\ pc[s] \in {"new", "up"}
    /\ pc' = [pc EXCEPT ![s] = "failed"]
    /\ UNCHANGED <<dialer, listener, signaling, channel, proxy>>

\* A peer that closed or failed answers no more: ICE times out.
PeerGone(s) == pc[Other(s)] \in {"closed", "failed"} /\ PcFails(s)

-----------------------------------------------------------------------------

Connect == Register \/ SendOffer \/ TakeReply \/ ConnectFails \/ Hook \/ Ready

Accept ==
    TakeOffer \/ SendReply \/ AcceptFails \/ Wait \/ Accepted \/ Detach
        \/ TcpConnect \/ TcpConnectFails \/ Select \/ JoinPanics

ReadTask == ReadData \/ Written \/ ReadFails \/ TcpWriteFails \/ ReadCancelled
WriteTask ==
    TcpEof \/ TcpReadFails \/ WriteWaits \/ Drained \/ WriteFails \/ WriteCancelled

Webrtc == LinkUp \/ ChannelOpens \/ OnDataChannel \/ OpensForListener

Next ==
    \/ Connect \/ LetGo
    \/ Accept \/ Cancel \/ ReadTask \/ WriteTask \/ MinecraftEnds
    \/ Webrtc
    \/ \E s \in Side : Drop(s) \/ PcFails(s)

Spec == Init /\ [][Next]_vars

\* tokio polls what is ready; the webrtc crate makes progress on a connection
\* that does not fail, and notices a peer that is gone.  Nobody has to answer
\* an offer, end a connection, send on it, or read from it: what the read task
\* writes is through for sure only once Minecraft has ended, and what the
\* write task writes never is.  SF: select! polls its branches in a random
\* order, and what Minecraft wrote before it ended is finite.
Fairness ==
    /\ WF_vars(Register \/ SendOffer) /\ WF_vars(TakeReply)
    /\ WF_vars(Hook) /\ WF_vars(Ready)
    /\ WF_vars(Accept)
    /\ SF_vars(TcpEof \/ TcpReadFails) /\ SF_vars(WriteCancelled) /\ SF_vars(ReadCancelled)
    /\ WF_vars(minecraft # "open" /\ (Written \/ TcpWriteFails))
    /\ WF_vars(LinkUp) /\ WF_vars(ChannelOpens)
    /\ WF_vars(OnDataChannel) /\ WF_vars(OpensForListener)
    /\ \A s \in Side : WF_vars(Drop(s)) /\ WF_vars(PeerGone(s))

FairSpec == Spec /\ Fairness

-----------------------------------------------------------------------------
(* Properties.                                                             *)

\* The type of every variable, and what exists in each phase.
TypeOK ==
    /\ dialer \in {"register", "prepare", "offer", "described", "opening",
                   "ready", "over"}
    /\ listener \in {"idle", "prepare", "replied", "wait", "detach", "tcp",
                     "proxy", "join", "over"}
    /\ offered \in BOOLEAN /\ replied \in BOOLEAN
    /\ pc \in [Side -> {"none", "new", "up", "failed", "closed"}]
    /\ opened \in [Side -> BOOLEAN]
    /\ waiter \in BOOLEAN
    /\ announced \in {"no", "delivered", "missed"}
    /\ task \in [Task -> {"none", "run", "body", "ok", "err", "dropped"}]
    /\ token \in BOOLEAN
    /\ minecraft \in {"open", "eof", "reset"}
    /\ listener \notin {"idle", "over"} => offered
    /\ listener \in {"proxy", "join"} => \A t \in Task : task[t] # "none"

\* The Minecraft server is connected to only for a channel that was opened at
\* both ends and delivered to this listener, in answer to an offer that was
\* replied to, whatever the order of the callbacks and of the awaits.  The
\* channel need not be open any more: a dialer that is gone by then is not
\* noticed before proxy_traffic (src/core/p2p/peer_connection.rs:118-155,
\* src/core/proxies/server.rs:43-47).
ConnectsForOpenedChannel ==
    listener \in {"tcp", "proxy", "join"} =>
        replied /\ announced = "delivered" /\ \A s \in Side : opened[s]

\* A task that handle_offer leaves behind, when join! panics or an await
\* before it returned, knows that it has to end, and is alone: the other was
\* the one that ended first (src/util/proxy_traffic.rs:57-66).
LeftBehindIsCancelled ==
    listener = "over" =>
        \A t \in Task : Running(t) =>
            token /\ \A u \in Task \ {t} : task[u] \in {"ok", "err"}

\* accept() waits for its channel for ever in two cases only: the callback
\* came before the wait (line 118), or the connection failed, which nobody
\* listens to (line 107).
ListenerResumes ==
    listener = "wait" ~>
        \/ listener # "wait"
        \/ announced = "missed"
        \/ pc["listener"] = "failed"

\* connect() does not wait for a channel that is open already, although the
\* channel may open before anyone asks (lines 92 and 200): it waits for ever
\* only when the connection failed.
DialerResumes ==
    dialer \in {"described", "opening"} ~>
        dialer \in {"ready", "over"} \/ pc["dialer"] = "failed"

Released == (\A t \in Task : ~Running(t)) /\ pc["listener"] = "closed"

\* A task waits in the body of its select!, which looks at nothing else: the
\* read task for a Minecraft server that does not read (line 27), the write
\* task for a peer that does not (line 48).
Held(t) == task[t] = "body" /\ (t = "read" => minecraft = "open")

\* When one task of proxy_traffic ends, the connection is closed, and the
\* other task ends too, although join! panics before it has awaited it.  A
\* task that is held is exempt, for as long as it is.
ProxyReleased ==
    LET OneEnded == \E t \in Task : task[t] \in {"ok", "err"}
    IN  /\ OneEnded ~> pc["listener"] = "closed"
        /\ OneEnded ~> (\A t \in Task : ~Running(t)) \/ \E t \in Task : []Held(t)

\* When the Minecraft server ends its connection everything is given back,
\* also while the read task spins on a channel at its end (line 25), and
\* also when it was held.  A write task that is held does not see the end,
\* and then nothing is given back before the peer reads.
TcpEndReleases == minecraft # "open" ~> Released \/ []Held("write")

\* A side that fails or is done, wherever it was, closes its connection, and
\* the peer's connection does not stay up.
GoneIsNoticed ==
    \A s \in Side :
        Over(s) ~> pc[s] \in {"none", "closed"} /\ pc[Other(s)] # "up"

\* src/util/proxy_traffic.rs:65 says "Now properly await both using their
\* original bindings": when handle_offer is past proxy_traffic, both of its
\* tasks have ended.
ProxyAwaitsBoth ==
    listener = "over" => \A t \in Task : ~Running(t)
=============================================================================
