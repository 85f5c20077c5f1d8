------------------------------ MODULE Session ------------------------------
(***************************************************************************)
(* One Session (src/core/p2p/session.rs): the websocket to the signaling   *)
(* server, shared by every user of the session in this process.            *)
(*                                                                         *)
(*   - offer() registers a oneshot under the offer's number in the         *)
(*     ResponseManager, sends the offer and awaits the oneshot;            *)
(*   - the listener task reads packets and hands replies to the            *)
(*     ResponseManager and offers to the bounded channel registered for    *)
(*     the peer they are addressed to;                                     *)
(*   - jude_server registers a peer, installs a channel for it, and spawns *)
(*     handle_offer for every offer it receives.  jude_server_cancellable  *)
(*     runs it on a runtime of its own, which is dropped with it.          *)
(*                                                                         *)
(* The signaling server and the remote peers are the environment.  They    *)
(* send what a correct signaling server would: offers to a registered      *)
(* peer, and at most one reply for an offer that was sent.                 *)
(***************************************************************************)
EXTENDS Naturals, Sequences, FiniteSets

CONSTANTS
    Dials,      \* calls of offer() made on this session
    Number,     \* the offer numbers (random::<u32>())
    Offers,     \* offers remote peers make to peers registered here
    Listeners,  \* runs of jude_server on this session
    Ids,        \* peer ids registered here
    IdOf,       \* IdOf[l]: the peer id jude_server run l serves
    To,         \* To[o]: the peer id offer o is addressed to
    Capacity,   \* mpsc::channel(100)
    MaxInbox,   \* bound: packets received and not yet read
    None

ASSUME SessionAssumption ==
    /\ IdOf \in [Listeners -> Ids]
    /\ To \in [Offers -> Ids]
    /\ Capacity \in Nat \ {0}
    /\ MaxInbox \in Nat
    /\ None \notin Dials \cup Number \cup Offers \cup Listeners

VARIABLES
    ws,          \* the websocket: "up" or "down"
    registered,  \* ids the signaling server routes to this session
    inbox,       \* packets received and not yet read by the listener task
    task,        \* the listener task
    held,        \* the offer it is sending to a channel, or None
    target,      \* the channel it is sending to (a Sender in the map), or None
    dial,        \* dial[d]: how far offer() d is
    number,      \* number[d]: its offer number, or None
    answer,      \* answer[d]: the offer that the reply in its oneshot answers
    asked,       \* calls whose offer the remote peer has and may yet answer
    pending,     \* pending[n]: whose oneshot is registered under n, or None
    drew,        \* history: drew[n] is the call that drew n last, or None
    senders,     \* connection_senders: senders[i] is a jude_server run or None
    srv,         \* srv[l]: how far jude_server l is
    queue,       \* queue[l]: its channel
    running,     \* running[l]: offers its handle_offer tasks work on
    offer        \* offer[o]: what became of remote offer o

net     == <<ws, registered, inbox>>
reader  == <<task, held, target>>
dialing == <<dial, number, answer, asked, pending, drew>>
serving == <<senders, srv, queue, running>>
vars    == <<net, reader, dialing, serving, offer>>

OfferPacket == [type : {"offer"}, offer : Offers]
ReplyPacket == [type : {"reply"}, number : Number, to : Dials]
Garbage     == [type |-> "garbage"]
Packet      == OfferPacket \cup ReplyPacket \cup {Garbage}

Init ==
    /\ ws = "up" /\ registered = {} /\ inbox = <<>>
    /\ task = "reading" /\ held = None /\ target = None
    /\ dial = [d \in Dials |-> "idle"]
    /\ number = [d \in Dials |-> None]
    /\ answer = [d \in Dials |-> None]
    /\ asked = {}
    /\ pending = [n \in Number |-> None]
    /\ drew = [n \in Number |-> None]
    /\ senders = [i \in Ids |-> None]
    /\ srv = [l \in Listeners |-> "off"]
    /\ queue = [l \in Listeners |-> <<>>]
    /\ running = [l \in Listeners |-> {}]
    /\ offer = [o \in Offers |-> "new"]

-----------------------------------------------------------------------------
(* The environment: the signaling server, the remote peers, the network.   *)

CanReceive == ws = "up" /\ Len(inbox) < MaxInbox

RemoteOffer(o) ==
    /\ CanReceive
    /\ offer[o] = "new"
    /\ To[o] \in registered
    /\ inbox' = Append(inbox, [type |-> "offer", offer |-> o])
    /\ offer' = [offer EXCEPT ![o] = "arrived"]
    /\ UNCHANGED <<ws, registered, reader, dialing, serving>>

\* The remote peer answers an offer once, also when the call that made it
\* has failed meanwhile.
RemoteReply(d) ==
    /\ CanReceive
    /\ d \in asked
    /\ asked' = asked \ {d}
    /\ inbox' = Append(inbox, [type |-> "reply", number |-> number[d], to |-> d])
    /\ UNCHANGED <<ws, registered, reader, dial, number, answer, pending, drew, serving, offer>>

\* A text that is not an OfferReply in JSON.
RemoteGarbage ==
    /\ CanReceive
    /\ inbox' = Append(inbox, Garbage)
    /\ UNCHANGED <<ws, registered, reader, dialing, serving, offer>>

\* A close frame, or the network is gone.
WsDown ==
    /\ ws = "up"
    /\ ws' = "down"
    /\ UNCHANGED <<registered, inbox, reader, dialing, serving, offer>>

-----------------------------------------------------------------------------
(* offer(): wait_for_response, send_json, response_receiver.await.         *)

WaitForResponseKeepsFirst(d) ==
    /\ dial[d] = "idle"
    /\ \E n \in Number :
        /\ number' = [number EXCEPT ![d] = n]
        /\ pending' = IF pending[n] = None THEN [pending EXCEPT ![n] = d] ELSE pending
        /\ drew' = [drew EXCEPT ![n] = d]
    /\ dial' = [dial EXCEPT ![d] = "waiting"]
    /\ UNCHANGED <<net, reader, answer, asked, serving, offer>>

\* insert() replaces, and so drops, a oneshot already under that number.
WaitForResponse(d) ==
    /\ dial[d] = "idle"
    /\ \E n \in Number :
        /\ number' = [number EXCEPT ![d] = n]
        /\ pending' = [pending EXCEPT ![n] = d]
        /\ drew' = [drew EXCEPT ![n] = d]
    /\ dial' = [dial EXCEPT ![d] = "waiting"]
    /\ UNCHANGED <<net, reader, answer, asked, serving, offer>>

SendOffer(d) ==
    /\ dial[d] = "waiting"
    /\ ws = "up"
    /\ dial' = [dial EXCEPT ![d] = "sent"]
    /\ asked' = asked \cup {d}
    /\ UNCHANGED <<net, reader, number, answer, pending, drew, serving, offer>>

\* send_json(value).await?: the entry of the ResponseManager stays behind.
SendOfferFails(d) ==
    /\ dial[d] = "waiting"
    /\ ws = "down"
    /\ dial' = [dial EXCEPT ![d] = "failed"]
    /\ UNCHANGED <<net, reader, number, answer, asked, pending, drew, serving, offer>>

OfferAnswered(d) ==
    /\ dial[d] = "sent"
    /\ answer[d] # None
    /\ dial' = [dial EXCEPT ![d] = "ok"]
    /\ UNCHANGED <<net, reader, number, answer, asked, pending, drew, serving, offer>>

\* The oneshot's sender was dropped without a send.
OfferAbandoned(d) ==
    /\ dial[d] = "sent"
    /\ answer[d] = None
    /\ pending[number[d]] # d
    /\ dial' = [dial EXCEPT ![d] = "failed"]
    /\ UNCHANGED <<net, reader, number, answer, asked, pending, drew, serving, offer>>

-----------------------------------------------------------------------------
(* The listener task.                                                      *)

Receive(type) == task = "reading" /\ inbox # <<>> /\ Head(inbox).type = type

HandleReplyToAny ==
    /\ Receive("reply")
    /\ \E n \in Number :
        /\ pending' = [pending EXCEPT ![n] = None]
        /\ answer' = IF pending[n] # None /\ dial[pending[n]] # "failed"
                     THEN [answer EXCEPT ![pending[n]] = Head(inbox).to] ELSE answer
    /\ inbox' = Tail(inbox)
    /\ UNCHANGED <<ws, registered, reader, dial, number, asked, drew, serving, offer>>

HandleReplyUnsent ==
    /\ Receive("reply")
    /\ pending' = [pending EXCEPT ![Head(inbox).number] = None]
    /\ inbox' = Tail(inbox)
    /\ UNCHANGED <<ws, registered, reader, dial, number, answer, asked, drew, serving, offer>>

HandleReplyKeeps ==
    /\ Receive("reply")
    /\ LET d == pending[Head(inbox).number] IN
        answer' = IF d # None /\ dial[d] # "failed"
                  THEN [answer EXCEPT ![d] = Head(inbox).to] ELSE answer
    /\ inbox' = Tail(inbox)
    /\ UNCHANGED <<ws, registered, reader, dial, number, asked, pending, drew, serving, offer>>

\* handle_response(): the entry is removed and its oneshot completed.  A
\* oneshot whose receiver is gone takes the reply with it.
HandleReply ==
    /\ Receive("reply")
    /\ LET n == Head(inbox).number
           d == pending[n]
       IN /\ pending' = [pending EXCEPT ![n] = None]
          /\ answer' = IF d # None /\ dial[d] # "failed"
                       THEN [answer EXCEPT ![d] = Head(inbox).to] ELSE answer
    /\ inbox' = Tail(inbox)
    /\ UNCHANGED <<ws, registered, reader, dial, number, asked, drew, serving, offer>>

\* handle_packet takes the read lock, which it holds while it sends.
HandleOffer ==
    /\ Receive("offer")
    /\ LET o == Head(inbox).offer
           l == senders[To[o]]
       IN IF l = None
          THEN /\ offer' = [offer EXCEPT ![o] = "unclaimed"]
               /\ UNCHANGED reader
          ELSE /\ task' = "sending" /\ held' = o /\ target' = l
               /\ offer' = [offer EXCEPT ![o] = "held"]
    /\ inbox' = Tail(inbox)
    /\ UNCHANGED <<ws, registered, dialing, serving>>

GoneUnnoticed(l) == srv[l] = "ended"

\* The receiver of a channel is gone with the PeerListener that held it.
Gone(l) == srv[l] \in {"cancelled", "ended"}

SendToListenerUnbounded ==
    /\ task = "sending"
    /\ ~Gone(target)
    /\ queue' = [queue EXCEPT ![target] = Append(@, held)]
    /\ offer' = [offer EXCEPT ![held] = "queued"]
    /\ task' = "reading" /\ held' = None /\ target' = None
    /\ UNCHANGED <<net, dialing, senders, srv, running>>

SendToListener ==
    /\ task = "sending"
    /\ ~Gone(target)
    /\ Len(queue[target]) < Capacity
    /\ queue' = [queue EXCEPT ![target] = Append(@, held)]
    /\ offer' = [offer EXCEPT ![held] = "queued"]
    /\ task' = "reading" /\ held' = None /\ target' = None
    /\ UNCHANGED <<net, dialing, senders, srv, running>>

\* connection_sender.send(packet).await? fails, handle_packet(..).unwrap()
\* panics, and the task is gone.  Nobody awaits it.
SendRefused ==
    /\ task = "sending"
    /\ Gone(target)
    /\ offer' = [offer EXCEPT ![held] = "lost"]
    /\ task' = "refused" /\ held' = None /\ target' = None
    /\ UNCHANGED <<net, dialing, serving>>

\* from_str(..).unwrap() panics.
ParseFails ==
    /\ Receive("garbage")
    /\ task' = "garbled"
    /\ inbox' = Tail(inbox)
    /\ UNCHANGED <<ws, registered, held, target, dialing, serving, offer>>

\* The close frame, or the end of the stream.
Disconnected ==
    /\ task = "reading"
    /\ ws = "down" /\ inbox = <<>>
    /\ task' = "ended"
    /\ UNCHANGED <<net, held, target, dialing, serving, offer>>

-----------------------------------------------------------------------------
(* jude_server.                                                            *)

Register(l) ==
    /\ srv[l] = "off"
    /\ ws = "up"
    /\ registered' = registered \cup {IdOf[l]}
    /\ srv' = [srv EXCEPT ![l] = "registered"]
    /\ UNCHANGED <<ws, inbox, reader, dialing, senders, queue, running, offer>>

RegisterFails(l) ==
    /\ srv[l] = "off"
    /\ ws = "down"
    /\ srv' = [srv EXCEPT ![l] = "ended"]
    /\ UNCHANGED <<net, reader, dialing, senders, queue, running, offer>>

InstallUnlocked(l) ==
    /\ srv[l] = "registered"
    /\ senders' = [senders EXCEPT ![IdOf[l]] = l]
    /\ srv' = [srv EXCEPT ![l] = "serving"]
    /\ UNCHANGED <<net, reader, dialing, queue, running, offer>>

\* insert() under the write lock, which the listener task's read lock keeps
\* out.  A channel it replaces has lost its only sender.
Install(l) ==
    /\ srv[l] = "registered"
    /\ task # "sending"
    /\ senders' = [senders EXCEPT ![IdOf[l]] = l]
    /\ srv' = [srv EXCEPT ![l] = "serving"]
    /\ UNCHANGED <<net, reader, dialing, queue, running, offer>>

ReceiveOfferInline(l) ==
    /\ srv[l] = "serving"
    /\ queue[l] # <<>>
    /\ running[l] = {}
    /\ queue' = [queue EXCEPT ![l] = Tail(@)]
    /\ running' = [running EXCEPT ![l] = {Head(queue[l])}]
    /\ offer' = [offer EXCEPT ![Head(queue[l])] = "accepting"]
    /\ UNCHANGED <<net, reader, dialing, senders, srv>>

\* receive() returns an offer; handle_offer is spawned.
ReceiveOffer(l) ==
    /\ srv[l] = "serving"
    /\ queue[l] # <<>>
    /\ queue' = [queue EXCEPT ![l] = Tail(@)]
    /\ running' = [running EXCEPT ![l] = @ \cup {Head(queue[l])}]
    /\ offer' = [offer EXCEPT ![Head(queue[l])] = "accepting"]
    /\ UNCHANGED <<net, reader, dialing, senders, srv>>

\* handle_offer ends: the reply was sent and the peers went on without this
\* session, or a step of it failed.
OfferHandled(l) ==
    /\ \E o \in running[l], how \in {"replied", "failed"} :
        /\ how = "replied" => ws = "up"
        /\ running' = [running EXCEPT ![l] = @ \ {o}]
        /\ offer' = [offer EXCEPT ![o] = how]
    /\ UNCHANGED <<net, reader, dialing, senders, srv, queue>>

\* The PeerListener goes with what it had queued, and the runtime with the
\* handle_offer tasks it ran.  The Sender stays in connection_senders.
Discard(l, how) ==
    /\ srv' = [srv EXCEPT ![l] = how]
    /\ queue' = [queue EXCEPT ![l] = <<>>]
    /\ running' = [running EXCEPT ![l] = {}]
    /\ offer' = [o \in Offers |->
                    IF offer[o] = "queued" /\ \E k \in 1..Len(queue[l]) : queue[l][k] = o
                    THEN "lost"
                    ELSE IF o \in running[l] THEN "aborted" ELSE offer[o]]
    /\ UNCHANGED <<net, reader, dialing>>

\* receive() returns None: the channel was replaced, and is drained.
ServerEndsUndrained(l) ==
    /\ srv[l] = "serving"
    /\ senders[IdOf[l]] # l
    /\ Discard(l, "ended")
    /\ UNCHANGED senders

ServerEndsUnmaps(l) ==
    /\ srv[l] = "serving"
    /\ senders[IdOf[l]] # l
    /\ queue[l] = <<>>
    /\ Discard(l, "ended")
    /\ senders' = [senders EXCEPT ![IdOf[l]] = None]

ServerEnds(l) ==
    /\ srv[l] = "serving"
    /\ senders[IdOf[l]] # l
    /\ queue[l] = <<>>
    /\ Discard(l, "ended")
    /\ UNCHANGED senders

\* jude_server_cancellable's token is cancelled.
CancelServer(l) ==
    /\ srv[l] \in {"registered", "serving"}
    /\ Discard(l, "cancelled")
    /\ UNCHANGED senders

-----------------------------------------------------------------------------

Environment ==
    \/ \E o \in Offers : RemoteOffer(o)
    \/ \E d \in Dials : RemoteReply(d)
    \/ RemoteGarbage
    \/ WsDown

Call(d) ==
    SendOffer(d) \/ SendOfferFails(d) \/ OfferAnswered(d) \/ OfferAbandoned(d)

ListenerTask ==
    HandleReply \/ HandleOffer \/ SendToListener \/ SendRefused \/ ParseFails \/ Disconnected

Serve(l) == Install(l) \/ ReceiveOffer(l) \/ ServerEnds(l)

Next ==
    \/ Environment
    \/ \E d \in Dials : WaitForResponse(d) \/ Call(d)
    \/ ListenerTask
    \/ \E l \in Listeners :
        Register(l) \/ RegisterFails(l) \/ Serve(l) \/ OfferHandled(l) \/ CancelServer(l)

Spec == Init /\ [][Next]_vars

\* tokio polls what is ready.  tokio's RwLock is fair, so a writer gets its
\* turn between two packets: Install is enabled whenever the reader is not
\* sending, and the strong fairness is what the queue of waiters gives.
Fairness ==
    /\ WF_vars(ListenerTask)
    /\ \A d \in Dials : WF_vars(Call(d))
    /\ \A l \in Listeners :
        /\ SF_vars(Install(l))
        /\ WF_vars(ReceiveOffer(l)) /\ WF_vars(ServerEnds(l))

FairSpec == Spec /\ Fairness

-----------------------------------------------------------------------------
(* Properties.                                                             *)

TaskDead == task \in {"refused", "garbled", "ended"}

\* The type of every variable; no channel is over its capacity.
TypeOK ==
    /\ ws \in {"up", "down"}
    /\ registered \subseteq Ids
    /\ inbox \in Seq(Packet) /\ Len(inbox) <= MaxInbox
    /\ task \in {"reading", "sending", "refused", "garbled", "ended"}
    /\ held \in Offers \cup {None}
    /\ target \in Listeners \cup {None}
    /\ dial \in [Dials -> {"idle", "waiting", "sent", "ok", "failed"}]
    /\ number \in [Dials -> Number \cup {None}]
    /\ answer \in [Dials -> Dials \cup {None}]
    /\ asked \subseteq Dials
    /\ pending \in [Number -> Dials \cup {None}]
    /\ drew \in [Number -> Dials \cup {None}]
    /\ senders \in [Ids -> Listeners \cup {None}]
    /\ srv \in [Listeners -> {"off", "registered", "serving", "cancelled", "ended"}]
    /\ queue \in [Listeners -> Seq(Offers)]
    /\ \A l \in Listeners : Len(queue[l]) <= Capacity
    /\ running \in [Listeners -> SUBSET Offers]
    /\ offer \in [Offers -> {"new", "arrived", "held", "queued", "unclaimed", "lost",
                             "accepting", "replied", "failed", "aborted"}]

\* A call gets the reply to its own offer, unless another call on this
\* session drew the same number (ResponseManager, keyed by the number).
AnswerIsOwn ==
    \A d \in Dials :
        answer[d] \in {d, None} \/ \E e \in Dials \ {d} : number[e] = number[d]

\* A call fails only because the websocket is down or another call drew its
\* number: no reply is taken from under it otherwise.
FailureHasCause ==
    \A d \in Dials :
        dial[d] = "failed" =>
            ws = "down" \/ \E e \in Dials \ {d} : number[e] = number[d]

\* Of the calls that drew one number the last has the oneshot: the one
\* registered under a number is that of the call that drew it last, which has
\* no answer yet, and as long as this call waits without an answer its
\* oneshot is registered, whatever replies to the others came meanwhile
\* (wait_for_response's insert, handle_response's remove).
PendingIsCurrent ==
    /\ \A n \in Number :
        pending[n] # None =>
            /\ pending[n] = drew[n]
            /\ number[pending[n]] = n
            /\ answer[pending[n]] = None
            /\ dial[pending[n]] # "ok"
    /\ \A d \in Dials :
        dial[d] \in {"waiting", "sent"} /\ answer[d] = None /\ drew[number[d]] = d =>
            pending[number[d]] = d

\* The calls of this session are those of module Calls: whatever the listener
\* task, the servers and late replies do, a reply is handed out once at most,
\* for a call of its number that still waits, and nothing undoes a call that
\* is over (wait_for_response, handle_response).
C == INSTANCE Calls WITH
        up    <- ws = "up",
        call  <- [d \in Dials |->
                    IF dial[d] \in {"waiting", "sent"} THEN "open" ELSE dial[d]],
        reply <- answer
ImplementsCalls == C!Spec

\* The listener task is refused by a channel only after a jude_server was
\* cancelled, and never because a second run replaced the first: the lock
\* keeps the map still while the task sends.
RefusalNeedsCancel ==
    task = "refused" => \E l \in Listeners : srv[l] = "cancelled"

\* A remote offer that reached a channel is lost only with a cancelled
\* jude_server for that peer: a replaced one drains its channel first.
LossNeedsCancel ==
    \A o \in Offers :
        offer[o] = "lost" => \E l \in Listeners : srv[l] = "cancelled" /\ IdOf[l] = To[o]

\* While a jude_server serves a peer, no offer to that peer is discarded as
\* addressed to nobody, not even while another run replaces it.
NoOfferUnclaimedWhileServing ==
    [][\A o \in Offers :
        offer[o] = "arrived" /\ offer'[o] = "unclaimed" =>
            \A l \in Listeners : IdOf[l] = To[o] => srv[l] # "serving"]_vars

\* Every remote offer that arrives leaves this session's hands: it is handed
\* to handle_offer or dropped, unless the listener task has stopped.
OfferSettles ==
    \A o \in Offers :
        offer[o] \in {"arrived", "held", "queued"} ~>
            offer[o] \notin {"arrived", "held", "queued"} \/ TaskDead

\* A reply that arrives ends its call even when offers are queued before it
\* and the channel they go to is full; unless the listener task stops.
ReplyWakesCall ==
    \A d \in Dials :
        (\E k \in 1..Len(inbox) : inbox[k].type = "reply" /\ inbox[k].to = d) ~>
            dial[d] \in {"ok", "failed"} \/ TaskDead

\* jude_server gets past the lock, whatever the listener task is sending.
InstallCompletes ==
    \A l \in Listeners : srv[l] = "registered" ~> srv[l] # "registered"

\* src/core/p2p/session.rs:119 asserts, with unwrap(), that handle_packet
\* never fails.
HandlePacketSucceeds == task # "refused"
=============================================================================
