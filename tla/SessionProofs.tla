---------------------------- MODULE SessionProofs ----------------------------
(***************************************************************************)
(* Proofs about module Session, for any number of calls, offers, runs of   *)
(* jude_server and peers, and any capacity of the channels.                *)
(***************************************************************************)
EXTENDS Session, SequenceTheorems, TLAPS

-----------------------------------------------------------------------------
(* Type correctness.                                                       *)

\* The packet the listener task takes, and what it leaves.
LEMMA ReceiveTypes ==
    ASSUME TypeOK, NEW type, Receive(type)
    PROVE  /\ Head(inbox) \in Packet
           /\ Head(inbox) = inbox[1] /\ 1 \in 1..Len(inbox)
           /\ Tail(inbox) \in Seq(Packet)
           /\ Len(Tail(inbox)) = Len(inbox) - 1
           /\ \A k \in 1..Len(Tail(inbox)) : Tail(inbox)[k] = inbox[k + 1]
BY HeadTailProperties DEF TypeOK, Receive

LEMMA PacketFields ==
    ASSUME NEW p \in Packet
    PROVE  /\ p.type = "offer" => p \in OfferPacket /\ p.offer \in Offers
           /\ p.type = "reply" => p \in ReplyPacket /\ p.number \in Number /\ p.to \in Dials
BY DEF Packet, OfferPacket, ReplyPacket, Garbage

\* One more packet in the inbox.
LEMMA InboxAppend ==
    ASSUME TypeOK, CanReceive, NEW p \in Packet, inbox' = Append(inbox, p)
    PROVE  /\ inbox' \in Seq(Packet) /\ Len(inbox') <= MaxInbox
           /\ \A k \in 1..Len(inbox') :
                \/ k \in 1..Len(inbox) /\ inbox'[k] = inbox[k]
                \/ inbox'[k] = p
<1>1. /\ inbox' \in Seq(Packet) /\ Len(inbox') = Len(inbox) + 1
      /\ \A k \in 1..Len(inbox) : inbox'[k] = inbox[k]
      /\ inbox'[Len(inbox) + 1] = p
    BY AppendProperties DEF TypeOK
<1>2. Len(inbox) \in Nat BY LenProperties DEF TypeOK
<1> QED BY <1>1, <1>2, SessionAssumption DEF CanReceive

-----------------------------------------------------------------------------
(* The inductive invariant.                                                *)

\* A call that has begun has drawn its number; nothing is recorded for one
\* that has not.
NumberDrawn ==
    /\ \A d \in Dials :
        /\ dial[d] = "idle" <=> number[d] = None
        /\ number[d] = None => answer[d] = None
    /\ \A d \in asked : number[d] # None

\* A reply carries the number of the offer it answers.
ReplyNumbered ==
    \A k \in 1..Len(inbox) :
        inbox[k].type = "reply" => number[inbox[k].to] = inbox[k].number

Collides(d) == \E e \in Dials \ {d} : number[e] = number[d]

\* A call still without its answer is registered under its number, unless
\* another call drew that number.
StillRegistered ==
    \A d \in Dials :
        dial[d] \in {"waiting", "sent"} /\ answer[d] = None =>
            pending[number[d]] = d \/ Collides(d)

\* While the listener task sends, the channel it sends to is the one in the
\* map for that offer's peer: the lock.
SendingIsLocked ==
    task = "sending" =>
        /\ held \in Offers /\ target \in Listeners
        /\ senders[To[held]] = target

\* The map never holds a run of jude_server that ended by itself.
MapIsCurrent ==
    \A i \in Ids :
        senders[i] # None =>
            IdOf[senders[i]] = i /\ srv[senders[i]] \in {"serving", "cancelled"}

\* A channel holds offers to its own peer.
QueueAddressed ==
    \A l \in Listeners : \A k \in 1..Len(queue[l]) : To[queue[l][k]] = IdOf[l]

CallInv ==
    /\ NumberDrawn /\ ReplyNumbered /\ PendingIsCurrent
    /\ AnswerIsOwn /\ StillRegistered /\ FailureHasCause

ServeInv ==
    /\ SendingIsLocked /\ MapIsCurrent /\ QueueAddressed
    /\ RefusalNeedsCancel /\ LossNeedsCancel

IInv == TypeOK /\ CallInv /\ ServeInv

LEMMA InitIInv == Init => IInv
<1> SUFFICES ASSUME Init PROVE IInv
    OBVIOUS
<1>1. inbox \in Seq(Packet) /\ Len(inbox) <= MaxInbox /\ Len(inbox) = 0
    BY SessionAssumption, EmptySeq DEF Init
<1>2. /\ queue \in [Listeners -> Seq(Offers)]
      /\ \A l \in Listeners : Len(queue[l]) <= Capacity /\ Len(queue[l]) = 0
    BY SessionAssumption, EmptySeq DEF Init
<1>3. TypeOK
    BY <1>1, <1>2 DEF Init, TypeOK
<1>4. CallInv
    BY <1>1, SessionAssumption DEF Init, CallInv, NumberDrawn, ReplyNumbered,
        PendingIsCurrent, AnswerIsOwn, StillRegistered, FailureHasCause
<1>5. ServeInv
    BY <1>2, SessionAssumption DEF Init, ServeInv, SendingIsLocked, MapIsCurrent,
        QueueAddressed, RefusalNeedsCancel, LossNeedsCancel
<1> QED BY <1>3, <1>4, <1>5 DEF IInv

-----------------------------------------------------------------------------
(* Type correctness is preserved.                                          *)

LEMMA StepTypeOK == IInv /\ [Next]_vars => TypeOK'
<1> SUFFICES ASSUME IInv, [Next]_vars PROVE TypeOK'
    OBVIOUS
<1>0. TypeOK /\ NumberDrawn /\ SendingIsLocked BY DEF IInv, CallInv, ServeInv
<1> USE <1>0 DEF net, reader, dialing, serving
<1>1. ASSUME NEW o \in Offers, RemoteOffer(o) PROVE TypeOK'
    <2>1. [type |-> "offer", offer |-> o] \in Packet BY DEF Packet, OfferPacket
    <2>2. inbox' \in Seq(Packet) /\ Len(inbox') <= MaxInbox
        BY <1>1, <2>1, InboxAppend DEF RemoteOffer
    <2> QED BY <1>1, <2>2 DEF RemoteOffer, TypeOK
<1>2. ASSUME NEW d \in Dials, RemoteReply(d) PROVE TypeOK'
    <2>1. number[d] \in Number
        BY <1>2 DEF RemoteReply, NumberDrawn, TypeOK
    <2>2. [type |-> "reply", number |-> number[d], to |-> d] \in Packet
        BY <2>1 DEF Packet, ReplyPacket
    <2>3. inbox' \in Seq(Packet) /\ Len(inbox') <= MaxInbox
        BY <1>2, <2>2, InboxAppend DEF RemoteReply
    <2> QED BY <1>2, <2>3 DEF RemoteReply, TypeOK
<1>3. CASE RemoteGarbage
    <2>1. Garbage \in Packet BY DEF Packet
    <2>2. inbox' \in Seq(Packet) /\ Len(inbox') <= MaxInbox
        BY <1>3, <2>1, InboxAppend DEF RemoteGarbage
    <2> QED BY <1>3, <2>2 DEF RemoteGarbage, TypeOK
<1>4. CASE WsDown BY <1>4 DEF WsDown, TypeOK
<1>5. ASSUME NEW d \in Dials, WaitForResponse(d) PROVE TypeOK'
    BY <1>5 DEF WaitForResponse, TypeOK
<1>6. ASSUME NEW d \in Dials, Call(d) PROVE TypeOK'
    BY <1>6 DEF Call, SendOffer, SendOfferFails, OfferAnswered, OfferAbandoned, TypeOK
<1>7. ASSUME NEW type, Receive(type), inbox' = Tail(inbox)
      PROVE  inbox' \in Seq(Packet) /\ Len(inbox') <= MaxInbox
    <2>1. Len(inbox) \in Nat /\ Len(inbox) <= MaxInbox BY LenProperties DEF TypeOK
    <2> QED BY <1>7, <2>1, ReceiveTypes, SessionAssumption
<1>8. CASE HandleReply
    <2>1. Head(inbox).number \in Number /\ Head(inbox).to \in Dials
        BY <1>8, ReceiveTypes, PacketFields DEF HandleReply, Receive
    <2>2. inbox' \in Seq(Packet) /\ Len(inbox') <= MaxInbox
        BY <1>7, <1>8 DEF HandleReply
    <2> QED BY <1>8, <2>1, <2>2 DEF HandleReply, TypeOK
<1>9. CASE HandleOffer
    <2>1. Head(inbox).offer \in Offers
        BY <1>9, ReceiveTypes, PacketFields DEF HandleOffer, Receive
    <2>2. inbox' \in Seq(Packet) /\ Len(inbox') <= MaxInbox
        BY <1>7, <1>9 DEF HandleOffer
    <2>3. To[Head(inbox).offer] \in Ids
        BY <2>1, SessionAssumption
    <2> QED BY <1>9, <2>1, <2>2, <2>3 DEF HandleOffer, TypeOK
<1>10. CASE SendRefused BY <1>10 DEF SendRefused, TypeOK, SendingIsLocked
<1>11. CASE ParseFails
    <2>1. inbox' \in Seq(Packet) /\ Len(inbox') <= MaxInbox
        BY <1>7, <1>11 DEF ParseFails
    <2> QED BY <1>11, <2>1 DEF ParseFails, TypeOK
<1>12. CASE Disconnected BY <1>12 DEF Disconnected, TypeOK
<1>13. CASE SendToListener
    <2> DEFINE q == Append(queue[target], held)
    <2>1. held \in Offers /\ target \in Listeners /\ queue[target] \in Seq(Offers)
        BY <1>13 DEF SendToListener, SendingIsLocked, TypeOK
    <2>2. q \in Seq(Offers) /\ Len(q) <= Capacity
        BY <1>13, <2>1, AppendProperties, LenProperties, SessionAssumption DEF SendToListener
    <2>3. queue' = [queue EXCEPT ![target] = q]
        BY <1>13 DEF SendToListener
    <2>4. queue' \in [Listeners -> Seq(Offers)] /\ \A l \in Listeners : Len(queue'[l]) <= Capacity
        BY <2>1, <2>2, <2>3 DEF TypeOK
    <2> QED BY <1>13, <2>1, <2>4 DEF SendToListener, TypeOK
<1>14. ASSUME NEW l \in Listeners, Register(l) \/ RegisterFails(l) \/ Install(l) PROVE TypeOK'
    <2>1. CASE Register(l)
        <3>1. registered' \subseteq Ids
            BY <2>1, SessionAssumption DEF Register, TypeOK
        <3> QED BY <2>1, <3>1 DEF Register, TypeOK
    <2>2. CASE RegisterFails(l) BY <2>2 DEF RegisterFails, TypeOK
    <2>3. CASE Install(l)
        <3>1. IdOf[l] \in Ids BY SessionAssumption
        <3> QED BY <2>3, <3>1 DEF Install, TypeOK
    <2> QED BY <1>14, <2>1, <2>2, <2>3
<1>15. ASSUME NEW l \in Listeners, ReceiveOffer(l) PROVE TypeOK'
    <2>1. /\ Head(queue[l]) \in Offers /\ Tail(queue[l]) \in Seq(Offers)
          /\ Len(Tail(queue[l])) = Len(queue[l]) - 1 /\ Len(queue[l]) \in Nat
        BY <1>15, HeadTailProperties, LenProperties DEF ReceiveOffer, TypeOK
    <2>2. queue' = [queue EXCEPT ![l] = Tail(queue[l])]
        BY <1>15 DEF ReceiveOffer
    <2>3. queue' \in [Listeners -> Seq(Offers)] /\ \A m \in Listeners : Len(queue'[m]) <= Capacity
        BY <2>1, <2>2, SessionAssumption DEF TypeOK
    <2> QED BY <1>15, <2>1, <2>3 DEF ReceiveOffer, TypeOK
<1>16. ASSUME NEW l \in Listeners, OfferHandled(l) PROVE TypeOK'
    BY <1>16 DEF OfferHandled, TypeOK
<1>17. ASSUME NEW l \in Listeners, ServerEnds(l) \/ CancelServer(l) PROVE TypeOK'
    <2>1. /\ \/ srv' = [srv EXCEPT ![l] = "ended"]
             \/ srv' = [srv EXCEPT ![l] = "cancelled"]
          /\ queue' = [queue EXCEPT ![l] = <<>>]
        BY <1>17 DEF ServerEnds, CancelServer, Discard
    <2>2. srv' \in [Listeners -> {"off", "registered", "serving", "cancelled", "ended"}]
        BY <2>1 DEF TypeOK
    <2>3. queue' \in [Listeners -> Seq(Offers)] /\ \A m \in Listeners : Len(queue'[m]) <= Capacity
        BY <2>1, EmptySeq, SessionAssumption DEF TypeOK
    <2>4. running' = [running EXCEPT ![l] = {}]
        BY <1>17 DEF ServerEnds, CancelServer, Discard
    <2>5. offer' \in [Offers -> {"new", "arrived", "held", "queued", "unclaimed", "lost",
                                 "accepting", "replied", "failed", "aborted"}]
        <3>1. offer' = [o \in Offers |->
                IF offer[o] = "queued" /\ \E k \in 1..Len(queue[l]) : queue[l][k] = o
                THEN "lost"
                ELSE IF o \in running[l] THEN "aborted" ELSE offer[o]]
            BY <1>17 DEF ServerEnds, CancelServer, Discard
        <3>2. ASSUME NEW o \in Offers
              PROVE  offer'[o] \in {"lost", "aborted", offer[o]}
            BY <3>1
        <3> QED BY <3>1, <3>2 DEF TypeOK
    <2> QED BY <1>17, <2>2, <2>3, <2>4, <2>5 DEF ServerEnds, CancelServer, Discard, TypeOK
<1>18. CASE UNCHANGED vars
    BY <1>18 DEF vars, TypeOK
<1> QED
    BY <1>1, <1>2, <1>3, <1>4, <1>5, <1>6, <1>8, <1>9, <1>10, <1>11, <1>12, <1>13,
       <1>14, <1>15, <1>16, <1>17, <1>18
       DEF Next, Environment, ListenerTask, Serve

-----------------------------------------------------------------------------
(* The calls' part is preserved.                                           *)

LEMMA ReplyNumberedAppend ==
    ASSUME IInv, CanReceive, NEW p \in Packet, inbox' = Append(inbox, p),
           number' = number, p.type = "reply" => number[p.to] = p.number
    PROVE  ReplyNumbered'
BY InboxAppend DEF IInv, CallInv, ReplyNumbered

LEMMA ReplyNumberedTail ==
    ASSUME IInv, NEW type, Receive(type), inbox' = Tail(inbox), number' = number
    PROVE  ReplyNumbered'
<1>1. Len(inbox) \in Nat BY LenProperties DEF IInv, TypeOK
<1>2. ASSUME NEW k \in 1..Len(inbox')
      PROVE  k + 1 \in 1..Len(inbox) /\ inbox'[k] = inbox[k + 1]
    BY <1>1, ReceiveTypes DEF IInv
<1> QED BY <1>2 DEF IInv, CallInv, ReplyNumbered

LEMMA StepCallInv == IInv /\ [Next]_vars => CallInv'
<1> SUFFICES ASSUME IInv, [Next]_vars PROVE CallInv'
    OBVIOUS
<1>0. TypeOK /\ CallInv BY DEF IInv
<1> USE DEF net, reader, dialing, serving
<1> DEFINE Kept == NumberDrawn /\ PendingIsCurrent /\ AnswerIsOwn /\ StillRegistered
<1>a. ASSUME UNCHANGED dialing PROVE Kept'
    BY <1>0, <1>a DEF CallInv, NumberDrawn, PendingIsCurrent, AnswerIsOwn,
                      StillRegistered, Collides
<1>b. ASSUME UNCHANGED <<dialing, ws>> PROVE Kept' /\ FailureHasCause'
    BY <1>0, <1>a, <1>b DEF CallInv, FailureHasCause
<1>c. ASSUME UNCHANGED <<dialing, net>> PROVE CallInv'
    BY <1>0, <1>b, <1>c DEF CallInv, ReplyNumbered
<1>1. ASSUME NEW o \in Offers, RemoteOffer(o) PROVE CallInv'
    <2>1. ReplyNumbered'
        BY <1>1, ReplyNumberedAppend DEF RemoteOffer, Packet, OfferPacket
    <2> QED BY <1>1, <1>b, <2>1 DEF RemoteOffer, CallInv
<1>2. ASSUME NEW d \in Dials, RemoteReply(d) PROVE CallInv'
    <2>1. number[d] \in Number
        BY <1>0, <1>2 DEF RemoteReply, CallInv, NumberDrawn, TypeOK
    <2>2. ReplyNumbered'
        BY <1>2, <2>1, ReplyNumberedAppend DEF RemoteReply, Packet, ReplyPacket
    <2>3. UNCHANGED <<dial, number, answer, pending, drew, ws>> /\ asked' \subseteq asked
        BY <1>2 DEF RemoteReply
    <2> QED BY <1>0, <2>2, <2>3 DEF CallInv, NumberDrawn, PendingIsCurrent, AnswerIsOwn,
                                    StillRegistered, FailureHasCause, Collides
<1>3. CASE RemoteGarbage
    <2>1. ReplyNumbered'
        BY <1>3, ReplyNumberedAppend DEF RemoteGarbage, Packet, Garbage
    <2> QED BY <1>3, <1>b, <2>1 DEF RemoteGarbage, CallInv
<1>4. CASE WsDown
    <2>1. ReplyNumbered' /\ FailureHasCause'
        BY <1>0, <1>4 DEF WsDown, CallInv, ReplyNumbered, FailureHasCause
    <2> QED BY <1>4, <1>a, <2>1 DEF WsDown, CallInv
<1>5. ASSUME NEW d \in Dials, WaitForResponse(d) PROVE CallInv'
    <2>1. PICK n \in Number :
            /\ number' = [number EXCEPT ![d] = n]
            /\ pending' = [pending EXCEPT ![n] = d]
            /\ drew' = [drew EXCEPT ![n] = d]
        BY <1>5 DEF WaitForResponse
    <2>2. /\ dial[d] = "idle" /\ number[d] = None /\ answer[d] = None
          /\ dial' = [dial EXCEPT ![d] = "waiting"]
          /\ UNCHANGED <<answer, asked, ws, inbox>>
        BY <1>0, <1>5 DEF WaitForResponse, CallInv, NumberDrawn
    <2>3. n # None /\ d # None BY SessionAssumption
    <2>4. NumberDrawn'
        BY <1>0, <2>1, <2>2, <2>3 DEF CallInv, NumberDrawn, TypeOK
    <2>5. \A e \in Dials : number[e] # None => e # d /\ number'[e] = number[e]
        BY <1>0, <2>1, <2>2 DEF TypeOK
    <2>6. ReplyNumbered'
        <3>1. ASSUME NEW k \in 1..Len(inbox), inbox[k].type = "reply"
              PROVE  number'[inbox[k].to] = inbox[k].number
            <4>1. inbox[k] \in Packet
                BY <1>0, ElementOfSeq DEF TypeOK
            <4>2. inbox[k].to \in Dials /\ inbox[k].number # None
                BY <3>1, <4>1, PacketFields, SessionAssumption
            <4> QED BY <1>0, <2>5, <3>1, <4>2 DEF CallInv, ReplyNumbered
        <3> QED BY <2>2, <3>1 DEF ReplyNumbered
    <2>7. PendingIsCurrent'
        <3>1. ASSUME NEW m \in Number, m # n, pending[m] # None
              PROVE  /\ pending'[m] = pending[m] /\ number[pending[m]] = m
                     /\ pending[m] \in Dials /\ m # None
                     /\ pending'[m] = drew'[m]
            BY <1>0, <2>1, <3>1, SessionAssumption DEF CallInv, PendingIsCurrent, TypeOK
        <3>2. ASSUME NEW m \in Number, m # n, pending'[m] # None
              PROVE  /\ number'[pending'[m]] = m /\ answer'[pending'[m]] = None
                     /\ dial'[pending'[m]] # "ok" /\ pending'[m] = drew'[m]
            BY <1>0, <2>1, <2>2, <2>5, <3>1, <3>2 DEF CallInv, PendingIsCurrent, TypeOK
        <3>3. /\ pending'[n] = d /\ number'[d] = n /\ answer'[d] = None
              /\ dial'[d] = "waiting" /\ drew'[n] = d
            BY <1>0, <2>1, <2>2 DEF TypeOK
        <3>4. ASSUME NEW e \in Dials, dial'[e] \in {"waiting", "sent"}, answer'[e] = None,
                     drew'[number'[e]] = e
              PROVE  pending'[number'[e]] = e
            <4>1. CASE number'[e] = n
                BY <3>3, <3>4, <4>1
            <4>2. CASE number'[e] # n
                <5>1. e # d /\ dial[e] = dial'[e]
                    BY <1>0, <2>2, <3>3, <4>2 DEF TypeOK
                <5>2. number'[e] = number[e] /\ number[e] \in Number
                    BY <1>0, <2>5, <3>4, <5>1 DEF CallInv, NumberDrawn, TypeOK
                <5>3. drew[number[e]] = e /\ pending'[number[e]] = pending[number[e]]
                    BY <1>0, <2>1, <3>4, <4>2, <5>2 DEF TypeOK
                <5> QED BY <1>0, <2>2, <3>4, <5>1, <5>2, <5>3 DEF CallInv, PendingIsCurrent
            <4> QED BY <4>1, <4>2
        <3> QED BY <3>2, <3>3, <3>4 DEF PendingIsCurrent
    <2>8. AnswerIsOwn'
        <3>1. ASSUME NEW c \in Dials, answer[c] \notin {c, None}
              PROVE  \E e \in Dials \ {c} : number'[e] = number'[c]
            <4>1. number[c] # None
                BY <1>0, <3>1 DEF CallInv, NumberDrawn
            <4>2. PICK e \in Dials \ {c} : number[e] = number[c]
                BY <1>0, <3>1 DEF CallInv, AnswerIsOwn
            <4> QED BY <2>5, <4>1, <4>2
        <3> QED BY <2>2, <3>1 DEF AnswerIsOwn
    <2>9. StillRegistered'
        <3>1. ASSUME NEW e \in Dials, e # d, dial[e] \in {"waiting", "sent"}, answer[e] = None
              PROVE  pending'[number'[e]] = e \/ Collides(e)'
            <4>1. number[e] \in Number /\ number'[e] = number[e]
                BY <1>0, <2>5, <3>1 DEF CallInv, NumberDrawn, TypeOK
            <4>2. CASE number[e] = n
                BY <1>0, <2>1, <3>1, <4>1, <4>2 DEF Collides, TypeOK
            <4>3. CASE number[e] # n
                <5>1. pending'[number'[e]] = pending[number[e]]
                    BY <1>0, <2>1, <4>1, <4>3 DEF TypeOK
                <5>2. Collides(e) => Collides(e)'
                    BY <1>0, <2>5, <4>1, SessionAssumption DEF Collides
                <5> QED BY <1>0, <3>1, <5>1, <5>2 DEF CallInv, StillRegistered
            <4> QED BY <4>2, <4>3
        <3>2. pending'[number'[d]] = d
            BY <1>0, <2>1 DEF TypeOK
        <3> QED BY <1>0, <2>2, <3>1, <3>2 DEF StillRegistered, TypeOK
    <2>10. FailureHasCause'
        BY <1>0, <2>2, <2>5 DEF CallInv, FailureHasCause, NumberDrawn, TypeOK
    <2> QED BY <2>4, <2>6, <2>7, <2>8, <2>9, <2>10 DEF CallInv
<1>6. ASSUME NEW d \in Dials, Call(d) PROVE CallInv'
    <2>1. UNCHANGED <<net, number, answer, pending, drew>>
        BY <1>6 DEF Call, SendOffer, SendOfferFails, OfferAnswered, OfferAbandoned
    <2>2. ReplyNumbered' /\ AnswerIsOwn'
        BY <1>0, <2>1 DEF CallInv, ReplyNumbered, AnswerIsOwn
    <2>3. CASE SendOffer(d)
        BY <1>0, <2>1, <2>2, <2>3 DEF SendOffer, CallInv, NumberDrawn, PendingIsCurrent,
            StillRegistered, FailureHasCause, Collides, TypeOK
    <2>4. CASE SendOfferFails(d)
        BY <1>0, <2>1, <2>2, <2>4 DEF SendOfferFails, CallInv, NumberDrawn, PendingIsCurrent,
            StillRegistered, FailureHasCause, Collides, TypeOK
    <2>5. CASE OfferAnswered(d)
        BY <1>0, <2>1, <2>2, <2>5 DEF OfferAnswered, CallInv, NumberDrawn, PendingIsCurrent,
            StillRegistered, FailureHasCause, Collides, TypeOK
    <2>6. CASE OfferAbandoned(d)
        BY <1>0, <2>1, <2>2, <2>6 DEF OfferAbandoned, CallInv, NumberDrawn, PendingIsCurrent,
            StillRegistered, FailureHasCause, Collides, TypeOK
    <2> QED BY <1>6, <2>3, <2>4, <2>5, <2>6 DEF Call
<1>7. CASE HandleReply
    <2> DEFINE n == Head(inbox).number
               e == Head(inbox).to
               d == pending[n]
    <2>1. n \in Number /\ e \in Dials /\ number[e] = n
        BY <1>0, <1>7, ReceiveTypes, PacketFields DEF HandleReply, Receive, CallInv, ReplyNumbered
    <2>2. /\ pending' = [pending EXCEPT ![n] = None]
          /\ answer' = IF d # None /\ dial[d] # "failed" THEN [answer EXCEPT ![d] = e] ELSE answer
          /\ UNCHANGED <<dial, number, asked, drew, ws>>
        BY <1>7 DEF HandleReply
    <2>3. d # None => d \in Dials /\ number[d] = n
        BY <1>0, <2>1 DEF CallInv, PendingIsCurrent, TypeOK
    <2> HIDE DEF n, e, d
    <2>4. ReplyNumbered'
        BY <1>7, ReplyNumberedTail DEF HandleReply
    <2>5. NumberDrawn'
        BY <1>0, <2>1, <2>2, <2>3, SessionAssumption DEF CallInv, NumberDrawn, TypeOK
    <2>6. PendingIsCurrent'
        <3>1. ASSUME NEW m \in Number, pending'[m] # None
              PROVE  m # n /\ pending'[m] = pending[m]
            BY <1>0, <2>1, <2>2, <3>1 DEF TypeOK
        <3>2. ASSUME NEW m \in Number, pending'[m] # None
              PROVE  answer'[pending[m]] = answer[pending[m]]
            BY <1>0, <2>2, <2>3, <3>1, <3>2 DEF CallInv, PendingIsCurrent, TypeOK
        <3>3. ASSUME NEW c \in Dials, dial[c] \in {"waiting", "sent"}, answer'[c] = None,
                     drew[number[c]] = c
              PROVE  pending'[number[c]] = c
            <4>1. number[c] \in Number /\ e # None /\ c # None
                BY <1>0, <2>1, <3>3, SessionAssumption DEF CallInv, NumberDrawn, TypeOK
            <4>2. c # d /\ answer[c] = None
                BY <1>0, <2>2, <3>3, <4>1 DEF TypeOK
            <4>3. pending[number[c]] = c
                BY <1>0, <3>3, <4>2 DEF CallInv, PendingIsCurrent
            <4>4. number[c] # n
                BY <4>2, <4>3 DEF d
            <4> QED BY <1>0, <2>2, <4>1, <4>3, <4>4 DEF TypeOK
        <3> QED BY <1>0, <2>2, <3>1, <3>2, <3>3 DEF CallInv, PendingIsCurrent
    <2>7. AnswerIsOwn'
        <3>1. ASSUME NEW c \in Dials
              PROVE  answer'[c] = answer[c] \/ (c = d /\ answer'[c] = e /\ d # None)
            BY <1>0, <2>2, <2>3 DEF TypeOK
        <3>2. ASSUME NEW c \in Dials, c = d, d # None, e # d PROVE Collides(c)
            BY <2>1, <2>3, <3>2 DEF Collides
        <3>3. ASSUME NEW c \in Dials PROVE answer'[c] \in {c, None} \/ Collides(c)
            BY <1>0, <3>1, <3>2 DEF CallInv, AnswerIsOwn, Collides
        <3> QED BY <2>2, <3>3 DEF AnswerIsOwn, Collides
    <2>8. StillRegistered'
        <3>1. ASSUME NEW c \in Dials, dial[c] \in {"waiting", "sent"}, answer'[c] = None
              PROVE  pending'[number[c]] = c \/ Collides(c)
            <4>1. number[c] \in Number /\ e # None /\ c # None
                BY <1>0, <2>1, <3>1, SessionAssumption DEF CallInv, NumberDrawn, TypeOK
            <4>2. c # d /\ answer[c] = None
                BY <1>0, <2>2, <2>3, <3>1, <4>1 DEF TypeOK
            <4>3. pending[number[c]] = c \/ Collides(c)
                BY <1>0, <3>1, <4>2 DEF CallInv, StillRegistered
            <4>4. number[c] = n => pending[number[c]] = d
                BY DEF d
            <4> QED BY <1>0, <2>1, <2>2, <4>1, <4>2, <4>3, <4>4 DEF TypeOK
        <3> QED BY <2>2, <3>1 DEF StillRegistered, Collides
    <2>9. FailureHasCause'
        BY <1>0, <2>2 DEF CallInv, FailureHasCause
    <2> QED BY <2>4, <2>5, <2>6, <2>7, <2>8, <2>9 DEF CallInv
<1>8. CASE HandleOffer \/ ParseFails
    <2>1. ReplyNumbered'
        BY <1>8, ReplyNumberedTail DEF HandleOffer, ParseFails
    <2>2. UNCHANGED <<dialing, ws>>
        BY <1>8 DEF HandleOffer, ParseFails
    <2> QED BY <1>b, <2>1, <2>2 DEF CallInv
<1>9. CASE SendToListener \/ SendRefused \/ Disconnected
    BY <1>9, <1>c DEF SendToListener, SendRefused, Disconnected
<1>10. ASSUME NEW l \in Listeners, Register(l)
       PROVE CallInv'
    BY <1>0, <1>10, <1>b DEF Register, CallInv, ReplyNumbered
<1>11. ASSUME NEW l \in Listeners,
              \/ RegisterFails(l) \/ Serve(l) \/ OfferHandled(l) \/ CancelServer(l)
       PROVE CallInv'
    BY <1>11, <1>c DEF RegisterFails, Serve, Install, ReceiveOffer, ServerEnds,
                       OfferHandled, CancelServer, Discard
<1>12. CASE UNCHANGED vars
    BY <1>12, <1>c DEF vars
<1> QED
    BY <1>1, <1>2, <1>3, <1>4, <1>5, <1>6, <1>7, <1>8, <1>9, <1>10, <1>11, <1>12
       DEF Next, Environment, ListenerTask

-----------------------------------------------------------------------------
(* The servers' part is preserved.                                         *)

LEMMA StepServeInv == IInv /\ [Next]_vars => ServeInv'
<1> SUFFICES ASSUME IInv, [Next]_vars PROVE ServeInv'
    OBVIOUS
<1>0. TypeOK /\ ServeInv BY DEF IInv
<1> USE DEF net, reader, dialing, serving
<1>a. ASSUME UNCHANGED <<reader, senders, srv, queue>>,
             \A o \in Offers : offer'[o] = "lost" => offer[o] = "lost"
      PROVE  ServeInv'
    BY <1>0, <1>a DEF ServeInv, SendingIsLocked, MapIsCurrent, QueueAddressed,
                      RefusalNeedsCancel, LossNeedsCancel
<1>1. CASE Environment
    BY <1>0, <1>1, <1>a DEF Environment, RemoteOffer, RemoteReply, RemoteGarbage, WsDown, TypeOK
<1>2. ASSUME NEW d \in Dials, WaitForResponse(d) \/ Call(d) PROVE ServeInv'
    BY <1>2, <1>a DEF WaitForResponse, Call, SendOffer, SendOfferFails,
                      OfferAnswered, OfferAbandoned
<1>3. CASE HandleReply
    BY <1>3, <1>a DEF HandleReply
<1>4. CASE HandleOffer
    <2> DEFINE o == Head(inbox).offer
    <2>1. o \in Offers /\ task = "reading"
        BY <1>0, <1>4, ReceiveTypes, PacketFields DEF HandleOffer, Receive
    <2>2. UNCHANGED <<senders, srv, queue>>
        BY <1>4 DEF HandleOffer
    <2>3. \A p \in Offers : offer'[p] = "lost" => offer[p] = "lost"
        BY <1>0, <1>4 DEF HandleOffer, TypeOK
    <2>4. /\ senders[To[o]] = None => UNCHANGED reader
          /\ senders[To[o]] # None =>
                task' = "sending" /\ held' = o /\ target' = senders[To[o]]
        BY <1>4 DEF HandleOffer
    <2>5. SendingIsLocked' /\ RefusalNeedsCancel'
        BY <1>0, <2>1, <2>2, <2>4, SessionAssumption DEF SendingIsLocked, RefusalNeedsCancel, TypeOK
    <2> QED BY <1>0, <2>2, <2>3, <2>5 DEF ServeInv, MapIsCurrent, QueueAddressed, LossNeedsCancel
<1>5. CASE SendToListener
    <2>1. /\ held \in Offers /\ target \in Listeners
          /\ To[held] \in Ids /\ IdOf[target] = To[held]
        BY <1>0, <1>5, SessionAssumption
            DEF SendToListener, ServeInv, SendingIsLocked, MapIsCurrent
    <2>2. queue' = [queue EXCEPT ![target] = Append(queue[target], held)]
        BY <1>5 DEF SendToListener
    <2>3. QueueAddressed'
        <3>1. ASSUME NEW k \in 1..Len(queue'[target]) PROVE To[queue'[target][k]] = IdOf[target]
            <4>1. queue'[target] = Append(queue[target], held) /\ queue[target] \in Seq(Offers)
                BY <1>0, <2>1, <2>2 DEF TypeOK
            <4>2. /\ Len(queue'[target]) = Len(queue[target]) + 1
                  /\ \A j \in 1..Len(queue[target]) : queue'[target][j] = queue[target][j]
                  /\ queue'[target][Len(queue[target]) + 1] = held
                BY <2>1, <4>1, AppendProperties
            <4>3. Len(queue[target]) \in Nat BY <4>1, LenProperties
            <4> QED BY <1>0, <2>1, <4>2, <4>3 DEF ServeInv, QueueAddressed
        <3>2. ASSUME NEW l \in Listeners, l # target PROVE queue'[l] = queue[l]
            BY <1>0, <2>2, <3>2 DEF TypeOK
        <3> QED BY <1>0, <3>1, <3>2 DEF ServeInv, QueueAddressed
    <2>4. UNCHANGED <<senders, srv>> /\ task' = "reading"
          /\ \A p \in Offers : offer'[p] = "lost" => offer[p] = "lost"
        BY <1>0, <1>5 DEF SendToListener, TypeOK
    <2> QED BY <1>0, <2>3, <2>4 DEF ServeInv, SendingIsLocked, MapIsCurrent,
                                    RefusalNeedsCancel, LossNeedsCancel
<1>6. CASE SendRefused
    <2>1. /\ held \in Offers /\ target \in Listeners /\ IdOf[target] = To[held]
          /\ srv[target] = "cancelled"
        BY <1>0, <1>6, SessionAssumption
            DEF SendRefused, Gone, ServeInv, SendingIsLocked, MapIsCurrent
    <2>2. /\ UNCHANGED <<senders, srv, queue>> /\ task' = "refused"
          /\ offer' = [offer EXCEPT ![held] = "lost"]
        BY <1>6 DEF SendRefused
    <2>3. LossNeedsCancel'
        BY <1>0, <2>1, <2>2 DEF ServeInv, LossNeedsCancel, TypeOK
    <2> QED BY <1>0, <2>1, <2>2, <2>3 DEF ServeInv, SendingIsLocked, MapIsCurrent,
                                          QueueAddressed, RefusalNeedsCancel
<1>7. CASE ParseFails \/ Disconnected
    BY <1>0, <1>7 DEF ParseFails, Disconnected, ServeInv, SendingIsLocked, MapIsCurrent,
                      QueueAddressed, RefusalNeedsCancel, LossNeedsCancel
<1>8. ASSUME NEW l \in Listeners, Register(l) \/ RegisterFails(l) PROVE ServeInv'
    <2>1. \A m \in Listeners : srv[m] \in {"serving", "cancelled"} => srv'[m] = srv[m]
        BY <1>0, <1>8 DEF Register, RegisterFails, TypeOK
    <2>2. UNCHANGED <<reader, senders, queue, offer>>
        BY <1>8 DEF Register, RegisterFails
    <2>3. ASSUME NEW i \in Ids, senders[i] # None
          PROVE  IdOf[senders[i]] = i /\ srv'[senders[i]] \in {"serving", "cancelled"}
        <3>1. senders[i] \in Listeners
            BY <1>0, <2>3 DEF TypeOK
        <3>2. IdOf[senders[i]] = i /\ srv[senders[i]] \in {"serving", "cancelled"}
            BY <1>0, <2>3 DEF ServeInv, MapIsCurrent
        <3> QED BY <2>1, <3>1, <3>2
    <2>4. MapIsCurrent'
        BY <2>2, <2>3 DEF MapIsCurrent
    <2> QED BY <1>0, <2>1, <2>2, <2>4 DEF ServeInv, SendingIsLocked, QueueAddressed,
                                          RefusalNeedsCancel, LossNeedsCancel
<1>9. ASSUME NEW l \in Listeners, Install(l) PROVE ServeInv'
    <2>1. /\ UNCHANGED <<reader, queue, offer>> /\ task # "sending"
          /\ senders' = [senders EXCEPT ![IdOf[l]] = l]
          /\ srv' = [srv EXCEPT ![l] = "serving"] /\ srv[l] = "registered"
        BY <1>9 DEF Install
    <2>2. \A m \in Listeners : srv[m] \in {"serving", "cancelled"} => srv'[m] = srv[m]
        BY <1>0, <2>1 DEF TypeOK
    <2>3. MapIsCurrent'
        BY <1>0, <2>1, <2>2 DEF ServeInv, MapIsCurrent, TypeOK
    <2> QED BY <1>0, <2>1, <2>2, <2>3 DEF ServeInv, SendingIsLocked, QueueAddressed,
                                          RefusalNeedsCancel, LossNeedsCancel
<1>10. ASSUME NEW l \in Listeners, ReceiveOffer(l) PROVE ServeInv'
    <2>1. /\ UNCHANGED <<reader, senders, srv>> /\ queue[l] # <<>>
          /\ queue' = [queue EXCEPT ![l] = Tail(queue[l])]
        BY <1>10 DEF ReceiveOffer
    <2>2. \A o \in Offers : offer'[o] = "lost" => offer[o] = "lost"
        BY <1>0, <1>10 DEF ReceiveOffer, TypeOK
    <2>3. ASSUME NEW k \in 1..Len(queue'[l]) PROVE To[queue'[l][k]] = IdOf[l]
        <3>1. queue[l] \in Seq(Offers) /\ queue'[l] = Tail(queue[l])
            BY <1>0, <2>1 DEF TypeOK
        <3>2. /\ Len(queue'[l]) = Len(queue[l]) - 1 /\ Len(queue[l]) \in Nat
              /\ \A j \in 1..Len(queue'[l]) : queue'[l][j] = queue[l][j + 1]
            BY <2>1, <3>1, HeadTailProperties, LenProperties
        <3>3. k + 1 \in 1..Len(queue[l])
            BY <3>2
        <3> QED BY <1>0, <3>2, <3>3 DEF ServeInv, QueueAddressed
    <2>4. \A m \in Listeners : m # l => queue'[m] = queue[m]
        BY <1>0, <2>1 DEF TypeOK
    <2>5. QueueAddressed'
        BY <1>0, <2>3, <2>4 DEF ServeInv, QueueAddressed
    <2> QED BY <1>0, <2>1, <2>2, <2>5 DEF ServeInv, SendingIsLocked, MapIsCurrent,
                                          RefusalNeedsCancel, LossNeedsCancel
<1>11. ASSUME NEW l \in Listeners, OfferHandled(l) PROVE ServeInv'
    <2>1. \A o \in Offers : offer'[o] = "lost" => offer[o] = "lost"
        BY <1>0, <1>11 DEF OfferHandled, TypeOK
    <2> QED BY <1>11, <1>a, <2>1 DEF OfferHandled
<1>12. ASSUME NEW l \in Listeners, ServerEnds(l) \/ CancelServer(l) PROVE ServeInv'
    <2>1. /\ UNCHANGED <<reader, senders>>
          /\ queue' = [queue EXCEPT ![l] = <<>>]
          /\ offer' = [o \in Offers |->
                IF offer[o] = "queued" /\ \E k \in 1..Len(queue[l]) : queue[l][k] = o
                THEN "lost"
                ELSE IF o \in running[l] THEN "aborted" ELSE offer[o]]
        BY <1>12 DEF ServerEnds, CancelServer, Discard
    <2>2. QueueAddressed'
        BY <1>0, <2>1, EmptySeq DEF ServeInv, QueueAddressed, TypeOK
    <2>3. \A o \in Offers : offer'[o] = "lost" =>
            offer[o] = "lost" \/ (To[o] = IdOf[l] /\ queue[l] # <<>>)
        BY <1>0, <2>1, EmptySeq DEF ServeInv, QueueAddressed
    <2>4. CASE ServerEnds(l)
        <3>1. /\ srv[l] = "serving" /\ srv' = [srv EXCEPT ![l] = "ended"]
              /\ senders[IdOf[l]] # l /\ queue[l] = <<>>
            BY <2>4 DEF ServerEnds, Discard
        <3>2. MapIsCurrent'
            BY <1>0, <2>1, <3>1, SessionAssumption DEF ServeInv, MapIsCurrent, TypeOK
        <3>3. \A m \in Listeners : srv[m] = "cancelled" => srv'[m] = "cancelled"
            BY <1>0, <3>1 DEF TypeOK
        <3> QED BY <1>0, <2>1, <2>2, <2>3, <3>1, <3>2, <3>3
                DEF ServeInv, SendingIsLocked, RefusalNeedsCancel, LossNeedsCancel
    <2>5. CASE CancelServer(l)
        <3>1. srv' = [srv EXCEPT ![l] = "cancelled"]
            BY <2>5 DEF CancelServer, Discard
        <3>2. MapIsCurrent'
            BY <1>0, <2>1, <3>1 DEF ServeInv, MapIsCurrent, TypeOK
        <3>3. srv'[l] = "cancelled" /\ \A m \in Listeners : srv[m] = "cancelled" => srv'[m] = "cancelled"
            BY <1>0, <3>1 DEF TypeOK
        <3> QED BY <1>0, <2>1, <2>2, <2>3, <3>2, <3>3
                DEF ServeInv, SendingIsLocked, RefusalNeedsCancel, LossNeedsCancel
    <2> QED BY <1>12, <2>4, <2>5
<1>13. CASE UNCHANGED vars
    BY <1>13, <1>a DEF vars
<1> QED
    BY <1>1, <1>2, <1>3, <1>4, <1>5, <1>6, <1>7, <1>8, <1>9, <1>10, <1>11, <1>12, <1>13
       DEF Next, ListenerTask, Serve

-----------------------------------------------------------------------------
(* What follows of every behaviour.                                        *)

\* The inductive invariant holds in every reachable state.
THEOREM Invariance == Spec => []IInv
<1>1. IInv /\ [Next]_vars => IInv'
    BY StepTypeOK, StepCallInv, StepServeInv DEF IInv
<1> QED BY <1>1, InitIInv, PTL DEF Spec

\* Every variable keeps its type, and no channel exceeds its capacity.
THEOREM TypeCorrect == Spec => []TypeOK
BY Invariance, PTL DEF IInv

\* A reply completes only the call whose offer it answers, unless two calls
\* drew one number.
THEOREM AnswersAreOwn == Spec => []AnswerIsOwn
<1>1. IInv => AnswerIsOwn BY DEF IInv, CallInv
<1> QED BY <1>1, Invariance, PTL

\* Of the calls that drew one number the last has the oneshot: nothing else
\* is registered under it, and it stays registered while the call waits.
THEOREM PendingsAreCurrent == Spec => []PendingIsCurrent
<1>1. IInv => PendingIsCurrent BY DEF IInv, CallInv
<1> QED BY <1>1, Invariance, PTL

\* A call fails only with the websocket or by a collision of numbers.
THEOREM FailuresHaveCause == Spec => []FailureHasCause
<1>1. IInv => FailureHasCause BY DEF IInv, CallInv
<1> QED BY <1>1, Invariance, PTL

\* The listener task panics on an offer only after a jude_server was
\* cancelled.
THEOREM RefusalsNeedCancel == Spec => []RefusalNeedsCancel
<1>1. IInv => RefusalNeedsCancel BY DEF IInv, ServeInv
<1> QED BY <1>1, Invariance, PTL

\* A replaced jude_server loses none of the offers queued for it.
THEOREM LossesNeedCancel == Spec => []LossNeedsCancel
<1>1. IInv => LossNeedsCancel BY DEF IInv, ServeInv
<1> QED BY <1>1, Invariance, PTL

-----------------------------------------------------------------------------
(* Offers between two servers.                                             *)

\* A running jude_server has a channel in the map for its peer, its own or
\* that of the run that replaced it.
ServingIsMapped ==
    \A l \in Listeners : srv[l] = "serving" => senders[IdOf[l]] # None

LEMMA StepServingIsMapped == IInv /\ ServingIsMapped /\ [Next]_vars => ServingIsMapped'
<1> SUFFICES ASSUME IInv, ServingIsMapped, [Next]_vars PROVE ServingIsMapped'
    OBVIOUS
<1>0. TypeOK BY DEF IInv
<1> USE DEF net, reader, dialing, serving
<1>a. ASSUME UNCHANGED senders, \A l \in Listeners : srv'[l] = "serving" => srv[l] = "serving"
      PROVE  ServingIsMapped'
    BY <1>a DEF ServingIsMapped
<1>1. CASE Environment \/ ListenerTask
    BY <1>1, <1>a DEF Environment, RemoteOffer, RemoteReply, RemoteGarbage, WsDown,
        ListenerTask, HandleReply, HandleOffer, SendToListener, SendRefused, ParseFails, Disconnected
<1>2. ASSUME NEW d \in Dials, WaitForResponse(d) \/ Call(d) PROVE ServingIsMapped'
    BY <1>2, <1>a DEF WaitForResponse, Call, SendOffer, SendOfferFails,
        OfferAnswered, OfferAbandoned
<1>3. ASSUME NEW l \in Listeners, Install(l) PROVE ServingIsMapped'
    <2>1. /\ senders' = [senders EXCEPT ![IdOf[l]] = l]
          /\ srv' = [srv EXCEPT ![l] = "serving"] /\ l # None /\ IdOf \in [Listeners -> Ids]
        BY <1>3, SessionAssumption DEF Install
    <2> QED BY <1>0, <2>1 DEF ServingIsMapped, TypeOK
<1>4. ASSUME NEW l \in Listeners, Register(l) \/ RegisterFails(l) PROVE ServingIsMapped'
    BY <1>0, <1>4, <1>a DEF Register, RegisterFails, TypeOK
<1>5. ASSUME NEW l \in Listeners, ReceiveOffer(l) \/ OfferHandled(l) PROVE ServingIsMapped'
    BY <1>5, <1>a DEF ReceiveOffer, OfferHandled
<1>6. ASSUME NEW l \in Listeners, ServerEnds(l) \/ CancelServer(l) PROVE ServingIsMapped'
    BY <1>0, <1>6, <1>a DEF ServerEnds, CancelServer, Discard, TypeOK
<1>7. CASE UNCHANGED vars
    BY <1>7, <1>a DEF vars
<1> QED BY <1>1, <1>2, <1>3, <1>4, <1>5, <1>6, <1>7 DEF Next, Serve

LEMMA UnclaimedNeedsEmptyMap ==
    ASSUME IInv, [Next]_vars, NEW o \in Offers,
           offer[o] = "arrived", offer'[o] = "unclaimed"
    PROVE  senders[To[o]] = None
<1>0. TypeOK BY DEF IInv
<1> USE DEF net, reader, dialing, serving
<1>1. CASE HandleOffer
    <2> DEFINE p == Head(inbox).offer
    <2>1. p \in Offers
        BY <1>0, <1>1, ReceiveTypes, PacketFields DEF HandleOffer, Receive
    <2>2. /\ senders[To[p]] = None => offer' = [offer EXCEPT ![p] = "unclaimed"]
          /\ senders[To[p]] # None => offer' = [offer EXCEPT ![p] = "held"]
        BY <1>1 DEF HandleOffer
    <2> QED BY <1>0, <2>1, <2>2 DEF TypeOK
<1>2. CASE Environment
    BY <1>0, <1>2 DEF Environment, RemoteOffer, RemoteReply, RemoteGarbage, WsDown, TypeOK
<1>3. CASE HandleReply \/ SendToListener \/ SendRefused \/ ParseFails \/ Disconnected
    BY <1>0, <1>3 DEF HandleReply, SendToListener, SendRefused, ParseFails, Disconnected, TypeOK
<1>4. ASSUME NEW d \in Dials, WaitForResponse(d) \/ Call(d) PROVE FALSE
    BY <1>4 DEF WaitForResponse, Call, SendOffer, SendOfferFails,
        OfferAnswered, OfferAbandoned
<1>5. ASSUME NEW l \in Listeners,
             \/ Register(l) \/ RegisterFails(l) \/ Install(l)
             \/ ReceiveOffer(l) \/ OfferHandled(l) \/ ServerEnds(l) \/ CancelServer(l)
      PROVE  FALSE
    BY <1>0, <1>5 DEF Register, RegisterFails, Install, ReceiveOffer, OfferHandled,
        ServerEnds, CancelServer, Discard, TypeOK
<1> QED BY <1>1, <1>2, <1>3, <1>4, <1>5 DEF Next, ListenerTask, Serve, vars

\* No offer to a peer is discarded as addressed to nobody while a jude_server
\* for that peer runs.
THEOREM NoOfferUnclaimed == Spec => NoOfferUnclaimedWhileServing
<1>1. Init => ServingIsMapped
    BY DEF Init, ServingIsMapped
<1>2. Spec => []ServingIsMapped
    BY <1>1, Invariance, StepServingIsMapped, PTL DEF Spec
<1> DEFINE Claimed ==
        \A o \in Offers : offer[o] = "arrived" /\ offer'[o] = "unclaimed" =>
            \A l \in Listeners : IdOf[l] = To[o] => srv[l] # "serving"
<1>3. IInv /\ ServingIsMapped /\ [Next]_vars => Claimed
    BY UnclaimedNeedsEmptyMap DEF ServingIsMapped
<1>4. IInv /\ ServingIsMapped /\ [Next]_vars => [Claimed]_vars
    BY <1>3
<1> QED BY <1>2, <1>4, Invariance, PTL DEF Spec, NoOfferUnclaimedWhileServing
=============================================================================
