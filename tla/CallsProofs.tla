----------------------------- MODULE CallsProofs -----------------------------
(***************************************************************************)
(* Module Session implements module Calls: the steps of the websocket, the *)
(* listener task, the servers and the remote peers appear to the callers   *)
(* of offer() as the steps of Calls, or not at all.                        *)
(***************************************************************************)
EXTENDS SessionProofs

-----------------------------------------------------------------------------
(* A reply is on its way or handed out at most once.                       *)

IsReplyTo(p, e) == p.type = "reply" /\ p.to = e

InFlight(e) == \E k \in 1..Len(inbox) : IsReplyTo(inbox[k], e)

Delivered(e) == \E c \in Dials : answer[c] = e

NotYetAnswered(e) == dial[e] \in {"idle", "waiting"} \/ e \in asked

\* An offer not sent, or sent and not answered, has no reply anywhere.
NoEarlyReply ==
    \A e \in Dials :
        /\ dial[e] \in {"idle", "waiting"} => e \notin asked
        /\ NotYetAnswered(e) => ~InFlight(e) /\ ~Delivered(e)
        /\ InFlight(e) => ~Delivered(e)

OneReplyInFlight ==
    \A e \in Dials : \A j, k \in 1..Len(inbox) :
        IsReplyTo(inbox[j], e) /\ IsReplyTo(inbox[k], e) => j = k

ReplyOnce == NoEarlyReply /\ OneReplyInFlight

\* One more packet, which is no second reply to anybody.
LEMMA OnceAppend ==
    ASSUME TypeOK, ReplyOnce, CanReceive, NEW p \in Packet, inbox' = Append(inbox, p),
           \A e \in Dials : IsReplyTo(p, e) => ~InFlight(e)
    PROVE  /\ OneReplyInFlight'
           /\ \A e \in Dials : InFlight(e)' => InFlight(e) \/ IsReplyTo(p, e)
<1>1. /\ Len(inbox') = Len(inbox) + 1 /\ Len(inbox) \in Nat
      /\ \A k \in 1..Len(inbox) : inbox'[k] = inbox[k]
      /\ inbox'[Len(inbox) + 1] = p
    BY AppendProperties, LenProperties DEF TypeOK
<1>2. \A k \in 1..Len(inbox') :
        \/ k \in 1..Len(inbox) /\ inbox'[k] = inbox[k]
        \/ k = Len(inbox) + 1 /\ inbox'[k] = p
    BY <1>1
<1>3. \A e \in Dials : InFlight(e)' => InFlight(e) \/ IsReplyTo(p, e)
    BY <1>2 DEF InFlight, IsReplyTo
<1>4. ASSUME NEW e \in Dials, NEW j \in 1..Len(inbox'), NEW k \in 1..Len(inbox'),
             IsReplyTo(inbox'[j], e), IsReplyTo(inbox'[k], e)
      PROVE  j = k
    <2>1. CASE IsReplyTo(p, e)
        <3>1. \A m \in 1..Len(inbox) : ~IsReplyTo(inbox[m], e)
            BY <2>1 DEF InFlight
        <3> QED BY <1>2, <1>4, <3>1
    <2>2. CASE ~IsReplyTo(p, e)
        <3>1. j \in 1..Len(inbox) /\ k \in 1..Len(inbox)
            BY <1>2, <1>4, <2>2
        <3> QED BY <1>1, <1>4, <3>1 DEF ReplyOnce, OneReplyInFlight
    <2> QED BY <2>1, <2>2
<1>5. OneReplyInFlight'
    BY <1>4 DEF OneReplyInFlight, IsReplyTo
<1> QED BY <1>3, <1>5

\* The listener task takes a packet: what it was a reply to is no longer in
\* flight.
LEMMA OnceTail ==
    ASSUME TypeOK, ReplyOnce, NEW type, Receive(type), inbox' = Tail(inbox)
    PROVE  /\ OneReplyInFlight'
           /\ \A e \in Dials : InFlight(e)' => InFlight(e) /\ ~IsReplyTo(Head(inbox), e)
<1>1. Len(inbox) \in Nat BY LenProperties DEF TypeOK
<1>2. ASSUME NEW k \in 1..Len(inbox')
      PROVE  /\ k + 1 \in 1..Len(inbox) /\ inbox'[k] = inbox[k + 1]
             /\ 1 \in 1..Len(inbox) /\ Head(inbox) = inbox[1] /\ k + 1 # 1
             /\ k \in Nat
    BY <1>1, ReceiveTypes
<1>3. ASSUME NEW e \in Dials, InFlight(e)'
      PROVE  InFlight(e) /\ ~IsReplyTo(Head(inbox), e)
    <2>1. PICK k \in 1..Len(inbox') : IsReplyTo(inbox'[k], e)
        BY <1>3 DEF InFlight, IsReplyTo
    <2>2. k + 1 \in 1..Len(inbox) /\ IsReplyTo(inbox[k + 1], e)
        BY <1>2, <2>1
    <2>3. ~IsReplyTo(inbox[1], e)
        BY <1>2, <2>1, <2>2 DEF ReplyOnce, OneReplyInFlight
    <2> QED BY <1>2, <2>2, <2>3 DEF InFlight
<1>4. ASSUME NEW e \in Dials, NEW j \in 1..Len(inbox'), NEW k \in 1..Len(inbox'),
             IsReplyTo(inbox'[j], e), IsReplyTo(inbox'[k], e)
      PROVE  j = k
    <2>1. j + 1 = k + 1
        BY <1>2, <1>4 DEF ReplyOnce, OneReplyInFlight
    <2> QED BY <1>2, <2>1
<1>5. OneReplyInFlight'
    BY <1>4 DEF OneReplyInFlight, IsReplyTo
<1> QED BY <1>3, <1>5

LEMMA InitReplyOnce == Init => ReplyOnce
<1> SUFFICES ASSUME Init PROVE ReplyOnce
    OBVIOUS
<1>1. Len(inbox) = 0 /\ \A k : k \notin 1..Len(inbox)
    BY EmptySeq DEF Init
<1> QED BY <1>1, SessionAssumption
        DEF Init, ReplyOnce, NoEarlyReply, OneReplyInFlight, NotYetAnswered, InFlight, Delivered

LEMMA StepReplyOnce == IInv /\ ReplyOnce /\ [Next]_vars => ReplyOnce'
<1> SUFFICES ASSUME IInv, ReplyOnce, [Next]_vars PROVE ReplyOnce'
    OBVIOUS
<1>0. TypeOK /\ CallInv BY DEF IInv
<1> USE DEF net, reader, dialing, serving
<1>a. ASSUME UNCHANGED <<dial, asked, answer>>, OneReplyInFlight',
             \A e \in Dials : InFlight(e)' => InFlight(e)
      PROVE  ReplyOnce'
    BY <1>a DEF ReplyOnce, NoEarlyReply, NotYetAnswered, Delivered
<1>b. ASSUME UNCHANGED inbox
      PROVE  OneReplyInFlight' /\ \A e \in Dials : InFlight(e)' <=> InFlight(e)
    BY <1>b DEF ReplyOnce, OneReplyInFlight, InFlight, IsReplyTo
<1>1. ASSUME NEW o \in Offers, RemoteOffer(o) PROVE ReplyOnce'
    <2> DEFINE p == [type |-> "offer", offer |-> o]
    <2>1. p \in Packet /\ \A e \in Dials : ~IsReplyTo(p, e)
        BY DEF Packet, OfferPacket, IsReplyTo
    <2>2. inbox' = Append(inbox, p) /\ CanReceive
        BY <1>1 DEF RemoteOffer
    <2> HIDE DEF p
    <2>3. OneReplyInFlight' /\ \A e \in Dials : InFlight(e)' => InFlight(e)
        BY <1>0, <2>1, <2>2, OnceAppend
    <2> QED BY <1>1, <1>a, <2>3 DEF RemoteOffer
<1>2. ASSUME NEW d \in Dials, RemoteReply(d) PROVE ReplyOnce'
    <2> DEFINE p == [type |-> "reply", number |-> number[d], to |-> d]
    <2>1. number[d] \in Number
        BY <1>0, <1>2 DEF RemoteReply, CallInv, NumberDrawn, TypeOK
    <2>2. p \in Packet /\ \A e \in Dials : IsReplyTo(p, e) <=> e = d
        BY <2>1 DEF Packet, ReplyPacket, IsReplyTo
    <2>3. /\ inbox' = Append(inbox, p) /\ CanReceive
          /\ d \in asked /\ asked' = asked \ {d} /\ UNCHANGED <<dial, answer>>
        BY <1>2 DEF RemoteReply
    <2> HIDE DEF p
    <2>4. ~InFlight(d) /\ ~Delivered(d) /\ dial[d] \notin {"idle", "waiting"}
        BY <2>3 DEF ReplyOnce, NoEarlyReply, NotYetAnswered
    <2>5. OneReplyInFlight' /\ \A e \in Dials : InFlight(e)' => InFlight(e) \/ e = d
        BY <1>0, <2>2, <2>3, <2>4, OnceAppend
    <2>6. \A e \in Dials : Delivered(e)' <=> Delivered(e)
        BY <2>3 DEF Delivered
    <2>7. NoEarlyReply'
        BY <2>3, <2>4, <2>5, <2>6 DEF ReplyOnce, NoEarlyReply, NotYetAnswered
    <2> QED BY <2>5, <2>7 DEF ReplyOnce
<1>3. CASE RemoteGarbage
    <2>1. Garbage \in Packet /\ \A e \in Dials : ~IsReplyTo(Garbage, e)
        BY DEF Packet, Garbage, IsReplyTo
    <2>2. OneReplyInFlight' /\ \A e \in Dials : InFlight(e)' => InFlight(e)
        BY <1>0, <1>3, <2>1, OnceAppend DEF RemoteGarbage
    <2> QED BY <1>3, <1>a, <2>2 DEF RemoteGarbage
<1>4. ASSUME NEW d \in Dials, WaitForResponse(d) \/ Call(d) PROVE ReplyOnce'
    <2>1. UNCHANGED <<inbox, answer>>
        BY <1>4 DEF WaitForResponse, Call, SendOffer, SendOfferFails, OfferAnswered, OfferAbandoned
    <2>2. \A e \in Dials : Delivered(e)' <=> Delivered(e)
        BY <2>1 DEF Delivered
    <2>3. \/ dial[d] = "waiting" /\ dial'[d] = "sent" /\ asked' = asked \cup {d}
          \/ dial[d] = "idle" /\ dial'[d] = "waiting" /\ asked' = asked
          \/ dial'[d] \in {"ok", "failed"} /\ asked' = asked
        BY <1>0, <1>4 DEF WaitForResponse, Call, SendOffer, SendOfferFails, OfferAnswered,
            OfferAbandoned, TypeOK
    <2>4. \A e \in Dials : e # d => dial'[e] = dial[e]
        BY <1>0, <1>4 DEF WaitForResponse, Call, SendOffer, SendOfferFails, OfferAnswered,
            OfferAbandoned, TypeOK
    <2>5. NoEarlyReply'
        BY <1>b, <2>1, <2>2, <2>3, <2>4 DEF ReplyOnce, NoEarlyReply, NotYetAnswered
    <2> QED BY <1>b, <2>1, <2>5 DEF ReplyOnce
<1>5. CASE HandleReply
    <2> DEFINE e == Head(inbox).to
    <2>1. /\ e \in Dials /\ IsReplyTo(Head(inbox), e)
          /\ InFlight(e)
        BY <1>0, <1>5, ReceiveTypes, PacketFields DEF HandleReply, Receive, InFlight, IsReplyTo
    <2>2. /\ OneReplyInFlight'
          /\ \A c \in Dials : InFlight(c)' => InFlight(c) /\ ~IsReplyTo(Head(inbox), c)
        BY <1>0, <1>5, OnceTail DEF HandleReply
    <2>3. /\ UNCHANGED <<dial, asked>>
          /\ \A c \in Dials : answer'[c] \in {answer[c], e}
        BY <1>0, <1>5 DEF HandleReply, TypeOK
    <2> HIDE DEF e
    <2>4. \A c \in Dials : Delivered(c)' => Delivered(c) \/ c = e
        BY <2>3 DEF Delivered
    <2>5. ~NotYetAnswered(e)
        BY <2>1 DEF ReplyOnce, NoEarlyReply
    <2>6. NoEarlyReply'
        BY <2>1, <2>2, <2>3, <2>4, <2>5 DEF ReplyOnce, NoEarlyReply, NotYetAnswered
    <2> QED BY <2>2, <2>6 DEF ReplyOnce
<1>6. CASE HandleOffer \/ ParseFails
    <2>1. OneReplyInFlight' /\ \A e \in Dials : InFlight(e)' => InFlight(e)
        BY <1>0, <1>6, OnceTail DEF HandleOffer, ParseFails
    <2> QED BY <1>6, <1>a, <2>1 DEF HandleOffer, ParseFails
<1>7. CASE WsDown \/ SendToListener \/ SendRefused \/ Disconnected
    BY <1>7, <1>a, <1>b DEF WsDown, SendToListener, SendRefused, Disconnected
<1>8. ASSUME NEW l \in Listeners,
             \/ Register(l) \/ RegisterFails(l) \/ Serve(l)
             \/ OfferHandled(l) \/ CancelServer(l)
      PROVE  ReplyOnce'
    BY <1>8, <1>a, <1>b DEF Register, RegisterFails, Serve, Install, ReceiveOffer,
        ServerEnds, OfferHandled, CancelServer, Discard
<1>9. CASE UNCHANGED vars
    BY <1>9, <1>a, <1>b DEF vars
<1> QED
    BY <1>1, <1>2, <1>3, <1>4, <1>5, <1>6, <1>7, <1>8, <1>9
       DEF Next, Environment, ListenerTask

-----------------------------------------------------------------------------
(* The refinement.                                                         *)

LEMMA InitCalls == Init => C!Init
<1> SUFFICES ASSUME Init PROVE C!Init
    OBVIOUS
<1>1. [d \in Dials |-> IF dial[d] \in {"waiting", "sent"} THEN "open" ELSE dial[d]]
        = [d \in Dials |-> "idle"]
    BY DEF Init
<1> QED BY <1>1 DEF Init, C!Init

LEMMA StepCalls == IInv /\ ReplyOnce /\ [Next]_vars => [C!Next]_(C!vars)
<1> SUFFICES ASSUME IInv, ReplyOnce, [Next]_vars PROVE [C!Next]_(C!vars)
    OBVIOUS
<1>0. TypeOK /\ CallInv BY DEF IInv
<1> USE DEF net, reader, dialing, serving
<1> DEFINE call == [d \in Dials |-> IF dial[d] \in {"waiting", "sent"} THEN "open" ELSE dial[d]]
<1>a. ASSUME UNCHANGED <<ws, dial, number, answer>> PROVE UNCHANGED C!vars
    BY <1>a DEF C!vars
<1>b. ASSUME NEW d \in Dials, NEW s, dial' = [dial EXCEPT ![d] = s]
      PROVE  call' = [call EXCEPT ![d] = IF s \in {"waiting", "sent"} THEN "open" ELSE s]
    BY <1>0, <1>b DEF TypeOK
<1>1. CASE RemoteGarbage \/ \E o \in Offers : RemoteOffer(o)
    BY <1>1, <1>a DEF RemoteGarbage, RemoteOffer
<1>2. CASE \E d \in Dials : RemoteReply(d)
    BY <1>2, <1>a DEF RemoteReply
<1>3. CASE WsDown
    <2>1. C!GoDown
        BY <1>3 DEF WsDown, C!GoDown
    <2> QED BY <2>1 DEF C!Next
<1>4. ASSUME NEW d \in Dials, WaitForResponse(d) PROVE C!Next
    <2>1. call[d] = "idle" /\ call' = [call EXCEPT ![d] = "open"]
        BY <1>4, <1>b DEF WaitForResponse
    <2>2. C!Begin(d)
        BY <1>4, <2>1 DEF WaitForResponse, C!Begin
    <2> QED BY <2>2 DEF C!Next
<1>5. ASSUME NEW d \in Dials, SendOffer(d) PROVE UNCHANGED C!vars
    <2>1. call[d] = "open" /\ call' = [call EXCEPT ![d] = "open"]
        BY <1>5, <1>b DEF SendOffer
    <2>2. call' = call
        BY <2>1
    <2> QED BY <1>5, <2>2 DEF SendOffer, C!vars
<1>6. ASSUME NEW d \in Dials, SendOfferFails(d) PROVE C!Next
    <2>1. call[d] = "open" /\ call' = [call EXCEPT ![d] = "failed"]
        BY <1>6, <1>b DEF SendOfferFails
    <2>2. C!Fail(d)
        BY <1>6, <2>1 DEF SendOfferFails, C!Fail
    <2> QED BY <2>2 DEF C!Next
<1>7. ASSUME NEW d \in Dials, OfferAnswered(d) PROVE C!Next
    <2>1. call[d] = "open" /\ call' = [call EXCEPT ![d] = "ok"]
        BY <1>7, <1>b DEF OfferAnswered
    <2>2. C!Return(d)
        BY <1>7, <2>1 DEF OfferAnswered, C!Return
    <2> QED BY <2>2 DEF C!Next
<1>8. ASSUME NEW d \in Dials, OfferAbandoned(d) PROVE C!Next
    <2>1. call[d] = "open" /\ call' = [call EXCEPT ![d] = "failed"]
        BY <1>8, <1>b DEF OfferAbandoned
    <2>2. answer[d] = None /\ C!Collides(d)
        BY <1>0, <1>8 DEF OfferAbandoned, CallInv, StillRegistered, Collides, C!Collides
    <2>3. C!Fail(d)
        BY <1>8, <2>1, <2>2 DEF OfferAbandoned, C!Fail
    <2> QED BY <2>3 DEF C!Next
<1>9. CASE HandleReply
    <2> DEFINE n == Head(inbox).number
               e == Head(inbox).to
               d == pending[n]
    <2>1. /\ n \in Number /\ e \in Dials /\ number[e] = n
          /\ InFlight(e)
        BY <1>0, <1>9, ReceiveTypes, PacketFields
            DEF HandleReply, Receive, CallInv, ReplyNumbered, InFlight, IsReplyTo
    <2>2. /\ answer' = IF d # None /\ dial[d] # "failed" THEN [answer EXCEPT ![d] = e] ELSE answer
          /\ UNCHANGED <<ws, dial, number>>
        BY <1>9 DEF HandleReply
    <2>3. CASE d # None /\ dial[d] # "failed"
        <3>1. d \in Dials /\ number[d] = n /\ answer[d] = None /\ dial[d] # "ok" /\ n # None
            BY <1>0, <2>1, <2>3, SessionAssumption DEF CallInv, PendingIsCurrent, TypeOK
        <3>2. dial[d] \in {"waiting", "sent"}
            BY <1>0, <2>3, <3>1 DEF CallInv, NumberDrawn, TypeOK
        <3>3. \A c \in Dials : answer[c] # e
            BY <2>1 DEF ReplyOnce, NoEarlyReply, Delivered
        <3> HIDE DEF n, e, d
        <3>4. call[d] = "open" /\ call' = call
            BY <2>2, <3>1, <3>2
        <3>5. C!Deliver(d, e)
            BY <2>1, <2>2, <2>3, <3>1, <3>3, <3>4 DEF C!Deliver
        <3> QED BY <2>1, <3>1, <3>5 DEF C!Next
    <2>4. CASE ~(d # None /\ dial[d] # "failed")
        BY <1>a, <2>2, <2>4
    <2> QED BY <2>3, <2>4
<1>10. CASE HandleOffer \/ SendToListener \/ SendRefused \/ ParseFails \/ Disconnected
    BY <1>10, <1>a DEF HandleOffer, SendToListener, SendRefused, ParseFails, Disconnected
<1>11. ASSUME NEW l \in Listeners,
              \/ Register(l) \/ RegisterFails(l) \/ Serve(l)
              \/ OfferHandled(l) \/ CancelServer(l)
       PROVE  UNCHANGED C!vars
    BY <1>11, <1>a DEF Register, RegisterFails, Serve, Install, ReceiveOffer,
        ServerEnds, OfferHandled, CancelServer, Discard
<1>12. CASE UNCHANGED vars
    BY <1>12, <1>a DEF vars
<1> QED
    BY <1>1, <1>2, <1>3, <1>4, <1>5, <1>6, <1>7, <1>8, <1>9, <1>10, <1>11, <1>12
       DEF Next, Environment, Call, ListenerTask

\* The callers of offer() see what module Calls promises them, however many
\* calls, servers and remote offers share the session.
THEOREM SessionImplementsCalls == Spec => ImplementsCalls
<1>1. Init => ReplyOnce BY InitReplyOnce
<1>2. IInv /\ ReplyOnce /\ [Next]_vars => ReplyOnce' BY StepReplyOnce
<1>3. Spec => []ReplyOnce
    BY <1>1, <1>2, Invariance, PTL DEF Spec
<1> QED BY <1>3, Invariance, InitCalls, StepCalls, PTL DEF Spec, ImplementsCalls, C!Spec
=============================================================================
