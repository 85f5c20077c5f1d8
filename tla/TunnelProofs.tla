---------------------------- MODULE TunnelProofs ----------------------------
(***************************************************************************)
(* Proofs about module Tunnel, for every number of chunks, buffer, window  *)
(* and mixture of the two proxies.                                         *)
(***************************************************************************)
EXTENDS Tunnel, TLAPS

-----------------------------------------------------------------------------
(* The inductive invariant.                                                *)

\* Chunks pass the stations in order: no station is ahead of the one before.
StationsOrdered ==
    \A s \in Side :
        /\ put[s] <= got[s]
        /\ got[s] <= wr[Other(s)]
        /\ wr[s] <= rd[s]
        /\ rd[s] <= sent[s]

\* Only the end of copy_to_noq ends its stream, and it finishes the stream
\* only with the whole of it written, or after a reset of its own socket.
FinIsComplete ==
    \A s \in Side :
        /\ toNoq[s] = "run" => stream[s] = "open"
        /\ stream[s] = "fin" =>
            appEnd[s] = "reset" \/ (appEnd[s] = "eof" /\ wr[s] = sent[s])

\* copy_from_noq returns Ok only on a finished stream, drained.
OkIsDrained ==
    \A s \in Side :
        fromNoq[s] = "ok" =>
            stream[Other(s)] = "fin" /\ put[s] = wr[Other(s)]

IInv == TypeOK /\ StationsOrdered /\ FinIsComplete /\ OkIsDrained

-----------------------------------------------------------------------------

LEMMA OtherSide ==
    \A s \in Side : Other(s) \in Side /\ Other(s) # s /\ Other(Other(s)) = s
BY DEF Side, Other

\* The type invariant is inductive by itself once the stations are ordered.
LEMMA InitIInv == Init => IInv
BY TunnelAssumption, OtherSide DEF Init, IInv, TypeOK, StationsOrdered, FinIsComplete, OkIsDrained

LEMMA StepIInv == IInv /\ [Next]_vars => IInv'
<1> SUFFICES ASSUME IInv, [Next]_vars PROVE IInv'
    OBVIOUS
<1> USE TunnelAssumption, OtherSide
        DEF IInv, TypeOK, StationsOrdered, FinIsComplete, OkIsDrained,
            apps, flow, quic, tasks
<1>1. ASSUME NEW s \in Side, App(s) PROVE IInv'
    <2>1. CASE AppSend(s) BY <2>1 DEF AppSend
    <2>2. CASE AppClose(s) BY <2>2 DEF AppClose
    <2>3. CASE AppReset(s) BY <2>3 DEF AppReset
    <2> QED BY <1>1, <2>1, <2>2, <2>3 DEF App
<1>2. ASSUME NEW s \in Side, CopyToNoq(s) PROVE IInv'
    <2>1. CASE TcpRead(s) BY <2>1 DEF TcpRead
    <2>2. CASE NoqWrite(s) BY <2>2 DEF NoqWrite
    <2>3. CASE TcpEof(s) BY <2>3 DEF TcpEof, Copied, EndStream
    <2>4. CASE TcpReadError(s)
        BY <2>4 DEF TcpReadError, DropStream, EndStream, ToNoqFails, CancelOnErr
    <2>5. CASE NoqWriteError(s)
        BY <2>5 DEF NoqWriteError, DropStream, EndStream, ToNoqFails, CancelOnErr
    <2> QED BY <1>2, <2>1, <2>2, <2>3, <2>4, <2>5 DEF CopyToNoq
<1>3. ASSUME NEW s \in Side, ToNoqCancelled(s) PROVE IInv'
    BY <1>3 DEF ToNoqCancelled, EndStream, ToNoqFails, CancelOnErr
<1>4. ASSUME NEW s \in Side, CopyFromNoq(s) PROVE IInv'
    <2>1. CASE NoqRead(s) BY <2>1 DEF NoqRead
    <2>2. CASE TcpWrite(s) BY <2>2 DEF TcpWrite
    <2>3. CASE NoqEnd(s) BY <2>3 DEF NoqEnd
    <2>4. CASE NoqReadError(s) BY <2>4 DEF NoqReadError, FromNoqFails, CancelOnErr
    <2>5. CASE TcpWriteError(s) BY <2>5 DEF TcpWriteError, FromNoqFails, CancelOnErr
    <2> QED BY <1>4, <2>1, <2>2, <2>3, <2>4, <2>5 DEF CopyFromNoq
<1>5. ASSUME NEW s \in Side, FromNoqCancelled(s) PROVE IInv'
    BY <1>5 DEF FromNoqCancelled, FromNoqFails, CancelOnErr
<1>6. ASSUME NEW s \in Side, Join(s) PROVE IInv'
    BY <1>6 DEF Join, JoinFromNoq, JoinToNoq
<1>7. ASSUME NEW s \in Side, CtrlC(s) \/ AppCancel(s) PROVE IInv'
    <2>1. CASE CtrlC(s) BY <2>1 DEF CtrlC
    <2>2. CASE AppCancel(s)
        <3>1. token' \in [Side -> BOOLEAN] /\ cancel' \in [Side -> BOOLEAN]
            BY <2>2, Zenon DEF AppCancel
        <3> QED BY <2>2, <3>1 DEF AppCancel
    <2> QED BY <1>7, <2>1, <2>2
<1>8. ASSUME NEW s \in Side, EndpointClose(s) \/ ConnDropped(s) PROVE IInv'
    BY <1>8 DEF EndpointClose, ConnDropped
<1>9. CASE HandlerCancelled BY <1>9 DEF HandlerCancelled, Side
<1>10. CASE ConnLost BY <1>10 DEF ConnLost
<1>11. CASE UNCHANGED vars BY <1>11 DEF vars
<1> QED
    BY <1>1, <1>2, <1>3, <1>4, <1>5, <1>6, <1>7, <1>8, <1>9, <1>10, <1>11 DEF Next

-----------------------------------------------------------------------------
(* What follows of every behaviour.                                        *)

\* The inductive invariant holds in every reachable state.
THEOREM Invariance == Spec => []IInv
BY InitIInv, StepIInv, PTL DEF Spec

\* Every variable keeps its type: in particular no station of the tunnel,
\* buffered or in flight, ever counts more than MaxSend chunks.
THEOREM TypeCorrect == Spec => []TypeOK
BY Invariance, PTL DEF IInv

\* A direction that copy_from_noq ends well has delivered the whole stream.
THEOREM CleanEndCorrect == Spec => []CleanEndIsComplete
<1>1. IInv => CleanEndIsComplete
    BY OtherSide DEF IInv, OkIsDrained, FinIsComplete, CleanEndIsComplete
<1> QED BY <1>1, Invariance, PTL

-----------------------------------------------------------------------------
(* Refinement: the tunnel is the two one-way streams of module Duplex.     *)

\* Init of the tunnel is Init of the two streams.
LEMMA DuplexInit == Init => D!Init
BY DEF Init, D!Init, DuplexOutcome

\* What every action of the tunnel that Duplex does not see leaves alone.
Unseen == UNCHANGED <<sent, appEnd, put, fromNoq>>

LEMMA UnseenStutters == Unseen => UNCHANGED D!vars
BY DEF Unseen, D!vars, DuplexOutcome

\* The end of copy_from_noq at s with an error aborts the stream towards s.
LEMMA FailAborts ==
    ASSUME IInv, NEW s \in Side, fromNoq[s] = "run", FromNoqFails(s)
    PROVE  D!Abort(s)
<1>1. DuplexOutcome[s] = "open"
    BY DEF DuplexOutcome
<1>2. DuplexOutcome' = [DuplexOutcome EXCEPT ![s] = "aborted"]
    BY DEF DuplexOutcome, FromNoqFails, IInv, TypeOK
<1>3. UNCHANGED <<sent, appEnd, put>>
    BY DEF FromNoqFails, apps, flow
<1> QED BY <1>1, <1>2, <1>3 DEF D!Abort

\* Every step of the tunnel is a step of one stream, or none of either.
LEMMA DuplexStep == IInv /\ [Next]_vars => [D!Next]_(D!vars)
<1> SUFFICES ASSUME IInv, [Next]_vars PROVE D!Next \/ UNCHANGED D!vars
    OBVIOUS
<1> USE OtherSide DEF apps, flow, quic, tasks
<1>1. ASSUME NEW s \in Side, App(s) PROVE D!Next
    <2>1. UNCHANGED DuplexOutcome
        BY <1>1 DEF App, AppSend, AppClose, AppReset, DuplexOutcome
    <2>2. CASE AppSend(s) BY <2>1, <2>2 DEF AppSend, D!Next, D!Send
    <2>3. CASE AppClose(s) BY <2>1, <2>3 DEF AppClose, D!Next, D!Close
    <2>4. CASE AppReset(s) BY <2>1, <2>4 DEF AppReset, D!Next, D!Reset
    <2> QED BY <1>1, <2>2, <2>3, <2>4 DEF App
<1>2. ASSUME NEW s \in Side, CopyToNoq(s) PROVE Unseen
    BY <1>2 DEF CopyToNoq, TcpRead, NoqWrite, TcpEof, TcpReadError,
                NoqWriteError, ToNoqFails, Unseen
<1>3. ASSUME NEW s \in Side, ToNoqCancelled(s) PROVE Unseen
    BY <1>3 DEF ToNoqCancelled, ToNoqFails, Unseen
<1>4. ASSUME NEW s \in Side, NoqRead(s) PROVE Unseen
    BY <1>4 DEF NoqRead, Unseen
<1>5. ASSUME NEW s \in Side, TcpWrite(s) PROVE D!Next
    <2>1. put[s] < sent[Other(s)]
        BY <1>5 DEF TcpWrite, IInv, TypeOK, StationsOrdered
    <2>2. DuplexOutcome[s] = "open" /\ UNCHANGED DuplexOutcome
        BY <1>5 DEF TcpWrite, DuplexOutcome
    <2>3. D!Deliver(Other(s), s)
        BY <1>5, <2>1, <2>2 DEF TcpWrite, D!Deliver
    <2> QED BY <2>3 DEF D!Next
<1>6. ASSUME NEW s \in Side, NoqEnd(s) PROVE D!Next
    <2>1. \/ appEnd[Other(s)] = "eof" /\ put[s] = sent[Other(s)]
          \/ appEnd[Other(s)] = "reset"
        BY <1>6 DEF NoqEnd, IInv, FinIsComplete
    <2>2. DuplexOutcome[s] = "open"
        BY <1>6 DEF NoqEnd, DuplexOutcome
    <2>3. DuplexOutcome' = [DuplexOutcome EXCEPT ![s] = "complete"]
        BY <1>6 DEF NoqEnd, DuplexOutcome, IInv, TypeOK
    <2>4. D!Complete(Other(s), s)
        BY <1>6, <2>1, <2>2, <2>3 DEF NoqEnd, D!Complete
    <2> QED BY <2>4 DEF D!Next
<1>7. ASSUME NEW s \in Side,
             NoqReadError(s) \/ TcpWriteError(s) \/ FromNoqCancelled(s)
      PROVE  D!Next
    <2>1. fromNoq[s] = "run" /\ FromNoqFails(s)
        BY <1>7 DEF NoqReadError, TcpWriteError, FromNoqCancelled
    <2> QED BY <2>1, FailAborts DEF D!Next
<1>8. ASSUME NEW s \in Side,
             Join(s) \/ CtrlC(s) \/ AppCancel(s) \/ EndpointClose(s) \/ ConnDropped(s)
      PROVE  Unseen
    BY <1>8 DEF Join, JoinFromNoq, JoinToNoq, CtrlC, AppCancel, EndpointClose,
                ConnDropped, Unseen
<1>9. CASE HandlerCancelled \/ ConnLost \/ UNCHANGED vars
    <2>1. Unseen BY <1>9 DEF HandlerCancelled, ConnLost, vars, Unseen
    <2> QED BY <2>1, UnseenStutters
<1> QED
    BY <1>1, <1>2, <1>3, <1>4, <1>5, <1>6, <1>7, <1>8, <1>9, UnseenStutters
        DEF Next, CopyFromNoq

\* forward_bidi on both sides, with every cancellation, failure and loss,
\* implements the two one-way streams.
THEOREM TunnelImplementsDuplex == Spec => ImplementsDuplex
<1>1. Spec => D!Init /\ [][D!Next]_(D!vars)
    BY Invariance, DuplexInit, DuplexStep, PTL DEF Spec
<1> QED BY <1>1 DEF ImplementsDuplex, D!Spec
=============================================================================
