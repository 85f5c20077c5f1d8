----------------------------- MODULE LinkProofs -----------------------------
(***************************************************************************)
(* Safety of module Link: the type invariant, that the Minecraft server is *)
(* connected to only for a channel that was opened at both ends, and what  *)
(* becomes of the tasks of proxy_traffic when nobody waits for them.       *)
(***************************************************************************)
EXTENDS Link, TLAPS

\* A listener past its reply has sent it, and so has whoever registered.
RepliedFirst ==
    /\ listener \in {"replied", "wait", "detach", "tcp", "proxy", "join"} => replied
    /\ waiter => replied

\* The callback only comes for a channel that was opened at the dialer.
AnnouncedOpen == announced # "no" => opened["dialer"]

\* The oneshot brought the channel.
Delivered ==
    listener \in {"detach", "tcp", "proxy", "join"} => announced = "delivered"

\* detach() found it opened.
Detached == listener \in {"tcp", "proxy", "join"} => opened["listener"]

\* The tasks belong to proxy_traffic: only Cancel drops one, and join! comes
\* after a task has ended and the other was told to.
TasksOfProxy ==
    /\ listener \notin {"proxy", "join", "over"} => \A t \in Task : task[t] = "none"
    /\ listener \in {"proxy", "join"} => \A t \in Task : task[t] # "dropped"
    /\ listener = "join" => token /\ \E t \in Task : ~Running(t)

IInv ==
    /\ TypeOK
    /\ RepliedFirst /\ AnnouncedOpen /\ Delivered /\ Detached
    /\ TasksOfProxy /\ LeftBehindIsCancelled

LEMMA InitIInv == Init => IInv
    BY DEF Init, IInv, TypeOK, RepliedFirst, AnnouncedOpen, Delivered, Detached,
           TasksOfProxy, LeftBehindIsCancelled, Running, Side, Task

LEMMA ConnectKeeps == ASSUME IInv, Connect \/ LetGo PROVE IInv'
<1> USE DEF IInv, TypeOK, RepliedFirst, AnnouncedOpen, Delivered, Detached,
            TasksOfProxy, LeftBehindIsCancelled, Running, signaling, channel, proxy, Side
<1>1. CASE Register BY <1>1 DEF Register
<1>2. CASE SendOffer BY <1>2 DEF SendOffer
<1>3. CASE TakeReply BY <1>3 DEF TakeReply
<1>4. CASE ConnectFails BY <1>4 DEF ConnectFails
<1>5. CASE Hook BY <1>5 DEF Hook
<1>6. CASE Ready BY <1>6 DEF Ready
<1>7. CASE LetGo BY <1>7 DEF LetGo
<1> QED BY <1>1, <1>2, <1>3, <1>4, <1>5, <1>6, <1>7 DEF Connect

\* Nothing of accept() or handle_offer leaves the order of its awaits.
LEMMA AcceptKeeps == ASSUME IInv, Accept PROVE IInv'
<1> USE DEF IInv, TypeOK, RepliedFirst, AnnouncedOpen, Delivered, Detached,
            TasksOfProxy, LeftBehindIsCancelled, Running, signaling, channel, proxy, Side
<1>1. CASE TakeOffer BY <1>1 DEF TakeOffer
<1>2. CASE SendReply BY <1>2 DEF SendReply
<1>3. CASE AcceptFails BY <1>3 DEF AcceptFails
<1>4. CASE Wait BY <1>4 DEF Wait
<1>5. CASE Accepted BY <1>5 DEF Accepted
<1>6. CASE Detach BY <1>6 DEF Detach
<1>7. CASE TcpConnect BY <1>7 DEF TcpConnect, Task
<1>8. CASE TcpConnectFails BY <1>8 DEF TcpConnectFails
<1>9. CASE Select BY <1>9 DEF Select
<1>10. CASE JoinPanics
    <2>1. TypeOK' /\ (RepliedFirst /\ AnnouncedOpen /\ Delivered /\ Detached)'
        BY <1>10 DEF JoinPanics
    <2>2. TasksOfProxy'
        BY <1>10 DEF JoinPanics
    <2>3. LeftBehindIsCancelled'
        <3>1. token /\ \E t \in Task : task[t] \in {"ok", "err"}
            BY <1>10 DEF JoinPanics
        <3>2. token' = token /\ task' = task
            BY <1>10 DEF JoinPanics
        <3>3. \A t, u \in Task : u # t => Task \ {t} = {u}
            BY DEF Task
        <3> QED BY <3>1, <3>2, <3>3
    <2> QED BY <2>1, <2>2, <2>3
<1> QED BY <1>1, <1>2, <1>3, <1>4, <1>5, <1>6, <1>7, <1>8, <1>9, <1>10 DEF Accept

\* A task goes from one phase to another, and touches nothing else.
LEMMA GoesKeeps ==
    ASSUME IInv, NEW t \in Task, NEW from \in {"run", "body"},
           NEW to \in {"run", "body", "ok", "err"}, Goes(t, from, to)
    PROVE  IInv'
<1> USE DEF IInv, TypeOK, Goes, signaling, channel
<1>1. TypeOK' OBVIOUS
<1>2. (RepliedFirst /\ AnnouncedOpen /\ Delivered /\ Detached)'
    BY DEF RepliedFirst, AnnouncedOpen, Delivered, Detached
<1>3. Running(t)
    BY DEF Running
<1>4. \A u \in Task : u # t => task'[u] = task[u]
    OBVIOUS
<1>5. \A u \in Task : Running(u)' => Running(u)
    BY <1>3, <1>4 DEF Running
<1>6. TasksOfProxy'
    BY <1>3, <1>4, <1>5 DEF TasksOfProxy
<1>7. LeftBehindIsCancelled'
    BY <1>3, <1>4, <1>5 DEF LeftBehindIsCancelled, Running
<1> QED BY <1>1, <1>2, <1>6, <1>7

LEMMA TasksKeep == ASSUME IInv, ReadTask \/ WriteTask PROVE IInv'
<1>1. CASE ReadTask
    <2> "read" \in Task BY DEF Task
    <2> QED BY <1>1, GoesKeeps DEF ReadTask, ReadData, Written, ReadFails,
                                   TcpWriteFails, ReadCancelled
<1>2. CASE WriteTask
    <2>1. "write" \in Task BY DEF Task
    <2>2. CASE WriteWaits \/ Drained
        BY <2>1, <2>2, GoesKeeps DEF WriteWaits, Drained
    <2>3. CASE WriteFails
        BY <2>1, <2>3, GoesKeeps DEF WriteFails
    <2>4. CASE TcpEof \/ TcpReadFails \/ WriteCancelled
        BY <2>1, <2>4, GoesKeeps DEF TcpEof, TcpReadFails, WriteCancelled
    <2> QED BY <1>2, <2>2, <2>3, <2>4 DEF WriteTask
<1> QED BY <1>1, <1>2

\* Whatever the runtime drops, nothing is connected or runs afterwards.
LEMMA CancelKeeps == ASSUME IInv, Cancel PROVE IInv'
<1> USE DEF IInv, TypeOK, Cancel, signaling, channel
<1>1. TypeOK' BY DEF Side
<1>2. (RepliedFirst /\ AnnouncedOpen /\ Delivered /\ Detached)'
    BY DEF RepliedFirst, AnnouncedOpen, Delivered, Detached
<1>3. (TasksOfProxy /\ LeftBehindIsCancelled)'
    BY DEF TasksOfProxy, LeftBehindIsCancelled, Running
<1> QED BY <1>1, <1>2, <1>3

\* What the two connections do by themselves comes in an order of its own:
\* the channel opens at the dialer before the listener hears of it.
LEMMA WebrtcKeeps ==
    ASSUME IInv, Webrtc \/ MinecraftEnds \/ \E s \in Side : Drop(s) \/ PcFails(s)
    PROVE  IInv'
<1> USE DEF IInv, TypeOK, RepliedFirst, AnnouncedOpen, Delivered, Detached,
            TasksOfProxy, LeftBehindIsCancelled, Running, signaling, channel, proxy
<1>1. CASE LinkUp BY <1>1 DEF LinkUp
<1>2. CASE ChannelOpens BY <1>2 DEF ChannelOpens, Side
<1>3. CASE OnDataChannel
    <2> USE <1>3 DEF OnDataChannel, Side
    <2>1. announced' \in {"delivered", "missed"} /\ ~waiter' OBVIOUS
    <2>2. TypeOK' BY <2>1
    <2>3. (RepliedFirst /\ AnnouncedOpen /\ Delivered /\ Detached)' BY <2>1
    <2>4. (TasksOfProxy /\ LeftBehindIsCancelled)' OBVIOUS
    <2> QED BY <2>2, <2>3, <2>4
<1>4. CASE OpensForListener BY <1>4 DEF OpensForListener, Side
<1>5. CASE MinecraftEnds BY <1>5 DEF MinecraftEnds
<1>6. ASSUME NEW s \in Side, Drop(s) PROVE IInv' BY <1>6 DEF Drop
<1>7. ASSUME NEW s \in Side, PcFails(s) PROVE IInv' BY <1>7 DEF PcFails
<1> QED BY <1>1, <1>2, <1>3, <1>4, <1>5, <1>6, <1>7 DEF Webrtc

LEMMA StepIInv == IInv /\ [Next]_vars => IInv'
<1> SUFFICES ASSUME IInv, [Next]_vars PROVE IInv'
    OBVIOUS
<1>1. CASE Next
    BY <1>1, ConnectKeeps, AcceptKeeps, CancelKeeps, TasksKeep, WebrtcKeeps DEF Next
<1>2. CASE UNCHANGED vars
    BY <1>2 DEF vars, signaling, channel, proxy, IInv, TypeOK, RepliedFirst,
               AnnouncedOpen, Delivered, Detached, TasksOfProxy,
               LeftBehindIsCancelled, Running
<1> QED BY <1>1, <1>2

THEOREM Invariant == Spec => []IInv
<1>1. Init => IInv BY InitIInv
<1>2. IInv /\ [Next]_vars => IInv' BY StepIInv
<1> QED BY <1>1, <1>2, PTL DEF Spec

\* Every variable stays in its type, and a listener at work has been offered
\* something: src/core/p2p/peer_connection.rs:98-156.
THEOREM TypeCorrect == Spec => []TypeOK
<1>1. IInv => TypeOK BY DEF IInv
<1> QED BY <1>1, Invariant, PTL

\* handle_offer connects to Minecraft only after its reply, for a channel that
\* was delivered to it and was opened at both ends, one of which may have closed
\* it since: src/core/proxies/server.rs:43-47.
THEOREM ConnectsOnlyForOpenedChannels == Spec => []ConnectsForOpenedChannel
<1>1. IInv => ConnectsForOpenedChannel
    BY DEF IInv, RepliedFirst, AnnouncedOpen, Delivered, Detached,
           ConnectsForOpenedChannel, Side
<1> QED BY <1>1, Invariant, PTL

\* Whatever handle_offer leaves behind of proxy_traffic is the one task that
\* did not end first, and its token is cancelled: src/util/proxy_traffic.rs:57-66.
THEOREM LeftBehindsAreCancelled == Spec => []LeftBehindIsCancelled
<1>1. IInv => LeftBehindIsCancelled BY DEF IInv
<1> QED BY <1>1, Invariant, PTL
=============================================================================
