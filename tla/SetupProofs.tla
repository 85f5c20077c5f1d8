---------------------------- MODULE SetupProofs -----------------------------
(***************************************************************************)
(* Proofs about Setup, for any handshakes, however TCP cuts them, and any  *)
(* reasons.  Of the codec the proofs use what HandshakeProofs shows of it: *)
(* what the parser makes of the first bytes of a handshake, however many,  *)
(* and what the login disconnect is made of.                               *)
(*                                                                         *)
(* StreamIsMinecrafts relates the server's handler to what the client's    *)
(* handler did before, ParsedIsSent and ToldIsFramed relate what it read   *)
(* and wrote to what was sent, and LoginIsAnswered speaks of a handler     *)
(* that is over: IInv says what is true on the way.                        *)
(***************************************************************************)
EXTENDS Setup, HandshakeProofs

\* Nothing is read before the peek, nothing is taken out of the socket before
\* a refusal, nothing is told before the end.
InOrder ==
    /\ phase \in {"backlog", "parse"} => info.outcome = "none"
    /\ phase \notin {"tell", "closed"} => consumed = 0
    /\ phase # "closed" => told = 0 /\ unread = FALSE

\* A greeting is the handler's last step before it forwards.
GreetedLast ==
    /\ phase = "forward" => greeting # "unsent"
    /\ greeting # "unsent" =>
        /\ phase \in {"forward", "closed"}
        /\ info.outcome = "ok"
        /\ consumed = 0 /\ told = 0
    /\ srv = "hello" => greeting # "unsent"

\* There is one peek, and all that is understood comes from it.
PeeksOnce ==
    /\ phase \in {"backlog", "parse"} => peeked = 0
    /\ peeked > 0 => info = Understood[hello][peeked]
    /\ info.outcome = "ok" => peeked > 0

\* Only a login is told, and only behind the bytes it announced, or behind
\* all it sent before it left.
TellIsLogin ==
    phase = "tell" \/ told # 0 =>
        /\ info.outcome = "ok" /\ info.next = 2
        /\ \/ consumed = info.len
           \/ mc = "gone" /\ consumed = arrived /\ ~(arrived >= info.len)

\* Only p2p_pipe.rs has a way to refuse.
RefusalIsP2p == phase \in {"refuse", "tell"} => "client" \notin dumbpipe

IInv ==
    /\ TypeOK
    /\ InOrder
    /\ GreetedLast
    /\ PeeksOnce
    /\ TellIsLogin
    /\ RefusalIsP2p
    /\ LoginIsAnswered
    /\ StreamIsMinecrafts

USE SetupAssumption, PeekAssumption

\* The parser ends in one of its outcomes, whatever is in the buffer.
LEMMA ParseOutcome ==
    ASSUME NEW buf
    PROVE  ParseHandshake(buf).outcome \in {"ok", "failed", "panic"}
BY DEF ParseHandshake, Failed, Panicked

\* The stream is one of bytes, and what has arrived is a part of it.
LEMMA StreamIs ==
    ASSUME TypeOK
    PROVE  /\ Len(Stream[hello]) \in Nat
           /\ DOMAIN Stream[hello] = 1..Len(Stream[hello])
           /\ arrived \in 0..Len(Stream[hello])
<1> DEFINE s == Packet[hello] \o <<1, 0>>
<1>1. Packet[hello] = WireHandshake(hello) /\ Stream[hello] = s
  BY DEF Packet, Stream, TypeOK
<1>2. IsHandshake(hello) BY HelloAssumption DEF TypeOK
<1>3. Packet[hello] \in Seq(Byte) BY <1>1, <1>2, Parts
<1>4. <<1, 0>> \in Seq(Byte) BY SMT DEF Byte
<1>5. s \in Seq(Byte) BY <1>3, <1>4, ConcatType
<1> HIDE DEF s
<1>6. Len(s) \in Nat /\ DOMAIN s = 1..Len(s) BY <1>5, LenProperties
<1>7. arrived \in {0} \cup 1..Len(s) BY <1>1, <1>6 DEF TypeOK
<1>8. arrived \in 0..Len(s) BY <1>6, <1>7, SMT
<1> QED BY <1>1, <1>6, <1>8

\* A peek returns a part of what has arrived.
LEMMA PeekableIs ==
    ASSUME TypeOK, arrived > 0
    PROVE  Peekable \in DOMAIN Stream[hello] /\ Peekable > 0
<1> DEFINE l == Len(Stream[hello])
<1>1. l \in Nat /\ DOMAIN Stream[hello] = 1..l /\ arrived \in 0..l
  BY StreamIs
<1> HIDE DEF l
<1>2. Peekable \in 1..l /\ Peekable > 0 BY <1>1, SMT DEF Peekable
<1> QED BY <1>1, <1>2

\* The same of the table Setup keeps.
LEMMA UnderstoodOutcome ==
    ASSUME NEW h \in Hellos, NEW n \in DOMAIN Stream[h]
    PROVE  Understood[h][n].outcome \in {"ok", "failed", "panic"}
<1>1. Understood[h][n] = ParseHandshake(SubSeq(Stream[h], 1, n))
  BY DEF Understood
<1> QED BY <1>1, ParseOutcome

Loops == {"listening", "ended", "broke"}

\* Where a step of an accept loop leaves the two of them.
LEMMA LoopType ==
    ASSUME TypeOK, NEW s \in Side, NEW l \in Loops, loop' = [loop EXCEPT ![s] = l]
    PROVE  loop' \in [Side -> Loops]
BY DEF TypeOK, Loops

\* The first state satisfies the invariant.
LEMMA InitIInv == Init => IInv
<1> SUFFICES ASSUME Init PROVE IInv
  OBVIOUS
<1>1. cancel \in [Side -> BOOLEAN] /\ loop \in [Side -> Loops]
  BY DEF Init, Loops
<1>2. TypeOK
  BY <1>1 DEF Init, TypeOK, Loops, Phases, Outcomes
<1> QED
  BY <1>2 DEF Init, IInv, InOrder, GreetedLast, PeeksOnce, TellIsLogin, RefusalIsP2p,
              LoginIsAnswered, StreamIsMinecrafts

\* Every step of the environment keeps it.
LEMMA EnvironmentKeepsIInv == IInv /\ Environment => IInv'
<1> SUFFICES ASSUME IInv, Environment PROVE IInv'
  OBVIOUS
<1> USE DEF IInv, TypeOK, InOrder, GreetedLast, PeeksOnce, TellIsLogin, RefusalIsP2p,
        LoginIsAnswered, StreamIsMinecrafts, parsing, telling, quic, minecraft
<1>1. CASE Arrive BY <1>1 DEF Arrive
<1>2. CASE McLeaves BY <1>2 DEF McLeaves
<1>3. CASE ConnLost BY <1>3 DEF ConnLost
<1>4. ASSUME NEW s \in Side, AppCancel(s) PROVE IInv'
  BY <1>4 DEF AppCancel, Side
<1> QED BY <1>1, <1>2, <1>3, <1>4 DEF Environment

\* Every step of the client's loop and handler keeps it.
LEMMA ClientKeepsIInv ==
    IInv /\ (Accept \/ StopListening \/ ClientHandler \/ HandlerCancelled
                \/ ForwardEnds)
        => IInv'
<1> SUFFICES ASSUME IInv, Accept \/ StopListening \/ ClientHandler
                              \/ HandlerCancelled \/ ForwardEnds
             PROVE  IInv'
  OBVIOUS
<1> USE DEF IInv, TypeOK, InOrder, GreetedLast, PeeksOnce, TellIsLogin, RefusalIsP2p,
        LoginIsAnswered, StreamIsMinecrafts, parsing, telling, quic, minecraft,
        Phases, Outcomes, Closed
<1>1. CASE Accept BY <1>1 DEF Accept
<1>2. CASE StopListening
  <2>1. loop' \in [Side -> Loops]
    BY <1>2, LoopType DEF StopListening, Loops, Side
  <2> QED BY <1>2, <2>1 DEF StopListening, Loops
<1>3. CASE Peek
  <2>1. Peekable \in DOMAIN Stream[hello] /\ Peekable > 0
    BY <1>3, PeekableIs DEF Peek
  <2>2. info'.outcome \in {"ok", "failed", "panic"}
    BY <1>3, <2>1, UnderstoodOutcome DEF Peek
  <2> QED BY <1>3, <2>1, <2>2 DEF Peek
<1>4. CASE NoHandshake BY <1>4 DEF NoHandshake, Failed
<1>5. CASE Lookup BY <1>5 DEF Lookup
<1>6. CASE LookupFails BY <1>6 DEF LookupFails, GiveUp
<1>7. CASE Dial BY <1>7 DEF Dial
<1>8. CASE Connected BY <1>8 DEF Connected
<1>9. CASE DialFails BY <1>9 DEF DialFails
<1>10. CASE OpenBi BY <1>10 DEF OpenBi
<1>11. CASE Greet BY <1>11 DEF Greet
<1>12. CASE StreamFails BY <1>12 DEF StreamFails, GiveUp
<1>13. CASE Discard BY <1>13 DEF Discard, SentOf
<1>14. CASE Tell BY <1>14 DEF Tell
<1>15. CASE TellFails BY <1>15 DEF TellFails
<1>16. CASE ShutDown BY <1>16 DEF ShutDown
<1>17. CASE HandlerCancelled BY <1>17 DEF HandlerCancelled
<1>18. CASE ForwardEnds BY <1>18 DEF ForwardEnds
<1> QED
  BY <1>1, <1>2, <1>3, <1>4, <1>5, <1>6, <1>7, <1>8, <1>9, <1>10, <1>11, <1>12,
     <1>13, <1>14, <1>15, <1>16, <1>17, <1>18 DEF ClientHandler

\* Every step of the server's loop and handler keeps it.
LEMMA ServerKeepsIInv ==
    IInv /\ (TakeIncoming \/ LoopBreaks \/ StopServing \/ ServerHandler \/ ServerEnds)
        => IInv'
<1> SUFFICES ASSUME IInv, TakeIncoming \/ LoopBreaks \/ StopServing
                              \/ ServerHandler \/ ServerEnds
             PROVE  IInv'
  OBVIOUS
<1> USE DEF IInv, TypeOK, InOrder, GreetedLast, PeeksOnce, TellIsLogin, RefusalIsP2p,
        LoginIsAnswered, StreamIsMinecrafts, parsing, telling, quic, minecraft,
        Closed
<1>1. CASE TakeIncoming BY <1>1 DEF TakeIncoming
<1>2. CASE LoopBreaks
  <2>1. loop' \in [Side -> Loops]
    BY <1>2, LoopType DEF LoopBreaks, Loops, Side
  <2> QED BY <1>2, <2>1 DEF LoopBreaks, Loops
<1>3. CASE StopServing
  <2>1. loop' \in [Side -> Loops]
    BY <1>3, LoopType DEF StopServing, Loops, Side
  <2> QED BY <1>3, <2>1 DEF StopServing, Loops
<1>4. CASE AcceptBi BY <1>4 DEF AcceptBi
<1>5. CASE ReadHello BY <1>5 DEF ReadHello
<1>6. CASE AcceptFails BY <1>6 DEF AcceptFails
<1>7. CASE TcpConnect BY <1>7 DEF TcpConnect
<1>8. CASE ServerEnds BY <1>8 DEF ServerEnds
<1> QED
  BY <1>1, <1>2, <1>3, <1>4, <1>5, <1>6, <1>7, <1>8 DEF ServerHandler

\* So does doing nothing.
LEMMA StutterKeepsIInv == IInv /\ UNCHANGED vars => IInv'
BY DEF vars, IInv, TypeOK, InOrder, GreetedLast, PeeksOnce, TellIsLogin, RefusalIsP2p,
       LoginIsAnswered, StreamIsMinecrafts, parsing, telling, quic, minecraft

\* The invariant holds in every reachable state.
THEOREM Invariant == Spec => []IInv
<1>1. IInv /\ [Next]_vars => IInv'
  BY EnvironmentKeepsIInv, ClientKeepsIInv, ServerKeepsIInv, StutterKeepsIInv
     DEF Next
<1> QED BY <1>1, InitIInv, PTL DEF Spec

\* The types, and how far the connection is in each phase of the handlers.
THEOREM TypeCorrect == Spec => []TypeOK
<1>1. IInv => TypeOK BY DEF IInv
<1> QED BY <1>1, Invariant, PTL

\* disconnect! in src/p2p_pipe.rs: no login that was understood ends in
\* silence, whatever fails and whenever.
THEOREM LoginsAreAnswered == Spec => []LoginIsAnswered
<1>1. IInv => LoginIsAnswered BY DEF IInv
<1> QED BY <1>1, Invariant, PTL

\* The Minecraft server is connected to only for a stream that starts with
\* the first byte of the Minecraft client.
THEOREM StreamsAreMinecrafts == Spec => []StreamIsMinecrafts
<1>1. IInv => StreamIsMinecrafts BY DEF IInv
<1> QED BY <1>1, Invariant, PTL

\* The table Setup keeps, by the parser's theorem: the whole handshake is
\* understood, a part of it never, and the panic is at the port.
LEMMA UnderstoodIs ==
    ASSUME NEW h \in Hellos, NEW n \in DOMAIN Stream[h]
    PROVE  Understood[h][n] =
               IF n >= Len(Packet[h]) THEN Meaning(h)
               ELSE IF n - PortAt(h) \in {0, 1} THEN Panicked ELSE Failed
<1> DEFINE s == Packet[h] \o <<1, 0>>
<1>1. Packet[h] = WireHandshake(h) /\ Stream[h] = s
  BY DEF Packet, Stream
<1>2. IsHandshake(h) BY HelloAssumption
<1>3. Packet[h] \in Seq(Byte) BY <1>1, <1>2, Parts
<1>4. <<1, 0>> \in Seq(Byte) BY SMT DEF Byte
<1>5. s \in Seq(Byte) BY <1>3, <1>4, ConcatType
<1>6. Holds(s, 0, WireHandshake(h)) BY <1>1, <1>3, <1>4, ConcatHolds
<1> HIDE DEF s
<1>7. n \in 0..Len(s)
  <2>1. Len(s) \in Nat /\ DOMAIN s = 1..Len(s) BY <1>5, LenProperties
  <2> QED BY <1>1, <2>1, SMT
<1>8. Understood[h][n] = ParseHandshake(SubSeq(s, 1, n))
  BY <1>1 DEF Understood
<1>9. Understood[h][n] =
        IF Len(Packet[h]) <= n THEN Meaning(h)
        ELSE IF n = WirePortAt(h) \/ n = WirePortAt(h) + 1 THEN Panicked ELSE Failed
  BY <1>1, <1>2, <1>5, <1>6, <1>7, <1>8, ParseIsExact
<1>10. n \in Nat
  <2>1. Len(s) \in Nat BY <1>5, LenProperties
  <2> QED BY <1>7, <2>1, SMT
<1>11. PortAt(h) = WirePortAt(h) /\ WirePortAt(h) \in Nat /\ Len(Packet[h]) \in Nat
  <2> DEFINE p == Len(Packet[h])
             c == WireLen(h.next)
             l == Len(WireVarInt(h.next))
  <2>1. p = WirePortAt(h) + 2 + c /\ WirePortAt(h) \in Nat /\ p \in Nat
    BY <1>1, <1>2, Positions
  <2>2. PortAt(h) = p - 2 - l BY DEF PortAt
  <2>3. l = c BY <1>2, Parts
  <2>4. c \in 1..5 BY WireLenDef
  <2> HIDE DEF p, c, l
  <2>5. PortAt(h) = WirePortAt(h) BY <2>1, <2>2, <2>3, <2>4, SMT
  <2> QED BY <2>1, <2>5 DEF p
<1>12. (Len(Packet[h]) <= n <=> n >= Len(Packet[h]))
         /\ (n - PortAt(h) \in {0, 1} <=> n = WirePortAt(h) \/ n = WirePortAt(h) + 1)
  <2> DEFINE p == Len(Packet[h])
  <2>1. p \in Nat BY <1>11
  <2> HIDE DEF p
  <2>2. p <= n <=> n >= p BY <1>10, <2>1, SMT
  <2>3. n - WirePortAt(h) \in {0, 1} <=> n = WirePortAt(h) \/ n = WirePortAt(h) + 1
    BY <1>10, <1>11, SMT
  <2> QED BY <1>11, <2>2, <2>3 DEF p
<1> QED BY <1>9, <1>12, Zenon

\* The client proxy reads what was sent, or nothing: decode_varint and
\* parse_handshake_buf of src/util/parse_server.rs, for every handshake with a
\* plain address (HelloAssumption), any size of the peek's buffer and wherever
\* TCP cuts the stream.
THEOREM ParsedsAreSent == Spec => []ParsedIsSent
<1>1. IInv => ParsedIsSent
  <2> SUFFICES ASSUME IInv, info.outcome # "none", peeked > 0 PROVE ParsedIsSent
    BY DEF ParsedIsSent
  <2>1. hello \in Hellos /\ peeked \in DOMAIN Stream[hello]
    <3>1. peeked # 0 BY SMT
    <3> QED BY <3>1 DEF IInv, TypeOK
  <2>2. info = Understood[hello][peeked] BY DEF IInv, PeeksOnce
  <2>3. info = IF peeked >= Len(Packet[hello]) THEN Meaning(hello)
               ELSE IF peeked - PortAt(hello) \in {0, 1} THEN Panicked ELSE Failed
    BY <2>1, <2>2, UnderstoodIs
  <2>4. Packet[hello] = WireHandshake(hello) BY <2>1 DEF Packet
  <2> QED BY <2>3, <2>4, Zenon DEF ParsedIsSent, Meaning, Announced, Panicked, Failed
<1> QED BY <1>1, Invariant, PTL

\* A reason goes to a client that is logging in, behind exactly the bytes its
\* handshake announced and in a packet of the lengths it says: build_login_disconnect and
\* encode_varint of src/util/mc_disconnect.rs, for every reason.
THEOREM ToldsAreFramed == Spec => []ToldIsFramed
<1>1. IInv => ToldIsFramed
  <2> SUFFICES ASSUME IInv, told # 0 PROVE ToldIsFramed
    BY DEF ToldIsFramed
  <2>1. /\ info.outcome = "ok" /\ info.next = 2 /\ peeked > 0
        /\ \/ consumed = info.len
           \/ mc = "gone" /\ consumed = arrived /\ ~(arrived >= info.len)
    BY DEF IInv, TellIsLogin, PeeksOnce
  <2>2. hello \in Hellos /\ peeked \in DOMAIN Stream[hello]
    <3>1. peeked # 0 BY <2>1, SMT
    <3> QED BY <3>1 DEF IInv, TypeOK
  <2>3. info = Understood[hello][peeked] BY <2>1 DEF IInv, PeeksOnce
  <2>4. info = Meaning(hello)
    <3>1. Panicked.outcome # "ok" /\ Failed.outcome # "ok" BY DEF Panicked, Failed
    <3> QED BY <2>1, <2>2, <2>3, <3>1, UnderstoodIs
  <2>5. info.next = hello.next /\ info.len = Announced(hello)
    BY <2>2, <2>4 DEF Meaning, Announced, Packet
  <2>6. Announced(hello) \in Int /\ arrived \in Int
    <3>1. IsHandshake(hello) BY <2>2, HelloAssumption
    <3>2. Announced(hello) \in Int
      BY <2>2, <3>1 DEF Announced, Packet, IsHandshake, I32
    <3>3. arrived \in Int
      <4> DEFINE l == Len(Stream[hello])
      <4>1. l \in Nat /\ arrived \in 0..l BY StreamIs DEF IInv
      <4> HIDE DEF l
      <4> QED BY <4>1, SMT
    <3> QED BY <3>2, <3>3
  <2> DEFINE a == Announced(hello)
  <2> HIDE DEF a
  <2>7. /\ hello.next = 2
        /\ \/ consumed = a
           \/ mc = "gone" /\ consumed = arrived /\ arrived < a
    BY <2>1, <2>5, <2>6, SMT DEF a
  <2>8. told \in Nat /\ told + 6 \in I32 BY DEF IInv, TypeOK
  <2> QED BY <2>7, <2>8, LoginIsFramed DEF ToldIsFramed, a
<1> QED BY <1>1, Invariant, PTL
=============================================================================
