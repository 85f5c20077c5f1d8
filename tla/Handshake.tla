----------------------------- MODULE Handshake ------------------------------
(***************************************************************************)
(* What the client proxy understands of Minecraft's protocol, as pure      *)
(* operators: the VarInt codec and the login disconnect of                 *)
(* src/util/mc_disconnect.rs, and the parser of src/util/parse_server.rs,  *)
(* which is given as much of the stream as one peek() returned.            *)
(*                                                                         *)
(* Bytes are 0..255, positions in a buffer count from 0 as in the code.    *)
(* The buffers are what a Minecraft client sends, or a part of it: a       *)
(* negative length in them, which the parser would widen to usize, is not  *)
(* modelled.                                                               *)
(***************************************************************************)
EXTENDS Integers, SequencesExt

\* External: the server that String::from_utf8_lossy and Url::parse of the url
\* crate leave of an address that is not plain (see IsPlain).
CONSTANT UrlServer(_)

-----------------------------------------------------------------------------
(* VarInts: 32 bits in groups of seven, the least significant first.       *)

\* The numbers of 32 bits: the top four of them are the sign and three more.
I32 == {v \in Int : v \div 2^28 \in -8..7}

\* What a one is worth in each byte of a VarInt.
Weight == <<1, 128, 128^2, 128^3, 128^4>>

\* ((v as u32) >> 7) as i32
Shr7(v) == IF v >= 0 THEN v \div 128 ELSE v \div 128 + 2^25

\* What is left of v after each turn.
LeftOf(v) == LET left[i \in 0..5] == IF i = 0 THEN v ELSE Shr7(left[i - 1]) IN left

\* One byte a turn, until nothing is left to shift.
EncodeVarInt(v) ==
    LET left == LeftOf(v)
        len == CHOOSE i \in 1..5 : left[i] = 0 /\ \A j \in 1..(i - 1) : left[j] # 0
    IN  [i \in 1..len |-> (left[i - 1] % 128) + (IF i < len THEN 128 ELSE 0)]

NoVarInt == [value |-> 0, len |-> 0]

\* ((byte & 0x7F) as i32) << shift: of the fifth byte four bits remain, and
\* the highest is the sign.
Septet(byte, i) ==
    IF i < 5 THEN (byte % 128) * Weight[i]
    ELSE (IF byte % 16 < 8 THEN byte % 16 ELSE (byte % 16) - 16) * Weight[5]

\* The sum of the first bytes, turn by turn.
SumOf(buf) ==
    LET value[i \in 0..5] == IF i = 0 THEN 0 ELSE value[i - 1] + Septet(buf[i], i)
    IN  value

\* The value and the bytes it takes; none if the buffer ends first, or after
\* five bytes that all announce another.
DecodeVarInt(buf) ==
    LET len == SelectInSeq(buf, LAMBDA byte : byte < 128)
    IN  IF len \in 1..5 THEN [value |-> SumOf(buf)[len], len |-> len] ELSE NoVarInt

-----------------------------------------------------------------------------
(* parse_handshake_buf.                                                    *)

VarIntAt(buf, pos) == DecodeVarInt(SubSeq(buf, pos + 1, Len(buf)))

\* Mutant: the marker stays.
ServerIdMarked(address) ==
    LET end == SelectInSeq(address, LAMBDA byte : byte = 46)
    IN  IF end = 0 THEN address ELSE SubSeq(address, 1, end - 1)

\* Of a plain address, what is before its first NUL, where mod loaders append
\* a marker, and of that the first label.
ServerId(address) ==
    LET end == SelectInSeq(address, LAMBDA byte : byte \in {0, 46})
    IN  IF end = 0 THEN address ELSE SubSeq(address, 1, end - 1)

\* ASCII without a colon, up to the first NUL: decoding changes nothing and
\* Url::parse finds no scheme, so the text itself is the domain.
IsPlain(address) ==
    \A i \in DOMAIN address :
        (\A j \in 1..i : address[j] # 0) => address[i] \in 1..127 \ {58}

ServerOf(address) == IF IsPlain(address) THEN ServerId(address) ELSE UrlServer(address)

Failed == [outcome |-> "failed"]
Panicked == [outcome |-> "panic"]

\* The cursor passes length, id, protocol version and address, each with its
\* check; it passes the port with none, so that the slice after it starts
\* behind the end of a buffer that was cut there.
ParseHandshake(buf) ==
    LET size     == VarIntAt(buf, 0)
        id       == VarIntAt(buf, size.len)
        protocol == VarIntAt(buf, size.len + id.len)
        addrLen  == VarIntAt(buf, size.len + id.len + protocol.len)
        start    == size.len + id.len + protocol.len + addrLen.len
        end      == start + addrLen.value
        next     == VarIntAt(buf, end + 2)
    IN  IF size.len = 0 \/ id.len = 0 \/ id.value # 0 THEN Failed
        ELSE IF protocol.len = 0 \/ addrLen.len = 0 \/ end > Len(buf) THEN Failed
        ELSE IF end + 2 > Len(buf) THEN Panicked
        ELSE IF next.len = 0 THEN Failed
        ELSE [outcome  |-> "ok",
              server   |-> ServerOf(SubSeq(buf, start + 1, end)),
              protocol |-> protocol.value,
              next     |-> next.value,
              len      |-> size.value + size.len]

-----------------------------------------------------------------------------
(* build_login_disconnect: packet length, packet id 0, and the reason as a *)
(* string of the given length.  Every protocol version gets the same.      *)

\* Mutant: the packet length leaves out the packet id.
LoginDisconnectShort(reason) ==
    LET string == EncodeVarInt(reason)
    IN  EncodeVarInt(Len(string) + reason) \o EncodeVarInt(0) \o string

\* All of the packet but the bytes of the reason.
LoginDisconnect(reason) ==
    LET payload == EncodeVarInt(0) \o EncodeVarInt(reason)
    IN  EncodeVarInt(Len(payload) + reason) \o payload

-----------------------------------------------------------------------------
(* Minecraft's own side of the wire, external to this program.             *)

\* The reference: seven bits of the number at each place, by floor division,
\* and as many places as it takes to leave only zeros out.
Group(v, i) == (v \div Weight[i]) % (IF i < 5 THEN 128 ELSE 16)

WireLen(v) ==
    CHOOSE i \in 1..5 : (i = 1 \/ Group(v, i) # 0) /\ \A j \in (i + 1)..5 : Group(v, j) = 0

WireVarInt(v) ==
    [i \in 1..WireLen(v) |-> Group(v, i) + (IF i < WireLen(v) THEN 128 ELSE 0)]

\* What comes before the port in the body of a handshake, and a port.
WireFields(h) ==
    <<0>> \o WireVarInt(h.protocol) \o WireVarInt(Len(h.address)) \o h.address
Port == <<99, 221>>

\* A handshake packet: h.protocol, h.address and h.next are what it says,
\* h.server is the server its player means, and h.owed is how many bytes more
\* than it sends its length announces.
WireBody(h) == WireFields(h) \o Port \o WireVarInt(h.next)
WireHandshake(h) == WireVarInt(Len(WireBody(h)) + h.owed) \o WireBody(h)

\* What a player may send: numbers of 32 bits, the length of the packet among
\* them, and a plain address that names the server first, in one label.  An
\* address with a scheme or a port, an IPv6 literal or one that is not ASCII
\* is no part of this.
IsHandshake(h) ==
    /\ h.protocol \in I32 /\ h.next \in I32
    /\ h.owed \in Nat
    /\ h.address \in Seq(0..255) /\ IsPlain(h.address)
    /\ Len(WireHandshake(h)) + h.owed \in I32
    /\ Len(h.server) \in 0..Len(h.address)
    /\ h.server = SubSeq(h.address, 1, Len(h.server))
    /\ \A i \in 1..Len(h.server) : h.address[i] \notin {0, 46}
    /\ Len(h.server) < Len(h.address) => h.address[Len(h.server) + 1] \in {0, 46}
=============================================================================
