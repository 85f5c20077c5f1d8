------------------------------ MODULE MCSetup -------------------------------
(***************************************************************************)
(* Instances of Setup for TLC, and the codec against its reference.        *)
(***************************************************************************)
EXTENDS Setup

\* Addresses: "a.b", "a" with the marker of a mod loader behind a NUL, and one
\* that makes a handshake of 15 bytes, longer than the PeekBuf of the run.
Plain == <<97, 46, 98>>
Forge == <<97, 0, 70, 0>>
Long == <<97, 46, 98, 98, 98, 98, 98, 98>>

\* No address of the run is left to it.
MCUrlServer(address) == <<>>

\* A handshake for the server "a".
Meant(protocol, address, next, owed) ==
    [protocol |-> protocol, address |-> address, next |-> next, owed |-> owed,
     server |-> <<97>>]

\* Logins and status requests; versions of one, two and five bytes: 127,
\* 128, 765, a snapshot (bit 30) and the -1 of a pinger; logins that
\* announce one of the two bytes the client sends next, and one more than both;
\* one that does not fit the peek.
MCHellos ==
    {Meant(127, Plain, 2, 0), Meant(128, Forge, 2, 1), Meant(2^30 + 200, Plain, 2, 0),
     Meant(765, Forge, 1, 0), Meant(-1, Plain, 1, 0),
     Meant(127, Plain, 2, 3), Meant(127, Long, 2, 0)}

\* With 125 the packet is 127 bytes long, with 126 its length takes two.
MCReasons == {125, 126, 128}

\* Every place where a VarInt grows by a byte, and both ends of i32.
Edges ==
    UNION {{2^n - 1, 2^n} : n \in {0, 7, 8, 14, 21, 28, 30}}
        \cup {2147483647, -2147483647 - 1, -2147483647, -128, -1}

\* encode_varint agrees with Minecraft and decode_varint inverts it.
ASSUME CodecAgrees ==
    \A v \in Edges \cup -300..20000 :
        /\ EncodeVarInt(v) = WireVarInt(v)
        /\ DecodeVarInt(WireVarInt(v) \o <<200>>)
               = [value |-> v, len |-> Len(WireVarInt(v))]
=============================================================================
