# p2pmc_webrtc in TLA+

p2pmc_webrtc lets Minecraft clients reach Minecraft servers behind NATs. It has two ways to do so:

- the **iroh pipe** (`src/src/p2p_pipe.rs`, and `src/src/dumbpipe.rs`, which it was made from): a server proxy publishes its ticket in the
  BitTorrent DHT under a name; a client proxy looks the name up, opens a QUIC connection and copies bytes between a TCP socket and one
  QUIC stream;
- the **WebRTC proxy** (`src/src/core/`): peers exchange offers and replies through a signaling websocket, then copy bytes over a data
  channel.

Both are async Rust on tokio, driven by an application (Flutter) that starts the entry points and stops them with a
`CancellationToken`. Nothing below is about what the bytes are; it is about tasks, tokens, locks, channels and streams that several
actors touch in an order nobody chose.

Paths are those of the repository; `src/src/x.rs` is written `x.rs` when it is clear.

## 1. Inventory

### 1.1 QUIC tunnel: `forward_bidi` on both proxies (modelled: `Tunnel`)

- *State.* Per proxy: the TCP socket, the two halves of the QUIC stream, a token, the tasks `copy_to_noq` and `copy_from_noq`, in
  `p2p_pipe.rs` a task that waits for control-c, and the body that awaits the two tasks in a fixed order (from, then to). Between the
  proxies: a QUIC connection with flow control.
- *Operations.* Copy a buffer; end of file, `finish`; error; cancelled, `reset` or `stop`; join; `endpoint.close()`; drop of the last
  handle.
- *Interactions.* A failing task cancels the token of its sibling; a reset or stop reaches the peer's tasks; the application's token drops
  the client's handler (`p2p_pipe.rs:356`), is the parent of the token (`dumbpipe.rs:106-132`), or closes the endpoint (`p2p_pipe.rs:372`).
- *Hard.* A cancellation that races the end of a copy; an error in one of two tasks awaited in order; half-closed connections; data in flight
  when the connection closes.
- *Correct when* a clean end means a complete stream; a failure takes both directions down; an end of file reaches the other end; nothing is
  held once both ends are done, but for the task that waits for control-c: nothing else ends it (`p2p_pipe.rs:161-165`), and each connection leaves
  one behind.

### 1.2 Signaling session: `Session`, `ResponseManager`, `PeerListener`, `jude_server` (modelled: `Session`)

- *State.* The websocket's two halves; `ResponseManager`: number to oneshot; `connection_senders`: peer id to bounded mpsc sender, under an
  `RwLock`; the listener task; a channel and spawned `handle_offer` tasks per `jude_server`.
- *Operations.* `offer` (register a oneshot, send, await), `listener` (register the peer, install a channel), the listener task's
  `handle_packet` (reply to the oneshot, offer to the channel, with the read lock held during the send), `receive`, cancellation of
  `jude_server_cancellable`, which drops its runtime.
- *Interactions.* Every user of the session depends on the one listener task; replies queue behind an offer whose channel is full; a second
  `jude_server` for a peer replaces the sender of the first.
- *Hard.* Colliding random numbers; a late reply; replacement while the task sends; a panic in the task everybody shares; back pressure.
- *Correct when* a reply reaches the call it answers; a call fails only for a reason; an offer is lost only with a server that was cancelled;
  a reply or an installation is never held up for ever.

### 1.3 Life of `p2p_server` and its DHT record (modelled: `Server`)

- *State.* The token; how far startup is; the accept loop; the signed packet with its sequence number; the republisher; the record in the DHT.
- *Operations.* Early cancellation check, online wait raced with the token, sign and publish raced with the token, spawn of the republisher and
  the loop, hourly republish of the same packet, cancellation of either task, break of the loop on a failed accept.
- *Interactions.* Runs under one name share the DHT record; the token reaches startup, loop and republisher independently.
- *Hard.* A publish that lands after its future was dropped; an older run that republishes after a newer one started; a record that expires;
  a crash; a loop that ends without telling the republisher.
- *Correct when* the record never goes back to an older run; a cancelled run stops and disappears; a live run stays findable.

### 1.4 Client accept loops and handlers: `p2p_client`, `connect_tcp` (modelled: `Setup`, then `Tunnel`)

- *State.* The listener, the token, one handler per TCP connection, `HandshakeInfo`, the QUIC connection.
- *Operations.* `parse_handshake` (one peek, 500 ms), `lookup_iroh_mapping`, ticket, `connect`, `open_bi`, the five-byte greeting, forward;
  in `p2p_pipe.rs` each failure after the parser ends in a login disconnect (`next_state` 2) or a bare shutdown, in `dumbpipe.rs` in an error
  or a panic.
- *Hard.* A handshake cut anywhere by TCP; cancellation at any await; the client and the server each waiting for the other's first bytes;
  bytes that were peeked, discarded or greeted in the wrong place of the stream.
- *Correct when* every accepted connection is forwarded or closed; a login that was understood is told why it is refused; the Minecraft server
  gets exactly what the Minecraft client wrote.

### 1.5 Server accept loops and handlers: `p2p_server`, `dumbpipe::listen_tcp` (modelled: `Setup`, then `Tunnel`)

`accept_bi`, read and verify five bytes, TCP connect to the Minecraft server, forward. No timeout on any of the steps. Correct when a handler
never waits for good, and a cancellation takes the connection down wherever it meets it.

### 1.6 WebRTC peer connection: `core/p2p/peer_connection.rs`, `peer_connector.rs` (modelled: `Link`)

- *State.* On each side an `RTCPeerConnection` and its data channel `primary`; on the listener a `ResponseManager` for channels by name.
- *Operations.* `connect` (offer, gather, `Session::offer`, set the answer, wait for the channel to open), `accept` (set the offer, answer,
  reply, wait for the data channel), the `on_data_channel` callback, `Drop`, which spawns `close()`.
- *Interactions.* Through `Session` for offer and reply; through the crate's callbacks for everything after.
- *Hard.* `accept_channel` is called before the reply and polled after it (`peer_connection.rs:118`), so the callback may run first; the
  channel that reports a failed connection is never read (lines 49, 107); the channel is delivered before it is open (`server.rs:45`).
- *Correct when* each side resumes when its channel is there, Minecraft is connected to only for a channel that was opened at both ends, and
  whoever fails or leaves is noticed.

### 1.7 Data channel proxy: `handle_offer`, `util/proxy_traffic.rs` (modelled: `Link`)

Two tasks, a token, a `select!` on the two handles followed by `join!` on the same handles (line 66). The read task knows no end of file (line
25) and does not look at the token while it writes (line 27); nor does the write task (line 48), which waits there while the peer does not read and
the crate's queue is full. Correct when the end of one task ends the other and the connection, unless the other is held in a write.

### 1.8 Handshake parser and login disconnect: `util/parse_server.rs`, `util/mc_disconnect.rs` (modelled: `Handshake`, `Setup`)

VarInt encode and decode on 32-bit integers, the parser's cursor (which skips the port at line 97 without looking at the length), the length
prefixes of the login disconnect, and the discard of the handshake before it, which waits without a timeout for as many bytes as the handshake
announced. The peek sees 512 bytes at most. Correct when decode inverts encode, when the parser reads what Minecraft sent or refuses it, and when
Minecraft reads the lengths as they are meant.

### 1.9 Left out

Section 7 says what is not modelled, and why.

## 2. Modules

| module | what it is |
|---|---|
| `Duplex` | abstract: two independent one-way streams; each delivers a prefix and ends cleanly only when complete |
| `Tunnel` | two `forward_bidi` over one QUIC stream; refines `Duplex` |
| `TunnelProofs` | proofs for any buffer, window, number of chunks and faults, any mixture of proxies |
| `Session` | the signaling session, its calls and its servers |
| `MCSession` | the constants of its runs |
| `SessionProofs` | proofs for any number of calls, numbers, offers, servers and any capacity |
| `Calls` | abstract: what `offer()` promises to its callers |
| `CallsProofs` | proof that `Session` implements `Calls` |
| `Server` | overlapping runs of `p2p_server` and the DHT record |
| `ServerProofs` | proofs for any set of runs |
| `Handshake` | the VarInt codec, the handshake parser and the login disconnect as operators, with Minecraft's own side of the wire as reference |
| `HandshakeProofs` | proofs about the codec, the parser and the packet for every number of 32 bits, every handshake and every cut |
| `Setup` | one connection through both accept loops and handlers until `Tunnel` takes over; every pair of `p2p_pipe.rs` and `dumbpipe.rs` |
| `MCSetup` | its handshakes, and the codec compared with its reference |
| `SetupProofs` | proofs for any handshakes and reasons |
| `Link` | a dialer and a listener of one WebRTC connection, and the listener's `proxy_traffic` |
| `LinkProofs` | proofs about it |

`Session`, `Link` and `Setup`, `Tunnel`, `Server` meet as follows. `Setup` ends where both handlers forward, which is `Tunnel`'s initial state;
`StreamIsMinecrafts` is what it hands over. The lookup of `Setup` may fail at any time, which is all it knows of `Server`. An offer and a
reply of `Link` are a call of `Session`, which may stay unanswered, as `Calls` allows; one step `OfferHandled` of `Session` is the whole listener of `Link`.

Definitions marked *Mutant* in a comment are used by no specification: each is a changed form of the definition that follows it, which makes a
property of the runs fail. They show that the properties depend on that code.

### 2.1 `Tunnel`

| code | model |
|---|---|
| the bytes of a direction | counters: `sent` by Minecraft, `rd` from the socket, `wr` to QUIC, `got` from QUIC, `put` in the other socket |
| `tokio::io::copy` | `TcpRead`, `NoqWrite` / `NoqRead`, `TcpWrite`, with a buffer of `CopyBuf` |
| `copy_to_noq`'s branches | `TcpEof` (finish), `TcpReadError`, `NoqWriteError`, `ToNoqCancelled` (reset) |
| `copy_from_noq`'s branches | `NoqEnd`, `NoqReadError`, `TcpWriteError`, `FromNoqCancelled` (stop) |
| `map_err(cancel_token(..))` | `CancelOnErr` |
| `forward_from..await??; forward_to..await??` | `JoinFromNoq`, `JoinToNoq`: an error returns at once, the other task is detached |
| the client's `select!` around the handler | `HandlerCancelled`: the future goes, the tasks it spawned stay |
| drop of the last handle | `ConnDropped` (noq, external) |
| `_control_c`, detached | `CtrlC`; `Tasks` counts it among the tasks a proxy still has, until it fires |

Positions in a stream stand for its bytes because TCP and QUIC deliver in order. A chunk is any number of bytes. `Dumbpipe` says which side
runs `dumbpipe.rs`. On a connection that is no longer up, what was in flight may or may not still be read: `NoqRead` and `NoqReadError`
are both enabled.

### 2.2 `Session`

`inbox` is the websocket's receive buffer; `task`, `held`, `target` are the listener task and the read lock it holds while it sends
(`task = "sending"`); `pending` is `ResponseManager`; `senders` is `connection_senders`; `queue` and `running` are a server's channel
and its `handle_offer` tasks. `Discard` is what dropping a `jude_server` does. `HandleOffer` and `SendToListener` are two actions because
`send(..).await` is a suspension point: everything but `Install` may happen in between. The signaling server and the remote peers are
the environment; they send what a correct signaling server sends, and text that does not parse. `handle_offer` itself is one step. `drew` is history: the call
that drew each number last.

`Calls` is the session without the websocket's packets, the listener task, the map of oneshots and the servers: a call begins under a number it
drew, a reply is delivered to an open call with the number of the offer it answers, each reply once, and the call returns or fails. `C` maps
the session to it: a call that registered its oneshot or sent its offer is open, and `answer` is its reply. `HandleReply` is `Deliver`, or
nothing when the call is gone; the packet that carries the reply is nothing to a caller.

### 2.3 `Server`

`phase` is the position of `p2p_server` and then of its loop, `pub` that of its publisher, `seq` the sequence number signed into its packet.
`Sign` ends at the first suspension of `publish`; `Abort` is the cancelled branch of either `select!`; `Stop` and `LoopBreaks` end
the loop. `Dropped` says that a publish under way is not called back with its future: it becomes an `orphan` that may still land. `Land`,
`Refuse`, `Expire` are the DHT: one item per name, the greatest sequence number wins, items are forgotten. `order` is history: it numbers
the runs by the moment they began to publish.

`clock` increases with every signature: the model assumes that the devices which run servers under one name agree on the time to that extent.

### 2.4 `Handshake` and `Setup`

| code | model |
|---|---|
| `encode_varint`, `decode_varint` | `EncodeVarInt`, `DecodeVarInt` on 32-bit integers: `Shr7` is the unsigned shift, `LeftOf` the number after each turn of the encoder, `Septet` drops what falls off at the fifth byte, `SumOf` is the result after each turn of the decoder |
| `parse_handshake_buf` | `ParseHandshake`, with the slice that panics at line 100 as an outcome |
| `build_login_disconnect` | `LoginDisconnect`: all bytes but those of the reason, which is a length |
| `stream.peek` | `Peek`: whatever has arrived, at least a byte and at most `PeekBuf` (512 in the code); `Arrive` lets TCP cut the stream anywhere |
| `from_utf8_lossy`, `Url::parse`, the first label | `ServerOf`: `ServerId` for a plain address, the external `UrlServer` for any other |
| the arms of `handle_tcp_accept` | one action each, and for their failures `LookupFails`, `DialFails`, `StreamFails` |
| `disconnect!`, `send_login_disconnect` | `Discard`, `Tell` or `TellFails`; `ShutDown` when it is no login |
| `?` and `expect` in `dumbpipe.rs` | `GiveUp` for a side in `dumbpipe`: closed at once |
| the select around a handler | `HandlerCancelled`, in every phase |
| the server's loop and handler | `TakeIncoming`, `AcceptBi`, `ReadHello`, `TcpConnect`, their failures, `StopServing`, `LoopBreaks` |

A stream exists for the server once something was written to it: `AcceptBi` needs the greeting. The connection is one for both ends; noq tells
the other end of a close. `dumbpipe` is chosen at the start, so that one run covers the four pairs.

`IsPlain` is an address that is ASCII and has no colon up to its first NUL: decoding it changes nothing, and `Url::parse` fails on a name without
a scheme, so its own text is the domain. What the code makes of another address, `http://x.y` say, is the constant `UrlServer`, of which nothing is
assumed. `IsHandshake` says what a player may send: a plain address that starts with the server's name in one label, numbers of 32 bits, and a
length of the packet that may announce more than is sent (`owed`). The discard of a refused login then takes what follows, or waits: `Discard` is
enabled once as many bytes as were announced have arrived, or the client is gone.

The codec's loops end after five turns, so `LeftOf` and `SumOf` are recursive functions on `0..5`. The reference they are compared with, `WireVarInt`, is
not a loop: it takes the groups of a number by floor division (`Group`) and counts those that are not zeros (`WireLen`).

### 2.5 `Link`

`dialer` and `listener` are positions in `connect` and in `handle_offer` with `accept`; `pc`, `opened` are what the webrtc crate holds for each
side; `waiter` is `ResponseManager`'s oneshot for `primary`, `announced` what `handle_response` did when the callback came: `missed` if nobody
had registered. A task of `proxy_traffic` is in its `select!` (`run`), in the body of an arm (`body`), or over; `dropped` is what the end of
`jude_server`'s runtime does to it (`Cancel`). The read task's body is `write_all` to Minecraft, the
write task's is `data_channel.write(..).await`: `WriteWaits` enters it, `Drained` is the write that went through, and in between the task sees neither
its token nor its socket. (The crate bounds what is pending; the bound is not in this repository, so the wait may come with any write.) `opened` is
history: the channel was opened once at this side, and may be closed since. `JoinPanics`
is `join!` on a handle that was polled to its end: tokio's `JoinHandle` panics, the stack unwinds, the other handle is dropped and detaches.
`PcFails` sends to `done_rx`, which nobody reads, so it changes no position.

## 3. Runs

| run | bounds | states | shows |
|---|---|---|---|
| `tunnel_safe` | 2 chunks each way, buffer and window 1, one fault | 516 k | a clean end is a complete stream; the tunnel implements `Duplex` |
| `tunnel_live` | 1 chunk, p2p_pipe client, dumbpipe server, one fault | 57 k | a failure stops both tasks; end of file reaches the peer; all but the control-c tasks is given back; cancellation stops forwarding |
| `session_calls` | 2 calls, 2 numbers, 1 server, 1 offer | 91 k | a reply completes the call it answers, once; a call fails only with a cause; the session implements `Calls` |
| `session_serve` | 2 servers of one peer, 2 offers, 1 call, channel of 1, inbox of 2 | 121 k | losses and refusals need a cancellation; no offer falls between two servers; offers, replies and installations are not held up |
| `server` | 2 runs under one name | 10 k | the record never goes back; a cancelled or crashed run disappears; a live one stays findable |
| `setup` | 7 handshakes (login and status; versions of 1, 2 and 5 bytes, negative; plain and marked addresses; announcing one or three bytes too many; one longer than the peek), a peek of 14 bytes, 3 reasons around 127 bytes, all pairs of proxies | 272 k | the parser reads what was sent, or refuses it, at every cut; logins are answered; the stream that is forwarded is Minecraft's; handlers end, save a discard that waits for bytes announced and not sent; cancellation disconnects |
| `link` | one dialer, one listener, one connection | 2.0 k | Minecraft is connected to only for a channel that was opened at both ends; a task that is left behind is told to end; both sides resume; the proxy is given back; who is gone is noticed |
| `tunnel_cancel`, `tunnel_lossless`, `session_unwrap`, `server_autonomous`, `proxy_join` | as above | | each finds the disagreement of section 5 |

Why the bounds are enough to be interesting. *Tunnel*: two chunks with a buffer and a window of one fill every stage, so a writer is
blocked, a buffer half drained and a chunk in flight all occur; a fault (a reset, control-c, a cancellation or a loss) meets each of these states.
Liveness needs no second chunk: what blocks a task is the first one. *Session*: two calls over two numbers give collisions
and their absence; two servers of one peer and a channel of one give replacement while the task sends, a full channel and a drain; the session has
one inbox slot more than it needs to put a reply behind a blocked offer. *Server*: every property relates at most two runs, and a run publishes
without bound. *Setup*: every connection has its own handlers, and they share only the loops and the endpoint; `LoopBreaks` stands for what
another connection may do to them. The cuts are all cuts of the handshake and of the two bytes after it. `PeekBuf` is 14 so that one handshake of 15
bytes is never seen whole; the six others fit, as Minecraft's do in 512. With two bytes after the handshake, one that announces one more is discarded
whole, and one that announces three waits. *Link*: a connection has two
sides, and each runs once.

`MCSetup` also assumes `CodecAgrees`, which TLC evaluates: on -300..20000 and on both sides of every place where a VarInt grows, up to the ends
of the 32-bit range, the code's encoder gives Minecraft's bytes and its decoder gives the number back. `HandshakeProofs` proves the same of all numbers
of 32 bits.

Deadlock is not checked: every one of these systems may stop for good, when the connection is closed, the websocket is down or all runs have ended.

### Fairness

Weak fairness on what tokio polls: a task whose future can make progress is polled, a cancelled token wakes its waiters, a completed
task wakes the one that joins it, a timer fires. Beyond that:

- `TcpWrite` is fair: the Minecraft end drains its socket. Without it a direction can be blocked for as long as the application likes.
- `CopyToNoq` and the cancelled branch are fair separately: `select!` polls its branches in random order, so neither starves the other.
- `Install` in `Session` is strongly fair: it waits for the write lock, tokio's `RwLock` is a fair queue, and the listener task releases
  the read lock after each packet.
- In `Server`, `Answered` is fair: pkarr's publish ends, one way or the other; and `ExpireUnattended`: the DHT forgets what nobody
  republishes.

- In `Setup` a lookup and a dial end, one way or the other, and a TCP connect too; a closed connection is noticed at both ends.
- In `Link` the crate brings up a connection that does not fail, opens its channel, and times out on a peer that is closed or failed
  (`PeerGone`). `ReadCancelled`, `WriteCancelled` and the end of the socket (`TcpEof`, `TcpReadFails`) are strongly fair: `select!` polls its branches
  in random order, the tasks keep coming back to it, and what Minecraft wrote before its end is finite. Bytes that the read task writes are through
  for sure only once Minecraft has ended; a write to the data channel need never be (`WriteWaits`, `Drained` and `WriteFails` are not fair): the peer
  may not read, and a close need not wake the task. `ProxyReleased` and `TcpEndReleases` exempt a task for as long as it is held so (`Held`).

Nothing is owed by Minecraft, the user, the network or the remote peers: no writer has to write or close, no cancellation has to come, no
reply has to be sent, `handle_offer` need not end. `CancelStopsForwarding` on the server side assumes that the accept loop, which closes the endpoint, has
not broken before (`Server` shows that it may).

## 4. Proofs

All are checked by TLAPS with Z3, Zenon and, for the temporal steps, LS4. The assumptions on the constants are those named `ASSUME` in each
module: positive buffer, window and capacity, functions of the right type, `None` is no element of the sets; handshakes are what a player may send
(`IsHandshake`: plain addresses, see 2.4), the peek's buffer holds a byte at least, and the length of a login disconnect is a number of 32 bits.

**`TunnelProofs`.** `CleanEndIsComplete` is not inductive: it speaks of the two ends of a pipe only. The inductive invariant adds the stages between:

- `StationsOrdered`: `put <= got <= wr <= rd <= sent` for each direction;
- `FinIsComplete`: a stream with a fin carries everything that was sent, unless the writing end was reset;
- `OkIsDrained`: a `copy_from_noq` that ended well saw a fin and put all it got.

The three give the property. `TunnelImplementsDuplex` uses the same invariant: each action maps to a `Duplex` step or a stutter, and only
`NoqEnd` needs the invariant, to map to `Complete`.

**`SessionProofs`.** The invariant has a half per service. `CallInv`: a call that has begun has a number (`NumberDrawn`); a reply in flight carries the number of its
call (`ReplyNumbered`); an oneshot in the map is that of the call that drew its number last (`PendingIsCurrent`); a call that waits is still registered unless
another drew its number (`StillRegistered`). `ServeInv`: while the task sends, its channel is the one in the map (`SendingIsLocked`: the read
lock), a server that is in the map has not ended (`MapIsCurrent`), and what a channel holds is addressed to its peer (`QueueAddressed`). From these follow
`AnswersAreOwn`, `FailuresHaveCause`, `RefusalsNeedCancel`, `LossesNeedCancel`. `NoOfferUnclaimed` is about a step, and adds that a server that runs
has a channel in the map for its peer, its own or its successor's (`ServingIsMapped`).

**`CallsProofs`.** The same invariant gives most of the refinement: `StillRegistered` says why an abandoned call may fail, `PendingIsCurrent` and
`ReplyNumbered` that a reply is delivered to an open call of its number. What it does not say is that no reply is handed out twice. `ReplyOnce` adds it: a
call that is not sent, or sent and not answered, has no reply in the inbox or in a oneshot; a reply is in one of the two places; and the inbox holds one reply per call.
`OnceAppend` and `OnceTail` say what arrival and receipt of a packet do to it.

**`ServerProofs`.** `NoRollback` is about the order in which runs began to publish, the DHT compares sequence numbers. `SignedOnce` says the two
agree, which is what publishing "the EXACT SAME packet" (`dht.rs:72`) buys; it is inductive with the types, which also say where the publisher may be
in each phase of its run.

**`HandshakeProofs`.** No VarInt has more than five bytes, so the recursions of the codec unfold into five turns and no induction is needed.

- *Codec.* A number is the sum of its groups, the fifth with its sign (`GroupSum`). What the encoder has left after a turn is zero exactly when all later groups are
  (`LeftOfGroups`), so it stops where Minecraft's VarInt ends: `EncodeIsMinecrafts`. The decoder stops at the first byte that announces no other,
  and its sum is Horner's form of `GroupSum` (`DecodeWhole`); of a VarInt that is cut it returns nothing (`DecodeCut`). `DecodeInverts` joins the two, for
  numbers with any bytes behind them.
- *Parser.* `Layout` says where the fields of a handshake are in a stream that starts with it, and `CutVarInt` and `CutAddress` what the cursor finds of them in the first
  `n` bytes. `ParseIsExact` goes through the cuts in the order of the cursor's checks: the whole handshake gives what was meant, with the marker and
  the rest of the address removed (`ServerIdIs`); a cut before or inside the port panics; any other cut fails. There is no fourth case.
- *Packet.* `LoginIsFramed`: both lengths in the login disconnect are those of what follows them.

**`SetupProofs`.** `LoginIsAnswered` speaks of a handler that is over and `StreamIsMinecrafts` of the two handlers at once; the invariant says what each
phase has done: `InOrder` (nothing is read before the peek, taken out of the socket before a refusal, or told before the end), `GreetedLast` (a
greeting on the wire means that the client's handler forwards or is over, and has taken nothing from the socket), `PeeksOnce` (all that is understood comes from
one peek), `TellIsLogin` and `RefusalIsP2p` (who is told: a login whose announced bytes were discarded, or all it sent before it left, by `p2p_pipe.rs`). `UnderstoodIs` carries `ParseIsExact` over to the
table of what each cut is understood as; with it `PeeksOnce` gives `ParsedIsSent`, and `TellIsLogin` with `LoginIsFramed` gives `ToldIsFramed`.

**`LinkProofs`.** `ConnectsForOpenedChannel` joins facts that hold at different times: a waiter exists only after the reply (`RepliedFirst`), the callback
comes only once the dialer's channel was opened (`AnnouncedOpen`), the listener leaves its wait only by a delivery (`Delivered`), and `detach()`
lets pass only a channel that was opened here (`Detached`). It does not say that the channel still is open: a dialer that is gone by then is not noticed
before `proxy_traffic`. `LeftBehindIsCancelled` needs `TasksOfProxy`, which says what is known of the tasks before `handle_offer` is over: none
has been dropped, and after the `select!` one of them has ended and the token is cancelled. It is what the panic of `join!` (section 5) leaves intact.

| theorem | for every |
|---|---|
| `TunnelProofs!TypeCorrect`, `CleanEndCorrect`, `TunnelImplementsDuplex` | number of chunks, buffer, window, number of faults, mixture of proxies |
| `SessionProofs!TypeCorrect`, `PendingsAreCurrent`, `AnswersAreOwn`, `FailuresHaveCause`, `RefusalsNeedCancel`, `LossesNeedCancel`, `NoOfferUnclaimed`; `CallsProofs!SessionImplementsCalls` | set of calls, numbers, offers, servers, peers; capacity |
| `ServerProofs!TypeCorrect`, `NoRollbackCorrect` | set of runs |
| `HandshakeProofs!EncodeIsMinecrafts`, `DecodeInverts` | number of 32 bits, and bytes behind it |
| `HandshakeProofs!ParseIsExact`, `LoginIsFramed` | handshake with a plain address (`IsHandshake`), stream it begins, and cut; length of a reason |
| `SetupProofs!TypeCorrect`, `LoginsAreAnswered`, `StreamsAreMinecrafts`, `ParsedsAreSent`, `ToldsAreFramed` | set of handshakes with plain addresses, and of reasons; size of the peek's buffer |
| `LinkProofs!TypeCorrect`, `ConnectsOnlyForOpenedChannels`, `LeftBehindsAreCancelled` | behaviour (the module has no constants) |

**Only model-checked.** Everything that must eventually happen: liveness under fairness is out of the prover's reach. Every invariant, every property of steps and both
refinements that the passing runs check are proved. The refinements are of the specifications' safety; `Duplex` and `Calls` state no fairness.

## 5. Where the code disagrees with what it says

1. `tunnel_cancel`: `p2p_pipe.rs:358` says a connection "also dies on cancellation". Dropping the handler detaches its tasks;
   once the server's direction has ended, nothing ends a `copy_to_noq` that waits for a silent client.
2. `tunnel_lossless`: `p2p_pipe.rs:36` says data passes "1:1". `forward_bidi` returns right after `finish()`, the last handle is dropped and
   the connection is closed under data the peer has not read.
3. `session_unwrap`: `session.rs:119` unwraps `handle_packet`. The sender of a cancelled `jude_server` stays in the map, so the next offer for that
   peer ends the listener task of the whole session.
4. `server_autonomous`: `p2p_pipe.rs:474` and `506` call the accept loop "infinite" and the server "running autonomously". One failed accept breaks the
   loop and leaves the republisher advertising.
5. `proxy_join`: `proxy_traffic.rs:65` says it will "properly await both using their original bindings". `join!` polls a handle that `select!` has
   already completed, which panics; the other task is detached while it still runs, and the results of lines 69 to 71 are never seen.

Further behaviour that the passing properties state as exemptions, without a line of the repository that says otherwise: a handshake cut before
or inside its port panics the handler (`ParsedIsSent`); a refused login that announced more bytes than it sends is waited for until it sends them or
leaves (`HandlerSettles`, `DiscardWaits`); the control-c task of a connection outlives it (`TunnelReclaimed`); an offer for a server that is
registered and not yet in the map is discarded (`NoOfferUnclaimedWhileServing`); a task of `proxy_traffic` that waits in a write, for Minecraft or for the
peer, hears of nothing (`ProxyReleased`, `TcpEndReleases`); `accept()` waits for ever when the channel came before the wait or the connection
failed, and `connect()` when the connection failed (`ListenerResumes`, `DialerResumes`); a server whose loop broke does not hear of its
cancellation (`CancelDisconnects`). The comment of `forward_bidi` (`p2p_pipe.rs:139`) says that it aborts "both sides when either one forwarder is
done"; the token is cancelled only by a forwarder that fails, and `TunnelReclaimed` and `EofReachesPeer` describe what happens instead.

## 6. Plan

All modules planned are written, and all safety properties of the passing runs are proved. What could still be added is what `UrlServer` leaves open, the url crate's
reading of an address with a colon, and a model of the generated `.._cancellable` functions on the application's runtime, once the application's side of them is in the repository.

## 7. Not modelled

- `jude_client` (`core/proxies/client.rs`, `util/minecraft_listener.rs`): its connection handler is a stub whose body is commented out.
- `cancellable` beyond what it does to `jude_server` (`Discard` in `Session`, `Cancel` in `Link`): the blocking `join` it ends in
  (`src/cancellable/src/lib.rs:80`) holds a worker of the application's runtime, whose size and other tasks are not in the repository.
- The NBT encoder, `parse_protocol_version`, `open_detached_channel` and `accept_channel_detached`: never called.
- Startup before the loops of `p2p_client`, `connect_tcp` and `create_connection_manager`: straight lines whose failures return before anything is
  shared; that of `p2p_server` is in `Server`, since it can be cancelled.
- `run_minecraft_vanilla_server`: make executable, start, wait, log; what it does on cancellation is to drop a child with `kill_on_drop`. A server
  ended by a signal panics it and its caller (`run_minecraft_vanilla_server.rs:46`). `overwrite_level_dat` truncates before it writes
  (`level_dat.rs:62`); when it runs, beside what, is the application's.
- The other archive and NBT helpers, crypto, log-on-drop, zip, CLI, Flutter bindings: sequential I/O, generated code or code that
  is commented out; no state shared between operations.
- What the crates do (noq, iroh, pkarr, webrtc, tokio): external, modelled from how the code uses them.
