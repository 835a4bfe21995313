# A TLA+ verification of malon

malon connects a *client* and a *proxy* node over a relay (HTTP/2 CONNECT) and moves the
traffic to a direct QUIC path when one can be found, falling back to the relay when it
ends. This directory holds models of the concurrent core, the TLC configurations that
check them on small instances and TLAPS proofs that hold for every size. `PROJECT.json`
maps each definition to the lines it models. Paths below are relative to `src/`.

## 1. The system

| Component | State | Operations | Module |
|---|---|---|---|
| Transport Manager, path switching (`internal/manager`) | `peerEntry` (`relayConn`, `hasDirectPath`, `retryingConn`), mion's active connection | `relayConnectLoop`, `setupRelayPeers`, `retryConnectPeer`, `connectPeerWithCtx`, `handleIncoming`, `tryPromotePath`, `handleDirectConnect`, forwarders, `fallbackToRelay` | `PathManager` |
| Session multiplexer, receiving (`internal/h2proxy`: `InternalProxy`, `EnvelopeNetConn`) | `sessions`, `acceptCh`, receive channels, `nextSID` | `Connect`, `readLoop`, `dispatchData`, `NewSession`, `Read`, `Close`, `closeAllSessions` | `SessionMux`, `SessionChannel` |
| Session multiplexer, sending | `wrMu`, `writer`, the request pipe | `Connect`, `Write`, `writeEnvelope`, `Encode`, `IsConnected` | `Uplink` |
| Relay tunnel (`capsuleConn`, `RelayTunnelConn`), packet filter, control loop | `wrMu`, `ctrlCh` | `WritePacket`, `WriteControl`, `ReadPacket`, `ReadControl`, `forwardConnToTUN`, `handleControl` | `TunnelConn`, `Varint`, `CapsuleQueue` |
| Relay server (`internal/relay`), `envelope.Encode` | `streams`, one goroutine per CONNECT | accept, register, decode, look up, write, flush, unregister | `RelayServer` |
| Candidate gathering (`internal/manager`, `candidate`, `stun`) | `stunCh`, the shared UDP socket | `sendCandidates`, `CollectEmbedded`, `QueryFromTransport`, `Query` | `CandidateGathering` |
| Candidate probing (`internal/manager`, `h3path`) | `probeCooldown`, `hasDirectPath` | `validateCandidates`, `Probe`, `tryPromotePath`, `Dial` | `CandidateProbing` |
| Direct listener (`internal/direct`) | accept queue, the running `handleConnect` | `Accept`, `handleProbe`, `handleConnect`, `handleDirectConnect` | `DirectListener` |
| Both ends of a direct path | the two above, QUIC connections | | `DirectSetup` |
| Control messages, identity, auth, config, daemons | none that is shared | I/O, TLS set-up, parsing | not modelled |

**Interaction.** A client opens a numbered session in `InternalProxy`. Its bytes travel in
envelopes on the node's CONNECT stream; the relay looks up the destination and copies the
envelope to that peer's stream; the proxy's `InternalProxy` creates a session for an
unknown number and hands it to `handleIncoming`. An inner mTLS handshake makes it a
`RelayTunnelConn`, which the manager publishes in `peerEntry.relayConn` and gives to
mion (`SetConn`). Control capsules on it carry candidates; a successful probe leads to a
direct connection, which replaces the relay session in mion until it ends.

**What is hard here.** State that is read under a lock and used after it (`relayConn`,
the receive channel, the destination stream); flags set by one goroutine and cleared by
another; old and new connections of the same peer that overlap; channels at capacity; the
relay stream that comes and goes under all of it. The list is `hazards` in `PROJECT.json`.

## 2. Modules

A step is one critical section, or one call outside a lock that changes shared state. A
local variable that lives from one step to another is a variable of the model, so a stale
value stays stale. Data are reduced to what the properties tell apart. Definitions with a
comment `Mutant:` are plausible bugs; no specification uses them. They show that
each property can fail.

**PathManager**: one peer of one node, `Role` decides which. `loop` and `connect` are
`relayConnectLoop` and the goroutine running `Connect`; `retry[r]` a `retryConnectPeer`
goroutine; `rc[c]` the goroutine that owns relay connection `c` (from handshake through
publication to its forwarder); `dc[d]` the same for a direct connection, including
`fallbackToRelay`. A connection stands for a pointer: its identifier is free again when
no variable refers to it, so runs are not bounded in time, only in what exists at once.
Shutdown is left out (every goroutine returns).

**SessionMux**: one `InternalProxy`. `Dials` tells a client from a proxy. `reader`,
`current` and `message` are the position of `readLoop` and what it carries out of
`sessMu`. A message carries its stream (sender, sender's number) and its place in the order
of arrival. Data may arrive from any peer and under any number, in either role: `dispatchData`
checks neither, and after a restart peers still send under the numbers of the run before. `dialled`
remembers which sessions `NewSession` opened. A handshake time-out closes a connection twice
(state `interrupted`). CONTROL envelopes are left out; no code sends them.

**SessionChannel**: what a session promises its user, without the map, the numbering, the reader
goroutine or `acceptCh`: data sent under one number, in the order of arrival, some of it lost,
until the end of the session. `SessionMux` maps to it with `Number`, the number a session was
opened with. It says nothing about the sender, which the code does not compare.

**Uplink**: the other direction of the same `InternalProxy`. A `Write` on the `io.Pipe`
returns when the http2 transport has taken its bytes or the pipe is closed, and holds `wrMu`
all the time. `reading` is HTTP/2 flow control: the relay may stop taking bytes for ever.

**TunnelConn**, **Varint**: one direction of a relay tunnel between two nodes. Header bytes are
on the wire one by one, as `appendVarint` writes and `readVarint` reads them; a
payload is one item, and an empty one is none, so that an empty control message reaches
`ctrlCh` as `None`. The TLS connection in between may break anywhere. `Untaken`
is what the capsules that were begun and not yet taken look like on the wire. `Lists(s, f, places)`
says that `s` holds what is at these places of `f`, once and in their order; `TunExact` and
`ControlOrdered` are stated with it.

**CapsuleQueue**: what a tunnel promises, without bytes, headers, locks or the two writes of a
capsule: a queue of whole capsules, each treated as its kind asks for, until the connection is
lost or a capsule is above the limits. `TunnelConn` maps to it with `Queue`, the capsules whose
header has been written and that have not been taken.

**CandidateProbing**, **DirectListener**, **DirectSetup**: the goroutines of
`validateCandidates` on a client, the accept loop of a proxy, and their composition: a
successful probe or handshake puts an item in the proxy's accept queue, a dial returns when
the proxy's handler has replied. The network is reachable or not. Sets replace clocks: a
cooldown or a loop deadline may end at any time. `HandlerFails` is every error of `handleConnect`:
the request is the dialling node's own and parses, so each of them means that the connection
is down. What `fallbackToRelay` does with relay connections is in `PathManager`, not here.

**CandidateGathering**: `sendCandidates` of several relay sessions. With a direct listener their
STUN clients read from one socket, and one may take the answer to another's request.
`TakeResult` ends the gathering; `WriteControl` writes to the tunnel and may wait for it for
ever. The behaviour of pion/stun (read loop, transactions, `Close` that waits for the read loop)
is an assumption drawn from how the code uses it.

**RelayServer**: one handler per CONNECT request. `Encode` is two writes, followed by
`Flush`. The HTTP/2 response writer is external: its buffer has no lock, so a write that races
with another may be lost or may send again what the buffer holds (`unsent`), and so may a racing
flush; a write on a broken stream fails or is buffered, a call on a returned handler panics.
`shared` remembers the streams that two handlers have used at once. A chunk of which only a part
is overwritten counts as lost, and a write that overlaps the return of the destination's handler
as one before or after it.

`MC*` modules add the symmetry sets. `*Proofs` modules hold the theorems.

## 3. Runs

| Run | Instance | Shows |
|---|---|---|
| `PathManagerClient` | 3 relay, 2 direct connections, 2 retriers | `RetryFlagExact`: one retry goroutine at most, and the flag says so. `RelayConnNotClosed`. `DirectFlagOwned`: only the connection that holds the path resets the flag. `ActiveHasReader`: mion's connection always has a forwarder |
| `PathManagerProxy` | 3, 2, 1 | `NoLostSession`: a working session is the published one or about to be closed (`RelayConnNotClosed` is proved for either role) |
| `PathManagerClientLive` | 2, 1, 1, fair | `DeadConnReplaced`, `RetryConverges` |
| `RelayServer` | 2 peers, 3 handlers, 2 envelopes | `RegisteredIsServing`, `DeliveredToDst`; `PerSourceOrder`, `EnvelopesWhole`: order and wholeness on every stream that handlers used one at a time; `UnreachableAfterReturn`: a served peer is missing from the map only after another of its handlers returned |
| `SessionMuxClient` | 1 peer, 3 sessions, 2 numbers, 4 messages, capacities 2 and 1 | `OpenIffMapped`: only an incoming session whose number was given out again is open outside the map. `InOrder`; `ImplementsChannel`: the refinement of `SessionChannel` |
| `SessionMuxProxy` | proxy, 1 peer, 3 messages, fair | `LostStreamEndsSessions` (`OpenIffMapped` and `InOrder` are proved for either role) |
| `Uplink` | 2 writers, 1 caller of `IsConnected`, 2 streams, 3 envelopes, fair | `FramesWhole`, `CutOnlyWhenLost`: envelopes of concurrent sessions stay whole. `LostStreamCleanedUp`, `CallsReturn`: nobody waits for `wrMu` for ever |
| `TunnelConn` | 2 writers, 3 of 14 capsules at every limit, `ctrlCh` of 1, fair | `WireFramed`, `TunExact`, `ControlOrdered`, `EndsForCause`, `BrokenConnEnds`; `ImplementsQueue`: the refinement of `CapsuleQueue` |
| `DirectSetup` | 2 goroutines, 1 usable address of 2, 2 connections, queue of 2, fair | `DirectPathRead`, `OneDirectPath`; `DialsEnd`, `PathConverges` |
| `CandidateGathering` | 2 sessions, 4 interfaces, fair | `OffersOwnAddresses`; `GatheringEnds`: `sendCandidates` gets as far as its message; `ResultSent` |

**Bounds.** Three relay connections let one be published, one displaced and one in its
handshake; two direct connections overlap on a proxy and race on a client; a second retrier is
there to be started wrongly. Three handlers are two connections of one peer and one source, or
two sources and one destination; two envelopes can interleave. Three sessions on two numbers
reuse a number; three messages overfill a channel of two. One peer is enough for the
multiplexer, because the properties checked do not look at the sender; `SessionMuxCollision`,
whose property does, has two. On the uplink two streams let a writer outlive the first, and the
third envelope meets two others. The capsules lie on both sides of every limit in the code
(varint forms, shortest packets, MTU, longest capsule); three of them fill `ctrlCh` and leave
one to be cut. Two probing goroutines are enough to race; they may hold the same address, as
those of two relay sessions do. Deadlock is not checked where a behaviour may end because its
bounded supply (handlers, capsules, sessions) is used up.

**Fairness.** Go schedules a goroutine that can run, and handshakes have time-outs (3 s, 10 s).
`Connect` and `direct.Dial` have none, so `PathManager` assumes nothing of their return. Nobody
owes traffic, breakage or new sessions. One strong fairness condition says the peer exists:
handshakes tried again and again over a working relay succeed once. In the multiplexer,
`readLoop`, `acceptLoop` and readers are scheduled. `sync.Mutex` hands itself to a waiter after
a millisecond, hence strong fairness of the steps that take `wrMu`. A reset of a stream whose
response has ended arrives; that the relay reads is a hypothesis of `CallsReturn`, not an
assumption. Cooldowns, the 30 s of a probing loop and the 2 s of a STUN query end, because
clocks run; nothing is assumed of `WriteControl`, which depends on the relay; `PathConverges`
states what it needs of the network as hypotheses. The QUIC handshake of a dial ends by
quic-go's own time-out; its fairness is strong because the model has to wait for a free
connection identifier. Liveness runs use no symmetry.

### Where code and text disagree

These runs end in a counterexample to something a comment or `README.md` says; the
quotes are in `findings`.

| Run | Counterexample |
|---|---|
| `PathManagerClientRetry` | `fallbackToRelay` has closed the only session and sees `retryingConn` of a goroutine that has decided to return; nobody dials, although the relay stays up (`FallbackRecovers`, under the fairness above) |
| `SessionMuxCollision` | two clients with the same session number share a session on the proxy |

TLC also refutes the following when the property is added to the configuration named; no run
is kept for them.

| Property, configuration | Counterexample |
|---|---|
| `DirectActiveFlagged`, `PathManagerProxy` (comment `manager.go:37`) | the end of a replaced direct connection clears `hasDirectPath` under the new one |
| `DeadConnReplaced`, `PathManagerClientLive` with `Role = "proxy"` (comment `manager.go:888`) | the proxy restores a relay connection that is dead and stays on it |
| `ServedPeerReachable`, `RelayServer` (comment `relay.go:22`) | the old handler's `unregister` deletes the newer connection's entry |
| `LostStreamEndsSessions`, `SessionMuxProxy` with `Dials = TRUE` (comment `proxy.go:311`) | `NewSession` overwrites an incoming session with the number it gives out; `closeAllSessions` does not find it |
| `DialsEnd` and `PathConverges` without `[]~Stuck`, `DirectSetup` (comment `listener.go:125`) | a connection that is gone before its request keeps `handleConnect` waiting; the listener accepts nothing more |

For `DirectActiveFlagged`, `ServedPeerReachable` and `OwnStreamOnly` section 4 proves that a race
of the kind shown is the only way to violate them, and for the retry that it is the only way to
be left without a goroutine.

The same specifications allow the following, for which no run is kept (see the notes of
`hazards`). `setupRelayPeers` may clear a `relayConn` that a retry goroutine has just published
on the new stream, so `NoLostSession` is a property of the proxy only. A relay dial that ends
after a promotion calls `SetConn` over the direct path. When a relay session breaks while the
relay stays up, the client dials no new one. `Close` of an old connection removes a newer
session with the same number. Two handlers of the relay that forward to one stream at once mix,
lose or repeat envelopes on it. The doc comment of `setupRelayPeers` says it resets the
direct-path state; the code keeps it, for the reason its own body gives. No code closes
`ctrlCh`, so `controlReadLoop` does not end with its connection (`relay_conn.go:80`,
`manager.go:527`). A probing loop that outlives a reconnect puts back a cooldown that the
reconnect cleared so that candidates are "probed fresh" (`manager.go:259`). When two dials
overlap, the client keeps the first and the proxy the last, so the proxy may send on a
connection that the client is about to close.

## 4. Proofs

The theorems hold for any constants that satisfy the modules' `ASSUME`s, which TLC also
evaluates. Each is `Init => Inv`, `Inv /\ [Next]_vars => Inv'` with one step per action,
and a temporal step. A component's theorems are in the module with its name and `Proofs`;
the refinement of `SessionChannel` is in `SessionMuxProofs`, that of `CapsuleQueue` in
`TunnelConnProofs`, and what the tunnel's theorems need to know of the encoding of capsules is in
`CapsuleProofs`.

| Theorem | Property | Strengthening, and why |
|---|---|---|
| `TypeCorrect` | `TypeOK` | none |
| `RetrySingleFlight` | `RetryFlagExact` | `DialingIsRetrying`: only a goroutine in its dial has a session, so that the end of a dial moves no other one |
| `RelayConnUsable` | `RelayConnNotClosed` | `FreshUnknown`: a session before its publication is unknown to others; `PendingNotCurrent`: what is about to be closed is no longer `relayConn` |
| `ClientDirectFlag`, `ClientActiveRead` (client) | `DirectFlagOwned`, `ActiveHasReader` | `NoRestore`: a client never takes the proxy's branch of the fallback |
| `ProxyKeepsSessions` (proxy) | `NoLostSession` | `NoDrop`: a proxy never takes the client's branch; `DisplacedIsClosing`: a replaced connection is remembered only until it is closed |
| `RelayTypeCorrect`, `RelayMapServing` | `TypeOK`, `RegisteredIsServing` | `HandlerInv`: which locals a handler has set at each point |
| `RelayReachable` | `UnreachableAfterReturn` | `HandlerInv`: only `Unregister` takes an entry away |
| `RelayDelivers`, `RelayKeepsOrder` | `DeliveredToDst`, `PerSourceOrder` | `HandlerInv` for the stream looked up; `DeliveredInv`: a stream not yet accepted is empty; `WrittenBefore`: what a handler has written precedes what it is about to write; `SharedInv`: handlers that race do so on a stream in `shared` |
| `RelayKeepsWhole` | `EnvelopesWhole` | `HeaderLast`: until the payload follows, the header is the last thing on a stream not in `shared` |
| `MuxTypeCorrect`, `MuxMapsOpen` | `TypeOK`, `OpenIffMapped` | `MapInv`: numbers and entries of the map agree, and whatever a channel, a holder or `readLoop` refers to has been created |
| `MuxInOrder` (either role) | `InOrder` | `OrderInv`: what a session has read, holds in its channel and is being carried to it increases in this order, and nothing has a number yet to come |
| `MuxImplementsChannel` (either role) | `ImplementsChannel` | `MuxInv`, `OrderInv` `CarriedNumber`: what `readLoop` carries has the number of the session it goes to; `ChannelStep` shows each step of `SessionMux` to be a step or a stutter of `SessionChannel`, `NumberKept`/`NumberSet` say what happens to the mapping |
| `UplinkFramesWhole`, `UplinkCutOnlyWhenLost` | `FramesWhole`, `CutOnlyWhenLost` | `LockInv`: a writer inside `Encode` holds `wrMu`, so the pipe is not replaced under it; `PayloadInv`: the last thing on the stream of a writer that owes a payload is its header |
| `DirectPathUnique` | `OneDirectPath` | `PathInv`: who has the path, a goroutine between the lock and `SetConn` or a forwarder, without counting; `Types` |
| `DirectPathHasReader` | `DirectPathRead` | `HeldServed`: it holds already for the connections of goroutines whose `Dial` is over; `QueueFresh`: a connection is queued once, before the proxy starts on it, so that accepting the next one disturbs none in use |
| `UplinkTypeCorrect` | `TypeOK` | the same `LockInv`: a writer inside `Encode` has a pipe |
| `SetupTypeCorrect` | `TypeOK` | `AddrInv`: a goroutine that probes has an address; `ListenerTypes`: the accept queue is within `AcceptCap` |
| `GatherTypeCorrect`, `GatherOffersOwn` | `TypeOK`, `OffersOwnAddresses` | `PostOnce`: a query that has not ended has posted nothing, so `stunCh` has room; `OwnResult`: from the answer to the message, a session carries the address mapped for its own request only |
| `VarintRoundTrip` | none | for all values below 2^62 and any bytes that follow; a case per form, from the digits of `Word` |
| `TunnelTypeCorrect`, `TunnelFramed` | `TypeOK`, `WireFramed` | `Framed`: see below |
| `TunnelTunExact`, `TunnelControlOrdered`, `TunnelEndsForCause` | `TunExact`, `ControlOrdered`, `EndsForCause` | inductive together with `TunnelInv`, by which the capsule that is read is the next one that was written |
| `TunnelImplementsQueue` | `ImplementsQueue` | `TunnelInv`; `SendStep`, `TakeStep`, `StopStep` and `HandleStep` show each action to be a step of `CapsuleQueue`, `AfterAppend` and `AfterTail` say what happens to the mapping |

**What the races cost.** Four statements that comments make about the code do not hold without
a condition (section 3). The following theorems name the condition and show that nothing else
can break them. A condition on states is a hypothesis `[]H`, one on steps `[][A]_vars`;
each is met by behaviours of the unchanged specification in which connections come, go and
overlap in every other way.

| Theorem | Property | As long as | Strengthening |
|---|---|---|---|
| `StreamsSeparateApart` | `OwnStreamOnly` | `NumbersApart`: no peer's data find an open session of another peer under their number | `CarriedOwn` |
| `RelayReachableIfOneHandler` | `ServedPeerReachable` | `OneHandlerPerPeer`: a peer has one request at the relay at a time | `OwnEntry`: the entry of a served peer is that of its handler |
| `ClientDirectFlagged` (client) | `DirectActiveFlagged` | no condition | `ClientInv` |
| `DirectFlaggedIfOnePath` | `DirectActiveFlagged` | `OnePathAtATime`: direct connections hold the path one at a time | `PathInv`: the flag is set exactly while one holds it, and mion's direct connection has its forwarder |
| `ClientRetryKept` (client) | `RetryNotLost`: without `relayConn` and direct path somebody retries | `StartHeard`: no start of `retryConnectPeer` is skipped because of a goroutine that is `Settled`, that is, will return without looking at the entry again | `SoughtInv`: without a path, some goroutine is `Seeking` or some fallback is about to start one |

With one peer `NumbersApart` is no condition (`OnePeerApart`). A stream is a peer and a number,
so none of this tells the streams of two runs of one client apart. `RetryNotLost` looks at the
entry only: `setupRelayPeers` may have cleared `relayConn` under a session that works. `Settled`
covers more than the deferred function: a goroutine that has published its session and not yet
called `SetConn` does not look at the entry again either, and if the session is dropped in
between, the start that follows is skipped.

**The tunnel.** `WireFramed` is not inductive: it allows a wire that ends inside a payload
after which the next header would be written. `Framed` says more while the connection is
open: what is on the wire, followed by what the writer with `wrMu` still has to write
(`Missing`), is exactly `FlattenSeq(Untaken)`; only after `Break` is it a prefix. For the
reader's step the proof has to parse: `ParseVarint` reads an integer from a wire of
which only a first part has arrived (from `VarintRoundTrip` and `Splitting`), `ParseHeader`
and `TakePayload` go on to the end of the capsule, and `NextCapsule` concludes that the
type, the length and the payload are those of `written[consumed + 1]` and that what is left
is framed again. The other theorems then reason about places in `written` only:
`ListsAppend`, `ListsTail` and `ListsBound` say what an element more or less does to `Lists`
and that a full `ctrlCh` means as many earlier control messages.

`FlattenSeq` is defined by a recursive function, and the library's induction
theorems cannot be instantiated. `CapsuleProofs` therefore proves induction as a fact about
sets (`Induct`, from the least-number principle `Least`, itself from the well-foundedness
of `<`), and with it that the recursive function exists and is unique (`ConcatsExist`,
`ConcatsUnique`), which gives `FlattenAppend` and `FlattenHead`.

The assumptions of the tunnel's proofs are that type and length of a capsule are below 2^62
(`CapsuleAssumption`; in the code they are 0, 1 and the length of a slice), that the bounds
are natural numbers and that `None` is no capsule, writer or source.

**Only model-checked**: the liveness properties, since fairness is outside the prover's reach.
Every invariant that a passing run checks is also a theorem, for the role it is checked in.

## 5. Not modelled

- Identity, authentication and TLS set-up are cryptography: the models take a handshake
  with the expected peer as given.
- Control messages are JSON of one record, and the configuration is a sequential line
  parser. Both are string conversions without shared state, for which unit tests are the better tool.
- The daemons set up processes and do I/O.
- mion, quic-go, connect-ip-go, pion/stun and net/http2 are external. Their behaviour is taken
  from how the code uses them, and the models are only as good as that.
- Shutdown: when the context is cancelled every goroutine returns.
- `nextSID` has 32 bits and wraps after 2^32 dials; `NewSession` stays below `MaxSID`.
- `generation` is read without its lock (`manager.go:579`) but logged only, `validated`
  grows and is never read, `controlLoop` is never fed, `NewRelayTunnelConn` is never called.
- TLC's integers have 32 bits, so that varints of eight bytes, which are longer than any
  capsule the reader accepts, are in the proofs but not in a run.
- A composition of client, relay and proxy. The three meet in streams of envelopes, whose
  guarantees (`FramesWhole`, `PerSourceOrder`, `ImplementsChannel`) are checked part by part. It
  was not built: the relay and the multiplexer have about 10^6 states each at the
  bounds above, so their product would need bounds too small for the races. The
  restart of a peer appears as the loss of its connections.
