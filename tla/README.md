# Verification of the LoRa Gateway Bridge

The bridge stands between LoRa packet-forwarders, which speak the Semtech UDP
protocol, and an application server, reached over MQTT, CoAP or HTTPS. This
directory holds TLA+ models of its core, the TLC configurations that check them
and theorems about them that TLAPS proves.

    tlc -workers 2 -config GatewayRegistry.cfg MCGateway.tla
    tlc -workers 2 -config BridgeModes.cfg MCModes.tla
    tlapm ModesProofs.tla

## 1. Inventory

| Part | Source | State it keeps | Operations | Modelled |
|---|---|---|---|---|
| Semtech UDP backend | `gateway/backend.go` | registry of gateways (`gateways`, RWMutex), three unbuffered channels, UDP socket, WaitGroup, `closed` | `NewBackend`, `readPackets`, `handlePacket` and its handlers, `sendPackets`, cleanup loop, `Send`, `SendTXPK`, `Close` | `GatewayBackend` |
| Packet-forwarder protocol | `gateway/structs.go` | none | `GetPacketType`, binary and JSON (un)marshalling | `SemtechPackets` (what decides control), `Conversions` (JSON) |
| Conversions | `gateway/backend.go:410-539`, `newGatewayRX`, `NewrxPacketBytes`, ... of the three server backends | none | packet-forwarder JSON to `gw` structures to server JSON, and back | `Conversions` |
| MQTT backend | `backend/mqttpubsub/backend.go` | `gateways` (topics), `mutex`, `txPacketChan`, paho client | `SubscribeGatewayTX`, `UnSubscribeGatewayTX`, `onConnected`, `txPacketHandler`, `publish` | `MqttBackend` |
| paho client | `vendor/.../paho.mqtt.golang` | tokens, router lock, channels, connection | those the MQTT backend calls, `outgoing`, `alllogic`, `matchAndDispatch`, `internalConnLost`, `reconnect` | `MqttBackend` |
| Wiring | `cmd/lora-gateway-bridge/main.go` | none | `onNew`, `onDelete`, RX, stats and TX pumps, the CoAP subscriber | `MqttBridge` (MQTT mode, with paho), `BridgeModes` (every mode) |
| Start-up loop | `main.go:37-116` | the three backend pointers | choice of a server, retry every two seconds, bind | `BridgeModes` |
| HTTPS backend | `backend/https/backend.go` | `txPacketChan`, HTTP client | `NewBackend`, `publish` | `BridgeModes`, `Conversions` |
| CoAP backend | `backend/go-coap/backend.go` | connection, `txPacketChan` | `NewBackend`, `publish`, `SubscribeGatewayTX` | `BridgeModes`, `Conversions` |
| CoAP codec | `backend/go-coap/message.go` | none | building, encoding and parsing messages | `CoapMessage` |
| CoAP mux, server, client | `backend/go-coap/{servmux,server,client}.go`, `example/server` | the mux's map, the connection | `Handle`, `match`, `Serve`, `Conn.Send`, `Conn.Receive` | `CoapMux`, `CoapExchange` |
| CoAP over TCP | `backend/go-coap/messagetcp.go` | none | framing | no |
| Flags, TLS files, examples | `main.go:191-261`, `NewTLSConfig`, `*/example` | none | | no |

How they interact. A datagram is read by `readPackets` and handled by a
goroutine of its own. A PULL_DATA updates the registry; a gateway that is new
makes `set` call `onNew`, *with the registry's lock held*, and in MQTT mode
`onNew` subscribes to the gateway's topic, a round trip to the broker. The
acknowledgement goes through the unbuffered `udpSendChan` to `sendPackets`. A
PUSH_DATA is acknowledged, then its statistics and frames go one by one through
`statsChan` and `rxChan` to two pumps of `main.go`, which publish them. A
downlink comes from paho's router through `txPacketHandler` and `txPacketChan`
to the TX pump, which calls `Send`: it looks up the registry and hands a
PULL_RESP to `sendPackets`. Once a minute the cleanup goroutine removes the
gateways that sent no PULL_DATA for a minute, calling `onDelete` with the lock
held.

What is hard, and what makes each part correct:

* **Registry.** Callbacks run under the lock and may fail; the check and the
  store of `set`, and the comparison and the delete of `cleanup`, are each one
  decision. Correct: the lock always comes back, `onNew` once per entry, only
  silent gateways go.
* **Downlinks.** A route is used after the lock is gone. Correct: nothing is
  sent to an address the gateway did not pull from.
* **Acknowledgements.** They share one sender with everything else. Correct:
  every ping is answered, whatever the consumers of uplinks do.
* **Uplinks.** One refused frame ends the loop over the others. Correct: every frame
  before it is forwarded, all of them if there is none.
* **Shutdown.** Channels are closed under their senders; the WaitGroup counts
  from inside the goroutines. Correct: nothing in flight is lost or panics, and
  `Close` returns.
* **MQTT.** Connections break at any point of a subscription; `onConnected` runs
  next to a call in flight. Correct: no gateway loses its topic, calls return.
* **Content.** Two or three conversions in a row, with integers of several widths
  and defaults. Correct: what the other side reads is what was said, but for a
  list of exceptions that is written down.
* **Modes.** One `main.go` serves three backends; pointers of the others are nil
  and channels of theirs have no reader. Correct: the program gets past its
  start-up loop, acknowledgements outlive a stalled pump. What ends the program
  is said exactly.
* **CoAP messages.** Options are sorted and delta-encoded with three forms of
  numbers. Correct: what was put in comes out, and what came in can go out again.
* **CoAP exchanges.** An answer is whatever datagram comes next. Correct: it is
  the answer to the request unless a finished exchange left something behind, or the
  request did not fit the server's buffer.
* **The whole.** Two locks of the bridge, one of paho and a channel are waited for in
  turn. Correct: no circle, and the two registries agree.

The line-by-line list of hazards is in `PROJECT.json`.

## 2. Modules

| Module | Models | State and actions |
|---|---|---|
| `SemtechPackets` | `structs.go` | no state; the conditions of the decoders, the headers of what is sent. A datagram is its length, version, token, identifier, MAC, whether its JSON is valid, whether it has `stat`, and how each `rxpk` will fare |
| `GatewayBackend` | `gateway/backend.go` | `gateways`/`holder`: the registry and who is inside a section with a callback; `task`: one record per `handlePacket` goroutine; `cleaner`, `todo`, `victim`, `nap`: the cleanup loop; `txJob`, `txOut`: a call of `Send`; `reader`, `sender`, `writing`: the two socket goroutines; `closing`, `crashed` |
| `GatewayDirectory` | the promise of `gateway/backend.go` | an abstract specification without goroutines, lock or channels: the routes asked for, the acknowledgements owed, the packets that leave. `GatewayBackend` implements it (`KeepsDirectory`) under the mapping `routes <- gateways`, `owed <- AckOwed`, `out <- txOut`, `wire <- writing` |
| `Conversions` | the conversions | pure operators, one per function of the source, on records with the fields the code treats differently; `int`, `uint32` and the other widths wrap as Go's do, with `IntSize` for 32-bit and 64-bit builds |
| `BridgeModes` | `main.go`, the HTTPS and CoAP backends | extends `GatewayBackend` and `Conversions`; `servers` is the command line, `boot` the start-up loop, `pump` the two uplink pumps, `incoming`/`carrying` a downlink in `txPacketChan` and in `Send`, `event` what was last posted and what from |
| `CoapMessage` | `message.go` | pure operators on bytes; a loop of the code is a recursive function on the states of the loop (`Keep`, `WriteOptions`, `ParseOptions`), its body an operator (`KeepOption`, `WriteOption`, `ReadOption`); `Shows` is the reference they are checked against, stated without bytes |
| `CoapMux` | `servmux.go` | pure operators; `match` is the set of patterns the loop over Go's map can end with |
| `CoapExchange` | `client.go`, `server.go`, `example/server` | `draft`: a request being built; `waiting`/`answer`: `Conn.Send`; `toServer`/`toClient`: the network, read through `ReadFromUDP`, which keeps the 1500 bytes the buffers hold; `late` remembers that a finished exchange left a datagram behind |
| `GatewayBackendProofs`, `DirectoryProofs`, `MqttProofs`, `BridgeProofs`, `ModesProofs`, `CodecProofs`, `CoapProofs` | | theorems (section 4) |
| `MqttBackend` | `mqttpubsub/backend.go` and paho | `subscribed` is `b.gateways`; `at`, `call`, `token`: the owners of tokens (`SubscribeGatewayTX`/`UnSubscribeGatewayTX`, each `onConnected`); `conn`, `session`, `inbound`: connection and broker; `holding`, `incoming`, `delivering`: the way of a downlink through paho; `pub`: the callers of `publish` |
| `MqttBridge` | `main.go`, MQTT mode | extends `GatewayBackend`, instantiates `MqttBackend`; a call from one into the other is one step of both |
| `MCGateway`, `MCMqtt`, `MCBridge`, `MCModes`, `MCCoap` | | instances for TLC |

Each handler is cut where another goroutine can come in: at a lock, a callback,
a channel. A section under the lock that calls nothing is one step. A send on
an unbuffered channel is one step with its receive, so `SendPullAck`,
`SendPushAck` and `TxSend` need a `sendPackets` that waits in its receive.
`set` is `SetKnown`, or `SetNew` followed by `OnNewSucceeds`/`OnNewFails`;
`cleanup` is a scan in any order (Go's map iteration), with `onDelete` as a
step of its own between `CleanupExpired` and `OnDeleteSucceeds`/`OnDeleteFails`.
`handleTXACK` only logs: it is part of `Discard`.

Abstractions. Time is the age of each route, in ticks, capped at
`Expiry + 1` because the code only compares it with one minute. `time.Now()` in
`handlePullData` is taken before the lock: `stamp` grows while the handler
waits. A frame is `good`, `badCRC` or `undecodable`. A downlink is the gateway it is
addressed to. In `MqttBackend` a topic is its MAC, uplinks have no content, and
a broker grants what it is asked for (the code does not look at SUBACK return
codes). What the client does is translated from the vendored source; the broker and the
network are assumed. `Send` is called by one goroutine, as in `main.go`; `SendTXPK` has the same steps.
In `Conversions` the fields that are copied, or converted there and back without
loss, are one field `other`; a data rate is its spreading factor and bandwidth with
the form its text has; a base64 text is what it decodes to. In `BridgeModes` a call of the MQTT
backend returns, fails or hangs (`MqttBackend` says why), a panic ends the program, and
`publish` of the HTTPS backend may get an answer that is a downlink. A polarisation, which a
server may leave out, is a sequence of at most one Boolean. In
`CoapExchange` requests are built while nothing is in flight, and the server's goroutines are one step each, because the
network mixes their answers anyway. The example server imports the CoAP package under its original
name, which is not vendored; the model runs its handlers on the repository's copy.

## 3. Runs

Passing:

| Run | Asks | Bounds | States |
|---|---|---|---|
| `GatewayRegistry` | types, lock discipline, `onNew` once per entry, written packets justified, only expired gateways evicted, the abstract directory implemented | 2 handlers, 2 gateways, one of which moves between 2 addresses and 2 versions, downlinks to the one that moves, `onNew`, `onDelete` and writes failing; PULL_DATA only | 600 k |
| `GatewayLive` | every PULL_DATA and PUSH_DATA acknowledged with consumers that may stop; uplinks forwarded up to the first refused frame when they do not; silent gateways forgotten | 2 handlers, a PULL_DATA, two PUSH_DATA (statistics and two frames; a frame that does not decode between two that do) with the CRC check skipped | 21 k |
| `GatewayShutdown` | `Close` returns unless a panic ends the process; nothing in flight when it does; downlinks leave `Send` | 1 handler, all kinds of accepted and refused datagrams, 1 downlink, failing reads and a failing `conn.Close` | 56 k |
| `MqttReconnect` | topics restored after a reconnect, no stray topics, `b.mutex`, calls return | 2 gateways, 2 overlapping `onConnected`, 2 packets in transit, channel of 1, connections breaking any number of times | 179 k |
| `BridgeModes` | content of uplinks, statistics and downlinks; what ends the program and what does not; acknowledgements behind a stalled server; the start-up loop | 1 handler, 1 gateway, a PULL_DATA and a PUSH_DATA, each server alone, MQTT with CoAP, none; a PUSH_DATA of two frames, 7 `rxpk`, 2 `stat`, 3 `txpk`; 2048 values of `uint32` and of `int` | 106 k |
| `CoapExchange` | codec against its reference, also for datagrams of other peers; the route is unique; answers match | 3 message headers, 16 options, at most 3 set, 6 requests, one of them longer than the server's buffer, an answer longer than the client's, 2500 foreign datagrams, 2 datagrams in flight each way, any of which may be lost, late or repeated | 21 k |
| `BridgeRoutes` | the two registries agree; a subscription runs inside its section; after a reconnect a registered gateway has its topic | 1 gateway, 1 handler, pings and uplinks, broken connections, failing subscriptions | 1.6 M |

Disagreements with what the repository says (expected violations):

| Run | What happens | Said in |
|---|---|---|
| `SenderDies` | one failing write ends `sendPackets`; no ping is answered any more | `docs/content/install/debug.md:53` |
| `PublishHangs` | a QoS 0 publish whose write fails never returns; its pump is lost | `docs/content/overview/_index.md:20` |
| `BridgeDeadlock` | registry lock, router lock, `txPacketChan` wait in a circle | `docs/content/install/debug.md:53` |
| `StaleSubscription` | an evicted gateway stays subscribed (`main.go:105` has the condition the wrong way round) | `docs/content/overview/_index.md:26` |
| `UnsetPolarisation` | an MQTT downlink that leaves the polarisation out is sent with `false`, because `txPacketHandler` makes a pointer of its bool | `docs/content/use/data.md:95`, `gateway/backend.go:483` |

`BridgeDeadlock` in words: gateway `g` is subscribed and falls silent, cleanup
evicts it, and it stays subscribed; two downlinks for it arrive; its next
ping makes `set` lock the registry and call `SubscribeGatewayTX`. The TX pump
took the first downlink and waits in `get` for the registry. The router, inside
`txPacketHandler` with its own lock held, waits to give the second one to the TX pump.
`Subscribe` waits in paho's `addRoute` for the router's lock. Nobody moves again.
With two gateways no eviction is needed: one that is known receives the downlinks, the
other one is new.

At shutdown, `Close` closes `udpSendChan` under handlers and a `Send` that may still send on it, and such a
send panics (`SendPanics`), although the next log line says that the last packets are being handled.
`CloseReturns` counts this as an end of the process; nothing else ends it.

What `BridgeModes` shows, and the documentation does not speak of: in CoAP and HTTPS mode one gateway that stays silent for a minute ends the
program, because `onDelete` calls a method of a nil MQTT backend
(`SilentGatewayKills`), and without a CoAP server this is the only panic
(`AliveWhileHeard`). With one there are two more: a CoAP datagram without a path, and, when an
MQTT server is configured too, the CoAP subscriber on a backend that was never made
(`NilSubscriber`, main.go:120: it reads a field of a nil pointer as soon as it runs). An HTTPS
response that is a `txpk` stops the pump that published, for good, but the
acknowledgements go on (`AcksOutlivePumps`). Of the content, an FSK uplink loses
its bit rate and outside MQTT mode is called a LoRa one; an MQTT downlink always
has bandwidth 125; the MQTT field
`txnb` is the number of downlinks received. A PUSH_DATA with an undecodable frame loses the
frames behind it (`FramesForwarded` says which arrive).

Why the bounds are enough. Two handlers are the least with which `set` can race
itself, and the lock makes more of them wait in the same place; two gateways
are the least with which a downlink can be for another gateway than the one
being set or evicted; one moves, so stale addresses and versions show. Expiry
and period of one tick let a route be fresh, at the limit and past it. In
`MqttReconnect` an `onConnected` may still retry when the next one starts; the
model lets no connection break while all of `Reconnectors` are busy (the guard
of `ConnectionBreaks`). `InboundBound` bounds the packets between broker and
client, `Depth` is paho's `MessageChannelDepth` (100), cut to 1 so that it fills.

`BridgeModes` has one handler because what it adds, content and pumps, is per
packet; the races of handlers are those of `GatewayBackend`. Its 2048 integers hold the
data rates of LoRa and put counters, and a rate that `Atoi` refuses, on both sides of the largest
`int`; the theorems cover the real widths. The options of `CoapExchange` are chosen so that deltas and lengths fall on both
sides of 13 and 269, where the encoding changes; its foreign datagrams contain every
continuation of up to three bytes over the bytes the parser tells apart.

Symmetry is used in `GatewayRegistry`, on handlers, with safety properties only.
`CHECK_DEADLOCK FALSE` is set where the process may end (`GatewayShutdown`, `BridgeModes`,
`UnsetPolarisation`).

### Fairness

Goroutines that can run do run (WF). A lock or a channel that is busy again and
again is handed over in turn (SF): `sync.RWMutex` lets a waiting writer or a waiting reader
in before newcomers, and goroutines queue on a channel in order of arrival. Callbacks return in
`GatewayBackend`; in `MqttBridge` that is no assumption, the callback is the
MQTT backend's code. No fairness is given to arrivals, downlinks, faults or to
the wish to close. `ConsumersReceive` is not assumed but is the hypothesis of
`FramesForwarded`, so that the acknowledgements are checked without it.
In `BridgeModes` nothing is
assumed of `publish` outside CoAP mode: no token and no response has to come.
`StartsUp` supposes a server that a repeated set-up finally reaches (SF).
`CallReturns` and `BridgeAnswersPull` suppose a connection that finally stays up.

## 4. Theorems

`GatewayBackendProofs` proves, for all sets of gateways, addresses, handlers
and datagrams, all limits and all combinations of faults (the assumptions are
the named `ASSUME`s of `GatewayBackend`: threads are distinct, arrivals are
datagrams, limits are naturals):

| Theorem | Statement |
|---|---|
| `TypeCorrect` | `Spec => []TypeOK` |
| `LockCorrect` | `Spec => []LockMatchesSections` |
| `NewStaysNew` | `Spec => []NewGatewayStaysNew` |
| `EvictionCorrect` | `Spec => EvictsOnlyExpired` |
| `WritesJustified` | `Spec => []WrittenIsJustified` |
| `CloseLetsGo` | `Spec => []NothingInFlightAtReturn` |

`DirectoryProofs`: `ImplementsDirectory`, `Spec => KeepsDirectory`. `ModesProofs`,
for all configurations, contents and handlers and for `int` as wide as `uint32` or twice
as wide (`WidthAssumption`, `ContentAssumption`: contents are what the JSON decoder lets through):

| Theorem | Statement |
|---|---|
| `UplinkCorrect` | `ModesSpec => []UplinkKeepsContent` |
| `StatsCorrect` | `ModesSpec => []StatsKeepCounters` |
| `DownlinkCorrect` | `ModesSpec => []DownlinkKeepsContent` |
| `AliveCorrect` | `ModesSpec => AliveWhileHeard` |
| `ProgramTypeCorrect` | `ModesSpec => []ModesTypeOK` |

`MqttProofs`, for any number of gateways, of `onConnected` goroutines and of packets in
transit (`OwnersAssumption`, `BoundsAssumption`), and `BridgeProofs`, for the bridge in
MQTT mode (`SidesAssumption` and those of `GatewayBackend`):

| Theorem | Statement |
|---|---|
| `MqttTypesHold` | `MqttSpec => []MqttTypeOK` |
| `MutexHolds` | `MqttSpec => []MutexExcludes` |
| `TopicsAreKnown` | `MqttSpec => []NoStrayTopics` |
| `TopicsAreRestored` | `MqttSpec => []AllTopicsRestored` |
| `BridgeRunsBoth` | `BridgeSpec => Spec /\ M!MqttSpec` |
| `RoutesAreSubscribed` | `BridgeSpec => []RegisteredIsSubscribed` |
| `CallsAreInSection` | `BridgeSpec => []SubscribesInsideSection` |
| `RegisteredHaveTopics` | `BridgeSpec => []RoutesHaveTopics` |
| `BridgeKeepsDirectory` | `BridgeSpec => KeepsDirectory /\ EvictsOnlyExpired /\ []NewGatewayStaysNew /\ []WrittenIsJustified` |

`CodecProofs`, for every message of `Messages` and every datagram:

| Theorem | Statement |
|---|---|
| `ExtendedReadsBack` | every option delta and length up to 65804 is read back as it was written |
| `ParsedWellFormed` | `ParseMessage` returns an error or exactly one message of `Messages`, whose token has at most eight bytes |
| `CodecRoundTrip` | a message with a token of at most eight bytes is read from its encoding as one message, and `Shows` relates the two |
| `LongTokenRefused` | one with a token of nine to fifteen bytes is refused |

`CoapProofs`, for any requests, pool of options, foreign datagrams, multiplexer and
number of datagrams in flight (`ExchangeAssumption`):

| Theorem | Statement |
|---|---|
| `RouteUnique` | `ExchangeSpec => []RouteIsUnique` |
| `ExchangeTypeCorrect` | `ExchangeSpec => []CoapTypeOK` |
| `WhatIsSentIsSeen` | `ExchangeSpec => []RoundTrip` |
| `WhatIsAcceptedCanBeRelayed` | `ExchangeSpec => []Relayable` |
| `AnswersBelong` | `ExchangeSpec => []AnswersMatch` |

What these suppose of a message: the value of an option has the type `optionDefs` gives its
number (the callers of `SetOption` choose it; `toBytes` panics on any other type than its own
seven) and at most 65804 bytes (a longer one does not fit the two bytes of an extension).
`ExchangeAssumption` starts no request with a token of more than fifteen bytes (`MarshalBinary` writes
the length modulo 16 and all of the token, so a receiver takes the rest of it for options) and sends none of
more than 65507 bytes, which no UDP datagram holds (`Transmittable`). Nothing is supposed
of a foreign datagram but that it consists of bytes.

None of the first six is inductive alone; the proof is in layers. `TypeOK` needs
`TasksAgree` (a handler that is past decoding has a datagram its decoder
accepted). `LockMatchesSections` rests on the types: a handler in `onNew` holds
the lock, so nobody else can be there. `NewGatewayStaysNew` rests on the lock:
every store happens with the lock free or in the holder's hands. `EvictsOnlyExpired` needs
`VictimsExpired`: while `onDelete` runs, the gateway it was called for is in the registry and still
expired, because nobody can store a route and age only grows. `WrittenIsJustified`
needs `RoutesJustified`: every route in the registry, and every PULL_RESP waiting for the sender, is
one some accepted PULL_DATA of that gateway asked for. `NothingInFlightAtReturn` needs that only a
running sender holds a packet: `Close` may return before the sender has started, and
then the closed channel keeps it from ever getting one.

`AllTopicsRestored` speaks of the moment when every `onConnected` is done; the inductive
`RestoreInv` says what holds before: a topic the connection lacks is one some
`onConnected` has still to ask for, and a call whose token was completed on an
earlier connection (granted or failed) is followed by an `onConnected` that waits for
`b.mutex` and will read `b.gateways` after the call has noted its outcome. That in turn needs
`MutexExcludes`, and that a goroutine with a token is inside the lock
(`TokenPlaces`). `NoStrayTopics` needs `CallersTopics`: a call that failed finds an
empty session, because no `onConnected` can subscribe before the call gives the
lock back. `TakeSuback` completes the right token because a SUBACK in transit
has one owner, which waits for it (`AcksAwaited`).

`BridgeRunsBoth` is by cases on the joint steps. The invariant that ties the sides
together is `CallOfOnNew`: the call in `b.mutex` is that of the one handler in `onNew`, for
its gateway. `RegisteredHaveTopics` takes `TopicsAreRestored` over to the bridge and adds
that every gateway of the registry is in `b.gateways`.

`ImplementsDirectory` maps every action to a step of the directory or to a stutter; it needs
`TypeOK` (a handler at its acknowledgement has a datagram that was accepted) and `VictimsExpired` (what is deleted may be
forgotten). The theorems of `ModesProofs` rest on
`BackendSteps`: every step of the program is one of `GatewayBackend`'s or a panic,
so its invariants hold in the program. `DownlinkCorrect` needs `DownlinksMade` (what waits in
`txPacketChan` or in `Send` was made from a message by the backend there is); `StatsCorrect` that a `uint32` survives an
`int` of the same width; `AliveCorrect` that every panic without a CoAP server is `onDelete`'s, with no MQTT server either,
and that `onDelete` runs only for an expired gateway. `RouteUnique` rests on `LongestIsUnique`: two
patterns of one length that match one path are the same. `ProgramTypeCorrect` needs
that no pump waits for an answer in CoAP mode and none hangs in MQTT mode (`PumpsOfMode`), and that
the downlink in `Send` is the one `GatewayBackend` knows by its gateway (`DownlinksOfMode`).

The codec is made of loops, and the provers have no induction over sequences that
can be used. `CodecProofs` therefore starts with two facts proved from the well-foundedness of
`<` on the naturals: a function that satisfies the equation of a loop exists (`LoopExists`),
and a set of loop states each of which leads to a smaller one of the set is empty (`NoShortest`), so that
what a loop does is shown by taking a shortest counterexample. The argument
of `CodecRoundTrip` is then: `Sorted` gives every place of the options one rank, by number and then by
order of the calls (`SortedPlaces`); the writing loop, started behind any option, leaves bytes that the reading loop,
started with the same number, turns into the legal ones among the options that were left
(`AllCarried`; one round each way is `OptionReadsBack`, for which a delta is never negative
because the options are sorted); reading stops at the marker of the payload and nowhere before it, because no nibble written is 15; and what was read is at increasing places of
what was sent (`ReadsShows`). `RoundTrip` and `Relayable` follow once every
message in flight is known to be well formed, `Relayable` through `ParsedWellFormed`.

`AnswersMatch` is not inductive: it says nothing of what is in flight, and it speaks of requests that fit the
server's buffer: cut behind a whole option, a longer one is read as another request, which another handler may
answer. `Paired` does: while
`late` is not set, the client's only datagram that the server has an answer to is the request `Send`
waits for, or everything on the way back is one answer to it, never both. It holds again when the
network has drained, which is when `late` is reset. It was checked by TLC on the instance of
`CoapExchange` before it was proved. That a received message is an answer to
the request takes `CodecRoundTrip` once more, on the way back, for the answer and for as much of its payload as
the client's buffer holds (`Held`); that only a confirmable request is
answered by a handler, and that the type is read as it was written, are lemmas of their own.

Only model-checked: liveness. `PullAnswered`, `PushAcknowledged`, `FramesForwarded`,
`SilentForgotten`, `CloseReturns`, `DownlinkLeavesSend`, `CallReturns`, `BridgeAnswersPull`, `SilentGatewayKills`,
`AcksOutlivePumps`, `CoapUplinksFlow` and `StartsUp` rest on fairness, hence
on `ENABLED`, which the prover cannot reason about. Every invariant and every action
property of a passing run is a theorem. `FramesForwarded` also says that nothing behind a refused frame is
forwarded; that half, too, is only model-checked.

## 5. Not modelled

* Byte layouts of the packet-forwarder's headers, the text of MQTT topics (a
  topic is its MAC), names of codes, logging.
* Frequencies: they survive the way through an `int` of Hz for the bands the
  bridge is used in; a 2.4 GHz one does not fit a 32-bit `int`.
* CoAP over TCP (never called), the example programs, TLS files, flags.
* Steps of the wall clock: time only moves forward.
* `pubsub.Close` and its order after `gw.Close`; shutdown is checked on the
  gateway backend alone.
* A broker that refuses a subscription.

## 6. Plan

1. The invariants of `GatewayBackend` and its directory as theorems of the program in every
   mode, as they are of the bridge (`BackendSteps` carries them over, up to the step that panics).
2. A received message passed on unchanged: its options are legal and sorted, so that the next receiver sees
   the same sequence, not one `Shows` relates to it.
3. Shutdown composed into the bridge: a signal at any point of a subscription.
4. The wall clock as a second notion of time.
