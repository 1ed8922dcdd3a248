# A verification project for ptun

ptun connects hosts behind NATs: nodes log in at a hub, learn of each other from
it, make a UDP hole to each other with its help and carry IP packets through the
hole. This directory holds TLA+ models of that program, the TLC configurations
that check them on small instances, and theorems about them with proofs checked
by TLAPS. Every definition is translated from the Go source; `PROJECT.json` says
which lines each definition stands for (`map`), which component is modelled how
far (`components`), and where the code is hard to test (`hazards`).

    tlc -config MCHub.cfg MCHub.tla      # one run; the others are listed below
    tlapm HubProofs.tla                  # one module of proofs

## The system

| component | state | operations |
|---|---|---|
| hub: logins and sessions (`pkg/hub/hub.go`, `hub_tcp.go`, `session.go`) | `Hub.sessions`, a `sync.Map` from names to sessions; the channel `sessionCh`; a transport and dispatcher per session | accept, `handleLogin`, `saveSession`, `removeSession`, `handlePeerList`, `handlePunch`, `Close` |
| transport (`pkg/proto/transport.go`) | a connection, three bounded channels (`rawCh`, requests, responses), `done`, `closeOnce`, `aliveCount` | `readloop`, `Read`, `SetKeepalive`, `Close` |
| requests and responses (`transport.go`, `message.go`, `dispatcher.go`, `tools.go`) | `responser.replyer`, a map from ids to reply channels; one message counter per process | `SendMessage`, `SendSuccess`, the dispatcher's loop |
| bridge (`pkg/bridge/`, `app/network.go`, `app_android/network.go`) | `Bridge.peers`, a `sync.Map` from names to peers; `peerMutex` | `NewNatPeer`, `ConnectPeer`, `DisconnectPeer`, `handlePeer`, `handleVeth`, `HasPeer`, `Shutdown` |
| NAT analysis (`pkg/nat/analyze.go`) | none | `Analyze` |
| hole punching (`pkg/nat/nat.go`, `pkg/network/raw.go`, `tools.go`) | the sockets and targets of one `MakeHole` call | `genEndpoint`, `tryRemote`, `wait`, `NewRawConn` |
| NAT detection (`pkg/nat/service_simple.go`) | two UDP servers without memory; one socket per `Detect` | `Detect`, `udpDetect`, the servers' loops |
| STUN behaviour tests (`pkg/nat/service_stun.go`) | one socket, the goroutine that reads it, `messageChan`, three mapped addresses | `MappingTests`, `FilterTests`, `AnalyzeStunBehavior`, `Do` |
| exchanger and node loop (`pkg/hub/exchanger.go`, `cmd/node/service/`, `app/node.go`) | the current exchanger, the channel of punches, `s.cancel` | `Run`, `GetPeers`, `PunchPeer`, `handleDetectNat`, `handlePunch`, `Accept` |
| iptables rules (`pkg/device/rule.go`, `rule_linux.go`) | `RuleManager.rules`; the host's `POSTROUTING` chain, which outlives the process | `UpdateIptables`, `ClearAllRules` |
| packet framing (`pkg/proto/packet.go`) | the `bufio.Reader` and the header of the packet being read; a buffer pool | `PackInto`, `UnpackFrom` |
| TUN device (`pkg/device/tun.go`) | the batch being read: `readBufs`, `bufSizes`, `count`, `current` | `Read`, `Write` |
| QUIC/KCP/ciphers, configuration, generated registrations | | see *Not modelled* |

**How they interact.** A node's main goroutine logs in (a TCP transport, a
`LoginRequest`), then asks every few seconds for the list of nodes. For each node
that is not in its bridge it detects its own NAT and sends a `PunchRequest`. The
hub asks the other node to detect its NAT, computes both plans with `Analyze`,
and pushes a `PunchResponse` to each. On both nodes `Exchanger.handlePunch` puts
the response on a channel from its own goroutine; the `Accept` goroutine takes
it, `NewNatPeer` runs `MakeHole` under `peerMutex`, and `ConnectPeer` enters a
new transport over the hole into the bridge, replacing what was there. A keepalive
on that transport closes it when the other end falls silent, upon which its
`handlePeer` goroutine takes it out of the bridge, `HasPeer` becomes false and
the loop punches again. Through the hole goes what `handleVeth` reads from the
TUN device: `Tun.Read` takes packets one by one out of the batches of the device,
each is written to every peer that has its destination, `PackInto` frames it, and
the other end's readloop takes it apart again with `UnpackFrom`.

**What is hard.** Nearly all state is shared between goroutines and guarded
by nothing but the atomicity of one `sync.Map` call; handlers delete by name what
another has stored since; any of three goroutines closes a transport while its
readloop is about to send on a channel that Close closes; answers come late or
out of order and meet closed reply channels; pushed responses are numbered by
the sender's counter and routed by the receiver's; the two ends of a hole decide
by themselves which path they use; a process that dies leaves its firewall rules;
the reader of a connection has lost its place in the stream after one short read;
no answer about a NAT is matched with the question it answers.

**What makes each part correct.**

- *Hub and bridge*: a table never lists a connection nobody looks after; the only
  live connection of a name is listed; no bystander is closed; a dead connection
  leaves the table.
- *Transport*: packets are delivered once and in order; nothing is closed twice;
  after Close nothing stays behind; a silent end is noticed.
- *Requests*: an answer reaches the call that asked or nobody, and the call while it
  waits; a call returns.
- *Hole punching*: what `MakeHole` returns is a path that works, and leads to the peer.
- *Node loop*: both ends of a punch name each other; no hole is entered twice;
  half-open connections heal; the loop never stops; no plan is forgotten.
- *Rules*: nobody's rules are deleted but the node's own, which all go in the end.
- *Framing*: what is returned was packed, whole; over UDP a lost or strange
  datagram spoils no other.
- *Device and forwarding*: each packet once, whole, to every peer it is for.
- *Detection*: the NAT is said to be what it is, and no more open than it is.

## The modules

| module | what it models | built on |
|---|---|---|
| `Registry` | the abstract specification of both tables: a name maps to a live item or to nothing | |
| `Hub` | `hub_tcp.go` and `hub.go`: one login and one handler goroutine per connection | implements `Registry` |
| `Bridge` | `NewNatPeer`, `ConnectPeer`, `handlePeer`, `Shutdown` | implements `Registry` |
| `Transport` | one end of a transport | |
| `Rpc` | `SendMessage` and the dispatcher over a transport | |
| `Analyze` | the pure function `Analyze` and its four cases | |
| `HolePunch` | `MakeHole` on both ends, two NATs, an unreliable network | extends `Analyze` |
| `Node` | node processes, exchangers, the hub's list and punch handlers | takes one step each for what `Hub`, `Rpc`, `HolePunch`, `Bridge` and `Transport` detail |
| `Rules` | the processes of a host one after another, and its iptables chain | |
| `Framing` | `PackInto` and `UnpackFrom` over a stream or over datagrams | |
| `Tunnel` | `Tun.Read`, `handleVeth`, and both uses of a framed connection | extends `Framing` |
| `Detection` | `Detect` and the STUN tests behind any NAT | |
| `*Proofs` | theorems | extend the module of that name; `NatProofs` extends `HolePunch` and `Detection` |
| `MC*` | instances for TLC | extend the module of that name |

An operator whose name ends in `_Something` is a variation of the operator it is
named after, a plausible mistake in that code. No specification uses it; it shows
that a property notices (`PROJECT.json`, `mutants`).

### Hub

`pc[s]` is the line of control of connection `s`. `"wait"`, `"reply"`, `"offer"`
are `handleLogin` and the send on `sessionCh`; `"load"`, `"evict"`, `"store"` the
three calls of `saveSession`; `"serve"` is `RunDispatcher`; `"rload"`,
`"rclose"`, `"rdelete"` are `removeSession`; `"last"` is the Close at the end of
`handle`. Each call on the `sync.Map` is a step, which is exactly the atomicity
the code has. `open` is whether the session's transport is open; `Drop` is a
client that leaves. A request on a closed session is a nil packet, which
`requester.Read` does not test for: `ReadClosed` crashes the process. So does
the send on a `sessionCh` that was closed (`OfferPanic`). `contested` remembers
which sessions were ever handled together with another of their name; most of
what the table guarantees is guaranteed to the others only.

### Bridge

`cpc[p]` is the call of `NewNatPeer` that makes peer `p`, `hpc[p]` its
`handlePeer` goroutine, `spc` Android's `Shutdown`. `peerMutex` is the variable
`mutex`: taken by `NewNatPeer` before `MakeHole` and by `Shutdown`, but not by
`handlePeer`, which deletes by name at any moment. `delPeer` and `addPeer` look
first and act afterwards, in two steps.

### Transport

`rl` is the readloop between reading the packet (`"read"`), looking at `done`
(`"check"`), its `select` (`"select"`, `"parked"`) and its deferred Close. A
parked sender is served by the first receive or panics at the first close, as in
Go. `cl[c]` is the call of Close by the readloop, by the keepalive's checker or
by the owner: each close of a channel is a step. `alive` is `aliveCount`. The
constants say whose transport it is: `Readers` are the goroutines that read and
the channels each of them selects from, `Sends` what the other end sends.

### Rpc

`pc[c]` follows one call of `SendMessage`: write the packet, register the reply
channel, wait, deregister, close the channel. A map write takes two steps, so
that accesses may meet. Go's runtime may notice that and abort (`crash = "map"`).
If it does not, a reader may miss any entry while another is written (`Found`), or
find an id whose channel has not been stored yet or is cleared already
(`HalfWritten`): the dispatcher then sends on a nil channel and hangs
(`disp = "stuck"`). Once two writes have overlapped unnoticed (`tangled`) a reader may find
any channel ever stored under any id, or none. The dispatcher looks an id up and then sends on the unbuffered
channel it found, in two steps: a send on the channel of a caller that has given
up panics (`crash = "send"`). `end` chooses between the hub, which calls from
several goroutines and is pushed nothing, and a node, which calls from one and is
pushed `PunchResponse`s numbered by the hub's own counter.

### Analyze and HolePunch

`Analyze` yields two plans: the targets, the number of sockets to open and of
ports to guess, the range to guess from, and the actions. Waits and TTLs are left
out: `ModifyTTL` restores the TTL by `defer` before anything is sent
(`pkg/network/tools.go:19`), so that `LowTTL` has no effect. `HolePunch` starts
from every pair of detection results (`DetectResults`, with the case that a
duplicated answer makes a hard NAT look easy) and runs `MakeHole` on both ends:
`Start` chooses sockets and guesses, `TryRemote` and `Repeat` send, `Success`
and `Timeout` end the wait. NATs and network are external: a packet on its way
is a mapping that exists, `Deliver` may happen early, late or never.

### Node

Operations that other modules model in detail are one step here, with the
outcomes that the loop, the hub and the bridge can tell apart: `Login` is `NewExchanger` and `saveSession`, `HubRemove`
is `removeSession`, `HoleMade`/`HoleFails` are `MakeHole` and `ConnectPeer`,
`Silent` the keepalive. Of a hole that is made remain the number of its punch
(`links`) and the way the end has settled on (`ways`): the one the other end is on,
another, or the way from a socket to itself (`Itself`). That ends settle on different
ways, on a way that leads to another socket of their own, or alone, is in
`HolePunch`, addresses and all; here two connections are `Joined` when they
are on one way of one punch, and `HolesPaired` is about names: whom each end takes
the other for. What is this module's own is the main loop (`"list"`,
`"walk"`, `"detect"`), the hub's punch jobs, which hold the two sessions they
looked up while those may be replaced, the plans pushed to either end, which wait
in goroutines of their own and are taken in any order, also by the `Accept`
goroutines of exchangers the node has long replaced, and
the connections of each node to its peers.

### Framing and Tunnel

A byte is a cell `<<f, i>>`, the `i`-th byte of the `f`-th packet packed; what it
says (`Values`) is looked at only where `UnpackFrom` takes it for a part of a
header: the bytes of a real header say what was packed, those of a body any value
(over TCP any value of a JSON text, as sessions carry nothing else). `in` is the
stream, or the datagram read last; `in[pos + 1]` to `in[lim]` is what is in the
buffer of the `bufio.Reader`. A read takes any part of a stream
(`ReadStream`) or the head of any datagram that was ever sent (`ReadDatagram`), the
one-byte packets of `MakeHole` included. `UnpackHeader` and `UnpackBody` are the
two halves of `UnpackFrom`; both take a short read for a malformed packet and leave
the rest where it is. Packets are packed by several goroutines; each has a
`bufio.Writer` of its own that holds the whole packet, so that one `Write` carries
it (`WriterSize`).

`Tunnel` adds who writes: over TCP the goroutines of a session; over UDP
`handleVeth` and the keepalive. `TunRead` is `Tun.Read`: `ids` and `sizes` are the
buffers of the batch, the device fills as many as it has packets, the others keep
their sizes, and the size that is returned is looked up after `current` has moved
on. `Visit` is one call of the function that `handleVeth` gives to `Range`, between
which peers are listed and unlisted; `steady` remembers those that stayed.

### Detection

`mapping` and `filtering` say what kind of NAT the socket is behind (RFC 4787,
external), `AddrBehind` what address such a NAT shows to whom the socket asks. `net` holds every answer the server has ever sent to the socket; each may
be read never, once or again, early or late, by the goroutine `Reader` of
`connectStun`, or by `udpDetect` itself. `Handle` is what the test under way
(`step`) makes of whatever answer `Do` was handed; an answer without addresses is
an error response. `Close` closes the socket, the reader's only way out.

### Rules

A process runs `UpdateIptables` rule by rule, works, and clears what it has
recorded rule by rule; it may crash anywhere and have any call fail. `chain` is
the host's, `rules` the process's own memory of it, `foreign` what was there
before. A rule that exists is not recorded.

## The runs

| run | bounds | shows |
|---|---|---|
| `hub` | 2 sessions, 2 names | the table of sessions is a registry; an uncontested session is listed and closed by nobody but its client; closed sessions leave the table; every accepted connection is served or refused |
| `hub_orphan` | 2 sessions of one name | **violated**: the only session of a name may be unlisted |
| `bridge` | 3 peers, 2 names, `Shutdown` | the table of peers is a registry; `addPeer` never refuses; `Shutdown` empties; nobody waits for `peerMutex` for ever |
| `transport` | capacity 1, 2 packets, `maxAliveCount` 1 | order, the one-packet window after `close(done)`, no double close, nothing left behind, silence noticed |
| `rpc` | 2 calls, 2 pushes, 3 ids, both ends | an answer reaches its call; it is dropped only if it is early or late or meets a write of the map; when the dispatcher can panic; calls return |
| `rpc_type` | 1 call, 1 push, 2 ids | **violated**: a call may be given a push |
| `hole` | 2 sockets, 2 guesses, ports 1 to 4, 2 repeats, all pairs of NATs | the returned path works both ways; two ends that look easy return the two ends of one way |
| `hole_peer` | same | **violated**: a node may find itself |
| `node` | 2 nodes; 2 ways of a hole and the way to itself; 2 logins each, 1 punch and 1 failure, or 1 login each and 2 punches | both ends of a punch name each other, across failures; a hole that was left is never entered again; connections that are not joined heal; the loop comes back; every plan is tried |
| `rules` | 3 processes, 3 networks, one of them allowed twice and one not at all | others' rules stay; ordered ends restore the chain; a running node's networks are translated |
| `tunnel` | 2 writers, 3 packets of 4 to 14 bytes, a buffer of 8, a byte of 4 values, 2 peers, batches of 1 and 2 | nothing is returned that was not packed; sessions are in order until a read splits a packet; a datagram that fits yields its packet; packets of even batches are whole; each reaches its peers |
| `detection` | a server of 2 hosts and 2 ports, every NAT, all four calls | the mapping is told right, a filter is not told more open than it is, and the reader is left behind after a late answer only |

**Why the bounds are enough.** Two sessions of two names contain every meeting of
two handlers of a name, and of two of different names; three peers add a
bystander. What holds of tables for any number is proved. Two
packets on a channel of capacity one are one queued and one parked, the only
states a full channel has; the number of repeats only adds rounds that look
alike, and two of them contain a first and a last. Four ports are two that a hard
NAT showed to the hub and two that it may map to. Two punches are the two that
cross when nodes see each other at the same time, and a second one after a first;
two logins are one that replaces another, during a punch; the two together are
beyond TLC in the time a run is given, which is why the run `node` allows one or
the other (`Budgets`), and `HolesPaired` and `NeverReused` are proved for all. Of the
ways of a hole only whether two ends are on the same one matters: two of them suffice,
and of those that the other end is not on one stands for all (`WaysOf`). Packets of 4, 5, 6, 8,
9, 13 and 14 bytes against a buffer of 8 are without a body, small, just as
large, and larger, and a body of 9 is read around the buffer; three packets are
one that goes wrong between two. A byte of four values has one that is no part of a JSON
text's range and two tags; that a length made of two text bytes is refused
(8224 > 8180) is an assumption of the module (`Json`) that holds of the code's
numbers and of the instance's. Batches of one and of two packets, of equal and of
different sizes, are all that `Take` tells apart. `Detection` needs no bound.

Bounds are constants: `Cap` stands for 100 and 10, `ManyLocal` for 256,
`ManyRemote` for 1024, `LowPort` and `HighPort` for 10000 and 65000,
`MaxRepeatTimes` for 5, `BufSize` for 4096, `MaxPayload` for 8180, `Base` for 256,
`Text` for 32; `MaxPackets`, `MaxFrames`, `MaxPushes`, `MaxId`, `MaxLogins`,
`MaxPunches`, `MaxFailures` and `MaxStarts` bound what the code leaves unbounded.
No run declares symmetry. In the run `bridge`, `MCInit` takes one naming of the
peers of each kind instead.

`CHECK_DEADLOCK` is off in all runs because all these systems may stop: all
sessions have ended, a process has crashed, a bound is reached. That nothing hangs
that should go on is what the liveness properties say.

**Fairness.** Goroutines that can run do run, and timers expire: weak fairness for
each goroutine, one formula per goroutine. Clients, remote ends, owners, failures,
answers of the other process, and the process's next start owe nothing. A thread
of `Bridge` takes the mutex once, so weak fairness suffices there. In
`Node` threads compete for `peerMutex` again and again: `sync.Mutex` hands itself
to the longest waiter after a millisecond, which is strong fairness for `HasPeer`
and for the takers of plans. `HubRemove` and the hub's punch jobs are given no
fairness in `Node`: nothing there depends on when the hub acts. `HolePunch`,
`Rules`, `Tunnel` and `Detection` state no fairness: their networks owe nothing, and
neither `UnpackFrom` nor a test promises that an answer comes.

## Where the code does not do what it should

1. **`hub_orphan`** (`hub.go:70`). `removeSession` deletes by name. A node that
   logs in again under its old name, as `Service.Run` does after a failed
   `GetPeers`, makes `saveSession` close the old session, whose handler then
   deletes the new session's entry. The new session is served and open but
   unlisted: no other node sees it or punches to it.
2. **`rpc_type`** (`transport.go:135`). A pushed `PunchResponse` carries an id of
   the hub's counter; when it equals the id of the node's pending request, it is
   handed to that request's caller. `GetPeers` fails the check of
   `tools.go:26` and the punch is lost.
3. **`hole_peer`** (`analyze.go:211`). Between two hard NATs, `LocalAddr` is among
   the targets, which is always `0.0.0.0:port`; ports of `0.0.0.0` are guessed, too.
   A guess that is one of the end's own 256 sockets is answered over loopback. If it
   is the very socket that sent it, the connection answers its own
   keepalives for ever, and `HasPeer` keeps the node from punching again: `Itself` in
   `Node`, which `HalfOpenHeals` has to except.

The models contain more that contradicts no document and is no run of its own:
the bridge orphans a peer by the same delete-by-name; a client that leaves before
it logs in, a late answer, a detection that fails, and a login during Close crash
the process (`ReadClosed`, `crash = "send"`, `Exit`, `OfferPanic`); a failed start
or a crash leaves rules that no later process clears, as a rule that exists is not
recorded; a signal before `Run` has set `s.cancel` calls a nil function. The map `replyer` is
accessed without a lock (`transport.go:229`, `:231`, `:272`): besides the abort by Go's
runtime, a dispatcher that finds an entry being written or deleted may send on a nil
channel and hang for ever (`"stuck"`), and overlapping writes of the hub's
goroutines may mix the channels of their calls up (`tangled`): `OwnAnswer`,
`SendPanicNeedsTimeoutOrPush` and `AnswersNotDropped` except the latter. Of what
this project's later modules contain:

- `UnpackFrom` takes a short read for a malformed packet (`packet.go:114`). Over
  TCP one packet across two segments puts a session out of step; it
  then reads headers from the middle of bodies. `NeverForged` shows that it makes no
  packet of that, as JSON yields no length it accepts, and `InOrderUntilSplit` that
  packets are lost only after such a read.
- Over UDP a packet larger than the 4096 bytes of the `bufio.Reader` never decodes,
  although 8180 bytes may be packed (`packet.go:110`). `DatagramsIndependent` shows
  that the next one does not suffer.
- `Tun.Read` returns the size of the next packet of the batch (`tun.go:138`), and
  after the last one that of the first. In a batch of several sizes packets are
  cut or padded; `CutOnlyInMixedBatch` is what remains true.
- `MakeHole` takes the first packet of any socket (`nat.go:50`, `:131`). If an end
  looks hard, many ways may be open at once and each end may take another; the sockets that
  `NewRawConn` connects then drop each other's packets until the keepalives give
  up. `EasyEndsMeet` says where this cannot happen; that a node notices ends on
  different ways, or alone, is `HalfOpenHeals` of `Node`.
- `HasIP` matches the whole network of a peer's CIDR, so that a packet for one node of a
  subnet is written to every peer whose CIDR has that subnet.
- `Detect` asks two ports of one host: a NAT whose mappings depend on the host only
  looks easy. An answer that arrives twice makes any NAT look easy.
- `AnalyzeStunBehavior` runs the filter tests over the socket whose mapping tests
  have just sent to the other host (`service_stun.go:53`): address dependent
  filtering passes for none. `"NoNAT"` is never said, as the socket is bound to
  `0.0.0.0` (`:115`); an error response in test 2 or 3 is a nil pointer (`:126`,
  `:137`); the goroutine that reads the socket stays blocked on `messageChan` when
  an answer comes after the last test (`:348`). No program of the repository calls
  these functions.
- The ports guessed end before `RemotePortEnd`, and for the end that asked the
  range is not widened by what was observed (`analyze.go:216`); `Analyze` has it so,
  and no property depends on it.

## The proofs

TLC checks the runs' instances; the theorems hold for every value of the constants.

- **`HubProofs`** (assuming only that `None` is no session): `TypeCorrect`;
  `UncontestedStaysListed` (`ListedUnlessContested`); `NoBystanderClosed`
  (`NoCollateralClose`); `HubIsRegistry` (`Implements`, step by step:
  `SaveStore` is `Enter`, `RemoveDelete` is `Retire`, the rest stutters or
  retires an item that never entered); `FinishedNeverListed`.
  `ListedUnlessContested` is not inductive: that a session is listed when it is served
  says nothing of one that is about to be stored, or of who may delete it. The
  inductive invariant adds that the holder of a name is live and bears it
  (`HolderIsLive`), that two handlers of a name make each other contested
  (`RivalsContested`), that an uncontested session is listed at every one of the
  places where it should be (`UncontestedIsListed`), and that a handler that
  found another session, which it is going to close, found a contested one
  (`FoundIsContested`).
- **`BridgeProofs`** (assuming that the names of threads differ): the same for
  peers, plus `AddPeerNeverRefuses` and `ShutdownLeavesNothing`. The
  invariant adds that whoever is between Lock and Unlock holds the mutex
  (`MutexHeld`), that a handler starts after its peer was connected
  (`HandlerAfterConnect`), that the name stays free from `delPeer` to `addPeer`
  (`FreeName`) although handlers delete meanwhile, and that what `Shutdown` has
  yet to disconnect covers what is listed (`ShutdownCovers`).
- **`RulesProofs`** (assuming that `AllowNets` is a sequence of networks and
  `MaxStarts` a number): `TypeCorrect`, `OthersKeepTheirRules`,
  `OrderlyEndRestores`, `RunningIsTranslated`. The invariant adds that what a
  manager has recorded is never foreign (`RecordedIsOwn`), that as long as nothing
  has failed each rule of the chain is foreign or recorded (`Accounted`), and that
  the rules before `next` are in the chain (`UpdatedSoFar`).
- **`TransportProofs`** (assuming `Cap` positive, `MaxAlive` and `MaxPackets`
  numbers): `TypeCorrect`, with the capacity of the channels;
  `ChannelsClosedOnce` (`ClosedOnce`); `WindowOfOne` (`LateWindow`);
  `PacketsInOrder` (`InOrder`). The invariant
  adds that at most one call of `Close` is inside `closeOnce`, and what it has
  closed follows from where it stands (`CloseInv`); that a readloop
  at its `select` has queued nothing late, and one that is parked sees `done` open
  (`LateInv`): the second packet would have to pass the check of `done` again. For
  the order it adds that the packet in the readloop's hand is the one taken off
  the wire last, from its Read to the end of its `select` and no longer
  (`InHandInv`): a receive that serves a parked send moves two packets at once.
- **`RpcProofs`** (assuming `None` is no caller and the bounds are numbers): `TypeCorrect`;
  `AnswersNotDroppedHolds` (`AnswersNotDropped`); `AnswerIsOwn` (`OwnAnswer`);
  `PanicIsExplained` (`SendPanicNeedsTimeoutOrPush`); and `ReplyerTracks`, which no run
  checks: unless two writes have overlapped the map holds exactly the calls between
  registration and deletion (`ReplyerTracksCalls`). The invariant adds what the writes
  themselves amount to (`Tracks`), without which nothing says that the dispatcher
  finds the channel of an answer, that calls have
  ids of their own (`Numbered`), that a response on its way or at the dispatcher
  carries the id of the call it answers or is a push (`Answers`), and that a
  request is answered once: its answer is yet to come, on its way, at the
  dispatcher, or with the call (`OneAnswer`).
- **`NatProofs`**, hole punching (assuming that the numbers of `Analyze` are numbers, at
  least one socket is opened, and ports are numbers): `TypeCorrect`,
  `ReturnedPathWorks` (`PathWorks`), `EasyEndsMeetHolds` (`EasyEndsMeet`), and, which
  no run checks, `OwnPacketNeedsDoubleHard` and `GuessesAreAimed`, for any number of
  sockets, guesses and ports. That a path works says nothing of one not yet returned:
  the invariant adds that any packet waiting at a socket has come a way that works
  or from the host itself, and the latter between hard NATs only
  (`WaitingWorks`); that `0.0.0.0` is a target between hard NATs only
  (`TargetsRight`), from what `Analyze` makes of the two results (`PlanRight`);
  and that NATs forget nothing (`MappingsGrow`, `WorksStays`). For two easy-looking
  ends it adds that such an end has no socket and no mapping but the detected one, and
  nothing to send to but the address its peer was seen at (`EasyNarrow`), so that
  there is one way only.
- **`NatProofs`**, detection (assuming that the server's two addresses differ in host
  and port, and that `None` is no address): `DetectionTypeCorrect`, `MappingVerdictRight`
  (`MappingRight`), `FilterVerdictNotOpened` (`FilterNotOpened`) and
  `ReaderLeftByLateAnswer` (`LeakNeedsLateAnswer`), for any such server. No answer
  is matched with its request, so the invariant says which answers can be
  waiting: one at most of each test made so far, with the address the NAT made for
  that test (`Truthful`, `Asking`); what was read was let in (`ReadsLetIn`); unless one
  was read twice, those of the earlier tests are used up (`NoneLeft`), so that what a
  test has read is its own answer (`ShownRight`), and mapping test 3 is made behind
  NATs that need it (`ThirdTestNeeded`); without a timeout nothing is left for the
  reader to hand over (`LateOnly`).
- **`NodeProofs`** (assuming the bounds are numbers and a hole has two ways): `TypeCorrect`,
  `HolesArePaired` (`HolesPaired`) and `HolesNeverReused` (`NeverReused`) for any number
  of nodes, logins and punches. The
  invariant adds that the number of a punch is a job of the hub or
  in use at the two nodes of that job, never both (`Numbered`), and that a node
  asks for others only and is listed under its own name (`Addressed`). That a hole a
  node has left or failed to make never comes back through a plan that arrives late
  needs `PlansTakenOnce`, which no run checks, too: a node has one plan of a punch
  at most, waiting, being made, or made (`PlansOnce`), so that the number of a hole that
  is left is in no plan.
- **`TunnelProofs`** (assuming what `Framing` and `Tunnel` assume of sizes, tags and
  JSON): `TypeCorrect`; `NeverForgedHolds`; `DatagramsIndependentHolds`;
  `TakenInOrderHolds`, that `Tun.Read` returns each packet once and in order;
  `CutOnlyInMixedBatchHolds`; `ReachesItsPeersHolds`; `InOrderUntilSplitHolds`. The
  invariant of the wire adds that a stream consists of whole packets although
  several goroutines write (`WholeFrames`), from which `NoFalseHeader` follows:
  wherever in a stream four bytes are taken for a header with a known tag and a
  possible length, they are the header of a packet; that a body that is awaited
  comes next (`BodyAhead`); and that the reader of a hole begins every datagram with a
  header (`InStep`). As long as no read has split a packet, what the reader of a
  session has in its buffer ends where a packet does, and it has returned as many
  packets as begin before the place where it stands (`StreamInv`). That of the device relates `ids`, `sizes`, `current` and
  `taken` (`Ready`).

Every invariant and every action property that a passing run checks is a theorem,
`Implements` of `Hub` and `Bridge` included. The type invariants are in no
configuration: they are the theorems `TypeCorrect`, and `DetectionTypeCorrect`.

Only model-checked: the liveness properties (`GhostsFade`, `LoginSettles`,
`ConnectReturns`, `Delivered`, `CloseStopsAll`, `SilentEndClosed`, `CallReturns`,
`DispatcherGoesOn`, `HalfOpenHeals`, `LoopReturns`, `PlansTried`), out of the
prover's reach here. The run `detection` is exhaustive for a server of two hosts and
ports, as that module's state space is finite as it stands.

## Not modelled

- `quic.go`, `kcp.go`, `cypto.go`: behind `if true`; wrappers over other protocols.
- Configuration, commands, generated registrations, the empty relay: no behaviour
  beyond what `Rules` and `Node` take from `main.Run`.
- Creating, addressing and closing the TUN device, and commands that set routes:
  system I/O. `Write` passes a packet on.
- The pool of buffers in `packet.go`: every buffer is put back after it was looked
  at last.
- Encoding and parsing: messages in JSON (the kind of a response is kept), STUN
  messages (the presence of addresses is kept). The servers' loops of the detection
  keep no state; that they end at any error (`service_simple.go:53`) is
  `UdpDetectFails` to a node.
- `SetKeepalive` called again, deadlines; the readloop's `aliveCount` read
  and `Close` called afterwards (`transport.go:215`) are two steps in the model.
- A second `UpdateIptables` on one manager, which nothing calls; a peer that comes
  back while `handleVeth` walks over the table (in `Tunnel`; `Bridge` has it).
- Descriptors and goroutines that `MakeHole` leaves behind (`nat.go:119`: up to 255
  of them stay blocked on `recvCh`); `NewRawConn`, which closes the socket of the
  hole and dials its addresses again; real time.

What remains is of those kinds: I/O, encodings, third-party protocols, code that nothing
calls, and resources that are not given back. `MakeHole`'s resources would be the
next thing worth a module, together with `NewRawConn`.
