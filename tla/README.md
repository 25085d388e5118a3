# Formal model of shardus-net

This directory holds TLA+ specifications of `lib-net`, a TCP messaging library
for Node: TypeScript on top, a native module in Rust underneath. The
specifications are checked with TLC on small instances, and the properties that
matter most are proved for all instances with TLAPS. `PROJECT.json` lists
components, runs, mutants, the map from definitions to source lines, findings,
hazards and theorems.

## 1. Inventory of the system

| Part | Source | State | Operations |
|---|---|---|---|
| Request/response layer | `src/index.ts`, `src/util/TTLMap.ts` | `responseUUIDMapping`, one timer per request, the TTLMap of timed-out requests, header options | `send`, `sendWithHeader`, `multiSendWithHeader`, the `listen` callback, `respond`, timers, `updateHeaderOpts` |
| Neon bridge | `shardus_net/src/lib.rs` | one oneshot channel and one waiter task per destination, closures queued for JavaScript | `send`, `send_with_header`, `multi_send_with_header`, `listen`, `stats`, `evict_socket` |
| Statistics | `stats.rs`, `ring_buffer.rs` | two atomic counters, three ring buffers, in a `RefCell` | increment, decrement, `put`, `get_stats` |
| Sender | `shardus_net_sender.rs` | two channels, the connection cache (HashMap or LRU), one mutex-guarded socket per connection | `send`, `multi_send`, `evict_socket`, the sender and evictor loops, `Connection::send`, `Drop` |
| Listener | `shardus_net_listener.rs` | one task per accepted connection, a channel of messages | bind/accept loop, `receive` |
| Wire format | `message.rs`, `header/`, `header_factory.rs`, `compression.rs` | none | serialize, deserialize, sign, verify, compress |
| Native module, crypto | `lib.rs`, `shardus_crypto.rs`, `crypto/` | one crypto instance per process, behind a `Once` | `Sn`, initialise once, hash, sign, verify |
| Transaction sender recovery | `shardeum_utils/` | none | `getSenderAddress` |
| Utilities | `src/util/*`, `src/types.ts`, `runtime.rs` | histogram, log flags | logging, encoding |

How they interact. A user's call of `send` gets a UUID, arms a timer, binds a
callback and calls the bridge. The bridge raises a counter, spawns a waiter on a
oneshot channel and puts the message into the sender's channel. The sender task
looks the connection up and spawns a task that connects if need be, writes the
frame, retries once on a fresh stream and completes the oneshot. The waiter goes
through a blocking thread to the JavaScript thread, where the counter is lowered
and the completion callback called. On the other side a listener task reads
frames from its stream and hands messages to the bridge, which takes the same way
up to `extractUUIDHandleData`: a known UUID is a response, anything else goes to
the user's `handleData` with a `respond` function.

What is hard about it. Tasks share a socket across awaits; eviction and LRU
replacement race with tasks that are writing; a failed write is repeated;
completions, responses and timeouts arrive at the event loop in any order;
counters are raised on one thread and lowered on another, past several ways to
fail in between; user code runs inside native closures; a sender may be collected
while its messages are on their way; threads share a `static mut`. `PROJECT.json` lists
these hazards at their lines with the properties that cover them.

What makes each part correct:

* Sender: frames never mix; a send reported Ok is one whole frame to its
  address, one reported as failed is none; a stale connection alone makes no
  send fail; no write after shutdown; no socket lost; sockets bounded; a stalled
  peer holds up nobody else.
* Request/response: at most one outcome, and one in the end; timer and callback
  always together; no response diverted while its request waits.
* Bridge: counters never wrap, awaited sends drain and call back, messages reach
  their callback.
* Listener and wire format: what passes is handed on once and in order, with its
  text, key and (as far as JSON shows it) header, a bad
  frame costs itself only, the listener recovers.
* Both ends together: nothing arrives twice or although it was reported as failed;
  what was reported Ok is lost by the network only.
* Native module: the crypto instance is written once, before it is read; every
  call of `Sn` returns.
* Transaction sender: the address returned is the signer's, for every `v`.
* Ring buffer: the window of the last values, with the extremes of all.

## 2. The modules

| Module | Content |
|---|---|
| `Sender` | the sender, one action per await point |
| `SendService` | abstract: accept, transmit at most once, complete with Ok iff transmitted |
| `SenderRefinement` | the mapping of `Sender` to `SendService` |
| `SenderProofs` | inductive invariant and theorems for `Sender`: locks, sockets, references, the bound |
| `SenderWireProofs` | the same for what goes over the wire, on top of `SenderProofs`; that `Sender` implements `SendService` |
| `Rpc` | request/response layer of a set of nodes over the native layer's contract |
| `RpcProofs` | inductive invariant and theorems for `Rpc` |
| `Bridge`, `BridgeProofs` | from native call to callback, with the counters |
| `Codec` | the wire format as operators: messages, headers, hash and signature |
| `Listener` | bind, accept and receive loops over `Codec` |
| `ListenerProofs` | the round trip through `Codec`, and the theorems for `Listener` |
| `EndToEnd` | `Sender` and `Listener` joined by TCP streams |
| `EndToEndProofs` | that the sender feeds the listener, and the theorems for both together, from those of the parts |
| `Addon` | the native module's `Sn` and the crypto instance of the process |
| `TxSender` | `getSenderAddress` as operators over a small curve |
| `AddonProofs` | inductive invariant and theorems for `Addon`; ECDSA recovery and gas for `TxSender` |
| `RingBuffer`, `RingBufferProofs` | the statistics' buffer, with a history variable |
| `MC*` | instances for TLC |

The layers are modelled one at a time, each over the contract of the layer below:
`Rpc` uses the native layer as `SendService` describes it (a message is handed to
the network once or reported as failed), which `Sender` is shown to implement;
`Bridge` and `Rpc` assume that a send to a peer that does not stall is decided, which
is `EverySendCompletes`, and nothing of the others;
`Listener` assumes streams of whole frames that may end in the middle of one,
which `EndToEnd` shows of the streams that `Sender` writes.

Operators named in comments as *Mutant* are deliberate faults: each property of
a passing run is violated when the named definition is replaced by its mutant.
They are used nowhere else.

### Sender

A message is one call of `send` to one address. A `Connection` is named after the
message whose dispatch created it and a `TcpStream` after the message and the
attempt that connected it, so the model needs no allocator. Per message: `pc`
(where its task is), `attempt`, `result` and `held` (the `Arc<Connection>` the
task owns). Per connection: `lock` and `socket`. Per stream: its state and the
pieces written to it. `cache` and `recency` are the HashMap or the LruCache.

* `DispatchSend` is a round of `spawn_sender`'s loop. Receiving, locking the cache
  and `get_or_insert` make one step: the task is the channel's only consumer and
  awaits nothing while it holds the cache's lock.
* `LockSocket`, `ConnectOk/Fail`, `WriteLen`, `WriteBody`, `WriteFailRetry`,
  `WriteFailGiveUp`, `Notify`, `DropConnection` are the steps of a send task
  between its awaits. Tokio's mutex is fair, but the tasks reach it in any order,
  so the model grants it in any order.
* `SetReferences` is the life of `Arc<Connection>`: the action that takes the last
  reference away runs `Drop`, which takes the stream and spawns its shutdown.
* `Collect`, `EndLoop` are the end of a sender. Node collects the object once no call
  is under way (the waiters of the bridge hold the completion channels); the channels
  close, each loop ends when its channel is empty, and the last one to end drops the
  cache with all its connections.
* `Break` is the environment: a peer that closes or resets. A stream on which a
  write failed stays broken, as TCP streams do. An error of a write means that not
  all of the frame was handed over; Ok means that it was handed to the kernel, not
  that it arrived.

### Rpc

An action is one turn of a node's event loop. Clocks are left out: a timer fires
at any time after it was armed, and `respond`'s comparison of two hosts' clocks
may go either way (for a message without a `timeout` field it compares with NaN
and never refuses). `ForgetTimedOut` has the two outcomes of `TTLMap.get`, which
depend on whether the entry's time has come. `Lose` stands for the network, for a
receiver that does not listen and for a message that does not parse. Two requests
of a node share nothing but the tables, whose entries are keyed by UUID, so that
one request with any number of destinations and responses is enough.

### Bridge

`NativeSend` is the synchronous part of the three native send functions, with the
point of failure taken from the arguments: the header, the addresses, the lengths
of the two arrays. A closure on the JavaScript thread has two steps: it lowers its
counter and calls back, and it ends when the callback returns; in between the user's
code may call the native functions again. Statistics are borrowed only before the
callback, in straight-line code, so the `RefCell` is not part of the state.

### Codec and Listener

`Codec` has bytes as small numbers. A number of fixed width is one of them, a
string or a `Vec<u8>` is a sequence with its length in front, so that truncated
and shifted input means what it means to the code's cursors. Hashing and signing
are perfect: what was hashed can be read off the hash. `Judge` is everything
`receive` does with one frame, in the code's order; its four results are the four
ways on: deliver, `continue`, return an error, panic.

`Listener` has the state of the bind loop, of one task per connection, and the
channel to the bridge. A dropped `TcpListener` resets the connections in its
backlog; accepted ones have tasks of their own. `ReadLength` and `ReadBody` are
the two awaits of `receive`. Peers write letters, encoded as the sender of this
library does, possibly under another hash key or with too large a header, or
foreign frames.

The JSON forms are part of it. A header comes from `index.ts` as a record in which
all but the UUID may be missing (`FromJson` fills in serde's defaults) and goes back
as one without the compression (`ToJson`). On the way back its texts are put between
quotes without escaping. A text without quotes, backslashes and control characters is
*verbatim*: it stands for itself. What `JSON.parse` makes of a header with another
text (nothing, or a header with other texts or fields) is the parameter `Misread`, of
which nothing is assumed; the `listener` run has a lone quote, an escape and a text
that makes a field of its own. `Shows`, what the properties claim of a message, has the
text and the key always and the header for verbatim texts only. Compressed data is the
data behind a mark; the flag that switches compression on is a constant of the build, so
a frame from a build with the flag on is one of the foreign frames. Texts of messages
are JSON, so that a plain one never begins with byte 1, the mark of a header.

### EndToEnd

`Sender` is extended and `Listener` instantiated, with `written` and `ending`, the
reader's view of each connection, defined from what the sender wrote. A frame is
whatever follows a length: if the pieces of two messages were mixed, the reader
would see a `Garbled` frame. A connect needs a listener that accepts and puts the
stream into its backlog. The two sides notice each other's ends at their own time; a
stream that breaks may take with it frames that were written and not read.

### Addon and TxSender

In `Addon` an action is a step of a thread in `Sn`: into the `Once`, its closure
(which reads, then writes the instance, or panics), out of it, and the rest of the
call with its panics and its throw. `Once` is modelled as std documents it: others
wait while the closure runs, a panic poisons it and later calls panic. `Digest` is any
signing or verifying of an existing `Sn`.

`TxSender` has no actions: `GetSenderAddress` is a function of a decoded transaction.
The curve is a group of small prime order `N` in which a point is its multiple of the
generator, opposite points share their x-coordinate, and ECDSA has its real
equations, so that malleability (`s` and `N - s`) and both recovery ids are there. The
reference is the definition of a signature, not of its recovery. `u64` arithmetic
wraps at `Word`.

### RingBuffer

`put`, `get_stats` and the object JavaScript gets (`ToObject`), with the history of
all values put as a variable of the model only. Values are naturals: `usize` counters,
or durations in ticks, of which `Milli` make a millisecond.

## 3. Runs

| Run | Instance | Shows |
|---|---|---|
| `sender_hashmap` | 3 messages, 1 address, HashMap, 1 eviction (1.8 million states) | three tasks compete for a mutex over breaking streams |
| `sender_live` | 2 messages, 2 addresses, LRU of 1, 1 eviction, one peer stalled | every dispatch evicts; bounds, liveness, the end of the sender, and refinement of `SendService` |
| `end_to_end` | 2 messages, 2 addresses, LRU of 1, 1 broken stream, a listener that may fail | the way of a message from one process to the other |
| `rpc` | 1 request, 3 nodes on 2 hosts with the same ports, one of them stalled, 2 responses | all properties of the request layer, with stray responses that bounce |
| `rpc_self`, `rpc_respond` | 1 request, 2 nodes | two disagreements, see below |
| `bridge` | 2 calls of any arguments with up to 2 destinations, one of them stalled, 1 incoming message | all properties of the bridge |
| `bridge_skip`, `bridge_panic` | 1 call | two disagreements, see below |
| `listener` | 2 connections, 2 frames out of 6 letters and 6 foreign frames, closing anywhere | order, integrity, isolation and recovery |
| `addon` | 3 calls of `Sn`, 4 hash keys, any wrong argument; a curve of order 7 with every signature, every `v` below 64, every gas limit about the fee; a buffer of size 3, values 0 to 2, 8 puts (two wraps), 2 ticks to a millisecond | initialisation, sender recovery and statistics, which share no state: one of them moves in a behaviour |
| `tx_creation` | the transactions of `addon` | a disagreement, see below |

The bounds. Three messages are what it takes for one task to hold a lock, one to
wait and one to arrive; two attempts is the code's own limit. One LRU slot and two
addresses make every change of address an eviction. One message may ride on a
connection made by another, which breaks, is retried and is broken again. Two
responses are enough for one to be taken and one to be late, and for a late one to
be answered. Two frames are enough for a bad one to come before a good one on the
same stream, or on the other one. Three calls of `Sn` are enough for one to be in the
`Once`, one to wait and one to come when it is over. 64 values of a word have every
case of `v`: too small for 27, 27 and 28, too small for a chain id, chain ids 0 to 14,
and the wrap. Broken streams are bounded in `end_to_end` only (`MaxBreaks`), where
`Sender`'s own runs have any number. Deadlock is not checked: these systems come to rest when all the
calls are over.

Fairness. Sender: weak fairness of every task the runtime polls, and of connects
and writes except to peers in `Stalled`, for which the kernel may wait forever. It is
stated of all the messages' tasks together: each takes a bounded number of steps and
ends, so none can be passed over forever while the others go on. Addon: threads run.
Rpc: timers fire, completions are delivered, and the native layer decides a send to a
node that is not in `Stalled`; nothing is assumed of stalled nodes (connect and
`write_all` have no timeout), of the network or of the user. So `PromiseSettles` is for
sends with a destination that does not stall. Bridge: tasks and blocking threads run,
the event loop turns, callbacks return, and the sender notifies of destinations that
are not in `Stalled`; the others may never call back. Listener: tasks
run and sleeps end, and (strong fairness) an address that is tried again and again
can in the end be bound; nothing is assumed of peers.

### Disagreements found

* `bridge_skip`: with `awaitProcessing` false `outstanding_sends` is raised and
  never lowered, although `lib.rs:303` says the flag skips the processing on the
  stats.
* `bridge_panic`: an address that does not resolve makes the waiter of
  `lib.rs:184` panic, because the sending end it expects is dropped, and leaves
  the counter raised.
* `rpc_self`: a request sent to the node's own address is taken for its own
  response (`index.ts:419` does not look at `msgDir`).
* `rpc_respond`: with the default `sendHeaderVersion` of 0 `respond` cannot send
  (`header_factory.rs:32`), against the example of the repository's README.
* `tx_creation`: a transaction without a destination, which creates a contract, is not
  charged for it (`shardeum_utils/src/lib.rs:85`), although the comment above says so;
  the charge is made for the zero address instead. `GasLimitPays` is stated for
  transactions with a destination.

## 4. Proofs

Eight modules hold proofs. The theorems listed in `PROJECT.json` are what a reader
should know of; nearly all state a property that a run checks, for every value of
the constants. Everything else in those modules is lemmas. Every invariant of a passing
run and every step property (the two refinements) has its theorem; what is left to TLC
alone is liveness.

**Sender.** `SenderProofs` proves, for every set of messages and addresses, either
cache and every capacity, `TypeOK`, `NoUseAfterShutdown`, `NoStreamLeak` and
`SocketsBounded`. None is inductive: that a task in the middle of a write has a live
socket depends on who holds the lock, on which connections are referenced, and on the
names of future connections and streams being unused. The invariant `IInv` is the
conjunction of

* `QueueInv`: a message waits in the channel once and only while queued;
* `LruInv`: the LRU list has exactly the cached addresses, each once;
* `TaskInv` and `LockInv`: a task is in its critical section iff it has the lock
  of the connection it holds, and what it knows of the socket there;
* `SocketInv` and `LeakInv`: sockets of referenced connections and live streams
  correspond one to one;
* `FreshInv`: names that are yet to be used are unused.

There is one lemma per action, and `ReferencesStep` does once the argument for the
four actions that change references (dispatch, eviction, end of a task, end of the
last loop, which drops the cache): what is dropped has no task inside its lock, so no
socket in use is shut down. Assumed is `SenderAssumption` only. For the bound
(`BoundInv`), the live streams are mapped one to one to the connections that reach
them, and those are cached or held; the sets are finite because a behaviour accepts
finitely many messages at a time, so `Msg` and `Addr` may be infinite.

`SenderWireProofs` adds what is on the wires: `FramesIntact`, `DeliveredOnce` and
`FailsOnlyOnFreshStream`. `WireInv` says where a stream may end in the middle of a
frame (`PieceInv`: only while the task that holds its lock is between the two writes),
that such a task wrote the last piece (`BodyInv`), that streams, connections and tasks
which come together are for one address (`AddrInv`), that a message has one complete
frame if its send returned Ok and else none (`CopyInv`, `ResultInv`), and what a second
attempt has behind it (`RetryInv`).

It also proves `ImplementsSendService`. In a reachable state the
copies that the mapping counts can be read off the results (`CopiesValue`, from
`CopyInv`); then accepting, the write of the body, and the completion are the steps
of the service, and every other action leaves all three mapped variables alone.

**Request/response.** `RpcProofs` proves `TypeOK`, `PendingTracked`, `OneOutcome`,
`StrayResponsesAreLate`, `TimedOutTracked`, `RejectedNeverAnswered` and
`AnswerFromAskedNode` for any nodes, requests, sets of destinations and number of
responses, from `RpcAssumption` (lists of destinations are finite, as arrays are).
`OneOutcome` alone is not inductive: a second outcome is excluded because the timer
and the callback are gone with the first (`PendingTracked`), and a request sent now
has had none (`OutcomeInv`). `StrayResponsesAreLate` needs in addition that there is
no message about a request before it is sent, or its wait would begin after its
messages were handled (`MessageInv`). A receipt that ends a wait, one that goes to
`handleData`, the timeout, the expiry, an accepted and a refused send have a lemma
each; `TablesStep` covers the steps that leave the tables alone. The last two
properties follow messages through the network (`WireInv`): a request goes from its
sender to its destinations only (`AskInv`), nobody has heard of one with a single
destination while it is unsent or once its send failed (`SilentInv`), and while a
request waits every answer under way goes to the node that asked and comes from one
that was asked (`AnswerInv`). `AnswerFromAskedNode` has the hypothesis `ToOtherNodes`,
that no node sends to itself; without it the property is false, which is the
disagreement that `rpc_self` shows.

**Bridge.** `BridgeProofs` proves `SendsNeverUnderflow`, `ReceivesExact`
and `AwaitedSendsDrain` for any calls, arguments, number of
destinations and incoming messages. The counters are compared with sets of closures,
so the invariant first says where a closure is: in one blocking thread or once in the
queue, whose head stays there while it runs (`QueueInv`), of a completion that was
handed on and not called back (`ScheduledInv`). Then `SendsInv` has the counter cover
the decrements to come, and equal them if all calls made so far were well formed: the
inequality alone would not give `AwaitedSendsDrain`. `BridgeAssumption` says that
completions and incoming messages have different names.

**Listener and wire format.** `ListenerProofs` first goes through `Codec`: reading a
number or a field gives back what was written and leaves the rest
(`ReadOneBack`, `ReadFieldBack`), hence `MessageBack`, `HeaderBack`, `DecompressBack`
and `HexBack`; a signature opens exactly under the hash key it was made with
(`VerifyOwn`). `OwnLettersRoundTrip` puts them together: what `receive` makes of a
frame that this library's sender wrote is `deliver`, with the text and key of the
sender and, if it is verbatim, the header given, exactly if the letter passes, and
`skip` otherwise, for texts and header fields of any length, any keys, any header limit,
compression on or off, and any `Misread`.
From it follow `TypeOK` and `OwnLettersNeverEndIt` (the invariant adds that a task
waiting for a body has one to come or a stream that was cut, `BodyInv`), and
`ReceivedInOrder`: there is a place in the stream for each message, such that messages
of a connection are in the order of their frames, none stands for two, each letter that
passes has one and no other letter does (`SourceInv` is its inductive form). It holds
whatever foreign frames are taken for. `ReceivedAsSent` says more, that nothing else is
handed up; it has the hypothesis `ForeignRefused`, that `receive` refuses each of the
foreign frames. A frame that another program made properly under the right key would be
a message, so the property is not true without it; the foreign frames of the `listener`
run (damaged, cut, of another version, of a build with compression) satisfy it, and TLC
checks the property over them. `ReadToTheEnd`, that a `receive` which returned Ok left
nothing unread unless it was reset, is what `NoneLost` below needs of the listener.
`ListenerAssumption` types the letters: UTF-8 texts, headers that
serde accepts, keys of one byte; a plain text does not begin with byte 1; and a
foreign frame is one that no letter encodes to.

**Both ends together.** `EndToEndProofs` puts the two invariants together instead of
finding a third. A step of the system is a step of `Sender`, so `IInv` and `WireInv`
hold of it (`SystemIsSender`). `PairInv` says that the pieces on a stream are lengths
each followed by its body, with at most one failed or unfinished frame at the end; hence
the reader never sees a `Garbled` frame, and a write appends one frame to its view or
leaves it alone (`WritePaired`). `LinkInv` says which connection of the listener belongs
to which stream. From these every step of the system is a step of `Listener` on the
reader's view, or invisible to it: that is `FeedsListener`, and it makes the theorems of
`ListenerProofs` (instantiated as `LP`) true of the system. `ArrivesAtMostOnce` then
follows a message that came out back to its frame (`ArrivalSource`), its frame to its
one complete copy (`DeliveredOnce`), and its copy to a result that is not an error.
`NoneLost` goes the other way. Assumed is `EndToEndAssumption`: finitely many messages,
whose letters callers can give, pass at the listener (it has the same hash key), and
have different texts, by which they are told apart.

**Native module.** `AddonProofs` proves `InstanceReady` and `OneHashKey` for any number
of calls and any keys. The invariant ties the `Once` to the places of the calls
(`OnceHeld`: exactly the call that holds it is in the closure, and who is past it found
it done), the instance to the `Once` (`InstanceSet`) and the hashes to the instance
(`DigestsOfInstance`). From `AddonAssumption`; that a `Once` admits one closure is the
model of std's `Once`.

**Transaction sender.** `SenderIsSigner` and `GasLimitPays` are statements about a
function, so their theorems are about every transaction that decoding can return
(`Decoded`), not about a behaviour. From `TxAssumption` (`N` is a prime above 3, the
word holds the numbers the code compares with) `AddonProofs` derives arithmetic modulo
`N`: the remainder is unique (`ModUnique`), and every number below `N` has a reciprocal
(`ReciprocalExists`, by the least positive combination of the number and `N`). With it
`KeySolves` solves the signature's equation for the key and `SenderRecovered` shows that
this is what `Recover` computes; `RecoveryIdTold` goes through the forms of `v` and the
wrap of the word. `DataGasIs` gives the fold over the data in closed form.

**Ring buffer.** `RingBufferProofs` proves `HoldsLastValues` and `ExtremesOfAll` for
every capacity and any number of puts; the invariant adds where `index` is while the
buffer is still growing. `StatsOfWindow` follows: the buffer is the window rotated
(`WindowTurned`), a rotation has the same sum and the same values (`RotatedTotal`,
`SameValues`), and a sum lies between the count times the least and the count times the
greatest value (`TotalBounded`), which bounds the average that JavaScript is shown
(`AverageBetween`).

**Induction.** `Total` and `DataGas` are recursive functions on `0 .. Len(s)`. The
library's induction theorems take an operator, which the provers cannot instantiate, so
induction is done with sets: `AllNumbers` says that a set with 0 and with the successors
of its members contains all naturals, because the least number outside it (`WFMin`)
would have a predecessor inside it.

Model-checked only, because the prover does not do liveness under fairness:
`EverySendCompletes`, `UnusedStreamsClose`, `EveryRequestEnds`, `PromiseSettles`,
`EveryCallReturns`, `EveryFrameRead`, `ListensAgain`, `EveryDestinationCallsBack` and
`EveryMessageCallsBack`.

## 5. Not modelled

* The histogram: it counts for logging and nothing reads it back. Log flags, options,
  encoding and the logging switch change no state that a property is about.
* `stopListening`: it calls a native function that does not exist (`index.ts:483`), so
  it throws and changes nothing; a listener never ends.
* Cryptography, RLP, Brotli and Gzip: perfect or marked, as described above. Of the
  crypto crate, hexadecimal input to `sign`, `verify` and `get_pk` is not used by the
  network code.
* A transient error of `write_all`: a stream on which a write failed stays broken, so
  that the hazard of a torn frame followed by another on the same stream is listed
  without a property.
* Memory: the buffer that `receive` allocates by the announced length, and the growth
  of unbounded channels.
* The tokio runtime, of which only the scheduling matters, and Node's event loop.
* Tests, benchmarks and build scripts.

## 6. Plan

1. Done: `Sender` with its end, `SendService`, `Rpc`, `Bridge`, `RingBuffer`, `Codec`
   with JSON and compression, `Listener`, `EndToEnd`, `Addon`, `TxSender`.
2. Done: a theorem for every safety invariant of a passing run, the round trip of the
   wire format, the refinement of `SendService` and that of `Listener` by the system.
3. Left: the liveness properties, which stay with TLC until the prover has them, and
   several listeners in `EndToEnd`, which share nothing but the sender's cache.
