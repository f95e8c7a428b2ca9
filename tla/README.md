# A TLA+ model of p2p-overlay

This directory holds a verification development for the overlay node in
`src/src`: TLA+ modules translated from the C++ code, TLC configurations that
check them on small instances, and proofs checked by TLAPS. Paths below are
relative to the directory that holds both `src/` (the repository) and `tla/`.

## The system and its parts

A node runs one `asio::io_context` on one thread. Everything it does is a
handler: a received frame (`Node::on_frame`), an expired timer, a finished read
or write, a lost connection. A handler is atomic with respect to the others;
`TcpConnection::connect` is synchronous and happens inside a handler. What makes
the code hard to test is the order of handlers, and one fact about asio:
`steady_timer::cancel()` does not stop a handler whose timer has already expired
and that waits in the queue. A handler that runs before it then finds, and
leaves behind, a timer that will still fire. All modules with timers model this:
a timer is `"off"`, `"armed"` or `"queued"`, and cancelling a queued one does
nothing.

| Part | Code | Module | Status |
|---|---|---|---|
| k-bucket and replacement cache | `dht/k_bucket.cpp` | `KBucket` | all calls of the node; `mark_failed` only counts, and nothing reads the count |
| routing table | `dht/routing_table.cpp` | `RoutingTable`, `TableHistory` | modelled, with `find_closest`; the JSON export is left out |
| node ids | `common/types.hpp` | `NodeId` | XOR metric, order, `bucket_index` |
| contact maintenance: PING, PONG, LRU probe | `node.cpp` | `LruProbe` | modelled |
| lookup shortlist | `dht/lookup_engine.cpp` | `LookupSession` | modelled |
| iterative lookup, value lookup | `node.cpp` `async_lookup`, `async_find_value` | `Lookup` | modelled |
| publication with quorum | `node.cpp` `publish_record`, `publish_self_record` | `Publish` | modelled |
| a record over time: republishing, restarts, readers | `node.cpp` `schedule_republish`, `create_self_record`, request handlers | `Republish` | modelled |
| record store, validation of records | `dht/record_store.cpp`, `dht/node_record.cpp` | `RecordStore` | modelled; encoding and crypto abstract |
| replay window | `security/replay_cache.cpp` | `ReplayCache`, abstract: `SeqFilter` | modelled |
| handshake and encrypted frames | `security/secure_session.cpp`, `node.cpp` | `SecureChannel` | honest peers, abstract keys |
| frames and their parser | `transport/frame.cpp` | `FrameParser` | version and length |
| connection | `transport/tcp_connection.cpp` | `TcpConnection` | modelled without encryption |
| identity and key files | `identity/keypair.cpp` | `KeyFile` | load, save, generate; signing is abstract |
| program, listener, start and stop | `main.cpp`, `transport/tcp_listener.cpp`, `node.cpp` | `NodeLife` | modelled; command line and logging left out |
| CBOR messages, crypto wrappers, configuration | `dht/dht_messages.cpp`, `security/ake_messages.cpp`, `security/crypto_utils.cpp`, `config/` | none | see "Not modelled" |

The documents also describe tunnels, relay profiling, application messages, file
transfer and metrics. `transport/message_types.hpp` reserves numbers for their
messages, but no code handles them, so there is nothing to model.

How the parts interact: `TcpConnection` hands complete frames to `on_frame`,
which keeps the routing table (`LruProbe`), serves the record store and resolves
pending requests. `Lookup` drives a `LookupSession` over such requests; `Publish`
puts a record into the local store, runs a lookup and stores at the nodes it
returned; `Republish` repeats publications and searches over the life of the
nodes. `SecureChannel` sits between the connection and `on_frame`. `NodeLife` is
the frame around all of them. What one module takes from another is stated where
it is used: `Publish` that a lookup calls back, possibly twice; `Republish` that
a publication reaches some keepers and a search asks every node; `SecureChannel`
that the replay window is a filter of sequence numbers.

## The modules

**KBucket** has one operator per method of the class, on a record of two
sequences. `AddOrUpdate` moves a known contact to the back, appends when there is
room, and else refreshes or pushes a candidate in the cache, dropping the oldest
one. `Removed` promotes the candidate at the front of the cache.

**NodeId** has ids as sequences of `Size` bytes of `Width` bits, the most
significant bit first. `BucketIndex` finds the first byte that differs and counts
its leading equal bits, as the code does.
**RoutingTable** applies the bucket operators to the bucket of a peer, given as a
function `BucketOf`. **TableHistory** extends both, assumes that `BucketOf` is
`BucketIndex`, and gives `find_closest` by the rank of each contact in the sort
(NodeIDs in the table differ, so their distances do). Every
call of the table is an action, with a clock, and two history variables keep the
address each peer was last reported with and the contacts that were promoted and
not seen since.

**LruProbe** is `add_contact` and everything that calls it. `pings` holds, for
each request id, the entry in `pending_pings_`, its timer, and how often the
callback ran. A handler that adds several contacts is a sequence of `AddNext`
steps, and no other handler runs in between. A FIND_NODE response that a lookup
waits for adds every contact twice, as the code does. `Stable` peers are those
that are always reachable and answer before the timer expires; nothing is
assumed of the others. The node does not read `last_seen`, so it is constant
here. FIND_VALUE responses are like FIND_NODE responses that no lookup waits for.

**RecordStore** has `put`, `get`, the two scans, `purge_expired` and `clear`. A
record carries the first check it would fail (`flaw`) instead of bytes and a
signature. The wall clock moves forward, and, with `StepsBack`, backward. A scan
erases an arbitrary set of stale records before it finds a match, which is what
an iteration in hash order amounts to.

**LookupSession** numbers the nodes by their distance from the target, so the
sorted shortlist is a function from nodes to candidate states. **Lookup** adds
requests and timers. `async_lookup` and `async_find_value` are one module because
they are one algorithm: `kind` says which it is, and the second looks into the
local store first, accepts a record for an answer and has the flag `finished`.
`step_func` calls itself from inside its loop when a connect fails; `stack` holds
the peers that each active call has still to query. The history variable `asked`
keeps the nodes whose turn in a loop has come, so that `QueriedOnce` is about the
whole lookup: a node that a loop has still to query was never queried before.

**Publish** is made of calls of `publish_record` (`lookups`) and of the calls of
their lookups' callbacks (`phases`), each phase with its own counters and
requests. A lookup may call back twice, which the run `LookupTwice` shows, so two
phases of one lookup may run beside each other, and handlers of an earlier round
during a later one. `MaxCalls` bounds the callbacks of the lookup of each key, with
and without an alias; the first one is never prevented. `remaining` is a `size_t` and wraps modulo `SizeRange`. The
keepers are a set: the order in which they are contacted is arbitrary here, fixed
in the code.

**Republish** is the record of one owner under one key. The owner publishes when
its timer fires or the application asks, and starts again with `record_seq` 0
after a crash; keepers get, lose or refuse the record and restart with an empty
store; a reader searches, takes the first valid record, caches it and then reads
its cache until it expires. The run of the owner that issued a record is a
history field that no action reads but those that keep history.

**KeyFile** has one step for each system call of `Keypair::save`, since the
process may die between any two, and every read, open and write may fail.
**NodeLife** extends it with the rest of the program: `pc` is where the main
thread is, `stopping` where each of the two possible calls of `Node::stop` is. A
run has a `--duration` or not; its thread, when there is one, runs beside the event
loop and `main` waits for it at the end. The signal handler runs on the
main thread, so while it runs `MainRuns` is false; it may have interrupted that
thread while it was logging (`"log"`), and then waits for the mutex of the log sink
for ever. An accept may fail, after which no other follows. `running_` and the acceptor are
used by both threads without a lock, so their reads and writes are steps of their
own. Handlers appear by what they do with connections and with `conns_mutex_`.

**ReplayCache** keeps the bitmap as the set of marked slots. `UpdateAboveLoops` is
the call for the largest number whose clearing loop does not end. **SeqFilter** is
what the class promises: a number is accepted when it was not accepted before and
is less than a window behind every accepted number.

**SecureChannel** is one connection between two honest ends. A handshake is named
by its initiator, which stands for request id, session id, nonces and keys; every
handshake has a session object at either end, and the connection uses the one
attached last. Signatures and NodeIDs verify. The replay filter is the set of
accepted numbers (`ReplayCache` justifies that for numbers within the window).

**FrameParser** and **TcpConnection**: a byte is the frame it belongs to and its
position; the parser works on such bytes cut anywhere. `PeerSends` puts the bytes
of one more frame, possibly one that the parser refuses, behind those that are
not read yet. The frame handler may send
or close in the middle of `process_incoming`, which goes on either way. After a
failed read or write the socket stays open and only the inactivity timer closes
it. A read that completes queues its handler (`"queued"`), which runs although the
socket was closed meanwhile; a write that has completed and whose handler is still
queued when the socket is closed is taken for one that failed; nothing more is
written either way. Inactivity time-outs of 0, which disable the timer, are not modelled.

## What the runs check

| Run | Instance | States | Properties |
|---|---|---|---|
| `TableHistory` | ids of 2 bytes of 2 bits, capacity 2, cache 1, 6 ids, 2 addresses, 5 calls | 55,548 | `AddressFresh`, `OnlyPromotedOutOfOrder`, `NextHopIsCloser` |
| `LruProbe` | capacity 2, cache 1, 3 peers in a bucket and one in another, 2 PINGs, 1 stable peer | 382,787 | `TableOK`, `CallbackAtMostOnce`, `StableContactsStay` |
| `RecordStore` | 2 owners with one alias, 3 keys, 10 records, 4 times, clock may step back | 125,644 | `TrackerMatches`, `ServedNeverRollsBack`, `ServedIsValid`, `ExpiredIsPurged` |
| `Lookup` | 5 nodes, alpha 2, k 3, 2 holders | 88,402 | `InFlightIsTracked`, `QueriedOnce`, `CallbackOnce`, `AtMostAlphaInFlight`, `QuietAfterReport`, `ConvergedAtFirstCallback`, `EventuallyReported` |
| `Publish` | 2 nodes, replication 3, alias, `size_t` of 8 values, 2 callbacks of the last lookup | 281,947 | `ReportedOnce`, `SuccessHasQuorum`, `QuorumIsReported`, `EventuallyReported` |
| `Republish` | 1 keeper, owner, reader, TTL 3, interval 1, 6 ticks, 2 runs of the owner | 2,439,709 | `KeptThroughOneLoss`, `OutageBounded`, `ReadsGoForward` |
| `ReplayCache` | window 3, numbers 0 to 10 | 29,953 | `BitmapMatches`, `FilterSpec`, `CheckForetells` |
| `SecureChannel` | both ends start a handshake, 2 data frames each | 42,609 | `DeliveredInOrder`, `NothingRejected`, `SuccessReachesPeer`, `CallbackOnceInTime` |
| `TcpConnection` | any one or two frames of 2 versions and 3 lengths, 2 sends | 362,542 | `FramesIntact`, `NothingStuck`, `RegisteredIsLive`, `WriteQueueServed`, `EndedIsClosed` |
| `NodeLife` | 2 generated key pairs, 2 connections per run | 316,814 | `IdentityKept`, `PairMatches`, `AtMostOneLate`, `ShutdownCompletes` |

Why the bounds are enough: a bucket of two with a cache has a head, a tail, a
candidate and a peer outside; two outstanding PINGs allow two probes of the same
contact; five nodes with alpha 2 and k 3 allow a lookup that learns of closer
nodes, has a full set of queries and nodes beyond the k closest; four ids in one
bucket and one in another allow a full bucket with a candidate and a target in an
empty, a full and a neighbouring bucket; a TTL of three intervals allows records
that expire, survive one loss and outlive a run of the owner, and a second keeper
would not interact with the first; two key pairs allow a pair that replaces one
that was only half written; a window of 3
with 11 numbers allows jumps shorter than, equal to and longer than the window;
two frames with lengths below, at and above the limit reach all results of the
parser. In `LruProbe` a response with new contacts is taken only when enough
request ids are left for the probes it may cause, which is a bound of
the model alone. `Addrs` of `TableHistory` is a symmetry set: addresses are only
copied and compared. In `Publish` the lookup of the node key calls back once when an
alias follows (`MCMaxCalls`), and with an alias a lookup finds both nodes or none
(`MCResults`): a second call there starts a second chain of two rounds, and the states
of four phases are beyond TLC's time. The safety theorems of `Publish` cover these
cases, since they hold for every `MaxCalls` and `Results`. Five calls on the table
are enough to fill a bucket, put a candidate into its cache, refresh or replace it
there and promote it. The constructor of the replay cache raises its window to at least
32; the window of 3 is a smaller instance of the same arithmetic.
Deadlock is not checked where the modelled activity ends: a lookup, a
publication, a connection, a bounded number of calls, a clock at its bound.

Several properties have an exception that the code really has, and name it in
terms of a history variable: `raced` records that an answer was handled when the
handler of its timer was queued, `Alone` that only one handshake was started (a
second one, also one that follows the first, replaces the session while frames of
the old one may be on the wire),
`promoted` the contacts that came out of the cache.

### Where the code and its documentation disagree

Two runs show a behaviour that contradicts a sentence of the documentation.

* `LookupTwice`: the timer handler of a lookup request does not look whether the
  request is still pending. Queued when the answer is handled, it marks the
  responder as failed and its step calls back again (`src/src/node.hpp:82`).
* `SecureChannelBoth`: when both ends start a handshake, each attaches the session
  of the other's, and the active sessions have different keys
  (`src/src/security/secure_session.hpp:45`).

Others are visible in the models as the exceptions of passing properties:

* a promoted contact is out of last-seen order (`OnlyPromotedOutOfOrder`);
* a probe that times out evicts its contact although verified frames of it arrived
  after the probe was sent, so `StableContactsStay` is about peers that answer the
  probe itself in time (`src/src/node.cpp:852`; `src/README.md:63` and `:70` say
  that a live contact stays);
* an answer that races its timer is counted twice by a publication, which then may
  report a failure while the confirmation for the quorum is on its way
  (`QuorumIsReported`), and lets a lookup exceed alpha (`AtMostAlphaInFlight`);
* the local copy is counted although the local store refused the record
  (`SuccessHasQuorum`);
* the sequence number is not persistent, so the keepers refuse a restarted owner
  until it has published as often as in its earlier runs: after a day of
  republishing every 80 seconds, for about another day (`OutageBounded`), and a
  reader may be given an older record after a restart (`ReadsGoForward`).
  `src/config/default.toml:11` speaks of a persistent store, which is in memory;
* a signal that arrives while the main thread holds `conns_mutex_`, or a mutex of a
  library that the handler takes too, such as that of the console sink
  (`src/src/main.cpp:41`), waits for that
  mutex on the same thread (`SelfDeadlock` in `ShutdownCompletes`). With
  `--duration`, a signal ends the event loop, but `main` then waits in
  `killer.join` until the duration is over;
* key files that exist but cannot be read are overwritten with a new identity
  (`faulty` in `IdentityKept`; `src/src/identity/keypair.hpp:34` says that `load`
  finds nothing only "if files don't exist").

Three more are modelled but no property is about them: a read or a purge after
the clock was set back erases a record that has not expired, which the comment at
`src/src/dht/record_store.cpp:48` does not mention (`Stale` in `RecordStore`);
`update_and_check` of the largest `uint64_t` does not come to its end when it has slots to clear
(`UpdateAboveLoops` in `ReplayCache`), and a watchdog handler that is queued when
bytes arrive closes a connection that is not idle (`TimerFires` in
`TcpConnection`).

### Fairness

`Lookup`, `Publish`, `SecureChannel` and `TcpConnection`: a handler that runs
comes to its end (weak fairness of its steps), an armed timer expires (weak), and
the handler of an expired timer, being in the queue of the io_context, gets its
turn although other handlers run before it (strong; in `SecureChannel`, where
every handler is one step and cannot disable it, weak; in `Publish` weak for all
of them together, since each happens a bounded number of times). Nothing is
assumed of answers: a peer may be silent. `Publish` takes from `Lookup` that the
lookup calls back. `SecureChannel` takes from TCP that frames on the wire are
read. `RecordStore`: `schedule_purge` re-arms itself, so the purge is weakly fair.
`TcpConnection` bounds the frames that the node and the peer send, for each of them
resets the inactivity timer. `NodeLife`: the main thread runs (weak), the sleep of
`--duration`, when there is one, ends (weak), and a call of `stop` that waits for a mutex which is
released again and again gets it (strong). Nothing is assumed of peers, signals
or crashes.

## What is proved

The proofs hold for every value of the constants under the assumptions named in
the modules (`CapacityAssumption`, `BucketOfAssumption`, ...), which TLC evaluates
for each instance.

* **TableProofs**, of `KBucket`: `AddOrUpdate`, `Removed` and `Touched` keep a bucket
  `WellFormed`: no peer twice in or across the lists, both lists within their
  limits, no candidate beside a free place. The argument is about sequences:
  lemmas say which ids a removal, an append or an update in place leaves.
* **TableProofs**, of `LruProbe`: `TableCorrect`, `CallbackOnce`, `StableStay`. The invariant is
  `TypeOK /\ TableOK /\ PingsOK`. `PingsOK` is the strengthening: a pending PING has
  a timer and has not called back, so whichever of PONG and timer comes second
  finds no entry; and the timer of a PING to a stable peer is not queued while it
  is pending, so a probe of a stable peer never fails.
* **TableHistoryProofs**: first the metric. For ids of any number of bytes, and bytes of
  any number of bits, the first byte and the leading bits lead to the first bit in
  which two ids differ (`BucketIndexFacts`), so `bucket_index` is
  symmetric and a valid index, a contact in the bucket of a target is closer to it
  than the local node (`SameBucketIsCloser`), and the buckets are in the order of
  the distance. Then the table over time: `AddressCorrect`, `OrderCorrect`,
  `NextHopCorrect`. The invariant, `BucketOK` of every bucket, puts together what the
  three need of each other: the bucket is `WellFormed` (else an update would leave a
  second entry with the old address), its entries belong there, carry the last
  reported address and were not seen in the future (else a contact moved to the back
  would not be the latest), and only promoted contacts are out of order.
  `NextHopCorrect` adds that the first of `find_closest` is a minimum of the distance
  (`Rank` 0), so a contact in the bucket of the target beats every other one.
* **StoreProofs**, of `RecordStore`: `TrackerCorrect`, `NoRollback`, `OnlyValidServed`.
  The invariant adds to the types and `TrackerMatches` that the number last served
  under a key is at most the tracker's (`ServedTracked`), which survives purges
  because they leave the tracker alone, and that a stored record passed the checks
  that do not depend on time (`StoredIsSound`).
* **StoreProofs**, of `Publish`: `ReportedOnceCorrect`, `SuccessCorrect`,
  `QuorumCorrect`, for any number of nodes and a `size_t` with more than twice as
  many values, since a keeper is counted off at most twice. Of one phase the invariant says (`PhaseOK`) that acks are the confirmations
  and the local copy; that, as long as no answer met its queued timer, `remaining` is
  the number of keepers still to be asked or to answer; and that a report was made
  once, with success only at the quorum. Between phases (`Linked`, `Single`) it says
  that the round of the alias comes from a phase that succeeded, that a result
  carries no more acks than any round behind it, and that without a lookup that
  calls back twice there is one phase per lookup and one result. The decrement
  modulo `SizeRange` is a lemma of its own (`CountDown`).
* **ChannelProofs**: `CallbackOnceCorrect` and `DeliveredCorrect`, of every
  interleaving of two handshakes and for any number of data frames. Delivery needs
  what is on the wire: its data frames continue what was delivered, in order, and
  without a gap as long as both ends are open (`OrderInv`).
* **SessionProofs**, of `ReplayCache`: `BitmapCorrect`, `CheckCorrect`, and
  `FilterRefinement`, that the class implements `SeqFilter`. The invariant is
  `TypeOK`, `BitmapMatches` (within the window a slot is marked when its number was
  accepted) and that nothing is accepted before the first call. The key lemma,
  `MovedWindow`, is that two numbers of one window share no slot, so advancing clears
  exactly what leaves.
* **SessionProofs**, of `SecureChannel` with one handshake on the connection:
  `NothingRejectedCorrect` and `AgreeAloneCorrect`. That nothing is rejected needs the
  state of the whole exchange (`AloneInv`): HANDSHAKE_COMPLETE is on the wire before
  any frame that the initiator encrypted, the responder encrypts nothing before it
  is active, the sequence numbers on the wire are those that the receiver has not
  seen. This is also why the two sessions agree then, the property that crossing
  handshakes break.
* **LookupProofs**: the six safety properties of `Lookup`, for every number of
  nodes, alpha, k and set of holders. The invariant divides the nodes in flight
  into those in an active loop and those with a request (`Divided`), says that the
  timer of a request lives (`Tracked`), and how the reports relate to `finished`
  and to what is still in flight (`ReportInv`): a value lookup that has reported has
  no active loop, and either `finished` is set, so that `step_func` returns at once,
  or no handler is left that could call it; a node lookup has no handler left
  unless an answer raced its timer. For `QueriedCorrect`, `AskedInv` says that a node
  whose turn has come is in the shortlist and not new, and that none of them is in an
  active loop: a loop is filled with new nodes only, and no operation makes a node of
  the shortlist new again. `ExhaustedConverged` is the heart of `ConvergedCorrect`: when the k closest
  known nodes are all answered or failed and nothing is in flight, every known node
  is in the result, has failed or has k closer ones before it. It rests on lemmas
  about `Closest`, where the least counterexample takes the place of induction.
* **RepublishProofs**: `KeptCorrect`, `OutageCorrect`, `ReadsCorrect`, from
  `2 * (Interval + MaxLate) + MaxDelay <= Ttl` alone. The invariant bounds the age of
  the owner's last record by the timer, orders numbers and times of issue within a
  run, and says of each number of the run that it is stored, superseded, under way
  or lost.
* **NodeProofs**, of `NodeLife`: `IdentityCorrect`, `PairCorrect`, `LateCorrect`. An
  identity that was used without a fault is whole on disk; the two halves are written
  from one pair and compared when read; while a late connection is handled no accept
  is under way that could succeed.
* **NodeProofs**, of `TcpConnection`: `FramesIntactCorrect`, `NothingStuckCorrect`,
  `RegisteredCorrect`, `WriteQueueCorrect`, for any frames, header size and limit. The
  invariant of the stream is that the buffer followed by the unread bytes starts at
  the beginning of the first frame not delivered and goes on without a gap
  (`Aligned`), which ends only with a protocol error that closes the socket, and that
  the parser is never left with a complete frame (`Drained`). The write queue holds
  the frames after those written, and `writing_` says whether it is empty.

Only model-checked: the liveness properties `EventuallyReported` (of `Lookup` and of
`Publish`), `ExpiredIsPurged`, `SuccessReachesPeer`, `EndedIsClosed` and
`ShutdownCompletes`, since fairness and `ENABLED` are out of the prover's reach. Every
invariant and action property of a passing run, and the refinement, is a theorem.

## Not modelled

* **Message encodings** (`dht/dht_messages.cpp`, `security/ake_messages.cpp`, the CBOR
  part of `dht/node_record.cpp`): stateless conversions of a library's format, byte
  by byte. What the rest of the code sees of them is whether a message parses, and
  a message that does not is an action of the models that receive it.
* **Cryptography** (`security/crypto_utils.cpp`, signing in `identity/`): wrappers of
  libsodium. The models take keys to open what the matching key sealed and
  signatures of honest nodes to verify; `SecureChannel` has honest ends only, so the
  branches for forged handshake messages are not reached.
* **Configuration, command line, logging, the JSON export of the routing table**:
  input and output without state of their own.
* **The connect call** of `TcpConnection` with its resolver and `poll`: its result is
  success or failure in `Lookup`, `Publish` and `LruProbe`; while it blocks, no other
  handler runs, which is why these modules may treat it as part of one handler.
* **Crashes of the operating system**: `Keypair::save` does not sync its files, so a
  power failure may undo writes in any order; `KeyFile` is about processes that die.
* **Several signals in one process**, signals delivered to the `--duration` thread,
  and a signal before the identity is loaded, which `stop` answers with a crash.
* **Data races as such**: `running_` is not atomic; the models let each access happen
  at any moment but give it one of the values written. asio objects used from two
  threads without a strand are taken to work.
* **Memory growth**: `highest_seq_` is never purged, and `step_func` holds a reference
  to itself, so a finished lookup is not freed. Neither changes what the code
  answers.
