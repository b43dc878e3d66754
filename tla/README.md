# A TLA+ model of charlotte-kafka-broker

This directory specifies the broker in TLA+, checks it with TLC on small
instances, and proves the central invariants of its components with TLAPS for
every value of the constants. Paths below are relative to `src/crates/`.

## The system

| Part | Code | State | Operations |
|---|---|---|---|
| Partition log | `broker-core/src/log.rs` | batches, next offset, retained bytes | append, append_transactional, commit_transaction, fetch, list_offset, retention |
| Transaction coordinator | `broker-core/src/coordination.rs` | per transactional id: identity (producer id, epoch), state, enlisted partitions and offsets; next id | init, add_partition, add_offset, validate_produce, end |
| Group coordinator | `broker-core/src/coordination.rs` | per group: generation, members, assignments, committed offsets | join, heartbeat, leave, leave_any, commit_offset, offset |
| Topic catalog | `broker-core/src/topic.rs` | topics and partition counts | filled at start, read-only afterwards |
| Shard runtime | `broker-runtime/src/{broker,partition,message}.rs` | one mailbox and one task per shard, a reply channel per call, a stop flag | call, coordinate, shutdown; the loop of a shard |
| Broker transactions | `broker-runtime/src/broker.rs` | nothing of its own | init_producer, add_transaction_partition, add_transaction_offset, produce_transactional, end_transaction |
| Session layout | `broker-runtime/src/session.rs` | none | which shard serves a session |
| Engine | `broker-engine/src/engine.rs` | none of its own | decode, dispatch, map errors to codes, encode |
| Wire codec | `broker-wire/src/*.rs` | none | requests, responses, record batches, varints |
| Host server | `broker-host/src/server.rs` | stop flag | accept loop, one thread per connection |
| EL0 server | `broker-el0/src/main.rs` | diagnostics counters | accept loop with backoff, one session per connection |

Connection threads decode a request and call the `Broker`. The broker puts a
command into the bounded mailbox of one shard, parks, and polls a reply channel
made for this call. Each shard is one task that owns the logs placed on it and
executes one command at a time; shard 0 also owns both coordinators. Everything
that involves more than one shard (a transactional produce, the end of a
transaction, shutdown) is a sequence of such calls made by the caller's thread,
with no lock and no rollback around them.

What is hard about it, and where the modules aim:

- calls of several threads interleave at every mailbox, and a method of several
  calls is interrupted between any two of them;
- a caller gives up after a bounded number of attempts, but its command stays in
  the mailbox and is executed later;
- identities (producer epochs, group generations) go stale while a client still
  holds them, and counters saturate;
- retention evicts batches between two requests of a consumer;
- the later calls of a method may fail after the earlier ones took effect, and a
  request of several entries goes on after one of them failed;
- a client learns of all this only through the codes of one response.

Nothing is persisted, so there is no crash recovery to model.

## Modules

| Module | Models |
|---|---|
| `LogOps` | the methods of `PartitionLog` that change a log, as operators on a log value |
| `PartitionLog` | one log driven by arbitrary calls of them; `OffsetWindow` is what it promises |
| `LogFetch` | `fetch_inner`: range check, binary search, scan with its three early exits |
| `LogReader` | a log with one consumer that polls it and resynchronises after OffsetOutOfRange |
| `TxnOps`, `TransactionCoordinator` | the transaction coordinator, and client processes competing for transactional ids |
| `GroupOps`, `GroupCoordinator` | one consumer group with its round robin, and client processes that may share member ids |
| `ShardRuntime` | mailboxes, retries, parking, replies, timeouts and shutdown; `CallService` is what it promises |
| `Connection` | `serve_connection` of both servers: framing of a byte stream, one request at a time, closing |
| `AcceptLoop` | `accept_loop` of both servers: listeners, retries with backoff, session ids and placement, counters, stopping |
| `RecordBatch` | varints and record sets: what a fetched window is encoded as, what a produced set is decoded to, what is refused |
| `Wire` | the supported versions, the request decoders, the response encoders and their limits |
| `Engine` | composes `Wire`, `LogFetch`, `LogOps`, `TxnOps`, `GroupOps`, the topic catalog and mailboxes into `handle_frame` for two sessions |
| `TransactionalBroker` | composes `LogOps`, `TxnOps`, `GroupOps` and mailboxes into the transactional methods of `Broker` |
| `PartitionLogProofs`, `PartitionLogRefinement`, `TransactionCoordinatorProofs`, `GroupCoordinatorProofs`, `ShardRuntimeProofs`, `ShardShutdownProofs`, `ConnectionProofs`, `AcceptLoopProofs` | theorems and proofs |
| `MC*` | values of constants, symmetry sets, the reference definition of a fetch, and the frames the engine is given |

Operators and actions keep the names of the functions they translate.
Operators called `x_error` are the checks of the method `x` in the order of the
code, with `"Ok"` for none; `x` itself is the state change that follows. A few
operators with a suffix, such as `list_offsets_misrouted`, sit just before the
definition whose name they extend: they are plausible mistakes in that
definition, and each property is known to fail with one of them in place.

How the state corresponds:

- **Log.** A batch is its base offset, the prefix sums `ends` of its record
  sizes, its owner and its `BatchState`. Payloads, keys, headers and timestamps
  are not represented: no code of the log looks at them except for their size.
  Timestamps appear in `RecordBatch`, where the encoder forms their differences.
  `base_byte` and `next_byte` are ghosts, the position of a batch in the stream
  of all bytes ever appended; they turn the statement that `retained_bytes` is a
  sum over the batches into a difference. No definition that models code reads
  them: `bytes_after` counts down batch by batch, saturating, as the loop of
  `enforce_retention` does, and the number of evictions is the smallest one after
  which the loop condition is false, which is where the loop stops.
- **Transaction coordinator.** A transactional id, a partition or an offset is a
  model value, with `EmptyId`, `InvalidPartition` and `InvalidOffset` for the
  arguments the code rejects. Epoch and id saturate at `MaxEpoch` and
  `MaxProducerId` in place of `i16::MAX` and `i64::MAX`. `held` is what each
  client process remembers; `latest`, `enlisted` and `promised` are ghosts.
- **Group.** Member ids are numbers because the round robin depends on their
  order. `view` is what each client process remembers. The generation saturates
  at `MaxGeneration`.
- **Shard runtime.** `pc` is where a thread is inside `call`, `coordinate` or
  `shutdown`; each attempt of `try_send` or `try_recv` is one step. A shard
  applies a command and answers it in two steps, since the caller can give up
  between them. The channels, the executor and the parker belong to a library
  outside the repository; a channel is a bounded FIFO whose `try_send` fails
  when it is full. Whether it fails when the receiver is gone cannot be seen
  from the code, so both happen.
- **Connection.** A byte is the pair of its frame and its place in it, so cutting
  a frame at the wrong place is visible. The host server reads exactly a prefix
  and exactly a payload; the EL0 server takes chunks of any size and may lose one
  that it cannot map. `noise` is the length that misplaced bytes happen to spell.
  `handled` counts a frame as soon as the engine is called, whether or not the
  engine then returns an error. `reads` says whether the client takes its responses
  off the connection, which it may stop and resume at any time; `eof`, that it has
  closed the connection.
- **Transactional broker.** `client` is the method an instance is in and how far
  it got. Each command is sent in one step and served in another; giving up
  leaves the command in the mailbox without a caller. `serial`, `ended` and
  `written` are ghosts that remember which transaction a batch was validated for
  and which ends were accepted.
- **Wire and record batches.** A frame is its header and the fields of its body.
  Every refusal of a decoder or an encoder fails the frame, so they are
  predicates, except that UnsupportedVersion is told apart for ApiVersions.
  Fields whose only fault can be a length that does not fit the bytes around them
  are one flag `whole`; a checksum is a flag `crc`. Varints are sequences of
  groups; `Group`, `Half` and `HalfInt` stand for 2^7, 2^63 and 2^31, so the
  limits of both widths are met with small numbers.
- **Engine.** `session` is the request a session is in: its frame, the entries
  (`todo`), the outcomes so far (`results`), and the call it is making. Entries
  are worked off in order, one call after the other; a call is sent, served or
  given up as in `TransactionalBroker`. `answers` is a ghost with all requests
  answered so far, and `left` bounds the frames and the lost replies. The topic
  catalog is folded from the configuration with the checks of `create`.
- **Accept loop.** `pc` is the place in the loop: before the stop flag is read
  (`check`, and `poll` in the inner loop of EL0), before `open`, before `listen` or
  before an accept. A stop or a client may come between the flag and the accept. A host listener serves all clients; an EL0
  listener becomes the connection it accepts. `placed` maps the running sessions
  to their shards; `ended` and `dropped` are ghosts.

## What is checked

Runs that pass:

| Run | Instance | Shows |
|---|---|---|
| `partition_log` | offsets 0..4, budget 4 bytes, two producers, batches of 0 to 3 records | offsets tile the retained range; bytes are counted exactly; retention evicts what it must and no more; history is never rewritten; the log implements `OffsetWindow`; every fetch, for every offset, record and byte limit and isolation, returns what a definition by sets says; the batch it is encoded as is decoded to the same offsets, timestamps and sizes, and its header announces no record it does not hold |
| `log_reader` | offsets 0..4, budget 3 bytes, fetches of 2 records and 2 bytes | a consumer racing appends, resolutions and retention misses nothing it may see, sees nothing twice, and reaches the end of the log |
| `transaction_coordinator` | three instances, two ids, epochs 0..2, ids up to 4, two offsets | fencing, unique producer ids, exact completions (partitions and the order of offsets) |
| `group_coordinator` | two clients, three member ids, two topics with 1 and 3 partitions, generations to 4 | generation fencing, exact and even assignment, offsets survive rebalances |
| `shard_runtime` | two threads, two shards, mailboxes of 2, two attempts, two calls and a shutdown | the runtime implements `CallService`; commands of a thread take effect in order; shutdown is final; every call returns |
| `connection` | either front end, two pipelined frames at a time, without end, with lengths 0, the limit and one above, prefixes of two bytes, one lost chunk, a client that reads or does not | frames reach the engine whole and in order however the bytes are cut; at most one request is in doubt; the buffer stays below one largest frame between chunks; what arrived is answered, by the host if the client reads; a close or a stop ends the session although the client goes on sending |
| `transactional_broker` | two instances, two ids, two partitions on two shards, mailboxes of 2, one rebalance, one lost reply | what Ok from `end_transaction` means: nothing of the transaction is pending, its batches have the requested outcome, its offsets are committed; one id's outcome never reaches the batches of the other |
| `engine` | two sessions, frames of all 15 APIs and eight faulty ones in four workloads, two topics with three partitions on two shards, mailboxes of 2, one lost reply | the codes given to the clients account for what the broker did; a session's later reads count its writes; only a faulty frame closes a connection, and then nothing of it was done; every frame is answered or refused |
| `accept_loop` | either front end, three clients, eight failures, 0 and 2 configured session shards | connections and counters add up; retries back off within their bound; waiting clients get in; a stop ends the loop and the call that asked for it |

Runs whose property is violated, each stating what a comment or document of the
repository says:

| Run | Statement | What happens |
|---|---|---|
| `log_reader_stable` | `last_stable_offset` is the "last offset that is safe for read-committed consumers" | a read-committed fetch steps over a pending batch and returns what follows it, above the offset it reports |
| `aborted_never_visible` | "read-committed fetches hide pending and aborted batches" | `commit_transaction` rewrites every batch of the producer id, so the next commit publishes an aborted batch; one client and no fault suffice |
| `offsets_atomic` | an offset is "committed atomically with the producer transaction" | batches are resolved first; after a rebalance the group refuses the offset |

These are reported as the disagreements of text and code that they are. More were
met while the modules were written. Each is at odds with what a comment or a
document says or suggests; no run is kept for them, and the properties of the
passing runs are stated so that they do not claim the opposite:

- `coordination.rs:102` says that `init` "fences the previous producer" and
  "issues a new epoch". At the last epoch it issues an identity that is already
  out and fences nobody. The fencing properties are stated below the last epoch
  and, for the same reason, below the last generation.
- `log.rs:215` says that a transactional batch "is hidden from read-committed
  readers until the transaction is resolved". `init` keeps the producer id and
  leaves pending batches behind; the commit of the successor publishes what the
  fenced instance wrote.
- `broker.rs:298` says that the validation of a transactional produce "checks the
  producer epoch and enlisted partition before appending". It does, but the check
  and the append are two calls; an `init_producer` between them lets a producer
  append that is fenced by then.
- `docs/architecture.md:122` says that "resolution is sent back to every enlisted
  partition". When one of these calls fails, the remaining partitions keep
  pending batches, and the end cannot be repeated since the coordinator is
  already back in `Empty`.
- `partition.rs:279` calls `ReplyTimeout` "the authoritative failure signal". A
  call that returned it may still take effect. `CallService` allows exactly this
  and no more, and `AnswersAccountForEffects` says the same of the code
  UNKNOWN_SERVER_ERROR.
- `broker.rs:361` says that ending a transaction "fences its identity". The
  coordinator keeps the identity (`coordination.rs:236`) and goes on accepting
  it, as a Kafka producer expects.
- `engine.rs:4` says that "each supported request maps to one response". Two
  responses are refused by the encoder after the request took effect: that of a
  join which makes the group larger than `MAX_ARRAY_LEN`, and that of a fetch of
  a single record that fits a produced message but not the longer header of an
  encoded batch. `OnlyFaultsClose` names both.
- `docs/architecture.md:102` says that a socket or thread shortage is "logged and
  retried at the EL0 accept boundary". The result of the spawn is discarded, so
  that connection is closed and counted as active for ever, and some failures
  within `listen` abort the domain. `SessionsAccounted` and `ClientsGetIn` except
  just these.
- `request.rs:174` calls `max_bytes` of a fetch the "Overall byte cap". The engine
  applies it to each partition by itself, so a response of several partitions can
  exceed it, and `MAX_FRAME_LEN` too, for which there is only a `debug_assert`
  (`codec.rs:97`).
- The comment at `record_batch.rs:124` says that transactional batches are
  refused; `decode_record_batches_with_identity` accepts them, and a batch marked
  transactional in a request without a transactional id is appended as plain data.
- `docs/architecture.md:201` lists "Transactional produce (`transactional_id` set)"
  as answered with UNSUPPORTED_VERSION, and `request.rs:157` says of the
  transactional id of a produce that "only `None` is supported". The engine passes
  such a request on to `produce_transactional`.

Further limits contradict no text: an EL0 session that cannot map a received
chunk drops it and goes on, so the following bytes are cut at the wrong place, and
`FramesInOrder` is stated for connections that lost no chunk; `write_all` of the
host has no time limit, so a client that does not read its responses holds a thread
until it closes the connection; the host's accept loop ends on any accept error; a listener that comes up and fails at its first
accept resets the count of failures, so that pair repeats without backing off; a
fenced producer's append is answered with UNKNOWN_SERVER_ERROR; partitions
that do not exist can be enlisted; member ids generated for equal correlation ids
are equal.

### Bounds

- **Log.** A budget of 4 bytes with records of 1 to 3 bytes gives logs of one to
  four batches; appends evict none, one or several batches, and a batch larger
  than the budget occurs. Five records in all are enough for retention to
  overtake a consumer. Offsets are `i64` and grow by one per record; their overflow is not in
  reach of the program and not modelled.
- **Coordinators.** Epochs, ids and generations are bounded by the constants
  where the code saturates, so saturation itself is reached. Three instances are
  the smallest number where one instance is fenced by another that is itself
  fenced.
- **Group.** Two clients over three member ids include a client that changes its
  member id and two that share one. A topic with more and one with fewer
  partitions than members, under all three subscriptions, make the round robin's
  global index differ from the index within the topic. `CommitPartition` holds a
  single partition because the code treats committed partitions independently.
- **Runtime.** Two calls and a shutdown fill a mailbox of two behind an
  abandoned call. With two attempts a send or a wait can fail once and succeed,
  or fail for good.
- **Connection.** Two bytes stand for the four of a prefix: a chunk can still end
  before, inside and after one. Two frames are enough for a chunk that holds a
  frame and part of the next, and for a request behind one that failed. When all of
  them are answered the stream starts over (`WriteMore`), so a client may send for
  ever. One lost chunk suffices to misplace everything after it.
- **Transactions.** `Budget` bounds how often each method is called. Two of
  each of inits, enlistments and ends give two transactions of one instance, a
  takeover, and a transaction over two shards. The instance has one more
  timeout, which leaves one command without a caller at any point.
  `CHECK_DEADLOCK FALSE` is set here and for `engine`, because the clients stop
  when the budget is used up, and for `connection` and `accept_loop`, because a
  connection and a loop end.
- **Record batches.** Numbers of `2 * Half` values with groups of `Group` values
  take one, two or three bytes, the last of them partly filled, as 64 bits do with
  ten bytes of seven.
- **Engine.** Four workloads pair requests that touch the same state: produces
  with fetches and offset lookups; a transaction with a second instance that
  takes its id over, aborts or reads; members of a group with commits and
  newcomers; lookups and faulty frames with produces and joins. A session sends
  up to three frames against one of the other. Limits are small enough to be met:
  arrays of 2, batches of 2 records, frames of 24 bytes, strings of 3. The
  partition of topic 2 lies beside the coordinator, those of topic 1 on both
  shards. A request has up to two entries, so an entry follows one that failed.
- **Accept loop.** `ACCEPT_POLL_MS` and `ACCEPT_RETRY_MAX_MS` are those of the
  code; eight failures in a row reach the longest delay and stay there. A pool of
  0 session shards is the case `new` rounds up to 1.

Symmetry is used for client processes, for offsets in `transaction_coordinator`, and
for transactional ids in `transactional_broker`. No run with symmetry checks a liveness property.

### Fairness

- `LogReader`: weak fairness of the consumer's polls. The consumer is outside
  the repository; the property says that a consumer that polls makes progress.
  Nothing is assumed of producers.
- `ShardRuntime`: weak fairness of the steps of a thread inside a call. Such a
  thread never waits longer than one `park_timeout`. Nothing is assumed of the
  shards, so `CallsReturn` also covers shards that have stopped or hang.
- `Connection`: weak fairness of the session's own steps. On EL0 every wait is
  bounded: a `receive_timeout` of `ACCEPT_POLL_MS`, a `send_all` of 1200 such
  attempts (`main.rs:479`). The host blocks without a limit: a read returns when
  bytes are there or the client has closed, and a write (`server.rs:144`) when the
  client reads or has closed (`RespondEnds`). `ArrivedIsAnswered` is therefore
  promised by the host only to a client that from some time on keeps reading.
  Errors, lost chunks and the client are not fair.
- `Engine`: weak fairness of the steps that the threads of sessions and shards
  take by themselves. Nothing makes a client send or a reply come late. One
  condition for all of them suffices because the workload is finite.
- `AcceptLoop`: weak fairness of the accept thread and of the caller joining it;
  every wait of the loop is a bounded sleep. Failures are finitely many, which
  `ClientsGetIn` needs: a service whose sockets fail for ever takes nobody in.

## What is proved

All theorems hold for arbitrary constants under the named assumptions of the
modules (`LogAssumption` and the like), which say that bounds are natural
numbers and that the special values are not ordinary ones.

**Partition log** (`PartitionLogProofs`). `TypeCorrect`, `OffsetsAlwaysTile`,
`AlwaysWithinBudget`, `AccountingExact`, `HistoryKept`, `EvictionMinimal`. The
inductive invariant is `log_ok /\ within_budget`: the log is well formed, its
batches tile both the offsets and the byte stream, and the byte counter is the
distance from the oldest retained batch to the end of the stream. Neither tiling
nor accounting is inductive alone: that the countdown of the loop reaches just that
distance, and never saturates, follows from the tiling of the byte stream, by the
least batch at which it would not (`BytesAfterDrop`). `RetentionOk` rests on
`EvictionsSpec`: the number of evictions is the least one that ends the loop, so
the log is within budget after it and was over budget before each eviction.

**Transaction coordinator** (`TransactionCoordinatorProofs`). `TypeCorrect`,
`Fencing`, `UniqueProducerIds`, `OngoingMeansEnlisted`, `CompletionsExact`,
`IdentitiesAdvance`. Fencing needs that every identity a client holds has the
producer id of its transactional id and an epoch no later than the
coordinator's, and that an instance with the current epoch is the latest one
(`HeldOk`). Exact completions need that nothing is enlisted under an identity
that has not been issued (`EnlistedOk`), and that the offsets of a transaction are
the promised ones (`OffsetsExact`); unique ids need that ids in use are
below `next_id` (`IdsOk`).

**Group coordinator** (`GroupCoordinatorProofs`). `TypeCorrect`,
`GenerationFencing`, `MembershipFenced`, `OffsetsSafe`, from the invariant that
no client remembers a generation beyond the group's and, below the last
generation, only the latest joiner remembers the current one (`ViewsOk`).
`AssignmentsExact` needs two things. A leave does not recompute the assignment;
it is current exactly as long as some member has the group's generation
(`AssignedOk`), and only then can a heartbeat be accepted. And the round robin
must find a member: the places of the elements of a finite set of numbers have no
gaps (`KthExists`), since the map from elements to places is injective into a set
of the same size. The catalog is assumed to list no partition twice.

**Refinement of the log** (`PartitionLogRefinement`). `LogImplementsWindow`: the
log with its batches, retention and byte counts implements `OffsetWindow`, which
knows a range of offsets and a state for each record. The mapping reads the state
of a record off the batch that covers it (`RecordOf`); there is exactly one such
batch by the tiling proved above (`Covered`). An append extends the window and
moves its start to the base of the oldest batch left (`AppendExtends`), and a
resolution changes the states of one producer's records only (`CommitResolves`).

**Shard runtime** (`ShardRuntimeProofs`). `RuntimeInvariant`,
`RuntimeImplementsService`, `IssueOrder`, for any number of threads and shards,
any mailbox capacity and any number of attempts. The inductive invariant speaks
of the line of a shard, which is what it has applied followed by its mailbox: a
call is in at most one line and at most once, the calls of one thread stand in a
line in the order they were issued, and a call that is still being sent stands in
none (`LinesOk`, `SentOk`). A reply exists only for a call that was applied
(`RepliesOk`). At most once and in order are invariants of the lines; taking
the head of a mailbox does not change a line.

**Shutdown** (`ShardShutdownProofs`). `ShutdownFinal`: `shutdown` counts Stopped
replies that do not say whose they are. The invariant relates the count to the
shards: the number of shards that are down is the number of replies in the
channel plus those the one thread past the flag has taken out (`AcksOk`,
`OneStops`), and a shard that is down has answered what it applied
(`DownAnswered`). With the last reply the shards that are down are all of them.

**Connection** (`ConnectionProofs`). `AtMostOneInDoubt`, for any frames, any way
their bytes are cut, and errors or a lost chunk anywhere: outside `respond` and
`closed` every frame given to the engine has been answered.

**Accept loop** (`AcceptLoopProofs`). `ConnectionsAccounted`, for any number of
clients and failures, any pool sizes and any hash: running, ended and never
started sessions are disjoint and together are the ids handed out, and the
counter of active connections is the number of running and never started ones.

Type correctness, `WithinBudget`, `OngoingIffEnlisted`, `IdentityMonotone` and
`MembershipChangeFences` are proved, and no run repeats them.

Only model-checked: the fetch path and the encoding of batches (recursions over
data), the evenness of the assignment (it counts residues), the order of frames on
a connection (the stream is a concatenation of all frames), `BacksOff`, the
readers, the engine and the composed transactions, and everything about liveness,
which the prover does not handle.

## What is not modelled

- **Bytes.** The layout of fixed-width fields, the polynomials of both checksums,
  the contents of keys, values, headers and strings. The hashes `fnv1a`,
  `splitmix64` and `mix` are parameters: the modules hold for any of them.
- **Size of a whole response.** The encoder has no check for it beyond the
  `debug_assert` in `codec.rs:97`; only the size of each encoded batch is modelled.
- **Contents of some answers.** What SyncGroup returns and the fields of Metadata
  and FindCoordinator that are copied from the configuration. Whether they can be
  encoded is modelled.
- **EL0 start-up.** Reading the launch record, mapping pages, spawning the shard
  tasks and the heartbeat of the service; diagnostics other than the connection
  counters, and logging. These run once, before there is anything to interleave
  with, and call the platform almost exclusively.
- **The platform.** Channels, executor, parker, sockets and threads belong to
  libraries outside the repository and are modelled from how they are used.

## Plan

1. What Ok from `end_transaction` means, proved for any number of instances and
   partitions, starting from the lines of `ShardRuntimeProofs`.
2. The total size of a response, once the code bounds it.
3. The start-up of the EL0 service, as far as its failures leave tasks behind.
