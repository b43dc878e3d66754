------------------------ MODULE TransactionalBroker -------------------------
(***************************************************************************)
(* Transactions end to end: the methods of Broker that a transactional     *)
(* producer uses (broker-runtime/src/broker.rs), the shards that serve     *)
(* their commands (broker-runtime/src/partition.rs), and behind them the   *)
(* transaction coordinator and the consumer group on shard 0 (TxnOps,      *)
(* GroupOps) and the partition logs on their shards (LogOps).              *)
(*                                                                         *)
(* ShardRuntime covers sending, retrying and waiting in detail.  Here a    *)
(* call puts a command into its shard's mailbox or finds it full, and then *)
(* either gets the reply when the command is served or gives up before; a  *)
(* command that was given up on stays in the mailbox without a caller.     *)
(***************************************************************************)
EXTENDS LogOps, TxnOps, GroupOps

CONSTANTS
  Instance,          \* producer processes, each one caller of the broker
  TransactionalId,
  ShardOf,           \* the shard of each partition; partitions are numbers,
                     \* compared as the BTreeSet of the source compares them
  MailboxCapacity,
  Position,          \* the consumer position a transaction may enlist
  NoIdentity,        \* held by an instance before init_producer succeeds
  Nobody,            \* the caller of a command that was given up on
  Budget             \* bounds: how many inits, adds, produces, ends, offsets,
                     \* rejoins and timeouts a behaviour may contain

Partition == DOMAIN ShardOf
Shard == {0} \cup {ShardOf[p] : p \in Partition}

ASSUME BrokerAssumption ==
  /\ Partition \subseteq Nat
  /\ MailboxCapacity \in Nat \ {0, 1}
  /\ Nobody \notin Instance
  /\ EmptyId \notin TransactionalId

VARIABLES
  mailbox,      \* per shard: commands, oldest first
  coordinator,  \* shard 0
  group,        \* shard 0
  logs,         \* per partition, on its shard
  client,       \* per instance: the method it is in
  held,         \* per instance: the identity init_producer gave it
  serial,       \* ghost, per transactional id: number of its current transaction
  ended,        \* ghost: the accepted EndTransaction requests
  written,      \* ghost: every batch, with the transaction it was validated for
  left          \* what is left of Budget
vars == <<mailbox, coordinator, group, logs, client, held, serial, ended, written, left>>

Idle == [op |-> "idle"]

Init ==
  /\ mailbox = [s \in Shard |-> <<>>]
  /\ coordinator = new_coordinator
  /\ group = join(new_group, 1, {"events"}, <<>>)
  /\ logs = [p \in Partition |-> new_log]
  /\ client = [i \in Instance |-> Idle]
  /\ held = [i \in Instance |-> NoIdentity]
  /\ serial = [t \in TransactionalId |-> 0]
  /\ ended = {}
  /\ written = {}
  /\ left = Budget

spend(what) == left[what] > 0 /\ left' = [left EXCEPT ![what] = @ - 1]

-----------------------------------------------------------------------------
(* The caller's side.                                                      *)

\* A full mailbox makes the method return MailboxUnavailable: at its first command
\* nothing has happened (no step here), later ones are in GiveUp.
send(i, s, command, now) ==
  /\ Len(mailbox[s]) < MailboxCapacity
  /\ mailbox' = [mailbox EXCEPT ![s] = Append(@, [from |-> i, request |-> command])]
  /\ client' = [client EXCEPT ![i] = now]
  /\ UNCHANGED <<coordinator, group, logs, held, serial, ended, written>>

Waiting(op) == [op |-> op, waiting |-> TRUE]

InitProducer(i, tid) ==
  /\ client[i] = Idle /\ spend("inits")
  /\ send(i, 0, [kind |-> "Init", tid |-> tid], Waiting("init"))

\* The other methods need an identity; it may be one that is fenced by now.
ready(i) == client[i] = Idle /\ held[i] # NoIdentity

AddTransactionPartition(i, p) ==
  /\ ready(i) /\ spend("adds")
  /\ send(i, 0, [kind |-> "AddPartition", held |-> held[i], partition |-> p], Waiting("add"))

AddTransactionOffset(i) ==
  /\ ready(i) /\ spend("offsets")
  /\ send(i, 0, [kind |-> "AddOffset", held |-> held[i],
                 offset |-> [generation |-> group.generation, position |-> Position]],
          Waiting("add"))

ProduceTransactional(i, p) ==
  /\ ready(i) /\ spend("produces")
  /\ send(i, 0, [kind |-> "Validate", held |-> held[i], partition |-> p], Waiting("validate"))

\* produce_transactional after its validation was accepted.
SendAppend(i) ==
  /\ client[i].op = "append" /\ ~client[i].waiting /\ UNCHANGED left
  /\ send(i, ShardOf[client[i].partition],
          [kind |-> "Append", held |-> held[i], partition |-> client[i].partition,
           serial |-> client[i].serial],
          Waiting("append"))

EndTransaction(i, commit) ==
  /\ ready(i) /\ spend("ends")
  /\ send(i, 0, [kind |-> "End", held |-> held[i], commit |-> commit], Waiting("end"))

\* end_transaction after the coordinator completed: the partitions one by one,
\* then, for a commit, the offsets one by one.
completing(i) == client[i].op = "complete" /\ ~client[i].waiting

next_partition(i) ==
  CHOOSE p \in client[i].partitions : \A q \in client[i].partitions : p <= q

\* Resolves the first partition only.
SendResolve_first(i) ==
  /\ completing(i) /\ client[i].partitions # {} /\ UNCHANGED left
  /\ send(i, ShardOf[next_partition(i)],
          [kind |-> "Resolve", producer_id |-> held[i].identity.id, commit |-> client[i].commit],
          [client[i] EXCEPT !.waiting = TRUE, !.partitions = {}])

SendResolve(i) ==
  /\ completing(i) /\ client[i].partitions # {} /\ UNCHANGED left
  /\ send(i, ShardOf[next_partition(i)],
          [kind |-> "Resolve", producer_id |-> held[i].identity.id, commit |-> client[i].commit],
          [client[i] EXCEPT !.waiting = TRUE, !.partitions = @ \ {next_partition(i)}])

SendOffset(i) ==
  /\ completing(i) /\ client[i].partitions = {} /\ UNCHANGED left
  /\ client[i].commit /\ client[i].offsets # <<>>
  /\ send(i, 0, [kind |-> "CommitOffset", offset |-> Head(client[i].offsets)],
          [client[i] EXCEPT !.waiting = TRUE, !.offsets = Tail(@)])

\* end_transaction is about to return Ok.
completed(i) ==
  /\ completing(i)
  /\ client[i].partitions = {}
  /\ client[i].commit => client[i].offsets = <<>>

ReturnOk(i) ==
  /\ completed(i)
  /\ client' = [client EXCEPT ![i] = Idle]
  /\ UNCHANGED <<mailbox, coordinator, group, logs, held, serial, ended, written, left>>

\* A later command of produce_transactional or end_transaction meets a full mailbox.
GiveUp(i) ==
  /\ \/ /\ client[i].op = "append" /\ ~client[i].waiting
        /\ Len(mailbox[ShardOf[client[i].partition]]) >= MailboxCapacity
     \/ /\ completing(i) /\ client[i].partitions # {}
        /\ Len(mailbox[ShardOf[next_partition(i)]]) >= MailboxCapacity
     \/ /\ completing(i) /\ client[i].partitions = {} /\ ~completed(i)
        /\ Len(mailbox[0]) >= MailboxCapacity
  /\ client' = [client EXCEPT ![i] = Idle]
  /\ UNCHANGED <<mailbox, coordinator, group, logs, held, serial, ended, written, left>>

\* ReplyTimeout: the method returns, its command stays behind.
TimeOut(i) ==
  /\ client[i] # Idle /\ client[i].waiting /\ spend("timeouts")
  /\ client' = [client EXCEPT ![i] = Idle]
  /\ mailbox' = [s \in Shard |-> [n \in 1 .. Len(mailbox[s]) |->
                   IF mailbox[s][n].from = i THEN [mailbox[s][n] EXCEPT !.from = Nobody]
                   ELSE mailbox[s][n]]]
  /\ UNCHANGED <<coordinator, group, logs, held, serial, ended, written>>

-----------------------------------------------------------------------------
(* The shard's side: partition_task takes the oldest command.              *)

serves(s, kind) == mailbox[s] # <<>> /\ Head(mailbox[s]).request.kind = kind
request(s) == Head(mailbox[s]).request
caller(s) == Head(mailbox[s]).from

\* Takes the command; its caller, if it still waits, goes on with now.
answer(s, now) ==
  /\ mailbox' = [mailbox EXCEPT ![s] = Tail(@)]
  /\ client' = IF caller(s) = Nobody THEN client ELSE [client EXCEPT ![caller(s)] = now]

ServeInit ==
  /\ serves(0, "Init")
  /\ LET tid == request(0).tid
     IN  /\ coordinator' = init(coordinator, tid)
         /\ serial' = [serial EXCEPT ![tid] = @ + 1]
         /\ held' = IF caller(0) = Nobody THEN held
                    ELSE [held EXCEPT ![caller(0)] =
                            [tid |-> tid, identity |-> issued_identity(coordinator, tid)]]
  /\ answer(0, Idle)
  /\ UNCHANGED <<group, logs, ended, written, left>>

ServeAddPartition ==
  /\ serves(0, "AddPartition")
  /\ LET r == request(0)
     IN  coordinator' =
           IF add_partition_error(coordinator, r.held.tid, r.held.identity, r.partition) = "Ok"
           THEN add_partition(coordinator, r.held.tid, r.partition) ELSE coordinator
  /\ answer(0, Idle)
  /\ UNCHANGED <<group, logs, held, serial, ended, written, left>>

ServeAddOffset ==
  /\ serves(0, "AddOffset")
  /\ LET r == request(0)
     IN  coordinator' =
           IF add_offset_error(coordinator, r.held.tid, r.held.identity, r.offset) = "Ok"
           THEN add_offset(coordinator, r.held.tid, r.offset) ELSE coordinator
  /\ answer(0, Idle)
  /\ UNCHANGED <<group, logs, held, serial, ended, written, left>>

ServeValidate ==
  /\ serves(0, "Validate")
  /\ LET r == request(0)
     IN  IF validate_produce_error(coordinator, r.held.tid, r.held.identity, r.partition) = "Ok"
         THEN answer(0, [op |-> "append", waiting |-> FALSE, partition |-> r.partition,
                         serial |-> serial[r.held.tid]])
         ELSE answer(0, Idle)
  /\ UNCHANGED <<coordinator, group, logs, held, serial, ended, written, left>>

ServeEnd ==
  /\ serves(0, "End")
  /\ LET r == request(0)  tid == r.held.tid
     IN  IF end_error(coordinator, tid, r.held.identity) = "Ok"
         THEN /\ coordinator' = end(coordinator, tid)
              /\ serial' = [serial EXCEPT ![tid] = @ + 1]
              /\ ended' = ended \cup
                   {[tid |-> tid, serial |-> serial[tid], commit |-> r.commit,
                     offsets |-> completion(coordinator, tid).offsets]}
              /\ answer(0, [op |-> "complete", waiting |-> FALSE, commit |-> r.commit,
                            partitions |-> completion(coordinator, tid).partitions,
                            offsets |-> completion(coordinator, tid).offsets,
                            serial |-> serial[tid]])
         ELSE answer(0, Idle) /\ UNCHANGED <<coordinator, serial, ended>>
  /\ UNCHANGED <<group, logs, held, written, left>>

\* Goes on after an offset that the group refuses.
ServeCommitOffset_lenient ==
  /\ serves(0, "CommitOffset")
  /\ LET o == request(0).offset
     IN  group' = IF commit_offset_error(group, o.generation, o.position) = "Ok"
                  THEN commit_offset(group, "events", o.position) ELSE group
  /\ answer(0, IF caller(0) = Nobody THEN Idle ELSE [client[caller(0)] EXCEPT !.waiting = FALSE])
  /\ UNCHANGED <<coordinator, logs, held, serial, ended, written, left>>

\* An error ends end_transaction where it is.
ServeCommitOffset ==
  /\ serves(0, "CommitOffset")
  /\ LET o == request(0).offset
     IN  IF commit_offset_error(group, o.generation, o.position) = "Ok"
         THEN /\ group' = commit_offset(group, "events", o.position)
              /\ answer(0, IF caller(0) = Nobody THEN Idle
                           ELSE [client[caller(0)] EXCEPT !.waiting = FALSE])
         ELSE answer(0, Idle) /\ UNCHANGED group
  /\ UNCHANGED <<coordinator, logs, held, serial, ended, written, left>>

ServeAppend(s) ==
  /\ serves(s, "Append")
  /\ LET r == request(s)  p == r.partition
     IN  /\ logs' = [logs EXCEPT ![p] = append_transactional(@, <<1>>, r.held.identity.id)]
         /\ written' = written \cup
              {[partition |-> p, base_offset |-> logs[p].next_offset, tid |-> r.held.tid,
                serial |-> r.serial]}
  /\ answer(s, Idle)
  /\ UNCHANGED <<coordinator, group, held, serial, ended, left>>

\* ResolveTransaction goes to every log of the shard.
ServeResolve(s) ==
  /\ serves(s, "Resolve")
  /\ logs' = [p \in Partition |->
                IF ShardOf[p] = s
                THEN commit_transaction(logs[p], request(s).producer_id, request(s).commit)
                ELSE logs[p]]
  /\ answer(s, IF caller(s) = Nobody THEN Idle
               ELSE [client[caller(s)] EXCEPT !.waiting = FALSE])
  /\ UNCHANGED <<coordinator, group, held, serial, ended, written, left>>

\* A consumer joins the group, which moves its generation on.
Rejoin ==
  /\ spend("rejoins")
  /\ group' = join(group, 1, {"events"}, <<>>)
  /\ UNCHANGED <<mailbox, coordinator, logs, client, held, serial, ended, written>>

Next ==
  \/ \E i \in Instance :
       \/ \E tid \in TransactionalId : InitProducer(i, tid)
       \/ \E p \in Partition : AddTransactionPartition(i, p) \/ ProduceTransactional(i, p)
       \/ AddTransactionOffset(i)
       \/ \E commit \in BOOLEAN : EndTransaction(i, commit)
       \/ SendAppend(i) \/ SendResolve(i) \/ SendOffset(i)
       \/ ReturnOk(i) \/ GiveUp(i) \/ TimeOut(i)
  \/ ServeInit \/ ServeAddPartition \/ ServeAddOffset \/ ServeValidate
  \/ ServeEnd \/ ServeCommitOffset
  \/ \E s \in Shard : ServeAppend(s) \/ ServeResolve(s)
  \/ Rejoin

Spec == Init /\ [][Next]_vars

-----------------------------------------------------------------------------
state_of(w) ==
  logs[w.partition].batches[CHOOSE n \in 1 .. Len(logs[w.partition].batches) :
    logs[w.partition].batches[n].base_offset = w.base_offset].state

\* A batch is visible to read-committed consumers, or discarded, only if an
\* end_transaction of its own transactional id with that outcome was accepted:
\* producer ids keep transactional ids apart although a Resolve command goes to
\* every log of a shard.
OutcomeDecidedByOwnId ==
  \A w \in written :
    state_of(w) # "Pending" =>
      \E e \in ended : e.tid = w.tid /\ e.commit = (state_of(w) = "Committed")

\* When end_transaction returns Ok, no batch of the transaction it ended is pending,
\* even if appends of it timed out and are served late: the Resolve command follows
\* them through the same mailbox.
EndOkMeansResolved ==
  \A i \in Instance : completed(i) =>
    \A w \in written :
      w.tid = held[i].tid /\ w.serial = client[i].serial => state_of(w) # "Pending"

\* As long as the transactional id has been initialised only once (its epoch is 0),
\* end_transaction returning Ok means that every batch of the transaction has the
\* requested outcome.
EndOkMeansDecided ==
  \A i \in Instance :
    completed(i) /\ coordinator.transactions[held[i].tid].identity.epoch = 0 =>
      \A w \in written :
        w.tid = held[i].tid /\ w.serial = client[i].serial =>
          state_of(w) = IF client[i].commit THEN "Committed" ELSE "Aborted"

\* When end_transaction returns Ok for a commit, the offsets enlisted in the
\* transaction are the group's committed ones: an offset the group refuses makes
\* end_transaction fail instead.
EndOkCommitsOffsets ==
  \A i \in Instance : completed(i) /\ client[i].commit =>
    \A e \in ended :
      e.tid = held[i].tid /\ e.serial = client[i].serial /\ e.offsets # <<>> =>
        "events" \in DOMAIN group.offsets /\ group.offsets["events"] = Position

decided(w, commit) ==
  \E e \in ended : e.tid = w.tid /\ e.serial = w.serial /\ e.commit = commit

\* "read-committed fetches hide pending and aborted batches" (docs/architecture.md):
\* a batch of an aborted transaction never becomes visible.  Not kept: the next
\* commit of the same producer id commits every batch it ever wrote.
AbortedNeverVisible ==
  \A w \in written : decided(w, FALSE) => state_of(w) # "Committed"

\* Nothing is under way.
quiescent == \A i \in Instance, s \in Shard : client[i] = Idle /\ mailbox[s] = <<>>

\* "Enlists a consumer offset so it is committed atomically with the producer
\* transaction" (add_transaction_offset): once nothing is under way, a transaction whose
\* batches are visible has its offsets committed.  Not kept: the batches are resolved
\* first, and a rebalance since the enlistment makes the offset's generation stale.
OffsetsAtomic ==
  quiescent => \A e \in ended :
    /\ e.offsets # <<>>
    /\ \E w \in written : w.tid = e.tid /\ w.serial = e.serial /\ state_of(w) = "Committed"
    => "events" \in DOMAIN group.offsets
=============================================================================
