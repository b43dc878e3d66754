------------------------------- MODULE Engine -------------------------------
(***************************************************************************)
(* The request engine (broker-engine/src/engine.rs) between the sessions   *)
(* of the front ends and the broker.  A session gives the engine one frame *)
(* at a time; the engine decodes it (Wire), works off its entries in       *)
(* order with one call to the broker after the other, maps their outcomes  *)
(* to Kafka error codes and encodes the response.  Behind the calls are    *)
(* the catalog (broker-core/src/topic.rs), the methods of Broker and the   *)
(* shards with the logs, the transactions and the groups.                  *)
(*                                                                         *)
(* As in TransactionalBroker a call puts its command into the mailbox of a *)
(* shard or finds it full, and gets the reply when the command is served   *)
(* or gives up before; ShardRuntime has the details.                       *)
(***************************************************************************)
EXTENDS Wire, LogFetch, TxnOps, GroupOps, FiniteSetsExt

CONSTANTS
  Session,
  Topics,            \* config.topics: a sequence of [name, partitions]; names are numbers
  host,              \* identity.host
  Hash(_, _),        \* splitmix64(fnv1a(topic) ^ ...) of a topic and a partition
  ShardCount,
  MailboxCapacity,
  MaxFetchRecords,   \* max_fetch_records
  MaxFetchBytes,     \* max_fetch_bytes
  Nobody,            \* the session of a command that was given up on
  Workload           \* bounds: a sequence of records that say which frames each session
                     \* may send, how many of them, how many replies may be lost, and
                     \* what the coordinator has seen before

ASSUME EngineAssumption ==
  /\ MailboxCapacity \in Nat \ {0, 1}
  /\ ShardCount \in Nat \ {0}
  /\ Nobody \notin Session
  /\ EmptyId = Empty /\ EmptyMember = Empty

-----------------------------------------------------------------------------
(* The catalog.                                                            *)

create_error(topics, name, partitions) ==
  IF name = Empty \/ partitions <= 0 THEN "InvalidTopic"
  ELSE IF name \in DOMAIN topics THEN "DuplicateTopic"
  ELSE "Ok"
create(topics, name, partitions) ==
  [n \in DOMAIN topics \cup {name} |-> IF n = name THEN partitions ELSE topics[n]]

\* The catalog Broker::start builds, one create after the other.
catalog == FoldLeft(LAMBDA c, t : create(c, t.name, t.partitions), [n \in {} |-> 0], Topics)

\* Broker::start refuses any other configuration.
ASSUME StartAssumption ==
  /\ Topics # <<>>
  /\ \A i \in 1 .. Len(Topics) :
       create_error([n \in {Topics[k].name : k \in 1 .. i - 1} |-> 0],
                    Topics[i].name, Topics[i].partitions) = "Ok"

check_partition(topic, partition) ==
  IF topic \notin DOMAIN catalog THEN "UnknownTopic"
  ELSE IF partition < 0 \/ partition >= catalog[topic] THEN "UnknownPartition"
  ELSE "Ok"

\* Every topic, ordered by name, and the partitions join_group hands to the coordinator.
metadata ==
  LET names == SetToSortSeq(DOMAIN catalog, <)
  IN  [i \in 1 .. Len(names) |-> [name |-> names[i], partitions |-> catalog[names[i]]]]
partitions_in_order ==
  FlattenSeq([i \in 1 .. Len(metadata) |->
    [p \in 1 .. metadata[i].partitions |-> [topic |-> metadata[i].name, number |-> p - 1]]])

\* The order of (topic, partition) pairs in a BTreeSet.
before(p, q) == p[1] < q[1] \/ (p[1] = q[1] /\ p[2] < q[2])

shard_index(topic, partition) == Hash(topic, partition) % ShardCount

Shard == 0 .. ShardCount - 1
TopicPartition == UNION {{<<t, p>> : p \in 0 .. catalog[t] - 1} : t \in DOMAIN catalog}
-----------------------------------------------------------------------------
VARIABLES
  mailbox,      \* per shard: commands, oldest first
  coordinator,  \* on shard 0
  groups,       \* on shard 0: group id to group
  logs,         \* per shard, per partition; a log that was never used is empty
  session,      \* per session: the request it is in
  answers,      \* ghost, per session: the requests that were answered
  left          \* what is left of the workload
vars == <<mailbox, coordinator, groups, logs, session, answers, left>>

None == [shard |-> 0, request |-> [kind |-> "None"], rest |-> {}]
Idle == [at |-> "idle", frame |-> Null, todo |-> <<>>, results |-> <<>>, call |-> None]
Outcome(code, value) == [code |-> code, value |-> value]

Init ==
  /\ mailbox = [s \in Shard |-> <<>>]
  /\ groups = [g \in {} |-> new_group]
  /\ logs = [s \in Shard |-> [tp \in TopicPartition |-> new_log]]
  /\ session = [s \in Session |-> Idle]
  /\ answers = [s \in Session |-> <<>>]
  /\ left \in {[workload |-> w, frames |-> Workload[w].frames, timeouts |-> Workload[w].timeouts] :
                w \in DOMAIN Workload}
  /\ coordinator = Workload[left.workload].coordinator

-----------------------------------------------------------------------------
(* Error codes.                                                            *)

NO_ERROR == 0
OFFSET_OUT_OF_RANGE == 1
UNKNOWN_TOPIC_OR_PARTITION == 3
UNSUPPORTED_VERSION == 35
UNKNOWN_SERVER_ERROR == -1
INVALID_REQUEST == 42
INVALID_PRODUCER_EPOCH == 47
INVALID_TXN_STATE == 48

error_code(error) ==
  CASE error = "Ok" -> NO_ERROR
    [] error \in {"UnknownTopic", "UnknownPartition"} -> UNKNOWN_TOPIC_OR_PARTITION
    [] error = "OffsetOutOfRange" -> OFFSET_OUT_OF_RANGE
    [] OTHER -> UNKNOWN_SERVER_ERROR

\* Tells the client that its request was at fault when the reply did not come.
coordination_error_code_final(error) ==
  CASE error = "ProducerFenced" -> INVALID_PRODUCER_EPOCH
    [] error = "InvalidTransactionState" -> INVALID_TXN_STATE
    [] error = "Ok" -> NO_ERROR
    [] OTHER -> INVALID_REQUEST

coordination_error_code(error) ==
  CASE error = "ProducerFenced" -> INVALID_PRODUCER_EPOCH
    [] error = "InvalidTransactionState" -> INVALID_TXN_STATE
    [] error \in {"InvalidId", "UnknownTransaction", "UnknownGroup", "UnknownMember",
                  "IllegalGeneration"} -> INVALID_REQUEST
    [] OTHER -> error_code(error)

\* init_producer reports every error alike; produce, fetch and list_offsets do not
\* look into coordination errors.
code_of(api, error) ==
  CASE error = "Ok" -> NO_ERROR
    [] api = "INIT_PRODUCER_ID" -> UNKNOWN_SERVER_ERROR
    [] api \in {"PRODUCE", "FETCH", "LIST_OFFSETS"} -> error_code(error)
    [] OTHER -> coordination_error_code(error)

generated_member_id(correlation_id) == IF correlation_id < 0 THEN -correlation_id ELSE correlation_id

-----------------------------------------------------------------------------
(* What a request asks of the broker.                                      *)

\* The prefix sums of the sizes of decoded records, as LogOps keeps them.
ends_of(records) ==
  LET sum[i \in 0 .. Len(records)] == IF i = 0 THEN 0 ELSE sum[i - 1] + records[i].size
  IN  [i \in 1 .. Len(records) |-> sum[i]]

\* The entries of a request, in the order they are worked off.
entries(topics) ==
  FlattenSeq([i \in 1 .. Len(topics) |->
    [j \in 1 .. Len(topics[i].partitions) |->
       [topic |-> topics[i].name, entry |-> topics[i].partitions[j]]]])
\* A record set is decoded with its request.
decoded_set(item) ==
  LET decoded == decode_record_batches_with_identity(item.entry.record_set)
  IN  [topic |-> item.topic,
       entry |-> [partition |-> item.entry.partition, ends |-> ends_of(decoded.records),
                  producer |-> decoded.producer]]
items(frame) ==
  CASE frame.api = "PRODUCE" ->
         [i \in 1 .. Len(entries(frame.body.topics)) |-> decoded_set(entries(frame.body.topics)[i])]
    [] frame.api \in {"FETCH", "LIST_OFFSETS", "ADD_PARTITIONS_TO_TXN"} -> entries(frame.body.topics)
    [] frame.api \in {"API_VERSIONS", "METADATA", "FIND_COORDINATOR", "SYNC_GROUP"} -> <<>>
    [] OTHER -> <<frame.body>>

\* An entry is settled at once or by a call.
settled(code) == [settled |-> TRUE, outcome |-> Outcome(code, Null)]
call(shard, request) ==
  [settled |-> FALSE, call |-> [shard |-> shard, request |-> request, rest |-> {}]]
routed(topic, partition, request) ==
  IF check_partition(topic, partition) # "Ok" THEN settled(error_code(check_partition(topic, partition)))
  ELSE call(shard_index(topic, partition), request)

produce(tid, topic, e) ==
  IF tid # Null /\ e.producer = NoProducer THEN settled(UNSUPPORTED_VERSION)
  ELSE IF tid # Null
  THEN call(0, [kind |-> "Validate", tid |-> tid, identity |-> e.producer,
                partition |-> <<topic, e.partition>>, ends |-> e.ends])
  ELSE routed(topic, e.partition,
              [kind |-> "Produce", partition |-> <<topic, e.partition>>, ends |-> e.ends])

\* produce_transactional once its validation was accepted.
append_request(request) ==
  routed(request.partition[1], request.partition[2],
         [kind |-> "Append", partition |-> request.partition, ends |-> request.ends,
          producer_id |-> request.identity.id])

minimum(a, b) == IF a <= b THEN a ELSE b
fetch(body, topic, e) ==
  routed(topic, e.partition,
    [kind |-> "Fetch", partition |-> <<topic, e.partition>>, offset |-> e.fetch_offset,
     max_bytes |-> minimum(minimum(e.partition_max_bytes, body.max_bytes), MaxFetchBytes),
     read_committed |-> body.isolation = 1])

\* Reads the offsets at the coordinator's shard.
list_offsets_misrouted(topic, e) ==
  IF e.timestamp \in {-1, -2} /\ check_partition(topic, e.partition) = "Ok"
  THEN call(0, [kind |-> "ListOffset", partition |-> <<topic, e.partition>>,
                earliest |-> e.timestamp = -2])
  ELSE settled(UNSUPPORTED_VERSION)

list_offsets(topic, e) ==
  IF e.timestamp \in {-1, -2}
  THEN routed(topic, e.partition, [kind |-> "ListOffset", partition |-> <<topic, e.partition>>,
                                   earliest |-> e.timestamp = -2])
  ELSE settled(UNSUPPORTED_VERSION)

identity_of(body) == [id |-> body.producer_id, epoch |-> body.producer_epoch]

\* The catalog is not asked: a partition that does not exist can be enlisted.
add_partitions_to_txn(body, topic, e) ==
  call(0, [kind |-> "AddPartition", tid |-> body.transactional_id, identity |-> identity_of(body),
           partition |-> IF topic = Empty THEN InvalidPartition ELSE <<topic, e.partition>>])

init_producer(body) ==
  IF body.transactional_id = Null THEN settled(INVALID_REQUEST)
  ELSE call(0, [kind |-> "Init", tid |-> body.transactional_id])

end_txn(body) ==
  call(0, [kind |-> "End", tid |-> body.transactional_id, identity |-> identity_of(body),
           commit |-> body.commit = 1])

join_group(frame) ==
  call(0, [kind |-> "Join", group_id |-> frame.body.group_id,
           member |-> IF frame.body.member_id = Empty THEN generated_member_id(frame.correlation_id)
                      ELSE frame.body.member_id,
           subscriptions |-> ToSet(frame.body.protocols[1].metadata)])

heartbeat(body) ==
  call(0, [kind |-> "Heartbeat", group_id |-> body.group_id, member |-> body.member_id,
           generation |-> body.generation])

leave_group(body) == call(0, [kind |-> "LeaveAny", group_id |-> body.group_id, member |-> body.member_id])

\* The member id of the request is not passed on.
offset_commit(body) ==
  LET e == body.topics[1].partitions[1]
  IN  call(0, [kind |-> "CommitOffset", group_id |-> body.group_id, generation |-> body.generation,
               partition |-> <<body.topics[1].name, e.partition>>,
               position |-> IF e.partition < 0 \/ e.offset < 0 THEN InvalidPosition ELSE e.offset])

offset_fetch(body) ==
  call(0, [kind |-> "FetchOffset", group_id |-> body.group_id,
           partition |-> <<body.topics[1].name, body.topics[1].partitions[1].partition>>])

handle_request(frame, item) ==
  CASE frame.api = "PRODUCE" -> produce(frame.body.transactional_id, item.topic, item.entry)
    [] frame.api = "FETCH" -> fetch(frame.body, item.topic, item.entry)
    [] frame.api = "LIST_OFFSETS" -> list_offsets(item.topic, item.entry)
    [] frame.api = "ADD_PARTITIONS_TO_TXN" -> add_partitions_to_txn(frame.body, item.topic, item.entry)
    [] frame.api = "INIT_PRODUCER_ID" -> init_producer(item)
    [] frame.api = "END_TXN" -> end_txn(item)
    [] frame.api = "JOIN_GROUP" -> join_group(frame)
    [] frame.api = "HEARTBEAT" -> heartbeat(item)
    [] frame.api = "LEAVE_GROUP" -> leave_group(item)
    [] frame.api = "OFFSET_COMMIT" -> offset_commit(item)
    [] frame.api = "OFFSET_FETCH" -> offset_fetch(item)

-----------------------------------------------------------------------------
(* What the shards do with a command.                                      *)

group_of(id) == IF id \in DOMAIN groups THEN groups[id] ELSE new_group
with_group(id, group) ==
  [g \in DOMAIN groups \cup {id} |-> IF g = id THEN group ELSE groups[g]]
position_in(group, partition) ==
  IF partition \in DOMAIN group.offsets THEN group.offsets[partition] ELSE -1

\* The result of a CoordinationRequest: an error or "Ok".
coordinate_error(r) ==
  CASE r.kind = "Init" -> init_error(r.tid)
    [] r.kind = "AddPartition" -> add_partition_error(coordinator, r.tid, r.identity, r.partition)
    [] r.kind = "Validate" -> validate_produce_error(coordinator, r.tid, r.identity, r.partition)
    [] r.kind = "End" -> end_error(coordinator, r.tid, r.identity)
    [] r.kind = "Join" -> IF r.group_id = Empty THEN "InvalidId" ELSE join_error(r.member)
    [] r.kind = "Heartbeat" -> heartbeat_error(group_of(r.group_id), r.member, r.generation)
    [] r.kind = "LeaveAny" -> leave_any_error(group_of(r.group_id), r.member)
    [] r.kind = "CommitOffset" -> commit_offset_error(group_of(r.group_id), r.generation, r.position)
    [] r.kind = "FetchOffset" -> IF unknown(group_of(r.group_id)) THEN "UnknownGroup" ELSE "Ok"

coordinator_after(r) ==
  CASE r.kind = "Init" -> init(coordinator, r.tid)
    [] r.kind = "AddPartition" -> add_partition(coordinator, r.tid, r.partition)
    [] r.kind = "End" -> end(coordinator, r.tid)
    [] OTHER -> coordinator

groups_after(r) ==
  CASE r.kind = "Join" ->
         with_group(r.group_id, join(group_of(r.group_id), r.member, r.subscriptions, partitions_in_order))
    [] r.kind = "LeaveAny" -> with_group(r.group_id, remove_member(group_of(r.group_id), r.member))
    [] r.kind = "CommitOffset" ->
         with_group(r.group_id, commit_offset(group_of(r.group_id), r.partition, r.position))
    [] OTHER -> groups

coordinate_value(r) ==
  CASE r.kind = "Init" -> issued_identity(coordinator, r.tid)
    [] r.kind = "End" -> completion(coordinator, r.tid).partitions
    [] r.kind = "Join" -> [member |-> r.member,
                           members |-> SetToSortSeq(DOMAIN groups_after(r)[r.group_id].members, <)]
    [] r.kind = "FetchOffset" -> position_in(group_of(r.group_id), r.partition)
    [] OTHER -> Null

coordinates(r) == r.kind \notin {"Produce", "Append", "Fetch", "ListOffset", "Resolve"}

\* The other commands, on the logs of shard s.
log_error(s, r) ==
  CASE r.kind \in {"Produce", "Append"} -> append_error(r.ends)
    [] r.kind = "Fetch" ->
         fetch_inner(logs[s][r.partition], r.offset, MaxFetchRecords, r.max_bytes, r.read_committed).result
    [] OTHER -> "Ok"

logs_after(s, r) ==
  CASE r.kind = "Produce" -> [logs[s] EXCEPT ![r.partition] = append(@, r.ends)]
    [] r.kind = "Append" -> [logs[s] EXCEPT ![r.partition] = append_transactional(@, r.ends, r.producer_id)]
    [] r.kind = "Resolve" ->
         [tp \in TopicPartition |-> commit_transaction(logs[s][tp], r.producer_id, r.commit)]
    [] OTHER -> logs[s]

log_value(s, r) ==
  CASE r.kind \in {"Produce", "Append"} -> logs[s][r.partition].next_offset
    [] r.kind = "Fetch" ->
         fetch_inner(logs[s][r.partition], r.offset, MaxFetchRecords, r.max_bytes, r.read_committed)
    [] r.kind = "ListOffset" -> list_offset(logs[s][r.partition], r.earliest)
    [] OTHER -> Null

-----------------------------------------------------------------------------
(* A session in handle_frame.                                              *)

now(s, changes) == session' = [session EXCEPT ![s] = changes]
finished(st, code, value) ==
  [st EXCEPT !.at = "next", !.results = Append(@, Outcome(code, value)), !.call = None]
started(st, begun) ==
  IF begun.settled THEN finished(st, begun.outcome.code, begun.outcome.value)
  ELSE [st EXCEPT !.at = "send", !.call = begun.call]

\* Asks for the same partition again and again.
resolving_first(st, request, rest) ==
  IF rest = {} THEN finished(st, NO_ERROR, Null)
  ELSE [st EXCEPT !.at = "send",
          !.call = [shard |-> shard_index(SetToSortSeq(rest, before)[1][1], SetToSortSeq(rest, before)[1][2]),
                    request |-> [kind |-> "Resolve", producer_id |-> request.producer_id,
                                 commit |-> request.commit],
                    rest |-> rest]]

\* end_transaction after its completion: the partitions one by one, in order.
resolving(st, request, rest) ==
  IF rest = {} THEN finished(st, NO_ERROR, Null)
  ELSE LET first == SetToSortSeq(rest, before)[1]
       IN  [st EXCEPT !.at = "send",
              !.call = [shard |-> shard_index(first[1], first[2]),
                        request |-> [kind |-> "Resolve", producer_id |-> request.producer_id,
                                     commit |-> request.commit],
                        rest |-> rest \ {first}]]

\* What the reply to the current call makes of a session.
replied(st, error, value) ==
  LET r == st.call.request
  IN  CASE error = "Ok" /\ r.kind = "Validate" -> started(st, append_request(r))
        [] error = "Ok" /\ r.kind = "End" ->
             resolving(st, [producer_id |-> r.identity.id, commit |-> r.commit], value)
        [] error = "Ok" /\ r.kind = "Resolve" -> resolving(st, r, st.call.rest)
        [] OTHER -> finished(st, code_of(st.frame.api, error), value)

answer(s, st) == answers' = [answers EXCEPT ![s] = Append(@, [frame |-> st.frame, todo |-> st.todo, results |-> st.results])]

\* handle_frame up to the dispatch.  A frame that is refused closes the session.
Receive(s, frame) ==
  /\ session[s] = Idle /\ left.frames[s] > 0
  /\ left' = [left EXCEPT !.frames[s] = @ - 1]
  /\ UNCHANGED <<mailbox, coordinator, groups, logs>>
  /\ \E verdict \in {decode_request(frame)} :
       \/ /\ verdict = "Ok"
          /\ \E todo \in {items(frame)} :
               now(s, [Idle EXCEPT !.at = "next", !.frame = frame, !.todo = todo])
          /\ UNCHANGED answers
       \/ /\ verdict = "UnsupportedVersion" /\ frame.api = "API_VERSIONS"
          /\ answer(s, [frame |-> frame, todo |-> <<>>, results |-> <<Outcome(UNSUPPORTED_VERSION, Null)>>])
          /\ UNCHANGED session
       \/ /\ verdict # "Ok" /\ ~(verdict = "UnsupportedVersion" /\ frame.api = "API_VERSIONS")
          /\ now(s, [Idle EXCEPT !.at = "closed", !.frame = frame]) /\ UNCHANGED answers

worked_off(st) == Len(st.results) = Len(st.todo)

\* The next entry of the request.
Proceed(s) ==
  /\ session[s].at = "next" /\ ~worked_off(session[s])
  /\ UNCHANGED <<mailbox, coordinator, groups, logs, answers, left>>
  /\ \E begun \in {handle_request(session[s].frame, session[s].todo[Len(session[s].results) + 1])} :
       now(s, started(session[s], begun))

Send(s) ==
  LET c == session[s].call
  IN  /\ session[s].at = "send" /\ Len(mailbox[c.shard]) < MailboxCapacity
      /\ mailbox' = [mailbox EXCEPT ![c.shard] = Append(@, [from |-> s, request |-> c.request])]
      /\ now(s, [session[s] EXCEPT !.at = "wait"])
      /\ UNCHANGED <<coordinator, groups, logs, answers, left>>

\* The mailbox stayed full for all retries.
GiveUp(s) ==
  /\ session[s].at = "send" /\ Len(mailbox[session[s].call.shard]) >= MailboxCapacity
  /\ now(s, replied(session[s], "MailboxUnavailable", Null))
  /\ UNCHANGED <<mailbox, coordinator, groups, logs, answers, left>>

\* The command stays in the mailbox.
TimeOut(s) ==
  /\ session[s].at = "wait" /\ left.timeouts > 0
  /\ left' = [left EXCEPT !.timeouts = @ - 1]
  /\ mailbox' = [m \in Shard |-> [i \in 1 .. Len(mailbox[m]) |->
                   IF mailbox[m][i].from = s THEN [mailbox[m][i] EXCEPT !.from = Nobody]
                   ELSE mailbox[m][i]]]
  /\ now(s, replied(session[s], "ReplyTimeout", Null))
  /\ UNCHANGED <<coordinator, groups, logs, answers>>

reply(s, error, value) ==
  IF s = Nobody THEN UNCHANGED session
  ELSE now(s, replied(session[s], error, value))

ServeCoordination ==
  /\ mailbox[0] # <<>> /\ coordinates(Head(mailbox[0]).request)
  /\ mailbox' = [mailbox EXCEPT ![0] = Tail(@)]
  /\ \E r \in {Head(mailbox[0]).request} : \E error \in {coordinate_error(r)} :
       IF error = "Ok"
       THEN /\ coordinator' = coordinator_after(r) /\ groups' = groups_after(r)
            /\ \E value \in {coordinate_value(r)} : reply(Head(mailbox[0]).from, "Ok", value)
       ELSE UNCHANGED <<coordinator, groups>> /\ reply(Head(mailbox[0]).from, error, Null)
  /\ UNCHANGED <<logs, answers, left>>

ServePartition(s) ==
  /\ mailbox[s] # <<>> /\ ~coordinates(Head(mailbox[s]).request)
  /\ mailbox' = [mailbox EXCEPT ![s] = Tail(@)]
  /\ \E r \in {Head(mailbox[s]).request} : \E error \in {log_error(s, r)} :
       IF error = "Ok"
       THEN /\ \E after \in {logs_after(s, r)} : logs' = [logs EXCEPT ![s] = after]
            /\ \E value \in {log_value(s, r)} : reply(Head(mailbox[s]).from, "Ok", value)
       ELSE UNCHANGED logs /\ reply(Head(mailbox[s]).from, error, Null)
  /\ UNCHANGED <<coordinator, groups, answers, left>>

-----------------------------------------------------------------------------
\* The records a fetch outcome carries; their timestamps play no part here.
fetched(outcome) ==
  IF outcome.code # NO_ERROR THEN <<>>
  ELSE [i \in 1 .. Len(outcome.value.records) |->
          [offset |-> outcome.value.records[i].offset, size |-> outcome.value.records[i].size,
           timestamp_ms |-> 0]]

metadata_of(names) ==
  [i \in 1 .. Len(names) |->
     [name |-> names[i], partitions |-> IF names[i] \in DOMAIN catalog THEN catalog[names[i]] ELSE 0]]

\* Whether the response to a request that was worked off can be encoded.
response_encodable(frame, results) ==
  CASE frame.api = "PRODUCE" -> encode_produce(frame.body.topics)
    [] frame.api = "FETCH" -> encode_fetch(frame.body.topics, [i \in 1 .. Len(results) |-> fetched(results[i])])
    [] frame.api = "LIST_OFFSETS" -> encode_list_offsets(frame.body.topics)
    [] frame.api = "ADD_PARTITIONS_TO_TXN" -> encode_add_partitions_to_txn(frame.body.topics)
    [] frame.api = "OFFSET_COMMIT" -> encode_offset_commit(frame.body.topics[1].name)
    [] frame.api = "OFFSET_FETCH" -> encode_offset_fetch(frame.body.topics[1].name)
    [] frame.api = "FIND_COORDINATOR" -> encode_find_coordinator(host)
    [] frame.api = "METADATA" ->
         encode_metadata(host, IF frame.body.topics = Null THEN metadata ELSE metadata_of(frame.body.topics))
    [] frame.api = "JOIN_GROUP" /\ results[1].code = NO_ERROR ->
         encode_join_group(results[1].value.member, results[1].value.members)
    [] OTHER -> TRUE

Respond(s) ==
  /\ session[s].at = "next" /\ worked_off(session[s])
  /\ UNCHANGED <<mailbox, coordinator, groups, logs, left>>
  /\ \E ok \in {response_encodable(session[s].frame, session[s].results)} :
       \/ ok /\ answer(s, session[s]) /\ now(s, Idle)
       \/ ~ok /\ now(s, [session[s] EXCEPT !.at = "closed"]) /\ UNCHANGED answers

\* What the threads of the sessions and the shards do by themselves.
Step ==
  \/ \E s \in Session : Proceed(s) \/ Send(s) \/ GiveUp(s) \/ Respond(s)
  \/ ServeCoordination
  \/ \E s \in Shard : ServePartition(s)

Next ==
  \/ Step
  \/ \E s \in Session : TimeOut(s) \/ \E frame \in Workload[left.workload].sends[s] : Receive(s, frame)

\* Threads keep running; nothing makes a client send or a reply come late.
Spec == Init /\ [][Next]_vars /\ WF_vars(Step)

-----------------------------------------------------------------------------
(* Properties.                                                             *)

\* The requests of a session, answered or not, and all outcomes they have so far.
requests(s) ==
  IF session[s].at = "idle" THEN answers[s]
  ELSE Append(answers[s], [frame |-> session[s].frame, todo |-> session[s].todo, results |-> session[s].results])
outcomes ==
  UNION {UNION {{[session |-> s, request |-> k, frame |-> requests(s)[k].frame,
                  item |-> requests(s)[k].todo[i], outcome |-> requests(s)[k].results[i]] :
                    i \in DOMAIN requests(s)[k].results \cap DOMAIN requests(s)[k].todo} :
                 k \in DOMAIN requests(s)} : s \in Session}

about(o, apis, tp) ==
  o.frame.api \in apis /\ <<o.item.topic, o.item.entry.partition>> = tp
accepted(os) == {o \in os : o.outcome.code = NO_ERROR}
in_doubt(os) == {o \in os : o.outcome.code = UNKNOWN_SERVER_ERROR}
record_total(os) == MapThenSumSet(LAMBDA o : Len(o.item.entry.ends), os)

\* Whether what EndTxn requests asked for explains the state of a batch.
explained(b) ==
  \/ b.transaction = NoTransaction \/ b.state = "Pending"
  \/ \E s \in Session : \E k \in DOMAIN requests(s) :
       LET q == requests(s)[k]
       IN  /\ q.frame.api = "END_TXN"
           /\ q.frame.body.producer_id = b.transaction
           /\ b.state = IF q.frame.body.commit = 1 THEN "Committed" ELSE "Aborted"
           /\ q.results = <<>> \/ q.results[1].code \in {NO_ERROR, UNKNOWN_SERVER_ERROR}

log_explained(log, produces) ==
  LET sure == record_total(accepted(produces))
  IN  /\ log.next_offset \in sure .. sure + record_total(in_doubt(produces))
      /\ \A o \in accepted(produces) : \E i \in 1 .. Len(log.batches) :
           /\ log.batches[i].base_offset = o.outcome.value
           /\ log.batches[i].ends = o.item.entry.ends
           /\ (log.batches[i].transaction = NoTransaction) <=> (o.frame.body.transactional_id = Null)
      /\ \A i \in 1 .. Len(log.batches) : explained(log.batches[i])

group_explained(group, changes, commits) ==
  LET sure == Cardinality(accepted(changes))
  IN  /\ group.generation \in sure .. sure + Cardinality(in_doubt(changes))
      /\ \A tp \in DOMAIN group.offsets : \E o \in accepted(commits) \cup in_doubt(commits) :
           o.item.topics[1].partitions[1].offset = group.offsets[tp]

\* A client can tell from the codes it was given what the broker has done.  What was
\* answered with NO_ERROR has happened exactly once: the batch is in the log of the
\* shard that owns the partition, under the offset that was returned and with its own
\* records and producer.  What was answered with UNKNOWN_SERVER_ERROR may have
\* happened, also after the answer.  Any other code means that it has not happened
\* and never will: nothing else is in the logs, in the generation of a group or in
\* its offsets, and a transaction is resolved only the way some EndTxn asked for that
\* was not refused.
AnswersAccountForEffects ==
  \E os \in {outcomes} :
    /\ \A tp \in TopicPartition :
         log_explained(logs[shard_index(tp[1], tp[2])][tp], {o \in os : about(o, {"PRODUCE"}, tp)})
    /\ \A g \in DOMAIN groups :
         LET of(apis) == {o \in os : o.frame.api \in apis /\ o.item.group_id = g}
         IN  group_explained(groups[g], of({"JOIN_GROUP", "LEAVE_GROUP"}), of({"OFFSET_COMMIT"}))

\* A session that was told the offset of its batch sees the batch counted in every
\* later answer it gets about that partition: the high watermark of a fetch and the
\* latest offset lie behind it.  The three requests find the same log although each
\* of them computes the shard anew.
ReadsItsWrites ==
  \E os \in {accepted(outcomes)} : \A tp \in TopicPartition :
    \A p \in {q \in os : about(q, {"PRODUCE"}, tp)}, o \in {q \in os : about(q, {"FETCH", "LIST_OFFSETS"}, tp)} :
    o.session = p.session /\ o.request > p.request
    => LET behind == p.outcome.value + Len(p.item.entry.ends)
       IN  CASE o.frame.api = "FETCH" -> o.outcome.value.high_watermark >= behind
             [] o.item.entry.timestamp = -1 -> o.outcome.value >= behind
             [] OTHER -> TRUE

\* Every frame that was received is answered or closes its session, however many
\* calls it takes and whatever else the shards are doing.
FramesAnswered ==
  \A s \in Session : session[s].at \in {"next", "send", "wait"} ~> session[s].at \in {"idle", "closed"}
=============================================================================
