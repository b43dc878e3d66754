------------------------------ MODULE MCEngine ------------------------------
EXTENDS Engine, TLC

CONSTANTS
  Long,   \* a string beyond MAX_STRING_LEN
  One     \* a session

MCHash(t, p) == t + p
MCStringLen(s) == CASE s = Long -> 4 [] s = Empty -> 0 [] OTHER -> 3

\* Topic 1 has a partition on either shard, topic 2 one beside the coordinator.
MCTopics == <<[name |-> 1, partitions |-> 2], [name |-> 2, partitions |-> 1]>>

on(topic, entry) == [name |-> topic, partitions |-> <<entry>>]
frame(api, body) ==
  [api |-> api, version |-> version[api], correlation_id |-> 7, client_id |-> Null,
   body |-> body, exact |-> TRUE]

\* Record sets.
record(size) == [timestamp_delta |-> <<0>>, size |-> size]
batch(flags, producer, records) ==
  [magic |-> 2, crc |-> TRUE, flags |-> flags, producer |-> producer, first_timestamp |-> 0,
   whole |-> TRUE, records |-> records]
plain(n) == <<batch({}, NoProducer, [i \in 1 .. n |-> record(2)])>>
first == [id |-> 1, epoch |-> 0]
marked == <<batch({"transactional"}, first, <<record(2)>>)>>
legacy == <<[magic |-> 1, crc |-> TRUE, flags |-> {}, whole |-> TRUE, timestamp_ms |-> 3, size |-> 1]>>

\* A message that fits into a frame, but not into one with the longer header of a batch.
large == <<[legacy[1] EXCEPT !.size = 20]>>

produce_frame(tid, topics) == frame("PRODUCE", [transactional_id |-> tid, topics |-> topics])
put(p, set) == [partition |-> p, record_set |-> set]
get(p, offset) == [partition |-> p, fetch_offset |-> offset, partition_max_bytes |-> 9]
fetch_frame(isolation, topics) ==
  frame("FETCH", [max_wait_ms |-> 0, min_bytes |-> 0, max_bytes |-> 9, isolation |-> isolation,
                  topics |-> topics])
list_frame(p, timestamp) ==
  frame("LIST_OFFSETS", [topics |-> <<on(1, [partition |-> p, timestamp |-> timestamp])>>])
owned(body) == body @@ [transactional_id |-> 1, producer_id |-> 1, producer_epoch |-> 0]
end_frame(commit) == frame("END_TXN", owned([commit |-> commit]))
join_frame(g, m) ==
  frame("JOIN_GROUP", [group_id |-> g, session_timeout |-> 0, rebalance_timeout |-> 0, member_id |-> m,
                       protocol_type |-> 1, protocols |-> <<[name |-> 1, metadata |-> <<1>>]>>])
at_generation(body) == body @@ [group_id |-> 1, member_id |-> 1, generation |-> 1]
commit_frame(offset) ==
  frame("OFFSET_COMMIT", at_generation([topics |-> <<on(1, [partition |-> 0, offset |-> offset,
                                                              metadata |-> Null])>>]))

\* What clients that keep to the protocol send.
Produces ==
  {produce_frame(Null, <<on(1, put(0, plain(2)))>>),
   produce_frame(Null, <<on(1, put(0, legacy)), on(1, put(2, plain(1)))>>)}
Reads ==
  {fetch_frame(0, <<on(1, get(0, 0)), on(1, get(1, 1))>>),
   list_frame(0, -1), list_frame(0, -2), list_frame(0, 5)}

Enlistments ==
  {frame("ADD_PARTITIONS_TO_TXN", owned([topics |-> <<on(1, [partition |-> 1]), on(9, [partition |-> 0])>>])),
   produce_frame(1, <<on(1, put(0, marked)), on(1, put(1, plain(1)))>>), end_frame(1)}
Others ==
  {frame("INIT_PRODUCER_ID", [transactional_id |-> 1]),
   end_frame(0), fetch_frame(1, <<on(1, get(0, 0))>>)}

Members == {join_frame(1, 1), join_frame(1, 2), frame("LEAVE_GROUP", [group_id |-> 1, member_id |-> 1])}
Positions ==
  {frame("HEARTBEAT", at_generation(<<>>)), commit_frame(5), commit_frame(-1),
   frame("OFFSET_FETCH", [group_id |-> 1, topics |-> <<on(1, [partition |-> 0])>>])}
Newcomers ==
  {join_frame(1, Empty), join_frame(Empty, 1),
   frame("SYNC_GROUP", [group_id |-> 1, member_id |-> 1,
                        assignments |-> <<[member |-> 1, bytes |-> 1]>>])}

Lookups ==
  {frame("INIT_PRODUCER_ID", [transactional_id |-> Null]), produce_frame(Null, <<on(1, put(0, marked))>>),
   frame("API_VERSIONS", Null), [frame("API_VERSIONS", Null) EXCEPT !.version = 3],
   frame("METADATA", [topics |-> Null]), frame("METADATA", [topics |-> <<1, 9>>]),
   frame("FIND_COORDINATOR", [key |-> 1, key_type |-> 1]), fetch_frame(0, <<on(1, get(0, 0))>>)}

\* Frames with a fault, each but the first two behind something that is in order.
Broken ==
  {[frame("API_VERSIONS", Null) EXCEPT !.api = "UNKNOWN"],
   [frame("HEARTBEAT", at_generation(<<>>)) EXCEPT !.version = 1],
   [join_frame(1, 1) EXCEPT !.exact = FALSE],
   [join_frame(1, 1) EXCEPT !.body.rebalance_timeout = -1],
   [join_frame(1, 1) EXCEPT !.body.protocols = @ \o <<[name |-> Long, metadata |-> <<>>]>>],
   produce_frame(Null, <<on(1, put(0, plain(1))), on(1, put(1, <<[plain(1)[1] EXCEPT !.crc = FALSE]>>))>>),
   produce_frame(Null, <<on(1, put(0, plain(1) \o legacy))>>),
   frame("ADD_PARTITIONS_TO_TXN", owned([topics |-> <<on(1, [partition |-> 1]), on(Long, [partition |-> 0])>>]))}

\* A first identity that was issued and enlisted for a partition before.
warm == add_partition(init(new_coordinator, 1), 1, <<1, 0>>)

workload(c, a, m, b, n) ==
  [coordinator |-> c, timeouts |-> 1,
   sends  |-> [s \in Session |-> IF s = One THEN a ELSE b],
   frames |-> [s \in Session |-> IF s = One THEN m ELSE n]]
MCWorkload ==
  <<workload(new_coordinator, Produces \cup Reads, 2, Produces \cup Reads, 1),
    workload(warm, Enlistments, 3, Others, 1),
    workload(new_coordinator, Members \cup Positions, 2, Members \cup Newcomers, 1),
    workload(new_coordinator, Lookups \cup Broken, 2,
             Produces \cup Members \cup {produce_frame(Null, <<on(1, put(0, large))>>)}, 1)>>

-----------------------------------------------------------------------------
\* Each supported request maps to one response (engine.rs:4): a session is closed for
\* a frame with a fault, and then nothing of the frame was done, even what stands in
\* front of the fault.  A frame without one is answered, whatever becomes of its
\* entries, but for two responses the encoder refuses: a join that has made the group
\* larger than MAX_ARRAY_LEN, and a fetch of a record that is too large for a batch.
\* No request is answered that ApiVersions does not advertise, but for ApiVersions.
OnlyFaultsClose ==
  \A s \in Session :
    /\ session[s].at = "closed" =>
         \/ session[s].frame \in Broken /\ session[s].results = <<>>
         \/ /\ session[s].frame.api = "JOIN_GROUP"
            /\ Len(session[s].results[1].value.members) > MAX_ARRAY_LEN
         \/ /\ session[s].frame.api = "FETCH"
            /\ \E i \in DOMAIN session[s].results :
                 Len(fetched(session[s].results[i])) = 1 /\ ~encodable(fetched(session[s].results[i]))
    /\ \A k \in DOMAIN answers[s] :
         LET f == answers[s][k].frame
         IN  /\ f \notin Broken
             /\ f.api = "API_VERSIONS" \/ <<f.api, f.version, f.version>> \in SUPPORTED_VERSIONS
=============================================================================
