-------------------------------- MODULE Wire --------------------------------
(***************************************************************************)
(* The protocol subset (broker-wire/src/protocol.rs), the request decoders *)
(* (request.rs), the response encoders (response.rs) and the bounds both   *)
(* put on strings and arrays (codec.rs).                                   *)
(*                                                                         *)
(* A frame is its header and the fields of its body; exact says that the   *)
(* fields end where the frame ends.  Decoders and encoders are predicates: *)
(* every error fails the frame.  The one that is told apart is             *)
(* UnsupportedVersion, which ApiVersions answers.  An array that the       *)
(* client declared with a negative length is Null.  The metadata of a      *)
(* protocol is the array of topics it subscribes to.                       *)
(***************************************************************************)
EXTENDS RecordBatch

CONSTANTS
  Null,            \* a null string, array or byte field
  Empty,           \* the empty string
  StringLen(_),    \* the length of a string
  MAX_STRING_LEN,
  MAX_ARRAY_LEN

ASSUME WireAssumption ==
  /\ MAX_STRING_LEN \in Nat /\ MAX_ARRAY_LEN \in Nat
  /\ StringLen(Empty) = 0

version ==
  [PRODUCE |-> 3, FETCH |-> 4, LIST_OFFSETS |-> 1, METADATA |-> 1, API_VERSIONS |-> 0,
   FIND_COORDINATOR |-> 1, INIT_PRODUCER_ID |-> 0, ADD_PARTITIONS_TO_TXN |-> 0, END_TXN |-> 0,
   OFFSET_COMMIT |-> 2, OFFSET_FETCH |-> 1, JOIN_GROUP |-> 1, HEARTBEAT |-> 0,
   LEAVE_GROUP |-> 0, SYNC_GROUP |-> 0]

\* What ApiVersions advertises, as <<api, min, max>>.
SUPPORTED_VERSIONS ==
  {<<a, version[a], version[a]>> : a \in
     {"PRODUCE", "FETCH", "LIST_OFFSETS", "METADATA", "API_VERSIONS", "FIND_COORDINATOR",
      "INIT_PRODUCER_ID", "ADD_PARTITIONS_TO_TXN", "END_TXN", "JOIN_GROUP", "SYNC_GROUP",
      "HEARTBEAT", "LEAVE_GROUP", "OFFSET_COMMIT", "OFFSET_FETCH"}}

\* Leaves SyncGroup out of the match.
is_supported_api_without_sync(a) ==
  a \in {"PRODUCE", "FETCH", "LIST_OFFSETS", "METADATA", "API_VERSIONS", "FIND_COORDINATOR",
         "INIT_PRODUCER_ID", "ADD_PARTITIONS_TO_TXN", "END_TXN", "OFFSET_COMMIT",
         "OFFSET_FETCH", "JOIN_GROUP", "HEARTBEAT", "LEAVE_GROUP"}

is_supported_api(a) ==
  a \in {"PRODUCE", "FETCH", "LIST_OFFSETS", "METADATA", "API_VERSIONS", "FIND_COORDINATOR",
         "INIT_PRODUCER_ID", "ADD_PARTITIONS_TO_TXN", "END_TXN", "OFFSET_COMMIT",
         "OFFSET_FETCH", "JOIN_GROUP", "HEARTBEAT", "LEAVE_GROUP", "SYNC_GROUP"}

-----------------------------------------------------------------------------
\* The Decoder's fields.
string_bytes(s) == s # Null /\ StringLen(s) <= MAX_STRING_LEN
nullable_string_bytes(s) == s = Null \/ StringLen(s) <= MAX_STRING_LEN
array_len(a) == a # Null /\ Len(a) <= MAX_ARRAY_LEN
nullable_array_len(a) == a = Null \/ Len(a) <= MAX_ARRAY_LEN

\* An array of topics, each a name and an array of partition entries.
topics_of(topics) ==
  /\ array_len(topics)
  /\ \A i \in 1 .. Len(topics) :
       string_bytes(topics[i].name) /\ array_len(topics[i].partitions)
partition_entries(topics) ==
  UNION {{topics[i].partitions[j] : j \in 1 .. Len(topics[i].partitions)} : i \in 1 .. Len(topics)}
named(topics) == \A i \in 1 .. Len(topics) : topics[i].name # Empty

decode_find_coordinator(b) ==
  string_bytes(b.key) /\ b.key # Empty /\ b.key_type \in {0, 1}

decode_init_producer_id(b) == nullable_string_bytes(b.transactional_id)

decode_add_partitions_to_txn(b) ==
  /\ string_bytes(b.transactional_id) /\ topics_of(b.topics)
  /\ \A p \in partition_entries(b.topics) : p.partition >= 0

decode_end_txn(b) == string_bytes(b.transactional_id) /\ b.commit \in {0, 1}

\* Only the subscriptions of the first protocol are read.
decode_join_group(b) ==
  /\ string_bytes(b.group_id) /\ b.session_timeout >= 0 /\ b.rebalance_timeout >= 0
  /\ string_bytes(b.member_id) /\ string_bytes(b.protocol_type)
  /\ array_len(b.protocols) /\ b.protocols # <<>>
  /\ \A i \in 1 .. Len(b.protocols) :
       string_bytes(b.protocols[i].name) /\ b.protocols[i].metadata # Null
  /\ LET subscriptions == b.protocols[1].metadata
     IN  /\ array_len(subscriptions)
         /\ \A i \in 1 .. Len(subscriptions) : string_bytes(subscriptions[i])

decode_sync_group(b) ==
  /\ string_bytes(b.group_id) /\ string_bytes(b.member_id)
  /\ array_len(b.assignments)
  /\ \A i \in 1 .. Len(b.assignments) :
       string_bytes(b.assignments[i].member) /\ b.assignments[i].bytes # Null

decode_heartbeat(b) == string_bytes(b.group_id) /\ string_bytes(b.member_id)
decode_leave_group(b) == string_bytes(b.group_id) /\ string_bytes(b.member_id)

one_partition(topics) == Len(topics) = 1 /\ Len(topics[1].partitions) = 1

decode_offset_commit(b) ==
  /\ string_bytes(b.group_id) /\ string_bytes(b.member_id)
  /\ topics_of(b.topics) /\ one_partition(b.topics)
  /\ \A p \in partition_entries(b.topics) : nullable_string_bytes(p.metadata)

decode_offset_fetch(b) ==
  string_bytes(b.group_id) /\ topics_of(b.topics) /\ one_partition(b.topics)

decode_metadata(b) ==
  /\ nullable_array_len(b.topics)
  /\ b.topics # Null => \A i \in 1 .. Len(b.topics) : string_bytes(b.topics[i]) /\ b.topics[i] # Empty

\* One record set that cannot be read, or holds no record, fails the whole request.
decode_produce(b) ==
  /\ nullable_string_bytes(b.transactional_id)
  /\ topics_of(b.topics)
  /\ \A p \in partition_entries(b.topics) :
       /\ p.record_set # Null
       /\ decode_record_batches_ok(p.record_set)
       /\ decode_record_batches_with_identity(p.record_set).records # <<>>
  /\ named(b.topics)

decode_fetch(b) ==
  /\ b.max_wait_ms >= 0 /\ b.min_bytes >= 0 /\ b.max_bytes >= 0 /\ b.isolation \in {0, 1}
  /\ topics_of(b.topics) /\ named(b.topics)
  /\ \A p \in partition_entries(b.topics) : p.partition_max_bytes >= 0

decode_list_offsets(b) == topics_of(b.topics) /\ named(b.topics)

decode_body(a, b) ==
  CASE a = "API_VERSIONS" -> TRUE
    [] a = "FIND_COORDINATOR" -> decode_find_coordinator(b)
    [] a = "INIT_PRODUCER_ID" -> decode_init_producer_id(b)
    [] a = "ADD_PARTITIONS_TO_TXN" -> decode_add_partitions_to_txn(b)
    [] a = "END_TXN" -> decode_end_txn(b)
    [] a = "JOIN_GROUP" -> decode_join_group(b)
    [] a = "SYNC_GROUP" -> decode_sync_group(b)
    [] a = "HEARTBEAT" -> decode_heartbeat(b)
    [] a = "LEAVE_GROUP" -> decode_leave_group(b)
    [] a = "OFFSET_COMMIT" -> decode_offset_commit(b)
    [] a = "OFFSET_FETCH" -> decode_offset_fetch(b)
    [] a = "METADATA" -> decode_metadata(b)
    [] a = "PRODUCE" -> decode_produce(b)
    [] a = "FETCH" -> decode_fetch(b)
    [] a = "LIST_OFFSETS" -> decode_list_offsets(b)

\* The version is looked at before the body.
decode_request(frame) ==
  IF ~nullable_string_bytes(frame.client_id) THEN "Invalid"
  ELSE IF ~is_supported_api(frame.api) THEN "UnsupportedApi"
  ELSE IF frame.version # version[frame.api] THEN "UnsupportedVersion"
  ELSE IF decode_body(frame.api, frame.body) /\ frame.exact THEN "Ok"
  ELSE "Invalid"

-----------------------------------------------------------------------------
\* The Encoder's bounds.  Fixed-size fields cannot fail.
string(s) == StringLen(s) <= MAX_STRING_LEN
array(n) == n <= MAX_ARRAY_LEN
topics_encodable(topics) ==
  /\ array(Len(topics))
  /\ \A i \in 1 .. Len(topics) : string(topics[i].name) /\ array(Len(topics[i].partitions))

encode_add_partitions_to_txn(topics) == topics_encodable(topics)
encode_produce(topics) == topics_encodable(topics)
encode_list_offsets(topics) == topics_encodable(topics)
encode_offset_commit(topic) == string(topic)
encode_offset_fetch(topic) == string(topic)

\* The records of each partition are encoded as one batch.
encode_fetch(topics, windows) ==
  /\ topics_encodable(topics)
  /\ \A i \in 1 .. Len(windows) : windows[i] # <<>> => encodable(windows[i])

\* topics: pairs of a name and a number of partitions.
encode_metadata(host, topics) ==
  /\ string(host) /\ array(Len(topics))
  /\ \A i \in 1 .. Len(topics) : string(topics[i].name) /\ array(topics[i].partitions)

encode_find_coordinator(host) == string(host)

encode_join_group(member_id, members) ==
  /\ string(member_id)
  /\ array(Len(members))
  /\ \A i \in 1 .. Len(members) : string(members[i])
=============================================================================
