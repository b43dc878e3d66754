---------------------------- MODULE RecordBatch -----------------------------
(***************************************************************************)
(* Variable-length integers (broker-wire/src/codec.rs) and the record      *)
(* formats (broker-wire/src/record_batch.rs): what encode_record_batch     *)
(* writes for a fetched window, what the decoders make of the record set   *)
(* of a produce request, and which sets they refuse.                       *)
(*                                                                         *)
(* Every refusal of a decoder fails the whole frame, so the decoders are   *)
(* predicates; which Error it is does not matter.  A record is its         *)
(* timestamp and the size of its key and value.  Fields whose only fault   *)
(* can be a length that does not fit the bytes around it are one flag,     *)
(* whole.  A checksum is a flag: it matches or it does not.                *)
(***************************************************************************)
EXTENDS Integers, Sequences, SequencesExt

CONSTANTS
  Group,          \* 2^7: values of the payload bits of one varint byte
  Half,           \* 2^63: an i64 lies in -Half .. Half - 1
  HalfInt,        \* 2^31: an i32 lies in -HalfInt .. HalfInt - 1
  MaxGroups,      \* 10: the bytes of a varlong at most
  MaxGroupsInt,   \* 5: the bytes of a varint at most
  MAX_RECORDS,    \* records of one batch
  MAX_FRAME_LEN,  \* bytes of one frame, and of one encoded batch
  BatchHeader,    \* bytes of a batch before its first record
  RecordHeader,   \* bytes of a record besides its deltas, key and value
  NoProducer      \* producer = None

ASSUME RecordBatchAssumption ==
  /\ {Group, Half, HalfInt, MaxGroups, MaxGroupsInt, MAX_RECORDS} \subseteq Nat \ {0}
  /\ MAX_FRAME_LEN \in Nat /\ BatchHeader \in Nat /\ RecordHeader \in Nat

-----------------------------------------------------------------------------
\* Seven bits at a time, the lowest first; all bytes but the last are >= Group.
put_uvarint(value) ==
  LET put[rest \in 0 .. value] ==
        IF rest >= Group
        THEN <<Group + (rest % Group)>> \o put[rest \div Group]
        ELSE <<rest>>
  IN  put[value]

\* Adds the sign after the shift: the code of -1 is that of 0.
zigzag_symmetric(value) == IF value >= 0 THEN 2 * value ELSE -2 * value

\* (value << 1) ^ (value >> 63), as an unsigned number.
zigzag(value) == IF value >= 0 THEN 2 * value ELSE -2 * value - 1

put_varlong(value) == put_uvarint(zigzag(value))

\* After the cast of its argument to i32.
put_varint(value) == put_uvarint(zigzag(((value + HalfInt) % (2 * HalfInt)) - HalfInt))

\* The value of the bytes up to the one without the high bit.
read_uvarint(bytes) ==
  LET last == CHOOSE n \in 1 .. Len(bytes) :
                bytes[n] < Group /\ \A k \in 1 .. n - 1 : bytes[k] >= Group
      value[n \in 0 .. Len(bytes)] ==
        IF n = 0 THEN 0 ELSE value[n - 1] + (bytes[n] % Group) * Group ^ (n - 1)
  IN  value[last] % (2 * Half)
readable(bytes, max_bytes) == \E n \in 1 .. Len(bytes) : n <= max_bytes /\ bytes[n] < Group

\* ((raw >> 1) as i64) ^ -((raw & 1) as i64)
unzigzag(raw) == IF raw % 2 = 0 THEN raw \div 2 ELSE -(raw \div 2) - 1
read_varlong(bytes) == unzigzag(read_uvarint(bytes))
read_varint(bytes) == unzigzag(read_uvarint(bytes) % (2 * HalfInt))

\* saturating_add and saturating_sub on i64.
saturated(n) == IF n < -Half THEN -Half ELSE IF n >= Half THEN Half - 1 ELSE n
timestamp_delta(timestamp, first) == saturated(timestamp - first)
timestamp_from(first, delta) == saturated(first + delta)

-----------------------------------------------------------------------------
encode_record(base_offset, first_timestamp, record) ==
  [timestamp_delta |-> put_varlong(timestamp_delta(record.timestamp_ms, first_timestamp)),
   offset_delta    |-> put_varint(record.offset - base_offset),
   size            |-> record.size]

\* The batch header announces one record too many.
last_offset_delta_one_past(records) == Len(records)

last_offset_delta(records) == Len(records) - 1

\* One batch for a window that is not empty.
encode_record_batch(records) ==
  LET base == records[1].offset  first == records[1].timestamp_ms
  IN  [base_offset       |-> base,
       last_offset_delta |-> last_offset_delta(records),
       first_timestamp   |-> first,
       records |-> [i \in 1 .. Len(records) |-> encode_record(base, first, records[i])]]

batch_len(batch) ==
  FoldLeft(LAMBDA sum, r : sum + RecordHeader + Len(r.timestamp_delta) + Len(r.offset_delta) + r.size,
           BatchHeader, batch.records)

\* Err(Invalid) for too many records, Err(TooLarge) for too many bytes.
encodable(records) ==
  Len(records) <= MAX_RECORDS /\ batch_len(encode_record_batch(records)) <= MAX_FRAME_LEN

-----------------------------------------------------------------------------
v2_batch_ok(batch) ==
  /\ batch.magic = 2
  /\ batch.crc
  /\ batch.flags \cap {"compressed", "control"} = {}
  /\ Len(batch.records) <= MAX_RECORDS
  /\ batch.whole

\* The identities of the batches that are marked transactional.
identities(set) ==
  {set[i].producer : i \in {j \in 1 .. Len(set) : "transactional" \in set[j].flags}}

decode_v2_record_set_ok(set) ==
  /\ \A i \in 1 .. Len(set) : v2_batch_ok(set[i])
  /\ \A p, q \in identities(set) : p = q

decode_v2_records(set) ==
  FlattenSeq([i \in 1 .. Len(set) |->
    [j \in 1 .. Len(set[i].records) |->
       [timestamp_ms |-> timestamp_from(set[i].first_timestamp,
                                        read_varlong(set[i].records[j].timestamp_delta)),
        size         |-> set[i].records[j].size]]])

\* Every message of a legacy set is a record of its own.
decode_legacy_message_set_ok(set) ==
  \A i \in 1 .. Len(set) :
    set[i].magic \in {0, 1} /\ set[i].crc /\ "compressed" \notin set[i].flags /\ set[i].whole
decode_legacy_records(set) ==
  [i \in 1 .. Len(set) |->
     [timestamp_ms |-> IF set[i].magic = 1 THEN set[i].timestamp_ms ELSE 0,
      size         |-> set[i].size]]

\* The magic byte of the first batch or message selects the format.
decode_record_batches_ok(set) ==
  /\ set # <<>>
  /\ CASE set[1].magic = 2 -> decode_v2_record_set_ok(set)
       [] set[1].magic \in {0, 1} -> decode_legacy_message_set_ok(set)
       [] OTHER -> FALSE

decode_record_batches_with_identity(set) ==
  IF set[1].magic = 2
  THEN [records  |-> decode_v2_records(set),
        producer |-> IF identities(set) = {} THEN NoProducer
                     ELSE CHOOSE p \in identities(set) : TRUE]
  ELSE [records |-> decode_legacy_records(set), producer |-> NoProducer]
=============================================================================
