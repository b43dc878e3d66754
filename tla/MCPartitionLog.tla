--------------------------- MODULE MCPartitionLog ---------------------------
(***************************************************************************)
(* An instance of PartitionLog, with the read path checked on every log it *)
(* reaches against a definition by sets, for every argument of a small     *)
(* range, and with every window it returns encoded as a record batch.      *)
(***************************************************************************)
EXTENDS PartitionLog, LogFetch, RecordBatch

\* Batches of no record, one or two records, and one record too many.
MCBatchEnds == {<<>>, <<1>>, <<3>>, <<1, 2>>, <<2, 4>>, <<1, 2, 3>>}

ArgOffsets == -1 .. MaxOffset + 1
ArgRecords == 0 .. 3
ArgBytes == {0, 1, 2, 4}

\* The size and visibility of the record at an offset, looked up directly.
holder(o) ==
  CHOOSE i \in 1 .. Len(log.batches) :
    o \in log.batches[i].base_offset .. end_offset(log.batches[i]) - 1
size_at(o) == record_size(log.batches[holder(o)], o - log.batches[holder(o)].base_offset + 1)
visible(o, read_committed) ==
  \/ ~read_committed
  \/ log.batches[holder(o)].transaction = NoTransaction
  \/ log.batches[holder(o)].state = "Committed"

\* What a fetch should return, without a scan: an error exactly outside
\* start_offset .. next_offset; otherwise the records of the k smallest visible
\* offsets, in order, where k is as large as max_records and max_bytes allow,
\* and at least 1 if anything is visible and max_records is not 0.
FetchMatchesReference ==
  \A offset \in ArgOffsets, max_records \in ArgRecords,
     max_bytes \in ArgBytes, read_committed \in BOOLEAN :
    LET got  == fetch_inner(log, offset, max_records, max_bytes, read_committed)
        want == {o \in offset .. log.next_offset - 1 : visible(o, read_committed)}
        took == {got.records[i].offset : i \in 1 .. Len(got.records)}
        bytes(S) == MapThenSumSet(size_at, S)
    IN  IF offset \in start_offset(log) .. log.next_offset
        THEN /\ got.result = "Ok"
             /\ took \subseteq want
             /\ \A o \in want \ took : \A t \in took : o > t
             /\ Len(got.records) = Cardinality(took)
             /\ \A i \in 1 .. Len(got.records) - 1 :
                  got.records[i].offset < got.records[i + 1].offset
             /\ Cardinality(took) <= max_records
             /\ Cardinality(took) > 1 => bytes(took) <= max_bytes
             /\ Cardinality(took) < max_records /\ want # took =>
                  took # {} /\ bytes(took) + size_at(Min(want \ took)) > max_bytes
        ELSE got = [result |-> "OffsetOutOfRange"]

\* The windows of this log that a fetch encodes, their records stamped with times
\* from the ends of the range and from its middle.
Stamps == <<-1, Half - 1, -Half, 2>>
windows(read_committed) ==
  {[i \in 1 .. Len(w) |-> [offset |-> w[i].offset, size |-> w[i].size,
                           timestamp_ms |-> Stamps[(w[i].offset % Len(Stamps)) + 1]]] :
     w \in {fetch_inner(log, offset, max_records, 4, read_committed).records :
             offset \in start_offset(log) .. log.next_offset, max_records \in ArgRecords} \ {<<>>}}

\* "Fetch responses re-encode stored records": who reads the batch back gets every record
\* of the window at its own offset, gaps left by hidden records included, and with its own
\* timestamp wherever the distance to the first one fits an i64.
EncodedFetchExact ==
  \A read_committed \in BOOLEAN : \A w \in windows(read_committed) :
    LET batch == encode_record_batch(w)
    IN  \A i \in 1 .. Len(w) :
          LET r == batch.records[i]  distance == w[i].timestamp_ms - w[1].timestamp_ms
          IN  /\ readable(r.offset_delta, MaxGroupsInt) /\ readable(r.timestamp_delta, MaxGroups)
              /\ batch.base_offset + read_varint(r.offset_delta) = w[i].offset
              /\ distance \in -Half .. Half - 1 =>
                   timestamp_from(batch.first_timestamp, read_varlong(r.timestamp_delta))
                     = w[i].timestamp_ms

\* A consumer that goes on behind the last offset a batch header announces never skips a
\* record.  The header counts records, so it is exact only where no record is hidden;
\* otherwise it stops short and the consumer reads the end of the batch again.
HeaderNeverSkips ==
  \A read_committed \in BOOLEAN : \A w \in windows(read_committed) :
    LET batch == encode_record_batch(w)  announced == batch.base_offset + batch.last_offset_delta
    IN  /\ announced <= w[Len(w)].offset
        /\ ~read_committed => announced = w[Len(w)].offset
=============================================================================
