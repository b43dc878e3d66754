------------------------------ MODULE LogFetch ------------------------------
(***************************************************************************)
(* The read path of a partition log (fetch_inner and batch_index_for in    *)
(* broker-core/src/log.rs), step for step: the binary search for the batch *)
(* to start from and the scan with its skips and early exits.              *)
(***************************************************************************)
EXTENDS LogOps, SequencesExt

\* Starts the scan one batch late when the offset lies inside a batch.
batch_index_for_first_after(log, offset) ==
  LET search[low, high \in 0 .. Len(log.batches)] ==
        IF low < high
        THEN LET middle == low + (high - low) \div 2
             IN  IF log.batches[middle + 1].base_offset < offset
                 THEN search[middle + 1, high]
                 ELSE search[low, middle]
        ELSE low
  IN  search[0, Len(log.batches)]

\* Index, from 0 as in the source, of the last batch whose base offset is at
\* or below offset.
batch_index_for(log, offset) ==
  LET search[low, high \in 0 .. Len(log.batches)] ==
        IF low < high
        THEN LET middle == low + (high - low) \div 2
             IN  IF log.batches[middle + 1].base_offset <= offset
                 THEN search[middle + 1, high]
                 ELSE search[low, middle]
        ELSE saturating_sub(low, 1)
  IN  search[0, Len(log.batches)]

\* The records of a batch in offset order, with what the scan looks at.
records_of(batch) ==
  [i \in 1 .. record_count(batch) |->
     [offset      |-> batch.base_offset + i - 1,
      size        |-> record_size(batch, i),
      transaction |-> batch.transaction,
      state       |-> batch.state]]

\* Hides pending batches only, so an aborted record is served.
hidden_pending_only(record, read_committed) ==
  read_committed /\ record.transaction # NoTransaction /\ record.state = "Pending"

hidden(record, read_committed) ==
  /\ read_committed
  /\ record.transaction # NoTransaction
  /\ record.state # "Committed"

\* Checks the byte budget for the first record too.
window_full_strict(window, record, max_records, max_bytes) ==
  \/ Len(window.records) = max_records
  \/ window.bytes + record.size > max_bytes

\* The two early exits of the scan.
window_full(window, record, max_records, max_bytes) ==
  \/ Len(window.records) = max_records
  \/ window.records # <<>> /\ window.bytes + record.size > max_bytes

\* Starts at the head of the batch that holds the offset.
scan_whole_batch(records, offset, max_records, max_bytes, read_committed) ==
  LET visit(window, record) ==
        CASE window.done -> window
          [] hidden(record, read_committed) -> window
          [] window_full(window, record, max_records, max_bytes) ->
               [window EXCEPT !.done = TRUE]
          [] OTHER ->
               [window EXCEPT !.bytes = @ + record.size,
                              !.records = Append(@, record)]
  IN  FoldLeft(visit, [records |-> <<>>, bytes |-> 0, done |-> FALSE], records).records

scan(records, offset, max_records, max_bytes, read_committed) ==
  LET visit(window, record) ==
        CASE window.done -> window
          [] record.offset < offset \/ hidden(record, read_committed) -> window
          [] window_full(window, record, max_records, max_bytes) ->
               [window EXCEPT !.done = TRUE]
          [] OTHER ->
               [window EXCEPT !.bytes = @ + record.size,
                              !.records = Append(@, record)]
  IN  FoldLeft(visit, [records |-> <<>>, bytes |-> 0, done |-> FALSE], records).records

fetch_inner(log, offset, max_records, max_bytes, read_committed) ==
  IF offset < start_offset(log) \/ offset > log.next_offset
  THEN [result |-> "OffsetOutOfRange"]
  ELSE LET start_batch == batch_index_for(log, offset)
           rest == SubSeq(log.batches, start_batch + 1, Len(log.batches))
           found == IF max_records > 0 /\ offset < log.next_offset
                    THEN scan(FlattenSeq([b \in 1 .. Len(rest) |-> records_of(rest[b])]),
                              offset, max_records, max_bytes, read_committed)
                    ELSE <<>>
       IN  [result             |-> "Ok",
            high_watermark     |-> log.next_offset,
            last_stable_offset |-> last_stable_offset(log),
            records            |-> found]
=============================================================================
