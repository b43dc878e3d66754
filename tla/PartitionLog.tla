---------------------------- MODULE PartitionLog ----------------------------
(***************************************************************************)
(* One partition log (broker-core/src/log.rs) driven by arbitrary calls of *)
(* its three mutating methods.  A shard owns the log and applies one call  *)
(* at a time (broker-runtime/src/partition.rs), so a call is one action.   *)
(***************************************************************************)
EXTENDS LogOps

CONSTANTS
  ProducerId,    \* producer ids that write transactionally
  BatchEnds,     \* batches a caller may append, as prefix sums of record sizes
  MaxOffset      \* bound: no append assigns an offset above MaxOffset - 1

ASSUME PartitionLogAssumption ==
  /\ NoTransaction \notin ProducerId
  /\ MaxOffset \in Nat
  /\ BatchEnds \subseteq Seq(Nat)
  /\ \A ends \in BatchEnds : \A i \in 1 .. Len(ends) - 1 : ends[i] <= ends[i + 1]

VARIABLE log
vars == <<log>>

Init == log = new_log

\* Offsets are i64; the callers stay far below the bound (README, bounds).
HasRoom(ends) == log.next_offset + Len(ends) <= MaxOffset

AppendBatch(ends) ==
  /\ append_error(ends) = "Ok"
  /\ HasRoom(ends)
  /\ log' = append(log, ends)

AppendTransactional(ends, producer_id) ==
  /\ append_error(ends) = "Ok"
  /\ HasRoom(ends)
  /\ log' = append_transactional(log, ends, producer_id)

\* Either append with an empty or oversized batch: an error, and no effect.
RejectAppend(ends) ==
  /\ append_error(ends) # "Ok"
  /\ UNCHANGED log

CommitTransaction(producer_id, commit) ==
  log' = commit_transaction(log, producer_id, commit)

Next ==
  \/ \E ends \in BatchEnds : AppendBatch(ends)
  \/ \E ends \in BatchEnds, p \in ProducerId : AppendTransactional(ends, p)
  \/ \E ends \in BatchEnds : RejectAppend(ends)
  \/ \E p \in ProducerId, commit \in BOOLEAN : CommitTransaction(p, commit)

Spec == Init /\ [][Next]_vars

-----------------------------------------------------------------------------
\* The log holds well-formed batches and counters (struct PartitionLog).
TypeOK == log \in Log(ProducerId)

\* The retained batches tile the range from the start offset to the high
\* watermark: every offset in it belongs to exactly one batch, in order, so
\* base_offset is a valid key for the binary search of batch_index_for and an
\* append always continues where the newest batch ends.
OffsetsTile == offsets_tile(log)

\* After every call the log is within its byte budget or holds only the batch
\* that was just appended (enforce_retention keeps the newest batch).
WithinBudget == within_budget(log)

\* The counter retained_bytes, which only push and remove adjust, is exactly
\* the number of bytes from the oldest retained batch to the end of the log:
\* its saturating subtraction never loses a byte.
RetainedBytesExact == retained_exact(log)

history_kept(old, new) ==
  /\ new.next_offset >= old.next_offset
  /\ start_offset(new) >= start_offset(old)
  /\ \A i \in 1 .. Len(new.batches) :
       \/ new.batches[i].base_offset >= old.next_offset
       \/ \E j \in 1 .. Len(old.batches) :
            /\ new.batches[i].base_offset = old.batches[j].base_offset
            /\ new.batches[i].ends = old.batches[j].ends
            /\ new.batches[i].transaction = old.batches[j].transaction

\* A call never rewrites history.  A batch that survives a call keeps its
\* offsets, records and owner, neither end of the retained range moves back,
\* and an evicted offset never becomes readable again.
HistoryImmutable == [][history_kept(log, log')]_vars

evictions_due(old, new) ==
  \A i \in 1 .. Len(old.batches) :
    old.batches[i].base_offset < start_offset(new)
      => /\ MaxBytes # NoLimit
         /\ new.next_byte - old.batches[i].base_byte > MaxBytes

\* Retention evicts no more than it must: with any evicted batch still there,
\* the bytes from that batch to the new end would exceed the budget.
EvictsOnlyWhenOver == [][evictions_due(log, log')]_vars

-----------------------------------------------------------------------------
\* The record at a retained offset, whatever batch it is in.
record_at(o) ==
  LET i == CHOOSE i \in 1 .. Len(log.batches) :
             /\ log.batches[i].base_offset <= o
             /\ o < end_offset(log.batches[i])
      batch == log.batches[i]
  IN  [size  |-> record_size(batch, o - batch.base_offset + 1),
       owner |-> batch.transaction,
       state |-> batch.state]

Window == INSTANCE OffsetWindow WITH
  lo      <- start_offset(log),
  hi      <- log.next_offset,
  records <- [o \in start_offset(log) .. log.next_offset - 1 |-> record_at(o)]

\* Batches, retention and the byte counter are a detail: to its callers a log
\* is a window of offsets that grows at one end by whole batches, shrinks at
\* the other, and changes nothing inside but the outcome of a transaction.
ImplementsWindow == Window!Spec
=============================================================================
