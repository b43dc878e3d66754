------------------------------ MODULE LogOps -------------------------------
(***************************************************************************)
(* The methods of PartitionLog (broker-core/src/log.rs) as operators on    *)
(* the value of one log, so that a single log (PartitionLog), a log with a *)
(* reader (LogReader) and the logs of a whole broker (TransactionalBroker) *)
(* share one translation of the source.                                    *)
(*                                                                         *)
(* Payloads are abstracted to their sizes.  A batch keeps, in the field    *)
(* ends, the prefix sums of the record_size of its records: record i takes *)
(* ends[i] - ends[i-1] bytes and has offset base_offset + i - 1.           *)
(*                                                                         *)
(* base_byte (of a batch) and next_byte (of a log) are ghosts: the byte    *)
(* counterparts of base_offset and next_offset, never read by the code.    *)
(* Only the definitions at the end, which say what a correct log is, read  *)
(* them.                                                                   *)
(***************************************************************************)
EXTENDS Integers, Sequences

CONSTANTS
  MaxAppendRecords,   \* MAX_APPEND_RECORDS, 1024 in the source
  MaxBytes,           \* max_bytes of the log: a byte count, or NoLimit
  NoLimit,            \* max_bytes = None
  NoTransaction       \* transaction = None

ASSUME LogAssumption ==
  /\ MaxAppendRecords \in Nat \ {0}
  /\ MaxBytes \in Nat \cup {NoLimit}
  /\ NoLimit \notin Nat

-----------------------------------------------------------------------------
record_count(batch) == Len(batch.ends)

\* Bytes of the i-th record of a batch, and of the whole batch.
record_size(batch, i) == batch.ends[i] - (IF i = 1 THEN 0 ELSE batch.ends[i - 1])
batch_size(batch) == batch.ends[Len(batch.ends)]

\* The first offset after a batch.
end_offset(batch) == batch.base_offset + record_count(batch)

new_log ==
  [batches |-> <<>>, next_offset |-> 0, retained_bytes |-> 0, next_byte |-> 0]

start_offset(log) ==
  IF log.batches = <<>> THEN log.next_offset ELSE log.batches[1].base_offset

list_offset(log, earliest) ==
  IF earliest THEN start_offset(log) ELSE log.next_offset

-----------------------------------------------------------------------------
saturating_sub(a, b) == IF a >= b THEN a - b ELSE 0

\* Takes off the batch that has moved to the front.
bytes_after_new_front(log, k) ==
  LET left[i \in 0 .. k] ==
        IF i = 0 THEN log.retained_bytes
        ELSE saturating_sub(left[i - 1], batch_size(log.batches[i + 1]))
  IN  left[k]

\* retained_bytes once the loop of enforce_retention removed the k oldest.
bytes_after(log, k) ==
  LET left[i \in 0 .. k] ==
        IF i = 0 THEN log.retained_bytes
        ELSE saturating_sub(left[i - 1], batch_size(log.batches[i]))
  IN  left[k]

\* Evicts already when the budget is exactly used up.
over_budget_inclusive(log, k) ==
  /\ Len(log.batches) - k > 1
  /\ bytes_after(log, k) >= MaxBytes

\* The loop condition of enforce_retention once the k oldest are removed.
over_budget(log, k) ==
  /\ Len(log.batches) - k > 1
  /\ bytes_after(log, k) > MaxBytes

\* How many batches the loop removes: the first k at which it stops.
evictions(log) ==
  CHOOSE k \in 0 .. Len(log.batches) - 1 :
    /\ ~over_budget(log, k)
    /\ \A j \in 0 .. k - 1 : over_budget(log, j)

\* Numbers what is left from the start again.
drop_oldest_renumbering(log, k) ==
  [batches        |-> SubSeq(log.batches, k + 1, Len(log.batches)),
   next_offset    |-> log.next_offset - (log.batches[k + 1].base_offset - log.batches[1].base_offset),
   retained_bytes |-> bytes_after(log, k),
   next_byte      |-> log.next_byte]

drop_oldest(log, k) ==
  [batches        |-> SubSeq(log.batches, k + 1, Len(log.batches)),
   next_offset    |-> log.next_offset,
   retained_bytes |-> bytes_after(log, k),
   next_byte      |-> log.next_byte]

enforce_retention(log) ==
  IF MaxBytes = NoLimit THEN log ELSE drop_oldest(log, evictions(log))

-----------------------------------------------------------------------------
\* The early returns of append and append_transactional.
append_error(ends) ==
  CASE Len(ends) = 0 -> "EmptyAppend"
    [] Len(ends) > MaxAppendRecords -> "TooManyRecords"
    [] OTHER -> "Ok"

\* Takes one offset per batch.
push_batch_one_offset(log, ends, transaction, state) ==
  [batches |-> Append(log.batches,
                      [base_offset |-> log.next_offset, base_byte |-> log.next_byte,
                       ends |-> ends, transaction |-> transaction, state |-> state]),
   next_offset    |-> log.next_offset + 1,
   retained_bytes |-> log.retained_bytes + ends[Len(ends)],
   next_byte      |-> log.next_byte + ends[Len(ends)]]

\* An accepted batch before retention runs.
push_batch(log, ends, transaction, state) ==
  [batches |-> Append(log.batches,
                      [base_offset |-> log.next_offset,
                       base_byte   |-> log.next_byte,
                       ends        |-> ends,
                       transaction |-> transaction,
                       state       |-> state]),
   next_offset    |-> log.next_offset + Len(ends),
   retained_bytes |-> log.retained_bytes + ends[Len(ends)],
   next_byte      |-> log.next_byte + ends[Len(ends)]]

append(log, ends) ==
  enforce_retention(push_batch(log, ends, NoTransaction, "Committed"))

append_transactional(log, ends, producer_id) ==
  enforce_retention(push_batch(log, ends, producer_id, "Pending"))

\* Resolves the transactions of every producer.
commit_transaction_all(log, producer_id, commit) ==
  [log EXCEPT !.batches =
     [i \in 1 .. Len(log.batches) |->
        IF log.batches[i].transaction # NoTransaction
        THEN [log.batches[i] EXCEPT !.state = IF commit THEN "Committed" ELSE "Aborted"]
        ELSE log.batches[i]]]

\* Every batch of the producer takes the new state, whatever state it is in.
commit_transaction(log, producer_id, commit) ==
  [log EXCEPT !.batches =
     [i \in 1 .. Len(log.batches) |->
        IF log.batches[i].transaction = producer_id
        THEN [log.batches[i] EXCEPT !.state =
                IF commit THEN "Committed" ELSE "Aborted"]
        ELSE log.batches[i]]]

-----------------------------------------------------------------------------
\* last_stable_offset of a fetch: the base of the first pending batch.
pending(batch) == batch.transaction # NoTransaction /\ batch.state = "Pending"

last_stable_offset(log) ==
  IF \E i \in 1 .. Len(log.batches) : pending(log.batches[i])
  THEN log.batches[CHOOSE i \in 1 .. Len(log.batches) :
                     /\ pending(log.batches[i])
                     /\ \A j \in 1 .. i - 1 : ~pending(log.batches[j])].base_offset
  ELSE log.next_offset
-----------------------------------------------------------------------------
(***************************************************************************)
(* What every log value satisfies between two calls.                       *)
(***************************************************************************)
BatchState == {"Pending", "Committed", "Aborted"}

Batch(owners) ==
  [base_offset : Nat, base_byte : Nat, ends : Seq(Nat),
   transaction : owners \cup {NoTransaction}, state : BatchState]

Log(owners) ==
  [batches : Seq(Batch(owners)), next_offset : Nat, retained_bytes : Nat,
   next_byte : Nat]

\* The batches of a log cover start_offset .. next_offset - 1, each offset once.
offsets_tile(log) ==
  LET bs == log.batches
      n  == Len(bs)
  IN  /\ \A i \in 1 .. n : record_count(bs[i]) > 0
      /\ \A i \in 1 .. n - 1 : bs[i + 1].base_offset = end_offset(bs[i])
      /\ n > 0 => log.next_offset = end_offset(bs[n])
      /\ n = 0 => log.next_offset = 0

\* The same for bytes, which is what the ghost base_byte means.
bytes_tile(log) ==
  LET bs == log.batches
      n  == Len(bs)
  IN  /\ \A i \in 1 .. n - 1 : bs[i + 1].base_byte = bs[i].base_byte + batch_size(bs[i])
      /\ n > 0 => log.next_byte = bs[n].base_byte + batch_size(bs[n])
      /\ n = 0 => log.next_byte = 0

\* retained_bytes counts the bytes from the oldest retained batch to the end.
retained_exact(log) ==
  log.retained_bytes =
    IF log.batches = <<>> THEN 0 ELSE log.next_byte - log.batches[1].base_byte

\* Within the budget, or nothing left that retention may drop.
within_budget(log) ==
  \/ MaxBytes = NoLimit
  \/ log.retained_bytes <= MaxBytes
  \/ Len(log.batches) = 1
=============================================================================
