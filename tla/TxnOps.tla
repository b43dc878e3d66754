------------------------------- MODULE TxnOps -------------------------------
(***************************************************************************)
(* The methods of TransactionCoordinator (broker-core/src/coordination.rs) *)
(* as operators on the value of one coordinator.  For each method m there  *)
(* is m_error, the outcome its checks decide ("Ok" or the                  *)
(* CoordinationError), and m, the coordinator after an accepted call; a    *)
(* refused call changes nothing.                                           *)
(***************************************************************************)
EXTENDS Integers, Sequences

CONSTANTS
  EmptyId,            \* the empty transactional id
  InvalidPartition,   \* an empty topic name or a negative partition number
  InvalidOffset,      \* a TransactionOffset with an empty or negative field
  MaxEpoch,           \* i16::MAX, where the epoch saturates
  MaxProducerId       \* i64::MAX, where next_id saturates

ASSUME TxnAssumption == MaxEpoch \in Nat /\ MaxProducerId \in Nat \ {0}

saturating_inc(n, max) == IF n < max THEN n + 1 ELSE max

new_coordinator == [next_id |-> 1, transactions |-> [t \in {} |-> 0]]

known(c, tid) == tid \in DOMAIN c.transactions

with_transaction(c, tid, transaction) ==
  [t \in DOMAIN c.transactions \cup {tid} |->
     IF t = tid THEN transaction ELSE c.transactions[t]]

\* The coordinator after a call that changes one known transaction.
updated(c, tid, transaction) ==
  [next_id |-> c.next_id, transactions |-> with_transaction(c, tid, transaction)]

-----------------------------------------------------------------------------
init_error(tid) == IF tid = EmptyId THEN "InvalidId" ELSE "Ok"

\* The identity init hands out.
issued_identity(c, tid) ==
  IF known(c, tid)
  THEN [id    |-> c.transactions[tid].identity.id,
        epoch |-> saturating_inc(c.transactions[tid].identity.epoch, MaxEpoch)]
  ELSE [id |-> c.next_id, epoch |-> 0]

\* Keeps what the previous epoch enlisted.
init_keeping_enlistments(c, tid) ==
  [next_id |-> IF known(c, tid) THEN c.next_id
               ELSE saturating_inc(c.next_id, MaxProducerId),
   transactions |->
     with_transaction(c, tid,
       [identity   |-> issued_identity(c, tid),
        state      |-> "Empty",
        partitions |-> IF known(c, tid) THEN c.transactions[tid].partitions ELSE {},
        offsets    |-> <<>>])]

\* Forgets to advance next_id.
init_reusing_id(c, tid) ==
  [next_id |-> c.next_id,
   transactions |->
     with_transaction(c, tid,
       [identity |-> issued_identity(c, tid), state |-> "Empty",
        partitions |-> {}, offsets |-> <<>>])]

init(c, tid) ==
  [next_id |-> IF known(c, tid) THEN c.next_id
               ELSE saturating_inc(c.next_id, MaxProducerId),
   transactions |->
     with_transaction(c, tid,
       [identity   |-> issued_identity(c, tid),
        state      |-> "Empty",
        partitions |-> {},
        offsets    |-> <<>>])]

\* Compares the producer id only.
transaction_error_id_only(c, tid, identity) ==
  CASE ~known(c, tid) -> "UnknownTransaction"
    [] known(c, tid) /\ c.transactions[tid].identity.id # identity.id -> "ProducerFenced"
    [] OTHER -> "Ok"

\* transaction_mut: the lookup and the fencing check every other method starts with.
transaction_error(c, tid, identity) ==
  CASE ~known(c, tid) -> "UnknownTransaction"
    [] known(c, tid) /\ c.transactions[tid].identity # identity -> "ProducerFenced"
    [] OTHER -> "Ok"

in_state(c, tid, states) == known(c, tid) /\ c.transactions[tid].state \in states

add_partition_error(c, tid, identity, partition) ==
  IF partition = InvalidPartition THEN "InvalidId"
  ELSE IF transaction_error(c, tid, identity) # "Ok" THEN transaction_error(c, tid, identity)
  ELSE IF in_state(c, tid, {"PrepareCommit", "PrepareAbort"}) THEN "InvalidTransactionState"
  ELSE "Ok"

add_partition(c, tid, partition) ==
  updated(c, tid,
    [c.transactions[tid] EXCEPT !.state = "Ongoing", !.partitions = @ \cup {partition}])

validate_produce_error(c, tid, identity, partition) ==
  IF transaction_error(c, tid, identity) # "Ok" THEN transaction_error(c, tid, identity)
  ELSE IF in_state(c, tid, {"Ongoing"}) /\ partition \in c.transactions[tid].partitions
       THEN "Ok" ELSE "InvalidTransactionState"

add_offset_error(c, tid, identity, offset) ==
  IF offset = InvalidOffset THEN "InvalidId"
  ELSE IF transaction_error(c, tid, identity) # "Ok" THEN transaction_error(c, tid, identity)
  ELSE IF in_state(c, tid, {"Ongoing"}) THEN "Ok"
  ELSE "InvalidTransactionState"

add_offset(c, tid, offset) ==
  updated(c, tid,
    [c.transactions[tid] EXCEPT !.offsets = Append(@, offset)])

end_error(c, tid, identity) ==
  IF transaction_error(c, tid, identity) # "Ok" THEN transaction_error(c, tid, identity)
  ELSE IF in_state(c, tid, {"Ongoing"}) THEN "Ok"
  ELSE "InvalidTransactionState"

\* The work end hands back: what was enlisted.
completion(c, tid) ==
  [partitions |-> c.transactions[tid].partitions, offsets |-> c.transactions[tid].offsets]

\* PrepareCommit and PrepareAbort are entered and left within the call.
end(c, tid) ==
  updated(c, tid,
    [identity   |-> c.transactions[tid].identity,
     state      |-> "Empty",
     partitions |-> {},
     offsets    |-> <<>>])
=============================================================================
