---------------------------- MODULE OffsetWindow ----------------------------
(***************************************************************************)
(* What a partition log promises its callers, without batches, retention   *)
(* policy or byte accounting: a window lo .. hi - 1 of offsets, each with  *)
(* one record.  Appends take the next offsets, all records of an append at *)
(* once; old offsets may disappear at any append, oldest first, but never  *)
(* the ones just appended; the outcome of a producer's transactions is the *)
(* only part of a record that changes.                                     *)
(***************************************************************************)
EXTENDS Integers, Sequences

CONSTANTS ProducerId, NoTransaction, BatchEnds

VARIABLES lo, hi, records
windowVars == <<lo, hi, records>>

Init == lo = 0 /\ hi = 0 /\ records = [o \in {} |-> 0]

\* The i-th record of an append whose prefix sums are ends.
appended(ends, i, owner) ==
  [size  |-> ends[i] - (IF i = 1 THEN 0 ELSE ends[i - 1]),
   owner |-> owner,
   state |-> IF owner = NoTransaction THEN "Committed" ELSE "Pending"]

Extend(ends, owner) ==
  /\ ends # <<>>
  /\ hi' = hi + Len(ends)
  /\ lo' \in lo .. hi
  /\ records' = [o \in lo' .. hi' - 1 |->
                   IF o < hi THEN records[o] ELSE appended(ends, o - hi + 1, owner)]

Resolve(producer_id, commit) ==
  /\ records' = [o \in lo .. hi - 1 |->
                   IF records[o].owner = producer_id
                   THEN [records[o] EXCEPT !.state = IF commit THEN "Committed" ELSE "Aborted"]
                   ELSE records[o]]
  /\ UNCHANGED <<lo, hi>>

Next ==
  \/ \E ends \in BatchEnds, owner \in ProducerId \cup {NoTransaction} : Extend(ends, owner)
  \/ \E p \in ProducerId, commit \in BOOLEAN : Resolve(p, commit)

Spec == Init /\ [][Next]_windowVars
=============================================================================
