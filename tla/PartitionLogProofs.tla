------------------------- MODULE PartitionLogProofs -------------------------
(***************************************************************************)
(* TLAPS proofs about PartitionLog, for every set of producers, every set  *)
(* of batches, every byte budget (or none) and every offset bound.         *)
(*                                                                         *)
(* The argument: an append first pushes a batch (PushOk), which keeps the  *)
(* log well formed but may exceed the budget; enforce_retention then drops *)
(* the shortest prefix that ends its loop (EvictionsSpec), which keeps the *)
(* log well formed and restores the budget (RetentionOk).  Resolving a     *)
(* transaction changes nothing but batch states (ResolveOk).               *)
(***************************************************************************)
EXTENDS PartitionLog, SequenceTheorems, WellFoundedInduction, TLAPS

\* The ordering that offsets_tile and bytes_tile state for neighbours, stated
\* for all pairs: without induction over the batches it does not follow.
ordered(lg) ==
  LET bs == lg.batches
  IN  \A i \in 1 .. Len(bs) :
        /\ bs[i].base_byte <= lg.next_byte
        /\ end_offset(bs[i]) <= lg.next_offset
        /\ \A j \in 1 .. Len(bs) : i < j => end_offset(bs[i]) <= bs[j].base_offset

\* A well-formed log, whether or not retention has run.
log_ok(lg) ==
  /\ lg \in Log(ProducerId)
  /\ offsets_tile(lg)
  /\ bytes_tile(lg)
  /\ retained_exact(lg)
  /\ ordered(lg)

\* The inductive invariant.
IInv == log_ok(log) /\ within_budget(log)

-----------------------------------------------------------------------------
\* A nonempty set of naturals has a least element.
LEMMA LeastElement ==
  ASSUME NEW T \in SUBSET Nat, T # {}
  PROVE  \E m \in T : \A t \in T : m <= t
<1>1. PICK m \in T : \A t \in T : ~(<<t, m>> \in OpToRel(<, Nat))
  BY WFMin, NatLessThanWellFounded
<1>2. \A t \in T : ~(t < m)
  BY <1>1 DEF OpToRel
<1> QED
  BY <1>2

\* Sums of naturals, kept away from the terms they are used for.
LEMMA NatPlus ==
  ASSUME NEW a \in Nat, NEW b \in Nat
  PROVE  a + b \in Nat
OBVIOUS

\* The same for an upper bound.
LEMMA LeqPlus ==
  ASSUME NEW a \in Nat, NEW b \in Nat, NEW c \in Nat, a <= b
  PROVE  a <= b + c
OBVIOUS

\* The loop of enforce_retention stops, at the latest with one batch left:
\* evictions picks the first stopping point and the loop ran up to it.
LEMMA EvictionsSpec ==
  ASSUME NEW lg, lg.batches \in Seq(Batch(ProducerId)), lg.batches # <<>>
  PROVE  /\ evictions(lg) \in 0 .. Len(lg.batches) - 1
         /\ ~over_budget(lg, evictions(lg))
         /\ \A j \in 0 .. evictions(lg) - 1 : over_budget(lg, j)
<1> DEFINE n == Len(lg.batches)
           T == {k \in 0 .. n - 1 : ~over_budget(lg, k)}
<1>1. n \in Nat /\ n > 0
  BY EmptySeq
<1>2. n - 1 \in T
  BY <1>1 DEF over_budget
<1>3. PICK m \in T : \A t \in T : m <= t
  <2>1. T \in SUBSET Nat
    BY <1>1
  <2> HIDE DEF T
  <2> QED
    BY <1>2, <2>1, LeastElement
<1>4. \A j \in 0 .. m - 1 : over_budget(lg, j)
  BY <1>1, <1>3
<1>5. m \in 0 .. n - 1 /\ ~over_budget(lg, m)
  BY <1>3
<1> HIDE DEF T
<1> QED
  BY <1>4, <1>5 DEF evictions

-----------------------------------------------------------------------------
\* Pushing an accepted batch keeps the log well formed.
LEMMA PushOk ==
  ASSUME NEW lg, log_ok(lg),
         NEW ends \in BatchEnds, append_error(ends) = "Ok",
         NEW owner \in ProducerId \cup {NoTransaction},
         NEW state \in BatchState
  PROVE  /\ log_ok(push_batch(lg, ends, owner, state))
         /\ push_batch(lg, ends, owner, state).batches # <<>>
<1> DEFINE new == [base_offset |-> lg.next_offset, base_byte |-> lg.next_byte,
                   ends |-> ends, transaction |-> owner, state |-> state]
           pl == push_batch(lg, ends, owner, state)
           n == Len(lg.batches)
           count == Len(ends)
           size == ends[Len(ends)]
           B == Batch(ProducerId)
<1>1. count \in Nat /\ count > 0 /\ size \in Nat
  <2>1. ends \in Seq(Nat) /\ Len(ends) \in Nat
    BY PartitionLogAssumption
  <2>2. Len(ends) # 0
    BY DEF append_error
  <2> QED
    BY <2>1, <2>2
<1>2. /\ lg.next_offset \in Nat /\ lg.retained_bytes \in Nat /\ lg.next_byte \in Nat
      /\ n \in Nat
  BY DEF log_ok, Log
<1>3. lg.batches \in Seq(B) /\ new \in B
  <2>1. ends \in Seq(Nat)
    BY PartitionLogAssumption
  <2> QED
    BY <1>2, <2>1 DEF log_ok, Log, Batch
<1>4. /\ pl.next_offset = lg.next_offset + count
      /\ pl.retained_bytes = lg.retained_bytes + size
      /\ pl.next_byte = lg.next_byte + size
  BY DEF push_batch
<1>5. /\ pl.batches = Append(lg.batches, new)
       /\ pl = [batches |-> pl.batches, next_offset |-> pl.next_offset,
               retained_bytes |-> pl.retained_bytes, next_byte |-> pl.next_byte]
  BY DEF push_batch
<1>6. /\ pl.batches \in Seq(B) /\ Len(pl.batches) = n + 1
      /\ \A i \in 1 .. n : pl.batches[i] = lg.batches[i] /\ lg.batches[i] \in B
      /\ pl.batches[n + 1] = new
      /\ pl.batches # <<>>
  <2> HIDE DEF new, pl, B
  <2> QED
    BY <1>3, <1>5, AppendProperties, ElementOfSeq
<1>7. pl \in Log(ProducerId)
  <2> HIDE DEF new, pl, count, size
  <2>1. /\ pl.next_offset \in Nat /\ pl.retained_bytes \in Nat /\ pl.next_byte \in Nat
    BY <1>1, <1>2, <1>4, NatPlus
  <2>2. [batches |-> pl.batches, next_offset |-> pl.next_offset,
         retained_bytes |-> pl.retained_bytes, next_byte |-> pl.next_byte] \in Log(ProducerId)
    BY <1>6, <2>1 DEF Log
  <2> QED
    BY <1>5, <2>2
<1>8. /\ record_count(new) = count /\ batch_size(new) = size
      /\ end_offset(new) = lg.next_offset + count
      /\ new.base_offset = lg.next_offset /\ new.base_byte = lg.next_byte
  BY DEF record_count, batch_size, end_offset
<1>9. ASSUME NEW i \in 1 .. n
      PROVE  /\ end_offset(lg.batches[i]) \in Nat
             /\ lg.batches[i].base_byte \in Nat
  <2>1. lg.batches[i] \in Batch(ProducerId)
    BY <1>6
  <2> QED
    BY <2>1 DEF Batch, record_count, end_offset
<1> HIDE DEF new, pl, B, count, size
<1>10. offsets_tile(pl)
  <2>1. \A i \in 1 .. n + 1 : record_count(pl.batches[i]) > 0
    <3>1. \A i \in 1 .. n : record_count(pl.batches[i]) > 0
      BY <1>6 DEF log_ok, offsets_tile
    <3>2. record_count(pl.batches[n + 1]) > 0
      BY <1>1, <1>6, <1>8
    <3>3. \A i \in 1 .. n + 1 : i \in 1 .. n \/ i = n + 1
      BY <1>2
    <3> QED
      BY <3>1, <3>2, <3>3
  <2>2. ASSUME NEW i \in 1 .. n
        PROVE  pl.batches[i + 1].base_offset = end_offset(pl.batches[i])
    <3>1. CASE i = n
      <4>1. lg.next_offset = end_offset(lg.batches[n])
        BY <1>2, <3>1 DEF log_ok, offsets_tile
      <4> QED
        BY <1>2, <1>6, <1>8, <3>1, <4>1
    <3>2. CASE i < n
      <4>1. i \in 1 .. n - 1 /\ i + 1 \in 1 .. n
        BY <1>2, <3>2
      <4>2. lg.batches[i + 1].base_offset = end_offset(lg.batches[i])
        BY <4>1 DEF log_ok, offsets_tile
      <4> QED
        BY <1>6, <4>1, <4>2
    <3> QED
      BY <1>2, <3>1, <3>2
  <2>3. pl.next_offset = end_offset(pl.batches[n + 1])
    BY <1>4, <1>6, <1>8
  <2> QED
    BY <1>2, <1>6, <2>1, <2>2, <2>3 DEF offsets_tile
<1>11. bytes_tile(pl)
  <2>1. ASSUME NEW i \in 1 .. n
        PROVE  pl.batches[i + 1].base_byte = pl.batches[i].base_byte + batch_size(pl.batches[i])
    <3>1. CASE i = n
      <4>1. lg.next_byte = lg.batches[n].base_byte + batch_size(lg.batches[n])
        BY <1>2, <3>1 DEF log_ok, bytes_tile
      <4> QED
        BY <1>2, <1>6, <1>8, <3>1, <4>1
    <3>2. CASE i < n
      <4>1. i \in 1 .. n - 1 /\ i + 1 \in 1 .. n
        BY <1>2, <3>2
      <4>2. lg.batches[i + 1].base_byte = lg.batches[i].base_byte + batch_size(lg.batches[i])
        BY <4>1 DEF log_ok, bytes_tile
      <4> QED
        BY <1>6, <4>1, <4>2
    <3> QED
      BY <1>2, <3>1, <3>2
  <2>2. pl.next_byte = pl.batches[n + 1].base_byte + batch_size(pl.batches[n + 1])
    BY <1>4, <1>6, <1>8
  <2> QED
    BY <1>2, <1>6, <2>1, <2>2 DEF bytes_tile
<1>12. retained_exact(pl)
  <2>1. CASE n = 0
    <3>1. lg.batches = <<>>
      BY <1>3, <2>1, EmptySeq
    <3>2. lg.retained_bytes = 0 /\ lg.next_byte = 0
      BY <2>1, <3>1 DEF log_ok, retained_exact, bytes_tile
    <3>3. pl.batches[1].base_byte = 0
      BY <1>6, <1>8, <2>1, <3>2
    <3>4. pl.retained_bytes = pl.next_byte - pl.batches[1].base_byte
      BY <1>1, <1>4, <3>2, <3>3
    <3> QED
      BY <1>6, <3>4 DEF retained_exact
  <2>2. CASE n > 0
    <3>1. lg.batches # <<>> /\ pl.batches[1] = lg.batches[1] /\ lg.batches[1].base_byte \in Nat
      BY <1>2, <1>3, <1>6, <1>9, <2>2, EmptySeq
    <3>2. lg.retained_bytes = lg.next_byte - lg.batches[1].base_byte
      BY <3>1 DEF log_ok, retained_exact
    <3>3. pl.retained_bytes = pl.next_byte - pl.batches[1].base_byte
      BY <1>1, <1>2, <1>4, <3>1, <3>2
    <3> QED
      BY <1>6, <3>3 DEF retained_exact
  <2> QED
    BY <1>2, <2>1, <2>2
<1>13. ordered(pl)
  <2>1. ASSUME NEW i \in 1 .. n
        PROVE  /\ pl.batches[i].base_byte <= pl.next_byte
               /\ end_offset(pl.batches[i]) <= pl.next_offset
               /\ \A j \in 1 .. n : i < j => end_offset(pl.batches[i]) <= pl.batches[j].base_offset
               /\ end_offset(pl.batches[i]) <= pl.batches[n + 1].base_offset
    <3>1. /\ lg.batches[i].base_byte <= lg.next_byte
          /\ end_offset(lg.batches[i]) <= lg.next_offset
      BY DEF log_ok, ordered
    <3>2. \A j \in 1 .. n : i < j => end_offset(lg.batches[i]) <= lg.batches[j].base_offset
      BY DEF log_ok, ordered
    <3>3. lg.batches[i].base_byte \in Nat /\ end_offset(lg.batches[i]) \in Nat
      BY <1>9
    <3>4. pl.batches[i] = lg.batches[i]
      BY <1>6
    <3>5. /\ lg.batches[i].base_byte <= pl.next_byte
          /\ end_offset(lg.batches[i]) <= pl.next_offset
      BY <1>1, <1>2, <1>4, <3>1, <3>3, LeqPlus
    <3> QED
      BY <1>6, <1>8, <3>1, <3>2, <3>4, <3>5
  <2>2. /\ pl.batches[n + 1].base_byte <= pl.next_byte
        /\ end_offset(pl.batches[n + 1]) <= pl.next_offset
    BY <1>1, <1>2, <1>4, <1>6, <1>8
  <2>3. /\ Len(pl.batches) = n + 1 /\ n \in Nat
        /\ \A i \in 1 .. n + 1 : i \in 1 .. n \/ i = n + 1
        /\ \A j \in 1 .. n + 1 : ~(n + 1 < j)
    BY <1>2, <1>6
  <2>4. ASSUME NEW i \in 1 .. n + 1
        PROVE  /\ pl.batches[i].base_byte <= pl.next_byte
               /\ end_offset(pl.batches[i]) <= pl.next_offset
               /\ \A j \in 1 .. n + 1 : i < j => end_offset(pl.batches[i]) <= pl.batches[j].base_offset
    <3>1. CASE i \in 1 .. n
      BY <2>1, <2>3, <3>1
    <3>2. CASE i = n + 1
      BY <2>2, <2>3, <3>2
    <3> QED
      BY <2>3, <3>1, <3>2
  <2> QED
    BY <2>3, <2>4 DEF ordered
<1> QED
  BY <1>6, <1>7, <1>10, <1>11, <1>12, <1>13 DEF log_ok, pl
-----------------------------------------------------------------------------
\* The byte count the loop of enforce_retention has reached after k removals:
\* the bytes from batch k + 1 to the end.  No subtraction of it saturates.
LEMMA BytesAfterDrop ==
  ASSUME NEW lg, log_ok(lg), NEW k \in 0 .. Len(lg.batches) - 1
  PROVE  /\ bytes_after(lg, k) = lg.next_byte - lg.batches[k + 1].base_byte
         /\ lg.next_byte - lg.batches[k + 1].base_byte \in Nat
<1> DEFINE n == Len(lg.batches)
           rest(i) == lg.next_byte - lg.batches[i + 1].base_byte
           body(f, i) == IF i = 0 THEN lg.retained_bytes
                         ELSE saturating_sub(f[i - 1], batch_size(lg.batches[i]))
           step(f) == [i \in 0 .. k |-> body(f, i)]
<1>1. /\ lg.next_byte \in Nat /\ lg.retained_bytes \in Nat
      /\ lg.batches \in Seq(Batch(ProducerId)) /\ n \in Nat
  BY DEF log_ok, Log
<1>2. k \in Nat /\ k < n
  BY <1>1
<1>3. ASSUME NEW i \in 1 .. n
      PROVE  /\ lg.batches[i].base_byte \in Nat
             /\ lg.batches[i].base_byte <= lg.next_byte
  <2>1. lg.batches[i] \in Batch(ProducerId)
    BY <1>1, ElementOfSeq
  <2>2. lg.batches[i].base_byte <= lg.next_byte
    BY DEF log_ok, ordered
  <2> QED
    BY <2>1, <2>2 DEF Batch
<1>4. ASSUME NEW i \in 0 .. k
      PROVE  rest(i) \in Nat
  <2>1. i + 1 \in 1 .. n
    BY <1>1, <1>2
  <2>2. /\ lg.batches[i + 1].base_byte \in Nat
        /\ lg.batches[i + 1].base_byte <= lg.next_byte
    BY <1>3, <2>1
  <2> QED
    BY <1>1, <2>2
<1>5. rest(0) = lg.retained_bytes
  <2>1. lg.batches # <<>>
    BY <1>1, <1>2
  <2> QED
    BY <2>1 DEF log_ok, retained_exact
<1>6. ASSUME NEW i \in 0 .. k, i # 0
      PROVE  /\ i - 1 \in 0 .. k
             /\ saturating_sub(rest(i - 1), batch_size(lg.batches[i])) = rest(i)
  <2>1. /\ i \in 1 .. n - 1 /\ i \in 1 .. n /\ i - 1 \in 0 .. k
        /\ i - 1 + 1 = i
    BY <1>1, <1>2, <1>6
  <2>2. lg.batches[i + 1].base_byte = lg.batches[i].base_byte + batch_size(lg.batches[i])
    <3>1. bytes_tile(lg)
      BY DEF log_ok
    <3> QED
      BY <2>1, <3>1 DEF bytes_tile
  <2>3. lg.batches[i].base_byte \in Nat
    BY <1>3, <2>1
  <2>4. batch_size(lg.batches[i]) \in Nat
    <3>1. lg.batches[i].ends \in Seq(Nat)
      <4>1. lg.batches[i] \in Batch(ProducerId)
        BY <1>1, <2>1, ElementOfSeq
      <4> QED
        BY <4>1 DEF Batch
    <3>2. Len(lg.batches[i].ends) \in Nat /\ Len(lg.batches[i].ends) > 0
      BY <2>1, <3>1 DEF log_ok, offsets_tile, record_count
    <3> QED
      BY <3>1, <3>2, ElementOfSeq DEF batch_size
  <2>5. rest(i) \in Nat
    BY <1>4
  <2>6. rest(i - 1) = lg.next_byte - lg.batches[i].base_byte
    BY <2>1
  <2>7. rest(i - 1) - batch_size(lg.batches[i]) = rest(i)
    BY <1>1, <2>2, <2>3, <2>4, <2>6
  <2>8. rest(i - 1) >= batch_size(lg.batches[i])
    BY <1>1, <2>2, <2>3, <2>4, <2>5, <2>6
  <2> QED
    BY <2>1, <2>7, <2>8 DEF saturating_sub
<1> HIDE DEF rest
<1>7. PICK left : left = CHOOSE f : f = step(f)
  OBVIOUS
<1>8. left = step(left)
  <2> DEFINE all == [i \in 0 .. k |-> rest(i)]
  <2>1. ASSUME NEW i \in 0 .. k
        PROVE  body(all, i) = rest(i)
    BY <1>5, <1>6
  <2>2. all = step(all)
    BY <2>1
  <2> HIDE DEF step, all
  <2> QED
    BY <1>7, <2>2
<1>9. bytes_after(lg, k) = left[k]
  BY <1>7 DEF bytes_after
<1>10. \A i \in 0 .. k : left[i] = rest(i)
  <2> DEFINE T == {i \in 0 .. k : left[i] # rest(i)}
  <2>1. ASSUME T # {}
        PROVE  FALSE
    <3>1. T \in SUBSET Nat
      OBVIOUS
    <3>2. PICK i \in T : \A t \in T : i <= t
      <4> HIDE DEF T
      <4> QED
        BY <2>1, <3>1, LeastElement
    <3>3. i \in 0 .. k /\ left[i] # rest(i)
      BY <3>2
    <3>4. left[i] = body(left, i)
      BY <1>8, <3>3
    <3>5. i # 0
      BY <1>5, <3>3, <3>4
    <3>6. i - 1 \in 0 .. k /\ ~(i <= i - 1)
      BY <3>3, <3>5
    <3>7. left[i - 1] = rest(i - 1)
      BY <3>2, <3>6
    <3> QED
      BY <1>6, <3>3, <3>4, <3>5, <3>7
  <2> QED
    BY <2>1
<1>11. k \in 0 .. k
  BY <1>2
<1>12. left[k] = rest(k) /\ rest(k) \in Nat
  BY <1>4, <1>10, <1>11
<1> QED
  BY <1>9, <1>12 DEF rest

\* Dropping any proper prefix of the batches keeps the log well formed.
LEMMA DropOk ==
  ASSUME NEW lg, log_ok(lg), NEW k \in 0 .. Len(lg.batches) - 1
  PROVE  /\ log_ok(drop_oldest(lg, k))
         /\ drop_oldest(lg, k).next_offset = lg.next_offset
         /\ drop_oldest(lg, k).next_byte = lg.next_byte
         /\ drop_oldest(lg, k).retained_bytes = lg.next_byte - lg.batches[k + 1].base_byte
         /\ Len(drop_oldest(lg, k).batches) = Len(lg.batches) - k
         /\ \A i \in 1 .. Len(lg.batches) - k :
              drop_oldest(lg, k).batches[i] = lg.batches[k + i]
<1> DEFINE dl == drop_oldest(lg, k)
           bs == lg.batches
           n == Len(lg.batches)
           B == Batch(ProducerId)
<1>1. n \in Nat /\ k \in Nat /\ k < n
  BY DEF log_ok, Log
<1>2. bs \in Seq(B) /\ lg.next_offset \in Nat /\ lg.next_byte \in Nat
  BY DEF log_ok, Log
<1>3. /\ dl.batches = SubSeq(bs, k + 1, n)
      /\ dl.next_offset = lg.next_offset
      /\ dl.next_byte = lg.next_byte
      /\ dl.retained_bytes = bytes_after(lg, k)
      /\ dl = [batches |-> dl.batches, next_offset |-> dl.next_offset,
               retained_bytes |-> dl.retained_bytes, next_byte |-> dl.next_byte]
  BY DEF drop_oldest
<1>4. /\ dl.batches \in Seq(B)
      /\ Len(dl.batches) = n - k
      /\ \A i \in 1 .. n - k : dl.batches[i] = bs[k + i]
  <2>1. \A i \in k + 1 .. n : bs[i] \in B
    BY <1>1, <1>2, ElementOfSeq
  <2>2. /\ SubSeq(bs, k + 1, n) \in Seq(B)
        /\ Len(SubSeq(bs, k + 1, n)) = IF k + 1 <= n THEN n - (k + 1) + 1 ELSE 0
        /\ \A i \in 1 .. n - (k + 1) + 1 : SubSeq(bs, k + 1, n)[i] = bs[k + 1 + i - 1]
    <3> HIDE DEF bs, n, B
    <3> QED
      BY <1>1, <2>1, SubSeqProperties
  <2>3. n - (k + 1) + 1 = n - k /\ \A i \in 1 .. n - k : k + 1 + i - 1 = k + i
    BY <1>1
  <2> HIDE DEF bs, n, B, dl
  <2> QED
    BY <1>1, <1>3, <2>2, <2>3
<1>5. dl.retained_bytes = lg.next_byte - bs[k + 1].base_byte /\ dl.retained_bytes \in Nat
  BY <1>3, BytesAfterDrop
<1> HIDE DEF dl
<1>6. dl \in Log(ProducerId)
  <2>1. [batches |-> dl.batches, next_offset |-> dl.next_offset,
         retained_bytes |-> dl.retained_bytes, next_byte |-> dl.next_byte] \in Log(ProducerId)
    BY <1>2, <1>3, <1>4, <1>5 DEF Log
  <2> QED
    BY <1>3, <2>1
<1>7. \A i \in 1 .. n - k : k + i \in 1 .. n
  BY <1>1
<1>8. offsets_tile(dl)
  <2>1. \A i \in 1 .. n - k : record_count(dl.batches[i]) > 0
    BY <1>4, <1>7 DEF log_ok, offsets_tile
  <2>2. ASSUME NEW i \in 1 .. (n - k) - 1
        PROVE  dl.batches[i + 1].base_offset = end_offset(dl.batches[i])
    <3>1. /\ k + i \in 1 .. n - 1 /\ i \in 1 .. n - k /\ i + 1 \in 1 .. n - k
          /\ k + (i + 1) = (k + i) + 1
      BY <1>1
    <3>2. bs[(k + i) + 1].base_offset = end_offset(bs[k + i])
      BY <3>1 DEF log_ok, offsets_tile
    <3> QED
      BY <1>4, <3>1, <3>2
  <2>3. dl.next_offset = end_offset(dl.batches[n - k])
    <3>1. n - k \in 1 .. n - k /\ k + (n - k) = n /\ n > 0
      BY <1>1
    <3>2. lg.next_offset = end_offset(bs[n])
      BY <3>1 DEF log_ok, offsets_tile
    <3> QED
      BY <1>3, <1>4, <3>1, <3>2
  <2>4. Len(dl.batches) = n - k /\ n - k # 0
    BY <1>1, <1>4
  <2> QED
    BY <2>1, <2>2, <2>3, <2>4 DEF offsets_tile
<1>9. bytes_tile(dl)
  <2>1. ASSUME NEW i \in 1 .. (n - k) - 1
        PROVE  dl.batches[i + 1].base_byte = dl.batches[i].base_byte + batch_size(dl.batches[i])
    <3>1. /\ k + i \in 1 .. n - 1 /\ i \in 1 .. n - k /\ i + 1 \in 1 .. n - k
          /\ k + (i + 1) = (k + i) + 1
      BY <1>1
    <3>2. bs[(k + i) + 1].base_byte = bs[k + i].base_byte + batch_size(bs[k + i])
      BY <3>1 DEF log_ok, bytes_tile
    <3> QED
      BY <1>4, <3>1, <3>2
  <2>2. dl.next_byte = dl.batches[n - k].base_byte + batch_size(dl.batches[n - k])
    <3>1. n - k \in 1 .. n - k /\ k + (n - k) = n /\ n > 0
      BY <1>1
    <3>2. lg.next_byte = bs[n].base_byte + batch_size(bs[n])
      BY <3>1 DEF log_ok, bytes_tile
    <3> QED
      BY <1>3, <1>4, <3>1, <3>2
  <2>3. Len(dl.batches) = n - k /\ n - k # 0
    BY <1>1, <1>4
  <2> QED
    BY <2>1, <2>2, <2>3 DEF bytes_tile
<1>10. retained_exact(dl)
  <2>1. dl.batches # <<>> /\ 1 \in 1 .. n - k
    BY <1>1, <1>4, EmptySeq
  <2>2. dl.batches[1] = bs[k + 1]
    BY <1>4, <2>1
  <2> QED
    BY <1>3, <1>5, <2>1, <2>2 DEF retained_exact
<1>11. ordered(dl)
  <2>1. ASSUME NEW i \in 1 .. n - k
        PROVE  /\ dl.batches[i].base_byte <= dl.next_byte
               /\ end_offset(dl.batches[i]) <= dl.next_offset
               /\ \A j \in 1 .. n - k : i < j => end_offset(dl.batches[i]) <= dl.batches[j].base_offset
    <3>1. \A j \in 1 .. n - k : i < j => k + i < k + j
      BY <1>1
    <3>2. /\ bs[k + i].base_byte <= lg.next_byte
          /\ end_offset(bs[k + i]) <= lg.next_offset
          /\ \A j \in 1 .. n : k + i < j => end_offset(bs[k + i]) <= bs[j].base_offset
      BY <1>7 DEF log_ok, ordered
    <3> QED
      BY <1>3, <1>4, <1>7, <3>1, <3>2
  <2> QED
    BY <1>4, <2>1 DEF ordered
<1> QED
  BY <1>3, <1>4, <1>5, <1>6, <1>8, <1>9, <1>10, <1>11 DEF log_ok, dl

\* enforce_retention keeps a log well formed and brings it into its budget.
LEMMA RetentionOk ==
  ASSUME NEW lg, log_ok(lg), lg.batches # <<>>
  PROVE  /\ log_ok(enforce_retention(lg))
         /\ within_budget(enforce_retention(lg))
<1>1. CASE MaxBytes = NoLimit
  BY <1>1 DEF enforce_retention, within_budget
<1>2. CASE MaxBytes # NoLimit
  <2> DEFINE k == evictions(lg)
             dl == drop_oldest(lg, k)
  <2>1. lg.batches \in Seq(Batch(ProducerId)) /\ Len(lg.batches) \in Nat
    BY DEF log_ok, Log
  <2>2. k \in 0 .. Len(lg.batches) - 1 /\ ~over_budget(lg, k)
    BY <2>1, EvictionsSpec
  <2> HIDE DEF k
  <2>3. /\ log_ok(dl)
        /\ dl.retained_bytes = lg.next_byte - lg.batches[k + 1].base_byte
        /\ Len(dl.batches) = Len(lg.batches) - k
    BY <2>2, DropOk
  <2>4. enforce_retention(lg) = dl
    BY <1>2 DEF enforce_retention, k
  <2> HIDE DEF dl
  <2>5. within_budget(dl)
    <3>1. CASE Len(lg.batches) - k > 1
      <4>1. ~(lg.next_byte - lg.batches[k + 1].base_byte > MaxBytes)
        BY <2>2, <3>1, BytesAfterDrop DEF over_budget
      <4>2. lg.next_byte - lg.batches[k + 1].base_byte \in Nat /\ MaxBytes \in Nat
        BY <1>2, <2>2, BytesAfterDrop, LogAssumption
      <4>3. dl.retained_bytes <= MaxBytes
        BY <2>3, <4>1, <4>2
      <4> QED
        BY <4>3 DEF within_budget
    <3>2. CASE ~(Len(lg.batches) - k > 1)
      <4>1. Len(dl.batches) = 1
        BY <2>1, <2>2, <2>3, <3>2
      <4> QED
        BY <4>1 DEF within_budget
    <3> QED
      BY <3>1, <3>2
  <2> QED
    BY <2>3, <2>4, <2>5
<1> QED
  BY <1>1, <1>2

\* Resolving a transaction changes only batch states.
LEMMA ResolveFrame ==
  ASSUME NEW lg, log_ok(lg), NEW p \in ProducerId, NEW c \in BOOLEAN
  PROVE  LET rl == commit_transaction(lg, p, c)
         IN  /\ rl \in Log(ProducerId)
             /\ rl.next_offset = lg.next_offset
             /\ rl.retained_bytes = lg.retained_bytes
             /\ rl.next_byte = lg.next_byte
             /\ Len(rl.batches) = Len(lg.batches)
             /\ \A i \in 1 .. Len(lg.batches) :
                  /\ rl.batches[i].base_offset = lg.batches[i].base_offset
                  /\ rl.batches[i].base_byte = lg.batches[i].base_byte
                  /\ rl.batches[i].ends = lg.batches[i].ends
                  /\ rl.batches[i].transaction = lg.batches[i].transaction
<1> DEFINE rl == commit_transaction(lg, p, c)
           n == Len(lg.batches)
           B == Batch(ProducerId)
           outcome == IF c THEN "Committed" ELSE "Aborted"
           res(i) == IF lg.batches[i].transaction = p
                     THEN [lg.batches[i] EXCEPT !.state = outcome]
                     ELSE lg.batches[i]
           new == [i \in 1 .. n |-> res(i)]
<1>1. /\ lg \in Log(ProducerId) /\ n \in Nat
      /\ \A i \in 1 .. n : lg.batches[i] \in B
  <2>1. lg \in Log(ProducerId) /\ lg.batches \in Seq(B)
    BY DEF log_ok, Log
  <2> QED
    BY <2>1, ElementOfSeq
<1>2. rl = [lg EXCEPT !.batches = new]
  BY DEF commit_transaction
<1>3. ASSUME NEW i \in 1 .. n
      PROVE  /\ res(i) \in B
             /\ res(i).base_offset = lg.batches[i].base_offset
             /\ res(i).base_byte = lg.batches[i].base_byte
             /\ res(i).ends = lg.batches[i].ends
             /\ res(i).transaction = lg.batches[i].transaction
  <2>1. lg.batches[i] \in B /\ outcome \in BatchState
    BY <1>1 DEF BatchState
  <2> QED
    BY <2>1 DEF Batch
<1> HIDE DEF res
<1>4. new \in Seq(B) /\ Len(new) = n /\ \A i \in 1 .. n : new[i] = res(i)
  BY <1>1, <1>3
<1> HIDE DEF new
<1>5. /\ rl \in Log(ProducerId)
      /\ rl.batches = new /\ rl.next_offset = lg.next_offset
      /\ rl.retained_bytes = lg.retained_bytes /\ rl.next_byte = lg.next_byte
  BY <1>1, <1>2, <1>4 DEF Log
<1> QED
  BY <1>3, <1>4, <1>5

\* Resolving a transaction keeps the log well formed and within its budget.
LEMMA ResolveOk ==
  ASSUME NEW lg, log_ok(lg), NEW p \in ProducerId, NEW c \in BOOLEAN
  PROVE  /\ log_ok(commit_transaction(lg, p, c))
         /\ within_budget(lg) => within_budget(commit_transaction(lg, p, c))
<1> DEFINE rl == commit_transaction(lg, p, c)
           n == Len(lg.batches)
<1>1. /\ rl \in Log(ProducerId) /\ Len(rl.batches) = n /\ n \in Nat
      /\ rl.next_offset = lg.next_offset /\ rl.retained_bytes = lg.retained_bytes
      /\ rl.next_byte = lg.next_byte
  BY ResolveFrame DEF log_ok, Log
<1>2. ASSUME NEW i \in 1 .. n
      PROVE  /\ rl.batches[i].base_offset = lg.batches[i].base_offset
             /\ rl.batches[i].base_byte = lg.batches[i].base_byte
             /\ record_count(rl.batches[i]) = record_count(lg.batches[i])
             /\ batch_size(rl.batches[i]) = batch_size(lg.batches[i])
             /\ end_offset(rl.batches[i]) = end_offset(lg.batches[i])
  <2>1. /\ rl.batches[i].base_offset = lg.batches[i].base_offset
        /\ rl.batches[i].base_byte = lg.batches[i].base_byte
        /\ rl.batches[i].ends = lg.batches[i].ends
    BY ResolveFrame
  <2> QED
    BY <2>1 DEF record_count, batch_size, end_offset
<1> HIDE DEF rl
<1>3. \A i \in 1 .. n - 1 : i \in 1 .. n /\ i + 1 \in 1 .. n
  BY <1>1
<1>4. n > 0 => n \in 1 .. n
  BY <1>1
<1>5. offsets_tile(rl)
  <2>1. offsets_tile(lg)
    BY DEF log_ok
  <2> QED
    BY <1>1, <1>2, <1>3, <1>4, <2>1 DEF offsets_tile
<1>6. bytes_tile(rl)
  <2>1. bytes_tile(lg)
    BY DEF log_ok
  <2> QED
    BY <1>1, <1>2, <1>3, <1>4, <2>1 DEF bytes_tile
<1>7. retained_exact(rl)
  <2>1. lg.batches \in Seq(Batch(ProducerId)) /\ rl.batches \in Seq(Batch(ProducerId))
    BY <1>1 DEF log_ok, Log
  <2>2. lg.batches = <<>> <=> n = 0
    BY <2>1, EmptySeq
  <2>3. rl.batches = <<>> <=> n = 0
    BY <1>1, <2>1, EmptySeq
  <2>4. n > 0 => rl.batches[1].base_byte = lg.batches[1].base_byte
    BY <1>1, <1>2
  <2>5. retained_exact(lg)
    BY DEF log_ok
  <2> QED
    BY <1>1, <2>2, <2>3, <2>4, <2>5 DEF retained_exact
<1>8. ordered(rl)
  <2>1. ordered(lg)
    BY DEF log_ok
  <2> QED
    BY <1>1, <1>2, <2>1 DEF ordered
<1>9. within_budget(lg) => within_budget(rl)
  BY <1>1 DEF within_budget
<1> QED
  BY <1>1, <1>5, <1>6, <1>7, <1>8, <1>9 DEF log_ok, rl
-----------------------------------------------------------------------------
\* The empty log satisfies the invariant.
LEMMA InitOk == Init => IInv
<1> SUFFICES ASSUME Init PROVE IInv
  OBVIOUS
<1>1. /\ log.batches = <<>> /\ log.next_offset = 0
      /\ log.retained_bytes = 0 /\ log.next_byte = 0
  BY DEF Init, new_log
<1>2. log \in Log(ProducerId)
  BY DEF Init, new_log, Log
<1>3. Len(log.batches) = 0
  BY <1>1
<1>4. offsets_tile(log) /\ bytes_tile(log) /\ retained_exact(log)
  BY <1>1, <1>3 DEF offsets_tile, bytes_tile, retained_exact
<1>5. ordered(log)
  BY <1>3 DEF ordered
<1>6. within_budget(log)
  BY <1>1, LogAssumption DEF within_budget
<1> QED
  BY <1>2, <1>4, <1>5, <1>6 DEF IInv, log_ok

\* Every step keeps the inductive invariant.
LEMMA NextOk == IInv /\ [Next]_vars => IInv'
<1> SUFFICES ASSUME IInv, [Next]_vars PROVE IInv'
  OBVIOUS
<1>1. log_ok(log) /\ within_budget(log)
  BY DEF IInv
<1>2. ASSUME NEW ends \in BatchEnds, AppendBatch(ends)
      PROVE  IInv'
  <2>1. log' = enforce_retention(push_batch(log, ends, NoTransaction, "Committed"))
    BY <1>2 DEF AppendBatch, append
  <2>2. "Committed" \in BatchState /\ append_error(ends) = "Ok"
    BY <1>2 DEF BatchState, AppendBatch
  <2> QED
    BY <1>1, <2>1, <2>2, PushOk, RetentionOk DEF IInv
<1>3. ASSUME NEW ends \in BatchEnds, NEW p \in ProducerId, AppendTransactional(ends, p)
      PROVE  IInv'
  <2>1. log' = enforce_retention(push_batch(log, ends, p, "Pending"))
    BY <1>3 DEF AppendTransactional, append_transactional
  <2>2. "Pending" \in BatchState /\ append_error(ends) = "Ok"
    BY <1>3 DEF BatchState, AppendTransactional
  <2> QED
    BY <1>1, <2>1, <2>2, PushOk, RetentionOk DEF IInv
<1>4. ASSUME NEW p \in ProducerId, NEW c \in BOOLEAN, CommitTransaction(p, c)
      PROVE  IInv'
  BY <1>1, <1>4, ResolveOk DEF CommitTransaction, IInv
<1>5. CASE UNCHANGED log
  BY <1>5 DEF IInv
<1> QED
  BY <1>2, <1>3, <1>4, <1>5 DEF Next, RejectAppend, vars

\* Every reachable log is well formed (type, tiling, exact byte accounting) and
\* within its budget, for any budget, producers and batches.
THEOREM LogInvariant == Spec => []IInv
<1> QED
  BY InitOk, NextOk, PTL DEF Spec

\* append and commit_transaction keep the fields of the log well typed.
THEOREM TypeCorrect == Spec => []TypeOK
<1>1. IInv => TypeOK
  BY DEF IInv, log_ok, TypeOK
<1> QED
  BY <1>1, LogInvariant, PTL

\* The retained batches always tile the retained offsets: append assigns the
\* contiguous range starting at the high watermark, and retention removes only
\* a prefix.
THEOREM OffsetsAlwaysTile == Spec => []OffsetsTile
<1>1. IInv => OffsetsTile
  BY DEF IInv, log_ok, OffsetsTile
<1> QED
  BY <1>1, LogInvariant, PTL

\* enforce_retention leaves the log in its budget or with its newest batch only.
THEOREM AlwaysWithinBudget == Spec => []WithinBudget
<1>1. IInv => WithinBudget
  BY DEF IInv, WithinBudget
<1> QED
  BY <1>1, LogInvariant, PTL

\* The retained_bytes counter never drifts from the retained batches.
THEOREM AccountingExact == Spec => []RetainedBytesExact
<1>1. IInv => RetainedBytesExact
  BY DEF IInv, log_ok, RetainedBytesExact
<1> QED
  BY <1>1, LogInvariant, PTL
-----------------------------------------------------------------------------
\* What an append does to the batches, before and after retention: the new log
\* is the pushed one without its k oldest batches, and each of those had to go.
LEMMA RetentionEffect ==
  ASSUME NEW pl, log_ok(pl), pl.batches # <<>>
  PROVE  LET fl == enforce_retention(pl)
         IN  /\ fl.next_offset = pl.next_offset
             /\ fl.next_byte = pl.next_byte
             /\ \E k \in 0 .. Len(pl.batches) - 1 :
                  /\ Len(fl.batches) = Len(pl.batches) - k
                  /\ \A i \in 1 .. Len(pl.batches) - k : fl.batches[i] = pl.batches[k + i]
                  /\ \A j \in 1 .. k : /\ MaxBytes # NoLimit
                                       /\ pl.next_byte - pl.batches[j].base_byte > MaxBytes
<1>1. pl.batches \in Seq(Batch(ProducerId)) /\ Len(pl.batches) \in Nat /\ Len(pl.batches) > 0
  BY EmptySeq DEF log_ok, Log
<1>2. CASE MaxBytes = NoLimit
  <2>1. enforce_retention(pl) = pl
    BY <1>2 DEF enforce_retention
  <2>2. \A i \in 1 .. Len(pl.batches) : 0 + i = i
    OBVIOUS
  <2>3. 0 \in 0 .. Len(pl.batches) - 1 /\ Len(pl.batches) - 0 = Len(pl.batches)
    BY <1>1
  <2> QED
    BY <2>1, <2>2, <2>3
<1>3. CASE MaxBytes # NoLimit
  <2> DEFINE k == evictions(pl)
             fl == drop_oldest(pl, k)
  <2>1. /\ k \in 0 .. Len(pl.batches) - 1
        /\ \A j \in 0 .. k - 1 : over_budget(pl, j)
    BY <1>1, EvictionsSpec
  <2>2. enforce_retention(pl) = fl
    BY <1>3 DEF enforce_retention
  <2> HIDE DEF k
  <2>3. /\ fl.next_offset = pl.next_offset
        /\ fl.next_byte = pl.next_byte
        /\ Len(fl.batches) = Len(pl.batches) - k
        /\ \A i \in 1 .. Len(pl.batches) - k : fl.batches[i] = pl.batches[k + i]
    BY <2>1, DropOk
  <2>4. ASSUME NEW j \in 1 .. k
        PROVE  pl.next_byte - pl.batches[j].base_byte > MaxBytes
    <3>1. j - 1 \in 0 .. k - 1 /\ j - 1 \in 0 .. Len(pl.batches) - 1 /\ (j - 1) + 1 = j
      BY <1>1, <2>1
    <3>2. bytes_after(pl, j - 1) > MaxBytes
      BY <2>1, <3>1 DEF over_budget
    <3> QED
      BY <3>1, <3>2, BytesAfterDrop
  <2> HIDE DEF fl
  <2> QED
    BY <1>3, <2>1, <2>2, <2>3, <2>4
<1> QED
  BY <1>2, <1>3

\* The batch an append adds to lg.
new_batch(lg, ends, owner, state) ==
  [base_offset |-> lg.next_offset, base_byte |-> lg.next_byte,
   ends |-> ends, transaction |-> owner, state |-> state]

\* fl is lg with its k oldest batches evicted and one batch added at its end,
\* each evicted batch lying further back than the budget reaches.
grown(lg, fl, k, new) ==
  LET n == Len(lg.batches)
  IN  /\ Len(fl.batches) = (n + 1) - k
      /\ \A i \in 1 .. n - k : fl.batches[i] = lg.batches[k + i]
      /\ fl.batches[(n + 1) - k] = new
      /\ \A j \in 1 .. k : /\ MaxBytes # NoLimit
                           /\ fl.next_byte - lg.batches[j].base_byte > MaxBytes

\* One append, seen from the log before it.
LEMMA AppendEffect ==
  ASSUME NEW lg, log_ok(lg),
         NEW ends \in BatchEnds, append_error(ends) = "Ok",
         NEW owner \in ProducerId \cup {NoTransaction},
         NEW state \in BatchState,
         NEW fl, fl = enforce_retention(push_batch(lg, ends, owner, state))
  PROVE  /\ fl.next_offset = lg.next_offset + Len(ends)
         /\ \E k \in 0 .. Len(lg.batches) :
              grown(lg, fl, k, new_batch(lg, ends, owner, state))
<1> DEFINE n == Len(lg.batches)
           new == new_batch(lg, ends, owner, state)
           pl == push_batch(lg, ends, owner, state)
<1>1. log_ok(pl) /\ pl.batches # <<>>
  BY PushOk
<1>2. n \in Nat /\ lg.next_offset \in Nat /\ Len(ends) \in Nat
  BY PartitionLogAssumption DEF log_ok, Log
<1>3. /\ Len(pl.batches) = n + 1
      /\ \A i \in 1 .. n : pl.batches[i] = lg.batches[i]
      /\ pl.batches[n + 1] = new
      /\ pl.next_offset = lg.next_offset + Len(ends)
  <2>1. pl.batches = Append(lg.batches, new) /\ pl.next_offset = lg.next_offset + Len(ends)
    BY DEF push_batch, new_batch
  <2>2. lg.batches \in Seq(Batch(ProducerId)) /\ new \in Batch(ProducerId)
    BY PartitionLogAssumption DEF log_ok, Log, Batch, new_batch
  <2> HIDE DEF new, pl
  <2> QED
    BY <2>1, <2>2, AppendProperties
<1> HIDE DEF pl
<1>4. /\ fl.next_offset = pl.next_offset
      /\ fl.next_byte = pl.next_byte
      /\ \E k \in 0 .. Len(pl.batches) - 1 :
           /\ Len(fl.batches) = Len(pl.batches) - k
           /\ \A i \in 1 .. Len(pl.batches) - k : fl.batches[i] = pl.batches[k + i]
           /\ \A j \in 1 .. k : /\ MaxBytes # NoLimit
                                /\ pl.next_byte - pl.batches[j].base_byte > MaxBytes
  <2>1. fl = enforce_retention(pl)
    BY DEF pl
  <2> QED
    BY <1>1, <2>1, RetentionEffect
<1>5. PICK k \in 0 .. n :
           /\ Len(fl.batches) = (n + 1) - k
           /\ \A i \in 1 .. (n + 1) - k : fl.batches[i] = pl.batches[k + i]
           /\ \A j \in 1 .. k : /\ MaxBytes # NoLimit
                                /\ pl.next_byte - pl.batches[j].base_byte > MaxBytes
  <2>1. (n + 1) - 1 = n
    BY <1>2
  <2> QED
    BY <1>3, <1>4, <2>1
<1>6. \A i \in 1 .. n - k : fl.batches[i] = lg.batches[k + i]
  <2>1. \A i \in 1 .. n - k : i \in 1 .. (n + 1) - k /\ k + i \in 1 .. n
    BY <1>2
  <2> QED
    BY <1>3, <1>5, <2>1
<1>7. fl.batches[(n + 1) - k] = new
  <2>1. (n + 1) - k \in 1 .. (n + 1) - k /\ k + ((n + 1) - k) = n + 1
    BY <1>2
  <2> QED
    BY <1>3, <1>5, <2>1
<1>8. \A j \in 1 .. k : /\ MaxBytes # NoLimit
                        /\ fl.next_byte - lg.batches[j].base_byte > MaxBytes
  <2>1. \A j \in 1 .. k : j \in 1 .. n
    BY <1>2
  <2> QED
    BY <1>3, <1>4, <1>5, <2>1
<1>9. fl.next_offset = lg.next_offset + Len(ends)
  BY <1>3, <1>4
<1> QED
  BY <1>5, <1>6, <1>7, <1>8, <1>9 DEF grown

\* Both action properties hold of one append.
LEMMA AppendStep ==
  ASSUME NEW lg, log_ok(lg),
         NEW ends \in BatchEnds, append_error(ends) = "Ok",
         NEW owner \in ProducerId \cup {NoTransaction},
         NEW state \in BatchState,
         NEW fl, fl = enforce_retention(push_batch(lg, ends, owner, state))
  PROVE  history_kept(lg, fl) /\ evictions_due(lg, fl)
<1> DEFINE n == Len(lg.batches)
<1>1. n \in Nat /\ lg.next_offset \in Nat /\ lg.batches \in Seq(Batch(ProducerId))
  BY DEF log_ok, Log
<1>2. PICK k \in 0 .. n : grown(lg, fl, k, new_batch(lg, ends, owner, state))
  BY AppendEffect
<1>3. /\ Len(fl.batches) = (n + 1) - k
      /\ \A i \in 1 .. n - k : fl.batches[i] = lg.batches[k + i]
      /\ fl.batches[(n + 1) - k].base_offset = lg.next_offset
      /\ \A j \in 1 .. k : /\ MaxBytes # NoLimit
                           /\ fl.next_byte - lg.batches[j].base_byte > MaxBytes
  BY <1>2 DEF grown, new_batch
<1>4. fl.next_offset >= lg.next_offset
  <2>1. fl.next_offset = lg.next_offset + Len(ends) /\ Len(ends) \in Nat
    BY AppendEffect, PartitionLogAssumption
  <2> QED
    BY <1>1, <2>1
<1>5. \A i \in 1 .. n : /\ lg.batches[i].base_offset \in Nat
                        /\ end_offset(lg.batches[i]) \in Nat
                        /\ lg.batches[i].base_offset <= end_offset(lg.batches[i])
  <2> SUFFICES ASSUME NEW i \in 1 .. n
               PROVE  /\ lg.batches[i].base_offset \in Nat
                      /\ end_offset(lg.batches[i]) \in Nat
                      /\ lg.batches[i].base_offset <= end_offset(lg.batches[i])
    OBVIOUS
  <2>1. lg.batches[i] \in Batch(ProducerId)
    BY <1>1, ElementOfSeq
  <2> QED
    BY <2>1 DEF Batch, end_offset, record_count
<1>6. \A i \in 1 .. n : \A j \in 1 .. n :
        i < j => lg.batches[i].base_offset <= lg.batches[j].base_offset
  <2> SUFFICES ASSUME NEW i \in 1 .. n, NEW j \in 1 .. n, i < j
               PROVE  lg.batches[i].base_offset <= lg.batches[j].base_offset
    OBVIOUS
  <2>1. end_offset(lg.batches[i]) <= lg.batches[j].base_offset
    BY DEF log_ok, ordered
  <2> QED
    BY <1>5, <2>1
<1>7. \A i \in 1 .. n : lg.batches[i].base_offset <= lg.next_offset
  <2> SUFFICES ASSUME NEW i \in 1 .. n
               PROVE  lg.batches[i].base_offset <= lg.next_offset
    OBVIOUS
  <2>1. end_offset(lg.batches[i]) <= lg.next_offset
    BY DEF log_ok, ordered
  <2> QED
    BY <1>1, <1>5, <2>1
<1>8. start_offset(fl) = IF k < n THEN lg.batches[k + 1].base_offset ELSE lg.next_offset
  <2>1. fl.batches # <<>>
    <3>1. Len(fl.batches) # 0
      BY <1>1, <1>3
    <3> QED
      BY <3>1
  <2>2. CASE k < n
    <3>1. 1 \in 1 .. n - k
      BY <1>1, <2>2
    <3> QED
      BY <1>3, <2>1, <2>2, <3>1 DEF start_offset
  <2>3. CASE ~(k < n)
    <3>1. (n + 1) - k = 1
      BY <1>1, <2>3
    <3> QED
      BY <1>3, <2>1, <2>3, <3>1 DEF start_offset
  <2> QED
    BY <2>2, <2>3
<1>9. start_offset(lg) = IF n > 0 THEN lg.batches[1].base_offset ELSE lg.next_offset
  BY <1>1, EmptySeq DEF start_offset
<1>10. start_offset(fl) >= start_offset(lg)
  <2>1. CASE n = 0
    BY <1>1, <1>8, <1>9, <2>1
  <2>2. CASE n > 0 /\ k < n
    <3>1. 1 \in 1 .. n /\ k + 1 \in 1 .. n /\ (1 < k + 1 \/ k + 1 = 1)
      BY <1>1, <2>2
    <3> QED
      BY <1>5, <1>6, <1>8, <1>9, <2>2, <3>1
  <2>3. CASE n > 0 /\ ~(k < n)
    <3>1. 1 \in 1 .. n
      BY <1>1, <2>3
    <3> QED
      BY <1>1, <1>5, <1>7, <1>8, <1>9, <2>3, <3>1
  <2> QED
    BY <1>1, <2>1, <2>2, <2>3
<1>11. history_kept(lg, fl)
  <2>1. ASSUME NEW i \in 1 .. Len(fl.batches)
        PROVE  \/ fl.batches[i].base_offset >= lg.next_offset
               \/ \E j \in 1 .. n :
                    /\ fl.batches[i].base_offset = lg.batches[j].base_offset
                    /\ fl.batches[i].ends = lg.batches[j].ends
                    /\ fl.batches[i].transaction = lg.batches[j].transaction
    <3>1. CASE i = (n + 1) - k
      <4>1. fl.batches[i].base_offset = lg.next_offset /\ lg.next_offset \in Nat
        BY <1>1, <1>3, <3>1
      <4> QED
        BY <4>1
    <3>2. CASE i # (n + 1) - k
      <4>0. Len(fl.batches) = (n + 1) - k
        BY <1>3
      <4>1. i \in 1 .. n - k /\ k + i \in 1 .. n
        BY <1>1, <4>0, <3>2
      <4>2. fl.batches[i] = lg.batches[k + i]
        BY <1>3, <4>1
      <4> QED
        BY <4>1, <4>2
    <3> QED
      BY <3>1, <3>2
  <2> QED
    BY <1>4, <1>10, <2>1 DEF history_kept
<1>12. evictions_due(lg, fl)
  <2> SUFFICES ASSUME NEW i \in 1 .. n, lg.batches[i].base_offset < start_offset(fl)
               PROVE  i \in 1 .. k
    BY <1>3 DEF evictions_due
  <2>1. CASE k < n
    <3>1. k + 1 \in 1 .. n
      BY <1>1, <2>1
    <3>2. start_offset(fl) = lg.batches[k + 1].base_offset
      BY <1>8, <2>1
    <3>3. /\ lg.batches[i].base_offset \in Nat /\ lg.batches[k + 1].base_offset \in Nat
          /\ k + 1 < i => lg.batches[k + 1].base_offset <= lg.batches[i].base_offset
      BY <1>5, <1>6, <3>1
    <3>4. ~(k + 1 < i) /\ i # k + 1
      BY <3>2, <3>3
    <3> QED
      BY <1>1, <3>4
  <2>2. CASE ~(k < n)
    BY <1>1, <2>2
  <2> QED
    BY <2>1, <2>2
<1> QED
  BY <1>11, <1>12

\* What a step may do to the log, appends and resolutions together.
LEMMA NextStep == IInv /\ [Next]_vars => [history_kept(log, log') /\ evictions_due(log, log')]_vars
<1> SUFFICES ASSUME IInv, [Next]_vars, ~UNCHANGED vars
             PROVE  history_kept(log, log') /\ evictions_due(log, log')
  OBVIOUS
<1>1. log_ok(log)
  BY DEF IInv
<1>2. ASSUME NEW ends \in BatchEnds, AppendBatch(ends)
      PROVE  history_kept(log, log') /\ evictions_due(log, log')
  <2>1. /\ log' = enforce_retention(push_batch(log, ends, NoTransaction, "Committed"))
        /\ "Committed" \in BatchState /\ append_error(ends) = "Ok"
    BY <1>2 DEF AppendBatch, append, BatchState
  <2> QED
    BY <1>1, <2>1, AppendStep
<1>3. ASSUME NEW ends \in BatchEnds, NEW p \in ProducerId, AppendTransactional(ends, p)
      PROVE  history_kept(log, log') /\ evictions_due(log, log')
  <2>1. /\ log' = enforce_retention(push_batch(log, ends, p, "Pending"))
        /\ "Pending" \in BatchState /\ append_error(ends) = "Ok"
    BY <1>3 DEF AppendTransactional, append_transactional, BatchState
  <2> QED
    BY <1>1, <2>1, AppendStep
<1>4. ASSUME NEW p \in ProducerId, NEW c \in BOOLEAN, CommitTransaction(p, c)
      PROVE  history_kept(log, log') /\ evictions_due(log, log')
  <2> DEFINE n == Len(log.batches)
  <2>1. /\ log'.next_offset = log.next_offset
        /\ Len(log'.batches) = n
        /\ \A i \in 1 .. n :
             /\ log'.batches[i].base_offset = log.batches[i].base_offset
             /\ log'.batches[i].ends = log.batches[i].ends
             /\ log'.batches[i].transaction = log.batches[i].transaction
    BY <1>1, <1>4, ResolveFrame DEF CommitTransaction
  <2>2. /\ log.batches \in Seq(Batch(ProducerId)) /\ n \in Nat /\ log.next_offset \in Nat
        /\ \A i \in 1 .. n : log.batches[i].base_offset \in Nat
    <3>1. log.batches \in Seq(Batch(ProducerId)) /\ log.next_offset \in Nat
      BY <1>1 DEF log_ok, Log
    <3>2. \A i \in 1 .. n : log.batches[i] \in Batch(ProducerId)
      BY <3>1, ElementOfSeq
    <3>3. \A i \in 1 .. n : log.batches[i].base_offset \in Nat
      BY <3>2 DEF Batch
    <3>4. n \in Nat
      BY <3>1
    <3> QED
      BY <3>1, <3>3, <3>4
  <2>3. log'.batches \in Seq(Batch(ProducerId))
    BY <1>1, <1>4, ResolveFrame DEF CommitTransaction, Log
  <2>4. start_offset(log') = start_offset(log)
    <3>1. (log.batches = <<>> <=> n = 0) /\ (log'.batches = <<>> <=> n = 0)
      BY <2>1, <2>2, <2>3, EmptySeq
    <3>2. n # 0 => log'.batches[1].base_offset = log.batches[1].base_offset
      BY <2>1, <2>2
    <3> QED
      BY <2>1, <3>1, <3>2 DEF start_offset
  <2>5. start_offset(log) \in Nat
    <3>1. log.batches # <<>> => 1 \in 1 .. n
      BY <2>2, EmptySeq
    <3> QED
      BY <2>2, <3>1 DEF start_offset
  <2>6. \A i \in 1 .. n : ~(log.batches[i].base_offset < start_offset(log))
    <3> SUFFICES ASSUME NEW i \in 1 .. n
                 PROVE  ~(log.batches[i].base_offset < start_offset(log))
      OBVIOUS
    <3>1. start_offset(log) = log.batches[1].base_offset /\ 1 \in 1 .. n
      BY <2>2, EmptySeq DEF start_offset
    <3>2. CASE i = 1
      BY <2>2, <3>1, <3>2
    <3>3. CASE i # 1
      <4>1. end_offset(log.batches[1]) <= log.batches[i].base_offset
        BY <1>1, <2>2, <3>1, <3>3 DEF log_ok, ordered
      <4>2. log.batches[1] \in Batch(ProducerId)
        BY <2>2, <3>1, ElementOfSeq
      <4>3. end_offset(log.batches[1]) \in Nat /\ log.batches[1].base_offset <= end_offset(log.batches[1])
        BY <4>2 DEF Batch, end_offset, record_count
      <4> QED
        BY <2>2, <3>1, <4>1, <4>3
    <3> QED
      BY <3>2, <3>3
  <2>7. history_kept(log, log')
    BY <2>1, <2>2, <2>4, <2>5 DEF history_kept
  <2>8. evictions_due(log, log')
    BY <2>4, <2>6 DEF evictions_due
  <2> QED
    BY <2>7, <2>8
<1> QED
  BY <1>2, <1>3, <1>4 DEF Next, RejectAppend, vars

\* No call rewrites a retained batch or moves either end of the log back.
THEOREM HistoryKept == Spec => HistoryImmutable
<1> QED
  BY LogInvariant, NextStep, PTL DEF Spec, HistoryImmutable

\* Retention never evicts a batch the budget has room for.
THEOREM EvictionMinimal == Spec => EvictsOnlyWhenOver
<1> QED
  BY LogInvariant, NextStep, PTL DEF Spec, EvictsOnlyWhenOver
=============================================================================
