----------------------- MODULE PartitionLogRefinement -----------------------
(***************************************************************************)
(* A TLAPS proof that PartitionLog implements OffsetWindow: for every set  *)
(* of producers and batches and for every byte budget, the batches of the  *)
(* log, its retention and its byte counter are invisible to a caller, who  *)
(* sees a window of offsets that grows by whole appends at one end.        *)
(*                                                                         *)
(* The argument: by the tiling of LogInvariant each retained offset lies   *)
(* in exactly one batch (Covered, RecordOf), so the record at an offset is *)
(* a function of the batch that holds it.  An append keeps every batch     *)
(* that is not evicted (AppendEffect), hence every record below the old    *)
(* end (AppendRecords); a resolution changes only the states of batches of *)
(* one producer (ResolveRecords).                                          *)
(***************************************************************************)
EXTENDS PartitionLogProofs

\* Batch b holds offset o.
holds(b, o) == b.base_offset <= o /\ o < end_offset(b)

\* The record that batch b has for offset o, and record_at for any log.
entry(b, o) ==
  [size  |-> record_size(b, o - b.base_offset + 1),
   owner |-> b.transaction,
   state |-> b.state]

the_record(lg, o) ==
  entry(lg.batches[CHOOSE i \in 1 .. Len(lg.batches) : holds(lg.batches[i], o)], o)

retained(lg) == start_offset(lg) .. lg.next_offset - 1

-----------------------------------------------------------------------------
\* The numbers in a well-formed log.
LEMMA LogNumbers ==
  ASSUME NEW lg, log_ok(lg)
  PROVE  /\ Len(lg.batches) \in Nat /\ lg.next_offset \in Nat
         /\ lg.batches = <<>> <=> Len(lg.batches) = 0
         /\ \A i \in 1 .. Len(lg.batches) :
              /\ lg.batches[i] \in Batch(ProducerId)
              /\ lg.batches[i].base_offset \in Nat
              /\ end_offset(lg.batches[i]) \in Nat
              /\ lg.batches[i].base_offset <= end_offset(lg.batches[i])
         /\ start_offset(lg) \in Nat
         /\ start_offset(lg) <= lg.next_offset
<1>1. lg.batches \in Seq(Batch(ProducerId)) /\ lg.next_offset \in Nat
  BY DEF log_ok, Log
<1>2. Len(lg.batches) \in Nat /\ (lg.batches = <<>> <=> Len(lg.batches) = 0)
  BY <1>1, EmptySeq
<1>3. ASSUME NEW i \in 1 .. Len(lg.batches)
      PROVE  /\ lg.batches[i] \in Batch(ProducerId)
             /\ lg.batches[i].base_offset \in Nat
             /\ end_offset(lg.batches[i]) \in Nat
             /\ lg.batches[i].base_offset <= end_offset(lg.batches[i])
  <2>1. lg.batches[i] \in Batch(ProducerId)
    BY <1>1, ElementOfSeq
  <2> QED
    BY <2>1 DEF Batch, end_offset, record_count
<1>4. start_offset(lg) \in Nat /\ start_offset(lg) <= lg.next_offset
  <2>1. CASE lg.batches = <<>>
    BY <1>1, <2>1 DEF start_offset
  <2>2. CASE lg.batches # <<>>
    <3>1. 1 \in 1 .. Len(lg.batches) /\ start_offset(lg) = lg.batches[1].base_offset
      BY <1>2, <2>2 DEF start_offset
    <3>2. end_offset(lg.batches[1]) <= lg.next_offset
      BY <3>1 DEF log_ok, ordered
    <3> QED
      BY <1>1, <1>3, <3>1, <3>2
  <2> QED
    BY <2>1, <2>2
<1> QED
  BY <1>1, <1>2, <1>3, <1>4

\* Every retained offset is held by some batch: by the first that ends above it.
LEMMA Covered ==
  ASSUME NEW lg, log_ok(lg), NEW o \in retained(lg)
  PROVE  \E i \in 1 .. Len(lg.batches) : holds(lg.batches[i], o)
<1> DEFINE n == Len(lg.batches)
           above == {i \in 1 .. n : o < end_offset(lg.batches[i])}
<1>1. /\ n \in Nat /\ lg.next_offset \in Nat /\ start_offset(lg) \in Nat
      /\ lg.batches = <<>> <=> n = 0
      /\ \A i \in 1 .. n : lg.batches[i].base_offset \in Nat /\ end_offset(lg.batches[i]) \in Nat
  BY LogNumbers
<1>2. o \in Nat /\ start_offset(lg) <= o /\ o < lg.next_offset
  BY <1>1 DEF retained
<1>3. n > 0
  <2>1. CASE n = 0
    <3>1. start_offset(lg) = lg.next_offset
      BY <1>1, <2>1 DEF start_offset
    <3> QED
      BY <1>1, <1>2, <3>1
  <2> QED
    BY <1>1, <2>1
<1>4. n \in above
  <2>1. lg.next_offset = end_offset(lg.batches[n])
    BY <1>3 DEF log_ok, offsets_tile
  <2> QED
    BY <1>1, <1>2, <1>3, <2>1
<1>5. above \in SUBSET Nat /\ above # {}
  BY <1>4
<1> HIDE DEF above
<1>6. PICK m \in above : \A t \in above : m <= t
  BY <1>5, LeastElement
<1>7. m \in 1 .. n /\ o < end_offset(lg.batches[m])
  BY <1>6 DEF above
<1>8. lg.batches[m].base_offset <= o
  <2>1. CASE m = 1
    <3>1. start_offset(lg) = lg.batches[1].base_offset
      BY <1>1, <1>3 DEF start_offset
    <3> QED
      BY <1>2, <2>1, <3>1
  <2>2. CASE m # 1
    <3>1. m - 1 \in 1 .. n - 1 /\ m - 1 \in 1 .. n /\ (m - 1) + 1 = m /\ ~(m <= m - 1)
      BY <1>1, <1>7, <2>2
    <3>2. ~(o < end_offset(lg.batches[m - 1]))
      BY <1>6, <3>1 DEF above
    <3>3. lg.batches[m].base_offset = end_offset(lg.batches[m - 1])
      BY <3>1 DEF log_ok, offsets_tile
    <3> QED
      BY <1>1, <1>2, <3>1, <3>2, <3>3
  <2> QED
    BY <2>1, <2>2
<1> QED
  BY <1>7, <1>8 DEF holds

\* No two batches hold one offset, so the record at it is that of its batch.
LEMMA RecordOf ==
  ASSUME NEW lg, log_ok(lg), NEW o \in Nat,
         NEW i \in 1 .. Len(lg.batches), holds(lg.batches[i], o)
  PROVE  the_record(lg, o) = entry(lg.batches[i], o)
<1> DEFINE n == Len(lg.batches)
<1>1. \A j \in 1 .. n : lg.batches[j].base_offset \in Nat /\ end_offset(lg.batches[j]) \in Nat
  BY LogNumbers
<1>2. n \in Nat
  BY LogNumbers
<1>3. ASSUME NEW a \in 1 .. n, NEW b \in 1 .. n, a < b
      PROVE  ~(holds(lg.batches[a], o) /\ holds(lg.batches[b], o))
  <2>1. end_offset(lg.batches[a]) <= lg.batches[b].base_offset
    BY <1>3 DEF log_ok, ordered
  <2> QED
    BY <1>1, <2>1 DEF holds
<1>4. ASSUME NEW j \in 1 .. n, holds(lg.batches[j], o)
      PROVE  j = i
  BY <1>2, <1>3, <1>4
<1>5. (CHOOSE j \in 1 .. n : holds(lg.batches[j], o)) = i
  BY <1>4
<1> QED
  BY <1>5 DEF the_record

-----------------------------------------------------------------------------
\* What an append does to the window: the end advances by the records of the
\* batch, the start moves no further than the old end, the records that stay are
\* those that were there, and the others are the ones of the batch.
LEMMA AppendRecords ==
  ASSUME NEW lg, log_ok(lg),
         NEW ends \in BatchEnds, append_error(ends) = "Ok",
         NEW owner \in ProducerId \cup {NoTransaction},
         NEW state, state = IF owner = NoTransaction THEN "Committed" ELSE "Pending",
         NEW fl, fl = enforce_retention(push_batch(lg, ends, owner, state))
  PROVE  /\ fl.next_offset = lg.next_offset + Len(ends)
         /\ start_offset(fl) \in start_offset(lg) .. lg.next_offset
         /\ \A o \in retained(fl) :
              the_record(fl, o) = IF o < lg.next_offset
                                  THEN the_record(lg, o)
                                  ELSE Window!appended(ends, o - lg.next_offset + 1, owner)
<1> DEFINE n == Len(lg.batches)
           new == new_batch(lg, ends, owner, state)
<1>1. state \in BatchState
  BY DEF BatchState
<1>2. log_ok(fl)
  BY <1>1, PushOk, RetentionOk
<1>3. fl.next_offset = lg.next_offset + Len(ends) /\ Len(ends) \in Nat
  BY <1>1, AppendEffect, PartitionLogAssumption
<1>4. PICK k \in 0 .. n : grown(lg, fl, k, new)
  BY <1>1, AppendEffect
<1>5. /\ Len(fl.batches) = (n + 1) - k
      /\ \A i \in 1 .. n - k : fl.batches[i] = lg.batches[k + i]
      /\ fl.batches[(n + 1) - k] = new
  BY <1>4 DEF grown
<1>6. /\ new.base_offset = lg.next_offset /\ new.ends = ends
      /\ new.transaction = owner /\ new.state = state
      /\ end_offset(new) = lg.next_offset + Len(ends)
  BY DEF new_batch, end_offset, record_count
<1> HIDE DEF new
<1>7. n \in Nat /\ lg.next_offset \in Nat /\ start_offset(lg) \in Nat
  BY LogNumbers
<1>8. start_offset(fl) \in start_offset(lg) .. lg.next_offset
  <2>1. start_offset(fl) \in Nat /\ (fl.batches = <<>> <=> Len(fl.batches) = 0)
    BY <1>2, LogNumbers
  <2>2. start_offset(fl) >= start_offset(lg)
    BY <1>1, AppendStep DEF history_kept
  <2>3. start_offset(fl) <= lg.next_offset
    <3>1. start_offset(fl) = fl.batches[1].base_offset
      BY <1>5, <1>7, <2>1 DEF start_offset
    <3>2. CASE k = n
      BY <1>5, <1>6, <1>7, <3>1, <3>2
    <3>3. CASE k # n
      <4>1. 1 \in 1 .. n - k /\ k + 1 \in 1 .. n
        BY <1>7, <3>3
      <4>2. end_offset(lg.batches[k + 1]) <= lg.next_offset
        BY <4>1 DEF log_ok, ordered
      <4>3. /\ lg.batches[k + 1].base_offset \in Nat /\ end_offset(lg.batches[k + 1]) \in Nat
            /\ lg.batches[k + 1].base_offset <= end_offset(lg.batches[k + 1])
        BY <4>1, LogNumbers
      <4>4. fl.batches[1] = lg.batches[k + 1]
        BY <1>5, <4>1
      <4>5. start_offset(fl) = lg.batches[k + 1].base_offset
        BY <3>1, <4>4
      <4> QED
        BY <1>7, <4>2, <4>3, <4>5
    <3> QED
      BY <3>2, <3>3
  <2> QED
    BY <1>7, <2>1, <2>2, <2>3
<1>9. ASSUME NEW o \in retained(fl), o < lg.next_offset
      PROVE  the_record(fl, o) = the_record(lg, o)
  <2>1. o \in Nat
    BY <1>2, LogNumbers DEF retained
  <2>2. PICK i \in 1 .. Len(fl.batches) : holds(fl.batches[i], o)
    BY <1>2, Covered
  <2>3. i # (n + 1) - k
    <3>1. fl.batches[i].base_offset <= o
      BY <2>2 DEF holds
    <3>2. i = (n + 1) - k => fl.batches[i].base_offset = lg.next_offset
      BY <1>5, <1>6
    <3> QED
      BY <1>7, <1>9, <2>1, <3>1, <3>2
  <2>4. i \in 1 .. n - k /\ k + i \in 1 .. n
    <3>1. i \in 1 .. (n + 1) - k
      BY <1>5
    <3> QED
      BY <1>7, <2>3, <3>1
  <2>5. fl.batches[i] = lg.batches[k + i]
    BY <1>5, <2>4
  <2>6. the_record(fl, o) = entry(fl.batches[i], o)
    BY <1>2, <2>1, <2>2, RecordOf
  <2>7. the_record(lg, o) = entry(lg.batches[k + i], o)
    BY <2>1, <2>2, <2>4, <2>5, RecordOf
  <2> QED
    BY <2>5, <2>6, <2>7
<1>10. ASSUME NEW o \in retained(fl), ~(o < lg.next_offset)
       PROVE  the_record(fl, o) = Window!appended(ends, o - lg.next_offset + 1, owner)
  <2>1. o \in Nat /\ o < fl.next_offset
    BY <1>2, LogNumbers DEF retained
  <2>2. (n + 1) - k \in 1 .. Len(fl.batches)
    BY <1>5, <1>7
  <2>3. holds(fl.batches[(n + 1) - k], o)
    <3>1. /\ fl.batches[(n + 1) - k].base_offset = lg.next_offset
          /\ end_offset(fl.batches[(n + 1) - k]) = fl.next_offset
      BY <1>3, <1>5, <1>6
    <3>2. lg.next_offset <= o
      BY <1>7, <1>10, <2>1
    <3> QED
      BY <2>1, <3>1, <3>2 DEF holds
  <2>4. the_record(fl, o) = entry(new, o)
    BY <1>2, <1>5, <2>1, <2>2, <2>3, RecordOf
  <2> QED
    BY <1>6, <2>4 DEF entry, record_size, Window!appended
<1> QED
  BY <1>3, <1>8, <1>9, <1>10

\* What a resolution does to the window: both ends stay, and a record takes the
\* outcome exactly if the producer owns it.
LEMMA ResolveRecords ==
  ASSUME NEW lg, log_ok(lg), NEW p \in ProducerId, NEW c \in BOOLEAN,
         NEW rl, rl = commit_transaction(lg, p, c)
  PROVE  /\ rl.next_offset = lg.next_offset
         /\ start_offset(rl) = start_offset(lg)
         /\ \A o \in retained(lg) :
              the_record(rl, o) =
                IF the_record(lg, o).owner = p
                THEN [the_record(lg, o) EXCEPT !.state = IF c THEN "Committed" ELSE "Aborted"]
                ELSE the_record(lg, o)
<1> DEFINE n == Len(lg.batches)
           outcome == IF c THEN "Committed" ELSE "Aborted"
<1>1. /\ n \in Nat
      /\ lg.batches = <<>> <=> n = 0
      /\ \A i \in 1 .. n : lg.batches[i] \in Batch(ProducerId)
  BY LogNumbers
<1>2. /\ log_ok(rl) /\ rl.next_offset = lg.next_offset /\ Len(rl.batches) = n
      /\ \A i \in 1 .. n : /\ rl.batches[i].base_offset = lg.batches[i].base_offset
                           /\ rl.batches[i].ends = lg.batches[i].ends
  BY ResolveFrame, ResolveOk
<1>3. start_offset(rl) = start_offset(lg)
  <2>1. rl.batches = <<>> <=> n = 0
    BY <1>2, LogNumbers
  <2>2. n # 0 => 1 \in 1 .. n
    BY <1>1
  <2> QED
    BY <1>1, <1>2, <2>1, <2>2 DEF start_offset
<1>4. \A i \in 1 .. n : rl.batches[i] = IF lg.batches[i].transaction = p
                                        THEN [lg.batches[i] EXCEPT !.state = outcome]
                                        ELSE lg.batches[i]
  <2>1. lg \in Log(ProducerId)
    BY DEF log_ok
  <2> QED
    BY <2>1 DEF commit_transaction, Log
<1>5. ASSUME NEW o \in retained(lg)
      PROVE  the_record(rl, o) = IF the_record(lg, o).owner = p
                                 THEN [the_record(lg, o) EXCEPT !.state = outcome]
                                 ELSE the_record(lg, o)
  <2>1. o \in Nat
    BY LogNumbers DEF retained
  <2>2. PICK i \in 1 .. n : holds(lg.batches[i], o)
    BY Covered
  <2>3. holds(rl.batches[i], o)
    BY <1>2, <2>2 DEF holds, end_offset, record_count
  <2>4. the_record(lg, o) = entry(lg.batches[i], o)
    BY <2>1, <2>2, RecordOf
  <2>5. the_record(rl, o) = entry(rl.batches[i], o)
    BY <1>2, <2>1, <2>3, RecordOf
  <2>6. CASE lg.batches[i].transaction = p
    <3>1. rl.batches[i].state = outcome /\ rl.batches[i].transaction = p
      BY <1>1, <1>4, <2>6 DEF Batch
    <3>2. record_size(rl.batches[i], o - rl.batches[i].base_offset + 1)
            = record_size(lg.batches[i], o - lg.batches[i].base_offset + 1)
      BY <1>2 DEF record_size
    <3> QED
      BY <2>4, <2>5, <2>6, <3>1, <3>2 DEF entry
  <2>7. CASE lg.batches[i].transaction # p
    <3>1. rl.batches[i] = lg.batches[i]
      BY <1>4, <2>7
    <3>2. the_record(lg, o).owner # p
      BY <2>4, <2>7 DEF entry
    <3> QED
      BY <2>4, <2>5, <3>1, <3>2
  <2> QED
    BY <2>6, <2>7
<1> QED
  BY <1>2, <1>3, <1>5

-----------------------------------------------------------------------------
\* record_at, which the refinement mapping uses, is the_record of the log.
LEMMA RecordAt == \A o : record_at(o) = the_record(log, o) /\ record_at(o)' = the_record(log', o)
BY DEF record_at, the_record, entry, holds

\* An accepted append is an Extend of the window.
LEMMA AppendExtends ==
  ASSUME IInv,
         NEW ends \in BatchEnds, append_error(ends) = "Ok",
         NEW owner \in ProducerId \cup {NoTransaction},
         NEW state, state = IF owner = NoTransaction THEN "Committed" ELSE "Pending",
         log' = enforce_retention(push_batch(log, ends, owner, state))
  PROVE  Window!Extend(ends, owner)
<1>1. log_ok(log)
  BY DEF IInv
<1>2. /\ log'.next_offset = log.next_offset + Len(ends)
      /\ start_offset(log') \in start_offset(log) .. log.next_offset
      /\ \A o \in retained(log') :
           the_record(log', o) = IF o < log.next_offset
                                 THEN the_record(log, o)
                                 ELSE Window!appended(ends, o - log.next_offset + 1, owner)
  BY <1>1, AppendRecords
<1>3. start_offset(log) \in Nat /\ log.next_offset \in Nat
  BY <1>1, LogNumbers
<1>4. ends # <<>>
  BY DEF append_error
<1> DEFINE old == [o \in start_offset(log) .. log.next_offset - 1 |-> record_at(o)]
<1>5. ASSUME NEW o \in retained(log')
      PROVE  record_at(o)' = IF o < log.next_offset
                             THEN old[o]
                             ELSE Window!appended(ends, o - log.next_offset + 1, owner)
  <2>1. o < log.next_offset => old[o] = the_record(log, o)
    <3> SUFFICES ASSUME o < log.next_offset PROVE old[o] = the_record(log, o)
      OBVIOUS
    <3>1. o \in start_offset(log) .. log.next_offset - 1
      BY <1>2, <1>3 DEF retained
    <3> QED
      BY <3>1, RecordAt
  <2>2. record_at(o)' = the_record(log', o)
    BY RecordAt
  <2> HIDE DEF old
  <2> QED
    BY <1>2, <2>1, <2>2
<1>6. [o \in start_offset(log') .. log'.next_offset - 1 |-> record_at(o)']
        = [o \in start_offset(log') .. log'.next_offset - 1 |->
             IF o < log.next_offset THEN old[o]
             ELSE Window!appended(ends, o - log.next_offset + 1, owner)]
  BY <1>5 DEF retained
<1> QED
  BY <1>2, <1>4, <1>6 DEF Window!Extend

\* A resolution is a Resolve of the window.
LEMMA CommitResolves ==
  ASSUME IInv, NEW p \in ProducerId, NEW c \in BOOLEAN, CommitTransaction(p, c)
  PROVE  Window!Resolve(p, c)
<1>1. log_ok(log) /\ log' = commit_transaction(log, p, c)
  BY DEF IInv, CommitTransaction
<1> DEFINE old == [o \in start_offset(log) .. log.next_offset - 1 |-> record_at(o)]
           resolved(r) == IF r.owner = p
                          THEN [r EXCEPT !.state = IF c THEN "Committed" ELSE "Aborted"]
                          ELSE r
<1>2. /\ log'.next_offset = log.next_offset
      /\ start_offset(log') = start_offset(log)
      /\ \A o \in retained(log) : the_record(log', o) = resolved(the_record(log, o))
  BY <1>1, ResolveRecords
<1> HIDE DEF resolved
<1>3. \A o \in start_offset(log) .. log.next_offset - 1 : record_at(o)' = resolved(old[o])
  BY <1>2, RecordAt DEF retained
<1>4. [o \in start_offset(log') .. log'.next_offset - 1 |-> record_at(o)']
        = [o \in start_offset(log) .. log.next_offset - 1 |-> resolved(old[o])]
  BY <1>2, <1>3
<1> QED
  BY <1>2, <1>4 DEF Window!Resolve, resolved

\* Every step of the log is a step of the window or leaves it as it is.
LEMMA StepMaps == IInv /\ [Next]_vars => [Window!Next]_(Window!windowVars)
<1> SUFFICES ASSUME IInv, [Next]_vars PROVE [Window!Next]_(Window!windowVars)
  OBVIOUS
<1>1. ASSUME NEW ends \in BatchEnds, AppendBatch(ends)
      PROVE  Window!Next
  <2>1. Window!Extend(ends, NoTransaction)
    BY <1>1, AppendExtends DEF AppendBatch, append
  <2> QED
    BY <2>1 DEF Window!Next
<1>2. ASSUME NEW ends \in BatchEnds, NEW p \in ProducerId, AppendTransactional(ends, p)
      PROVE  Window!Next
  <2>1. Window!Extend(ends, p)
    BY <1>2, AppendExtends, PartitionLogAssumption DEF AppendTransactional, append_transactional
  <2> QED
    BY <2>1 DEF Window!Next
<1>3. ASSUME NEW p \in ProducerId, NEW c \in BOOLEAN, CommitTransaction(p, c)
      PROVE  Window!Next
  BY <1>3, CommitResolves DEF Window!Next
<1>4. CASE UNCHANGED log
  BY <1>4 DEF Window!windowVars, start_offset, record_at
<1> QED
  BY <1>1, <1>2, <1>3, <1>4 DEF Next, RejectAppend, vars

\* The log implements the window its callers see: append, append_transactional,
\* commit_transaction and enforce_retention never do anything to a record that
\* OffsetWindow does not allow, whatever the budget.
THEOREM LogImplementsWindow == Spec => ImplementsWindow
<1>1. Init => Window!Init
  <2> SUFFICES ASSUME Init PROVE Window!Init
    OBVIOUS
  <2>1. start_offset(log) = 0 /\ log.next_offset = 0
    BY DEF Init, new_log, start_offset
  <2> QED
    BY <2>1 DEF Window!Init
<1> QED
  BY <1>1, LogInvariant, StepMaps, PTL DEF Spec, ImplementsWindow, Window!Spec
=============================================================================
