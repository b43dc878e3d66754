-------------------- MODULE TransactionCoordinatorProofs --------------------
(***************************************************************************)
(* Fencing, uniqueness of producer ids and the bookkeeping of enlistments, *)
(* for any number of clients, transactional ids and partitions, and for    *)
(* any width of the epoch and id counters.                                 *)
(***************************************************************************)
EXTENDS TransactionCoordinator, TLAPS

txn(t) == coordinator.transactions[t]
Known == DOMAIN coordinator.transactions

\* An instance holds an identity of a known id, no newer than the current one;
\* holding the current one, below the last epoch, it initialised last.
HeldOk ==
  \A i \in Instance : held[i] # NoIdentity =>
    /\ held[i].tid \in Known
    /\ held[i].identity.id = txn(held[i].tid).identity.id
    /\ held[i].identity.epoch <= txn(held[i].tid).identity.epoch
    /\ held[i].identity.epoch = txn(held[i].tid).identity.epoch /\ held[i].identity.epoch < MaxEpoch
         => latest[held[i].tid] = i

\* Until next_id saturates, every issued id is below it and no id is shared.
IdsOk ==
  coordinator.next_id < MaxProducerId =>
    /\ \A t \in Known : txn(t).identity.id < coordinator.next_id
    /\ \A t, u \in Known : txn(t).identity.id = txn(u).identity.id => t = u

\* An enlistment belongs to a known id and to an identity no newer than the
\* current one.
EnlistedOk ==
  \A e \in enlisted : /\ e.tid \in Known
                      /\ e.identity \in Identity
                      /\ e.identity.epoch <= txn(e.tid).identity.epoch

EpochsOk == \A t \in Known : txn(t).identity.epoch <= MaxEpoch

\* The two halves of CompletionExact.
PartitionsExact ==
  \A t \in Known : txn(t).identity.epoch < MaxEpoch =>
    \A p \in Partition :
      p \in txn(t).partitions
        <=> [tid |-> t, identity |-> txn(t).identity, partition |-> p] \in enlisted
OffsetsExact == promised = [t \in Known |-> txn(t).offsets]

IInv ==
  /\ TypeOK /\ DOMAIN latest = Known
  /\ HeldOk /\ IdsOk /\ EpochsOk /\ EnlistedOk
  /\ OngoingIffEnlisted /\ PartitionsExact /\ OffsetsExact

-----------------------------------------------------------------------------
\* A refusal of transaction_mut turned around: an accepted call names a known
\* transactional id and carries its current identity.
LEMMA AcceptedIdentity ==
  ASSUME NEW c, NEW tid, NEW identity, transaction_error(c, tid, identity) = "Ok"
  PROVE  tid \in DOMAIN c.transactions /\ c.transactions[tid].identity = identity
BY DEF transaction_error, known

\* Nothing is known, held or enlisted at the start.
LEMMA InitOk == Init => IInv
<1> SUFFICES ASSUME Init PROVE IInv
  OBVIOUS
<1>1. Known = {} /\ coordinator.next_id = 1
  BY DEF Init, new_coordinator, Known
<1>2. TypeOK /\ DOMAIN latest = Known
  BY <1>1 DEF Init, TypeOK, Known
<1> QED
  BY <1>1, <1>2 DEF Init, IInv, HeldOk, IdsOk, EpochsOk, EnlistedOk,
                    OngoingIffEnlisted, PartitionsExact, OffsetsExact, Known

\* An init gives its caller a newer epoch, or a fresh id, and enlists nothing.
LEMMA InitProducerOk ==
  ASSUME IInv, NEW i \in Instance, NEW tid \in TransactionalId, InitProducer(i, tid)
  PROVE  IInv'
<1> DEFINE new == issued_identity(coordinator, tid)
           fresh == [identity |-> new, state |-> "Empty", partitions |-> {}, offsets |-> <<>>]
<1>1. /\ coordinator.next_id \in Nat
      /\ \A t \in Known : txn(t) \in Transaction /\ txn(t).identity \in Identity
      /\ Known \subseteq TransactionalId
  BY DEF IInv, TypeOK, Known, txn, Transaction
<1>2. /\ tid \in Known => /\ new = [id |-> txn(tid).identity.id, epoch |-> new.epoch]
                          /\ new.epoch \in Nat /\ new.epoch <= MaxEpoch
                          /\ txn(tid).identity.epoch <= new.epoch
                          /\ txn(tid).identity.epoch < MaxEpoch =>
                               txn(tid).identity.epoch < new.epoch
      /\ tid \notin Known => new = [id |-> coordinator.next_id, epoch |-> 0]
  BY <1>1, TxnAssumption
     DEF issued_identity, saturating_inc, known, Known, txn, IInv, EpochsOk, Identity
<1>3. new \in Identity /\ new.epoch <= MaxEpoch
  BY <1>1, <1>2, TxnAssumption DEF Identity
<1>4. /\ Known' = Known \cup {tid}
      /\ txn(tid)' = fresh
      /\ \A t \in Known : t # tid => txn(t)' = txn(t)
  BY DEF InitProducer, init, with_transaction, Known, txn
<1>5. coordinator'.next_id = IF tid \in Known THEN coordinator.next_id
                             ELSE saturating_inc(coordinator.next_id, MaxProducerId)
  BY DEF InitProducer, init, known, Known
<1>6. /\ held[i]' = [tid |-> tid, identity |-> new]
      /\ \A j \in Instance : j # i => held[j]' = held[j]
      /\ latest'[tid] = i /\ DOMAIN latest' = Known \cup {tid}
      /\ \A t \in Known : t # tid => latest'[t] = latest[t]
      /\ enlisted' = enlisted
  BY DEF InitProducer, IInv, TypeOK
<1> HIDE DEF new
<1>7. fresh \in Transaction
  BY <1>3 DEF Transaction
<1>8. TypeOK'
  <2>1. coordinator'.next_id \in Nat
    BY <1>1, <1>5, TxnAssumption DEF saturating_inc
  <2>2. held' \in [Instance -> [tid : TransactionalId, identity : Identity] \cup {NoIdentity}]
    BY <1>3 DEF InitProducer, IInv, TypeOK, new
  <2>3. \A t \in Known' : txn(t)' \in Transaction
    BY <1>1, <1>4, <1>7
  <2> QED
    BY <1>1, <1>4, <2>1, <2>2, <2>3 DEF TypeOK, Known, txn
<1>9. HeldOk'
  <2> SUFFICES ASSUME NEW j \in Instance, held'[j] # NoIdentity,
                      NEW t, t = held'[j].tid, NEW identity, identity = held'[j].identity
               PROVE  /\ t \in Known'
                      /\ identity.id = txn(t)'.identity.id
                      /\ identity.epoch <= txn(t)'.identity.epoch
                      /\ identity.epoch = txn(t)'.identity.epoch /\ identity.epoch < MaxEpoch
                           => latest'[t] = j
    BY DEF HeldOk, txn
  <2>1. CASE j = i
    <3>1. t = tid /\ identity = new
      BY <1>6, <2>1
    <3> QED
      BY <1>3, <1>4, <1>6, <2>1, <3>1 DEF Identity
  <2>2. CASE j # i
    <3>1. t = held[j].tid /\ identity = held[j].identity /\ held[j] # NoIdentity
      BY <1>6, <2>2
    <3>2. /\ t \in Known
          /\ identity.id = txn(t).identity.id
          /\ identity.epoch <= txn(t).identity.epoch
          /\ identity.epoch = txn(t).identity.epoch /\ identity.epoch < MaxEpoch
               => latest[t] = j
      BY <3>1 DEF IInv, HeldOk
    <3>3. CASE t # tid
      BY <1>4, <1>6, <3>2, <3>3
    <3>4. CASE t = tid
      <4>1. identity \in Identity
        BY <3>1 DEF IInv, TypeOK
      <4>2. identity.epoch \in Nat /\ txn(tid).identity.epoch \in Nat
        BY <1>1, <3>2, <3>4, <4>1 DEF Identity
      <4>3. identity.epoch <= new.epoch
        BY <1>2, <3>2, <3>4, <4>2
      <4>4. ~(identity.epoch = new.epoch /\ identity.epoch < MaxEpoch)
        BY <1>2, <3>2, <3>4, <4>2, TxnAssumption
      <4>5. new.id = txn(tid).identity.id
        BY <1>2, <3>2, <3>4
      <4> QED
        BY <1>4, <3>2, <3>4, <4>3, <4>4, <4>5
    <3> QED
      BY <3>3, <3>4
  <2> QED
    BY <2>1, <2>2
<1>10. IdsOk'
  <2> SUFFICES ASSUME coordinator'.next_id < MaxProducerId
               PROVE  /\ \A t \in Known' : txn(t)'.identity.id < coordinator'.next_id
                      /\ \A t, u \in Known' :
                           txn(t)'.identity.id = txn(u)'.identity.id => t = u
    BY DEF IdsOk, txn
  <2>1. \A t \in Known : txn(t).identity.id \in Nat
    BY <1>1 DEF Identity
  <2>2. CASE tid \in Known
    <3>1. \A t \in Known' : t \in Known /\ txn(t)'.identity.id = txn(t).identity.id
      BY <1>2, <1>4, <2>2
    <3> QED
      BY <1>5, <2>2, <3>1 DEF IInv, IdsOk
  <2>3. CASE tid \notin Known
    <3>1. coordinator.next_id < MaxProducerId /\ coordinator'.next_id = coordinator.next_id + 1
      BY <1>1, <1>5, <2>3, TxnAssumption DEF saturating_inc
    <3>2. \A t \in Known : txn(t)' = txn(t) /\ txn(t).identity.id < coordinator.next_id
      BY <1>4, <2>3, <3>1 DEF IInv, IdsOk
    <3>3. txn(tid)'.identity.id = coordinator.next_id
      BY <1>2, <1>4, <2>3
    <3>4. \A t \in Known' : txn(t)'.identity.id < coordinator'.next_id
      BY <1>1, <1>4, <2>1, <3>1, <3>2, <3>3
    <3>5. \A t, u \in Known : txn(t)'.identity.id = txn(u)'.identity.id => t = u
      BY <3>1, <3>2 DEF IInv, IdsOk
    <3>6. \A t \in Known : txn(t)'.identity.id # txn(tid)'.identity.id
      BY <1>1, <2>1, <3>2, <3>3
    <3> QED
      BY <1>4, <3>4, <3>5, <3>6
  <2> QED
    BY <2>2, <2>3
<1>11. EpochsOk'
  <2>1. \A t \in Known' : txn(t)'.identity.epoch <= MaxEpoch
    BY <1>3, <1>4 DEF IInv, EpochsOk
  <2> QED
    BY <2>1 DEF EpochsOk, txn
<1>12. \A e \in enlisted : /\ e.tid \in Known /\ e.identity \in Identity
                           /\ e.identity.epoch <= txn(e.tid).identity.epoch
  BY DEF IInv, EnlistedOk
<1>13. EnlistedOk'
  <2> SUFFICES ASSUME NEW e \in enlisted
               PROVE  e.tid \in Known' /\ e.identity.epoch <= txn(e.tid)'.identity.epoch
    BY <1>6, <1>12 DEF EnlistedOk, txn
  <2>1. CASE e.tid = tid
    <3>1. e.identity.epoch \in Nat /\ txn(tid).identity.epoch \in Nat /\ tid \in Known
      BY <1>1, <1>12, <2>1 DEF Identity
    <3> QED
      BY <1>2, <1>4, <1>12, <2>1, <3>1
  <2>2. CASE e.tid # tid
    BY <1>4, <1>12, <2>2
  <2> QED
    BY <2>1, <2>2
<1>14. OngoingIffEnlisted'
  <2>1. \A t \in Known' : /\ txn(t)'.state = "Ongoing" <=> txn(t)'.partitions # {}
                          /\ txn(t)'.offsets # <<>> => txn(t)'.state = "Ongoing"
    BY <1>4 DEF IInv, OngoingIffEnlisted, txn, Known
  <2> QED
    BY <2>1 DEF OngoingIffEnlisted, txn, Known
<1>15. PartitionsExact'
  <2> SUFFICES ASSUME NEW t \in Known', txn(t)'.identity.epoch < MaxEpoch, NEW p \in Partition
               PROVE  p \in txn(t)'.partitions <=>
                        [tid |-> t, identity |-> txn(t)'.identity, partition |-> p] \in enlisted
    BY <1>6 DEF PartitionsExact, txn, Known
  <2>1. CASE t # tid
    <3>1. t \in Known /\ txn(t)' = txn(t)
      BY <1>4, <2>1
    <3> QED
      BY <3>1 DEF IInv, PartitionsExact, txn, Known
  <2>2. CASE t = tid
    <3> DEFINE e == [tid |-> tid, identity |-> new, partition |-> p]
    <3>1. ASSUME e \in enlisted PROVE FALSE
      <4>1. tid \in Known /\ new.epoch <= txn(tid).identity.epoch
        BY <1>12, <3>1
      <4>2. txn(tid).identity.epoch \in Nat /\ new.epoch \in Nat
        BY <1>1, <1>3, <4>1 DEF Identity
      <4>3. new.epoch < MaxEpoch
        BY <1>4, <2>2
      <4> QED
        BY <1>2, <4>1, <4>2, <4>3, TxnAssumption
    <3> QED
      BY <1>4, <2>2, <3>1
  <2> QED
    BY <2>1, <2>2
<1>16. OffsetsExact'
  <2>1. promised' = [t \in Known \cup {tid} |-> IF t = tid THEN <<>> ELSE txn(t).offsets]
    BY DEF InitProducer, IInv, OffsetsExact
  <2>2. promised' = [t \in Known' |-> txn(t)'.offsets]
    BY <1>4, <2>1
  <2> QED
    BY <2>2 DEF OffsetsExact, txn
<1> QED
  BY <1>4, <1>6, <1>8, <1>9, <1>10, <1>11, <1>13, <1>14, <1>15, <1>16 DEF IInv

\* A call that rewrites one known transaction without touching its identity
\* keeps everything the invariant says apart from the enlistments.
LEMMA UpdateFrame ==
  ASSUME IInv, NEW tid, tid \in Known, NEW new, new \in Transaction,
         new.identity = txn(tid).identity,
         new.state = "Ongoing" <=> new.partitions # {},
         new.offsets # <<>> => new.state = "Ongoing",
         coordinator' = updated(coordinator, tid, new),
         held' = held, latest' = latest
  PROVE  /\ Known' = Known
         /\ txn(tid)' = new
         /\ \A t \in Known : t # tid => txn(t)' = txn(t)
         /\ \A t \in Known : txn(t)'.identity = txn(t).identity
         /\ TypeOK' /\ DOMAIN latest' = Known'
         /\ HeldOk' /\ IdsOk' /\ EpochsOk' /\ OngoingIffEnlisted'
<1>1. /\ Known' = Known /\ txn(tid)' = new
      /\ \A t \in Known : t # tid => txn(t)' = txn(t)
      /\ coordinator'.next_id = coordinator.next_id
  BY DEF updated, with_transaction, Known, txn
<1>2. \A t \in Known : txn(t)'.identity = txn(t).identity
  BY <1>1
<1>3. TypeOK'
  <2>1. \A t \in Known' : txn(t)' \in Transaction
    BY <1>1 DEF IInv, TypeOK, Known, txn
  <2> QED
    BY <1>1, <2>1 DEF IInv, TypeOK, Known, txn
<1>4. HeldOk'
  <2> SUFFICES ASSUME NEW j \in Instance, held[j] # NoIdentity,
                      NEW t, t = held[j].tid, NEW identity, identity = held[j].identity
               PROVE  /\ t \in Known'
                      /\ identity.id = txn(t)'.identity.id
                      /\ identity.epoch <= txn(t)'.identity.epoch
                      /\ identity.epoch = txn(t)'.identity.epoch /\ identity.epoch < MaxEpoch
                           => latest'[t] = j
    BY DEF HeldOk, txn
  <2> QED
    BY <1>1, <1>2 DEF IInv, HeldOk
<1>5. IdsOk'
  <2>1. coordinator'.next_id < MaxProducerId =>
          /\ \A t \in Known' : txn(t)'.identity.id < coordinator'.next_id
          /\ \A t, u \in Known' : txn(t)'.identity.id = txn(u)'.identity.id => t = u
    BY <1>1, <1>2 DEF IInv, IdsOk
  <2> QED
    BY <2>1 DEF IdsOk, txn
<1>6. EpochsOk'
  <2>1. \A t \in Known' : txn(t)'.identity.epoch <= MaxEpoch
    BY <1>1, <1>2 DEF IInv, EpochsOk
  <2> QED
    BY <2>1 DEF EpochsOk, txn
<1>7. OngoingIffEnlisted'
  <2>1. \A t \in Known' : /\ txn(t)'.state = "Ongoing" <=> txn(t)'.partitions # {}
                          /\ txn(t)'.offsets # <<>> => txn(t)'.state = "Ongoing"
    BY <1>1 DEF IInv, OngoingIffEnlisted, txn, Known
  <2> QED
    BY <2>1 DEF OngoingIffEnlisted, txn, Known
<1> QED
  BY <1>1, <1>2, <1>3, <1>4, <1>5, <1>6, <1>7 DEF IInv

\* The form in which the two enlistment conjuncts are proved after such a call.
LEMMA EnlistmentsAfter ==
  ASSUME IInv, Known' = Known,
         \A t \in Known : txn(t)'.identity = txn(t).identity,
         \A e \in enlisted' : /\ e.tid \in Known /\ e.identity \in Identity
                              /\ e.identity.epoch <= txn(e.tid).identity.epoch,
         \A t \in Known : txn(t).identity.epoch < MaxEpoch => \A p \in Partition :
           p \in txn(t)'.partitions
             <=> [tid |-> t, identity |-> txn(t).identity, partition |-> p] \in enlisted'
  PROVE  EnlistedOk' /\ PartitionsExact'
<1>1. EnlistedOk'
  <2> SUFFICES ASSUME NEW e, e \in enlisted', NEW t, t = e.tid
               PROVE  t \in Known' /\ e.identity \in Identity
                      /\ e.identity.epoch <= txn(t)'.identity.epoch
    BY DEF EnlistedOk, txn
  <2> QED
    OBVIOUS
<1>2. PartitionsExact'
  <2> SUFFICES ASSUME NEW t, t \in Known', txn(t)'.identity.epoch < MaxEpoch, NEW p \in Partition
               PROVE  p \in txn(t)'.partitions <=>
                        [tid |-> t, identity |-> txn(t)'.identity, partition |-> p] \in enlisted'
    BY DEF PartitionsExact, txn, Known
  <2> QED
    OBVIOUS
<1> QED
  BY <1>1, <1>2

\* The same for the offsets: those of one transaction change, or none do.
LEMMA OffsetsAfter ==
  ASSUME IInv, Known' = Known, NEW tid \in Known,
         \A t \in Known : t # tid => txn(t)' = txn(t),
         promised' = [promised EXCEPT ![tid] = txn(tid)'.offsets]
  PROVE  OffsetsExact'
<1>1. promised = [t \in Known |-> txn(t).offsets]
  BY DEF IInv, OffsetsExact
<1>2. promised' = [t \in Known' |-> txn(t)'.offsets]
  BY <1>1
<1> QED
  BY <1>2 DEF OffsetsExact, txn

\* A partition is enlisted in the table and in the ghost together.
LEMMA AddPartitionOk ==
  ASSUME IInv, NEW i \in Instance, NEW partition \in Partition, AddPartition(i, partition)
  PROVE  IInv'
<1>0. PICK tid, identity : tid = held[i].tid /\ identity = held[i].identity
  OBVIOUS
<1>1. /\ partition # InvalidPartition
      /\ transaction_error(coordinator, tid, identity) = "Ok"
  BY <1>0, CoordinatorAssumption DEF AddPartition, add_partition_error
<1>2. tid \in Known /\ txn(tid).identity = identity
  BY <1>1, AcceptedIdentity DEF Known, txn
<1> DEFINE new == [txn(tid) EXCEPT !.state = "Ongoing", !.partitions = @ \cup {partition}]
<1>3. txn(tid) \in Transaction
  BY <1>2 DEF IInv, TypeOK, Known, txn
<1>4. /\ new \in Transaction /\ new.identity = txn(tid).identity
      /\ new.state = "Ongoing" /\ new.partitions = txn(tid).partitions \cup {partition}
      /\ new.offsets = txn(tid).offsets
  BY <1>3 DEF Transaction
<1>5. /\ coordinator' = updated(coordinator, tid, new)
      /\ held' = held /\ latest' = latest
      /\ enlisted' = enlisted \cup {[tid |-> tid, identity |-> identity, partition |-> partition]}
      /\ promised' = promised
  BY <1>0 DEF AddPartition, add_partition, txn
<1> HIDE DEF new
<1>6. new.state = "Ongoing" <=> new.partitions # {}
  BY <1>4
<1>7. /\ Known' = Known /\ txn(tid)' = new
      /\ \A t \in Known : t # tid => txn(t)' = txn(t)
      /\ \A t \in Known : txn(t)'.identity = txn(t).identity
      /\ TypeOK' /\ DOMAIN latest' = Known'
      /\ HeldOk' /\ IdsOk' /\ EpochsOk' /\ OngoingIffEnlisted'
  BY <1>2, <1>4, <1>5, <1>6, UpdateFrame
<1>8. \A e \in enlisted' : /\ e.tid \in Known /\ e.identity \in Identity
                           /\ e.identity.epoch <= txn(e.tid).identity.epoch
  <2>1. identity \in Identity /\ identity.epoch <= txn(tid).identity.epoch
    BY <1>2, <1>3 DEF Transaction, Identity
  <2> QED
    BY <1>2, <1>5, <2>1 DEF IInv, EnlistedOk
<1>9. \A t \in Known : txn(t).identity.epoch < MaxEpoch => \A p \in Partition :
        p \in txn(t)'.partitions
          <=> [tid |-> t, identity |-> txn(t).identity, partition |-> p] \in enlisted'
  <2> SUFFICES ASSUME NEW t, t \in Known, txn(t).identity.epoch < MaxEpoch, NEW p \in Partition
               PROVE  p \in txn(t)'.partitions <=>
                        [tid |-> t, identity |-> txn(t).identity, partition |-> p] \in enlisted'
    OBVIOUS
  <2>1. p \in txn(t).partitions
          <=> [tid |-> t, identity |-> txn(t).identity, partition |-> p] \in enlisted
    BY DEF IInv, PartitionsExact, txn, Known
  <2>2. CASE t = tid
    BY <1>2, <1>4, <1>5, <1>7, <2>1, <2>2
  <2>3. CASE t # tid
    BY <1>5, <1>7, <2>1, <2>3
  <2> QED
    BY <2>2, <2>3
<1>10. EnlistedOk' /\ PartitionsExact'
  BY <1>7, <1>8, <1>9, EnlistmentsAfter
<1>11. OffsetsExact'
  <2>1. promised' = [promised EXCEPT ![tid] = txn(tid).offsets]
    BY <1>2, <1>5 DEF IInv, OffsetsExact
  <2> QED
    BY <1>2, <1>4, <1>7, <2>1, OffsetsAfter
<1> QED
  BY <1>7, <1>10, <1>11 DEF IInv

\* Replacing the offsets of a transaction leaves the rest of it alone.
LEMMA OffsetsReplaced ==
  ASSUME NEW r \in Transaction, NEW offsets \in Seq(Offset)
  PROVE  /\ [r EXCEPT !.offsets = offsets] \in Transaction
         /\ [r EXCEPT !.offsets = offsets].identity = r.identity
         /\ [r EXCEPT !.offsets = offsets].state = r.state
         /\ [r EXCEPT !.offsets = offsets].partitions = r.partitions
         /\ [r EXCEPT !.offsets = offsets].offsets = offsets
<1> HIDE DEF Identity
<1> QED
  BY DEF Transaction

\* An enlisted offset disturbs neither identities nor enlisted partitions.
LEMMA AddOffsetOk ==
  ASSUME IInv, NEW i \in Instance, NEW offset \in Offset, AddOffset(i, offset)
  PROVE  IInv'
<1>0. PICK tid, identity : tid = held[i].tid /\ identity = held[i].identity
  OBVIOUS
<1>1. /\ transaction_error(coordinator, tid, identity) = "Ok"
      /\ txn(tid).state = "Ongoing"
  BY <1>0, CoordinatorAssumption DEF AddOffset, add_offset_error, in_state, txn
<1>2. tid \in Known /\ txn(tid).identity = identity
  BY <1>1, AcceptedIdentity DEF Known, txn
<1> DEFINE new == [txn(tid) EXCEPT !.offsets = Append(@, offset)]
<1>3. txn(tid) \in Transaction
  BY <1>2 DEF IInv, TypeOK, Known, txn
<1>4. /\ new \in Transaction /\ new.identity = txn(tid).identity
      /\ new.state = txn(tid).state /\ new.partitions = txn(tid).partitions
      /\ new.offsets = Append(txn(tid).offsets, offset)
  <2>1. txn(tid).offsets \in Seq(Offset)
    BY <1>3 DEF Transaction
  <2>2. Append(txn(tid).offsets, offset) \in Seq(Offset)
    BY <2>1
  <2> QED
    BY <1>3, <2>2, OffsetsReplaced
<1>5. /\ coordinator' = updated(coordinator, tid, new)
      /\ held' = held /\ latest' = latest /\ enlisted' = enlisted
      /\ promised' = [promised EXCEPT ![tid] = Append(promised[tid], offset)]
  BY <1>0 DEF AddOffset, add_offset, txn
<1> HIDE DEF new
<1>6. /\ new.state = "Ongoing" <=> new.partitions # {}
      /\ new.state = "Ongoing"
  BY <1>1, <1>2, <1>4 DEF IInv, OngoingIffEnlisted, txn, Known
<1>7. /\ Known' = Known /\ txn(tid)' = new
      /\ \A t \in Known : t # tid => txn(t)' = txn(t)
      /\ \A t \in Known : txn(t)'.identity = txn(t).identity
      /\ TypeOK' /\ DOMAIN latest' = Known'
      /\ HeldOk' /\ IdsOk' /\ EpochsOk' /\ OngoingIffEnlisted'
  BY <1>2, <1>4, <1>5, <1>6, UpdateFrame
<1>8. \A t \in Known : txn(t)'.partitions = txn(t).partitions
  BY <1>4, <1>7
<1>9. EnlistedOk' /\ PartitionsExact'
  <2>1. \A t \in Known : txn(t).identity.epoch < MaxEpoch => \A p \in Partition :
          p \in txn(t).partitions
            <=> [tid |-> t, identity |-> txn(t).identity, partition |-> p] \in enlisted
    BY DEF IInv, PartitionsExact, txn, Known
  <2>2. \A e \in enlisted : /\ e.tid \in Known /\ e.identity \in Identity
                            /\ e.identity.epoch <= txn(e.tid).identity.epoch
    BY DEF IInv, EnlistedOk
  <2> QED
    BY <1>5, <1>7, <1>8, <2>1, <2>2, EnlistmentsAfter
<1>10. OffsetsExact'
  <2>1. promised' = [promised EXCEPT ![tid] = new.offsets]
    BY <1>2, <1>4, <1>5 DEF IInv, OffsetsExact
  <2> QED
    BY <1>2, <1>7, <2>1, OffsetsAfter
<1> QED
  BY <1>7, <1>9, <1>10 DEF IInv

\* An end empties the transaction in the table and in the ghost together.
LEMMA EndOk ==
  ASSUME IInv, NEW i \in Instance, NEW commit \in BOOLEAN, End(i, commit)
  PROVE  IInv'
<1>0. PICK tid, identity : tid = held[i].tid /\ identity = held[i].identity
  OBVIOUS
<1>1. transaction_error(coordinator, tid, identity) = "Ok"
  BY <1>0 DEF End, end_error
<1>2. tid \in Known /\ txn(tid).identity = identity
  BY <1>1, AcceptedIdentity DEF Known, txn
<1> DEFINE new == [identity |-> txn(tid).identity, state |-> "Empty", partitions |-> {},
                   offsets |-> <<>>]
<1>3. txn(tid) \in Transaction
  BY <1>2 DEF IInv, TypeOK, Known, txn
<1>4. /\ new \in Transaction /\ new.identity = txn(tid).identity
      /\ new.state = "Empty" /\ new.partitions = {} /\ new.offsets = <<>>
  <2>1. txn(tid).identity \in Identity
    BY <1>3 DEF Transaction
  <2> QED
    BY <2>1 DEF Transaction
<1>5. /\ coordinator' = updated(coordinator, tid, new)
      /\ held' = held /\ latest' = latest
      /\ enlisted' = {e \in enlisted : e.tid # tid \/ e.identity # identity}
      /\ promised' = [promised EXCEPT ![tid] = <<>>]
  BY <1>0 DEF End, end, txn
<1> HIDE DEF new
<1>6. new.state = "Ongoing" <=> new.partitions # {}
  BY <1>4
<1>7. /\ Known' = Known /\ txn(tid)' = new
      /\ \A t \in Known : t # tid => txn(t)' = txn(t)
      /\ \A t \in Known : txn(t)'.identity = txn(t).identity
      /\ TypeOK' /\ DOMAIN latest' = Known'
      /\ HeldOk' /\ IdsOk' /\ EpochsOk' /\ OngoingIffEnlisted'
  BY <1>2, <1>4, <1>5, <1>6, UpdateFrame
<1>8. \A t \in Known : txn(t).identity.epoch < MaxEpoch => \A p \in Partition :
        p \in txn(t)'.partitions
          <=> [tid |-> t, identity |-> txn(t).identity, partition |-> p] \in enlisted'
  <2> SUFFICES ASSUME NEW t, t \in Known, txn(t).identity.epoch < MaxEpoch, NEW p \in Partition
               PROVE  p \in txn(t)'.partitions <=>
                        [tid |-> t, identity |-> txn(t).identity, partition |-> p] \in enlisted'
    OBVIOUS
  <2>1. p \in txn(t).partitions
          <=> [tid |-> t, identity |-> txn(t).identity, partition |-> p] \in enlisted
    BY DEF IInv, PartitionsExact, txn, Known
  <2>2. CASE t = tid
    BY <1>2, <1>4, <1>5, <1>7, <2>2
  <2>3. CASE t # tid
    BY <1>5, <1>7, <2>1, <2>3
  <2> QED
    BY <2>2, <2>3
<1>9. \A e \in enlisted' : /\ e.tid \in Known /\ e.identity \in Identity
                           /\ e.identity.epoch <= txn(e.tid).identity.epoch
  BY <1>5 DEF IInv, EnlistedOk
<1>10. EnlistedOk' /\ PartitionsExact'
  BY <1>7, <1>8, <1>9, EnlistmentsAfter
<1>11. OffsetsExact'
  BY <1>2, <1>4, <1>5, <1>7, OffsetsAfter
<1> QED
  BY <1>7, <1>10, <1>11 DEF IInv

-----------------------------------------------------------------------------
\* Every step keeps the inductive invariant.
LEMMA NextOk == IInv /\ [Next]_vars => IInv'
<1> SUFFICES ASSUME IInv, [Next]_vars PROVE IInv'
  OBVIOUS
<1>1. CASE UNCHANGED vars
  BY <1>1 DEF vars, IInv, TypeOK, HeldOk, IdsOk, EpochsOk, EnlistedOk,
              OngoingIffEnlisted, PartitionsExact, OffsetsExact, Known, txn
<1>2. ASSUME NEW i \in Instance, Refused(i) PROVE IInv'
  BY <1>1, <1>2 DEF Refused
<1> QED
  BY <1>1, <1>2, InitProducerOk, AddPartitionOk, AddOffsetOk, EndOk DEF Next

\* The inductive invariant holds in every reachable state.
THEOREM CoordinatorInvariant == Spec => []IInv
<1> QED
  BY InitOk, NextOk, PTL DEF Spec

\* The coordinator's table and the clients' identities stay well formed, and
\* no transaction rests in PrepareCommit or PrepareAbort.
THEOREM TypeCorrect == Spec => []TypeOK
<1>1. IInv => TypeOK
  BY DEF IInv
<1> QED
  BY <1>1, CoordinatorInvariant, PTL

\* Below the last epoch only the instance that initialised a transactional id
\* last is accepted under it.
THEOREM Fencing == Spec => []OnlyLatestAccepted
<1>1. IInv => OnlyLatestAccepted
  <2> SUFFICES ASSUME IInv, NEW t, t \in Known, txn(t).identity.epoch < MaxEpoch,
                      NEW i \in Instance, accepted(i, t)
               PROVE  latest[t] = i
    BY DEF OnlyLatestAccepted, Known, txn
  <2>1. held[i] # NoIdentity /\ held[i].tid = t /\ txn(t).identity = held[i].identity
    BY AcceptedIdentity DEF accepted, txn
  <2> QED
    BY <2>1 DEF IInv, HeldOk
<1> QED
  BY <1>1, CoordinatorInvariant, PTL

\* Until the id counter saturates, a producer id belongs to one transactional id.
THEOREM UniqueProducerIds == Spec => []ProducerIdsUnique
<1>1. IInv => ProducerIdsUnique
  BY DEF IInv, IdsOk, ProducerIdsUnique, Known, txn
<1> QED
  BY <1>1, CoordinatorInvariant, PTL

\* A transaction is Ongoing exactly while a partition is enlisted in it.
THEOREM OngoingMeansEnlisted == Spec => []OngoingIffEnlisted
<1>1. IInv => OngoingIffEnlisted
  BY DEF IInv
<1> QED
  BY <1>1, CoordinatorInvariant, PTL

\* end hands back exactly the partitions and the offsets that were accepted.
THEOREM CompletionsExact == Spec => []CompletionExact
<1>1. IInv => CompletionExact
  BY DEF IInv, PartitionsExact, OffsetsExact, CompletionExact, completion, Known, txn
<1> QED
  BY <1>1, CoordinatorInvariant, PTL

\* No step forgets an id, changes a producer id or takes an epoch back.
LEMMA IdentityStep ==
  IInv /\ [Next]_vars => [identities_advance(coordinator, coordinator')]_vars
<1> SUFFICES ASSUME IInv, Next
             PROVE  identities_advance(coordinator, coordinator') \/ UNCHANGED vars
  OBVIOUS
<1>1. \A t \in Known : txn(t).identity \in Identity /\ txn(t).identity.epoch <= MaxEpoch
  BY DEF IInv, TypeOK, Known, txn, Transaction, EpochsOk
<1>2. ASSUME NEW i \in Instance, NEW tid \in TransactionalId, InitProducer(i, tid)
      PROVE  identities_advance(coordinator, coordinator')
  <2> SUFFICES ASSUME NEW t, t \in Known
               PROVE  /\ t \in Known'
                      /\ txn(t)'.identity.id = txn(t).identity.id
                      /\ txn(t)'.identity.epoch >= txn(t).identity.epoch
    BY DEF identities_advance, Known, txn
  <2>1. /\ Known' = Known \cup {tid}
        /\ txn(tid)'.identity = issued_identity(coordinator, tid)
        /\ t # tid => txn(t)' = txn(t)
    BY <1>2 DEF InitProducer, init, with_transaction, Known, txn
  <2>2. txn(t).identity.epoch \in Nat /\ txn(t).identity.epoch <= MaxEpoch
    BY <1>1 DEF Identity
  <2>3. CASE t = tid
    <3>1. issued_identity(coordinator, tid) =
            [id    |-> txn(t).identity.id,
             epoch |-> saturating_inc(txn(t).identity.epoch, MaxEpoch)]
      BY <2>3 DEF issued_identity, known, Known, txn
    <3>2. saturating_inc(txn(t).identity.epoch, MaxEpoch) >= txn(t).identity.epoch
      BY <2>2, TxnAssumption DEF saturating_inc
    <3> QED
      BY <2>1, <2>3, <3>1, <3>2
  <2>4. CASE t # tid
    BY <2>1, <2>2, <2>4
  <2> QED
    BY <2>3, <2>4
<1>3. ASSUME NEW tid, NEW new, coordinator' = updated(coordinator, tid, new),
             tid \in Known => new.identity = txn(tid).identity
      PROVE  identities_advance(coordinator, coordinator')
  <2> SUFFICES ASSUME NEW t, t \in Known
               PROVE  t \in Known' /\ txn(t)'.identity = txn(t).identity
    BY <1>1 DEF identities_advance, Known, txn, Identity
  <2> QED
    BY <1>3 DEF updated, with_transaction, Known, txn
<1>4. ASSUME NEW i \in Instance, NEW p \in Partition, AddPartition(i, p)
      PROVE  identities_advance(coordinator, coordinator')
  <2>1. held[i].tid \in Known => txn(held[i].tid) \in Transaction
    BY DEF IInv, TypeOK, Known, txn
  <2> DEFINE new == [txn(held[i].tid) EXCEPT !.state = "Ongoing", !.partitions = @ \cup {p}]
  <2>2. coordinator' = updated(coordinator, held[i].tid, new)
    BY <1>4 DEF AddPartition, add_partition, txn
  <2>3. held[i].tid \in Known => new.identity = txn(held[i].tid).identity
    BY <2>1 DEF Transaction
  <2> QED
    BY <1>3, <2>2, <2>3
<1>5. ASSUME NEW i \in Instance, NEW o \in Offset, AddOffset(i, o)
      PROVE  identities_advance(coordinator, coordinator')
  <2>1. held[i].tid \in Known => txn(held[i].tid) \in Transaction
    BY DEF IInv, TypeOK, Known, txn
  <2> DEFINE new == [txn(held[i].tid) EXCEPT !.offsets = Append(@, o)]
  <2>2. coordinator' = updated(coordinator, held[i].tid, new)
    BY <1>5 DEF AddOffset, add_offset, txn
  <2>3. held[i].tid \in Known => new.identity = txn(held[i].tid).identity
    BY <2>1 DEF Transaction
  <2> QED
    BY <1>3, <2>2, <2>3
<1>6. ASSUME NEW i \in Instance, NEW commit \in BOOLEAN, End(i, commit)
      PROVE  identities_advance(coordinator, coordinator')
  <2> DEFINE new == [identity |-> txn(held[i].tid).identity, state |-> "Empty",
                     partitions |-> {}, offsets |-> <<>>]
  <2>1. coordinator' = updated(coordinator, held[i].tid, new)
    BY <1>6 DEF End, end, txn
  <2> QED
    BY <1>3, <2>1
<1> QED
  BY <1>2, <1>4, <1>5, <1>6 DEF Next, Refused

\* Identities only move forward.
THEOREM IdentitiesAdvance == Spec => IdentityMonotone
<1> QED
  BY CoordinatorInvariant, IdentityStep, PTL DEF Spec, IdentityMonotone
=============================================================================
