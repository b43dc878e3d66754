----------------------- MODULE TransactionCoordinator -----------------------
(***************************************************************************)
(* The transaction coordinator with the clients that call it.  Instance is *)
(* the set of running client processes; several may use one transactional  *)
(* id, and an instance keeps the identity it was given even when a newer   *)
(* instance has taken the id over.  The coordinator lives on shard 0, which *)
(* serialises the calls, so a call is one action.                          *)
(***************************************************************************)
EXTENDS TxnOps

CONSTANTS
  Instance,          \* client processes
  TransactionalId,
  Partition,         \* (topic, partition) pairs of the catalog
  Offset,            \* consumer offsets that may be enlisted
  NoIdentity,        \* held by an instance that has not called init yet
  MaxOffsets         \* bound: offsets enlisted in one transaction

ASSUME CoordinatorAssumption ==
  /\ EmptyId \notin TransactionalId
  /\ InvalidPartition \notin Partition
  /\ InvalidOffset \notin Offset
  /\ MaxOffsets \in Nat

VARIABLES
  coordinator,
  held,        \* the transactional id and identity each instance works with
  latest,      \* ghost: the instance whose init was accepted last, per id
  enlisted,    \* ghost: each partition accepted by add_partition, with the
               \* identity it was accepted for, until that identity ends
  promised     \* ghost: per id, the offsets accepted by add_offset since the
               \* id was last initialised or ended, in their order
vars == <<coordinator, held, latest, enlisted, promised>>

Identity == [id : Nat, epoch : Nat]
Transaction ==
  [identity : Identity, state : {"Empty", "Ongoing"},
   partitions : SUBSET Partition, offsets : Seq(Offset)]

Init ==
  /\ coordinator = new_coordinator
  /\ held = [i \in Instance |-> NoIdentity]
  /\ latest = [t \in {} |-> 0]
  /\ enlisted = {} /\ promised = [t \in {} |-> <<>>]

InitProducer(i, tid) ==
  /\ init_error(tid) = "Ok"
  /\ coordinator' = init(coordinator, tid)
  /\ held' = [held EXCEPT ![i] = [tid |-> tid, identity |-> issued_identity(coordinator, tid)]]
  /\ latest' = [t \in DOMAIN latest \cup {tid} |-> IF t = tid THEN i ELSE latest[t]]
  /\ promised' = [t \in DOMAIN promised \cup {tid} |-> IF t = tid THEN <<>> ELSE promised[t]]
  /\ UNCHANGED enlisted

AddPartition(i, partition) ==
  /\ held[i] # NoIdentity
  /\ add_partition_error(coordinator, held[i].tid, held[i].identity, partition) = "Ok"
  /\ coordinator' = add_partition(coordinator, held[i].tid, partition)
  /\ enlisted' = enlisted \cup
       {[tid |-> held[i].tid, identity |-> held[i].identity, partition |-> partition]}
  /\ UNCHANGED <<held, latest, promised>>

AddOffset(i, offset) ==
  /\ held[i] # NoIdentity
  /\ add_offset_error(coordinator, held[i].tid, held[i].identity, offset) = "Ok"
  /\ Len(coordinator.transactions[held[i].tid].offsets) < MaxOffsets
  /\ coordinator' = add_offset(coordinator, held[i].tid, offset)
  /\ promised' = [promised EXCEPT ![held[i].tid] = Append(@, offset)]
  /\ UNCHANGED <<held, latest, enlisted>>

End(i, commit) ==
  /\ held[i] # NoIdentity
  /\ end_error(coordinator, held[i].tid, held[i].identity) = "Ok"
  /\ coordinator' = end(coordinator, held[i].tid)
  /\ enlisted' = {e \in enlisted : e.tid # held[i].tid \/ e.identity # held[i].identity}
  /\ promised' = [promised EXCEPT ![held[i].tid] = <<>>]
  /\ UNCHANGED <<held, latest>>

\* Any call that is refused.
Refused(i) ==
  /\ \/ init_error(EmptyId) # "Ok"
     \/ /\ held[i] # NoIdentity
        /\ LET c == coordinator  tid == held[i].tid  identity == held[i].identity
           IN  \/ \E p \in Partition \cup {InvalidPartition} :
                    \/ add_partition_error(c, tid, identity, p) # "Ok"
                    \/ validate_produce_error(c, tid, identity, p) # "Ok"
               \/ \E o \in Offset \cup {InvalidOffset} :
                    add_offset_error(c, tid, identity, o) # "Ok"
               \/ end_error(c, tid, identity) # "Ok"
  /\ UNCHANGED vars

Next == \E i \in Instance :
  \/ \E tid \in TransactionalId : InitProducer(i, tid)
  \/ \E p \in Partition : AddPartition(i, p)
  \/ \E o \in Offset : AddOffset(i, o)
  \/ \E commit \in BOOLEAN : End(i, commit)
  \/ Refused(i)

Spec == Init /\ [][Next]_vars

-----------------------------------------------------------------------------
\* The coordinator's table and the clients' identities are well formed.  No
\* transaction rests in PrepareCommit or PrepareAbort, so the check of
\* add_partition for those states never fires.
TypeOK ==
  /\ coordinator.next_id \in Nat
  /\ DOMAIN coordinator.transactions \subseteq TransactionalId
  /\ \A t \in DOMAIN coordinator.transactions : coordinator.transactions[t] \in Transaction
  /\ held \in [Instance -> [tid : TransactionalId, identity : Identity] \cup {NoIdentity}]

accepted(i, tid) ==
  /\ held[i] # NoIdentity
  /\ held[i].tid = tid
  /\ transaction_error(coordinator, tid, held[i].identity) = "Ok"

\* Fencing, up to the last epoch: of all instances that ever initialised a
\* transactional id, the coordinator accepts only the one that did so last.
OnlyLatestAccepted ==
  \A t \in DOMAIN coordinator.transactions :
    coordinator.transactions[t].identity.epoch < MaxEpoch =>
      \A i \in Instance : accepted(i, t) => latest[t] = i

\* Two transactional ids never share a producer id (the key under which the
\* partition logs commit and abort batches), as long as ids have not run out.
ProducerIdsUnique ==
  coordinator.next_id < MaxProducerId =>
    \A t, u \in DOMAIN coordinator.transactions :
      coordinator.transactions[t].identity.id = coordinator.transactions[u].identity.id
        => t = u

\* A transaction is Ongoing exactly while it has something enlisted, so end
\* never completes an empty transaction and never loses an enlisted offset.
OngoingIffEnlisted ==
  \A t \in DOMAIN coordinator.transactions :
    LET transaction == coordinator.transactions[t]
    IN  /\ transaction.state = "Ongoing" <=> transaction.partitions # {}
        /\ transaction.offsets # <<>> => transaction.state = "Ongoing"

\* What end would hand back is exactly what was accepted: the partitions those of
\* the current identity since it last ended a transaction, the offsets those since
\* the id was last initialised or ended, in the order of their calls.  Nothing is
\* left over from an earlier transaction or from a fenced instance, and nothing lost.
CompletionExact ==
  \A t \in DOMAIN coordinator.transactions :
    LET identity == coordinator.transactions[t].identity
    IN  /\ identity.epoch < MaxEpoch =>
             \A p \in Partition :
               p \in completion(coordinator, t).partitions
                 <=> [tid |-> t, identity |-> identity, partition |-> p] \in enlisted
        /\ completion(coordinator, t).offsets = promised[t]

identities_advance(old, new) ==
  \A t \in DOMAIN old.transactions :
    /\ t \in DOMAIN new.transactions
    /\ new.transactions[t].identity.id = old.transactions[t].identity.id
    /\ new.transactions[t].identity.epoch >= old.transactions[t].identity.epoch

\* A transactional id is never forgotten, keeps its producer id, and its epoch
\* never goes back: a fenced identity stays fenced.
IdentityMonotone == [][identities_advance(coordinator, coordinator')]_vars
=============================================================================
