------------------------------ MODULE GroupOps ------------------------------
(***************************************************************************)
(* The methods of GroupCoordinator (broker-core/src/coordination.rs) on    *)
(* the value of one group.  The coordinator keeps one Group per group id   *)
(* and no method touches two of them, so one group is enough.  Member ids  *)
(* are numbers, compared as the BTreeMap of the source compares its keys.  *)
(* An assignment keeps which partitions a member gets, not their order.    *)
(* The field alive is left out: it is only ever set to true and never read.*)
(***************************************************************************)
EXTENDS Integers, Sequences, FiniteSets

CONSTANTS
  EmptyMember,       \* an empty group or member id
  InvalidPosition,   \* a commit with a negative partition or offset
  MaxGeneration      \* i32::MAX, where the generation saturates

ASSUME GroupAssumption == MaxGeneration \in Nat \ {0}

\* A Group as a first join finds or creates it.  Every join leaves a generation
\* of at least 1, so generation 0 stands for a group id not in the map yet.
new_group ==
  [generation |-> 0, members |-> [m \in {} |-> 0], assignments |-> [m \in {} |-> {}],
   offsets |-> [p \in {} |-> 0]]
unknown(group) == group.generation = 0

\* generation.saturating_add(1).max(1)
next_generation(generation) ==
  IF generation < MaxGeneration THEN generation + 1 ELSE MaxGeneration

\* The members subscribed to a topic, and the k-th of them in key order.
eligible(members, topic) == {m \in DOMAIN members : topic \in members[m].subscriptions}
kth(ids, k) == CHOOSE m \in ids : Cardinality({n \in ids : n < m}) = k

\* Round robin over all members, subscribed or not.
owner_any_member(members, partitions, i) == kth(DOMAIN members, (i - 1) % Cardinality(DOMAIN members))

\* Every partition of a topic goes to its first subscriber.
owner_by_topic_start(members, partitions, i) ==
  kth(eligible(members, partitions[i].topic), 0)

\* Who gets the i-th partition of the catalog: the counter of the round robin
\* is its position among all partitions, not among those of its topic.
owner(members, partitions, i) ==
  LET ids == eligible(members, partitions[i].topic)
  IN  kth(ids, (i - 1) % Cardinality(ids))

assign(members, partitions) ==
  [m \in DOMAIN members |->
     {partitions[i] : i \in {j \in 1 .. Len(partitions) :
        /\ eligible(members, partitions[j].topic) # {}
        /\ owner(members, partitions, j) = m}}]

-----------------------------------------------------------------------------
join_error(member) == IF member = EmptyMember THEN "InvalidId" ELSE "Ok"

with_member(members, member, value) ==
  [m \in DOMAIN members \cup {member} |-> IF m = member THEN value ELSE members[m]]

\* A member that renews keeps the generation.
join_renewing(group, member, subscriptions, partitions) ==
  LET generation == IF member \in DOMAIN group.members THEN group.generation
                    ELSE next_generation(group.generation)
      members == with_member(group.members, member,
                   [subscriptions |-> subscriptions, generation |-> generation])
  IN  [generation  |-> generation,
       members     |-> members,
       assignments |-> assign(members, partitions),
       offsets     |-> group.offsets]

\* Starts from a new group, so that committed offsets are lost.
join_forgetting(group, member, subscriptions, partitions) ==
  LET generation == next_generation(group.generation)
      members == with_member(group.members, member,
                   [subscriptions |-> subscriptions, generation |-> generation])
  IN  [generation  |-> generation,
       members     |-> members,
       assignments |-> assign(members, partitions),
       offsets     |-> new_group.offsets]

join(group, member, subscriptions, partitions) ==
  LET generation == next_generation(group.generation)
      members == with_member(group.members, member,
                   [subscriptions |-> subscriptions, generation |-> generation])
  IN  [generation  |-> generation,
       members     |-> members,
       assignments |-> assign(members, partitions),
       offsets     |-> group.offsets]

heartbeat_error(group, member, generation) ==
  IF unknown(group) THEN "UnknownGroup"
  ELSE IF generation # group.generation THEN "IllegalGeneration"
  ELSE IF member \notin DOMAIN group.members THEN "UnknownMember"
  ELSE IF group.members[member].generation # generation THEN "IllegalGeneration"
  ELSE "Ok"

leave_any_error(group, member) ==
  IF unknown(group) THEN "UnknownGroup"
  ELSE IF member \notin DOMAIN group.members THEN "UnknownMember"
  ELSE "Ok"

leave_error(group, member, generation) ==
  IF unknown(group) THEN "UnknownGroup"
  ELSE IF generation # group.generation THEN "IllegalGeneration"
  ELSE leave_any_error(group, member)

\* What leave and leave_any do once their checks have passed.
remove_member(group, member) ==
  [generation  |-> next_generation(group.generation),
   members     |-> [m \in DOMAIN group.members \ {member} |-> group.members[m]],
   assignments |-> group.assignments,
   offsets     |-> group.offsets]

commit_offset_error(group, generation, position) ==
  IF unknown(group) THEN "UnknownGroup"
  ELSE IF generation # group.generation THEN "IllegalGeneration"
  ELSE IF position = InvalidPosition THEN "InvalidId"
  ELSE "Ok"

commit_offset(group, partition, offset) ==
  [generation  |-> group.generation,
   members     |-> group.members,
   assignments |-> group.assignments,
   offsets     |-> [p \in DOMAIN group.offsets \cup {partition} |->
                      IF p = partition THEN offset ELSE group.offsets[p]]]
=============================================================================
