-------------------------- MODULE GroupCoordinator --------------------------
(***************************************************************************)
(* One consumer group and the client processes that use it.  A client      *)
(* remembers the member id and the generation of its last join.  Member    *)
(* ids are not tied to clients: the engine generates "member-<n>" from the *)
(* correlation id of the join, so two clients may well share one.          *)
(***************************************************************************)
EXTENDS GroupOps

CONSTANTS
  Client,          \* client processes
  Member,          \* member ids
  Partitions,      \* the catalog, in metadata order: a sequence of [topic, number]
  Subscription,    \* the sets of topics a client may subscribe to
  CommitPartition, \* partitions offsets are committed for; the catalog is not asked
  Offset           \* offsets that may be committed

ASSUME GroupCoordinatorAssumption ==
  /\ EmptyMember \notin Member
  /\ Member \subseteq Nat
  /\ Len(Partitions) \in Nat
  /\ \A i, j \in 1 .. Len(Partitions) : Partitions[i] = Partitions[j] => i = j

VARIABLES
  group,
  view,      \* member id and generation each client works with
  latest     \* ghost: the client that joined last
vars == <<group, view, latest>>

Topic == {Partitions[i].topic : i \in 1 .. Len(Partitions)}

Init ==
  /\ group = new_group
  /\ view = [c \in Client |-> [member |-> EmptyMember, generation |-> -1]]
  /\ latest \in Client

Join(c, member, subscription) ==
  /\ join_error(member) = "Ok"
  /\ group' = join(group, member, subscription, Partitions)
  /\ view' = [view EXCEPT ![c] = [member |-> member, generation |-> group'.generation]]
  /\ latest' = c

Heartbeat(c) ==
  /\ heartbeat_error(group, view[c].member, view[c].generation) = "Ok"
  /\ UNCHANGED vars

Leave(c) ==
  /\ leave_error(group, view[c].member, view[c].generation) = "Ok"
  /\ group' = remove_member(group, view[c].member)
  /\ UNCHANGED <<view, latest>>

\* LeaveGroup v0 carries no generation: a client that was fenced long ago may
\* still remove the member id it used.
LeaveAny(c) ==
  /\ leave_any_error(group, view[c].member) = "Ok"
  /\ group' = remove_member(group, view[c].member)
  /\ UNCHANGED <<view, latest>>

CommitOffset(c, partition, offset) ==
  /\ commit_offset_error(group, view[c].generation, offset) = "Ok"
  /\ group' = commit_offset(group, partition, offset)
  /\ UNCHANGED <<view, latest>>

Refused(c) ==
  /\ \/ join_error(EmptyMember) # "Ok"
     \/ heartbeat_error(group, view[c].member, view[c].generation) # "Ok"
     \/ leave_error(group, view[c].member, view[c].generation) # "Ok"
     \/ leave_any_error(group, view[c].member) # "Ok"
     \/ \E offset \in Offset \cup {InvalidPosition} :
          commit_offset_error(group, view[c].generation, offset) # "Ok"
  /\ UNCHANGED vars

Next == \E c \in Client :
  \/ \E m \in Member, s \in Subscription : Join(c, m, s)
  \/ Heartbeat(c)
  \/ Leave(c)
  \/ LeaveAny(c)
  \/ \E p \in CommitPartition, o \in Offset : CommitOffset(c, p, o)
  \/ Refused(c)

Spec == Init /\ [][Next]_vars

-----------------------------------------------------------------------------
\* The group and what the clients remember of it are well formed.
TypeOK ==
  /\ group.generation \in 0 .. MaxGeneration
  /\ DOMAIN group.members \subseteq Member
  /\ \A m \in DOMAIN group.members : group.members[m].generation \in 1 .. MaxGeneration
  /\ view \in [Client -> [member : Member \cup {EmptyMember}, generation : -1 .. MaxGeneration]]
  /\ latest \in Client

\* "Group generations fence stale heartbeats and offset commits": below the last
\* generation, whoever's generation is accepted is the client that joined last,
\* whatever leaves, rejoins and shared member ids came before.
OnlyLatestJoinerAccepted ==
  group.generation < MaxGeneration =>
    \A c \in Client : view[c].generation = group.generation => c = latest

\* Somebody may still act on the stored assignment.
assignment_in_force == \E c \in Client :
  heartbeat_error(group, view[c].member, view[c].generation) = "Ok"

\* While any client's heartbeat is accepted, the assignment is one of the
\* current members: each partition of a topic that has subscribers belongs to
\* exactly one member, which subscribes to it, and no other partition to anyone.
AssignmentExact ==
  assignment_in_force /\ group.generation < MaxGeneration =>
    /\ DOMAIN group.assignments = DOMAIN group.members
    /\ \A i \in 1 .. Len(Partitions) :
         LET p == Partitions[i]
             owners == {m \in DOMAIN group.assignments : p \in group.assignments[m]}
         IN  IF eligible(group.members, p.topic) = {} THEN owners = {}
             ELSE Cardinality(owners) = 1 /\ owners \subseteq eligible(group.members, p.topic)

share(m, topic) == Cardinality({p \in group.assignments[m] : p.topic = topic})

\* The subscribers of a topic share its partitions evenly, to within one, even
\* though the round robin counts across all topics of the catalog.
BalancedPerTopic ==
  assignment_in_force /\ group.generation < MaxGeneration =>
    \A topic \in Topic : \A m, n \in eligible(group.members, topic) :
      share(m, topic) <= share(n, topic) + 1

membership_fenced(old, new) ==
  /\ new.generation >= old.generation
  /\ new.members # old.members /\ old.generation < MaxGeneration
       => new.generation > old.generation

\* Every change of membership advances the generation, so no client learns of a
\* new member set under an old number; the generation never goes back.
MembershipChangeFences == [][membership_fenced(group, group')]_vars

offsets_kept(old, new) ==
  /\ DOMAIN old.offsets \subseteq DOMAIN new.offsets
  /\ new.offsets # old.offsets =>
       /\ new.members = old.members /\ new.generation = old.generation
       /\ \E c \in Client : view[c].generation = old.generation

\* A rebalance never loses or alters a committed offset, and an offset changes
\* only while the generation of some client is the current one.
OffsetsSurviveRebalance == [][offsets_kept(group, group')]_vars
=============================================================================
