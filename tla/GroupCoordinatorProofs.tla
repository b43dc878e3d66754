----------------------- MODULE GroupCoordinatorProofs -----------------------
(***************************************************************************)
(* Generation fencing and the exactness of the assignment, for any number  *)
(* of clients, member ids, topics and partitions.                          *)
(***************************************************************************)
EXTENDS GroupCoordinator, FiniteSetTheorems, TLAPS

\* No client is ahead of the group, and one that is level with it, below the
\* last generation, is the one that joined last.
ViewsOk ==
  \A c \in Client :
    /\ view[c].generation <= group.generation
    /\ view[c].generation = group.generation /\ group.generation < MaxGeneration
         => c = latest

IInv == TypeOK /\ ViewsOk

\* Generations start at 1 and grow until they saturate.
LEMMA NextGeneration ==
  ASSUME NEW g \in 0 .. MaxGeneration
  PROVE  /\ next_generation(g) \in 1 .. MaxGeneration
         /\ next_generation(g) >= g
         /\ g < MaxGeneration => next_generation(g) > g
BY GroupAssumption DEF next_generation

\* A new group is ahead of every client.
LEMMA InitOk == Init => IInv
<1> SUFFICES ASSUME Init PROVE IInv
  OBVIOUS
<1>1. /\ group.generation = 0 /\ DOMAIN group.members = {}
      /\ \A c \in Client : view[c].generation = -1
  BY DEF Init, new_group
<1>2. TypeOK
  BY <1>1, GroupAssumption DEF Init, TypeOK
<1>3. ViewsOk
  BY <1>1 DEF ViewsOk
<1> QED
  BY <1>2, <1>3 DEF IInv

\* A join moves the group ahead of every client but the one that joins.
LEMMA JoinOk ==
  ASSUME IInv, NEW c \in Client, NEW m \in Member, NEW s, Join(c, m, s)
  PROVE  IInv'
<1> DEFINE g == next_generation(group.generation)
           members == with_member(group.members, m, [subscriptions |-> s, generation |-> g])
<1>1. /\ g \in 1 .. MaxGeneration /\ g >= group.generation
      /\ group.generation < MaxGeneration => g > group.generation
      /\ group.generation \in 0 .. MaxGeneration
  BY NextGeneration DEF IInv, TypeOK
<1>2. group'.generation = g /\ group'.members = members
  BY DEF Join, join
<1>3. /\ view' = [view EXCEPT ![c] = [member |-> m, generation |-> g]]
      /\ latest' = c
  BY <1>2 DEF Join
<1> HIDE DEF g
<1>4. /\ DOMAIN members \subseteq Member
      /\ \A x \in DOMAIN members : members[x].generation \in 1 .. MaxGeneration
  BY <1>1 DEF IInv, TypeOK, with_member
<1>5. TypeOK'
  <2>1. view' \in [Client -> [member : Member \cup {EmptyMember}, generation : -1 .. MaxGeneration]]
    BY <1>1, <1>3, GroupAssumption DEF IInv, TypeOK
  <2>2. group'.generation \in 0 .. MaxGeneration
    BY <1>1, <1>2, GroupAssumption
  <2> HIDE DEF members
  <2> QED
    BY <1>2, <1>3, <1>4, <2>1, <2>2 DEF TypeOK
<1>6. ViewsOk'
  <2> SUFFICES ASSUME NEW d \in Client
               PROVE  /\ view'[d].generation <= g
                      /\ view'[d].generation = g /\ g < MaxGeneration => d = c
    BY <1>2, <1>3 DEF ViewsOk
  <2>1. CASE d = c
    BY <1>1, <1>3, <2>1, GroupAssumption DEF IInv, TypeOK
  <2>2. CASE d # c
    <3>1. view'[d] = view[d] /\ view[d].generation <= group.generation
      BY <1>3, <2>2 DEF IInv, TypeOK, ViewsOk
    <3>2. view[d].generation \in -1 .. MaxGeneration
      BY DEF IInv, TypeOK
    <3> QED
      BY <1>1, <3>1, <3>2, GroupAssumption
  <2> QED
    BY <2>1, <2>2
<1> QED
  BY <1>5, <1>6 DEF IInv

\* A leave moves the group ahead of every client.
LEMMA RemoveOk ==
  ASSUME IInv, NEW m, group' = remove_member(group, m), view' = view, latest' = latest
  PROVE  IInv'
<1> DEFINE g == next_generation(group.generation)
<1>1. /\ g \in 1 .. MaxGeneration /\ g >= group.generation
      /\ group.generation < MaxGeneration => g > group.generation
      /\ group.generation \in 0 .. MaxGeneration
  BY NextGeneration DEF IInv, TypeOK
<1>2. /\ group'.generation = g
      /\ group'.members = [x \in DOMAIN group.members \ {m} |-> group.members[x]]
  BY DEF remove_member
<1> HIDE DEF g
<1>3. /\ DOMAIN group'.members \subseteq Member
      /\ \A x \in DOMAIN group'.members : group'.members[x].generation \in 1 .. MaxGeneration
  BY <1>2 DEF IInv, TypeOK
<1>4. TypeOK'
  <2>1. group'.generation \in 0 .. MaxGeneration
    BY <1>1, <1>2, GroupAssumption
  <2> QED
    BY <1>3, <2>1 DEF IInv, TypeOK
<1>5. ViewsOk'
  <2> SUFFICES ASSUME NEW d \in Client
               PROVE  /\ view[d].generation <= g
                      /\ ~(view[d].generation = g /\ g < MaxGeneration)
    BY <1>2 DEF ViewsOk
  <2>1. view[d].generation <= group.generation /\ view[d].generation \in -1 .. MaxGeneration
    BY DEF IInv, TypeOK, ViewsOk
  <2> QED
    BY <1>1, <2>1, GroupAssumption
<1> QED
  BY <1>4, <1>5 DEF IInv

\* A committed offset changes neither the generation nor the members.
LEMMA CommitOk ==
  ASSUME IInv, NEW c \in Client, NEW p, NEW o, CommitOffset(c, p, o)
  PROVE  IInv'
<1>1. group'.generation = group.generation /\ group'.members = group.members
  BY DEF CommitOffset, commit_offset
<1>2. view' = view /\ latest' = latest
  BY DEF CommitOffset
<1> QED
  BY <1>1, <1>2 DEF IInv, TypeOK, ViewsOk

\* Every step keeps the inductive invariant.
LEMMA NextOk == IInv /\ [Next]_vars => IInv'
<1> SUFFICES ASSUME IInv, [Next]_vars PROVE IInv'
  OBVIOUS
<1>1. CASE UNCHANGED vars
  BY <1>1 DEF vars, IInv, TypeOK, ViewsOk
<1>2. ASSUME NEW c \in Client, Leave(c) \/ LeaveAny(c) PROVE IInv'
  BY <1>2, RemoveOk DEF Leave, LeaveAny
<1>3. ASSUME NEW c \in Client, Heartbeat(c) \/ Refused(c) PROVE IInv'
  BY <1>1, <1>3 DEF Heartbeat, Refused
<1> QED
  BY <1>1, <1>2, <1>3, JoinOk, CommitOk DEF Next

\* The inductive invariant holds in every reachable state.
THEOREM GroupInvariant == Spec => []IInv
<1> QED
  BY InitOk, NextOk, PTL DEF Spec

\* The group and what the clients remember of it stay well formed.
THEOREM TypeCorrect == Spec => []TypeOK
<1>1. IInv => TypeOK
  BY DEF IInv
<1> QED
  BY <1>1, GroupInvariant, PTL

\* Below the last generation only the client that joined last is accepted by
\* heartbeat, leave and commit_offset.
THEOREM GenerationFencing == Spec => []OnlyLatestJoinerAccepted
<1>1. IInv => OnlyLatestJoinerAccepted
  BY DEF IInv, ViewsOk, OnlyLatestJoinerAccepted
<1> QED
  BY <1>1, GroupInvariant, PTL

-----------------------------------------------------------------------------
\* Joins and leaves, the only changes of membership, take a new generation.
LEMMA FencingStep == IInv /\ [Next]_vars => [membership_fenced(group, group')]_vars
<1> SUFFICES ASSUME IInv, Next
             PROVE  membership_fenced(group, group') \/ UNCHANGED vars
  OBVIOUS
<1>1. group.generation \in 0 .. MaxGeneration
  BY DEF IInv, TypeOK
<1>2. ASSUME group'.generation = next_generation(group.generation)
      PROVE  membership_fenced(group, group')
  BY <1>1, <1>2, NextGeneration DEF membership_fenced
<1>3. ASSUME NEW c \in Client, NEW p, NEW o, CommitOffset(c, p, o)
      PROVE  membership_fenced(group, group')
  BY <1>1, <1>3, GroupAssumption DEF CommitOffset, commit_offset, membership_fenced
<1>4. ASSUME NEW c \in Client, NEW m, NEW s, Join(c, m, s)
      PROVE  group'.generation = next_generation(group.generation)
  BY <1>4 DEF Join, join
<1>5. ASSUME NEW c \in Client, Leave(c) \/ LeaveAny(c)
      PROVE  group'.generation = next_generation(group.generation)
  BY <1>5 DEF Leave, LeaveAny, remove_member
<1> QED
  BY <1>2, <1>3, <1>4, <1>5 DEF Next, Heartbeat, Refused

\* Every change of membership takes a new generation.
THEOREM MembershipFenced == Spec => MembershipChangeFences
<1> QED
  BY GroupInvariant, FencingStep, PTL DEF Spec, MembershipChangeFences

\* Only a commit under the current generation touches the offsets.
LEMMA OffsetsStep == IInv /\ [Next]_vars => [offsets_kept(group, group')]_vars
<1> SUFFICES ASSUME IInv, Next
             PROVE  offsets_kept(group, group') \/ UNCHANGED vars
  OBVIOUS
<1>1. ASSUME group'.offsets = group.offsets PROVE offsets_kept(group, group')
  BY <1>1 DEF offsets_kept
<1>2. ASSUME NEW c \in Client, NEW p, NEW o, CommitOffset(c, p, o)
      PROVE  offsets_kept(group, group')
  <2>1. view[c].generation = group.generation
    BY <1>2 DEF CommitOffset, commit_offset_error
  <2>2. /\ group'.members = group.members /\ group'.generation = group.generation
        /\ DOMAIN group'.offsets = DOMAIN group.offsets \cup {p}
    BY <1>2 DEF CommitOffset, commit_offset
  <2> QED
    BY <2>1, <2>2 DEF offsets_kept
<1>3. ASSUME NEW c \in Client, NEW m, NEW s, Join(c, m, s)
      PROVE  group'.offsets = group.offsets
  BY <1>3 DEF Join, join
<1>4. ASSUME NEW c \in Client, Leave(c) \/ LeaveAny(c)
      PROVE  group'.offsets = group.offsets
  BY <1>4 DEF Leave, LeaveAny, remove_member
<1> QED
  BY <1>1, <1>2, <1>3, <1>4 DEF Next, Heartbeat, Refused

\* Joins and leaves keep every committed offset; only a commit under the
\* current generation changes one.
THEOREM OffsetsSafe == Spec => OffsetsSurviveRebalance
<1> QED
  BY GroupInvariant, OffsetsStep, PTL DEF Spec, OffsetsSurviveRebalance

-----------------------------------------------------------------------------
(* The assignment.                                                         *)

\* No member is ahead of the group.
MembersOk ==
  /\ IsFiniteSet(DOMAIN group.members)
  /\ \A m \in DOMAIN group.members : group.members[m].generation <= group.generation

\* remove_member leaves the assignment as it was; it is one of the current members as
\* long as some member has the generation of the group.
AssignedOk ==
  /\ group.generation < MaxGeneration
  /\ \E m \in DOMAIN group.members : group.members[m].generation = group.generation
  => group.assignments = assign(group.members, Partitions)

\* The places of the elements of a finite set of numbers are 0, 1, ... without a gap,
\* so that kth finds an element.
LEMMA KthExists ==
  ASSUME NEW ids \in SUBSET Nat, IsFiniteSet(ids), NEW k \in 0 .. Cardinality(ids) - 1
  PROVE  kth(ids, k) \in ids
<1> DEFINE below(m) == {n \in ids : n < m}
           last == Cardinality(ids) - 1
           place == [m \in ids |-> Cardinality(below(m))]
<1>1. Cardinality(ids) \in Nat
  BY FS_CardinalityType
<1>2. ASSUME NEW m \in ids
      PROVE  /\ IsFiniteSet(below(m)) /\ Cardinality(below(m)) \in Nat
             /\ IsFiniteSet(below(m) \cup {m})
             /\ Cardinality(below(m) \cup {m}) = Cardinality(below(m)) + 1
  <2>1. below(m) \in SUBSET ids /\ m \notin below(m)
    OBVIOUS
  <2>2. IsFiniteSet(below(m))
    BY <2>1, FS_Subset
  <2> HIDE DEF below
  <2> QED
    BY <2>1, <2>2, FS_CardinalityType, FS_AddElement
<1>3. ASSUME NEW m \in ids PROVE Cardinality(below(m)) \in 0 .. last
  <2>1. below(m) \cup {m} \in SUBSET ids
    OBVIOUS
  <2>2. Cardinality(below(m) \cup {m}) <= Cardinality(ids)
    BY <2>1, FS_Subset
  <2> HIDE DEF below
  <2> QED
    BY <1>1, <1>2, <2>2
<1>4. ASSUME NEW m \in ids, NEW n \in ids, m < n
      PROVE  Cardinality(below(m)) < Cardinality(below(n))
  <2>1. below(m) \cup {m} \in SUBSET below(n)
    <3>1. ASSUME NEW x \in below(m) PROVE x \in below(n)
      <4>1. x \in ids /\ x < m /\ x \in Nat /\ m \in Nat /\ n \in Nat
        OBVIOUS
      <4>2. x < n
        BY <1>4, <4>1
      <4> QED
        BY <4>1, <4>2
    <3>2. m \in below(n)
      BY <1>4
    <3> HIDE DEF below
    <3> QED
      BY <3>1, <3>2
  <2>2. IsFiniteSet(below(n))
    BY <1>2
  <2> HIDE DEF below
  <2>3. Cardinality(below(m) \cup {m}) <= Cardinality(below(n))
    BY <2>1, <2>2, FS_Subset
  <2>4. Cardinality(below(m)) \in Nat /\ Cardinality(below(n)) \in Nat
    BY <1>2
  <2>5. Cardinality(below(m) \cup {m}) = Cardinality(below(m)) + 1
    BY <1>2
  <2> QED
    BY <2>3, <2>4, <2>5
<1> HIDE DEF below
<1>5. \A m, n \in ids : m # n => place[m] # place[n]
  <2> SUFFICES ASSUME NEW m \in ids, NEW n \in ids, m # n PROVE place[m] # place[n]
    OBVIOUS
  <2>1. m < n \/ n < m
    OBVIOUS
  <2>2. /\ place[m] = Cardinality(below(m)) /\ place[n] = Cardinality(below(n))
        /\ Cardinality(below(m)) \in Nat /\ Cardinality(below(n)) \in Nat
    BY <1>2
  <2> QED
    BY <1>4, <2>1, <2>2
<1>6. place \in [ids -> 0 .. last]
  BY <1>3
<1>7. place \in Injection(ids, 0 .. last)
  <2>1. IsInjective(place)
    BY <1>5, <1>6 DEF IsInjective
  <2> QED
    BY <1>6, <2>1 DEF Injection
<1>8. IsFiniteSet(0 .. last) /\ Cardinality(0 .. last) = Cardinality(ids)
  <2>1. last \in Int /\ k \in 0 .. last
    BY <1>1
  <2> QED
    BY <1>1, <2>1, FS_Interval
<1>9. place \in Surjection(ids, 0 .. last)
  BY <1>7, <1>8, FS_Injection
<1>10. PICK m \in ids : place[m] = k
  BY <1>9 DEF Surjection
<1>11. Cardinality({n \in ids : n < m}) = k
  BY <1>10 DEF below
<1> QED
  BY <1>11 DEF kth

\* A partition of a topic with subscribers goes to one of them.
LEMMA OwnerEligible ==
  ASSUME NEW members, DOMAIN members \subseteq Nat, IsFiniteSet(DOMAIN members),
         NEW i \in 1 .. Len(Partitions), eligible(members, Partitions[i].topic) # {}
  PROVE  owner(members, Partitions, i) \in eligible(members, Partitions[i].topic)
<1> DEFINE ids == eligible(members, Partitions[i].topic)
<1>1. ids \in SUBSET DOMAIN members
  BY DEF eligible
<1> HIDE DEF ids
<1>2. IsFiniteSet(ids) /\ ids \in SUBSET Nat
  BY <1>1, FS_Subset
<1>3. Cardinality(ids) \in Nat /\ Cardinality(ids) # 0
  BY <1>2, FS_CardinalityType, FS_EmptySet DEF ids
<1>4. i - 1 \in Nat
  BY GroupCoordinatorAssumption
<1>5. (i - 1) % Cardinality(ids) \in 0 .. Cardinality(ids) - 1
  BY <1>3, <1>4
<1>6. kth(ids, (i - 1) % Cardinality(ids)) \in ids
  BY <1>2, <1>5, KthExists
<1> QED
  BY <1>6 DEF owner, ids

\* assign gives each partition to its owner and to nobody else.
LEMMA AssignExact ==
  ASSUME NEW members, DOMAIN members \subseteq Nat, IsFiniteSet(DOMAIN members),
         NEW i \in 1 .. Len(Partitions)
  PROVE  LET owners == {m \in DOMAIN assign(members, Partitions) :
                          Partitions[i] \in assign(members, Partitions)[m]}
         IN  IF eligible(members, Partitions[i].topic) = {} THEN owners = {}
             ELSE owners = {owner(members, Partitions, i)}
<1> DEFINE given == assign(members, Partitions)
<1>1. DOMAIN given = DOMAIN members
  BY DEF assign
<1>2. ASSUME NEW m \in DOMAIN members
      PROVE  Partitions[i] \in given[m] <=> /\ eligible(members, Partitions[i].topic) # {}
                                           /\ owner(members, Partitions, i) = m
  BY GroupCoordinatorAssumption DEF assign
<1>3. eligible(members, Partitions[i].topic) # {} => owner(members, Partitions, i) \in DOMAIN members
  BY OwnerEligible DEF eligible
<1> HIDE DEF given
<1> QED
  BY <1>1, <1>2, <1>3 DEF given

LEMMA AssignedInit == Init => MembersOk /\ AssignedOk
<1> SUFFICES ASSUME Init PROVE MembersOk /\ AssignedOk
  OBVIOUS
<1>1. DOMAIN group.members = {}
  BY DEF Init, new_group
<1> QED
  BY <1>1, FS_EmptySet DEF MembersOk, AssignedOk

\* A join computes the assignment anew; a leave puts the group ahead of all members.
LEMMA AssignedNext == IInv /\ MembersOk /\ AssignedOk /\ [Next]_vars => (MembersOk /\ AssignedOk)'
<1> SUFFICES ASSUME IInv, MembersOk, AssignedOk, [Next]_vars PROVE MembersOk' /\ AssignedOk'
  OBVIOUS
<1> DEFINE g == next_generation(group.generation)
<1>1. /\ g \in 1 .. MaxGeneration /\ g >= group.generation
      /\ group.generation < MaxGeneration => g > group.generation
      /\ group.generation \in 0 .. MaxGeneration
  BY NextGeneration DEF IInv, TypeOK
<1>2. \A m \in DOMAIN group.members :
        group.members[m].generation \in Nat /\ group.members[m].generation <= group.generation
  BY GroupAssumption DEF IInv, TypeOK, MembersOk
<1>3. ASSUME group'.generation = group.generation, group'.members = group.members,
             group'.assignments = group.assignments
      PROVE  MembersOk' /\ AssignedOk'
  BY <1>3 DEF MembersOk, AssignedOk
<1>4. ASSUME NEW c \in Client, NEW m \in Member, NEW s \in Subscription, Join(c, m, s)
      PROVE  MembersOk' /\ AssignedOk'
  <2> DEFINE members == with_member(group.members, m, [subscriptions |-> s, generation |-> g])
  <2>1. /\ group'.generation = g /\ group'.members = members
        /\ group'.assignments = assign(members, Partitions)
    BY <1>4 DEF Join, join
  <2>2. DOMAIN members = DOMAIN group.members \cup {m}
    BY DEF with_member
  <2>3. IsFiniteSet(DOMAIN members)
    BY <2>2, FS_AddElement DEF MembersOk
  <2>4. \A x \in DOMAIN members : members[x].generation = g \/ (x \in DOMAIN group.members /\ members[x] = group.members[x])
    BY DEF with_member
  <2> HIDE DEF members, g
  <2>5. \A x \in DOMAIN members : members[x].generation <= g
    BY <1>1, <1>2, <2>4, GroupAssumption
  <2> QED
    BY <2>1, <2>3, <2>5 DEF MembersOk, AssignedOk
<1>5. ASSUME NEW m, group' = remove_member(group, m)
      PROVE  MembersOk' /\ AssignedOk'
  <2>1. /\ group'.generation = g
        /\ group'.members = [x \in DOMAIN group.members \ {m} |-> group.members[x]]
    BY <1>5 DEF remove_member
  <2>2. /\ DOMAIN group'.members = DOMAIN group.members \ {m}
        /\ \A x \in DOMAIN group'.members : group'.members[x] = group.members[x]
    BY <2>1
  <2>3. IsFiniteSet(DOMAIN group'.members)
    BY <2>2, FS_RemoveElement DEF MembersOk
  <2> HIDE DEF g
  <2>4. \A x \in DOMAIN group'.members :
          /\ group'.members[x].generation <= g
          /\ g < MaxGeneration => group'.members[x].generation # g
    BY <1>1, <1>2, <2>2, GroupAssumption
  <2> QED
    BY <2>1, <2>3, <2>4 DEF MembersOk, AssignedOk
<1>6. ASSUME NEW c \in Client, Leave(c) \/ LeaveAny(c) PROVE MembersOk' /\ AssignedOk'
  BY <1>5, <1>6 DEF Leave, LeaveAny
<1>7. ASSUME NEW c \in Client, NEW p, NEW o, CommitOffset(c, p, o) PROVE MembersOk' /\ AssignedOk'
  BY <1>3, <1>7 DEF CommitOffset, commit_offset
<1>8. CASE UNCHANGED vars
  BY <1>3, <1>8 DEF vars
<1>9. ASSUME NEW c \in Client, Heartbeat(c) \/ Refused(c) PROVE MembersOk' /\ AssignedOk'
  BY <1>8, <1>9 DEF Heartbeat, Refused
<1> QED
  BY <1>4, <1>6, <1>7, <1>8, <1>9 DEF Next

\* As long as any heartbeat is accepted below the last generation, the assignment in
\* force gives each partition of a subscribed topic to exactly one member, which
\* subscribes to it: for any number of members, topics and partitions.
THEOREM AssignmentsExact == Spec => []AssignmentExact
<1>1. IInv /\ MembersOk /\ AssignedOk => AssignmentExact
  <2> SUFFICES ASSUME IInv, MembersOk, AssignedOk,
                      assignment_in_force, group.generation < MaxGeneration
               PROVE  /\ DOMAIN group.assignments = DOMAIN group.members
                      /\ \A i \in 1 .. Len(Partitions) :
                           LET p == Partitions[i]
                               owners == {m \in DOMAIN group.assignments : p \in group.assignments[m]}
                           IN  IF eligible(group.members, p.topic) = {} THEN owners = {}
                               ELSE Cardinality(owners) = 1 /\ owners \subseteq eligible(group.members, p.topic)
    BY DEF AssignmentExact
  <2>1. \E m \in DOMAIN group.members : group.members[m].generation = group.generation
    BY DEF assignment_in_force, heartbeat_error
  <2>2. group.assignments = assign(group.members, Partitions)
    BY <2>1 DEF AssignedOk
  <2>3. DOMAIN group.members \subseteq Nat /\ IsFiniteSet(DOMAIN group.members)
    BY GroupCoordinatorAssumption DEF IInv, TypeOK, MembersOk
  <2>4. DOMAIN group.assignments = DOMAIN group.members
    BY <2>2 DEF assign
  <2>5. ASSUME NEW i \in 1 .. Len(Partitions)
        PROVE  LET p == Partitions[i]
                   owners == {m \in DOMAIN group.assignments : p \in group.assignments[m]}
               IN  IF eligible(group.members, p.topic) = {} THEN owners = {}
                   ELSE Cardinality(owners) = 1 /\ owners \subseteq eligible(group.members, p.topic)
    <3> DEFINE owners == {m \in DOMAIN group.assignments : Partitions[i] \in group.assignments[m]}
    <3>1. IF eligible(group.members, Partitions[i].topic) = {} THEN owners = {}
          ELSE owners = {owner(group.members, Partitions, i)}
      BY <2>2, <2>3, AssignExact
    <3>2. eligible(group.members, Partitions[i].topic) # {}
          => owner(group.members, Partitions, i) \in eligible(group.members, Partitions[i].topic)
      BY <2>3, OwnerEligible
    <3> HIDE DEF owners
    <3>3. eligible(group.members, Partitions[i].topic) # {} => Cardinality(owners) = 1
      BY <3>1, FS_Singleton
    <3> QED
      BY <3>1, <3>2, <3>3 DEF owners
  <2> QED
    BY <2>4, <2>5
<1>2. Spec => [](MembersOk /\ AssignedOk)
  BY AssignedInit, AssignedNext, GroupInvariant, PTL DEF Spec
<1> QED
  BY <1>1, <1>2, GroupInvariant, PTL
=============================================================================
