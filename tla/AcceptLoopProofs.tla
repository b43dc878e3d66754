-------------------------- MODULE AcceptLoopProofs --------------------------
(***************************************************************************)
(* TLAPS proofs about AcceptLoop, for any number of clients and faults,    *)
(* any hash and any pool of session shards: every client taken out of the  *)
(* line is exactly one connection, and the counter of active connections   *)
(* is what the sessions make it.                                           *)
(***************************************************************************)
EXTENDS AcceptLoop, FiniteSetTheorems, TLAPS

\* A client is in one of three places: not yet here, in the line, or a connection.
ClientsOk ==
  /\ clients \in Nat /\ waiting \in Nat /\ next_connection \in Nat
  /\ next_connection = MaxClients - clients - waiting

LayoutOk ==
  /\ layout.first_shard \in Nat /\ layout.shard_count \in Nat \ {0}
  /\ \A c \in DOMAIN placed :
       placed[c] \in layout.first_shard .. layout.first_shard + layout.shard_count - 1

\* A connection runs, has ended or was dropped, and only one of them.
ConnectionsOk ==
  /\ IsFiniteSet(DOMAIN placed) /\ IsFiniteSet(ended) /\ IsFiniteSet(dropped)
  /\ DOMAIN placed \cap ended = {} /\ DOMAIN placed \cap dropped = {} /\ ended \cap dropped = {}
  /\ DOMAIN placed \cup ended \cup dropped = 1 .. next_connection

CountsOk ==
  /\ Cardinality(DOMAIN placed) + Cardinality(ended) + Cardinality(dropped) = next_connection
  /\ front = "el0" => active = Cardinality(DOMAIN placed) + Cardinality(dropped)

\* The inductive invariant.
IInv == ClientsOk /\ LayoutOk /\ ConnectionsOk /\ CountsOk

-----------------------------------------------------------------------------
\* shard_for stays in the pool.
LEMMA ShardInPool ==
  ASSUME IInv, NEW c \in 1 .. MaxClients
  PROVE  shard_for(layout, c) \in layout.first_shard .. layout.first_shard + layout.shard_count - 1
<1>1. /\ layout.first_shard \in Nat /\ layout.shard_count \in Nat \ {0}
      /\ Mix(c) \in Nat
  BY AcceptAssumption DEF IInv, LayoutOk
<1> DEFINE r == Mix(c) % layout.shard_count
<1>2. r \in 0 .. layout.shard_count - 1
  BY <1>1
<1> HIDE DEF r
<1>3. shard_for(layout, c) = layout.first_shard + r
  BY DEF shard_for, r
<1> QED
  BY <1>1, <1>2, <1>3

\* Nothing is accepted yet.
LEMMA InitOk == Init => IInv
<1> SUFFICES ASSUME Init PROVE IInv
  OBVIOUS
<1>1. DOMAIN placed = {} /\ ended = {} /\ dropped = {} /\ next_connection = 0 /\ active = 0
  BY DEF Init
<1>2. ClientsOk
  BY AcceptAssumption DEF Init, ClientsOk
<1>3. LayoutOk
  <2>1. PICK n \in PoolSizes : layout = new_layout(0, n)
    BY DEF Init
  <2>2. n \in Nat
    BY AcceptAssumption
  <2>3. layout.first_shard = 0 /\ layout.shard_count \in Nat \ {0}
    BY <2>1, <2>2 DEF new_layout
  <2> QED
    BY <1>1, <2>3 DEF LayoutOk
<1>4. ConnectionsOk
  BY <1>1, FS_EmptySet DEF ConnectionsOk
<1>5. CountsOk
  <2>1. Cardinality({}) = 0
    BY FS_EmptySet
  <2> QED
    BY <1>1, <2>1 DEF CountsOk
<1> QED
  BY <1>2, <1>3, <1>4, <1>5 DEF IInv

\* A session ends: its connection goes from the running to the ended ones.
LEMMA EndSessionOk ==
  ASSUME IInv, NEW c \in DOMAIN placed, EndSession(c)
  PROVE  IInv'
<1> USE DEF IInv
<1>1. /\ DOMAIN placed' = DOMAIN placed \ {c}
      /\ \A d \in DOMAIN placed \ {c} : placed'[d] = placed[d]
      /\ ended' = ended \cup {c}
      /\ active' = (IF front = "el0" THEN active - 1 ELSE active)
      /\ UNCHANGED <<front, layout, waiting, next_connection, dropped, clients>>
  BY DEF EndSession, without
<1>2. /\ IsFiniteSet(DOMAIN placed \ {c}) /\ IsFiniteSet(ended \cup {c})
      /\ Cardinality(DOMAIN placed \ {c}) = Cardinality(DOMAIN placed) - 1
      /\ Cardinality(ended \cup {c}) = Cardinality(ended) + 1
  BY FS_AddElement, FS_RemoveElement DEF ConnectionsOk
<1>3. /\ Cardinality(DOMAIN placed) \in Nat /\ Cardinality(ended) \in Nat
      /\ Cardinality(dropped) \in Nat
  BY FS_CardinalityType DEF ConnectionsOk
<1>4. ClientsOk' /\ LayoutOk'
  BY <1>1 DEF ClientsOk, LayoutOk
<1>5. ConnectionsOk'
  BY <1>1, <1>2 DEF ConnectionsOk
<1>6. CountsOk'
  BY <1>1, <1>2, <1>3 DEF CountsOk
<1> QED
  BY <1>4, <1>5, <1>6

\* A client is accepted: its connection, with a new number, runs or is dropped.
LEMMA AcceptedOk ==
  ASSUME IInv, waiting > 0, waiting' = waiting - 1,
         next_connection' = next_connection + 1, spawn(next_connection + 1),
         front = "el0" => active' = active + 1,
         UNCHANGED <<front, layout, clients>>
  PROVE  IInv'
<1> USE DEF IInv
<1>1. PICK c \in 1 .. MaxClients : c = next_connection + 1
  BY AcceptAssumption DEF ClientsOk
<1>2. c \notin DOMAIN placed /\ c \notin ended /\ c \notin dropped
  <2>1. c \notin 1 .. next_connection
    BY <1>1 DEF ClientsOk
  <2> QED
    BY <2>1 DEF ConnectionsOk
<1>3. /\ Cardinality(DOMAIN placed) \in Nat /\ Cardinality(ended) \in Nat
      /\ Cardinality(dropped) \in Nat
  BY FS_CardinalityType DEF ConnectionsOk
<1>4. 1 .. next_connection + 1 = (1 .. next_connection) \cup {c}
  BY <1>1 DEF ClientsOk
<1>5. ClientsOk'
  BY AcceptAssumption DEF ClientsOk
<1>6. CASE /\ placed' = [d \in DOMAIN placed \cup {c} |->
                           IF d = c THEN shard_for(layout, c) ELSE placed[d]]
           /\ UNCHANGED <<ended, dropped>>
  <2>1. /\ DOMAIN placed' = DOMAIN placed \cup {c}
        /\ \A d \in DOMAIN placed' : placed'[d] = IF d = c THEN shard_for(layout, c) ELSE placed[d]
        /\ ended' = ended /\ dropped' = dropped
    BY <1>6
  <2>2. IsFiniteSet(DOMAIN placed \cup {c}) /\ Cardinality(DOMAIN placed \cup {c}) = Cardinality(DOMAIN placed) + 1
    BY <1>2, FS_AddElement DEF ConnectionsOk
  <2>3. LayoutOk'
    BY <2>1, ShardInPool DEF LayoutOk
  <2>4. ConnectionsOk'
    BY <1>2, <1>4, <2>1, <2>2 DEF ConnectionsOk
  <2>5. CountsOk'
    BY <1>3, <2>1, <2>2 DEF CountsOk
  <2> QED
    BY <1>5, <2>3, <2>4, <2>5
<1>7. CASE dropped' = dropped \cup {c} /\ UNCHANGED <<placed, ended>>
  <2>1. IsFiniteSet(dropped \cup {c}) /\ Cardinality(dropped \cup {c}) = Cardinality(dropped) + 1
    BY <1>2, FS_AddElement DEF ConnectionsOk
  <2>2. LayoutOk'
    BY <1>7 DEF LayoutOk
  <2>3. ConnectionsOk'
    BY <1>2, <1>4, <1>7, <2>1 DEF ConnectionsOk
  <2>4. CountsOk'
    BY <1>3, <1>7, <2>1 DEF CountsOk
  <2> QED
    BY <1>5, <2>2, <2>3, <2>4
<1> QED
  BY <1>1, <1>6, <1>7 DEF spawn

\* Every step keeps the invariant.
LEMMA NextOk == IInv /\ [Next]_vars => IInv'
<1> SUFFICES ASSUME IInv, [Next]_vars PROVE IInv'
  OBVIOUS
<1>1. ASSUME UNCHANGED <<front, layout, waiting, clients, next_connection, active, placed, ended, dropped>>
      PROVE  IInv'
  BY <1>1 DEF IInv, ClientsOk, LayoutOk, ConnectionsOk, CountsOk
<1>2. CASE Connect
  <2>1. ClientsOk'
    BY <1>2, AcceptAssumption DEF Connect, diagnostics, IInv, ClientsOk
  <2> QED
    BY <1>2, <2>1 DEF Connect, diagnostics, sessions, IInv, LayoutOk, ConnectionsOk, CountsOk
<1>3. ASSUME NEW c \in DOMAIN placed, EndSession(c) PROVE IInv'
  BY <1>3, EndSessionOk
<1>4. CASE HostAccept
  BY <1>4, AcceptedOk DEF HostAccept
<1>5. CASE TryAccept
  <2>1. CASE waiting > 0 /\ waiting' = waiting - 1 /\ accepted
    BY <1>5, <2>1, AcceptedOk DEF TryAccept, accepted
  <2>2. CASE UNCHANGED <<waiting, diagnostics, sessions, faults>>
    BY <1>1, <1>5, <2>2 DEF TryAccept, diagnostics, sessions
  <2> QED
    BY <1>5, <2>1, <2>2 DEF TryAccept
<1>6. CASE BreakListener \/ RequestShutdown \/ StopHandle \/ Join
  BY <1>1, <1>6 DEF BreakListener, RequestShutdown, StopHandle, Join, diagnostics, sessions
<1>7. CASE CheckStop \/ WouldBlock \/ HostAcceptError \/ Open \/ Listen
  BY <1>1, <1>7 DEF CheckStop, WouldBlock, HostAcceptError, Open, Listen, diagnostics, sessions
<1>8. CASE UNCHANGED vars
  BY <1>1, <1>8 DEF vars, diagnostics, sessions
<1> QED
  BY <1>2, <1>3, <1>4, <1>5, <1>6, <1>7, <1>8 DEF Next, Loop

\* However accepts fail, listeners are replaced and threads do not start, every client
\* taken out of the line is one connection on a shard of the pool, and the counter
\* of active connections is exact up to the sessions that never started.
THEOREM ConnectionsAccounted == Spec => []SessionsAccounted
<1>1. IInv => SessionsAccounted
  BY DEF IInv, ClientsOk, LayoutOk, ConnectionsOk, CountsOk, SessionsAccounted
<1> QED
  BY <1>1, InitOk, NextOk, PTL DEF Spec
=============================================================================
