------------------------ MODULE ShardShutdownProofs -------------------------
(***************************************************************************)
(* TLAPS proof that shutdown of ShardRuntime is final, for any number of   *)
(* threads and shards, any mailbox capacity and any number of attempts.    *)
(* Broker::shutdown only counts Stopped replies; the proof shows that the  *)
(* count stands for the shards themselves.                                 *)
(***************************************************************************)
EXTENDS ShardRuntime, FiniteSetTheorems, TLAPS

Down == {s \in Shard : ~running[s]}
stopping(c) == pc[c] \in {"stop_send", "stop_wait"}

ShutdownTypes ==
  /\ running \in [Shard -> BOOLEAN]
  /\ DOMAIN answering = Shard /\ DOMAIN pc = Client /\ DOMAIN target = Client
  /\ acks \in Nat
  /\ \A c \in Client : stopping(c) => target[c] \in Nat

\* A task answers what it has applied before it takes the Shutdown command.
DownAnswered == \A s \in Down : answering[s] = NoCall

\* One thread gets past the flag, and its shutdown is open as long as it is at it.
OneStops ==
  /\ \A c, d \in Client : stopping(c) /\ stopping(d) => c = d
  /\ \A c \in Client : stopping(c) => stopped /\ shutdown = "none"
  /\ ~stopped => shutdown = "none"

\* Each shard that is down has sent one Stopped reply, and the reply is in the channel
\* or was taken out by the thread that shuts down.
AcksOk ==
  /\ ~stopped => Cardinality(Down) = acks
  /\ \A c \in Client : pc[c] = "stop_send" => Cardinality(Down) = acks
  /\ \A c \in Client : pc[c] = "stop_wait" => Cardinality(Down) = acks + target[c]

OkMeansDown == shutdown = "Ok" => Down = Shard

\* The inductive invariant.
ShutdownInv == ShutdownTypes /\ DownAnswered /\ OneStops /\ AcksOk /\ OkMeansDown

-----------------------------------------------------------------------------
\* The shards are finitely many, and so are those that are down.
LEMMA Finite ==
  /\ IsFiniteSet(Shard) /\ Cardinality(Shard) = ShardCount
  /\ IsFiniteSet(Down) /\ Cardinality(Down) \in Nat /\ Cardinality(Down) <= ShardCount
  /\ Cardinality(Down) = ShardCount => Down = Shard
<1>1. ShardCount \in Nat \ {0}
  BY RuntimeAssumption
<1>2. IsFiniteSet(Shard) /\ Cardinality(Shard) = ShardCount
  BY <1>1, FS_Interval DEF Shard
<1>3. Down \in SUBSET Shard
  BY DEF Down
<1>4. /\ IsFiniteSet(Down) /\ Cardinality(Down) <= Cardinality(Shard)
      /\ Cardinality(Shard) = Cardinality(Down) => Shard = Down
  BY <1>2, <1>3, FS_Subset
<1>5. Cardinality(Down) \in Nat
  BY <1>4, FS_CardinalityType
<1> QED
  BY <1>2, <1>4, <1>5

\* All shards run at first.
LEMMA InitOk == Init => ShutdownInv
<1> SUFFICES ASSUME Init PROVE ShutdownInv
  OBVIOUS
<1>1. Down = {}
  BY DEF Init, Down
<1>2. Cardinality(Down) = 0
  BY <1>1, FS_EmptySet
<1>3. \A c \in Client : pc[c] = "idle"
  BY DEF Init
<1>4. ShutdownTypes
  BY <1>3 DEF Init, ShutdownTypes, stopping
<1> QED
  BY <1>1, <1>2, <1>3, <1>4 DEF Init, ShutdownInv, DownAnswered, OneStops, AcksOk, OkMeansDown, stopping

-----------------------------------------------------------------------------
(* The steps.                                                              *)

\* A step of a thread that is not shutting down, to a place outside shutdown.
outside(c) ==
  /\ UNCHANGED <<running, answering, acks, stopped, shutdown>>
  /\ ~stopping(c)
  /\ \E place \in {"idle", "send", "wait"} : \E t : goto(c, place, t)

LEMMA OutsideOk ==
  ASSUME ShutdownInv, NEW c \in Client, outside(c)
  PROVE  ShutdownInv'
<1>1. PICK place \in {"idle", "send", "wait"} : \E t : goto(c, place, t)
  BY DEF outside
<1>2. /\ \A d \in Client \ {c} : pc'[d] = pc[d] /\ target'[d] = target[d]
      /\ pc'[c] = place /\ DOMAIN pc' = Client /\ DOMAIN target' = Client
  BY <1>1 DEF goto, ShutdownInv, ShutdownTypes
<1>3. /\ \A d \in Client : stopping(d)' => d # c /\ stopping(d) /\ target'[d] = target[d] /\ pc'[d] = pc[d]
      /\ \A d \in Client : pc'[d] \in {"stop_send", "stop_wait"} => stopping(d)'
  BY <1>2 DEF stopping
<1>4. Down' = Down
  BY DEF outside, Down
<1>5. ShutdownTypes'
  BY <1>2, <1>3 DEF ShutdownInv, ShutdownTypes, outside
<1>6. DownAnswered' /\ OkMeansDown'
  BY <1>4 DEF ShutdownInv, DownAnswered, OkMeansDown, outside
<1>7. OneStops'
  BY <1>3 DEF ShutdownInv, OneStops, outside
<1>8. AcksOk'
  BY <1>3, <1>4 DEF ShutdownInv, AcksOk, outside
<1> QED
  BY <1>5, <1>6, <1>7, <1>8 DEF ShutdownInv

\* A step that leaves everything the invariant is about as it is.
LEMMA IdleOk ==
  ASSUME ShutdownInv, UNCHANGED <<running, answering, acks, stopped, shutdown, pc, target>>
  PROVE  ShutdownInv'
BY DEF ShutdownInv, ShutdownTypes, DownAnswered, OneStops, AcksOk, OkMeansDown, Down, stopping

\* The flag lets one thread pass.
LEMMA BeginShutdownOk ==
  ASSUME ShutdownInv, NEW c \in Client, BeginShutdown(c)
  PROVE  ShutdownInv'
<1>1. /\ ~stopped /\ stopped' /\ shutdown' = shutdown /\ shutdown = "none"
      /\ running' = running /\ answering' = answering /\ acks' = acks
      /\ Cardinality(Down) = acks
  BY DEF BeginShutdown, shardVars, ShutdownInv, OneStops, AcksOk
<1>2. /\ \A d \in Client \ {c} : pc'[d] = pc[d] /\ target'[d] = target[d]
      /\ pc'[c] = "stop_send" /\ target'[c] = 0 /\ DOMAIN pc' = Client /\ DOMAIN target' = Client
  BY DEF BeginShutdown, goto, ShutdownInv, ShutdownTypes
<1>3. \A d \in Client : ~stopping(d)
  BY <1>1 DEF ShutdownInv, OneStops
<1>4. \A d \in Client : (stopping(d)' => d = c) /\ pc'[d] # "stop_wait"
                        /\ (pc'[d] = "stop_send" => d = c)
  BY <1>2, <1>3 DEF stopping
<1>5. Down' = Down
  BY <1>1 DEF Down
<1>6. ShutdownTypes'
  BY <1>1, <1>2, <1>4 DEF ShutdownInv, ShutdownTypes
<1>7. DownAnswered' /\ OkMeansDown' /\ OneStops'
  BY <1>1, <1>4, <1>5 DEF ShutdownInv, DownAnswered, OkMeansDown, OneStops
<1>8. AcksOk'
  BY <1>1, <1>4, <1>5 DEF AcksOk
<1> QED
  BY <1>6, <1>7, <1>8 DEF ShutdownInv

\* The commands go out; nothing that was counted changes.
LEMMA SendShutdownOk ==
  ASSUME ShutdownInv, NEW c \in Client, SendShutdown(c)
  PROVE  ShutdownInv'
<1>1. /\ pc[c] = "stop_send" /\ stopping(c) /\ target[c] \in Nat
      /\ UNCHANGED <<running, answering, acks, stopped, shutdown>>
      /\ Cardinality(Down) = acks
  BY DEF SendShutdown, try_send, ShutdownInv, ShutdownTypes, AcksOk, stopping
<1>2. /\ \A d \in Client \ {c} : pc'[d] = pc[d] /\ target'[d] = target[d]
      /\ DOMAIN pc' = Client /\ DOMAIN target' = Client
      /\ \/ pc'[c] = "stop_send" /\ target'[c] \in Nat
         \/ pc'[c] = "stop_wait" /\ target'[c] = 0
  BY <1>1 DEF SendShutdown, goto, ShutdownInv, ShutdownTypes
<1>3. \A d \in Client : stopping(d) => d = c
  BY <1>1 DEF ShutdownInv, OneStops
<1>4. \A d \in Client : /\ stopping(d)' => d = c
                        /\ pc'[d] \in {"stop_send", "stop_wait"} => d = c
  BY <1>2, <1>3 DEF stopping
<1>5. Down' = Down
  BY <1>1 DEF Down
<1>6. ShutdownTypes'
  BY <1>1, <1>2, <1>4 DEF ShutdownInv, ShutdownTypes
<1>7. DownAnswered' /\ OkMeansDown'
  BY <1>1, <1>5 DEF ShutdownInv, DownAnswered, OkMeansDown
<1>8. OneStops'
  BY <1>1, <1>4 DEF ShutdownInv, OneStops
<1>9. AcksOk'
  <2>1. acks + 0 = acks
    BY DEF ShutdownInv, ShutdownTypes
  <2> QED
    BY <1>1, <1>2, <1>4, <1>5, <2>1 DEF ShutdownInv, OneStops, AcksOk
<1> QED
  BY <1>6, <1>7, <1>8, <1>9 DEF ShutdownInv

\* With the last acknowledgement every shard is down.
LEMMA TakeAckOk ==
  ASSUME ShutdownInv, NEW c \in Client, TakeAck(c)
  PROVE  ShutdownInv'
<1>1. /\ pc[c] = "stop_wait" /\ stopping(c) /\ target[c] \in Nat /\ acks \in Nat
      /\ acks > 0 /\ acks' = acks - 1
      /\ UNCHANGED <<running, answering, stopped>>
      /\ stopped /\ shutdown = "none"
      /\ Cardinality(Down) = acks + target[c]
  BY DEF TakeAck, ShutdownInv, ShutdownTypes, OneStops, AcksOk, stopping
<1>2. /\ \A d \in Client \ {c} : pc'[d] = pc[d] /\ target'[d] = target[d]
      /\ DOMAIN pc' = Client /\ DOMAIN target' = Client
      /\ \/ pc'[c] = "stop_wait" /\ target'[c] = target[c] + 1 /\ shutdown' = shutdown
         \/ pc'[c] = "idle" /\ shutdown' = "Ok" /\ ~(target[c] + 1 < ShardCount)
  BY <1>1 DEF TakeAck, goto, ShutdownInv, ShutdownTypes
<1>3. \A d \in Client : stopping(d) => d = c
  BY <1>1 DEF ShutdownInv, OneStops
<1>4. \A d \in Client : /\ stopping(d)' => d = c /\ pc'[c] = "stop_wait"
                        /\ pc'[d] \in {"stop_send", "stop_wait"} => d = c /\ pc'[c] = "stop_wait"
  BY <1>2, <1>3 DEF stopping
<1>5. Down' = Down
  BY <1>1 DEF Down
<1>6. ShutdownTypes'
  BY <1>1, <1>2, <1>4 DEF ShutdownInv, ShutdownTypes
<1>7. DownAnswered'
  BY <1>1, <1>5 DEF ShutdownInv, DownAnswered
<1>8. OneStops'
  BY <1>1, <1>2, <1>4 DEF OneStops
<1>9. AcksOk'
  <2>1. pc'[c] = "stop_wait" => Cardinality(Down) = acks' + target'[c]
    BY <1>1, <1>2
  <2> QED
    BY <1>1, <1>4, <1>5, <2>1 DEF AcksOk
<1>10. OkMeansDown'
  <2>1. shutdown' = "Ok" => ~(target[c] + 1 < ShardCount)
    BY <1>1, <1>2
  <2>2. shutdown' = "Ok" => Cardinality(Down) = ShardCount
    BY <1>1, <2>1, Finite, RuntimeAssumption
  <2> QED
    BY <1>5, <2>2, Finite DEF OkMeansDown, Shard
<1> QED
  BY <1>6, <1>7, <1>8, <1>9, <1>10 DEF ShutdownInv

\* A shutdown that gives up never claims Ok.
LEMMA ShutdownFailsOk ==
  ASSUME ShutdownInv, NEW c \in Client, ShutdownFails(c)
  PROVE  ShutdownInv'
<1>1. /\ stopping(c) /\ stopped /\ shutdown' = "Failed"
      /\ UNCHANGED <<running, answering, acks, stopped>>
  BY DEF ShutdownFails, shardVars, ShutdownInv, OneStops, stopping
<1>2. /\ \A d \in Client \ {c} : pc'[d] = pc[d]
      /\ DOMAIN pc' = Client /\ DOMAIN target' = Client /\ pc'[c] = "idle"
  BY DEF ShutdownFails, goto, ShutdownInv, ShutdownTypes
<1>3. \A d \in Client : stopping(d) => d = c
  BY <1>1 DEF ShutdownInv, OneStops
<1>4. \A d \in Client : ~stopping(d)' /\ pc'[d] \notin {"stop_send", "stop_wait"}
  BY <1>2, <1>3 DEF stopping
<1>5. Down' = Down
  BY <1>1 DEF Down
<1>6. ShutdownTypes'
  BY <1>1, <1>2, <1>4 DEF ShutdownInv, ShutdownTypes
<1>7. DownAnswered' /\ OkMeansDown' /\ OneStops' /\ AcksOk'
  BY <1>1, <1>4, <1>5 DEF ShutdownInv, DownAnswered, OkMeansDown, OneStops, AcksOk
<1> QED
  BY <1>6, <1>7 DEF ShutdownInv

\* A task that applies or answers a command is not down.
LEMMA WorkOk ==
  ASSUME ShutdownInv, NEW s \in Shard, Apply(s) \/ Respond(s)
  PROVE  ShutdownInv'
<1>1. /\ UNCHANGED <<running, acks, stopped, shutdown, pc, target>>
      /\ DOMAIN answering' = Shard
      /\ \A t \in Shard \ {s} : answering'[t] = answering[t]
      /\ running[s] \/ answering'[s] = NoCall
  BY DEF Apply, Respond, callerVars, ShutdownInv, ShutdownTypes
<1>2. Down' = Down
  BY <1>1 DEF Down
<1>3. \A c \in Client : stopping(c)' = stopping(c)
  BY <1>1 DEF stopping
<1>4. DownAnswered'
  BY <1>1, <1>2 DEF ShutdownInv, DownAnswered, Down
<1>5. ShutdownTypes' /\ OneStops' /\ AcksOk' /\ OkMeansDown'
  BY <1>1, <1>2, <1>3 DEF ShutdownInv, ShutdownTypes, OneStops, AcksOk, OkMeansDown
<1> QED
  BY <1>4, <1>5 DEF ShutdownInv

\* A shard goes down and its acknowledgement is counted as long as somebody counts.
LEMMA StopOk ==
  ASSUME ShutdownInv, NEW s \in Shard, Stop(s)
  PROVE  ShutdownInv'
<1>1. /\ running[s] /\ answering[s] = NoCall /\ acks \in Nat
      /\ running' = [running EXCEPT ![s] = FALSE]
      /\ acks' = IF shutdown = "none" THEN acks + 1 ELSE acks
      /\ UNCHANGED <<answering, stopped, shutdown, pc, target>>
  BY DEF Stop, callerVars, ShutdownInv, ShutdownTypes
<1>2. Down' = Down \cup {s} /\ s \notin Down
  BY <1>1 DEF Down, ShutdownInv, ShutdownTypes
<1>3. Cardinality(Down') = Cardinality(Down) + 1
  BY <1>2, Finite, FS_AddElement
<1>4. \A c \in Client : stopping(c)' = stopping(c)
  BY <1>1 DEF stopping
<1>5. ShutdownTypes'
  BY <1>1, <1>4 DEF ShutdownInv, ShutdownTypes
<1>6. DownAnswered' /\ OneStops'
  BY <1>1, <1>2, <1>4 DEF ShutdownInv, DownAnswered, OneStops
<1>7. OkMeansDown'
  BY <1>1, <1>2 DEF ShutdownInv, OkMeansDown, Down
<1>8. AcksOk'
  <2>1. shutdown = "none" => acks' = acks + 1
    BY <1>1
  <2>2. ~stopped => Cardinality(Down') = acks'
    BY <1>1, <1>3, <2>1 DEF ShutdownInv, OneStops, AcksOk
  <2>3. ASSUME NEW c \in Client, pc[c] = "stop_send"
        PROVE  Cardinality(Down') = acks'
    BY <1>1, <1>3, <2>1, <2>3 DEF ShutdownInv, OneStops, AcksOk, stopping
  <2>4. ASSUME NEW c \in Client, pc[c] = "stop_wait"
        PROVE  Cardinality(Down') = acks' + target[c]
    <3>1. target[c] \in Nat /\ shutdown = "none" /\ Cardinality(Down) = acks + target[c]
      BY <2>4 DEF ShutdownInv, ShutdownTypes, OneStops, AcksOk, stopping
    <3> QED
      BY <1>1, <1>3, <2>1, <3>1
  <2> QED
    BY <1>1, <2>2, <2>3, <2>4 DEF AcksOk
<1> QED
  BY <1>5, <1>6, <1>7, <1>8 DEF ShutdownInv

LEMMA NextOk == ShutdownInv /\ [Next]_vars => ShutdownInv'
<1> SUFFICES ASSUME ShutdownInv, [Next]_vars PROVE ShutdownInv'
  OBVIOUS
<1>1. CASE UNCHANGED vars
  BY <1>1, IdleOk DEF vars, shardVars, callerVars
<1>2. ASSUME NEW c \in Client, NEW s \in Shard, BeginCall(c, s) PROVE ShutdownInv'
  <2>1. outside(c)
    BY <1>2 DEF BeginCall, shardVars, outside, stopping
  <2> QED
    BY <2>1, OutsideOk
<1>3. ASSUME NEW c \in Client, BeginShutdown(c) \/ RepeatShutdown(c) PROVE ShutdownInv'
  BY <1>3, BeginShutdownOk, IdleOk DEF RepeatShutdown, vars, shardVars, callerVars
<1>4. ASSUME NEW c \in Client, SendCall(c) PROVE ShutdownInv'
  <2>1. outside(c)
    BY <1>4 DEF SendCall, try_send, outside, stopping
  <2> QED
    BY <2>1, OutsideOk
<1>5. ASSUME NEW c \in Client, SendAgain(c) \/ WaitAgain(c) PROVE ShutdownInv'
  BY <1>5, IdleOk DEF SendAgain, WaitAgain, park, shardVars
<1>6. ASSUME NEW c \in Client, SendFails(c) \/ TakeReply(c) \/ WaitFails(c) PROVE ShutdownInv'
  <2>1. outside(c)
    BY <1>6 DEF SendFails, TakeReply, WaitFails, finish, shardVars, outside, stopping
  <2> QED
    BY <2>1, OutsideOk
<1>7. ASSUME NEW c \in Client, SendShutdown(c) \/ TakeAck(c) \/ ShutdownFails(c) PROVE ShutdownInv'
  BY <1>7, SendShutdownOk, TakeAckOk, ShutdownFailsOk
<1>8. ASSUME NEW s \in Shard, Apply(s) \/ Respond(s) \/ Stop(s) PROVE ShutdownInv'
  BY <1>8, WorkOk, StopOk
<1> QED
  BY <1>1, <1>2, <1>3, <1>4, <1>5, <1>6, <1>7, <1>8 DEF Next, CallerStep

\* A shard that is down takes no step, whatever threads still send to it.
LEMMA DownStaysQuiet ==
  ASSUME ShutdownInv, [Next]_vars, shutdown = "Ok"
  PROVE  /\ \A s \in Shard : ~running[s] /\ answering[s] = NoCall
         /\ UNCHANGED <<history, replied>>
<1>1. \A s \in Shard : ~running[s] /\ answering[s] = NoCall
  BY DEF ShutdownInv, OkMeansDown, DownAnswered, Down
<1>2. \A s \in Shard : ~Apply(s) /\ ~Respond(s) /\ ~Stop(s)
  BY <1>1 DEF Apply, Respond, Stop
<1>3. CASE UNCHANGED vars
  BY <1>1, <1>3 DEF vars, shardVars
<1>4. ASSUME NEW c \in Client,
             \/ \E s \in Shard : BeginCall(c, s)
             \/ BeginShutdown(c) \/ RepeatShutdown(c)
             \/ SendCall(c) \/ SendAgain(c) \/ SendFails(c) \/ TakeReply(c) \/ WaitAgain(c)
             \/ WaitFails(c) \/ SendShutdown(c) \/ TakeAck(c) \/ ShutdownFails(c)
      PROVE  UNCHANGED <<history, replied>>
  BY <1>4 DEF BeginCall, BeginShutdown, RepeatShutdown, SendCall, SendAgain, SendFails, TakeReply,
              WaitAgain, WaitFails, SendShutdown, TakeAck, ShutdownFails, try_send, park, finish,
              shardVars, vars
<1> QED
  BY <1>1, <1>2, <1>3, <1>4 DEF Next, CallerStep

\* Once Broker::shutdown has returned Ok, no shard runs, nothing is half way, and no
\* command takes effect or is answered any more, for any number of threads and shards:
\* collecting one Stopped reply per shard is enough, although the replies do not say
\* whose they are.
THEOREM ShutdownFinal == Spec => ShutdownIsFinal
<1>1. Spec => []ShutdownInv
  BY InitOk, NextOk, PTL DEF Spec
<1>2. ShutdownInv /\ [Next]_vars
      => [shutdown = "Ok" => /\ \A s \in Shard : ~running[s] /\ answering[s] = NoCall
                             /\ UNCHANGED <<history, replied>>]_vars
  BY DownStaysQuiet
<1> QED
  BY <1>1, <1>2, PTL DEF Spec, ShutdownIsFinal
=============================================================================
