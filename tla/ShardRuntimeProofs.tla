------------------------- MODULE ShardRuntimeProofs -------------------------
(***************************************************************************)
(* TLAPS proofs about ShardRuntime, for any number of threads, shards and  *)
(* calls, any mailbox capacity and any number of attempts: the runtime     *)
(* implements CallService, and the commands of a thread take effect on a   *)
(* shard in the order in which the thread issued them.                     *)
(*                                                                         *)
(* The argument: a command is put into a mailbox only by its thread, only  *)
(* while the thread is in "send", and that is left for good with the first *)
(* success.  So the line of a shard (what it applied, then what is queued) *)
(* holds each call at most once and in the order of issue, no call is in   *)
(* two lines, and a call still in "send" is in none.                       *)
(***************************************************************************)
EXTENDS ShardRuntime, SequenceTheorems, FiniteSetTheorems, TLAPS

Command == [kind : {"Work", "Shutdown"}, call : Call \cup {NoCall}]
Outcome == {"none", "inflight", "Ok", "MailboxUnavailable", "ReplyTimeout"}

\* The values of the runtime's state (struct Broker, the shards, the callers).
TypeOK ==
  /\ mailbox \in [Shard -> Seq(Command)]
  /\ history \in [Shard -> Seq(Call)]
  /\ answering \in [Shard -> Call \cup {NoCall}]
  /\ replied \subseteq Call
  /\ pc \in [Client -> {"idle", "send", "wait", "stop_send", "stop_wait"}]
  /\ calls \in [Client -> 0 .. MaxCalls]
  /\ target \in [Client -> Shard]
  /\ outcome \in [Call -> Outcome]

\* A thread inside a call has an unfinished call, and the calls it has started are
\* those with an outcome.
CallsOk ==
  /\ \A c \in Client : pc[c] \in {"send", "wait"}
                         => calls[c] >= 1 /\ outcome[current(c)] = "inflight"
  /\ \A k \in Call : outcome[k] = "none" <=> k[2] > calls[k[1]]

\* The thread of call k may have sent it: it is not in "send" with it.
sent(k) ==
  \/ k[2] < calls[k[1]]
  \/ k[2] = calls[k[1]] /\ pc[k[1]] # "send"

work(s, i) == i \in 1 .. Len(mailbox[s]) /\ mailbox[s][i].kind = "Work"

\* What is in a line was sent; what is queued has not returned Ok or an error that
\* says it will not be applied.
SentOk ==
  /\ \A s \in Shard : \A i \in 1 .. Len(history[s]) : sent(history[s][i])
  /\ \A s \in Shard : \A i \in 1 .. Len(mailbox[s]) : work(s, i) =>
       /\ mailbox[s][i].call \in Call
       /\ sent(mailbox[s][i].call)
       /\ outcome[mailbox[s][i].call] \in {"inflight", "ReplyTimeout"}

\* Call a was issued before call b, if one thread issued both.
before(a, b) == a[1] = b[1] => a[2] < b[2]

\* Each line is in the order of issue, and no two lines share a call.
HistoriesOk ==
  \A s, t \in Shard : \A i \in 1 .. Len(history[s]), j \in 1 .. Len(history[t]) :
    /\ s # t => history[s][i] # history[t][j]
    /\ s = t /\ i < j => before(history[s][i], history[t][j])

HistoryThenMailbox ==
  \A s, t \in Shard : \A i \in 1 .. Len(history[s]), j \in 1 .. Len(mailbox[t]) :
    work(t, j) => /\ s # t => history[s][i] # mailbox[t][j].call
                  /\ s = t => before(history[s][i], mailbox[t][j].call)

MailboxesOk ==
  \A s, t \in Shard : \A i \in 1 .. Len(mailbox[s]), j \in 1 .. Len(mailbox[t]) :
    work(s, i) /\ work(t, j) =>
      /\ s # t => mailbox[s][i].call # mailbox[t][j].call
      /\ s = t /\ i < j => before(mailbox[s][i].call, mailbox[t][j].call)

\* Only what was applied is answered.
RepliesOk ==
  /\ replied \subseteq applied
  /\ \A s \in Shard : answering[s] # NoCall => answering[s] \in applied

LinesOk == HistoriesOk /\ HistoryThenMailbox /\ MailboxesOk

\* The inductive invariant.
IInv == TypeOK /\ CallsOk /\ SentOk /\ LinesOk /\ RepliesOk

-----------------------------------------------------------------------------
\* The parts of a call.
LEMMA CallParts ==
  ASSUME NEW k \in Call
  PROVE  k[1] \in Client /\ k[2] \in Nat /\ k[2] >= 1 /\ k[2] <= MaxCalls /\ k = <<k[1], k[2]>>
BY RuntimeAssumption DEF Call

\* What is in a line, and that shard 0 exists.
LEMMA LineTypes ==
  ASSUME TypeOK
  PROVE  /\ 0 \in Shard
         /\ \A s \in Shard : /\ mailbox[s] \in Seq(Command) /\ Len(mailbox[s]) \in Nat
                             /\ history[s] \in Seq(Call) /\ Len(history[s]) \in Nat
         /\ \A s \in Shard : \A i \in 1 .. Len(history[s]) : history[s][i] \in Call
         /\ \A s \in Shard : \A i \in 1 .. Len(mailbox[s]) : mailbox[s][i] \in Command
<1>1. 0 \in Shard
  BY RuntimeAssumption DEF Shard
<1>2. ASSUME NEW s \in Shard
      PROVE  /\ mailbox[s] \in Seq(Command) /\ Len(mailbox[s]) \in Nat
             /\ history[s] \in Seq(Call) /\ Len(history[s]) \in Nat
  BY DEF TypeOK
<1>3. ASSUME NEW s \in Shard, NEW i \in 1 .. Len(history[s])
      PROVE  history[s][i] \in Call
  BY <1>2, ElementOfSeq
<1>4. ASSUME NEW s \in Shard, NEW i \in 1 .. Len(mailbox[s])
      PROVE  mailbox[s][i] \in Command
  BY <1>2, ElementOfSeq
<1> QED
  BY <1>1, <1>2, <1>3, <1>4

\* A command put at the end of a mailbox: the others stay where they are.
puts(s, cmd) == mailbox' = [mailbox EXCEPT ![s] = Append(@, cmd)]
one_more(s, cmd) ==
  \A t \in Shard : \A i \in 1 .. Len(mailbox'[t]) :
    \/ i \in 1 .. Len(mailbox[t]) /\ mailbox'[t][i] = mailbox[t][i]
    \/ t = s /\ i = Len(mailbox[s]) + 1 /\ mailbox'[t][i] = cmd

LEMMA PutEffect ==
  ASSUME TypeOK, NEW s \in Shard, NEW cmd \in Command, puts(s, cmd)
  PROVE  mailbox' \in [Shard -> Seq(Command)] /\ one_more(s, cmd)
<1>1. /\ mailbox[s] \in Seq(Command) /\ Len(mailbox[s]) \in Nat
      /\ mailbox \in [Shard -> Seq(Command)]
  BY LineTypes DEF TypeOK
<1> DEFINE q == Append(mailbox[s], cmd)
<1>2. /\ q \in Seq(Command) /\ Len(q) = Len(mailbox[s]) + 1
      /\ \A i \in 1 .. Len(mailbox[s]) : q[i] = mailbox[s][i]
      /\ q[Len(mailbox[s]) + 1] = cmd
  BY <1>1, AppendProperties
<1>3. mailbox'[s] = q /\ \A t \in Shard : t # s => mailbox'[t] = mailbox[t]
  BY <1>1 DEF puts
<1>4. mailbox' \in [Shard -> Seq(Command)]
  BY <1>1, <1>2 DEF puts
<1> HIDE DEF q
<1>5. ASSUME NEW i \in 1 .. Len(q)
      PROVE  \/ i \in 1 .. Len(mailbox[s]) /\ q[i] = mailbox[s][i]
             \/ i = Len(mailbox[s]) + 1 /\ q[i] = cmd
  BY <1>1, <1>2
<1> QED
  BY <1>3, <1>4, <1>5 DEF one_more

\* The oldest command taken from a mailbox: the others move up by one.
up(t, s) == IF t = s THEN 1 ELSE 0
takes(s) == mailbox[s] # <<>> /\ mailbox' = [mailbox EXCEPT ![s] = Tail(@)]
moved_up(s) ==
  \A t \in Shard : \A i \in 1 .. Len(mailbox'[t]) :
    /\ i + up(t, s) \in 1 .. Len(mailbox[t])
    /\ mailbox'[t][i] = mailbox[t][i + up(t, s)]

LEMMA TakeEffect ==
  ASSUME TypeOK, NEW s \in Shard, takes(s)
  PROVE  /\ mailbox' \in [Shard -> Seq(Command)]
         /\ 1 \in 1 .. Len(mailbox[s]) /\ Head(mailbox[s]) = mailbox[s][1]
         /\ moved_up(s)
<1>1. /\ mailbox[s] \in Seq(Command) /\ Len(mailbox[s]) \in Nat
      /\ mailbox \in [Shard -> Seq(Command)]
  BY LineTypes DEF TypeOK
<1> DEFINE q == Tail(mailbox[s])
<1>2. /\ q \in Seq(Command) /\ Len(q) = Len(mailbox[s]) - 1
      /\ \A i \in 1 .. Len(q) : q[i] = mailbox[s][i + 1]
      /\ Len(mailbox[s]) > 0
  BY <1>1, EmptySeq, HeadTailProperties DEF takes
<1>3. mailbox'[s] = q /\ \A t \in Shard : t # s => mailbox'[t] = mailbox[t]
  BY <1>1 DEF takes
<1>4. mailbox' \in [Shard -> Seq(Command)]
  BY <1>1, <1>2 DEF takes
<1> HIDE DEF q
<1>5. \A i \in 1 .. Len(q) : i + 1 \in 1 .. Len(mailbox[s])
  BY <1>1, <1>2
<1>6. 1 \in 1 .. Len(mailbox[s]) /\ Head(mailbox[s]) = mailbox[s][1]
  BY <1>1, <1>2
<1>7. ASSUME NEW t \in Shard, NEW i \in 1 .. Len(mailbox'[t])
      PROVE  /\ i + up(t, s) \in 1 .. Len(mailbox[t])
             /\ mailbox'[t][i] = mailbox[t][i + up(t, s)]
  <2>1. CASE t = s
    BY <1>2, <1>3, <1>5, <2>1 DEF up
  <2>2. CASE t # s
    <3>1. i + 0 = i
      OBVIOUS
    <3> QED
      BY <1>3, <2>2, <3>1 DEF up
  <2> QED
    BY <2>1, <2>2
<1> QED
  BY <1>4, <1>6, <1>7 DEF moved_up

\* A call added to a history.
records(s, k) == history' = [history EXCEPT ![s] = Append(@, k)]
one_longer(s, k) ==
  \A t \in Shard : \A i \in 1 .. Len(history'[t]) :
    \/ i \in 1 .. Len(history[t]) /\ history'[t][i] = history[t][i]
    \/ t = s /\ i = Len(history[s]) + 1 /\ history'[t][i] = k

LEMMA RecordEffect ==
  ASSUME TypeOK, NEW s \in Shard, NEW k \in Call, records(s, k)
  PROVE  /\ history' \in [Shard -> Seq(Call)]
         /\ applied' = applied \cup {k}
         /\ one_longer(s, k)
<1>1. /\ history[s] \in Seq(Call) /\ Len(history[s]) \in Nat
      /\ history \in [Shard -> Seq(Call)]
  BY LineTypes DEF TypeOK
<1> DEFINE h == Append(history[s], k)
<1>2. /\ h \in Seq(Call) /\ Len(h) = Len(history[s]) + 1
      /\ \A i \in 1 .. Len(history[s]) : h[i] = history[s][i]
      /\ h[Len(history[s]) + 1] = k
  BY <1>1, AppendProperties
<1>3. history'[s] = h /\ \A t \in Shard : t # s => history'[t] = history[t]
  BY <1>1 DEF records
<1>4. history' \in [Shard -> Seq(Call)]
  BY <1>1, <1>2 DEF records
<1> HIDE DEF h
<1>5. ASSUME NEW i \in 1 .. Len(h)
      PROVE  \/ i \in 1 .. Len(history[s]) /\ h[i] = history[s][i]
             \/ i = Len(history[s]) + 1 /\ h[i] = k
  BY <1>1, <1>2
<1>6. ASSUME NEW t \in Shard, NEW i \in 1 .. Len(history'[t])
      PROVE  \/ i \in 1 .. Len(history[t]) /\ history'[t][i] = history[t][i]
             \/ t = s /\ i = Len(history[s]) + 1 /\ history'[t][i] = k
  BY <1>3, <1>5
<1>7. ASSUME NEW t \in Shard, NEW i \in 1 .. Len(history[t])
      PROVE  i \in 1 .. Len(history'[t]) /\ history'[t][i] = history[t][i]
  BY <1>1, <1>2, <1>3
<1>8. Len(history[s]) + 1 \in 1 .. Len(history'[s]) /\ history'[s][Len(history[s]) + 1] = k
  BY <1>1, <1>2, <1>3
<1>9. ASSUME NEW x PROVE x \in applied' <=> x \in applied \/ x = k
  <2>1. x \in applied <=> \E t \in Shard : \E i \in 1 .. Len(history[t]) : x = history[t][i]
    BY DEF applied
  <2>2. x \in applied' <=> \E t \in Shard : \E i \in 1 .. Len(history'[t]) : x = history'[t][i]
    BY DEF applied
  <2>3. ASSUME x \in applied' PROVE x \in applied \/ x = k
    BY <1>6, <2>1, <2>2, <2>3
  <2>4. ASSUME x \in applied \/ x = k PROVE x \in applied'
    BY <1>7, <1>8, <2>1, <2>2, <2>4
  <2> QED
    BY <2>3, <2>4
<1> QED
  BY <1>4, <1>6, <1>9 DEF one_longer

\* The numbers up to n are n.
LEMMA FirstNumbers ==
  ASSUME NEW n \in Nat
  PROVE  IsFiniteSet(1 .. n) /\ Cardinality(1 .. n) = n
<1>1. IsFiniteSet(1 .. n) /\ Cardinality(1 .. n) = IF 1 > n THEN 0 ELSE n - 1 + 1
  BY FS_Interval
<1>2. (IF 1 > n THEN 0 ELSE n - 1 + 1) = n
  OBVIOUS
<1> QED
  BY <1>1, <1>2

\* A thread that may start another call has a number left for it.
LEMMA NumberLeft ==
  ASSUME TypeOK, CallsOk, NEW c \in Client,
         Cardinality({k \in Call : outcome[k] # "none"}) < MaxCalls
  PROVE  calls[c] + 1 \in 1 .. MaxCalls /\ <<c, calls[c] + 1>> \in Call
<1> DEFINE begun == {k \in Call : outcome[k] # "none"}
           own == {c} \X (1 .. calls[c])
<1>1. calls[c] \in Nat /\ calls[c] <= MaxCalls /\ MaxCalls \in Nat
  BY RuntimeAssumption DEF TypeOK
<1>2. own \subseteq begun
  <2> SUFFICES ASSUME NEW k \in own PROVE k \in begun
    OBVIOUS
  <2>1. k \in Call /\ k[1] = c /\ k[2] <= calls[c] /\ k[2] \in Nat
    BY <1>1 DEF Call
  <2>2. ~(k[2] > calls[k[1]])
    BY <1>1, <2>1
  <2> QED
    BY <2>1, <2>2 DEF CallsOk
<1>3. IsFiniteSet(begun)
  <2>1. IsFiniteSet(1 .. MaxCalls)
    BY <1>1, FS_Interval
  <2>2. IsFiniteSet(Call)
    BY <2>1, RuntimeAssumption, FS_Product DEF Call
  <2> QED
    BY <2>2, FS_Subset
<1>4. Cardinality(own) = calls[c]
  <2>1. IsFiniteSet({c}) /\ Cardinality({c}) = 1
    BY FS_Singleton
  <2>2. IsFiniteSet(1 .. calls[c]) /\ Cardinality(1 .. calls[c]) = calls[c]
    BY <1>1, FirstNumbers
  <2>3. Cardinality(own) = Cardinality({c}) * Cardinality(1 .. calls[c])
    BY <2>1, <2>2, FS_Product
  <2> HIDE DEF own
  <2> QED
    BY <1>1, <2>1, <2>2, <2>3
<1>5. Cardinality(own) <= Cardinality(begun) /\ Cardinality(begun) \in Nat
  BY <1>2, <1>3, FS_Subset, FS_CardinalityType
<1> HIDE DEF own, begun
<1>6. calls[c] < MaxCalls
  <2>1. Cardinality(begun) < MaxCalls
    BY DEF begun
  <2> QED
    BY <1>1, <1>4, <1>5, <2>1
<1> QED
  BY <1>1, <1>6 DEF Call

\* A step that leaves mailboxes and histories alone keeps the lines.
LEMMA LinesFrame ==
  ASSUME LinesOk, UNCHANGED <<mailbox, history>>
  PROVE  LinesOk' /\ applied' = applied
BY DEF LinesOk, HistoriesOk, HistoryThenMailbox, MailboxesOk, work, before, applied

\* A step that leaves the histories alone keeps their order and what was applied.
LEMMA HistoriesFrame ==
  ASSUME HistoriesOk, history' = history
  PROVE  HistoriesOk'
BY DEF HistoriesOk, before

LEMMA AppliedFrame ==
  ASSUME history' = history
  PROVE  applied' = applied
BY DEF applied

\* The queued calls of the next state, compared one by one with what was applied
\* and with each other.
LEMMA HistoryThenMailboxIntro ==
  ASSUME history' = history,
         \A s, t \in Shard : \A i \in 1 .. Len(history[s]), j \in 1 .. Len(mailbox'[t]) :
           mailbox'[t][j].kind = "Work" =>
             /\ s # t => history[s][i] # mailbox'[t][j].call
             /\ s = t => before(history[s][i], mailbox'[t][j].call)
  PROVE  HistoryThenMailbox'
BY DEF HistoryThenMailbox, work, before

LEMMA MailboxesIntro ==
  ASSUME \A s, t \in Shard : \A i \in 1 .. Len(mailbox'[s]), j \in 1 .. Len(mailbox'[t]) :
           mailbox'[s][i].kind = "Work" /\ mailbox'[t][j].kind = "Work" =>
             /\ s # t => mailbox'[s][i].call # mailbox'[t][j].call
             /\ s = t /\ i < j => before(mailbox'[s][i].call, mailbox'[t][j].call)
  PROVE  MailboxesOk'
BY DEF MailboxesOk, work, before

LEMMA MailboxesApart ==
  ASSUME MailboxesOk, NEW s \in Shard, NEW t \in Shard,
         NEW i \in 1 .. Len(mailbox[s]), NEW j \in 1 .. Len(mailbox[t]),
         work(s, i), work(t, j)
  PROVE  /\ s # t => mailbox[s][i].call # mailbox[t][j].call
         /\ s = t /\ i < j => before(mailbox[s][i].call, mailbox[t][j].call)
BY DEF MailboxesOk

\* What was sent stays sent unless its thread enters "send" with it.
LEMMA SentStays ==
  ASSUME TypeOK, NEW c \in Client,
         \A d \in Client : d # c => pc'[d] = pc[d] /\ calls'[d] = calls[d],
         \/ calls'[c] = calls[c] /\ pc'[c] # "send"
         \/ calls'[c] = calls[c] /\ pc'[c] = pc[c]
         \/ calls'[c] = calls[c] + 1
  PROVE  \A k \in Call : sent(k) => sent(k)'
<1> SUFFICES ASSUME NEW k \in Call, sent(k) PROVE sent(k)'
  OBVIOUS
<1>1. k[1] \in Client /\ k[2] \in Nat
  BY CallParts
<1>2. calls[k[1]] \in Nat
  BY <1>1, RuntimeAssumption DEF TypeOK
<1>3. CASE k[1] # c
  BY <1>1, <1>3 DEF sent
<1>4. CASE k[1] = c
  BY <1>1, <1>2, <1>4 DEF sent
<1> QED
  BY <1>3, <1>4

\* The same for everything in a line.
LEMMA SentFrame ==
  ASSUME TypeOK, SentOk, UNCHANGED <<mailbox, history>>,
         \A k \in Call : sent(k) => sent(k)',
         \A s \in Shard : \A i \in 1 .. Len(mailbox[s]) :
           work(s, i) => outcome'[mailbox[s][i].call] \in {"inflight", "ReplyTimeout"}
  PROVE  SentOk'
<1>1. \A s \in Shard : \A i \in 1 .. Len(history[s]) : history[s][i] \in Call
  BY LineTypes
<1>2. \A s, i : work(s, i)' <=> work(s, i)
  BY DEF work
<1>3. ASSUME NEW s \in Shard, NEW i \in 1 .. Len(history'[s])
      PROVE  sent(history[s][i])'
  BY <1>1, <1>3 DEF SentOk, sent
<1>4. ASSUME NEW s \in Shard, NEW i \in 1 .. Len(mailbox'[s]), work(s, i)
      PROVE  /\ mailbox'[s][i].call \in Call
             /\ sent(mailbox[s][i].call)'
             /\ outcome'[mailbox'[s][i].call] \in {"inflight", "ReplyTimeout"}
  BY <1>4 DEF SentOk, sent
<1> QED
  BY <1>2, <1>3, <1>4 DEF SentOk

-----------------------------------------------------------------------------
\* Nothing is called, sent or applied yet.
LEMMA InitOk == Init => IInv
<1> SUFFICES ASSUME Init PROVE IInv
  OBVIOUS
<1>1. \A s \in Shard : Len(mailbox[s]) = 0 /\ Len(history[s]) = 0
  BY DEF Init
<1>2. TypeOK
  BY RuntimeAssumption DEF Init, TypeOK, Shard, Outcome
<1>3. CallsOk
  <2>1. ASSUME NEW k \in Call PROVE outcome[k] = "none" /\ k[2] > calls[k[1]]
    BY CallParts DEF Init
  <2> QED
    BY <2>1 DEF CallsOk, Init
<1>4. SentOk /\ LinesOk
  BY <1>1 DEF SentOk, LinesOk, HistoriesOk, HistoryThenMailbox, MailboxesOk
<1>5. RepliesOk
  BY DEF RepliesOk, Init
<1> QED
  BY <1>2, <1>3, <1>4, <1>5 DEF IInv

\* Broker::call takes the next number of its thread.
LEMMA BeginCallOk ==
  ASSUME IInv, NEW c \in Client, NEW s \in Shard, BeginCall(c, s)
  PROVE  IInv' /\ Service!Invoke(<<c, calls[c] + 1>>) /\ <<c, calls[c] + 1>> \in Call
<1> DEFINE new == <<c, calls[c] + 1>>
<1> USE DEF IInv
<1>1. /\ pc[c] = "idle"
      /\ pc' = [pc EXCEPT ![c] = "send"]
      /\ target' = [target EXCEPT ![c] = s]
      /\ calls' = [calls EXCEPT ![c] = @ + 1]
      /\ outcome' = [outcome EXCEPT ![new] = "inflight"]
      /\ UNCHANGED shardVars
  BY DEF BeginCall, goto
<1>2. calls[c] + 1 \in 1 .. MaxCalls /\ new \in Call /\ calls[c] \in Nat
  BY NumberLeft, RuntimeAssumption DEF BeginCall, TypeOK
<1>3. outcome[new] = "none"
  <2>1. new[1] = c /\ new[2] = calls[c] + 1
    OBVIOUS
  <2>2. new[2] > calls[new[1]]
    BY <1>2, <2>1
  <2> QED
    BY <1>2, <2>2 DEF CallsOk
<1>4. TypeOK'
  BY <1>1, <1>2, RuntimeAssumption DEF TypeOK, shardVars, Outcome
<1>5. CallsOk'
  <2>1. ASSUME NEW d \in Client, pc'[d] \in {"send", "wait"}
        PROVE  calls'[d] >= 1 /\ outcome'[<<d, calls'[d]>>] = "inflight"
    <3>1. CASE d = c
      BY <1>1, <1>2, <3>1 DEF TypeOK
    <3>2. CASE d # c
      <4>1. pc'[d] = pc[d] /\ calls'[d] = calls[d] /\ <<d, calls[d]>> # new
        BY <1>1, <3>2 DEF TypeOK
      <4>2. calls[d] >= 1 /\ outcome[<<d, calls[d]>>] = "inflight"
        BY <2>1, <4>1 DEF CallsOk, current
      <4>3. <<d, calls[d]>> \in Call
        BY <4>2, RuntimeAssumption DEF TypeOK, Call
      <4> QED
        BY <1>1, <4>1, <4>2, <4>3 DEF TypeOK
    <3> QED
      BY <3>1, <3>2
  <2>2. ASSUME NEW k \in Call PROVE outcome'[k] = "none" <=> k[2] > calls'[k[1]]
    <3>1. k[1] \in Client /\ k[2] \in Nat /\ k = <<k[1], k[2]>>
      BY CallParts
    <3>2. outcome[k] = "none" <=> k[2] > calls[k[1]]
      BY DEF CallsOk
    <3>3. CASE k = new
      <4>1. outcome'[k] = "inflight" /\ calls'[k[1]] = k[2]
        BY <1>1, <1>2, <3>3 DEF TypeOK
      <4> QED
        BY <3>1, <4>1
    <3>4. CASE k # new /\ k[1] = c
      <4>1. outcome'[k] = outcome[k] /\ calls'[k[1]] = calls[c] + 1
        BY <1>1, <3>1, <3>4 DEF TypeOK
      <4>2. k[2] # calls[c] + 1
        BY <3>1, <3>4
      <4> QED
        BY <1>2, <3>1, <3>2, <3>4, <4>1, <4>2
    <3>5. CASE k # new /\ k[1] # c
      <4>1. outcome'[k] = outcome[k] /\ calls'[k[1]] = calls[k[1]]
        BY <1>1, <3>1, <3>5 DEF TypeOK
      <4> QED
        BY <3>2, <4>1
    <3> QED
      BY <3>3, <3>4, <3>5
  <2> QED
    BY <2>1, <2>2 DEF CallsOk, current
<1>6. SentOk'
  <2>1. \A k \in Call : sent(k) => sent(k)'
    BY <1>1, SentStays DEF TypeOK
  <2>2. ASSUME NEW t \in Shard, NEW i \in 1 .. Len(mailbox[t]), work(t, i)
        PROVE  outcome'[mailbox[t][i].call] \in {"inflight", "ReplyTimeout"}
    <3>1. mailbox[t][i].call \in Call /\ outcome[mailbox[t][i].call] \in {"inflight", "ReplyTimeout"}
      BY <2>2 DEF SentOk
    <3> QED
      BY <1>1, <3>1 DEF TypeOK
  <2> QED
    BY <1>1, <2>1, <2>2, SentFrame DEF shardVars
<1>7. LinesOk' /\ applied' = applied
  BY <1>1, LinesFrame DEF shardVars
<1>8. RepliesOk'
  BY <1>1, <1>7 DEF RepliesOk, shardVars
<1>9. Service!Invoke(new)
  BY <1>1, <1>3, <1>7 DEF Service!Invoke
<1> QED
  BY <1>2, <1>4, <1>5, <1>6, <1>7, <1>8, <1>9

\* What is queued has not been applied.
LEMMA QueuedNotApplied ==
  ASSUME IInv, NEW t \in Shard, NEW j \in 1 .. Len(mailbox[t]), work(t, j)
  PROVE  mailbox[t][j].call \in Call /\ mailbox[t][j].call \notin applied
<1> USE DEF IInv
<1>1. mailbox[t][j].call \in Call
  BY DEF SentOk
<1>2. ASSUME NEW s \in Shard, NEW i \in 1 .. Len(history[s]), history[s][i] = mailbox[t][j].call
      PROVE  FALSE
  <2>1. mailbox[t][j].call[2] \in Nat
    BY <1>1, CallParts
  <2>2. s = t => before(history[s][i], mailbox[t][j].call)
    BY DEF LinesOk, HistoryThenMailbox
  <2>3. s = t
    BY <1>2 DEF LinesOk, HistoryThenMailbox
  <2> QED
    BY <1>2, <2>1, <2>2, <2>3 DEF before
<1> QED
  BY <1>1, <1>2 DEF applied

\* What is in a line comes before the call its thread is about to send.
LEMMA LinesBeforeSend ==
  ASSUME IInv, NEW c \in Client, pc[c] = "send"
  PROVE  /\ current(c) \in Call
         /\ \A s \in Shard : \A i \in 1 .. Len(history[s]) :
              before(history[s][i], current(c)) /\ history[s][i] # current(c)
         /\ \A s \in Shard : \A i \in 1 .. Len(mailbox[s]) :
              work(s, i) => before(mailbox[s][i].call, current(c)) /\ mailbox[s][i].call # current(c)
<1> USE DEF IInv
<1>1. calls[c] \in Nat /\ calls[c] >= 1 /\ calls[c] <= MaxCalls
  BY RuntimeAssumption DEF TypeOK, CallsOk
<1>2. current(c) \in Call /\ current(c)[1] = c /\ current(c)[2] = calls[c]
  BY <1>1, RuntimeAssumption DEF current, Call
<1>3. ASSUME NEW k \in Call, sent(k)
      PROVE  before(k, current(c)) /\ k # current(c)
  BY <1>1, <1>2, <1>3, CallParts DEF sent, before
<1>4. ASSUME NEW s \in Shard, NEW i \in 1 .. Len(history[s])
      PROVE  history[s][i] \in Call /\ sent(history[s][i])
  BY LineTypes DEF SentOk
<1>5. ASSUME NEW s \in Shard, NEW i \in 1 .. Len(mailbox[s]), work(s, i)
      PROVE  mailbox[s][i].call \in Call /\ sent(mailbox[s][i].call)
  BY <1>5 DEF SentOk
<1> QED
  BY <1>2, <1>3, <1>4, <1>5

\* A call returns: Ok only after a reply, MailboxUnavailable only before it is sent.
LEMMA FinishOk ==
  ASSUME IInv, NEW c \in Client, pc[c] \in {"send", "wait"},
         NEW result \in {"Ok", "MailboxUnavailable", "ReplyTimeout"}, finish(c, result),
         result = "Ok" => current(c) \in replied,
         result = "MailboxUnavailable" => pc[c] = "send"
  PROVE  IInv' /\ Service!Return(current(c), result) /\ current(c) \in Call
<1> DEFINE k == current(c)
<1> USE DEF IInv
<1>1. /\ pc' = [pc EXCEPT ![c] = "idle"]
      /\ target' = [target EXCEPT ![c] = 0]
      /\ outcome' = [outcome EXCEPT ![k] = result]
      /\ UNCHANGED <<shardVars, calls>>
  BY DEF finish, goto
<1>2. outcome[k] = "inflight" /\ calls[c] >= 1 /\ calls[c] <= MaxCalls /\ calls[c] \in Nat
  BY RuntimeAssumption DEF TypeOK, CallsOk
<1>3. k \in Call /\ k[1] = c /\ k[2] = calls[c]
  BY <1>2, RuntimeAssumption DEF current, Call
<1>4. result = "Ok" => k \in applied
  BY DEF RepliesOk
<1>5. result = "MailboxUnavailable" => k \notin applied
  BY LinesBeforeSend DEF applied
<1>6. LinesOk' /\ applied' = applied
  BY <1>1, LinesFrame DEF shardVars
<1>7. TypeOK'
  BY <1>1, LineTypes DEF TypeOK, shardVars, Outcome
<1>8. CallsOk'
  <2>1. ASSUME NEW d \in Client, pc'[d] \in {"send", "wait"}
        PROVE  calls'[d] >= 1 /\ outcome'[<<d, calls'[d]>>] = "inflight"
    <3>1. d # c
      BY <1>1, <2>1 DEF TypeOK
    <3>2. pc'[d] = pc[d] /\ calls'[d] = calls[d] /\ <<d, calls[d]>> # k
      BY <1>1, <3>1 DEF TypeOK, current
    <3>3. calls[d] >= 1 /\ outcome[<<d, calls[d]>>] = "inflight"
      BY <2>1, <3>2 DEF CallsOk, current
    <3>4. <<d, calls[d]>> \in Call
      BY <3>3, RuntimeAssumption DEF TypeOK, Call
    <3> QED
      BY <1>1, <3>2, <3>3, <3>4 DEF TypeOK
  <2>2. ASSUME NEW j \in Call PROVE outcome'[j] = "none" <=> j[2] > calls'[j[1]]
    <3>1. outcome[j] = "none" <=> j[2] > calls[j[1]]
      BY DEF CallsOk
    <3>2. outcome'[j] = "none" <=> outcome[j] = "none"
      BY <1>1, <1>2, <1>3 DEF TypeOK
    <3> QED
      BY <1>1, <3>1, <3>2
  <2> QED
    BY <2>1, <2>2 DEF CallsOk, current
<1>9. SentOk'
  <2>1. \A j \in Call : sent(j) => sent(j)'
    BY <1>1, SentStays DEF TypeOK
  <2>2. ASSUME NEW t \in Shard, NEW i \in 1 .. Len(mailbox[t]), work(t, i)
        PROVE  outcome'[mailbox[t][i].call] \in {"inflight", "ReplyTimeout"}
    <3>1. /\ mailbox[t][i].call \in Call /\ mailbox[t][i].call \notin applied
          /\ outcome[mailbox[t][i].call] \in {"inflight", "ReplyTimeout"}
      BY <2>2, QueuedNotApplied DEF SentOk
    <3>2. pc[c] = "send" => mailbox[t][i].call # k
      BY <2>2, LinesBeforeSend
    <3>3. mailbox[t][i].call = k => result = "ReplyTimeout"
      BY <1>4, <3>1, <3>2
    <3> QED
      BY <1>1, <3>1, <3>3 DEF TypeOK
  <2> QED
    BY <1>1, <2>1, <2>2, SentFrame DEF shardVars
<1>10. RepliesOk'
  BY <1>1, <1>6 DEF RepliesOk, shardVars
<1>11. Service!Return(k, result)
  BY <1>1, <1>2, <1>4, <1>5, <1>6 DEF Service!Return
<1> QED
  BY <1>3, <1>6, <1>7, <1>8, <1>9, <1>10, <1>11

\* A thread that is not inside a call moves: shutdown between two of its sends or
\* acknowledgements, or a thread that parks.
LEMMA QuietOk ==
  ASSUME IInv, UNCHANGED <<mailbox, answering, history, replied, calls, outcome>>,
         NEW c \in Client,
         \/ UNCHANGED <<pc, target>>
         \/ /\ pc[c] \notin {"send", "wait"}
            /\ \E place \in {"idle", "stop_send", "stop_wait"}, t \in Shard :
                 /\ pc' = [pc EXCEPT ![c] = place]
                 /\ target' = [target EXCEPT ![c] = t]
  PROVE  IInv' /\ UNCHANGED Service!serviceVars
<1> USE DEF IInv
<1>1. \A d \in Client : \/ pc'[d] = pc[d]
                        \/ d = c /\ pc'[d] \notin {"send", "wait"}
  BY DEF TypeOK
<1>2. LinesOk' /\ applied' = applied
  BY LinesFrame
<1>3. TypeOK'
  <2>1. /\ pc' \in [Client -> {"idle", "send", "wait", "stop_send", "stop_wait"}]
        /\ target' \in [Client -> Shard]
    <3>1. CASE UNCHANGED <<pc, target>>
      BY <3>1 DEF TypeOK
    <3>2. CASE \E place \in {"idle", "stop_send", "stop_wait"}, t \in Shard :
                 /\ pc' = [pc EXCEPT ![c] = place]
                 /\ target' = [target EXCEPT ![c] = t]
      BY <3>2 DEF TypeOK
    <3> QED
      BY <3>1, <3>2
  <2> QED
    BY <2>1 DEF TypeOK
<1>4. CallsOk'
  BY <1>1 DEF CallsOk, current
<1>5. SentOk'
  <2>1. \A j \in Call : sent(j) => sent(j)'
    BY <1>1, SentStays
  <2> QED
    BY <2>1, SentFrame DEF SentOk
<1>6. RepliesOk'
  BY <1>2 DEF RepliesOk
<1> QED
  BY <1>2, <1>3, <1>4, <1>5, <1>6 DEF Service!serviceVars

\* A thread puts its call at the end of a line, once: it leaves "send" with it.
LEMMA SendCallOk ==
  ASSUME IInv, NEW c \in Client, SendCall(c)
  PROVE  IInv' /\ UNCHANGED Service!serviceVars
<1> USE DEF IInv
<1>0. PICK t \in Shard, k \in Call : t = target[c] /\ k = current(c)
  BY LinesBeforeSend DEF SendCall, TypeOK
<1> DEFINE cmd == [kind |-> "Work", call |-> k]
<1>1. /\ pc[c] = "send"
      /\ mailbox' = [mailbox EXCEPT ![t] = Append(@, cmd)]
      /\ pc' = [pc EXCEPT ![c] = "wait"]
      /\ target' = [target EXCEPT ![c] = target[c]]
      /\ UNCHANGED <<answering, history, replied, calls, outcome>>
  BY <1>0 DEF SendCall, try_send, goto
<1>2. /\ k \in Call
      /\ \A s \in Shard : \A i \in 1 .. Len(history[s]) :
           before(history[s][i], k) /\ history[s][i] # k
      /\ \A s \in Shard : \A i \in 1 .. Len(mailbox[s]) :
           work(s, i) => before(mailbox[s][i].call, k) /\ mailbox[s][i].call # k
  BY <1>0, <1>1, LinesBeforeSend
<1>3. cmd \in Command
  BY DEF Command
<1>4. cmd.kind = "Work" /\ cmd.call = k
  OBVIOUS
<1> HIDE DEF cmd
<1>5. /\ mailbox' \in [Shard -> Seq(Command)]
      /\ \A s \in Shard : \A i \in 1 .. Len(mailbox'[s]) :
           \/ i \in 1 .. Len(mailbox[s]) /\ mailbox'[s][i] = mailbox[s][i]
           \/ s = t /\ i = Len(mailbox[t]) + 1 /\ mailbox'[s][i] = cmd
  <2>1. TypeOK /\ puts(t, cmd)
    BY <1>1 DEF puts
  <2>2. mailbox' \in [Shard -> Seq(Command)] /\ one_more(t, cmd)
    BY <1>3, <2>1, PutEffect
  <2> QED
    BY <2>2 DEF one_more
<1>6. Len(mailbox[t]) \in Nat
  BY <1>3, LineTypes
<1>7. TypeOK'
  BY <1>1, <1>5 DEF TypeOK
<1>8. applied' = applied
  BY <1>1 DEF applied
<1>9. CallsOk'
  <2>1. \A d \in Client : pc'[d] \in {"send", "wait"} => pc[d] \in {"send", "wait"}
    BY <1>1 DEF TypeOK
  <2>2. calls' = calls /\ outcome' = outcome
    BY <1>1
  <2> QED
    BY <2>1, <2>2 DEF CallsOk, current
<1>10. SentOk'
  <2> DEFINE sent_now(j) == \/ j[2] < calls'[j[1]]
                            \/ j[2] = calls'[j[1]] /\ pc'[j[1]] # "send"
  <2>1. \A j \in Call : sent(j) => sent_now(j)
    <3>1. \A j \in Call : sent(j) => sent(j)'
      BY <1>1, SentStays DEF TypeOK
    <3> QED
      BY <3>1 DEF sent
  <2>2. sent_now(k) /\ outcome[k] = "inflight"
    <3>1. k[1] = c /\ k[2] = calls[c] /\ pc'[c] = "wait"
      BY <1>0, <1>1 DEF current, TypeOK
    <3> QED
      BY <1>0, <1>1, <3>1 DEF CallsOk
  <2> HIDE DEF sent_now
  <2>3. ASSUME NEW s \in Shard, NEW i \in 1 .. Len(history'[s])
        PROVE  sent_now(history'[s][i])
    <3>1. history'[s][i] \in Call /\ sent(history'[s][i])
      BY <1>1, <2>3, LineTypes DEF SentOk
    <3> QED
      BY <2>1, <3>1
  <2>4. ASSUME NEW s \in Shard, NEW i \in 1 .. Len(mailbox'[s]), work(s, i)'
        PROVE  /\ mailbox'[s][i].call \in Call
               /\ sent_now(mailbox'[s][i].call)
               /\ outcome'[mailbox'[s][i].call] \in {"inflight", "ReplyTimeout"}
    <3>1. CASE i \in 1 .. Len(mailbox[s]) /\ mailbox'[s][i] = mailbox[s][i]
      <4>1. work(s, i)
        BY <2>4, <3>1 DEF work
      <4>2. /\ mailbox[s][i].call \in Call /\ sent(mailbox[s][i].call)
            /\ outcome[mailbox[s][i].call] \in {"inflight", "ReplyTimeout"}
        BY <3>1, <4>1 DEF SentOk
      <4> QED
        BY <1>1, <2>1, <3>1, <4>2
    <3>2. CASE mailbox'[s][i] = cmd
      BY <1>1, <1>2, <1>4, <2>2, <3>2
    <3> QED
      BY <1>5, <3>1, <3>2
  <2> QED
    BY <2>3, <2>4 DEF SentOk, sent, sent_now
<1>11. HistoriesOk'
  BY <1>1, HistoriesFrame DEF LinesOk
<1>12. HistoryThenMailbox'
  <2> SUFFICES ASSUME NEW s \in Shard, NEW r \in Shard,
                      NEW i \in 1 .. Len(history[s]), NEW j \in 1 .. Len(mailbox'[r]),
                      mailbox'[r][j].kind = "Work"
               PROVE  /\ s # r => history[s][i] # mailbox'[r][j].call
                      /\ s = r => before(history[s][i], mailbox'[r][j].call)
    <3>1. history' = history
      BY <1>1
    <3> QED
      BY <3>1, HistoryThenMailboxIntro
  <2>1. CASE j \in 1 .. Len(mailbox[r]) /\ mailbox'[r][j] = mailbox[r][j]
    BY <2>1 DEF LinesOk, HistoryThenMailbox, work
  <2>2. CASE mailbox'[r][j] = cmd
    BY <1>2, <1>4, <2>2
  <2> QED
    BY <1>5, <2>1, <2>2
<1>13. MailboxesOk'
  <2> SUFFICES ASSUME NEW s \in Shard, NEW r \in Shard,
                      NEW i \in 1 .. Len(mailbox'[s]), NEW j \in 1 .. Len(mailbox'[r]),
                      mailbox'[s][i].kind = "Work", mailbox'[r][j].kind = "Work"
               PROVE  /\ s # r => mailbox'[s][i].call # mailbox'[r][j].call
                      /\ s = r /\ i < j => before(mailbox'[s][i].call, mailbox'[r][j].call)
    BY MailboxesIntro
  <2>1. CASE /\ i \in 1 .. Len(mailbox[s]) /\ mailbox'[s][i] = mailbox[s][i]
             /\ j \in 1 .. Len(mailbox[r]) /\ mailbox'[r][j] = mailbox[r][j]
    BY <2>1 DEF LinesOk, MailboxesOk, work
  <2>2. CASE /\ i \in 1 .. Len(mailbox[s]) /\ mailbox'[s][i] = mailbox[s][i]
             /\ r = t /\ j = Len(mailbox[t]) + 1 /\ mailbox'[r][j] = cmd
    BY <1>2, <1>4, <2>2 DEF work
  <2>3. CASE /\ s = t /\ i = Len(mailbox[t]) + 1 /\ mailbox'[s][i] = cmd
             /\ j \in 1 .. Len(mailbox[r]) /\ mailbox'[r][j] = mailbox[r][j]
    <3>1. mailbox[r][j].call # k
      BY <1>2, <2>3 DEF work
    <3>2. s = r => ~(i < j)
      BY <1>6, <2>3
    <3> QED
      BY <1>4, <2>3, <3>1, <3>2
  <2>4. CASE /\ s = t /\ i = Len(mailbox[t]) + 1
             /\ r = t /\ j = Len(mailbox[t]) + 1
    BY <1>6, <2>4
  <2> QED
    BY <1>5, <2>1, <2>2, <2>3, <2>4
<1>14. RepliesOk'
  BY <1>1, <1>8 DEF RepliesOk
<1> QED
  BY <1>1, <1>7, <1>8, <1>9, <1>10, <1>11, <1>12, <1>13, <1>14 DEF LinesOk, Service!serviceVars

\* A Shutdown command behind the calls of a line changes nothing about them.
LEMMA SendShutdownOk ==
  ASSUME IInv, NEW c \in Client, SendShutdown(c)
  PROVE  IInv' /\ UNCHANGED Service!serviceVars
<1> USE DEF IInv
<1>0. PICK t \in Shard : t = target[c]
  BY DEF TypeOK
<1> DEFINE cmd == [kind |-> "Shutdown", call |-> NoCall]
<1>1. /\ pc[c] = "stop_send"
      /\ puts(t, cmd)
      /\ UNCHANGED <<answering, history, replied, calls, outcome>>
  BY <1>0 DEF SendShutdown, try_send, puts
<1>2. \E place \in {"stop_send", "stop_wait"}, u \in Shard :
        /\ pc' = [pc EXCEPT ![c] = place]
        /\ target' = [target EXCEPT ![c] = u]
  <2>1. CASE target[c] + 1 < ShardCount
    <3>1. target[c] + 1 \in Shard
      BY <1>0, <2>1, RuntimeAssumption DEF Shard
    <3> QED
      BY <2>1, <3>1 DEF SendShutdown, goto
  <2>2. CASE ~(target[c] + 1 < ShardCount)
    BY <2>2, LineTypes DEF SendShutdown, goto
  <2> QED
    BY <2>1, <2>2
<1>3. cmd \in Command /\ cmd.kind # "Work"
  BY DEF Command
<1> HIDE DEF cmd
<1>4. mailbox' \in [Shard -> Seq(Command)] /\ one_more(t, cmd)
  BY <1>1, <1>3, PutEffect
<1>5. ASSUME NEW s \in Shard, NEW i \in 1 .. Len(mailbox'[s]), mailbox'[s][i].kind = "Work"
      PROVE  i \in 1 .. Len(mailbox[s]) /\ mailbox'[s][i] = mailbox[s][i] /\ work(s, i)
  BY <1>3, <1>4, <1>5 DEF one_more, work
<1>6. \A d \in Client : \/ pc'[d] = pc[d]
                        \/ d = c /\ pc'[d] \notin {"send", "wait"}
  BY <1>2 DEF TypeOK
<1>7. TypeOK'
  BY <1>1, <1>2, <1>4 DEF TypeOK
<1>8. applied' = applied
  BY <1>1, AppliedFrame
<1>9. CallsOk'
  BY <1>1, <1>6 DEF CallsOk, current
<1>10. SentOk'
  <2> DEFINE sent_now(j) == \/ j[2] < calls'[j[1]]
                            \/ j[2] = calls'[j[1]] /\ pc'[j[1]] # "send"
  <2>1. \A j \in Call : sent(j) => sent_now(j)
    <3>1. \A j \in Call : sent(j) => sent(j)'
      BY <1>1, <1>6, SentStays
    <3> QED
      BY <3>1 DEF sent
  <2> HIDE DEF sent_now
  <2>2. ASSUME NEW s \in Shard, NEW i \in 1 .. Len(history'[s])
        PROVE  sent_now(history'[s][i])
    <3>1. history'[s][i] \in Call /\ sent(history'[s][i])
      BY <1>1, <2>2, LineTypes DEF SentOk
    <3> QED
      BY <2>1, <3>1
  <2>3. ASSUME NEW s \in Shard, NEW i \in 1 .. Len(mailbox'[s]), work(s, i)'
        PROVE  /\ mailbox'[s][i].call \in Call
               /\ sent_now(mailbox'[s][i].call)
               /\ outcome'[mailbox'[s][i].call] \in {"inflight", "ReplyTimeout"}
    <3>1. i \in 1 .. Len(mailbox[s]) /\ mailbox'[s][i] = mailbox[s][i] /\ work(s, i)
      BY <1>5, <2>3 DEF work
    <3>2. /\ mailbox[s][i].call \in Call /\ sent(mailbox[s][i].call)
          /\ outcome[mailbox[s][i].call] \in {"inflight", "ReplyTimeout"}
      BY <3>1 DEF SentOk
    <3> QED
      BY <1>1, <2>1, <3>1, <3>2
  <2> QED
    BY <2>2, <2>3 DEF SentOk, sent, sent_now
<1>11. LinesOk'
  <2>1. history' = history
    BY <1>1
  <2>2. HistoriesOk'
    BY <2>1, HistoriesFrame DEF LinesOk
  <2>3. HistoryThenMailbox'
    <3> SUFFICES ASSUME NEW s \in Shard, NEW r \in Shard,
                        NEW i \in 1 .. Len(history[s]), NEW j \in 1 .. Len(mailbox'[r]),
                        mailbox'[r][j].kind = "Work"
                 PROVE  /\ s # r => history[s][i] # mailbox'[r][j].call
                        /\ s = r => before(history[s][i], mailbox'[r][j].call)
      BY <2>1, HistoryThenMailboxIntro
    <3>1. j \in 1 .. Len(mailbox[r]) /\ mailbox'[r][j] = mailbox[r][j] /\ work(r, j)
      BY <1>5
    <3> QED
      BY <3>1 DEF LinesOk, HistoryThenMailbox
  <2>4. MailboxesOk'
    <3> SUFFICES ASSUME NEW s \in Shard, NEW r \in Shard,
                        NEW i \in 1 .. Len(mailbox'[s]), NEW j \in 1 .. Len(mailbox'[r]),
                        mailbox'[s][i].kind = "Work", mailbox'[r][j].kind = "Work"
                 PROVE  /\ s # r => mailbox'[s][i].call # mailbox'[r][j].call
                        /\ s = r /\ i < j => before(mailbox'[s][i].call, mailbox'[r][j].call)
      BY MailboxesIntro
    <3>1. i \in 1 .. Len(mailbox[s]) /\ mailbox'[s][i] = mailbox[s][i] /\ work(s, i)
      BY <1>5
    <3>2. j \in 1 .. Len(mailbox[r]) /\ mailbox'[r][j] = mailbox[r][j] /\ work(r, j)
      BY <1>5
    <3>3. /\ s # r => mailbox[s][i].call # mailbox[r][j].call
          /\ s = r /\ i < j => before(mailbox[s][i].call, mailbox[r][j].call)
      BY <3>1, <3>2, MailboxesApart DEF LinesOk
    <3> QED
      BY <3>1, <3>2, <3>3
  <2> QED
    BY <2>2, <2>3, <2>4 DEF LinesOk
<1>12. RepliesOk'
  BY <1>1, <1>8 DEF RepliesOk
<1> QED
  BY <1>1, <1>7, <1>8, <1>9, <1>10, <1>11, <1>12 DEF Service!serviceVars

\* A shard takes the oldest command of its mailbox: what stays queued is as it was.
LEMMA TakeOk ==
  ASSUME IInv, NEW s \in Shard, takes(s), UNCHANGED <<pc, calls, outcome>>
  PROVE  /\ mailbox' \in [Shard -> Seq(Command)]
         /\ MailboxesOk'
         /\ \A t \in Shard : \A j \in 1 .. Len(mailbox'[t]) : work(t, j)' =>
              /\ j + up(t, s) \in 1 .. Len(mailbox[t])
              /\ work(t, j + up(t, s))
              /\ mailbox'[t][j] = mailbox[t][j + up(t, s)]
              /\ mailbox'[t][j].call \in Call
              /\ sent(mailbox[t][j].call)'
              /\ outcome'[mailbox'[t][j].call] \in {"inflight", "ReplyTimeout"}
<1> USE DEF IInv
<1>1. mailbox' \in [Shard -> Seq(Command)] /\ moved_up(s)
  BY TakeEffect
<1>2. ASSUME NEW t \in Shard, NEW j \in 1 .. Len(mailbox'[t]), mailbox'[t][j].kind = "Work"
      PROVE  /\ j + up(t, s) \in 1 .. Len(mailbox[t])
             /\ work(t, j + up(t, s))
             /\ mailbox'[t][j] = mailbox[t][j + up(t, s)]
  BY <1>1, <1>2 DEF moved_up, work
<1>3. ASSUME NEW t \in Shard, NEW j \in 1 .. Len(mailbox'[t]), mailbox'[t][j].kind = "Work"
      PROVE  /\ mailbox'[t][j].call \in Call
             /\ sent(mailbox'[t][j].call)
             /\ outcome[mailbox'[t][j].call] \in {"inflight", "ReplyTimeout"}
  <2>1. /\ j + up(t, s) \in 1 .. Len(mailbox[t]) /\ work(t, j + up(t, s))
        /\ mailbox'[t][j] = mailbox[t][j + up(t, s)]
    BY <1>2, <1>3
  <2> QED
    BY <2>1 DEF SentOk
<1>4. MailboxesOk'
  <2> SUFFICES ASSUME NEW t \in Shard, NEW r \in Shard,
                      NEW i \in 1 .. Len(mailbox'[t]), NEW j \in 1 .. Len(mailbox'[r]),
                      mailbox'[t][i].kind = "Work", mailbox'[r][j].kind = "Work"
               PROVE  /\ t # r => mailbox'[t][i].call # mailbox'[r][j].call
                      /\ t = r /\ i < j => before(mailbox'[t][i].call, mailbox'[r][j].call)
    BY MailboxesIntro
  <2> DEFINE a == i + up(t, s)
             b == j + up(r, s)
  <2>1. a \in 1 .. Len(mailbox[t]) /\ work(t, a) /\ mailbox'[t][i] = mailbox[t][a]
    BY <1>2
  <2>2. b \in 1 .. Len(mailbox[r]) /\ work(r, b) /\ mailbox'[r][j] = mailbox[r][b]
    BY <1>2
  <2>3. t = r /\ i < j => a < b
    BY DEF up
  <2> HIDE DEF a, b
  <2>4. /\ t # r => mailbox[t][a].call # mailbox[r][b].call
        /\ t = r /\ a < b => before(mailbox[t][a].call, mailbox[r][b].call)
    BY <2>1, <2>2, MailboxesApart DEF LinesOk
  <2> QED
    BY <2>1, <2>2, <2>3, <2>4
<1> QED
  BY <1>1, <1>2, <1>3, <1>4 DEF work, sent

\* A command takes effect: its call goes from the head of the mailbox to the end of
\* the history, so the line keeps its order, and it was not applied before.
LEMMA ApplyOk ==
  ASSUME IInv, NEW s \in Shard, Apply(s)
  PROVE  IInv' /\ \E k \in Call : Service!Apply(k)
<1> USE DEF IInv
<1>1. takes(s) /\ Head(mailbox[s]).kind = "Work"
  BY DEF Apply, takes
<1>2. 1 \in 1 .. Len(mailbox[s]) /\ Head(mailbox[s]) = mailbox[s][1] /\ work(s, 1)
  BY <1>1, TakeEffect DEF work
<1>3. PICK k \in Call : k = mailbox[s][1].call
  BY <1>2 DEF SentOk
<1>4. k \notin applied /\ sent(k) /\ outcome[k] \in {"inflight", "ReplyTimeout"}
  BY <1>2, <1>3, QueuedNotApplied DEF SentOk
<1>5. /\ records(s, k)
      /\ answering' = [answering EXCEPT ![s] = k]
      /\ UNCHANGED <<replied, pc, calls, target, outcome>>
  BY <1>2, <1>3 DEF Apply, records, callerVars
<1>6. history' \in [Shard -> Seq(Call)] /\ applied' = applied \cup {k} /\ one_longer(s, k)
  BY <1>5, RecordEffect
<1>7. /\ mailbox' \in [Shard -> Seq(Command)]
      /\ MailboxesOk'
      /\ \A t \in Shard : \A j \in 1 .. Len(mailbox'[t]) : work(t, j)' =>
           /\ j + up(t, s) \in 1 .. Len(mailbox[t])
           /\ work(t, j + up(t, s))
           /\ mailbox'[t][j] = mailbox[t][j + up(t, s)]
           /\ mailbox'[t][j].call \in Call
           /\ sent(mailbox[t][j].call)'
           /\ outcome'[mailbox'[t][j].call] \in {"inflight", "ReplyTimeout"}
  BY <1>1, <1>5, TakeOk
<1>8. /\ Len(history[s]) \in Nat
      /\ \A t \in Shard : \A i \in 1 .. Len(history[t]) : history[t][i] \in Call
  BY LineTypes
<1>9. TypeOK'
  BY <1>5, <1>6, <1>7 DEF TypeOK
<1>10. CallsOk'
  <2>1. pc' = pc /\ calls' = calls /\ outcome' = outcome
    BY <1>5
  <2> QED
    BY <2>1 DEF CallsOk, current
<1>11. SentOk'
  <2>1. ASSUME NEW t \in Shard, NEW i \in 1 .. Len(history'[t])
        PROVE  sent(history[t][i])'
    <3>1. sent(history'[t][i])
      BY <1>4, <1>6, <2>1 DEF one_longer, SentOk
    <3>2. pc' = pc /\ calls' = calls
      BY <1>5
    <3> QED
      BY <3>1, <3>2 DEF sent
  <2> QED
    BY <1>7, <2>1 DEF SentOk
<1>12. HistoriesOk'
  <2> SUFFICES ASSUME NEW t \in Shard, NEW r \in Shard,
                      NEW i \in 1 .. Len(history'[t]), NEW j \in 1 .. Len(history'[r])
               PROVE  /\ t # r => history'[t][i] # history'[r][j]
                      /\ t = r /\ i < j => before(history'[t][i], history'[r][j])
    BY DEF HistoriesOk, before
  <2>1. CASE /\ i \in 1 .. Len(history[t]) /\ history'[t][i] = history[t][i]
             /\ j \in 1 .. Len(history[r]) /\ history'[r][j] = history[r][j]
    BY <2>1 DEF LinesOk, HistoriesOk
  <2>2. CASE /\ i \in 1 .. Len(history[t]) /\ history'[t][i] = history[t][i]
             /\ r = s /\ history'[r][j] = k
    <3>1. /\ t # s => history[t][i] # k
          /\ t = s => before(history[t][i], k)
      BY <1>2, <1>3, <2>2 DEF LinesOk, HistoryThenMailbox
    <3> QED
      BY <2>2, <3>1
  <2>3. CASE /\ t = s /\ i = Len(history[s]) + 1 /\ history'[t][i] = k
             /\ j \in 1 .. Len(history[r]) /\ history'[r][j] = history[r][j]
    <3>1. r # s => history[r][j] # k
      BY <1>2, <1>3, <2>3 DEF LinesOk, HistoryThenMailbox
    <3>2. t = r => ~(i < j)
      BY <1>8, <2>3
    <3> QED
      BY <2>3, <3>1, <3>2
  <2>4. CASE /\ t = s /\ i = Len(history[s]) + 1
             /\ r = s /\ j = Len(history[s]) + 1
    BY <1>8, <2>4
  <2> QED
    BY <1>6, <2>1, <2>2, <2>3, <2>4 DEF one_longer
<1>13. HistoryThenMailbox'
  <2> SUFFICES ASSUME NEW t \in Shard, NEW r \in Shard,
                      NEW i \in 1 .. Len(history'[t]), NEW j \in 1 .. Len(mailbox'[r]),
                      mailbox'[r][j].kind = "Work"
               PROVE  /\ t # r => history'[t][i] # mailbox'[r][j].call
                      /\ t = r => before(history'[t][i], mailbox'[r][j].call)
    BY DEF HistoryThenMailbox, work, before
  <2> DEFINE b == j + up(r, s)
  <2>1. b \in 1 .. Len(mailbox[r]) /\ work(r, b) /\ mailbox'[r][j] = mailbox[r][b]
    BY <1>7 DEF work
  <2>2. r = s => 1 < b
    BY DEF up
  <2> HIDE DEF b
  <2>3. CASE i \in 1 .. Len(history[t]) /\ history'[t][i] = history[t][i]
    BY <2>1, <2>3 DEF LinesOk, HistoryThenMailbox
  <2>4. CASE t = s /\ history'[t][i] = k
    <3>1. /\ s # r => k # mailbox[r][b].call
          /\ s = r => before(k, mailbox[r][b].call)
      BY <1>2, <1>3, <2>1, <2>2 DEF LinesOk, MailboxesOk
    <3> QED
      BY <2>1, <2>4, <3>1
  <2> QED
    BY <1>6, <2>3, <2>4 DEF one_longer
<1>14. RepliesOk'
  <2>1. ASSUME NEW t \in Shard, answering'[t] # NoCall PROVE answering'[t] \in applied'
    BY <1>5, <1>6, <2>1 DEF RepliesOk, TypeOK
  <2> QED
    BY <1>5, <1>6, <2>1 DEF RepliesOk
<1>15. Service!Apply(k)
  BY <1>4, <1>5, <1>6 DEF Service!Apply
<1> QED
  BY <1>7, <1>9, <1>10, <1>11, <1>12, <1>13, <1>14, <1>15 DEF LinesOk

\* A reply is for the command just applied.
LEMMA RespondOk ==
  ASSUME IInv, NEW s \in Shard, Respond(s)
  PROVE  IInv' /\ UNCHANGED Service!serviceVars
<1> USE DEF IInv
<1>1. /\ answering[s] # NoCall
      /\ answering' = [answering EXCEPT ![s] = NoCall]
      /\ replied' \subseteq replied \cup {answering[s]}
      /\ UNCHANGED <<mailbox, history, pc, calls, target, outcome>>
  BY DEF Respond, callerVars
<1>2. LinesOk' /\ applied' = applied
  BY <1>1, LinesFrame
<1>3. TypeOK'
  BY <1>1 DEF TypeOK
<1>4. CallsOk' /\ SentOk'
  <2>1. CallsOk'
    BY <1>1 DEF CallsOk, current
  <2>2. SentOk'
    BY <1>1 DEF SentOk, sent, work
  <2> QED
    BY <2>1, <2>2
<1>5. RepliesOk'
  BY <1>1, <1>2 DEF RepliesOk, TypeOK
<1> QED
  BY <1>1, <1>2, <1>3, <1>4, <1>5 DEF Service!serviceVars

\* A shard that stops leaves the calls behind the command where they are.
LEMMA StopOk ==
  ASSUME IInv, NEW s \in Shard, Stop(s)
  PROVE  IInv' /\ UNCHANGED Service!serviceVars
<1> USE DEF IInv
<1>1. /\ takes(s)
      /\ UNCHANGED <<answering, history, replied, pc, calls, target, outcome>>
  BY DEF Stop, takes, callerVars
<1>2. /\ mailbox' \in [Shard -> Seq(Command)]
      /\ MailboxesOk'
      /\ \A t \in Shard : \A j \in 1 .. Len(mailbox'[t]) : work(t, j)' =>
           /\ j + up(t, s) \in 1 .. Len(mailbox[t])
           /\ work(t, j + up(t, s))
           /\ mailbox'[t][j] = mailbox[t][j + up(t, s)]
           /\ mailbox'[t][j].call \in Call
           /\ sent(mailbox[t][j].call)'
           /\ outcome'[mailbox'[t][j].call] \in {"inflight", "ReplyTimeout"}
  BY <1>1, TakeOk
<1>3. TypeOK'
  BY <1>1, <1>2 DEF TypeOK
<1>4. CallsOk' /\ applied' = applied
  BY <1>1, AppliedFrame DEF CallsOk, current
<1>5. SentOk'
  <2>1. ASSUME NEW t \in Shard, NEW i \in 1 .. Len(history'[t])
        PROVE  sent(history[t][i])'
    BY <1>1, <2>1 DEF SentOk, sent
  <2> QED
    BY <1>2, <2>1 DEF SentOk
<1>6. HistoriesOk'
  BY <1>1, HistoriesFrame DEF LinesOk
<1>7. HistoryThenMailbox'
  <2> SUFFICES ASSUME NEW t \in Shard, NEW r \in Shard,
                      NEW i \in 1 .. Len(history[t]), NEW j \in 1 .. Len(mailbox'[r]),
                      mailbox'[r][j].kind = "Work"
               PROVE  /\ t # r => history[t][i] # mailbox'[r][j].call
                      /\ t = r => before(history[t][i], mailbox'[r][j].call)
    <3>1. history' = history
      BY <1>1
    <3> QED
      BY <3>1, HistoryThenMailboxIntro
  <2>1. /\ j + up(r, s) \in 1 .. Len(mailbox[r]) /\ work(r, j + up(r, s))
        /\ mailbox'[r][j] = mailbox[r][j + up(r, s)]
    BY <1>2 DEF work
  <2> QED
    BY <2>1 DEF LinesOk, HistoryThenMailbox
<1>8. RepliesOk'
  BY <1>1, <1>4 DEF RepliesOk
<1> QED
  BY <1>1, <1>2, <1>3, <1>4, <1>5, <1>6, <1>7, <1>8 DEF LinesOk, Service!serviceVars

-----------------------------------------------------------------------------
\* The steps of a thread, each one of the service or invisible to it.
LEMMA CallerStepOk ==
  ASSUME IInv, NEW c \in Client, CallerStep(c)
  PROVE  IInv' /\ [Service!Next]_(Service!serviceVars)
<1>1. CASE SendCall(c)
  BY <1>1, SendCallOk
<1>2. CASE SendShutdown(c)
  BY <1>2, SendShutdownOk
<1>3. ASSUME NEW result \in {"Ok", "MailboxUnavailable", "ReplyTimeout"},
             pc[c] \in {"send", "wait"}, finish(c, result),
             result = "Ok" => current(c) \in replied,
             result = "MailboxUnavailable" => pc[c] = "send"
      PROVE  IInv' /\ [Service!Next]_(Service!serviceVars)
  <2>1. IInv' /\ Service!Return(current(c), result) /\ current(c) \in Call
    BY <1>3, FinishOk
  <2> QED
    BY <2>1 DEF Service!Next
<1>4. CASE SendFails(c)
  BY <1>3, <1>4 DEF SendFails
<1>5. CASE TakeReply(c)
  BY <1>3, <1>5 DEF TakeReply
<1>6. CASE WaitFails(c)
  BY <1>3, <1>6 DEF WaitFails
<1>7. CASE SendAgain(c) \/ WaitAgain(c)
  <2>1. UNCHANGED <<mailbox, answering, history, replied, calls, outcome, pc, target>>
    BY <1>7 DEF SendAgain, WaitAgain, park, shardVars
  <2> QED
    BY <2>1, QuietOk
<1>8. CASE TakeAck(c)
  <2>1. /\ pc[c] = "stop_wait"
        /\ UNCHANGED <<mailbox, answering, history, replied, calls, outcome>>
    BY <1>8 DEF TakeAck
  <2>2. \E place \in {"idle", "stop_send", "stop_wait"}, t \in Shard :
          /\ pc' = [pc EXCEPT ![c] = place]
          /\ target' = [target EXCEPT ![c] = t]
    <3>1. target[c] \in Shard /\ 0 \in Shard
      BY LineTypes DEF IInv, TypeOK
    <3>2. CASE target[c] + 1 < ShardCount
      <4>1. target[c] + 1 \in Shard
        BY <3>1, <3>2, RuntimeAssumption DEF Shard
      <4> QED
        BY <1>8, <3>2, <4>1 DEF TakeAck, goto
    <3>3. CASE ~(target[c] + 1 < ShardCount)
      BY <1>8, <3>1, <3>3 DEF TakeAck, goto
    <3> QED
      BY <3>2, <3>3
  <2> QED
    BY <2>1, <2>2, QuietOk
<1>9. CASE ShutdownFails(c)
  <2>1. /\ pc[c] \notin {"send", "wait"}
        /\ pc' = [pc EXCEPT ![c] = "idle"] /\ target' = [target EXCEPT ![c] = 0]
        /\ UNCHANGED <<mailbox, answering, history, replied, calls, outcome>>
    BY <1>9 DEF ShutdownFails, goto, shardVars
  <2>2. 0 \in Shard
    BY LineTypes DEF IInv
  <2> QED
    BY <2>1, <2>2, QuietOk
<1> QED
  BY <1>1, <1>2, <1>4, <1>5, <1>6, <1>7, <1>8, <1>9 DEF CallerStep

\* Every step keeps the invariant and maps to a step of the service or a stutter.
LEMMA NextOk == IInv /\ [Next]_vars => IInv' /\ [Service!Next]_(Service!serviceVars)
<1> SUFFICES ASSUME IInv, [Next]_vars PROVE IInv' /\ [Service!Next]_(Service!serviceVars)
  OBVIOUS
<1>1. ASSUME NEW c \in Client, NEW s \in Shard, BeginCall(c, s)
      PROVE  IInv' /\ [Service!Next]_(Service!serviceVars)
  <2>1. IInv' /\ Service!Invoke(<<c, calls[c] + 1>>) /\ <<c, calls[c] + 1>> \in Call
    BY <1>1, BeginCallOk
  <2> QED
    BY <2>1 DEF Service!Next
<1>2. ASSUME NEW c \in Client, BeginShutdown(c)
      PROVE  IInv' /\ [Service!Next]_(Service!serviceVars)
  <2>1. /\ pc[c] \notin {"send", "wait"}
        /\ pc' = [pc EXCEPT ![c] = "stop_send"] /\ target' = [target EXCEPT ![c] = 0]
        /\ UNCHANGED <<mailbox, answering, history, replied, calls, outcome>>
    BY <1>2 DEF BeginShutdown, goto, shardVars
  <2>2. 0 \in Shard
    BY LineTypes DEF IInv
  <2> QED
    BY <2>1, <2>2, QuietOk
<1>3. ASSUME NEW c \in Client, CallerStep(c)
      PROVE  IInv' /\ [Service!Next]_(Service!serviceVars)
  BY <1>3, CallerStepOk
<1>4. ASSUME NEW s \in Shard, Apply(s)
      PROVE  IInv' /\ [Service!Next]_(Service!serviceVars)
  <2>1. IInv' /\ \E k \in Call : Service!Apply(k)
    BY <1>4, ApplyOk
  <2> QED
    BY <2>1 DEF Service!Next
<1>5. ASSUME NEW s \in Shard, Respond(s) \/ Stop(s)
      PROVE  IInv' /\ [Service!Next]_(Service!serviceVars)
  BY <1>5, RespondOk, StopOk
<1>6. CASE UNCHANGED vars
  <2>1. UNCHANGED <<mailbox, answering, history, replied, calls, outcome, pc, target>>
    BY <1>6 DEF vars, shardVars, callerVars
  <2>2. LinesOk' /\ applied' = applied
    BY <2>1, LinesFrame DEF IInv
  <2>3. TypeOK' /\ CallsOk' /\ SentOk' /\ RepliesOk'
    <3>1. TypeOK' /\ RepliesOk'
      BY <2>1, <2>2 DEF IInv, TypeOK, RepliesOk
    <3>2. CallsOk'
      BY <2>1 DEF IInv, CallsOk, current
    <3>3. SentOk'
      BY <2>1 DEF IInv, SentOk, sent, work
    <3> QED
      BY <3>1, <3>2, <3>3
  <2> QED
    BY <2>1, <2>2, <2>3 DEF IInv, Service!serviceVars
<1> QED
  BY <1>1, <1>2, <1>3, <1>4, <1>5, <1>6 DEF Next, RepeatShutdown

\* Every call is in at most one line, once, in the order of issue, in every state.
THEOREM RuntimeInvariant == Spec => []IInv
<1> QED
  BY InitOk, NextOk, PTL DEF Spec

\* Broker::call and Broker::coordinate are an at-most-once call service, for any
\* number of threads and shards, any capacity and any number of attempts: a command
\* is applied at most once, Ok means that it was, and MailboxUnavailable that it never
\* will be.
THEOREM RuntimeImplementsService == Spec => ImplementsCallService
<1>1. Init => Service!Init
  <2> SUFFICES ASSUME Init PROVE Service!Init
    OBVIOUS
  <2>1. \A s \in Shard : Len(history[s]) = 0
    BY DEF Init
  <2>2. applied = {}
    BY <2>1 DEF applied
  <2> QED
    BY <2>2 DEF Init, Service!Init
<1> QED
  BY <1>1, RuntimeInvariant, NextOk, PTL DEF Spec, ImplementsCallService, Service!Spec

\* The commands of a thread to one shard take effect in the order it issued them,
\* whatever it did with the earlier ones when it stopped waiting.
THEOREM IssueOrder == Spec => []AppliedInIssueOrder
<1>1. IInv => AppliedInIssueOrder
  BY DEF IInv, LinesOk, HistoriesOk, before, AppliedInIssueOrder
<1> QED
  BY <1>1, RuntimeInvariant, PTL
=============================================================================
