---------------------------- MODULE ShardRuntime ----------------------------
(***************************************************************************)
(* How caller threads and shards talk (broker-runtime): callers put        *)
(* commands into bounded shard mailboxes and poll a reply channel made for *)
(* the call, parking between attempts and giving up after max_retries;     *)
(* each shard takes one command at a time, applies it and answers.         *)
(* What a command does to logs and coordinators is left to the other       *)
(* modules; here a command takes effect or it does not.                    *)
(*                                                                         *)
(* External: the mailbox and reply channels, the executor and the parker   *)
(* come from the runtime library.  A channel is a bounded FIFO whose       *)
(* try_send fails when it is full.  Whether try_send fails once the        *)
(* receiver is gone is not visible in the source, so both are allowed.     *)
(***************************************************************************)
EXTENDS Integers, Sequences, FiniteSets

CONSTANTS
  Client,            \* threads that use the broker
  ShardCount,        \* shard_count
  MailboxCapacity,   \* mailbox_capacity: usable slots of a mailbox
  MaxRetries,        \* max_retries: attempts of a send and of a wait
  MaxCalls,          \* bound: calls of all threads together
  NoCall             \* nothing is being answered

ASSUME RuntimeAssumption ==
  /\ ShardCount \in Nat \ {0}
  /\ MailboxCapacity \in Nat \ {0, 1}
  /\ MaxRetries \in Nat
  /\ MaxCalls \in Nat
  /\ IsFiniteSet(Client)
  /\ NoCall \notin Client \X (1 .. MaxCalls)

Shard == 0 .. ShardCount - 1
Call == Client \X (1 .. MaxCalls)
attempts == IF MaxRetries < 1 THEN 1 ELSE MaxRetries

VARIABLES
  mailbox,    \* per shard: commands, oldest first
  running,    \* per shard: its task has not returned
  answering,  \* per shard: the command applied but not answered yet
  history,    \* per shard: ghost, calls in the order they were applied
  replied,    \* calls whose reply channel was given a reply
  acks,       \* Stopped replies waiting in the channel of the shutdown
  stopped,    \* the AtomicBool of Broker
  shutdown,   \* ghost, the shutdown that flipped stopped: "none", "Ok", "Failed"
  pc,         \* per thread: "idle", "send", "wait", "stop_send", "stop_wait"
  calls,      \* per thread: calls it has started
  target,     \* per thread: shard addressed; in "stop_wait", acknowledgements received
  tries,      \* per thread: failed attempts of the send or wait under way
  outcome     \* ghost, per call: "none", "inflight", or what it returned
shardVars == <<mailbox, running, answering, history, replied, acks>>
callerVars == <<stopped, shutdown, pc, calls, target, tries, outcome>>
vars == <<shardVars, callerVars>>

Init ==
  /\ mailbox = [s \in Shard |-> <<>>]
  /\ running = [s \in Shard |-> TRUE]
  /\ answering = [s \in Shard |-> NoCall]
  /\ history = [s \in Shard |-> <<>>]
  /\ replied = {}
  /\ acks = 0
  /\ stopped = FALSE
  /\ shutdown = "none"
  /\ pc = [c \in Client |-> "idle"]
  /\ calls = [c \in Client |-> 0]
  /\ target = [c \in Client |-> 0]
  /\ tries = [c \in Client |-> 0]
  /\ outcome = [k \in Call |-> "none"]

current(c) == <<c, calls[c]>>

\* Moves thread c to another place, with the attempts counted afresh.
goto(c, place, t) ==
  /\ pc' = [pc EXCEPT ![c] = place]
  /\ target' = [target EXCEPT ![c] = t]
  /\ tries' = [tries EXCEPT ![c] = 0]

\* Parks without counting the attempt.
park_uncounted(c) ==
  /\ tries[c] < attempts
  /\ UNCHANGED vars

\* An attempt failed: park, then look at the retry budget again.
park(c) ==
  /\ tries[c] < attempts
  /\ tries' = [tries EXCEPT ![c] = @ + 1]
  /\ UNCHANGED <<shardVars, stopped, shutdown, pc, calls, target, outcome>>

-----------------------------------------------------------------------------
\* Lets a command overtake those already queued.
try_send_overtaking(c, command) ==
  /\ tries[c] < attempts
  /\ Len(mailbox[target[c]]) < MailboxCapacity
  /\ mailbox' = [mailbox EXCEPT ![target[c]] = <<command>> \o @]
  /\ UNCHANGED <<running, answering, history, replied, acks>>

\* try_send of send_with_retry and send_coordination_with_retry.
try_send(c, command) ==
  /\ tries[c] < attempts
  /\ Len(mailbox[target[c]]) < MailboxCapacity
  /\ mailbox' = [mailbox EXCEPT ![target[c]] = Append(@, command)]
  /\ UNCHANGED <<running, answering, history, replied, acks>>

send_refused(c) ==
  Len(mailbox[target[c]]) >= MailboxCapacity \/ ~running[target[c]]

\* Broker::call and Broker::coordinate: a thread starts a call to some shard.
BeginCall(c, s) ==
  /\ pc[c] = "idle"
  /\ Cardinality({k \in Call : outcome[k] # "none"}) < MaxCalls
  /\ goto(c, "send", s)
  /\ calls' = [calls EXCEPT ![c] = @ + 1]
  /\ outcome' = [outcome EXCEPT ![<<c, calls[c] + 1>>] = "inflight"]
  /\ UNCHANGED <<shardVars, stopped, shutdown>>

SendCall(c) ==
  /\ pc[c] = "send"
  /\ try_send(c, [kind |-> "Work", call |-> current(c)])
  /\ goto(c, "wait", target[c])
  /\ UNCHANGED <<stopped, shutdown, calls, outcome>>

SendAgain(c) ==
  /\ pc[c] \in {"send", "stop_send"}
  /\ send_refused(c)
  /\ park(c)

\* The call returns to its thread.
finish(c, result) ==
  /\ goto(c, "idle", 0)
  /\ outcome' = [outcome EXCEPT ![current(c)] = result]
  /\ UNCHANGED <<shardVars, stopped, shutdown, calls>>

SendFails(c) ==
  /\ pc[c] = "send" /\ tries[c] = attempts
  /\ finish(c, "MailboxUnavailable")

\* wait_reply.  The channel is not read again after the last park.
TakeReply(c) ==
  /\ pc[c] = "wait" /\ tries[c] < attempts
  /\ current(c) \in replied
  /\ finish(c, "Ok")

WaitAgain(c) ==
  /\ \/ pc[c] = "wait" /\ current(c) \notin replied
     \/ pc[c] = "stop_wait" /\ acks = 0
  /\ park(c)

\* Sends the same command again instead of returning ReplyTimeout.
WaitFails_resending(c) ==
  /\ pc[c] = "wait" /\ tries[c] = attempts
  /\ goto(c, "send", target[c])
  /\ UNCHANGED <<shardVars, stopped, shutdown, calls, outcome>>

WaitFails(c) ==
  /\ pc[c] = "wait" /\ tries[c] = attempts
  /\ finish(c, "ReplyTimeout")

-----------------------------------------------------------------------------
\* Broker::shutdown.  Only the thread that flips stopped goes on.
BeginShutdown(c) ==
  /\ pc[c] = "idle" /\ ~stopped
  /\ stopped' = TRUE
  /\ goto(c, "stop_send", 0)
  /\ UNCHANGED <<shardVars, shutdown, calls, outcome>>

RepeatShutdown(c) == pc[c] = "idle" /\ stopped /\ UNCHANGED vars

SendShutdown(c) ==
  /\ pc[c] = "stop_send"
  /\ try_send(c, [kind |-> "Shutdown", call |-> NoCall])
  /\ IF target[c] + 1 < ShardCount THEN goto(c, "stop_send", target[c] + 1)
                                   ELSE goto(c, "stop_wait", 0)
  /\ UNCHANGED <<stopped, shutdown, calls, outcome>>

\* Returns at the first acknowledgement.
TakeAck_first(c) ==
  /\ pc[c] = "stop_wait" /\ tries[c] < attempts
  /\ acks > 0
  /\ acks' = acks - 1
  /\ goto(c, "idle", 0) /\ shutdown' = "Ok"
  /\ UNCHANGED <<mailbox, running, answering, history, replied, stopped, calls, outcome>>

TakeAck(c) ==
  /\ pc[c] = "stop_wait" /\ tries[c] < attempts
  /\ acks > 0
  /\ acks' = acks - 1
  /\ IF target[c] + 1 < ShardCount
     THEN goto(c, "stop_wait", target[c] + 1) /\ UNCHANGED shutdown
     ELSE goto(c, "idle", 0) /\ shutdown' = "Ok"
  /\ UNCHANGED <<mailbox, running, answering, history, replied, stopped, calls, outcome>>

\* MailboxUnavailable or ReplyTimeout: shutdown returns early, stopped stays set.
ShutdownFails(c) ==
  /\ pc[c] \in {"stop_send", "stop_wait"} /\ tries[c] = attempts
  /\ goto(c, "idle", 0)
  /\ shutdown' = "Failed"
  /\ UNCHANGED <<shardVars, stopped, calls, outcome>>

-----------------------------------------------------------------------------
\* partition_task.  A command takes effect, then respond answers it.
Apply(s) ==
  /\ running[s] /\ answering[s] = NoCall /\ mailbox[s] # <<>>
  /\ Head(mailbox[s]).kind = "Work"
  /\ mailbox' = [mailbox EXCEPT ![s] = Tail(@)]
  /\ history' = [history EXCEPT ![s] = Append(@, Head(mailbox[s]).call)]
  /\ answering' = [answering EXCEPT ![s] = Head(mailbox[s]).call]
  /\ UNCHANGED <<running, replied, acks, callerVars>>

\* respond: a reply to a caller that gave up goes nowhere, its channel is gone.
Respond(s) ==
  /\ answering[s] # NoCall
  /\ answering' = [answering EXCEPT ![s] = NoCall]
  /\ replied' = IF outcome[answering[s]] = "inflight" THEN replied \cup {answering[s]} ELSE replied
  /\ UNCHANGED <<mailbox, running, history, acks, callerVars>>

\* Shutdown: acknowledge and return; what is behind it is never taken.
Stop(s) ==
  /\ running[s] /\ answering[s] = NoCall /\ mailbox[s] # <<>>
  /\ Head(mailbox[s]).kind = "Shutdown"
  /\ mailbox' = [mailbox EXCEPT ![s] = Tail(@)]
  /\ running' = [running EXCEPT ![s] = FALSE]
  /\ acks' = IF shutdown = "none" THEN acks + 1 ELSE acks
  /\ UNCHANGED <<answering, history, replied, callerVars>>

CallerStep(c) ==
  \/ SendCall(c) \/ SendAgain(c) \/ SendFails(c)
  \/ TakeReply(c) \/ WaitAgain(c) \/ WaitFails(c)
  \/ SendShutdown(c) \/ TakeAck(c) \/ ShutdownFails(c)

Next ==
  \/ \E c \in Client : \/ \E s \in Shard : BeginCall(c, s)
                       \/ BeginShutdown(c)
                       \/ RepeatShutdown(c)
                       \/ CallerStep(c)
  \/ \E s \in Shard : Apply(s) \/ Respond(s) \/ Stop(s)

\* A thread inside a call or a shutdown keeps running: it never blocks for longer
\* than one park_timeout.  Nothing is assumed of the shards, nor that threads call.
Spec == Init /\ [][Next]_vars /\ \A c \in Client : WF_vars(CallerStep(c))

-----------------------------------------------------------------------------
\* The calls that took effect on some shard.
applied == UNION {{history[s][i] : i \in 1 .. Len(history[s])} : s \in Shard}

\* Callers and shards together are an at-most-once call service: Broker::call and
\* Broker::coordinate apply a command at most once, report success only for a command
\* that was applied, and report MailboxUnavailable only for one that never will be.
Service == INSTANCE CallService
ImplementsCallService == Service!Spec

\* A thread's commands to one shard take effect in the order it issued them, even when
\* it gave up on the earlier ones: wait_reply abandons a command that is still queued.
AppliedInIssueOrder ==
  \A s \in Shard : \A i, j \in 1 .. Len(history[s]) :
    i < j /\ history[s][i][1] = history[s][j][1] => history[s][i][2] < history[s][j][2]

\* shutdown waits for every shard: once the call that flipped `stopped` returned Ok, no
\* shard runs, no command is half way, and nothing a thread sends later takes effect.
ShutdownIsFinal ==
  [][shutdown = "Ok" => /\ \A s \in Shard : ~running[s] /\ answering[s] = NoCall
                        /\ UNCHANGED <<history, replied>>]_vars

\* Every call returns, and so does shutdown, whatever the shards do: the attempts of
\* send_with_retry and wait_reply are bounded and each parks for a bounded time.
CallsReturn == \A c \in Client : pc[c] # "idle" ~> pc[c] = "idle"
=============================================================================
