\* Two shards, two threads, two calls and a shutdown, one retry: enough for a full mailbox behind an
\* abandoned call, and for a send or a wait that succeeds at its second attempt.
SPECIFICATION Spec
CONSTANTS
  Client = {c1, c2}
  ShardCount = 2
  MailboxCapacity = 2
  MaxRetries = 2
  MaxCalls = 2
  NoCall = NoCall
INVARIANTS AppliedInIssueOrder
PROPERTIES ImplementsCallService ShutdownIsFinal CallsReturn
