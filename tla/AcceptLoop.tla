----------------------------- MODULE AcceptLoop -----------------------------
(***************************************************************************)
(* How connections come about: accept_loop of the host server with the     *)
(* ServerHandle that stops it (broker-host/src/server.rs), or accept_loop  *)
(* of the EL0 server with its retries, its counter of active connections   *)
(* (broker-el0/src/main.rs) and the layout that places a session on a      *)
(* shard (broker-runtime/src/session.rs).  What a session does until it    *)
(* ends is in Connection.                                                  *)
(*                                                                         *)
(* The host keeps one listener and gets a stream per client; an EL0        *)
(* listener turns into the connection of the client it accepts, so that a  *)
(* new one is opened for the next client.  External: the sockets, threads  *)
(* and clients, and who asks the service to stop.                          *)
(***************************************************************************)
EXTENDS Integers, FiniteSets

CONSTANTS
  ACCEPT_POLL_MS,
  ACCEPT_RETRY_MAX_MS,
  Mix(_),        \* the hash of a session id
  PoolSizes,     \* configured numbers of session shards
  MaxClients,    \* bound: clients that connect
  MaxFaults      \* bound: failures of sockets and threads

ASSUME AcceptAssumption ==
  /\ ACCEPT_POLL_MS \in Nat \ {0} /\ ACCEPT_RETRY_MAX_MS \in Nat
  /\ ACCEPT_POLL_MS <= ACCEPT_RETRY_MAX_MS
  /\ PoolSizes \subseteq Nat /\ MaxClients \in Nat /\ MaxFaults \in Nat
  /\ \A session \in 1 .. MaxClients : Mix(session) \in Nat

VARIABLES
  front,            \* whose loop it is: "host" or "el0"
  layout,           \* EL0: the session layout
  pc,               \* "check", "open", "listen", "poll", "accept", "ended" or "aborted"
  listener,         \* what try_accept meets: "none", "sound" or "broken"
  stop,             \* the stop flag of the host, shutdown_requested() of EL0
  handle,           \* host: "held", "joining" or "done"
  retry_failures,   \* EL0
  delay,            \* EL0: how long the loop slept last
  waiting,          \* clients that have connected and were not accepted
  next_connection,  \* EL0: diagnostics; on the host a ghost that counts the same
  active,           \* EL0: diagnostics
  placed,           \* the sessions that run: connection to shard
  ended,            \* ghost: connections whose session has ended
  dropped,          \* ghost: connections whose session was never started
  clients, faults   \* what is left of the bounds
diagnostics == <<next_connection, active>>
sessions == <<placed, ended, dropped>>
vars == <<front, layout, pc, listener, stop, handle, retry_failures, delay, waiting,
          diagnostics, sessions, clients, faults>>

-----------------------------------------------------------------------------
\* SessionShardLayout.
new_layout(first_shard, shard_count) ==
  [first_shard |-> first_shard, shard_count |-> IF shard_count = 0 THEN 1 ELSE shard_count]
shard_for(l, session) == l.first_shard + (Mix(session) % l.shard_count)

\* Doubles without an end.
accept_retry_delay_ms_unbounded(failures) == ACCEPT_POLL_MS * 2 ^ (failures - 1)

minimum(a, b) == IF a <= b THEN a ELSE b
accept_retry_delay_ms(failures) ==
  LET shift == minimum(IF failures > 0 THEN failures - 1 ELSE 0, 6)
  IN  minimum(ACCEPT_POLL_MS * 2 ^ shift, ACCEPT_RETRY_MAX_MS)

Init ==
  /\ front \in {"host", "el0"}
  /\ layout \in {new_layout(0, n) : n \in PoolSizes}
  /\ pc = "check"
  /\ listener = IF front = "host" THEN "sound" ELSE "none"
  /\ stop = FALSE /\ handle = "held"
  /\ retry_failures = 0 /\ delay = 0 /\ waiting = 0
  /\ next_connection = 0 /\ active = 0
  /\ placed = [c \in {} |-> 0] /\ ended = {} /\ dropped = {}
  /\ clients = MaxClients /\ faults = MaxFaults

-----------------------------------------------------------------------------
(* The surroundings, external.                                             *)

Connect ==
  /\ clients > 0 /\ clients' = clients - 1 /\ waiting' = waiting + 1
  /\ UNCHANGED <<front, layout, pc, listener, stop, handle, retry_failures, delay, diagnostics,
                 sessions, faults>>

\* From now on every accept on this listener fails.
BreakListener ==
  /\ listener = "sound" /\ faults > 0
  /\ faults' = faults - 1 /\ listener' = "broken"
  /\ UNCHANGED <<front, layout, pc, stop, handle, retry_failures, delay, waiting, diagnostics,
                 sessions, clients>>

\* EL0: the service is asked to stop.
RequestShutdown ==
  /\ front = "el0" /\ ~stop /\ stop' = TRUE
  /\ UNCHANGED <<front, layout, pc, listener, handle, retry_failures, delay, waiting, diagnostics,
                 sessions, clients, faults>>

\* Host: ServerHandle::stop, from shutdown() or drop, up to the join.
StopHandle ==
  /\ front = "host" /\ handle = "held"
  /\ stop' = TRUE /\ handle' = "joining"
  /\ UNCHANGED <<front, layout, pc, listener, retry_failures, delay, waiting, diagnostics,
                 sessions, clients, faults>>
Join ==
  /\ handle = "joining" /\ pc = "ended" /\ handle' = "done"
  /\ UNCHANGED <<front, layout, pc, listener, stop, retry_failures, delay, waiting, diagnostics,
                 sessions, clients, faults>>

-----------------------------------------------------------------------------
(* Sessions.                                                               *)

without(c) == placed' = [d \in DOMAIN placed \ {c} |-> placed[d]] /\ ended' = ended \cup {c}

\* serve_connection returns, on whichever path: ActiveConnection is dropped.
EndSession(c) ==
  /\ c \in DOMAIN placed /\ pc # "aborted" /\ without(c)
  /\ active' = IF front = "el0" THEN active - 1 ELSE active
  /\ UNCHANGED <<front, layout, pc, listener, stop, handle, retry_failures, delay, waiting,
                 next_connection, dropped, clients, faults>>

\* spawn: its result is ignored.  Without a thread the connection is closed.
spawn(c) ==
  \/ /\ placed' = [d \in DOMAIN placed \cup {c} |-> IF d = c THEN shard_for(layout, c) ELSE placed[d]]
     /\ UNCHANGED <<ended, dropped, faults>>
  \/ /\ faults > 0 /\ faults' = faults - 1 /\ dropped' = dropped \cup {c}
     /\ UNCHANGED <<placed, ended>>

-----------------------------------------------------------------------------
(* Both loops.                                                             *)

\* Where the loop goes when it is not stopped.
onward == IF front = "el0" /\ pc = "check" THEN "open" ELSE "accept"

\* The inner loop of EL0 does not ask.
CheckStop_outer ==
  /\ pc \in {"check", "poll"}
  /\ IF stop /\ pc = "check" THEN pc' = "ended" /\ listener' = "none"
                            ELSE pc' = onward /\ UNCHANGED listener
  /\ UNCHANGED <<front, layout, stop, handle, retry_failures, delay, waiting, diagnostics,
                 sessions, clients, faults>>

\* The flag is read on its own, before EL0 opens a socket ("check") and before every
\* accept (host: "check", EL0: "poll"); a stop that comes later is seen the next time.
CheckStop ==
  /\ pc \in {"check", "poll"}
  /\ IF stop THEN pc' = "ended" /\ listener' = "none"
             ELSE pc' = onward /\ UNCHANGED listener
  /\ UNCHANGED <<front, layout, stop, handle, retry_failures, delay, waiting, diagnostics,
                 sessions, clients, faults>>

\* No client is there: the loop sleeps and asks again.
WouldBlock ==
  /\ pc = "accept" /\ listener = "sound" /\ waiting = 0
  /\ pc' = IF front = "host" THEN "check" ELSE "poll"
  /\ UNCHANGED <<front, layout, listener, stop, handle, retry_failures, delay, waiting, diagnostics,
                 sessions, clients, faults>>

HostAccept ==
  /\ front = "host" /\ pc = "accept"
  /\ listener = "sound" /\ waiting > 0
  /\ waiting' = waiting - 1 /\ pc' = "check"
  /\ next_connection' = next_connection + 1 /\ spawn(next_connection + 1)
  /\ UNCHANGED <<front, layout, listener, stop, handle, retry_failures, delay, active, clients>>

\* Host: any error but WouldBlock ends the loop.
HostAcceptError ==
  /\ front = "host" /\ pc = "accept" /\ listener = "broken"
  /\ pc' = "ended" /\ listener' = "none"
  /\ UNCHANGED <<front, layout, stop, handle, retry_failures, delay, waiting, diagnostics,
                 sessions, clients, faults>>

\* EL0: one more failure; the listener, if there is one, is dropped.
retry ==
  /\ retry_failures' = retry_failures + 1
  /\ delay' = accept_retry_delay_ms(retry_failures + 1)
  /\ pc' = "check" /\ listener' = "none"

Open ==
  /\ pc = "open"
  /\ \/ pc' = "listen" /\ UNCHANGED <<listener, retry_failures, delay, faults>>
     \/ faults > 0 /\ faults' = faults - 1 /\ retry
  /\ UNCHANGED <<front, layout, stop, handle, waiting, diagnostics, sessions, clients>>

\* A page or a call that fails within listen aborts the whole service.
Listen ==
  /\ pc = "listen"
  /\ \/ /\ retry_failures' = 0 /\ listener' = "sound" /\ pc' = "poll"
        /\ UNCHANGED <<delay, faults>>
     \/ faults > 0 /\ faults' = faults - 1 /\ retry
     \/ faults > 0 /\ faults' = faults - 1 /\ pc' = "aborted" /\ UNCHANGED <<listener, retry_failures, delay>>
  /\ UNCHANGED <<front, layout, stop, handle, waiting, diagnostics, sessions, clients>>

\* diagnostics.accepted(), the placement and the spawn; the loop opens a new listener.
accepted ==
  /\ retry_failures' = 0 /\ pc' = "check" /\ listener' = "none"
  /\ next_connection' = next_connection + 1 /\ active' = active + 1
  /\ spawn(next_connection + 1)
  /\ UNCHANGED delay

\* Goes on as if a failed accept had succeeded.
TryAccept_unchecked ==
  /\ front = "el0" /\ pc = "accept"
  /\ \/ listener = "sound" /\ waiting > 0 /\ waiting' = waiting - 1 /\ accepted
     \/ listener = "broken" /\ accepted /\ UNCHANGED waiting
  /\ UNCHANGED <<front, layout, stop, handle, clients>>

\* Takes every error for ERR_WOULD_BLOCK.
TryAccept_again ==
  /\ front = "el0" /\ pc = "accept"
  /\ listener = "sound" /\ waiting > 0 /\ waiting' = waiting - 1 /\ accepted
  /\ UNCHANGED <<front, layout, stop, handle, clients>>

TryAccept ==
  /\ front = "el0" /\ pc = "accept"
  /\ \/ listener = "sound" /\ waiting > 0 /\ waiting' = waiting - 1 /\ accepted
     \/ listener = "broken" /\ retry /\ UNCHANGED <<waiting, diagnostics, sessions, faults>>
  /\ UNCHANGED <<front, layout, stop, handle, clients>>

Loop == CheckStop \/ WouldBlock \/ HostAccept \/ HostAcceptError \/ Open \/ Listen \/ TryAccept \/ Join

Next ==
  \/ Connect \/ BreakListener \/ RequestShutdown \/ StopHandle
  \/ \E c \in DOMAIN placed : EndSession(c)
  \/ Loop

\* The accept thread keeps running, and so does the caller that joins it.  Sockets
\* and threads fail finitely often (MaxFaults).
Spec == Init /\ [][Next]_vars /\ WF_vars(Loop)

-----------------------------------------------------------------------------
\* Every client that was taken out of the line became one connection, with an id of
\* its own and a shard of the layout, and no connection was made up: not for a failed
\* accept and not for a listener that is retried.  The counter of active connections
\* is exact up to the sessions that never started: it counts those for ever.
SessionsAccounted ==
  /\ next_connection = MaxClients - clients - waiting
  /\ DOMAIN placed \cup ended \cup dropped = 1 .. next_connection
  /\ Cardinality(DOMAIN placed) + Cardinality(ended) + Cardinality(dropped) = next_connection
  /\ \A c \in DOMAIN placed :
       placed[c] \in layout.first_shard .. layout.first_shard + layout.shard_count - 1
  /\ front = "el0" => active = Cardinality(DOMAIN placed) + Cardinality(dropped)

\* As long as no listener comes up, EL0 waits after each failure at least as long as
\* after the one before, and never longer than ACCEPT_RETRY_MAX_MS.
BacksOff ==
  [][retry_failures' > retry_failures =>
       /\ delay' \in ACCEPT_POLL_MS .. ACCEPT_RETRY_MAX_MS
       /\ retry_failures > 0 => delay' >= delay]_vars

\* A client that connects is taken out of the line, whatever failed before, unless the
\* service stops or aborts.  Only the host gives up for ever after an accept error.
ClientsGetIn ==
  waiting > 0 ~> waiting = 0 \/ stop \/ pc = "aborted" \/ (front = "host" /\ pc = "ended")

\* A request to stop ends the loop although no client comes, and the call that stops
\* the host returns.
StopEnds == stop ~> (pc = "aborted" \/ (pc = "ended" /\ handle # "joining"))
=============================================================================
