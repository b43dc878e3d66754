\* Enough failures in a row to reach the longest delay.
SPECIFICATION Spec
CONSTANTS
  ACCEPT_POLL_MS = 25
  ACCEPT_RETRY_MAX_MS = 1000
  Mix <- MCMix
  PoolSizes = {0, 2}
  MaxClients = 3
  MaxFaults = 8
INVARIANTS SessionsAccounted
PROPERTIES BacksOff ClientsGetIn StopEnds
\* The loop ends.
CHECK_DEADLOCK FALSE
