----------------------------- MODULE Connection -----------------------------
(***************************************************************************)
(* One client connection of a front end: serve_connection of the host      *)
(* server (broker-host) or of the EL0 server (broker-el0).  The client     *)
(* pipelines frames; their bytes arrive in pieces that ignore frame        *)
(* boundaries.  The host server reads exactly one frame at a time; the EL0 *)
(* server collects chunks in a buffer and drains complete frames from it.  *)
(* Both give a frame to the engine, write its response, and close the      *)
(* connection at the first thing that goes wrong.                          *)
(*                                                                         *)
(* A byte is <<k, j>>, the j-th byte of the k-th frame; the first          *)
(* PrefixLen bytes of a frame are its length prefix.  What a request does  *)
(* is left to the other modules; here the engine answers it or returns an  *)
(* error.  External: the sockets, and the flag that asks EL0 to stop.      *)
(* Responses may fill the socket of a client that does not read them.      *)
(***************************************************************************)
EXTENDS Integers, Sequences, SequencesExt

CONSTANTS
  PrefixLen,      \* bytes of a length prefix, 4 in the code
  MAX_FRAME_LEN,  \* longest payload accepted
  Lengths,        \* values of the length prefixes
  MaxFrames       \* bound: frames the client writes before it starts over

ASSUME ConnectionAssumption ==
  /\ PrefixLen \in Nat \ {0}
  /\ MAX_FRAME_LEN \in Nat \ {0}
  /\ Lengths \subseteq Int
  /\ MaxFrames \in Nat

VARIABLES
  front,      \* who serves the connection: "host" or "el0"
  script,     \* the frames the client writes, in order
  stream,     \* their bytes
  noise,      \* the length spelled by bytes that are no prefix of a frame
  written,    \* how many bytes of the stream the client has written
  read,       \* how many of them the server has taken from the socket
  reads,      \* the client takes responses off the connection
  eof,        \* the client closed the connection
  shutdown,   \* ctx.lifecycle().shutdown_requested()
  pc,         \* "start", "top", "receive", "parse", "body", "respond", "closed"
  buffer,     \* bytes taken from the socket and not yet given to the engine
  handled,    \* ghost: frames given to the engine, 0 for bytes that are no frame
  answered,   \* ghost: how many responses were written
  lost        \* ghost: a chunk was received that could not be mapped
peer == <<front, script, stream, noise, written, reads, eof, shutdown>>
vars == <<peer, read, pc, buffer, handled, answered, lost>>

bad_length(length) == length <= 0 \/ length > MAX_FRAME_LEN

\* valid: the engine returns Ok for the frame.  It never sees one of a bad length.
Frame == {f \in [length : Lengths, valid : BOOLEAN] : bad_length(f.length) => ~f.valid}

size(frame) == PrefixLen + (IF frame.length > 0 THEN frame.length ELSE 0)
bytes(frames, k) == [j \in 1 .. size(frames[k]) |-> <<k, j>>]

Init ==
  /\ front \in {"host", "el0"}
  /\ script \in [1 .. MaxFrames -> Frame]
  /\ stream = FlattenSeq([k \in 1 .. MaxFrames |-> bytes(script, k)])
  /\ noise \in Lengths
  /\ written = 0 /\ read = 0 /\ reads = TRUE /\ eof = FALSE /\ shutdown = FALSE
  /\ pc = IF front = "host" THEN "start" ELSE "top"
  /\ buffer = <<>> /\ handled = <<>> /\ answered = 0 /\ lost = FALSE

\* What the first PrefixLen bytes of b say, and which frame b is.
spelled(b) ==
  LET k == b[1][1]
  IN  IF \A j \in 1 .. PrefixLen : b[j] = <<k, j>> THEN script[k].length ELSE noise
frame_of(b) == IF \E k \in 1 .. MaxFrames : b = bytes(script, k) THEN b[1][1] ELSE 0

available == written - read
take(n) == SubSeq(stream, read + 1, read + n)
close == pc' = "closed"

-----------------------------------------------------------------------------
\* The client, external: it writes on, reads or not, and may close at any byte.
Write ==
  /\ pc # "closed" /\ ~eof /\ written < Len(stream)
  /\ written' = written + 1
  /\ UNCHANGED <<front, script, stream, noise, reads, eof, shutdown, read, pc, buffer, handled, answered, lost>>

\* A client that does not stop: once everything is answered the stream starts over,
\* which is the state that more of the same frames would reach.
WriteMore ==
  /\ pc \in {"top", "receive"} /\ ~eof /\ ~lost
  /\ read = Len(stream) /\ buffer = <<>> /\ answered = MaxFrames
  /\ written' = 0 /\ read' = 0 /\ handled' = <<>> /\ answered' = 0
  /\ UNCHANGED <<front, script, stream, noise, reads, eof, shutdown, pc, buffer, lost>>

ReadOrNot ==
  /\ pc # "closed" /\ ~eof
  /\ reads' = ~reads
  /\ UNCHANGED <<front, script, stream, noise, written, eof, shutdown, read, pc, buffer, handled, answered, lost>>

CloseByClient ==
  /\ pc # "closed" /\ ~eof
  /\ eof' = TRUE
  /\ UNCHANGED <<front, script, stream, noise, written, reads, shutdown, read, pc, buffer, handled, answered, lost>>

RequestShutdown ==
  /\ pc # "closed" /\ front = "el0" /\ ~shutdown
  /\ shutdown' = TRUE
  /\ UNCHANGED <<front, script, stream, noise, written, reads, eof, read, pc, buffer, handled, answered, lost>>

-----------------------------------------------------------------------------
\* Whether the engine returns Ok; for bytes that are no frame it may do either.
engine_results(k) == IF k = 0 THEN BOOLEAN ELSE {script[k].valid}

\* Throws away what follows the frame in the buffer.
handle_frame_clearing(b, n) ==
  LET k == frame_of(SubSeq(b, 1, n))
  IN  /\ buffer' = <<>>
      /\ handled' = Append(handled, k)
      /\ \E ok \in engine_results(k) : pc' = IF ok THEN "respond" ELSE "closed"

\* engine.handle_frame on the first n bytes of b, the rest staying in the buffer.
handle_frame(b, n) ==
  LET k == frame_of(SubSeq(b, 1, n))
  IN  /\ buffer' = SubSeq(b, n + 1, Len(b))
      /\ handled' = Append(handled, k)
      /\ \E ok \in engine_results(k) : pc' = IF ok THEN "respond" ELSE "closed"

\* Goes on with the next frame when the response could not be written.
Respond_unchecked ==
  /\ pc = "respond"
  /\ \/ answered' = answered + 1
     \/ UNCHANGED answered
  /\ pc' = IF front = "host" THEN "receive" ELSE "parse"
  /\ UNCHANGED <<peer, read, buffer, handled, lost>>

\* Goes back for another chunk after each frame: an if in place of the while.
Respond_once ==
  /\ pc = "respond"
  /\ \/ /\ answered' = answered + 1
        /\ pc' = IF front = "host" THEN "receive" ELSE "top"
     \/ close /\ UNCHANGED answered
  /\ UNCHANGED <<peer, read, buffer, handled, lost>>

\* write_all, send_all: an error closes the connection.  How much of a response the
\* sockets take before the client must read is not known: it may be all of it.
Respond ==
  /\ pc = "respond"
  /\ \/ /\ answered' = answered + 1
        /\ pc' = IF front = "host" THEN "receive" ELSE "parse"
     \/ close /\ UNCHANGED answered
  /\ UNCHANGED <<peer, read, buffer, handled, lost>>

-----------------------------------------------------------------------------
\* Host: set_nonblocking(false) may fail.
HostStart ==
  /\ pc = "start"
  /\ pc' = "receive" \/ close
  /\ UNCHANGED <<peer, read, buffer, handled, answered, lost>>

\* Host: read_exact of the prefix, and the check of the length it spells.
HostReadPrefix ==
  /\ front = "host" /\ pc = "receive" /\ available >= PrefixLen
  /\ read' = read + PrefixLen
  /\ buffer' = take(PrefixLen)
  /\ IF bad_length(spelled(take(PrefixLen))) THEN close ELSE pc' = "body"
  /\ UNCHANGED <<peer, handled, answered, lost>>

\* Host: read_exact of the payload, then the engine.
HostReadBody ==
  /\ front = "host" /\ pc = "body" /\ available >= spelled(buffer)
  /\ read' = read + spelled(buffer)
  /\ handle_frame(buffer \o take(spelled(buffer)), PrefixLen + spelled(buffer))
  /\ UNCHANGED <<peer, answered, lost>>

\* Host: read_exact fails, at the latest when the client closes early.
HostReadError ==
  /\ front = "host" /\ pc \in {"receive", "body"}
  /\ close
  /\ UNCHANGED <<peer, read, buffer, handled, answered, lost>>

-----------------------------------------------------------------------------
\* Asks only when no bytes are waiting.
CheckShutdown_idle ==
  /\ pc = "top"
  /\ IF shutdown /\ available = 0 THEN close ELSE pc' = "receive"
  /\ UNCHANGED <<peer, read, buffer, handled, answered, lost>>

\* EL0: the lifecycle is asked once per turn of the outer loop.
CheckShutdown ==
  /\ pc = "top"
  /\ IF shutdown THEN close ELSE pc' = "receive"
  /\ UNCHANGED <<peer, read, buffer, handled, answered, lost>>

\* EL0: a chunk of any size, added to the buffer if its memory can be mapped.
\* Without it the bytes that follow are read at the wrong place.  Bound: this
\* happens to one chunk.
ReceiveChunk ==
  /\ front = "el0" /\ pc = "receive"
  /\ \E n \in 1 .. available :
       /\ read' = read + n
       /\ \/ buffer' = buffer \o take(n) /\ UNCHANGED lost
          \/ ~lost /\ lost' = TRUE /\ UNCHANGED buffer
  /\ pc' = "parse"
  /\ UNCHANGED <<peer, handled, answered>>

\* EL0: RetryExhausted, nothing arrived within ACCEPT_POLL_MS.
ReceiveTimeout ==
  /\ front = "el0" /\ pc = "receive" /\ available = 0 /\ ~eof
  /\ pc' = "top"
  /\ UNCHANGED <<peer, read, buffer, handled, answered, lost>>

\* EL0: Ok(None) at the end of the stream, or any other error.
ReceiveEnd ==
  /\ front = "el0" /\ pc = "receive"
  /\ close
  /\ UNCHANGED <<peer, read, buffer, handled, answered, lost>>

\* Waits for the payload before it looks at the length.
must_wait_unchecked ==
  Len(buffer) >= PrefixLen => Len(buffer) < PrefixLen + spelled(buffer)

must_wait ==
  Len(buffer) >= PrefixLen =>
    ~bad_length(spelled(buffer)) /\ Len(buffer) < PrefixLen + spelled(buffer)

\* EL0: one turn of `while buffer.len() >= 4`.
Parse ==
  /\ pc = "parse"
  /\ \/ must_wait /\ pc' = "top" /\ UNCHANGED <<buffer, handled>>
     \/ ~must_wait /\ bad_length(spelled(buffer)) /\ close /\ UNCHANGED <<buffer, handled>>
     \/ ~must_wait /\ ~bad_length(spelled(buffer)) /\ handle_frame(buffer, PrefixLen + spelled(buffer))
  /\ UNCHANGED <<peer, read, answered, lost>>

-----------------------------------------------------------------------------
\* Errors may come at any time.  Fairness asks for the end of a read only where it
\* must end: the client has closed and what is there does not suffice.
HostReadEnds ==
  /\ eof /\ available < (IF pc = "body" THEN spelled(buffer) ELSE PrefixLen)
  /\ HostReadError
ReceiveEnds == eof /\ available = 0 /\ ReceiveEnd

\* write_all of the host waits, without a limit, for a client that does not read;
\* send_all of EL0 gives up after 1200 attempts of ACCEPT_POLL_MS.
RespondEnds == (front = "el0" \/ reads \/ eof) /\ Respond

Progress ==
  \/ HostStart \/ HostReadPrefix \/ HostReadBody \/ HostReadEnds
  \/ CheckShutdown \/ ReceiveChunk \/ ReceiveTimeout \/ ReceiveEnds \/ Parse
  \/ RespondEnds

Next ==
  \/ Write \/ WriteMore \/ ReadOrNot \/ CloseByClient \/ RequestShutdown
  \/ Progress \/ HostReadError \/ ReceiveEnd \/ Respond

\* The connection's thread runs: every wait of EL0 is bounded; a blocking read of the
\* host returns when bytes are there or the client is gone, and a blocking write when
\* the client reads or is gone.
Spec == Init /\ [][Next]_vars /\ WF_vars(Progress)

-----------------------------------------------------------------------------
\* However the bytes are cut into chunks, the engine is given the client's frames,
\* whole, in order, each once, and none behind a frame that the front end or the
\* engine refused.  Only a chunk that could not be mapped takes that away.
FramesInOrder ==
  ~lost => \A i \in 1 .. Len(handled) :
             /\ handled[i] = i
             /\ script[i].length \in 1 .. MAX_FRAME_LEN
             /\ i < Len(handled) => script[i].valid

\* At most one request of a connection is in doubt: a frame is given to the engine
\* only when every earlier one was answered, also for pipelined frames and after a
\* failed write, and the responses are those of the handled frames in order.
OneInDoubt ==
  /\ answered \in Len(handled) - 1 .. Len(handled)
  /\ pc \notin {"respond", "closed"} => answered = Len(handled)

\* The decoder buffer of EL0 has no limit of its own, yet between two chunks it holds
\* less than one frame of the largest size, whatever lengths the client announces.
BufferBounded == pc \in {"top", "receive"} => Len(buffer) < PrefixLen + MAX_FRAME_LEN

\* A frame that has arrived is answered unless the connection is closed; none waits
\* in the buffer for bytes that the client would send only after the response.  EL0
\* owes this to every client, since its sends are bounded; the host, whose write_all
\* is not, only to one that keeps reading its responses.
ArrivedIsAnswered ==
  \A k \in 1 .. MaxFrames :
    <>[](front = "el0" \/ reads) =>
      ((\E i \in 1 .. written : stream[i] = <<k, size(script[k])>>)
         ~> (answered >= k \/ pc = "closed" \/ lost))

\* A connection ends when the client closes it and, on EL0, when the service is asked
\* to stop: buffered frames are finished first, but a client that never stops sending
\* or does not read cannot postpone it.
Ends == (eof \/ shutdown) ~> pc = "closed"
=============================================================================
