-------------------------- MODULE ConnectionProofs --------------------------
(***************************************************************************)
(* TLAPS proof that a connection of either front end leaves at most one    *)
(* request in doubt, for any frames, any way their bytes are cut, and with *)
(* errors and a lost chunk at any place.                                   *)
(***************************************************************************)
EXTENDS Connection, TLAPS

\* While a response is being written, its frame is the only one without an answer.
DoubtOk ==
  /\ answered \in Nat
  /\ pc = "respond" => answered = Len(handled) - 1
  /\ pc = "closed" => answered \in Len(handled) - 1 .. Len(handled)
  /\ pc \notin {"respond", "closed"} => answered = Len(handled)

HandledOk ==
  /\ script \in [1 .. MaxFrames -> Frame]
  /\ handled \in Seq(0 .. MaxFrames)

\* The inductive invariant.
IInv == HandledOk /\ DoubtOk

\* frame_of is a frame of the client, or 0.
LEMMA FrameOf ==
  ASSUME HandledOk, NEW b
  PROVE  frame_of(b) \in 0 .. MaxFrames
<1>1. ASSUME NEW k \in 1 .. MaxFrames, b = bytes(script, k)
      PROVE  b[1][1] = k
  <2>1. script[k] \in Frame /\ script[k].length \in Int
    BY ConnectionAssumption DEF HandledOk, Frame
  <2>2. size(script[k]) \in Nat /\ size(script[k]) >= 1
    BY <2>1, ConnectionAssumption DEF size
  <2>3. 1 \in 1 .. size(script[k])
    BY <2>2
  <2>4. bytes(script, k)[1] = <<k, 1>>
    BY <2>3 DEF bytes
  <2> QED
    BY <1>1, <2>4
<1>2. CASE \E k \in 1 .. MaxFrames : b = bytes(script, k)
  <2>1. PICK k \in 1 .. MaxFrames : b = bytes(script, k)
    BY <1>2
  <2>2. frame_of(b) = k
    BY <1>1, <1>2, <2>1 DEF frame_of
  <2> QED
    BY <2>2, ConnectionAssumption
<1>3. CASE ~ \E k \in 1 .. MaxFrames : b = bytes(script, k)
  BY <1>3, ConnectionAssumption DEF frame_of
<1> QED
  BY <1>2, <1>3

\* Nothing was handled yet.
LEMMA InitOk == Init => IInv
BY DEF Init, IInv, HandledOk, DoubtOk

\* A frame goes to the engine only when all others were answered.
LEMMA HandleOk ==
  ASSUME IInv, pc \notin {"respond", "closed"}, NEW b, NEW n, handle_frame(b, n),
         script' = script, answered' = answered
  PROVE  IInv'
<1> DEFINE k == frame_of(SubSeq(b, 1, n))
<1>1. k \in 0 .. MaxFrames
  BY FrameOf DEF IInv
<1>2. handled' = Append(handled, k) /\ pc' \in {"respond", "closed"}
  BY DEF handle_frame
<1> HIDE DEF k
<1>3. /\ handled' \in Seq(0 .. MaxFrames)
      /\ Len(handled') = Len(handled) + 1 /\ Len(handled) \in Nat
  BY <1>1, <1>2 DEF IInv, HandledOk
<1>4. HandledOk'
  BY <1>3 DEF IInv, HandledOk
<1>5. DoubtOk'
  BY <1>2, <1>3 DEF IInv, DoubtOk
<1> QED
  BY <1>4, <1>5 DEF IInv

\* A step that gives the engine nothing and writes no response.
LEMMA WaitOk ==
  ASSUME IInv, pc # "respond", UNCHANGED <<script, handled, answered>>,
         pc' # "respond", pc = "closed" => pc' = "closed"
  PROVE  IInv'
<1>1. Len(handled) \in Nat
  BY DEF IInv, HandledOk
<1>2. HandledOk'
  BY DEF IInv, HandledOk
<1>3. DoubtOk'
  BY <1>1 DEF IInv, DoubtOk
<1> QED
  BY <1>2, <1>3 DEF IInv

\* The response is written, or the connection is closed.
LEMMA RespondOk ==
  ASSUME IInv, Respond
  PROVE  IInv'
<1>1. /\ pc = "respond" /\ UNCHANGED <<script, handled>>
      /\ \/ answered' = answered + 1 /\ pc' \in {"receive", "parse"}
         \/ answered' = answered /\ pc' = "closed"
  BY DEF Respond, close, peer
<1>2. Len(handled) \in Nat
  BY DEF IInv, HandledOk
<1>3. HandledOk'
  BY <1>1 DEF IInv, HandledOk
<1>4. DoubtOk'
  BY <1>1, <1>2 DEF IInv, DoubtOk
<1> QED
  BY <1>3, <1>4 DEF IInv

\* The client and the stop request touch neither.
LEMMA PeerOk ==
  ASSUME IInv, UNCHANGED <<script, pc, handled, answered>>
  PROVE  IInv'
BY DEF IInv, HandledOk, DoubtOk

\* A stream that starts over is like the first one.
LEMMA StartsOver ==
  ASSUME IInv, pc \in {"top", "receive"}, pc' = pc, script' = script, handled' = <<>>, answered' = 0
  PROVE  IInv'
BY DEF IInv, HandledOk, DoubtOk

LEMMA NextOk == IInv /\ [Next]_vars => IInv'
<1> SUFFICES ASSUME IInv, [Next]_vars PROVE IInv'
  OBVIOUS
<1>1. CASE UNCHANGED vars
  BY <1>1, PeerOk DEF vars, peer
<1>2. CASE Write \/ ReadOrNot \/ CloseByClient \/ RequestShutdown
  BY <1>2, PeerOk DEF Write, ReadOrNot, CloseByClient, RequestShutdown
<1>3. CASE HostStart \/ HostReadPrefix
  <2>1. /\ pc \in {"start", "receive"} /\ pc' \in {"receive", "body", "closed"}
        /\ UNCHANGED <<script, handled, answered>>
    BY <1>3 DEF HostStart, HostReadPrefix, close, peer
  <2> QED
    BY <2>1, WaitOk
<1>4. CASE HostReadBody
  <2>1. /\ pc = "body" /\ script' = script /\ answered' = answered
        /\ handle_frame(buffer \o take(spelled(buffer)), PrefixLen + spelled(buffer))
    BY <1>4 DEF HostReadBody, peer
  <2> QED
    BY <2>1, HandleOk
<1>5. CASE HostReadError \/ HostReadEnds \/ ReceiveEnd \/ ReceiveEnds
  <2>1. pc \in {"receive", "body"} /\ pc' = "closed" /\ UNCHANGED <<script, handled, answered>>
    BY <1>5 DEF HostReadError, HostReadEnds, ReceiveEnd, ReceiveEnds, close, peer
  <2> QED
    BY <2>1, WaitOk
<1>6. CASE CheckShutdown \/ ReceiveChunk \/ ReceiveTimeout
  <2>1. /\ pc \in {"top", "receive"} /\ pc' \in {"top", "receive", "parse", "closed"}
        /\ UNCHANGED <<script, handled, answered>>
    BY <1>6 DEF CheckShutdown, ReceiveChunk, ReceiveTimeout, close, peer
  <2> QED
    BY <2>1, WaitOk
<1>7. CASE Parse
  <2>1. /\ pc = "parse" /\ script' = script /\ answered' = answered
        /\ \/ pc' \in {"top", "closed"} /\ handled' = handled
           \/ handle_frame(buffer, PrefixLen + spelled(buffer))
    BY <1>7 DEF Parse, close, peer
  <2> QED
    BY <2>1, WaitOk, HandleOk
<1>8. CASE WriteMore
  BY <1>8, StartsOver DEF WriteMore
<1>9. CASE Respond \/ RespondEnds
  BY <1>9, RespondOk DEF RespondEnds
<1> QED
  BY <1>1, <1>2, <1>3, <1>4, <1>5, <1>6, <1>7, <1>8, <1>9 DEF Next, Progress

\* serve_connection of either front end gives a frame to the engine only when every
\* earlier one was answered, whatever is pipelined, cut, lost or fails: at most the
\* last request given to the engine is in doubt.
THEOREM AtMostOneInDoubt == Spec => []OneInDoubt
<1>1. IInv => OneInDoubt
  <2> SUFFICES ASSUME IInv PROVE OneInDoubt
    OBVIOUS
  <2>1. Len(handled) \in Nat
    BY DEF IInv, HandledOk
  <2> QED
    BY <2>1 DEF IInv, DoubtOk, OneInDoubt
<1>2. Spec => []IInv
  BY InitOk, NextOk, PTL DEF Spec
<1> QED
  BY <1>1, <1>2, PTL
=============================================================================
