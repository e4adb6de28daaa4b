-------------------------- MODULE SignedStdioProofs --------------------------
(***************************************************************************)
(* Proofs about SignedStdio, for any number of frames and any width of the *)
(* counter: handled frames are those written, in order and each once, the  *)
(* answers follow in the same order, and a torn-down transport is silent.  *)
(*                                                                         *)
(* The invariant ties the four places of a frame together: what was        *)
(* written is what was handled followed by what waits, at most the last    *)
(* handled frame is in onRequest, and every answer is to an earlier one.   *)
(***************************************************************************)
EXTENDS SignedStdio, SequenceTheorems, TLAPS

\* expectedMinCounter is above every counter handled, and above their number.
HandledInv ==
    /\ \A i \in 1..Len(handled) : handled[i].at = i /\ handled[i].counter < expected
    /\ FreshCounters
    /\ Len(handled) <= expected

\* The frames that wait continue those handled: b is what the buffer may be.
Continues(b) == \A j \in 1..Len(b) : b[j].at = Len(handled) + j
BufferInv == Continues(buffer) /\ written = Len(handled) + Len(buffer)

\* pump awaits onRequest of the last frame it took, and of no other.
RunningInv ==
    /\ processing <=> handling # {}
    /\ \A f \in handling : Len(handled) > 0 /\ f = handled[Len(handled)]

\* The answers so far are to some of the first n frames.
AnswersUpTo(n) ==
    /\ outbound = Len(output) /\ Len(output) <= n
    /\ \A i \in 1..Len(output) : output[i].counter = i - 1 /\ output[i].to <= n
    /\ \A i, j \in 1..Len(output) : i < j => output[i].to < output[j].to

OutputInv ==
    /\ AnswersUpTo(Len(handled))
    /\ handling # {} => AnswersUpTo(Len(handled) - 1)

Response == [to: 1..MaxFrames, counter: 0..MaxCounter]

StdioInv == TypeOK /\ HandledInv /\ BufferInv /\ RunningInv /\ OutputInv

LEMMA StdioInvInit == Init => StdioInv
<1> SUFFICES ASSUME Init  PROVE StdioInv
  OBVIOUS
<1> USE DEF Init
<1>1. TypeOK
  <2>1. buffer \in Seq(Frame) /\ handled \in Seq(Frame)
    BY EmptySeq
  <2>2. output \in Seq(Response)
    BY EmptySeq
  <2>3. 0 \in 0..MaxFrames /\ 0 \in 0..MaxCounter + 1
    BY BoundAssumption
  <2> QED  BY <2>1, <2>2, <2>3 DEF TypeOK, Response
<1>2. Len(handled) = 0 /\ Len(buffer) = 0 /\ Len(output) = 0
  BY EmptySeq
<1> QED  BY <1>1, <1>2 DEF StdioInv, HandledInv, FreshCounters, BufferInv, Continues, RunningInv, OutputInv, AnswersUpTo
-----------------------------------------------------------------------------
(* pump                                                                    *)

\* pump goes through b in order: a frame it takes is the next one, with a
\* counter none before it had.
LEMMA PumpTakes ==
    ASSUME TypeOK, HandledInv, NEW b \in Seq(Frame), NEW part \in BOOLEAN, Continues(b),
           Pump(b, part, {})
    PROVE  /\ buffer' \in Seq(Frame) /\ handled' \in Seq(Frame) /\ handling' \subseteq Frame
           /\ expected' \in 0..MaxCounter + 1 /\ processing' \in BOOLEAN
           /\ state' \in {"running"} \cup Reason /\ rejects' \in Nat
           /\ HandledInv' /\ Continues(buffer)' /\ RunningInv'
           /\ Len(handled') + Len(buffer') = Len(handled) + Len(b)
           /\ Len(handled) <= Len(handled')
           /\ \A f \in handling' : Len(handled') = Len(handled) + 1 /\ f.at = Len(handled')
<1> DEFINE f == Head(b)
<1>1. handled \in Seq(Frame) /\ Len(handled) \in Nat /\ Len(b) \in Nat
  BY LenProperties DEF TypeOK
<1>2. CASE buffer' = b /\ handling' = {} /\ processing' = FALSE /\ UNCHANGED <<handled, expected>>
           /\ state' \in {state} \cup Reason /\ rejects' \in {rejects, rejects + 1}
  <2>1. HandledInv' /\ Continues(buffer)' /\ RunningInv'
    BY <1>2 DEF HandledInv, FreshCounters, Continues, RunningInv
  <2>2. /\ expected' \in 0..MaxCounter + 1
        /\ state' \in {"running"} \cup Reason /\ rejects' \in Nat
    BY <1>2 DEF TypeOK
  <2>3. buffer' \in Seq(Frame) /\ handled' \in Seq(Frame) /\ handling' \subseteq Frame
    BY <1>1, <1>2
  <2>4. /\ Len(handled') + Len(buffer') = Len(handled) + Len(b)
        /\ Len(handled) <= Len(handled')
    BY <1>1, <1>2
  <2> QED  BY <1>2, <2>1, <2>2, <2>3, <2>4
<1>3. CASE /\ b # <<>> /\ Accepted(f, part /\ Len(b) = 1)
           /\ buffer' = Tail(b) /\ expected' = MinAfter(f)
           /\ handled' = Append(handled, f) /\ handling' = {f} /\ processing' = TRUE
           /\ UNCHANGED <<state, rejects>>
  <2>1. /\ f \in Frame /\ Tail(b) \in Seq(Frame) /\ Len(Tail(b)) = Len(b) - 1
        /\ \A i \in 1..Len(Tail(b)) : Tail(b)[i] = b[i + 1]
    BY <1>3, HeadTailProperties
  <2>2. f = b[1] /\ Len(b) > 0
    BY <1>3, EmptySeq
  <2>3. /\ Append(handled, f) \in Seq(Frame)
        /\ Len(Append(handled, f)) = Len(handled) + 1
        /\ \A i \in 1..Len(handled) : Append(handled, f)[i] = handled[i]
        /\ Append(handled, f)[Len(handled) + 1] = f
    BY <1>1, <2>1, AppendProperties
  <2>4. f.at = Len(handled) + 1 /\ f.counter \in 0..MaxCounter /\ f.counter >= expected
    BY <1>1, <1>3, <2>1, <2>2 DEF Continues, Accepted, Frame
  <2>5. expected' = f.counter + 1 /\ expected' \in 0..MaxCounter + 1 /\ expected \in Nat
    BY <1>3, <2>4, BoundAssumption DEF MinAfter, TypeOK
  <2> HIDE DEF f
  <2>6. \A i \in 1..Len(handled) : handled[i].counter \in Nat
    <3>1. \A i \in 1..Len(handled) : handled[i] \in Frame
      BY <1>1, ElementOfSeq
    <3> QED  BY <3>1, BoundAssumption DEF Frame
  <2>7. HandledInv'
    <3>1. \A i \in 1..Len(handled') : handled'[i].at = i /\ handled'[i].counter < expected'
      BY <1>1, <1>3, <2>3, <2>4, <2>5, <2>6 DEF HandledInv
    <3>2. ASSUME NEW i \in 1..Len(handled'), NEW j \in 1..Len(handled'), i < j
          PROVE  handled'[i].counter < handled'[j].counter
      <4>1. i \in 1..Len(handled) /\ handled'[i] = handled[i]
        BY <1>1, <1>3, <2>3, <3>2
      <4>2. CASE j \in 1..Len(handled)
        BY <1>3, <2>3, <3>2, <4>1, <4>2 DEF HandledInv, FreshCounters
      <4>3. CASE j = Len(handled) + 1
        BY <1>3, <2>3, <2>4, <2>5, <2>6, <4>1, <4>3 DEF HandledInv
      <4> QED  BY <1>1, <1>3, <2>3, <4>2, <4>3
    <3>3. Len(handled') <= expected'
      BY <1>1, <1>3, <2>3, <2>4, <2>5 DEF HandledInv
    <3> QED  BY <3>1, <3>2, <3>3 DEF HandledInv, FreshCounters
  <2>8. Continues(buffer)'
    BY <1>1, <1>3, <2>1, <2>3 DEF Continues
  <2>9. RunningInv'
    BY <1>1, <1>3, <2>3 DEF RunningInv
  <2> QED  BY <1>1, <1>3, <2>1, <2>2, <2>3, <2>4, <2>5, <2>7, <2>8, <2>9 DEF TypeOK
<1> QED  BY <1>2, <1>3 DEF Pump, Return, Refuse, Reason

\* A pump over b, whatever its caller wrote before it.
LEMMA PumpKeeps ==
    ASSUME StdioInv, NEW b \in Seq(Frame), NEW part \in BOOLEAN, Continues(b), Pump(b, part, {}),
           written' = Len(handled) + Len(b), written' \in 0..MaxFrames,
           partial' \in BOOLEAN, stalled' \in BOOLEAN,
           outbound' \in 0..MaxCounter + 1, output' \in Seq(Response),
           NEW n, n = Len(handled), AnswersUpTo(n)'
    PROVE  StdioInv'
<1>1. /\ buffer' \in Seq(Frame) /\ handled' \in Seq(Frame) /\ handling' \subseteq Frame
      /\ expected' \in 0..MaxCounter + 1 /\ processing' \in BOOLEAN
      /\ state' \in {"running"} \cup Reason /\ rejects' \in Nat
      /\ HandledInv' /\ Continues(buffer)' /\ RunningInv'
      /\ Len(handled') + Len(buffer') = Len(handled) + Len(b)
      /\ Len(handled) <= Len(handled')
      /\ \A f \in handling' : Len(handled') = Len(handled) + 1 /\ f.at = Len(handled')
  BY PumpTakes DEF StdioInv
<1>2. TypeOK'
  BY <1>1 DEF TypeOK, Response
<1>3. BufferInv'
  BY <1>1 DEF BufferInv
<1>4. OutputInv'
  <2>1. Len(handled) \in Nat /\ Len(handled') \in Nat /\ Len(output') \in Nat
    BY <1>1, LenProperties DEF StdioInv, TypeOK
  <2>2. \A i \in 1..Len(output') : output'[i].to \in Nat
    <3>1. \A i \in 1..Len(output') : output'[i] \in Response
      BY ElementOfSeq
    <3> QED  BY <3>1, BoundAssumption DEF Response
  <2>3. AnswersUpTo(Len(handled))'
    BY <1>1, <2>1, <2>2 DEF AnswersUpTo
  <2>4. handling' # {} => AnswersUpTo(Len(handled) - 1)'
    BY <1>1, <2>1, <2>2 DEF AnswersUpTo
  <2> QED  BY <2>3, <2>4 DEF OutputInv
<1> QED  BY <1>1, <1>2, <1>3, <1>4 DEF StdioInv

\* pump returned and nothing is in onRequest.
LEMMA StopKeeps ==
    ASSUME StdioInv, buffer' = buffer, handling' = {}, processing' = FALSE,
           UNCHANGED <<written, partial, handled, expected>>,
           stalled' \in BOOLEAN, state' \in {"running"} \cup Reason, rejects' \in Nat,
           outbound' \in 0..MaxCounter + 1, output' \in Seq(Response),
           NEW n, n = Len(handled), AnswersUpTo(n)'
    PROVE  StdioInv'
<1>1. TypeOK'
  BY DEF StdioInv, TypeOK, Response
<1>2. HandledInv' /\ BufferInv' /\ RunningInv'
  BY DEF StdioInv, HandledInv, FreshCounters, BufferInv, Continues, RunningInv
<1>3. OutputInv'
  BY DEF OutputInv, AnswersUpTo
<1> QED  BY <1>1, <1>2, <1>3 DEF StdioInv

\* The continuation of pump, after the answer, if there is one, was written.
LEMMA LoopKeeps ==
    ASSUME StdioInv, Loop({}), UNCHANGED <<written, partial, stalled>>,
           outbound' \in 0..MaxCounter + 1, output' \in Seq(Response),
           NEW n, n = Len(handled), AnswersUpTo(n)'
    PROVE  StdioInv'
<1>1. CASE torn
  <2>1. /\ buffer' = buffer /\ handling' = {} /\ processing' = FALSE
        /\ UNCHANGED <<handled, expected, state, rejects>>
    BY <1>1 DEF Loop, LoopOver, Return
  <2> QED  BY <2>1, StopKeeps DEF StdioInv, TypeOK
<1>2. CASE ~torn
  <2>1. Pump(buffer, partial, {})
    BY <1>2 DEF Loop, LoopOver
  <2>2. buffer \in Seq(Frame) /\ partial \in BOOLEAN /\ stalled \in BOOLEAN /\ Continues(buffer)
        /\ written = Len(handled) + Len(buffer) /\ written \in 0..MaxFrames
    BY DEF StdioInv, TypeOK, BufferInv
  <2> QED  BY <2>1, <2>2, PumpKeeps
<1> QED  BY <1>1, <1>2

\* A frame in onRequest is the only one, and the last handled; it is not answered.
LEMMA OneRunning ==
    ASSUME StdioInv, NEW f \in handling
    PROVE  /\ handling \ {f} = {} /\ f \in Frame /\ f.at = Len(handled)
           /\ AnswersUpTo(Len(handled)) /\ AnswersUpTo(Len(handled) - 1)
           /\ Len(handled) \in 1..MaxCounter + 1
<1>1. handling \ {f} = {} /\ f = handled[Len(handled)] /\ f \in Frame
  BY DEF StdioInv, RunningInv, TypeOK
<1>2. Len(handled) \in Nat /\ Len(handled) > 0 /\ Len(handled) <= expected /\ expected \in 0..MaxCounter + 1
  BY LenProperties DEF StdioInv, TypeOK, RunningInv, HandledInv
<1>3. f.at = Len(handled)
  BY <1>1, <1>2 DEF StdioInv, HandledInv
<1> QED  BY <1>1, <1>2, <1>3, BoundAssumption DEF StdioInv, OutputInv
-----------------------------------------------------------------------------
(* The steps                                                               *)

\* What Data and DataRest do to the buffer.
LEMMA BufferedKeeps ==
    ASSUME StdioInv, NEW b \in Seq(Frame), NEW part \in BOOLEAN, Continues(b), Buffered(b, part),
           written' = Len(handled) + Len(b), written' \in 0..MaxFrames, partial' \in BOOLEAN,
           UNCHANGED <<outbound, output>>, stalled' = FALSE
    PROVE  StdioInv'
<1>1. PICK n : n = Len(handled)
  OBVIOUS
<1>2. /\ stalled' \in BOOLEAN /\ outbound' \in 0..MaxCounter + 1 /\ output' \in Seq(Response)
      /\ AnswersUpTo(n)'
  BY <1>1 DEF StdioInv, TypeOK, Response, OutputInv, AnswersUpTo
<1>3. CASE processing
  <2>1. buffer' = b /\ UNCHANGED <<expected, processing, handling, state, handled, rejects>>
    BY <1>3 DEF Buffered, Busy
  <2>2. TypeOK'
    BY <1>2, <2>1 DEF StdioInv, TypeOK, Response
  <2>3. HandledInv' /\ BufferInv' /\ RunningInv' /\ OutputInv'
    BY <2>1 DEF StdioInv, HandledInv, FreshCounters, BufferInv, Continues, RunningInv, OutputInv, AnswersUpTo
  <2> QED  BY <2>2, <2>3 DEF StdioInv
<1>4. CASE ~processing
  <2>1. handling = {}
    BY <1>4 DEF StdioInv, RunningInv
  <2>2. Pump(b, part, {})
    BY <1>4, <2>1 DEF Buffered, Busy
  <2> QED  BY <1>1, <1>2, <2>2, PumpKeeps
<1> QED  BY <1>3, <1>4

LEMMA DataKeeps ==
    ASSUME StdioInv, NEW f \in Frame, NEW part \in BOOLEAN, Data(f, part)
    PROVE  StdioInv'
<1> DEFINE b == Append(buffer, f)
<1>1. /\ buffer \in Seq(Frame) /\ Len(buffer) \in Nat /\ Len(handled) \in Nat
      /\ written = Len(handled) + Len(buffer) /\ Continues(buffer)
  BY LenProperties DEF StdioInv, TypeOK, BufferInv
<1>2. /\ b \in Seq(Frame) /\ Len(b) = Len(buffer) + 1
      /\ \A j \in 1..Len(buffer) : b[j] = buffer[j]
      /\ b[Len(buffer) + 1] = f
  BY <1>1, AppendProperties
<1>3. /\ f.at = written + 1 /\ written' = f.at /\ partial' = part
      /\ Buffered(b, part) /\ UNCHANGED <<outbound, output>> /\ stalled' = FALSE
  BY DEF Data
<1> HIDE DEF b
<1>4. Continues(b)
  BY <1>1, <1>2, <1>3 DEF Continues
<1>5. written' = Len(handled) + Len(b) /\ written' \in 0..MaxFrames
  BY <1>1, <1>2, <1>3, BoundAssumption DEF Frame
<1> QED  BY <1>2, <1>3, <1>4, <1>5, BufferedKeeps

LEMMA RestKeeps == ASSUME StdioInv, DataRest  PROVE StdioInv'
<1>1. /\ buffer \in Seq(Frame) /\ Continues(buffer)
      /\ written = Len(handled) + Len(buffer) /\ written \in 0..MaxFrames
  BY DEF StdioInv, TypeOK, BufferInv
<1> QED  BY <1>1, BufferedKeeps DEF DataRest

LEMMA TearDownKeeps ==
    ASSUME StdioInv, NEW why \in Reason, TearDown(why)
    PROVE  StdioInv'
  BY DEF TearDown, StdioInv, TypeOK, HandledInv, FreshCounters, BufferInv, Continues, RunningInv,
     OutputInv, AnswersUpTo

LEMMA SettleKeeps == ASSUME StdioInv, NEW f \in handling, Settle(f)  PROVE StdioInv'
<1>1. PICK n : n = Len(handled)
  OBVIOUS
<1>2. /\ handling \ {f} = {} /\ f \in Frame /\ f.at = n
      /\ AnswersUpTo(n) /\ AnswersUpTo(n - 1) /\ n \in 1..MaxCounter + 1
  BY <1>1, OneRunning
<1>3. outbound \in 0..MaxCounter + 1 /\ output \in Seq(Response)
  BY DEF StdioInv, TypeOK, Response
<1>4. CASE Notified(f)
  <2>1. AnswersUpTo(n)'
    BY <1>2, <1>4 DEF Notified, AnswersUpTo
  <2> QED  BY <1>1, <1>2, <1>3, <1>4, <2>1, LoopKeeps DEF Notified
<1>5. CASE Respond(f)
  <2> DEFINE a == [to |-> f.at, counter |-> outbound]
  <2>1. /\ Len(output) \in Nat /\ outbound = Len(output) /\ Len(output) <= n - 1
    BY <1>2, <1>3, LenProperties DEF AnswersUpTo
  <2>2. a \in Response
    BY <1>2, <1>3, <2>1, BoundAssumption DEF Response, Frame
  <2>3. output' = Append(output, a) /\ outbound' = outbound + 1
    BY <1>5 DEF Respond
  <2>4. a.to = n /\ a.counter = outbound
    BY <1>2
  <2> HIDE DEF a
  <2>5. /\ output' \in Seq(Response) /\ Len(output') = Len(output) + 1
        /\ \A i \in 1..Len(output) : output'[i] = output[i]
        /\ output'[Len(output) + 1] = a
    BY <1>3, <2>2, <2>3, AppendProperties
  <2>6. outbound' \in 0..MaxCounter + 1
    BY <1>2, <2>1, <2>3, BoundAssumption
  <2>7. \A i \in 1..Len(output) : output[i].to <= n - 1 /\ output[i].to \in Nat
    <3>1. \A i \in 1..Len(output) : output[i] \in Response
      BY <1>3, ElementOfSeq
    <3> QED  BY <1>2, <3>1, BoundAssumption DEF AnswersUpTo, Response
  <2>8. AnswersUpTo(n)'
    <3>1. outbound' = Len(output') /\ Len(output') <= n
      BY <1>2, <2>1, <2>3, <2>5
    <3>2. \A i \in 1..Len(output') : output'[i].counter = i - 1 /\ output'[i].to <= n
      BY <1>2, <2>1, <2>4, <2>5, <2>7 DEF AnswersUpTo
    <3>3. \A i, j \in 1..Len(output') : i < j => output'[i].to < output'[j].to
      BY <1>2, <2>1, <2>4, <2>5, <2>7 DEF AnswersUpTo
    <3> QED  BY <3>1, <3>2, <3>3 DEF AnswersUpTo
  <2> QED  BY <1>1, <1>2, <1>5, <2>5, <2>6, <2>8, LoopKeeps DEF Respond
<1>6. CASE Fail(f) \/ Unencodable(f)
  <2>1. AnswersUpTo(n)'
    BY <1>2, <1>6 DEF Fail, Unencodable, AnswersUpTo
  <2>2. /\ buffer' = buffer /\ handling' = {} /\ processing' = FALSE
        /\ UNCHANGED <<written, partial, handled, expected, outbound, output, rejects>>
        /\ stalled' \in BOOLEAN /\ state' \in {"running"} \cup Reason
    BY <1>2, <1>6 DEF Fail, Unencodable, Return, StdioInv, TypeOK, Reason
  <2> QED  BY <1>1, <1>3, <2>1, <2>2, StopKeeps DEF StdioInv, TypeOK
<1> QED  BY <1>4, <1>5, <1>6 DEF Settle

LEMMA StdioInvNext == StdioInv /\ [Next]_vars => StdioInv'
<1> SUFFICES ASSUME StdioInv, [Next]_vars  PROVE StdioInv'
  OBVIOUS
<1>1. ASSUME NEW f \in Frame, NEW part \in BOOLEAN, Data(f, part)  PROVE StdioInv'
  BY <1>1, DataKeeps
<1>2. CASE DataRest
  BY <1>2, RestKeeps
<1>3. ASSUME NEW why \in {"inputClosed", "inputError"}, TearDown(why)  PROVE StdioInv'
  BY <1>3, TearDownKeeps DEF Reason
<1>4. ASSUME NEW f \in handling, Settle(f)  PROVE StdioInv'
  BY <1>4, SettleKeeps
<1>5. CASE UNCHANGED vars
  BY <1>5 DEF vars, StdioInv, TypeOK, HandledInv, FreshCounters, BufferInv, Continues, RunningInv,
     OutputInv, AnswersUpTo
<1> QED  BY <1>1, <1>2, <1>3, <1>4, <1>5 DEF Next
-----------------------------------------------------------------------------
\* The inductive invariant holds of every behaviour.
THEOREM StdioInvariance == Spec => []StdioInv
BY StdioInvInit, StdioInvNext, PTL DEF Spec

\* Every variable of the transport keeps its type; in particular its counter of
\* responses never runs over, whatever number of them it writes.
THEOREM StdioTypeCorrect == Spec => []TypeOK
<1>1. StdioInv => TypeOK
  BY DEF StdioInv
<1> QED  BY <1>1, StdioInvariance, PTL

\* No frame is handled twice, and none after one that carried a later counter,
\* however the peer's bytes were cut into chunks (tryDecodeFrame).
THEOREM CountersAreFresh == Spec => []FreshCounters
<1>1. StdioInv => FreshCounters
  BY DEF StdioInv, HandledInv
<1> QED  BY <1>1, StdioInvariance, PTL

\* Frames are handled in the order written with none left out, and answered in
\* that order under counters without a gap (pump).
THEOREM FramesInOrder == Spec => []InOrder
<1>1. StdioInv => InOrder
  BY DEF StdioInv, HandledInv, OutputInv, AnswersUpTo, InOrder
<1> QED  BY <1>1, StdioInvariance, PTL

\* A transport that was torn down takes up no request, reports no further
\* reject and is not torn down for another reason: the loop of pump and every
\* event look at torn first.
THEOREM TornIsSilent == Spec => SilentAfterTeardown
<1> DEFINE Silent == handled' = handled /\ rejects' = rejects /\ state' \in {state, "exited"}
<1>1. ASSUME torn, [Next]_vars  PROVE Silent
  <2>1. ASSUME NEW f \in handling, Settle(f)  PROVE Silent
    <3>1. CASE Notified(f) \/ Respond(f)
      BY <1>1, <3>1 DEF Notified, Respond, Loop, LoopOver, Return
    <3>2. CASE Fail(f) \/ Unencodable(f)
      BY <1>1, <3>2 DEF Fail, Unencodable, Return
    <3> QED  BY <2>1, <3>1, <3>2 DEF Settle
  <2>2. CASE UNCHANGED vars
    BY <2>2 DEF vars
  <2> QED  BY <1>1, <2>1, <2>2 DEF Next, Data, DataRest, TearDown
<1> HIDE DEF Silent
<1>2. [Next]_vars => [torn => Silent]_vars
  BY <1>1
<1>3. [][torn => Silent]_vars => SilentAfterTeardown
  BY DEF SilentAfterTeardown, Silent
<1> QED  BY <1>2, <1>3, PTL DEF Spec
=============================================================================
