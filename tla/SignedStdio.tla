----------------------------- MODULE SignedStdio -----------------------------
(***************************************************************************)
(* createSignedStdioTransport: signed frames in, signed frames out.        *)
(*                                                                         *)
(* One thread: a step is what runs between two turns of the event loop, a  *)
(* stream event with the part of pump it starts, or the continuation of    *)
(* pump once onRequest settled.  A frame is its place among those the peer *)
(* wrote, the counter it carries, and what its bytes are worth; it arrives *)
(* whole or header first, a header in pieces being nothing yet.            *)
(***************************************************************************)
EXTENDS Integers, Sequences

CONSTANTS
    MaxFrames,      \* frames the peer writes (bounds the model)
    MaxCounter      \* the largest counter a frame can carry: 2^64 - 1 in the code

ASSUME BoundAssumption == MaxFrames \in Nat /\ MaxCounter \in Nat

\* bad: the tag does not verify; huge: declares more than MAX_PAYLOAD_BYTES.
Frame == [at: 1..MaxFrames, counter: 0..MaxCounter, worth: {"good", "bad", "huge"}]

\* Why the transport was torn down; "exited": the process ended.
Reason == {"tamper", "replay", "tooLarge", "handlerError", "inputClosed", "inputError", "exited"}

VARIABLES
    written,     \* how many frames the peer has begun
    buffer,      \* frames received and not decoded yet
    partial,     \* TRUE when only the header of the last of them arrived
    expected,    \* expectedMinCounter
    outbound,    \* outboundCounter
    processing,  \* the guard of pump
    handling,    \* frames whose onRequest is running
    state,       \* "running", or the reason of the teardown
    handled,     \* frames passed to onRequest, in order
    output,      \* responses written: the request's place, and their counter
    rejects,     \* oauth.reject events emitted
    stalled      \* encodeFrame threw out of pump, and no data event has come since

vars == <<written, buffer, partial, expected, outbound, processing, handling,
          state, handled, output, rejects, stalled>>

TypeOK ==
    /\ written \in 0..MaxFrames
    /\ buffer \in Seq(Frame) /\ handled \in Seq(Frame)
    /\ partial \in BOOLEAN /\ processing \in BOOLEAN /\ stalled \in BOOLEAN
    /\ expected \in 0..MaxCounter + 1 /\ outbound \in 0..MaxCounter + 1
    /\ handling \subseteq Frame
    /\ state \in {"running"} \cup Reason
    /\ output \in Seq([to: 1..MaxFrames, counter: 0..MaxCounter])
    /\ rejects \in Nat

Init ==
    /\ written = 0 /\ buffer = <<>> /\ partial = FALSE
    /\ expected = 0 /\ outbound = 0
    /\ processing = FALSE /\ handling = {} /\ state = "running"
    /\ handled = <<>> /\ output = <<>> /\ rejects = 0 /\ stalled = FALSE

torn == state # "running"
-----------------------------------------------------------------------------
(* tryDecodeFrame on the head f of the buffer, short when part             *)

TooLarge(f) == f.worth = "huge"
Incomplete(f, part) == part /\ ~TooLarge(f)
Tampered(f, part) == f.worth = "bad" /\ ~part
Replayed(f, part) == f.worth = "good" /\ ~part /\ f.counter < expected
Accepted(f, part) == f.worth = "good" /\ ~part /\ f.counter >= expected

\* Mutant: the counter just seen is acceptable again.
MinAfter_Same(f) == f.counter

MinAfter(f) == f.counter + 1
-----------------------------------------------------------------------------
(* pump, from the top of its loop to its next await or its return: b is    *)
(* the buffer, part tells whether its last frame is still short, h are the *)
(* frames that stay in onRequest.                                          *)

\* pump returns, and its finally lets the next data event start it again.
Return(b, h) ==
    /\ buffer' = b /\ handling' = h /\ processing' = FALSE
    /\ UNCHANGED <<handled, expected>>

\* handleDecodeError: an oauth.reject event, then tearDown.
Refuse(b, h, why) == state' = why /\ rejects' = rejects + 1 /\ Return(b, h)

Pump(b, part, h) ==
    LET f == Head(b)
        short == part /\ Len(b) = 1
    IN
    \/ /\ b = <<>> \/ Incomplete(f, short)
       /\ Return(b, h)
       /\ UNCHANGED <<state, rejects>>
    \/ b # <<>> /\ TooLarge(f) /\ Refuse(b, h, "tooLarge")
    \/ b # <<>> /\ Tampered(f, short) /\ Refuse(b, h, "tamper")
    \/ b # <<>> /\ Replayed(f, short) /\ Refuse(b, h, "replay")
    \/ /\ b # <<>> /\ Accepted(f, short)
       /\ buffer' = Tail(b) /\ expected' = MinAfter(f)
       /\ handled' = Append(handled, f) /\ handling' = h \cup {f}
       /\ processing' = TRUE
       /\ UNCHANGED <<state, rejects>>
-----------------------------------------------------------------------------
(* Stream events                                                           *)

\* Mutant: pump does not look at its guard.
Busy_Ignored == FALSE

Busy == processing

\* A data event: the chunk is appended, and pump runs unless it is awaiting.
Buffered(b, part) ==
    IF Busy
    THEN buffer' = b /\ UNCHANGED <<expected, processing, handling, state, handled, rejects>>
    ELSE Pump(b, part, handling)

Data(f, part) ==
    /\ ~torn /\ ~partial
    /\ f.at = written + 1
    /\ written' = f.at /\ partial' = part
    /\ Buffered(Append(buffer, f), part)
    /\ stalled' = FALSE
    /\ UNCHANGED <<outbound, output>>

\* The rest of a frame whose header is buffered.
DataRest ==
    /\ ~torn /\ partial
    /\ partial' = FALSE
    /\ Buffered(buffer, FALSE)
    /\ stalled' = FALSE
    /\ UNCHANGED <<written, outbound, output>>

\* The input ends or fails, or the owner calls close().
TearDown(why) ==
    /\ ~torn
    /\ state' = why
    /\ UNCHANGED <<written, buffer, partial, expected, outbound, processing, handling,
                   handled, output, rejects, stalled>>
-----------------------------------------------------------------------------
(* The continuation of pump after onRequest(f)                             *)

\* Mutant: the loop does not look at torn.
LoopOver_Never == FALSE

LoopOver == torn

Loop(h) ==
    IF LoopOver THEN Return(buffer, h) /\ UNCHANGED <<state, rejects>>
                ELSE Pump(buffer, partial, h)

\* null: no response.
Notified(f) ==
    /\ f \in handling
    /\ Loop(handling \ {f})
    /\ UNCHANGED <<written, partial, outbound, output, stalled>>

\* The response is written even when the transport was torn down meanwhile.
Respond(f) ==
    /\ f \in handling
    /\ output' = Append(output, [to |-> f.at, counter |-> outbound])
    /\ outbound' = outbound + 1
    /\ Loop(handling \ {f})
    /\ UNCHANGED <<written, partial, stalled>>

\* onRequest throws: a teardown.
Fail(f) ==
    /\ f \in handling
    /\ state' = IF torn THEN state ELSE "handlerError"
    /\ Return(buffer, handling \ {f})
    /\ UNCHANGED <<written, partial, outbound, output, rejects, stalled>>

\* Mutant: pump has no finally, and forgets its guard when encodeFrame throws.
Unencodable_Stuck(f) ==
    /\ f \in handling
    /\ stalled' = TRUE
    /\ state' \in {state, "exited"}
    /\ handling' = handling \ {f}
    /\ UNCHANGED <<written, buffer, partial, expected, outbound, processing, handled, output, rejects>>

\* The response is too large: encodeFrame throws out of pump, whose promise
\* nobody awaits; by default that ends a Node process.  If it does not, the
\* frames that wait stay where they are until the next data event.
Unencodable(f) ==
    /\ f \in handling
    /\ stalled' = TRUE
    /\ state' \in {state, "exited"}
    /\ Return(buffer, handling \ {f})
    /\ UNCHANGED <<written, partial, outbound, output, rejects>>

Settle(f) ==
    /\ state # "exited"
    /\ Notified(f) \/ Respond(f) \/ Fail(f) \/ Unencodable(f)

Next ==
    \/ \E f \in Frame, part \in BOOLEAN : Data(f, part)
    \/ DataRest
    \/ \E why \in {"inputClosed", "inputError"} : TearDown(why)
    \/ \E f \in handling : Settle(f)

Spec == Init /\ [][Next]_vars

\* onRequest settles; the peer and the owner need not do anything.
FairSpec == Spec /\ \A f \in Frame : WF_vars(Settle(f))
-----------------------------------------------------------------------------
(* Properties                                                              *)

\* The counters of the frames handled strictly increase: none is handled twice,
\* however the bytes were cut into chunks (v0.2 11, tryDecodeFrame).
FreshCounters ==
    \A i, j \in 1..Len(handled) : i < j => handled[i].counter < handled[j].counter

\* Frames are handled in the order written with none left out, and answered in
\* that order under the counters 0, 1, 2, ... (pump, outboundCounter).
InOrder ==
    /\ \A i \in 1..Len(handled) : handled[i].at = i
    /\ \A i \in 1..Len(output) : output[i].counter = i - 1
    /\ \A i, j \in 1..Len(output) : i < j => output[i].to < output[j].to

\* Once torn down, the transport takes up no request and reports nothing; what
\* it may still write is the answer of the request that was running.
SilentAfterTeardown ==
    [][torn => handled' = handled /\ rejects' = rejects /\ state' \in {state, "exited"}]_vars

\* A frame that arrived whole is handled, unless the transport is torn down: no
\* data event is lost on a busy pump, and a pump that an oversized response threw
\* out of its loop takes up all that waits at the next data event (pump's finally).
EveryFrameTaken ==
    \A n \in 1..MaxFrames :
        (written > n \/ (written = n /\ ~partial)) ~> (Len(handled) >= n \/ torn \/ stalled)
=============================================================================
