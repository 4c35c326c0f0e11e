-------------------------- MODULE FramePacerProofs --------------------------
(***************************************************************************)
(* What holds of FramePacer for every pool of buffers, frame interval,     *)
(* burst limit, debt limit and bound.                                      *)
(*                                                                         *)
(* TypeOK alone is not inductive: PacerSwap needs the frame PacerReceive   *)
(* took to be there still, and PacerDropSpan needs the debt PacerMeasure   *)
(* saw.  Shape adds both.                                                  *)
(***************************************************************************)
EXTENDS FramePacer, TLAPS

Shape ==
    /\ TypeOK
    /\ ppc \in {"swap", "burstSwap"} => got # NoBuf
    /\ ppc \in {"dropFrames", "dropSpan"} => want - emitted > MaxDebt

\* A span of n frames lasts a natural number of clock units, and at least one
\* if n is positive.
LEMMA SpanIsNat ==
    ASSUME NEW n \in Nat
    PROVE  n * Interval \in Nat
  BY IntervalAssumption

\* The strengthened type invariant holds initially.
LEMMA ShapeInit == Init => Shape
  <1> SUFFICES ASSUME Init PROVE Shape
    OBVIOUS
  <1>1. content \in [Buffers -> Nat]
    BY DEF Init
  <1>2. frameClosed \in BOOLEAN /\ srcErrCh \in BOOLEAN /\ tick \in BOOLEAN
    BY DEF Init
  <1> QED
    BY <1>1, <1>2, BuffersAssumption DEF Init, Shape, TypeOK, ReaderHolds

USE DEF srcVars, rdVars, chanVars, holdVars, outVars, clockVars, paceVars, skewVars

\* No step of the reader goroutine breaks it.
LEMMA ShapeReader ==
    ASSUME Shape, Reader
    PROVE  Shape'
  <1> USE BuffersAssumption, BoundAssumption DEF Shape, TypeOK, ReaderHolds
  <1>1. CASE ReaderTake
    BY <1>1 DEF ReaderTake, LiveFrames, Held
  <1>2. CASE ReaderFill
    BY <1>2 DEF ReaderFill
  <1>3. CASE ReaderFail
    BY <1>3 DEF ReaderFail
  <1>4. CASE ReaderClose
    BY <1>4 DEF ReaderClose
  <1>5. CASE ReaderSend
    BY <1>5 DEF ReaderSend
  <1>6. CASE ReaderFull
    BY <1>6 DEF ReaderFull
  <1>7. CASE ReaderDrain
    BY <1>7 DEF ReaderDrain
  <1>8. CASE ReaderRecycle
    <2>1. Recycled(stale) \subseteq Buffers
      BY <1>8 DEF ReaderRecycle, Recycled
    <2> QED
      BY <1>8, <2>1 DEF ReaderRecycle
  <1> QED
    BY <1>1, <1>2, <1>3, <1>4, <1>5, <1>6, <1>7, <1>8 DEF Reader, ReaderWork

\* No step of the pacer goroutine breaks it.
LEMMA ShapePacer ==
    ASSUME Shape, Pacer
    PROVE  Shape'
  <1> USE BuffersAssumption, LimitAssumption DEF Shape, TypeOK, ReaderHolds
  <1>1. CASE PacerSourceError
    <2>1. srcErrCh' \in BOOLEAN /\ pipe' = PipeClosed("srcErr")
      BY <1>1 DEF PacerSourceError
    <2>2. /\ ppc' = "done" /\ ppc \in {"first", "select"}
          /\ UNCHANGED <<srcVars, rdVars, frameCh, frameClosed, free, holdVars,
                         shown, cpc, clockVars, paceVars, skewVars>>
      BY <1>1 DEF PacerSourceError
    <2> QED
      BY <2>1, <2>2, SMTT(30) DEF PipeClosed
  <1>2. CASE PacerNoFrame
    BY <1>2, SMTT(30) DEF PacerNoFrame, PipeClosed
  <1>3. CASE PacerFirst
    BY <1>3, SMTT(30) DEF PacerFirst
  <1>4. CASE PacerTicker
    BY <1>4, SMTT(30) DEF PacerTicker
  <1>5. CASE PacerStart
    BY <1>5, SMTT(30) DEF PacerStart
  <1>6. CASE PacerMark
    BY <1>6, SMTT(30) DEF PacerMark
  <1>7. CASE PacerReceive
    BY <1>7, SMTT(30) DEF PacerReceive
  <1>8. CASE PacerSwap
    BY <1>8, SMTT(30) DEF PacerSwap, Recycled
  <1>9. CASE PacerTick
    <2>1. tick' \in BOOLEAN
      BY <1>9 DEF PacerTick
    <2>2. /\ ppc' = "measure" /\ ppc = "select"
          /\ UNCHANGED <<srcVars, rdVars, chanVars, holdVars, outVars, cpc, now,
                         tickBase, paceVars, skewVars>>
      BY <1>9 DEF PacerTick
    <2> QED
      BY <2>1, <2>2, SMTT(30)
  <1>10. CASE PacerMeasure
    BY <1>10, IntervalAssumption DEF PacerMeasure, Due
  <1>11. CASE PacerDropFrames
    BY <1>11, SMTT(30) DEF PacerDropFrames, Skipped
  <1>12. CASE PacerDropSpan
    <2>1. Skipped \in Nat
      BY <1>12, SMTT(30) DEF PacerDropSpan, Skipped
    <2>2. Skipped * Interval \in Nat
      BY <2>1, SpanIsNat
    <2> QED
      BY <1>12, <2>1, <2>2 DEF PacerDropSpan
  <1>13. CASE PacerPoll
    BY <1>13, SMTT(30) DEF PacerPoll
  <1>14. CASE PacerBurstEnd
    BY <1>14, SMTT(30) DEF PacerBurstEnd
  <1>15. CASE PacerWriteFail
    BY <1>15, SMTT(30) DEF PacerWriteFail
  <1> QED
    BY <1>1, <1>2, <1>3, <1>4, <1>5, <1>6, <1>7, <1>8, <1>9, <1>10, <1>11,
       <1>12, <1>13, <1>14, <1>15 DEF Pacer

\* Shape is inductive: no step of the system breaks it.
LEMMA ShapeNext == Shape /\ [Next]_vars => Shape'
  <1> SUFFICES ASSUME Shape, [Next]_vars
               PROVE  Shape'
    OBVIOUS
  <1> USE DEF Shape, TypeOK, ReaderHolds
  <1>1. CASE SourceFail
    BY <1>1 DEF SourceFail
  <1>2. CASE Advance
    BY <1>2 DEF Advance
  <1>3. CASE Reader
    BY <1>3, ShapeReader
  <1>4. CASE Pacer
    BY <1>4, ShapePacer
  <1>5. CASE Consume
    BY <1>5 DEF Consume
  <1>6. CASE Close
    BY <1>6 DEF Close, CloseCall, CloseSourceDone, ClosePipe, PipeClosed
  <1>7. CASE UNCHANGED vars
    BY <1>7 DEF vars
  <1> QED
    BY <1>1, <1>2, <1>3, <1>4, <1>5, <1>6, <1>7 DEF Next, Terminated

\* Shape holds in every reachable state.
THEOREM ShapeInvariant == Spec => []Shape
  BY ShapeInit, ShapeNext, PTL DEF Spec

\* Type correctness: in particular the reader has a frame exactly while it
\* fills or offers it, and the pacer never has to write a nil frame.
THEOREM TypeCorrect == Spec => []TypeOK
  BY ShapeInvariant, PTL DEF Shape

-----------------------------------------------------------------------------
(***************************************************************************)
(* The clock.  VideoNotAhead is not inductive: a write needs to know that  *)
(* the frames still due were measured against time that has passed, and    *)
(* the two steps of a drop need to know by how much frames runs ahead of   *)
(* dropped in between.  Timeline says both.                                *)
(***************************************************************************)

BeforeAnchor == {"first", "firstWrite", "ticker", "start", "mark"}

Timeline ==
    /\ ppc \in BeforeAnchor => anchor = 0 /\ emitted = 0
    /\ ppc \notin BeforeAnchor \cup {"done"} => Anchored
    /\ Anchored => 0 < emitted
    /\ ~Anchored => dropped = 0
    /\ ppc = "mark" => 0 < start /\ start <= now
    /\ Anchored => start = anchor + dropped
    /\ Anchored => (emitted - 1) * Interval <= now - start
    /\ ppc # "dropSpan" => dropped = frames * Interval
    /\ ppc = "dropSpan" => dropped + Skipped * Interval = frames * Interval
    /\ ppc \in {"dropFrames", "dropSpan", "burst", "burstSwap", "write"}
         => (want - 1) * Interval <= now - start
    /\ ppc \in {"burstSwap", "write"} => emitted < want

\* Spans of m and of n frames make a span of m + n frames.
LEMMA SpanAdds ==
    ASSUME NEW m \in Int, NEW n \in Int
    PROVE  (m + n) * Interval = m * Interval + n * Interval
  BY IntervalAssumption

\* The later of two instants is farther from an earlier third one.
LEMMA LaterIsLonger ==
    ASSUME NEW a \in Nat, NEW m \in Nat, NEW n \in Nat, n >= m
    PROVE  n - a >= m - a
  OBVIOUS

\* More frames take at least as long.
LEMMA SpanGrows ==
    ASSUME NEW m \in Int, NEW n \in Int, m <= n
    PROVE  m * Interval <= n * Interval
  <1>1. n - m \in Nat
    OBVIOUS
  <1>2. (n - m) * Interval \in Nat
    BY <1>1, SpanIsNat
  <1>3. n * Interval = m * Interval + (n - m) * Interval
    BY SpanAdds, n = m + (n - m)
  <1>4. m * Interval \in Int /\ n * Interval \in Int
    BY IntervalAssumption
  <1> QED
    BY <1>2, <1>3, <1>4

\* A span of frames is an integer number of clock units.
LEMMA SpanIsInt ==
    ASSUME NEW n \in Int
    PROVE  n * Interval \in Int
  BY IntervalAssumption

\* Whole intervals that fit in a time that has passed do not exceed it.
LEMMA DueHasPassed ==
    ASSUME NEW t \in Int
    PROVE  (t \div Interval) * Interval <= t
  BY IntervalAssumption

\* The timeline invariant holds initially.
LEMMA TimelineInit == Init => Timeline
  <1> SUFFICES ASSUME Init PROVE Timeline
    OBVIOUS
  <1>1. 0 * Interval = 0
    BY IntervalAssumption
  <1> QED
    BY <1>1 DEF Init, Timeline, BeforeAnchor, Anchored

\* A step of anything but the pacer and its reader leaves the pacer's numbers
\* alone; time may pass.
LEMMA TimelineKept ==
    ASSUME Shape, Timeline,
           UNCHANGED <<ppc, paceVars, skewVars>>, now' \in Nat, now <= now'
    PROVE  Timeline'
  <1>1. Skipped' = Skipped
    BY DEF Skipped
  <1>2. (emitted - 1) * Interval \in Int /\ (want - 1) * Interval \in Int
    BY SpanIsInt DEF Shape, TypeOK
  <1> QED
    BY <1>1, <1>2 DEF Timeline, BeforeAnchor, Anchored, Shape, TypeOK

\* No step of the pacer goroutine breaks the timeline.
LEMMA TimelinePacer ==
    ASSUME Shape, Timeline, Pacer
    PROVE  Timeline'
  <1> USE DEF BeforeAnchor, Anchored
  <1> DEFINE Numbers == /\ now \in Nat \ {0} /\ start \in Nat
                        /\ emitted \in Nat /\ want \in Int
                        /\ anchor \in Nat /\ frames \in Nat /\ dropped \in Nat
  <1>0. Numbers
    BY DEF Shape, TypeOK
  <1>m. CASE PacerMark
    <2>1. 0 * Interval = 0
      BY IntervalAssumption
    <2> QED
      BY <1>m, <1>0, <2>1 DEF PacerMark, Timeline
  <1>s. CASE PacerStart
    BY <1>s, <1>0 DEF PacerStart, Timeline
  <1>d. CASE PacerMeasure
    <2>1. (want' - 1) * Interval <= now - start
      BY <1>d, <1>0, DueHasPassed, IntervalAssumption DEF PacerMeasure, Due
    <2> QED
      BY <1>d, <1>0, <2>1 DEF PacerMeasure, Timeline
  <1>f. CASE PacerDropFrames
    <2>1. Skipped \in Nat /\ Skipped > 0
      BY <1>f, <1>0, LimitAssumption DEF PacerDropFrames, Shape, Skipped
    <2>2. frames' * Interval = frames * Interval + Skipped * Interval
      BY <1>f, <1>0, <2>1, SpanAdds DEF PacerDropFrames
    <2>3. Skipped' = Skipped
      BY <1>f DEF PacerDropFrames, Skipped
    <2> QED
      BY <1>f, <1>0, <2>2, <2>3 DEF PacerDropFrames, Timeline
  <1>p. CASE PacerDropSpan
    <2>1. Skipped \in Nat /\ Skipped > 0
      BY <1>p, <1>0, LimitAssumption DEF PacerDropSpan, Shape, Skipped
    <2>2. Skipped * Interval \in Nat
      BY <2>1, SpanIsNat
    <2>3. want - 1 = emitted + Skipped
      BY <1>0, <2>1 DEF Skipped
    <2>4. (want - 1) * Interval = emitted * Interval + Skipped * Interval
      BY <1>0, <2>1, <2>3, SpanAdds
    <2>5. emitted * Interval \in Int /\ (emitted - 1) * Interval \in Int
          /\ (emitted - 1) * Interval <= emitted * Interval
      BY <1>0, SpanIsInt, SpanGrows
    <2>6. emitted * Interval <= now - start'
      BY <1>p, <1>0, <2>2, <2>4, <2>5 DEF PacerDropSpan, Timeline
    <2>7. /\ ppc' = "burst" /\ want' = emitted + 1
          /\ start' = start + Skipped * Interval
          /\ dropped' = dropped + Skipped * Interval
          /\ UNCHANGED <<now, emitted, anchor, frames>>
          /\ ppc = "dropSpan"
      BY <1>p, <2>1 DEF PacerDropSpan
    <2>8. (want' - 1) * Interval <= now' - start'
      BY <1>0, <2>6, <2>7
    <2> QED
      BY <1>0, <2>2, <2>5, <2>6, <2>7, <2>8 DEF Timeline
  <1>o. CASE PacerPoll
    BY <1>o, <1>0 DEF PacerPoll, Timeline, MoreToWrite, Skipped
  <1>r. CASE \/ PacerSourceError \/ PacerNoFrame \/ PacerFirst \/ PacerTicker
             \/ PacerReceive \/ PacerSwap \/ PacerTick \/ PacerBurstEnd
             \/ PacerWriteFail
    BY <1>r, <1>0
    DEF PacerSourceError, PacerNoFrame, PacerFirst, PacerTicker, PacerReceive,
        PacerSwap, PacerTick, PacerBurstEnd, PacerWriteFail, Timeline
  <1> QED
    BY <1>m, <1>s, <1>d, <1>f, <1>p, <1>o, <1>r DEF Pacer

\* A frame read by ffmpeg does not break the timeline: it was due.
LEMMA TimelineConsume ==
    ASSUME Shape, Timeline, Consume
    PROVE  Timeline'
  <1> USE DEF BeforeAnchor, Anchored
  <1>0. /\ now \in Nat /\ start \in Nat /\ emitted \in Nat /\ want \in Int
        /\ anchor \in Nat
    BY DEF Shape, TypeOK
  <1>1. CASE ppc = "write"
    <2>1. emitted <= want - 1
      BY <1>0, <1>1 DEF Timeline
    <2>2. emitted * Interval <= (want - 1) * Interval
      BY <1>0, <2>1, SpanGrows
    <2>3. emitted * Interval \in Int /\ (want - 1) * Interval \in Int
      BY <1>0, SpanIsInt
    <2>4. emitted * Interval <= now - start
      BY <1>0, <1>1, <2>2, <2>3 DEF Timeline
    <2>5. (emitted' - 1) * Interval <= now - start
      BY <1>0, <1>1, <2>4 DEF Consume
    <2> QED
      BY <1>0, <1>1, <2>5 DEF Consume, Timeline
  <1>2. CASE ppc = "firstWrite"
    BY <1>0, <1>2 DEF Consume, Timeline
  <1> QED
    BY <1>1, <1>2 DEF Consume

\* Timeline is inductive relative to Shape.
LEMMA TimelineNext == Shape /\ Timeline /\ [Next]_vars => Timeline'
  <1> SUFFICES ASSUME Shape, Timeline, [Next]_vars
               PROVE  Timeline'
    OBVIOUS
  <1>1. now \in Nat
    BY DEF Shape, TypeOK
  <1>2. CASE SourceFail
    BY <1>1, <1>2, TimelineKept DEF SourceFail
  <1>3. CASE Advance
    BY <1>1, <1>3, TimelineKept DEF Advance
  <1>4. CASE Reader
    <2>1. UNCHANGED <<ppc, paceVars, skewVars>> /\ now' = now
      BY <1>4 DEF Reader, ReaderWork, ReaderTake, ReaderFill, ReaderFail,
         ReaderClose, ReaderSend, ReaderFull, ReaderDrain, ReaderRecycle
    <2> QED
      BY <1>1, <2>1, TimelineKept
  <1>5. CASE Pacer
    BY <1>5, TimelinePacer
  <1>6. CASE Consume
    BY <1>6, TimelineConsume
  <1>7. CASE Close
    BY <1>1, <1>7, TimelineKept DEF Close, CloseCall, CloseSourceDone, ClosePipe
  <1>8. CASE UNCHANGED vars
    BY <1>1, <1>8, TimelineKept DEF vars
  <1> QED
    BY <1>2, <1>3, <1>4, <1>5, <1>6, <1>7, <1>8 DEF Next, Terminated

\* Shape and Timeline hold in every reachable state.
THEOREM TimelineInvariant == Spec => [](Shape /\ Timeline)
  BY ShapeInit, ShapeNext, TimelineInit, TimelineNext, PTL DEF Spec

\* Both timelines are shortened by the same span, whatever the frame rate.
THEOREM SkewIsAccounted == Spec => []SkewAccounted
  <1>1. Shape /\ Timeline => SkewAccounted
    BY DEF Timeline, SkewAccounted
  <1> QED
    BY <1>1, TimelineInvariant, PTL

\* The pacer never emits a frame that is not due on the shortened clock and
\* never abandons time that has not passed.
THEOREM VideoIsNotAhead == Spec => []VideoNotAhead
  <1>1. Shape /\ Timeline => VideoNotAhead
    BY SpanIsInt DEF Shape, TypeOK, Timeline, VideoNotAhead
  <1> QED
    BY <1>1, TimelineInvariant, PTL

\* Only a pacer that is more than MaxDebt frames late abandons anything, and it
\* leaves a frame due.
THEOREM DropsOnlyOverloaded == Spec => DropOnlyOverloaded
  <1> DEFINE Drop == dropped' # dropped =>
                       /\ now - start >= (emitted + MaxDebt) * Interval
                       /\ now - start' >= emitted * Interval
  <1>1. Shape /\ Timeline /\ [Next]_vars => [Drop]_<<dropped, start>>
    <2> SUFFICES ASSUME Shape, Timeline, [Next]_vars, dropped' # dropped
                 PROVE  Drop
      OBVIOUS
    <2>1. PacerDropSpan
      BY DEF Next, vars, Terminated, SourceFail, Advance, Consume, Close,
         CloseCall, CloseSourceDone, ClosePipe, Reader, ReaderWork, ReaderTake,
         ReaderFill, ReaderFail, ReaderClose, ReaderSend, ReaderFull,
         ReaderDrain, ReaderRecycle, Pacer, PacerSourceError, PacerNoFrame,
         PacerFirst, PacerTicker, PacerStart, PacerMark, PacerReceive,
         PacerSwap, PacerTick, PacerMeasure, PacerDropFrames, PacerPoll,
         PacerBurstEnd, PacerWriteFail
    <2>2. /\ now \in Nat /\ start \in Nat /\ emitted \in Nat /\ want \in Int
          /\ MaxDebt \in Nat
      BY LimitAssumption DEF Shape, TypeOK
    <2>3. want - emitted > MaxDebt
      BY <2>1 DEF PacerDropSpan, Shape
    <2>4. (emitted + MaxDebt) * Interval <= (want - 1) * Interval
      BY <2>2, <2>3, SpanGrows
    <2>5. (emitted + MaxDebt) * Interval \in Int /\ (want - 1) * Interval \in Int
      BY <2>2, SpanIsInt
    <2>6. now - start >= (want - 1) * Interval
      BY <2>1, <2>2, <2>5 DEF PacerDropSpan, Timeline
    <2>7. want - 1 = emitted + Skipped /\ Skipped \in Int
      BY <2>2 DEF Skipped
    <2>8. (want - 1) * Interval = emitted * Interval + Skipped * Interval
      BY <2>2, <2>7, SpanAdds
    <2>9. emitted * Interval \in Int /\ Skipped * Interval \in Int
      BY <2>2, <2>7, SpanIsInt
    <2>10. start' = start + Skipped * Interval
      BY <2>1 DEF PacerDropSpan
    <2> QED
      BY <2>2, <2>4, <2>5, <2>6, <2>8, <2>9, <2>10
  <1> QED
    BY <1>1, TimelineInvariant, PTL DEF Spec, DropOnlyOverloaded

-----------------------------------------------------------------------------
(***************************************************************************)
(* The buffers.  Exclusive is inductive next to Shape once it is known     *)
(* which goroutine can hold a frame at which point: the reader has no      *)
(* stale frame but while it recycles one, and the pacer has received one   *)
(* only on its way to making it the latest.                                *)
(***************************************************************************)

Holding ==
    /\ stale # NoBuf => rpc = "recycle"
    /\ got # NoBuf => ppc \in {"swap", "burstSwap"}
    /\ rpc = "send" => frameCh = NoBuf
    /\ rpc = "recycle" => frameCh = NoBuf

Apart(a, b) == a # NoBuf => a # b

Exclusive ==
    /\ Holding
    /\ Apart(fill, stale) /\ Apart(fill, frameCh) /\ Apart(fill, latest)
    /\ Apart(fill, got) /\ Apart(stale, frameCh) /\ Apart(stale, latest)
    /\ Apart(stale, got) /\ Apart(frameCh, latest) /\ Apart(frameCh, got)
    /\ Apart(latest, got)
    /\ {fill, stale, frameCh, latest, got} \cap free = {}

\* No buffer has an owner initially.
LEMMA ExclusiveInit == Init => Exclusive
  BY DEF Init, Exclusive, Holding, Apart

\* No step of the reader goroutine gives a buffer a second owner.
LEMMA ExclusiveReader ==
    ASSUME Shape, Exclusive, Reader
    PROVE  Exclusive'
  <1> USE BuffersAssumption DEF Shape, TypeOK, ReaderHolds, Exclusive, Holding, Apart
  <1>1. CASE ReaderTake
    BY <1>1 DEF ReaderTake, LiveFrames, Held
  <1>2. CASE ReaderFill
    BY <1>2 DEF ReaderFill
  <1>3. CASE ReaderFail
    BY <1>3 DEF ReaderFail
  <1>4. CASE ReaderClose
    BY <1>4 DEF ReaderClose
  <1>5. CASE ReaderSend
    BY <1>5 DEF ReaderSend
  <1>6. CASE ReaderFull
    BY <1>6 DEF ReaderFull
  <1>7. CASE ReaderDrain
    BY <1>7 DEF ReaderDrain
  <1>8. CASE ReaderRecycle
    <2>1. Recycled(stale) \subseteq (free \cup {stale}) \ {NoBuf}
      BY DEF Recycled
    <2> QED
      BY <1>8, <2>1 DEF ReaderRecycle
  <1> QED
    BY <1>1, <1>2, <1>3, <1>4, <1>5, <1>6, <1>7, <1>8 DEF Reader, ReaderWork

\* No step of the pacer goroutine gives a buffer a second owner.
LEMMA ExclusivePacer ==
    ASSUME Shape, Exclusive, Pacer
    PROVE  Exclusive'
  <1> USE BuffersAssumption DEF Shape, TypeOK, ReaderHolds, Exclusive, Holding, Apart
  <1>1. CASE PacerFirst
    BY <1>1 DEF PacerFirst
  <1>2. CASE PacerReceive
    BY <1>2 DEF PacerReceive
  <1>3. CASE PacerSwap
    <2>1. Recycled(latest) \subseteq free \cup {latest}
      BY DEF Recycled
    <2> QED
      BY <1>3, <2>1 DEF PacerSwap
  <1>4. CASE PacerPoll
    BY <1>4 DEF PacerPoll
  <1>5. CASE \/ PacerSourceError \/ PacerNoFrame \/ PacerTicker \/ PacerStart
             \/ PacerMark \/ PacerTick \/ PacerMeasure \/ PacerDropFrames
             \/ PacerDropSpan \/ PacerBurstEnd \/ PacerWriteFail
    <2>1. UNCHANGED <<rpc, fill, stale, frameCh, latest, got, free>>
      BY <1>5 DEF PacerSourceError, PacerNoFrame, PacerTicker, PacerStart,
         PacerMark, PacerTick, PacerMeasure, PacerDropFrames, PacerDropSpan,
         PacerBurstEnd, PacerWriteFail
    <2>2. ppc \notin {"swap", "burstSwap"}
      BY <1>5 DEF PacerSourceError, PacerNoFrame, PacerTicker, PacerStart,
         PacerMark, PacerTick, PacerMeasure, PacerDropFrames, PacerDropSpan,
         PacerBurstEnd, PacerWriteFail
    <2> QED
      BY <2>1, <2>2
  <1> QED
    BY <1>1, <1>2, <1>3, <1>4, <1>5 DEF Pacer

\* Exclusive is inductive relative to Shape.
LEMMA ExclusiveNext == Shape /\ Exclusive /\ [Next]_vars => Exclusive'
  <1> SUFFICES ASSUME Shape, Exclusive, [Next]_vars
               PROVE  Exclusive'
    OBVIOUS
  <1> USE DEF Exclusive, Holding, Apart
  <1>1. CASE Reader
    BY <1>1, ExclusiveReader
  <1>2. CASE Pacer
    BY <1>2, ExclusivePacer
  <1>3. CASE Consume
    BY <1>3 DEF Consume
  <1>4. CASE SourceFail \/ Advance \/ Close \/ UNCHANGED vars
    <2>1. UNCHANGED <<rpc, fill, stale, frameCh, latest, got, free, ppc>>
      BY <1>4 DEF SourceFail, Advance, Close, CloseCall, CloseSourceDone,
         ClosePipe, vars
    <2> QED
      BY <2>1
  <1> QED
    BY <1>1, <1>2, <1>3, <1>4 DEF Next, Terminated

\* Shape and Exclusive hold in every reachable state.
THEOREM ExclusiveInvariant == Spec => [](Shape /\ Exclusive)
  BY ShapeInit, ShapeNext, ExclusiveInit, ExclusiveNext, PTL DEF Spec

\* No buffer has two owners, however many buffers there are.
THEOREM BuffersAreExclusive == Spec => []BufferExclusive
  <1>1. Shape /\ Exclusive => BufferExclusive
    <2> SUFFICES ASSUME Shape, Exclusive
                 PROVE  BufferExclusive
      OBVIOUS
    <2> DEFINE owner == <<fill, stale, frameCh, latest, got>>
    <2>1. ASSUME NEW i \in 1..5, NEW j \in 1..5, i < j, owner[i] # NoBuf
          PROVE  owner[i] # owner[j]
      <3>1. \/ i = 1 /\ j \in 2..5
            \/ i = 2 /\ j \in 3..5
            \/ i = 3 /\ j \in 4..5
            \/ i = 4 /\ j = 5
        BY <2>1
      <3> QED
        BY <2>1, <3>1 DEF Exclusive, Apart
    <2>2. LiveFrames \cap free = {}
      BY DEF LiveFrames, Held, Exclusive
    <2> QED
      BY <2>1, <2>2 DEF BufferExclusive
  <1> QED
    BY <1>1, ExclusiveInvariant, PTL

\* The reader's blocking send never blocks: it is the only sender, and it sends
\* right after it has seen frameCh empty.
THEOREM ReaderDoesNotPark == Spec => []ReaderNeverParks
  <1>1. Shape /\ Exclusive => ReaderNeverParks
    BY DEF Exclusive, Holding, ReaderNeverParks
  <1> QED
    BY <1>1, ExclusiveInvariant, PTL

-----------------------------------------------------------------------------
(***************************************************************************)
(* The order of frames.  That the picture never jumps back is not a        *)
(* property of the pacer alone: the reader overwrites recycled buffers,    *)
(* and only their exclusiveness keeps a newer frame out of the ones that   *)
(* are waiting.  InOrder follows a frame from the reader, who always       *)
(* offers the newest one, through frameCh and the pacer to ffmpeg.         *)
(***************************************************************************)

NoOlder(a, b) == a # NoBuf /\ b # NoBuf => content[a] <= content[b]

InOrder ==
    /\ \A b \in Buffers : content[b] <= captured
    /\ rpc \in ReaderHolds => content[fill] = captured
    /\ latest = NoBuf => shown = 0
    /\ latest # NoBuf => shown <= content[latest]
    /\ NoOlder(latest, got) /\ NoOlder(latest, frameCh) /\ NoOlder(got, frameCh)

\* No frame has been captured or shown initially.
LEMMA InOrderInit == Init => InOrder
  BY DEF Init, InOrder, NoOlder, ReaderHolds

\* No step of the reader goroutine breaks the order: it overwrites a buffer that
\* is nobody else's, with a frame newer than all others.
LEMMA InOrderReader ==
    ASSUME Shape, Exclusive, InOrder, Reader
    PROVE  InOrder'
  <1> USE BuffersAssumption DEF Shape, TypeOK, ReaderHolds, InOrder, NoOlder
  <1>1. CASE ReaderFill
    <2>1. /\ captured' = captured + 1 /\ fill \in Buffers
          /\ content' = [content EXCEPT ![fill] = captured + 1]
          /\ rpc' = "offer" /\ fill' = fill
          /\ UNCHANGED <<frameCh, latest, got, shown>>
      BY <1>1 DEF ReaderFill
    <2>2. fill \notin {frameCh, latest, got}
      BY <1>1, <2>1 DEF Exclusive, Apart
    <2>3. \A b \in Buffers : b # fill => content'[b] = content[b]
      BY <2>1
    <2>4. content'[fill] = captured'
      BY <2>1
    <2>5. \A b \in Buffers : content'[b] <= captured'
      BY <2>1, <2>3, <2>4
    <2> QED
      BY <2>1, <2>2, <2>3, <2>4, <2>5
  <1>2. CASE ReaderSend
    BY <1>2 DEF ReaderSend
  <1>3. CASE ReaderDrain
    BY <1>3 DEF ReaderDrain
  <1>4. CASE \/ ReaderTake \/ ReaderFail \/ ReaderClose \/ ReaderFull \/ ReaderRecycle
    <2>1. UNCHANGED <<content, captured, frameCh, latest, got, shown>>
      BY <1>4 DEF ReaderTake, ReaderFail, ReaderClose, ReaderFull, ReaderRecycle
    <2>2. rpc' \in ReaderHolds => rpc \in ReaderHolds /\ fill' = fill
      BY <1>4 DEF ReaderTake, ReaderFail, ReaderClose, ReaderFull, ReaderRecycle
    <2> QED
      BY <2>1, <2>2
  <1> QED
    BY <1>1, <1>2, <1>3, <1>4 DEF Reader, ReaderWork

\* No step of the pacer goroutine breaks the order: what it takes from frameCh
\* is newer than what it repeats.
LEMMA InOrderPacer ==
    ASSUME Shape, Exclusive, InOrder, Pacer
    PROVE  InOrder'
  <1>0. UNCHANGED <<rpc, fill, content, captured, shown>>
    BY DEF Pacer, PacerSourceError, PacerNoFrame, PacerFirst, PacerTicker,
       PacerStart, PacerMark, PacerReceive, PacerSwap, PacerTick, PacerMeasure,
       PacerDropFrames, PacerDropSpan, PacerPoll, PacerBurstEnd, PacerWriteFail
  <1> USE <1>0 DEF Shape, TypeOK, InOrder, NoOlder, ReaderHolds
  <1>1. CASE PacerFirst
    <2>1. got = NoBuf
      BY <1>1 DEF PacerFirst, Exclusive, Holding
    <2>2. latest' = frameCh /\ frameCh' = NoBuf /\ got' = got /\ frameCh # NoBuf
      BY <1>1 DEF PacerFirst
    <2> QED
      BY <2>1, <2>2
  <1>2. CASE PacerReceive
    BY <1>2 DEF PacerReceive
  <1>3. CASE PacerSwap
    BY <1>3 DEF PacerSwap
  <1>4. CASE PacerPoll
    BY <1>4 DEF PacerPoll
  <1>5. CASE \/ PacerSourceError \/ PacerNoFrame \/ PacerTicker \/ PacerStart
             \/ PacerMark \/ PacerTick \/ PacerMeasure \/ PacerDropFrames
             \/ PacerDropSpan \/ PacerBurstEnd \/ PacerWriteFail
    <2>1. UNCHANGED <<frameCh, latest, got>>
      BY <1>5 DEF PacerSourceError, PacerNoFrame, PacerTicker, PacerStart,
         PacerMark, PacerTick, PacerMeasure, PacerDropFrames, PacerDropSpan,
         PacerBurstEnd, PacerWriteFail
    <2> QED
      BY <2>1
  <1> QED
    BY <1>1, <1>2, <1>3, <1>4, <1>5 DEF Pacer

\* InOrder is inductive relative to Shape and Exclusive.
LEMMA InOrderNext == Shape /\ Exclusive /\ InOrder /\ [Next]_vars => InOrder'
  <1> SUFFICES ASSUME Shape, Exclusive, InOrder, [Next]_vars
               PROVE  InOrder'
    OBVIOUS
  <1> USE DEF InOrder, NoOlder, ReaderHolds
  <1>1. CASE Reader
    BY <1>1, InOrderReader
  <1>2. CASE Pacer
    BY <1>2, InOrderPacer
  <1>3. CASE Consume
    <2>1. latest # NoBuf /\ content[latest] \in Nat
      BY <1>3, BuffersAssumption DEF Consume, Shape, TypeOK
    <2> QED
      BY <1>3, <2>1 DEF Consume
  <1>4. CASE SourceFail \/ Advance \/ Close \/ UNCHANGED vars
    <2>1. UNCHANGED <<rpc, fill, content, captured, frameCh, latest, got, shown>>
      BY <1>4 DEF SourceFail, Advance, Close, CloseCall, CloseSourceDone,
         ClosePipe, vars
    <2> QED
      BY <2>1
  <1> QED
    BY <1>1, <1>2, <1>3, <1>4 DEF Next, Terminated

\* Frames reach ffmpeg in the order of their capture, whatever is recycled,
\* dropped or repeated on the way: the picture never jumps back.
THEOREM PictureNeverBackwards == Spec => NeverBackwards
  <1>1. Shape /\ InOrder /\ [Next]_vars => [shown' >= shown]_shown
    <2> SUFFICES ASSUME Shape, InOrder, [Next]_vars
                 PROVE  [shown' >= shown]_shown
      OBVIOUS
    <2>1. CASE Consume
      <3>1. latest # NoBuf
        BY <2>1 DEF Consume, Shape, TypeOK
      <3>2. shown' = content[latest] /\ shown <= content[latest]
        BY <2>1, <3>1 DEF Consume, InOrder
      <3>3. content[latest] \in Nat /\ shown \in Nat
        BY <3>1 DEF Shape, TypeOK
      <3> QED
        BY <3>2, <3>3
    <2>2. CASE Pacer
      BY <2>2
      DEF Pacer, PacerSourceError, PacerNoFrame, PacerFirst, PacerTicker,
          PacerStart, PacerMark, PacerReceive, PacerSwap, PacerTick, PacerMeasure,
          PacerDropFrames, PacerDropSpan, PacerPoll, PacerBurstEnd, PacerWriteFail
    <2>3. CASE SourceFail \/ Advance \/ Reader \/ Close \/ UNCHANGED vars
      BY <2>3
      DEF SourceFail, Advance, Close, CloseCall, CloseSourceDone, ClosePipe, vars,
          Reader, ReaderWork, ReaderTake, ReaderFill, ReaderFail, ReaderClose,
          ReaderSend, ReaderFull, ReaderDrain, ReaderRecycle
    <2> QED
      BY <2>1, <2>2, <2>3 DEF Next, Terminated
  <1>2. Spec => [](Shape /\ Exclusive /\ InOrder)
    BY ShapeInit, ShapeNext, ExclusiveInit, ExclusiveNext, InOrderInit,
       InOrderNext, PTL DEF Spec
  <1> QED
    BY <1>1, <1>2, PTL DEF Spec, NeverBackwards

\* NewestFrameKept is inductive relative to the order: what replaces the pacer's
\* frame is at least as new.
LEMMA NewestNext ==
    ASSUME Shape, Exclusive, InOrder, NewestFrameKept, [Next]_vars
    PROVE  NewestFrameKept'
  <1> USE DEF NewestFrameKept, ReaderHolds
  <1>1. CASE Reader
    <2>1. CASE ReaderFill
      BY <2>1 DEF ReaderFill
    <2>2. CASE ReaderSend
      <3>1. frameCh' = fill /\ fill # NoBuf /\ content'[fill] = captured'
        BY <2>2 DEF ReaderSend, InOrder, Shape, TypeOK
      <3> QED
        BY <3>1
    <2>3. CASE ReaderFull \/ ReaderDrain \/ ReaderRecycle
      BY <2>3 DEF ReaderFull, ReaderDrain, ReaderRecycle
    <2>4. CASE ReaderTake \/ ReaderFail \/ ReaderClose
      <3>1. /\ UNCHANGED <<content, captured, frameCh, got, latest>>
            /\ rpc \notin ReaderHolds
        BY <2>4 DEF ReaderTake, ReaderFail, ReaderClose
      <3> QED
        BY <3>1
    <2> QED
      BY <1>1, <2>1, <2>2, <2>3, <2>4 DEF Reader, ReaderWork
  <1>2. CASE Pacer
    <2>0. UNCHANGED <<rpc, content, captured>>
      BY <1>2 DEF Pacer, PacerSourceError, PacerNoFrame, PacerFirst, PacerTicker,
         PacerStart, PacerMark, PacerReceive, PacerSwap, PacerTick, PacerMeasure,
         PacerDropFrames, PacerDropSpan, PacerPoll, PacerBurstEnd, PacerWriteFail
    <2>a. /\ \A b \in Buffers : content[b] \in Nat /\ content[b] <= captured
          /\ captured \in Nat /\ {frameCh, got, latest} \subseteq Buffers \cup {NoBuf}
      BY DEF InOrder, Shape, TypeOK
    <2>1. CASE PacerFirst \/ PacerSwap
      <3>1. PICK new \in Buffers :
                /\ new # NoBuf /\ latest' = new
                /\ NoOlder(latest, new)
                /\ new \in {frameCh, got}
                /\ {frameCh, got} \subseteq {new, frameCh', got', NoBuf}
        BY <2>1, <2>a, BuffersAssumption
        DEF PacerFirst, PacerSwap, InOrder, Exclusive, Holding, Shape
      <3>2. ASSUME NEW b \in {frameCh, got, latest} \ {NoBuf}, content[b] = captured
            PROVE  \E c \in {frameCh', got', latest'} \ {NoBuf} : content[c] = captured
        <4>1. CASE b = latest
          <5>1. content[new] = captured
            BY <2>a, <3>1, <3>2, <4>1 DEF NoOlder
          <5> QED
            BY <3>1, <5>1
        <4>2. CASE b # latest
          BY <3>1, <3>2, <4>2
        <4> QED
          BY <4>1, <4>2
      <3> QED
        BY <2>0, <3>2
    <2>2. CASE PacerReceive \/ PacerPoll
      <3>1. got = NoBuf
        BY <2>2 DEF PacerReceive, PacerPoll, Exclusive, Holding
      <3>2. got' = frameCh /\ latest' = latest
        BY <2>2 DEF PacerReceive, PacerPoll
      <3> QED
        BY <2>0, <3>1, <3>2
    <2>3. CASE \/ PacerSourceError \/ PacerNoFrame \/ PacerTicker \/ PacerStart
               \/ PacerMark \/ PacerTick \/ PacerMeasure \/ PacerDropFrames
               \/ PacerDropSpan \/ PacerBurstEnd \/ PacerWriteFail
      <3>1. UNCHANGED <<frameCh, latest, got>>
        BY <2>3 DEF PacerSourceError, PacerNoFrame, PacerTicker, PacerStart,
           PacerMark, PacerTick, PacerMeasure, PacerDropFrames, PacerDropSpan,
           PacerBurstEnd, PacerWriteFail
      <3> QED
        BY <2>0, <3>1
    <2> QED
      BY <1>2, <2>1, <2>2, <2>3 DEF Pacer
  <1>3. CASE SourceFail \/ Advance \/ Consume \/ Close \/ UNCHANGED vars
    <2>1. UNCHANGED <<rpc, content, captured, frameCh, latest, got>>
      BY <1>3 DEF SourceFail, Advance, Consume, Close, CloseCall, CloseSourceDone,
         ClosePipe, vars
    <2> QED
      BY <2>1
  <1> QED
    BY <1>1, <1>2, <1>3 DEF Next, Terminated

\* The newest frame is never the one that is dropped: neither the reader's
\* exchange nor the pacer's bursts lose it, for any number of buffers.
THEOREM NewestIsKept == Spec => []NewestFrameKept
  <1>1. Init => NewestFrameKept
    BY DEF Init, NewestFrameKept
  <1> QED
    BY <1>1, NewestNext, ShapeInit, ShapeNext, ExclusiveInit, ExclusiveNext,
       InOrderInit, InOrderNext, PTL DEF Spec

-----------------------------------------------------------------------------
(***************************************************************************)
(* The end.  NobodyStranded is inductive but for the two things Close does *)
(* before it is done.                                                      *)
(***************************************************************************)

Unwinding ==
    /\ NobodyStranded
    /\ cpc # "idle" => src # "open"
    /\ cpc = "done" => pipe # "open"

\* No step strands a goroutine.
LEMMA UnwindingNext == Shape /\ Unwinding /\ [Next]_vars => Unwinding'
  <1> SUFFICES ASSUME Shape, Unwinding, [Next]_vars
               PROVE  Unwinding'
    OBVIOUS
  <1> USE DEF Unwinding, NobodyStranded
  <1>1. CASE SourceFail \/ Advance \/ UNCHANGED vars
    BY <1>1 DEF SourceFail, Advance, vars
  <1>2. CASE Reader
    <2>1. CASE ReaderFail
      BY <2>1 DEF ReaderFail
    <2>2. CASE \/ ReaderTake \/ ReaderFill \/ ReaderClose \/ ReaderSend
               \/ ReaderFull \/ ReaderDrain \/ ReaderRecycle
      <3>1. UNCHANGED <<src, srcErrCh, ppc, pipe, cpc>>
        BY <2>2 DEF ReaderTake, ReaderFill, ReaderClose, ReaderSend, ReaderFull,
           ReaderDrain, ReaderRecycle
      <3>2. /\ rpc' = "read" => rpc = "take"
            /\ rpc' \in {"close", "done"} => rpc \in {"close", "done"}
        BY <2>2 DEF ReaderTake, ReaderFill, ReaderClose, ReaderSend, ReaderFull,
           ReaderDrain, ReaderRecycle
      <3> QED
        BY <2>2, <3>1, <3>2
    <2> QED
      BY <1>2, <2>1, <2>2 DEF Reader, ReaderWork
  <1>3. CASE Pacer
    <2>1. UNCHANGED <<src, rpc, cpc>>
      BY <1>3 DEF Pacer, PacerSourceError, PacerNoFrame, PacerFirst, PacerTicker,
         PacerStart, PacerMark, PacerReceive, PacerSwap, PacerTick, PacerMeasure,
         PacerDropFrames, PacerDropSpan, PacerPoll, PacerBurstEnd, PacerWriteFail
    <2>2. CASE PacerSourceError \/ PacerNoFrame
      <3>1. pipe' # "open" /\ ppc' = "done"
        BY <2>2 DEF PacerSourceError, PacerNoFrame, PipeClosed
      <3> QED
        BY <2>1, <3>1
    <2>3. CASE PacerWriteFail
      BY <2>1, <2>3 DEF PacerWriteFail
    <2>4. CASE \/ PacerFirst \/ PacerTicker \/ PacerStart \/ PacerMark
               \/ PacerReceive \/ PacerSwap \/ PacerTick \/ PacerMeasure
               \/ PacerDropFrames \/ PacerDropSpan \/ PacerPoll \/ PacerBurstEnd
      <3>1. UNCHANGED <<srcErrCh, pipe>> /\ ppc # "done" /\ ppc' # "done"
        BY <2>4 DEF PacerFirst, PacerTicker, PacerStart, PacerMark, PacerReceive,
           PacerSwap, PacerTick, PacerMeasure, PacerDropFrames, PacerDropSpan,
           PacerPoll, PacerBurstEnd
      <3> QED
        BY <2>1, <3>1
    <2> QED
      BY <1>3, <2>2, <2>3, <2>4 DEF Pacer
  <1>4. CASE Consume
    BY <1>4 DEF Consume
  <1>5. CASE CloseCall \/ CloseSourceDone
    BY <1>5 DEF CloseCall, CloseSourceDone
  <1>6. CASE ClosePipe
    <2>1. pipe' # "open"
      BY <1>6 DEF ClosePipe, PipeClosed
    <2> QED
      BY <1>6, <2>1 DEF ClosePipe
  <1> QED
    BY <1>1, <1>2, <1>3, <1>4, <1>5, <1>6 DEF Next, Terminated, Close

\* However Close, a failing capture and ffmpeg interleave, no goroutine is left
\* in a wait that nobody will end: the safety half of CloseEndsGoroutines.
THEOREM NoneStranded == Spec => []NobodyStranded
  <1>1. Init => Unwinding
    BY DEF Init, Unwinding, NobodyStranded
  <1>2. Unwinding => NobodyStranded
    BY DEF Unwinding
  <1> QED
    BY <1>1, <1>2, UnwindingNext, ShapeInit, ShapeNext, PTL DEF Spec

-----------------------------------------------------------------------------
(***************************************************************************)
(* FramePacer implements PacedTrack: every step moves the track's clocks,  *)
(* emits a frame that is due, or leaves the track alone.                   *)
(***************************************************************************)

Elapsed == IF Anchored THEN now - anchor ELSE 0
Length  == Delivered * Interval

TrackStep ==
    \/ Elapsed' >= Elapsed /\ dropped' >= dropped /\ Length' = Length
    \/ /\ Length' > Length
       /\ Length' <= VideoTrack!Target(Elapsed - dropped) + Interval
       /\ Elapsed' = Elapsed /\ dropped' = dropped

\* The initial state is one of the abstract track.
LEMMA TrackInit == Init => VideoTrack!TrackInit
  <1>1. 0 * Interval = 0
    BY IntervalAssumption
  <1> QED
    BY <1>1 DEF Init, VideoTrack!TrackInit, Delivered, Anchored

\* A frame read by ffmpeg is an Emit of the track, within its lead.
LEMMA TrackConsume ==
    ASSUME Shape, Timeline, Consume
    PROVE  TrackStep
  <1>0. /\ now \in Nat /\ start \in Nat /\ emitted \in Nat /\ want \in Int
        /\ anchor \in Nat /\ dropped \in Nat
        /\ Interval \in Nat /\ Interval > 0
    BY IntervalAssumption DEF Shape, TypeOK
  <1>1. UNCHANGED <<now, anchor, dropped>>
    BY DEF Consume
  <1>2. CASE ppc = "write"
    <2>1. Delivered = emitted /\ Delivered' = emitted + 1
      BY <1>2 DEF Consume, Delivered
    <2>2. (emitted + 1) * Interval = emitted * Interval + 1 * Interval
      BY <1>0, SpanAdds
    <2>3. emitted * Interval \in Nat /\ 1 * Interval = Interval
      BY <1>0, SpanIsNat
    <2>4. emitted <= want - 1
      BY <1>0, <1>2 DEF Timeline
    <2>5. emitted * Interval <= (want - 1) * Interval /\ (want - 1) * Interval \in Int
      BY <1>0, <2>4, SpanGrows, SpanIsInt
    <2>6. Anchored /\ start = anchor + dropped
      BY <1>2 DEF Timeline, BeforeAnchor
    <2>7. emitted * Interval <= now - anchor - dropped
      BY <1>0, <1>2, <2>3, <2>5, <2>6 DEF Timeline
    <2>8. Elapsed = now - anchor /\ Elapsed' = Elapsed
      BY <1>1, <2>6 DEF Elapsed, Anchored
    <2>9. /\ VideoTrack!Target(Elapsed - dropped) \in Int
          /\ VideoTrack!Target(Elapsed - dropped) >= emitted * Interval
      BY <1>0, <2>3, <2>7, <2>8 DEF VideoTrack!Target
    <2> QED
      BY <1>0, <1>1, <2>1, <2>2, <2>3, <2>8, <2>9 DEF TrackStep, Length
  <1>3. CASE ppc = "firstWrite"
    <2>1. emitted = 0 /\ anchor = 0
      BY <1>3 DEF Timeline, BeforeAnchor
    <2>2. Delivered = 0 /\ Delivered' = 1
      BY <1>3, <2>1 DEF Consume, Delivered
    <2>3. 0 * Interval = 0 /\ 1 * Interval = Interval
      BY <1>0
    <2>4. Elapsed = 0 /\ Elapsed' = 0 /\ dropped = 0
      BY <1>1, <1>3, <2>1 DEF Elapsed, Anchored, Timeline
    <2> QED
      BY <1>0, <1>1, <2>2, <2>3, <2>4 DEF TrackStep, Length, VideoTrack!Target
  <1> QED
    BY <1>2, <1>3 DEF Consume

\* A step of the pacer goroutine is a Pass of the track or a stutter: only
\* time that has passed is abandoned.
LEMMA TrackPacer ==
    ASSUME Shape, Timeline, Pacer
    PROVE  TrackStep
  <1>0. /\ now \in Nat /\ emitted \in Nat /\ want \in Int
        /\ anchor \in Nat /\ dropped \in Nat
        /\ Elapsed \in Int
    BY DEF Shape, TypeOK, Elapsed
  <1>1. CASE PacerMark
    <2>1. Delivered = 1 /\ Delivered' = 1
      BY <1>1 DEF PacerMark, Delivered
    <2>2. anchor = 0 /\ anchor' = start /\ 0 < start /\ start <= now
      BY <1>1 DEF PacerMark, Timeline, BeforeAnchor
    <2>3. Elapsed = 0 /\ Elapsed' >= 0
      BY <1>0, <1>1, <2>2 DEF PacerMark, Elapsed, Anchored, Shape, TypeOK
    <2>4. dropped' = dropped
      BY <1>1 DEF PacerMark
    <2> QED
      BY <1>0, <2>1, <2>3, <2>4 DEF TrackStep, Length
  <1>2. CASE PacerDropSpan
    <2>1. Skipped \in Nat /\ Skipped > 0
      BY <1>2, <1>0, LimitAssumption DEF PacerDropSpan, Shape, Skipped
    <2>2. Skipped * Interval \in Nat
      BY <2>1, SpanIsNat
    <2>3. dropped' >= dropped
      BY <1>2, <1>0, <2>1, <2>2 DEF PacerDropSpan
    <2>4. Elapsed' = Elapsed /\ Delivered' = Delivered
      BY <1>2 DEF PacerDropSpan, Elapsed, Anchored, Delivered
    <2> QED
      BY <1>0, <2>3, <2>4 DEF TrackStep, Length
  <1>3. CASE \/ PacerSourceError \/ PacerNoFrame \/ PacerFirst \/ PacerTicker
             \/ PacerStart \/ PacerReceive \/ PacerSwap \/ PacerTick
             \/ PacerMeasure \/ PacerDropFrames \/ PacerPoll \/ PacerBurstEnd
             \/ PacerWriteFail
    <2>1. UNCHANGED <<now, emitted, anchor, dropped>>
          /\ (ppc \in {"ticker", "start", "mark"}
                <=> ppc' \in {"ticker", "start", "mark"})
      BY <1>3 DEF PacerSourceError, PacerNoFrame, PacerFirst, PacerTicker,
         PacerStart, PacerReceive, PacerSwap, PacerTick, PacerMeasure,
         PacerDropFrames, PacerPoll, PacerBurstEnd, PacerWriteFail
    <2>2. Elapsed' = Elapsed /\ Delivered' = Delivered
      BY <2>1 DEF Elapsed, Anchored, Delivered
    <2> QED
      BY <1>0, <2>1, <2>2 DEF TrackStep, Length
  <1> QED
    BY <1>1, <1>2, <1>3 DEF Pacer

\* Every step of the system maps to a step of the track or to a stutter.
LEMMA TrackNext == Shape /\ Timeline /\ [Next]_vars => TrackStep
  <1> SUFFICES ASSUME Shape, Timeline, [Next]_vars
               PROVE  TrackStep
    OBVIOUS
  <1>0. now \in Nat /\ anchor \in Nat /\ dropped \in Nat
    BY DEF Shape, TypeOK
  <1>1. CASE Pacer
    BY <1>1, TrackPacer
  <1>2. CASE Consume
    BY <1>2, TrackConsume
  <1>3. CASE SourceFail \/ Advance \/ Reader \/ Close \/ UNCHANGED vars
    <2>1. UNCHANGED <<ppc, emitted, anchor, dropped>> /\ now' \in Nat /\ now' >= now
      BY <1>0, <1>3 DEF SourceFail, Advance, Close, CloseCall, CloseSourceDone,
         ClosePipe, vars, Reader, ReaderWork, ReaderTake, ReaderFill,
         ReaderFail, ReaderClose, ReaderSend, ReaderFull, ReaderDrain,
         ReaderRecycle
    <2>2. Elapsed' >= Elapsed
      <3>1. anchor' = anchor
        BY <2>1
      <3>2. now' - anchor >= now - anchor
        BY <1>0, <2>1, LaterIsLonger
      <3>3. CASE anchor = 0
        <4>1. Elapsed = 0 /\ Elapsed' = 0
          BY <3>1, <3>3 DEF Elapsed, Anchored
        <4> QED
          BY <4>1
      <3>4. CASE anchor # 0
        <4>1. Elapsed = now - anchor /\ Elapsed' = now' - anchor
          BY <3>1, <3>4 DEF Elapsed, Anchored
        <4> QED
          BY <3>2, <4>1
      <3> QED
        BY <3>3, <3>4
    <2>3. Length' = Length
      BY <2>1 DEF Length, Delivered
    <2>4. dropped' >= dropped
      BY <1>0, <2>1
    <2> QED
      BY <2>2, <2>3, <2>4 DEF TrackStep
  <1> QED
    BY <1>1, <1>2, <1>3 DEF Next, Terminated

\* The video input keeps its promise to the audio input, for every frame rate:
\* it never gets more than a frame ahead of the clock both are measured by.
THEOREM PacerKeepsTrack == Spec => KeepsTrack
  <1>1. TrackStep => [VideoTrack!Pass \/ VideoTrack!Emit]_(VideoTrack!trackVars)
    BY DEF TrackStep, Elapsed, Length, VideoTrack!Pass, VideoTrack!Emit,
       VideoTrack!trackVars
  <1> QED
    BY <1>1, TrackInit, TrackNext, TimelineInvariant, PTL
    DEF Spec, KeepsTrack, VideoTrack!Track

-----------------------------------------------------------------------------
(***************************************************************************)
(* The skew, from the relay's side.  Every step but five leaves it alone;  *)
(* those five are steps of TimelineSkew.  That the span of a drop is none  *)
(* but time that has passed takes the whole of Timeline.                   *)
(***************************************************************************)

Video == IF Anchored THEN "run"
         ELSE IF ppc = "mark" THEN "mark"
         ELSE IF ppc \in {"ticker", "start"} THEN "start" ELSE "first"

VideoFrom == IF Anchored THEN anchor ELSE start

SkewStep == [AudioSide!SkewNext]_(AudioSide!skewVars)

\* A step that leaves the numbers alone and stays on its side of the first frame
\* and of the anchor.
LEMMA SkewAside ==
    ASSUME UNCHANGED <<now, start, anchor, dropped>>,
           \/ ppc' = ppc
           \/ {ppc, ppc'} \cap {"ticker", "start", "mark"} = {}
           \/ ppc = "ticker" /\ ppc' = "start"
    PROVE  SkewStep
<1>1. Anchored' = Anchored /\ VideoFrom' = VideoFrom
  BY DEF Anchored, VideoFrom
<1>2. Video' = Video
  BY <1>1 DEF Video
<1>. QED
  BY <1>1, <1>2 DEF SkewStep, Video, VideoFrom, AudioSide!skewVars, AudioSide!videoVars

\* An abandoned span is at least one unit and leaves at least one.
LEMMA SkewDrop ==
    ASSUME Shape, Timeline, PacerDropSpan
    PROVE  SkewStep
<1>. DEFINE d == Skipped * Interval
<1>1. /\ now \in Nat /\ start \in Nat /\ emitted \in Nat /\ want \in Int
      /\ anchor \in Nat /\ dropped \in Nat /\ MaxDebt \in Nat \ {0}
      /\ Interval \in Nat \ {0}
  BY LimitAssumption, IntervalAssumption DEF Shape, TypeOK
<1>2. Anchored /\ start = anchor + dropped /\ (want - 1) * Interval <= now - start
  BY DEF PacerDropSpan, Timeline, BeforeAnchor
<1>3. Skipped \in Nat \ {0} /\ want - 1 = emitted + Skipped
  BY <1>1 DEF PacerDropSpan, Shape, Skipped
<1>4. dropped' = dropped + d
  BY <1>3 DEF PacerDropSpan
<1>5. d \in Nat /\ 1 * Interval <= d /\ 1 * Interval <= emitted * Interval
  BY <1>1, <1>2, <1>3, SpanGrows, SpanIsNat DEF Timeline
<1>6. (want - 1) * Interval = emitted * Interval + d
  BY <1>1, <1>3, SpanAdds
<1>7. 1 <= d /\ d + 1 <= now - start
  <2>. DEFINE e == emitted * Interval
  <2>1. e \in Nat
    BY <1>1, SpanIsNat
  <2>2. 1 <= d /\ 1 <= e
    BY <1>1, <1>5
  <2>3. e + d <= now - start
    BY <1>2, <1>6
  <2>. HIDE DEF d, e
  <2>. QED
    BY <1>1, <1>5, <2>1, <2>2, <2>3
<1>8. d \in 1..(now - anchor - dropped - 1)
  BY <1>1, <1>2, <1>5, <1>7
<1>9. /\ UNCHANGED <<now, anchor>> /\ Anchored' /\ Video = "run" /\ Video' = "run"
      /\ VideoFrom' = VideoFrom
  BY <1>2 DEF PacerDropSpan, Anchored, Video, VideoFrom
<1>. QED
  BY <1>4, <1>8, <1>9 DEF SkewStep, AudioSide!SkewNext, AudioSide!VideoDrop, Video, VideoFrom

\* The pacer starts its clock, stores it, and only then abandons spans.
LEMMA SkewPacer ==
    ASSUME Shape, Timeline, Pacer
    PROVE  SkewStep
<1>1. CASE PacerStart
  <2>1. /\ ppc = "start" /\ ppc' = "mark" /\ start' = now /\ anchor = 0 /\ anchor' = 0
        /\ UNCHANGED <<now, dropped>>
    BY <1>1 DEF PacerStart, Timeline, BeforeAnchor
  <2>2. /\ Video = "start" /\ Video' = "mark"
        /\ VideoFrom' = now
    BY <2>1 DEF Video, VideoFrom, Anchored
  <2>. QED
    BY <2>1, <2>2 DEF SkewStep, AudioSide!SkewNext, AudioSide!VideoStart, Video, VideoFrom
<1>2. CASE PacerMark
  <2>1. /\ ppc = "mark" /\ anchor = 0 /\ anchor' = start /\ start # 0
        /\ UNCHANGED <<now, start, dropped>>
    BY <1>2 DEF PacerMark, Timeline, BeforeAnchor, Shape, TypeOK
  <2>2. /\ Video = "mark" /\ Video' = "run"
        /\ VideoFrom = start /\ VideoFrom' = start
    BY <2>1 DEF Video, VideoFrom, Anchored
  <2>. QED
    BY <2>1, <2>2 DEF SkewStep, AudioSide!SkewNext, AudioSide!VideoMark, Video, VideoFrom
<1>3. CASE PacerDropSpan
  BY <1>3, SkewDrop
<1>4. CASE \/ PacerSourceError \/ PacerNoFrame \/ PacerFirst \/ PacerTicker
           \/ PacerReceive \/ PacerSwap \/ PacerTick \/ PacerMeasure
           \/ PacerDropFrames \/ PacerPoll \/ PacerBurstEnd \/ PacerWriteFail
  <2>1. /\ UNCHANGED <<now, start, anchor, dropped>>
        /\ \/ {ppc, ppc'} \cap {"ticker", "start", "mark"} = {}
           \/ ppc = "ticker" /\ ppc' = "start"
    BY <1>4 DEF PacerSourceError, PacerNoFrame, PacerFirst, PacerTicker, PacerReceive,
       PacerSwap, PacerTick, PacerMeasure, PacerDropFrames, PacerPoll, PacerBurstEnd,
       PacerWriteFail
  <2>. QED
    BY <2>1, SkewAside
<1>. QED
  BY <1>1, <1>2, <1>3, <1>4 DEF Pacer

\* Every step of the system is one the relay expects, or none to it.
LEMMA SkewNext == Shape /\ Timeline /\ [Next]_vars => SkewStep
<1>. SUFFICES ASSUME Shape, Timeline, [Next]_vars
              PROVE  SkewStep
  OBVIOUS
<1>1. CASE Pacer
  BY <1>1, SkewPacer
<1>2. CASE Consume
  <2>1. UNCHANGED <<now, start, anchor, dropped>>
    BY <1>2 DEF Consume
  <2>2. CASE ppc = "write"
    <3>1. ppc' = "burst"
      BY <1>2, <2>2 DEF Consume
    <3>. QED
      BY <2>1, <2>2, <3>1, SkewAside
  <2>3. CASE ppc = "firstWrite"
    <3>1. anchor = 0 /\ anchor' = 0 /\ ppc' = "ticker"
      BY <1>2, <2>1, <2>3 DEF Consume, Timeline, BeforeAnchor
    <3>2. Video = "first" /\ Video' = "start" /\ VideoFrom' = VideoFrom
      BY <2>1, <2>3, <3>1 DEF Video, VideoFrom, Anchored
    <3>. QED
      BY <2>1, <3>2 DEF SkewStep, AudioSide!SkewNext, AudioSide!VideoFirstFrame,
         Video, VideoFrom
  <2>. QED
    BY <1>2, <2>2, <2>3 DEF Consume
<1>3. CASE Advance
  <2>1. now' = now + 1 /\ UNCHANGED <<ppc, start, anchor, dropped>>
    BY <1>3 DEF Advance
  <2>2. Video' = Video /\ VideoFrom' = VideoFrom
    BY <2>1 DEF Video, VideoFrom, Anchored
  <2>. QED
    BY <2>1, <2>2 DEF SkewStep, AudioSide!SkewNext, AudioSide!TimePasses,
       AudioSide!videoVars, Video, VideoFrom
<1>4. CASE SourceFail \/ Reader \/ Close \/ UNCHANGED vars
  <2>1. UNCHANGED <<ppc, now, start, anchor, dropped>>
    BY <1>4 DEF SourceFail, Close, CloseCall, CloseSourceDone, ClosePipe, vars,
       Reader, ReaderWork, ReaderTake, ReaderFill, ReaderFail, ReaderClose,
       ReaderSend, ReaderFull, ReaderDrain, ReaderRecycle
  <2>. QED
    BY <2>1, SkewAside
<1>. QED
  BY <1>1, <1>2, <1>3, <1>4 DEF Next, Terminated

\* What AudioRelay takes for granted of the pacer is what the pacer does, for
\* every frame rate and every limit: markStart stores, once, an instant read after
\* ffmpeg drained the first frame, and drop only ever reports time that has
\* passed since.
THEOREM PacerDrivesSkew == Spec => DrivesSkew
<1>1. Init => AudioSide!SkewInit
  BY DEF Init, Anchored, AudioSide!SkewInit
<1>2. Shape /\ Timeline /\ [Next]_vars => [AudioSide!SkewNext]_(AudioSide!skewVars)
  BY SkewNext DEF SkewStep
<1>. QED
  BY <1>1, <1>2, TimelineInvariant, PTL DEF Spec, DrivesSkew, AudioSide!Skew

=============================================================================
