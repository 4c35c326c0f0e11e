----------------------------- MODULE FramePacer -----------------------------
(***************************************************************************)
(* internal/pipeline/frame_pacer.go: the goroutines between a raw capture  *)
(* stream and the stdin of ffmpeg.                                         *)
(*                                                                         *)
(*   reader  fills recycled buffers from the source and offers each frame  *)
(*           in a channel of capacity one that keeps the newest;           *)
(*   pacer   writes frames to an io.Pipe at a constant rate, repeats the   *)
(*           newest one when the source is slow, makes missed frames up in *)
(*           bursts and abandons a span of timeline it can never emit;     *)
(*   closer  framePacer.Close, called by whoever ends the session.         *)
(*                                                                         *)
(* Every blocking point of the two goroutines, and every access to a       *)
(* channel, an atomic or the clock, is a step of its own.  Frame contents  *)
(* are reduced to the ordinal at which they were captured.                 *)
(*                                                                         *)
(* An operator X_Fault next to X is X with a plausible mistake in it; it   *)
(* is used nowhere but to see that the properties notice the mistake.      *)
(***************************************************************************)
EXTENDS Integers, FiniteSets

CONSTANTS
    Buffers,    \* frame buffers the Go heap can hand out
    NoBuf,      \* a nil []byte
    Interval,   \* frameInterval in clock units
    MaxBurst,   \* maxFrameBurst
    MaxDebt,    \* maxDebt = fps * maxFrameDebtSeconds
    MaxNow,     \* bound: last instant of the clock
    MaxFrames   \* bound: frames the source delivers

ASSUME BuffersAssumption  == NoBuf \notin Buffers /\ IsFiniteSet(Buffers)
ASSUME IntervalAssumption == Interval \in Nat \ {0}
ASSUME LimitAssumption    == MaxBurst \in Nat \ {0} /\ MaxDebt \in Nat \ {0}
ASSUME BoundAssumption    == MaxNow \in Nat /\ MaxFrames \in Nat

VARIABLES
    src,        \* capture source: "open", "failed" (its own error) or "closed"
    captured,   \* frames read from the source so far
    content,    \* content[b]: ordinal of the frame last read whole into b
    rpc,        \* reader's program counter
    fill,       \* reader: frame it is filling or offering
    stale,      \* reader: frame it took back out of frameCh
    frameCh,    \* chan []byte of capacity 1: its element or NoBuf
    frameClosed,\* close(frameCh) has run
    srcErrCh,   \* chan error of capacity 1: holds the source's error
    free,       \* freeCh: recycled buffers (interchangeable, so a set)
    ppc,        \* pacer's program counter
    latest,     \* pacer: frame to write
    got,        \* pacer: frame just received, not yet latest
    pipe,       \* io.Pipe: "open", or what its reader gets: "eof", "srcErr"
    shown,      \* ordinal of the last frame ffmpeg read from the pipe
    cpc,        \* closer's program counter
    now,        \* real time (UnixNano; 0 stands for "not set" in anchor)
    tickBase,   \* instant the ticker was created, 0 before
    tick,       \* ticker.C holds a tick
    start,      \* pacer: instant its frame count is measured from
    emitted,    \* pacer: frames written
    want,       \* pacer: frames due at the last tick
    burst,      \* pacer: frames written in this tick
    anchor,     \* timelineSkew.anchor
    frames,     \* timelineSkew.frames
    dropped     \* timelineSkew.dropped

srcVars   == <<src, captured, content>>
rdVars    == <<rpc, fill, stale>>
chanVars  == <<frameCh, frameClosed, srcErrCh, free>>
holdVars  == <<latest, got>>
outVars   == <<pipe, shown>>
clockVars == <<now, tickBase, tick>>
paceVars  == <<start, emitted, want, burst>>
skewVars  == <<anchor, frames, dropped>>
vars == <<srcVars, rdVars, chanVars, ppc, holdVars, outVars, cpc,
          clockVars, paceVars, skewVars>>

-----------------------------------------------------------------------------
(* Buffers                                                                 *)

FreeCap == 3    \* capacity of freeCh

Held(b) == IF b = NoBuf THEN {} ELSE {b}

\* Frames some goroutine or the frame channel refers to.
LiveFrames == Held(fill) \cup Held(stale) \cup Held(frameCh)
              \cup Held(latest) \cup Held(got)

\* What freeCh holds after recycle(b): a nil frame is ignored, and a full
\* channel drops the frame for the garbage collector.
Recycled(b) ==
    IF b # NoBuf /\ Cardinality(free) < FreeCap THEN free \cup {b} ELSE free

-----------------------------------------------------------------------------
Init ==
    /\ src = "open" /\ captured = 0 /\ content = [b \in Buffers |-> 0]
    /\ rpc = "take" /\ fill = NoBuf /\ stale = NoBuf
    /\ frameCh = NoBuf /\ frameClosed = FALSE /\ srcErrCh = FALSE /\ free = {}
    /\ ppc = "first" /\ latest = NoBuf /\ got = NoBuf
    /\ pipe = "open" /\ shown = 0
    /\ cpc = "idle"
    /\ now = 1 /\ tickBase = 0 /\ tick = FALSE
    /\ start = 0 /\ emitted = 0 /\ want = 0 /\ burst = 0
    /\ anchor = 0 /\ frames = 0 /\ dropped = 0

-----------------------------------------------------------------------------
(* The source and real time                                                *)

\* The capture backend ends or fails on its own.
SourceFail ==
    /\ src = "open"
    /\ src' = "failed"
    /\ UNCHANGED <<captured, content, rdVars, chanVars, ppc, holdVars, outVars,
                   cpc, clockVars, paceVars, skewVars>>

\* time.Ticker: a tick each Interval after its creation, at most one of them
\* waiting in ticker.C.
Advance ==
    /\ now < MaxNow
    /\ now' = now + 1
    /\ tick' = (tick \/ (tickBase # 0 /\ (now' - tickBase) % Interval = 0))
    /\ UNCHANGED <<srcVars, rdVars, chanVars, ppc, holdVars, outVars, cpc,
                   tickBase, paceVars, skewVars>>

-----------------------------------------------------------------------------
(* The reader goroutine                                                    *)

\* Reuse a recycled buffer; allocate one only when freeCh is empty.
ReaderTake ==
    /\ rpc = "take"
    /\ rpc' = "read"
    /\ IF free # {}
       THEN /\ fill' \in free
            /\ free' = free \ {fill'}
       ELSE /\ fill' \in Buffers \ LiveFrames
            /\ UNCHANGED free
    /\ UNCHANGED <<srcVars, stale, frameCh, frameClosed, srcErrCh, ppc,
                   holdVars, outVars, cpc, clockVars, paceVars, skewVars>>

\* io.ReadFull returns a whole frame.
ReaderFill ==
    /\ rpc = "read" /\ src = "open" /\ captured < MaxFrames
    /\ captured' = captured + 1
    /\ content' = [content EXCEPT ![fill] = captured']
    /\ rpc' = "offer"
    /\ UNCHANGED <<src, fill, stale, chanVars, ppc, holdVars, outVars, cpc,
                   clockVars, paceVars, skewVars>>

\* Only close frameCh and keep the error.
ReaderFail_NoError ==
    /\ rpc = "read" /\ src # "open"
    /\ fill' = NoBuf
    /\ rpc' = "close"
    /\ UNCHANGED <<srcVars, stale, chanVars, ppc, holdVars, outVars, cpc,
                   clockVars, paceVars, skewVars>>

\* io.ReadFull fails: hand the error over, then close frameCh.
ReaderFail ==
    /\ rpc = "read" /\ src # "open"
    /\ srcErrCh' = TRUE
    /\ fill' = NoBuf
    /\ rpc' = "close"
    /\ UNCHANGED <<srcVars, stale, frameCh, frameClosed, free, ppc, holdVars,
                   outVars, cpc, clockVars, paceVars, skewVars>>

ReaderClose ==
    /\ rpc = "close"
    /\ frameClosed' = TRUE
    /\ rpc' = "done"
    /\ UNCHANGED <<srcVars, fill, stale, frameCh, srcErrCh, free, ppc, holdVars,
                   outVars, cpc, clockVars, paceVars, skewVars>>

\* The send both selects of the reader end in; it needs room in frameCh.
ReaderSend ==
    /\ rpc \in {"offer", "send"} /\ frameCh = NoBuf
    /\ frameCh' = fill
    /\ fill' = NoBuf
    /\ rpc' = "take"
    /\ UNCHANGED <<srcVars, stale, frameClosed, srcErrCh, free, ppc, holdVars,
                   outVars, cpc, clockVars, paceVars, skewVars>>

\* frameCh is full: the default branch of the outer select.
ReaderFull ==
    /\ rpc = "offer" /\ frameCh # NoBuf
    /\ rpc' = "drain"
    /\ UNCHANGED <<srcVars, fill, stale, chanVars, ppc, holdVars, outVars, cpc,
                   clockVars, paceVars, skewVars>>

\* The inner select: take the stale frame out, unless the pacer was faster.
ReaderDrain ==
    /\ rpc = "drain"
    /\ stale' = frameCh
    /\ frameCh' = NoBuf
    /\ rpc' = IF frameCh = NoBuf THEN "send" ELSE "recycle"
    /\ UNCHANGED <<srcVars, fill, frameClosed, srcErrCh, free, ppc, holdVars,
                   outVars, cpc, clockVars, paceVars, skewVars>>

ReaderRecycle ==
    /\ rpc = "recycle"
    /\ free' = Recycled(stale)
    /\ stale' = NoBuf
    /\ rpc' = "send"
    /\ UNCHANGED <<srcVars, fill, frameCh, frameClosed, srcErrCh, ppc, holdVars,
                   outVars, cpc, clockVars, paceVars, skewVars>>

\* Everything the reader does but wait for a frame of the source.
ReaderWork == \/ ReaderTake \/ ReaderFail \/ ReaderClose \/ ReaderSend
              \/ ReaderFull \/ ReaderDrain \/ ReaderRecycle

Reader == ReaderFill \/ ReaderWork

-----------------------------------------------------------------------------
(* The pacer goroutine                                                     *)

\* CloseWithError stores the first reason only; io.EOF stands for nil.
PipeClosed(reason) == IF pipe = "open" THEN reason ELSE pipe

\* case srcErr = <-srcErrCh, before the first frame and after it.
PacerSourceError ==
    /\ ppc \in {"first", "select"} /\ srcErrCh
    /\ srcErrCh' = FALSE
    /\ pipe' = PipeClosed("srcErr")
    /\ ppc' = "done"
    /\ UNCHANGED <<srcVars, rdVars, frameCh, frameClosed, free, holdVars, shown,
                   cpc, clockVars, paceVars, skewVars>>

\* Before the first frame the closed channel ends the pacer too, and srcErr is
\* still nil then.  Later the same receive changes nothing: a stutter.
PacerNoFrame ==
    /\ ppc = "first" /\ frameCh = NoBuf /\ frameClosed
    /\ pipe' = PipeClosed("eof")
    /\ ppc' = "done"
    /\ UNCHANGED <<srcVars, rdVars, chanVars, holdVars, shown, cpc, clockVars,
                   paceVars, skewVars>>

PacerFirst ==
    /\ ppc = "first" /\ frameCh # NoBuf
    /\ latest' = frameCh
    /\ frameCh' = NoBuf
    /\ ppc' = "firstWrite"
    /\ UNCHANGED <<srcVars, rdVars, frameClosed, srcErrCh, free, got, outVars,
                   cpc, clockVars, paceVars, skewVars>>

\* The first Write has returned: create the ticker.
PacerTicker ==
    /\ ppc = "ticker"
    /\ tickBase' = now
    /\ ppc' = "start"
    /\ UNCHANGED <<srcVars, rdVars, chanVars, holdVars, outVars, cpc, now, tick,
                   paceVars, skewVars>>

\* start := time.Now()
PacerStart ==
    /\ ppc = "start"
    /\ start' = now
    /\ ppc' = "mark"
    /\ UNCHANGED <<srcVars, rdVars, chanVars, holdVars, outVars, cpc, clockVars,
                   emitted, want, burst, skewVars>>

\* markStart: the anchor keeps the first instant stored in it.
PacerMark ==
    /\ ppc = "mark"
    /\ anchor' = IF anchor = 0 THEN start ELSE anchor
    /\ emitted' = 1
    /\ ppc' = "select"
    /\ UNCHANGED <<srcVars, rdVars, chanVars, holdVars, outVars, cpc, clockVars,
                   start, want, burst, frames, dropped>>

\* case frame := <-frameCh of the main select.
PacerReceive ==
    /\ ppc = "select" /\ frameCh # NoBuf
    /\ got' = frameCh
    /\ frameCh' = NoBuf
    /\ ppc' = "swap"
    /\ UNCHANGED <<srcVars, rdVars, frameClosed, srcErrCh, free, latest, outVars,
                   cpc, clockVars, paceVars, skewVars>>

\* Recycle the frame that becomes the latest.
PacerSwap_RecycleNew ==
    /\ ppc \in {"swap", "burstSwap"}
    /\ free' = Recycled(got)
    /\ latest' = got
    /\ got' = NoBuf
    /\ ppc' = IF ppc = "swap" THEN "select" ELSE "write"
    /\ UNCHANGED <<srcVars, rdVars, frameCh, frameClosed, srcErrCh, outVars, cpc,
                   clockVars, paceVars, skewVars>>

\* recycle(latest); latest = frame, in the select and in the burst loop.
PacerSwap ==
    /\ ppc \in {"swap", "burstSwap"}
    /\ free' = Recycled(latest)
    /\ latest' = got
    /\ got' = NoBuf
    /\ ppc' = IF ppc = "swap" THEN "select" ELSE "write"
    /\ UNCHANGED <<srcVars, rdVars, frameCh, frameClosed, srcErrCh, outVars, cpc,
                   clockVars, paceVars, skewVars>>

\* case <-ticker.C
PacerTick ==
    /\ ppc = "select" /\ tick
    /\ tick' = FALSE
    /\ ppc' = "measure"
    /\ UNCHANGED <<srcVars, rdVars, chanVars, holdVars, outVars, cpc, now,
                   tickBase, paceVars, skewVars>>

\* Frames due by now, one of them at the very start.
Due == (now - start) \div Interval + 1

PacerMeasure ==
    /\ ppc = "measure"
    /\ want' = Due
    /\ burst' = 0
    /\ ppc' = IF want' - emitted > MaxDebt THEN "dropFrames" ELSE "burst"
    /\ UNCHANGED <<srcVars, rdVars, chanVars, holdVars, outVars, cpc, clockVars,
                   start, emitted, skewVars>>

\* Abandon the whole debt and still write a frame of it.
Skipped_WholeDebt == want - emitted

\* skipped = debt - 1: one frame stays due.
Skipped == want - emitted - 1

\* timelineSkew.drop adds to its two atomics one after the other, frames first.
PacerDropFrames ==
    /\ ppc = "dropFrames"
    /\ frames' = IF Skipped > 0 THEN frames + Skipped ELSE frames
    /\ ppc' = "dropSpan"
    /\ UNCHANGED <<srcVars, rdVars, chanVars, holdVars, outVars, cpc, clockVars,
                   paceVars, anchor, dropped>>

\* The second atomic, then the pacer's own clock moves by the same span.
PacerDropSpan ==
    /\ ppc = "dropSpan"
    /\ dropped' = IF Skipped > 0 THEN dropped + Skipped * Interval ELSE dropped
    /\ start' = start + Skipped * Interval
    /\ want' = emitted + 1
    /\ ppc' = "burst"
    /\ UNCHANGED <<srcVars, rdVars, chanVars, holdVars, outVars, cpc, clockVars,
                   emitted, burst, anchor, frames>>

MoreToWrite == emitted < want /\ burst < MaxBurst

\* The non-blocking receive before every write of a burst.
PacerPoll ==
    /\ ppc = "burst" /\ MoreToWrite
    /\ got' = frameCh
    /\ frameCh' = NoBuf
    /\ ppc' = IF frameCh = NoBuf THEN "write" ELSE "burstSwap"
    /\ UNCHANGED <<srcVars, rdVars, frameClosed, srcErrCh, free, latest, outVars,
                   cpc, clockVars, paceVars, skewVars>>

PacerBurstEnd ==
    /\ ppc = "burst" /\ ~MoreToWrite
    /\ ppc' = "select"
    /\ UNCHANGED <<srcVars, rdVars, chanVars, holdVars, outVars, cpc, clockVars,
                   paceVars, skewVars>>

\* pw.Write on a pipe that was closed, before the call or while it waited.
PacerWriteFail ==
    /\ ppc \in {"firstWrite", "write"} /\ pipe # "open"
    /\ ppc' = "done"
    /\ UNCHANGED <<srcVars, rdVars, chanVars, holdVars, outVars, cpc, clockVars,
                   paceVars, skewVars>>

Pacer == \/ PacerSourceError \/ PacerNoFrame \/ PacerFirst \/ PacerTicker
         \/ PacerStart \/ PacerMark \/ PacerReceive \/ PacerSwap \/ PacerTick
         \/ PacerMeasure \/ PacerDropFrames \/ PacerDropSpan \/ PacerPoll
         \/ PacerBurstEnd \/ PacerWriteFail

\* ffmpeg's side of the pipe: the copy to its stdin reads the frame to the end,
\* which is what lets pw.Write return.
Consume ==
    /\ ppc \in {"firstWrite", "write"} /\ pipe = "open"
    /\ shown' = content[latest]
    /\ IF ppc = "write"
       THEN /\ emitted' = emitted + 1
            /\ burst' = burst + 1
            /\ ppc' = "burst"
       ELSE /\ ppc' = "ticker"
            /\ UNCHANGED <<emitted, burst>>
    /\ UNCHANGED <<srcVars, rdVars, chanVars, holdVars, pipe, cpc, clockVars,
                   start, want, skewVars>>

-----------------------------------------------------------------------------
(* framePacer.Close: source, write end, read end, in that order            *)

\* src.Close is called; its Reads fail from here on.
CloseCall ==
    /\ cpc = "idle"
    /\ src' = "closed"
    /\ cpc' = "srcClose"
    /\ UNCHANGED <<captured, content, rdVars, chanVars, ppc, holdVars, outVars,
                   clockVars, paceVars, skewVars>>

\* src.Close returns.
CloseSourceDone ==
    /\ cpc = "srcClose"
    /\ cpc' = "pipe"
    /\ UNCHANGED <<srcVars, rdVars, chanVars, ppc, holdVars, outVars, clockVars,
                   paceVars, skewVars>>

\* Close the source only.
ClosePipe_Missing ==
    /\ cpc = "pipe"
    /\ cpc' = "done"
    /\ UNCHANGED <<srcVars, rdVars, chanVars, ppc, holdVars, outVars, clockVars,
                   paceVars, skewVars>>

\* pw.Close, then pr.Close, which finds the pipe closed already.
ClosePipe ==
    /\ cpc = "pipe"
    /\ pipe' = PipeClosed("eof")
    /\ cpc' = "done"
    /\ UNCHANGED <<srcVars, rdVars, chanVars, ppc, holdVars, shown, clockVars,
                   paceVars, skewVars>>

Close == CloseCall \/ CloseSourceDone \/ ClosePipe

-----------------------------------------------------------------------------
AllDone == rpc = "done" /\ ppc = "done" /\ cpc = "done"

\* Nothing of the pacer is left to run: the only state that may not move.
Terminated == AllDone /\ UNCHANGED vars

Next == SourceFail \/ Advance \/ Reader \/ Pacer \/ Consume \/ Close \/ Terminated

Spec == Init /\ [][Next]_vars

\* The Go scheduler runs every goroutine that can run, and a select picks among
\* its ready cases at random: a case ready again and again is taken some time.
Fairness == /\ WF_vars(ReaderWork)
            /\ WF_vars(Pacer)
            /\ SF_vars(PacerSourceError)

\* As above once the capture backend's Close, when called, returns.  Nothing is
\* assumed of ffmpeg: it may stop reading at any time.
FairSpec == Spec /\ Fairness /\ WF_vars(CloseSourceDone) /\ WF_vars(ClosePipe)

-----------------------------------------------------------------------------
(* Properties                                                              *)

ReaderHolds == {"offer", "drain", "recycle", "send"}
Anchored    == anchor # 0

\* The reader has a frame exactly while it fills or offers it, and the pacer
\* never loses the frame it repeats: a closed frameCh must not turn it into nil.
TypeOK ==
    /\ src \in {"open", "failed", "closed"}
    /\ captured \in Nat
    /\ content \in [Buffers -> Nat]
    /\ rpc \in {"take", "read", "close", "done"} \cup ReaderHolds
    /\ {fill, stale, frameCh, latest, got} \subseteq Buffers \cup {NoBuf}
    /\ rpc \in ReaderHolds \cup {"read"} <=> fill # NoBuf
    /\ ppc \notin {"first", "done"} => latest # NoBuf
    /\ frameClosed \in BOOLEAN /\ srcErrCh \in BOOLEAN
    /\ free \subseteq Buffers
    /\ ppc \in {"first", "firstWrite", "ticker", "start", "mark", "select",
                "swap", "measure", "dropFrames", "dropSpan", "burst",
                "burstSwap", "write", "done"}
    /\ pipe \in {"open", "eof", "srcErr"}
    /\ shown \in Nat
    /\ cpc \in {"idle", "srcClose", "pipe", "done"}
    /\ now \in Nat \ {0} /\ tickBase \in Nat /\ tick \in BOOLEAN
    /\ start \in Nat /\ emitted \in Nat /\ want \in Int /\ burst \in Nat
    /\ anchor \in Nat /\ frames \in Nat /\ dropped \in Nat

\* No buffer has two owners: what the reader fills, what waits in frameCh, what
\* ffmpeg is reading through the pipe and what freeCh offers for reuse are
\* always different buffers (a double recycle or an early one would tear the
\* picture).
BufferExclusive ==
    LET owner == <<fill, stale, frameCh, latest, got>>
    IN  /\ \A i, j \in 1..5 : i < j /\ owner[i] # NoBuf => owner[i] # owner[j]
        /\ LiveFrames \cap free = {}

\* The blocking send the reader ends an exchange with finds room at once: the
\* capture source is never throttled by ffmpeg.
ReaderNeverParks == rpc = "send" => frameCh = NoBuf

\* The picture never jumps back: ffmpeg reads frames in capture order.
NeverBackwards == [][shown' >= shown]_shown

\* Whatever is dropped, the newest frame is not: between two offers it waits in
\* frameCh or is the pacer's, so a screen that stops changing is shown as it is.
NewestFrameKept ==
    rpc \notin ReaderHolds /\ captured > 0 =>
        \E b \in {frameCh, got, latest} \ {NoBuf} : content[b] = captured

\* Both timelines are shortened by the same span: the pacer's clock is the
\* anchor the relay measures from plus what it told the relay to skip, and that
\* span is a whole number of the frames it reports as dropped.
SkewAccounted ==
    Anchored =>
        /\ start = anchor + dropped
        /\ ppc # "dropSpan" => dropped = frames * Interval

\* Video is never ahead of the shortened clock: only time that has passed since
\* the anchor is ever abandoned (the comment above elapsed in audio_relay.go
\* relies on it).
VideoNotAhead ==
    Anchored => (emitted - 1) * Interval <= now - anchor - dropped

\* Timeline is abandoned only while ffmpeg is more than MaxDebt frames late, and
\* what is left of the backlog is at least one frame.
DropOnlyOverloaded ==
    [][dropped' # dropped =>
         /\ now - start >= (emitted + MaxDebt) * Interval
         /\ now - start' >= emitted * Interval]_<<dropped, start>>

\* Close releases every goroutine, whatever it was blocked in, once the capture
\* backend's Close returns.
CloseEndsGoroutines == cpc # "idle" ~> AllDone

\* What makes that so: no goroutine is left in a wait nobody will end.  The
\* reader leaves its error behind or finds the pacer gone, so a pacer without a
\* reader always has something to receive; a pacer that ends has closed the pipe
\* ffmpeg reads; and once Close has returned no read and no write can block.
NobodyStranded ==
    /\ rpc \in {"close", "done"} => srcErrCh \/ ppc = "done"
    /\ ppc = "done" => pipe # "open"
    /\ cpc = "done" => /\ rpc = "read" => src # "open"
                       /\ ppc \in {"firstWrite", "write"} => pipe # "open"

\* A capture that fails is seen by ffmpeg as the end of its input as long as it
\* keeps reading what the pacer writes, even while frameCh or the ticker is
\* ready again and again.
SourceFailureReachesFfmpeg ==
    []<>(ppc \notin {"firstWrite", "write"}) =>
        (src = "failed" ~> pipe # "open")

\* Frames ffmpeg has got: emitted counts the first one only once it is anchored.
Delivered == IF ppc \in {"ticker", "start", "mark"} THEN 1 ELSE emitted

\* The video track: its length in clock units, a frame ahead at most.
VideoTrack == INSTANCE PacedTrack WITH
    UnitsPerTick <- 1,
    Lead         <- Interval,
    elapsed      <- IF Anchored THEN now - anchor ELSE 0,
    abandoned    <- dropped,
    length       <- Delivered * Interval

\* The pacer keeps the video track's promise to the audio track.
KeepsTrack == VideoTrack!Track

\* The skew as AudioRelay takes it to move.  The pacer moves start with every span
\* it abandons; what it was at pts 0 is the anchor then.
AudioSide == INSTANCE TimelineSkew WITH
    vpc    <- IF Anchored THEN "run"
              ELSE IF ppc = "mark" THEN "mark"
              ELSE IF ppc \in {"ticker", "start"} THEN "start" ELSE "first",
    vstart <- IF Anchored THEN anchor ELSE start

\* The pacer moves the skew in no way but the one the relay is built for.
DrivesSkew == AudioSide!Skew

=============================================================================
