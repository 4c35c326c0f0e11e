----------------------------- MODULE PacedTrack -----------------------------
(***************************************************************************)
(* What each of the two ffmpeg inputs promises the other (the comment on   *)
(* timelineSkew in internal/pipeline/frame_pacer.go): ffmpeg derives pts   *)
(* from counts, so a track's length is its time line.  A track may be      *)
(* short of the clock for a while, but                                     *)
(*                                                                         *)
(*   - it only grows, and nothing already handed to ffmpeg is taken back;  *)
(*   - it only grows up to the real time since pts 0, less the span the    *)
(*     pacer abandoned, plus a lead that never accumulates;                *)
(*   - an abandoned span stays abandoned.                                  *)
(*                                                                         *)
(* FramePacer and AudioRelay implement it from one anchor, with leads of a *)
(* frame, and of the trim dead band and a buffer.                          *)
(***************************************************************************)
EXTENDS Integers

CONSTANTS
    UnitsPerTick,   \* length of track per unit of time
    Lead            \* how far ahead of the clock the track may get

VARIABLES
    elapsed,    \* real time since pts 0
    abandoned,  \* span of it that will never be emitted
    length      \* length of the track committed to ffmpeg

trackVars == <<elapsed, abandoned, length>>

\* Length the track should have.
Target(time) == IF time <= 0 THEN 0 ELSE time * UnitsPerTick

TrackInit == elapsed = 0 /\ abandoned = 0 /\ length = 0

\* The clocks move; a track that starts late finds both moved already.
Pass ==
    /\ elapsed' >= elapsed /\ abandoned' >= abandoned
    /\ UNCHANGED length

Emit ==
    /\ length' > length
    /\ length' <= Target(elapsed - abandoned) + Lead
    /\ UNCHANGED <<elapsed, abandoned>>

Track == TrackInit /\ [][Pass \/ Emit]_trackVars
=============================================================================
