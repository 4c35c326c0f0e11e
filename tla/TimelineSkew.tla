---------------------------- MODULE TimelineSkew ----------------------------
(***************************************************************************)
(* timelineSkew in internal/pipeline/frame_pacer.go, as the audio relay    *)
(* sees it: the instant of video pts 0, stored once and after it was read  *)
(* from the clock, and the span the pacer has abandoned since.  It only    *)
(* grows, and always leaves some of the time that has passed.              *)
(*                                                                         *)
(* AudioRelay is built on it, and FramePacer is shown to implement it.     *)
(***************************************************************************)
EXTENDS Integers

VARIABLES
    now,        \* real time
    vpc,        \* pacer, as far as the skew shows it
    vstart,     \* pacer: start, as it was before it was stored in anchor
    anchor,     \* timelineSkew.anchor, 0 until the pacer stores it
    dropped     \* timelineSkew.dropped

videoVars == <<vpc, vstart, anchor, dropped>>
skewVars  == <<now, videoVars>>

SkewInit ==
    /\ now = 1
    /\ vpc = "first" /\ vstart = 0 /\ anchor = 0 /\ dropped = 0

TimePasses ==
    /\ now' = now + 1
    /\ UNCHANGED videoVars

\* ffmpeg drains the first frame, which is when the pacer's Write returns.
VideoFirstFrame ==
    /\ vpc = "first"
    /\ vpc' = "start"
    /\ UNCHANGED <<now, vstart, anchor, dropped>>

\* start := time.Now()
VideoStart ==
    /\ vpc = "start"
    /\ vstart' = now
    /\ vpc' = "mark"
    /\ UNCHANGED <<now, anchor, dropped>>

\* markStart
VideoMark ==
    /\ vpc = "mark"
    /\ anchor' = vstart
    /\ vpc' = "run"
    /\ UNCHANGED <<now, vstart, dropped>>

\* drop: the pacer gives up a span, and one frame stays due.
VideoDrop ==
    /\ vpc = "run"
    /\ \E d \in 1..(now - anchor - dropped - 1) : dropped' = dropped + d
    /\ UNCHANGED <<now, vpc, vstart, anchor>>

SkewNext == TimePasses \/ VideoFirstFrame \/ VideoStart \/ VideoMark \/ VideoDrop

Skew == SkewInit /\ [][SkewNext]_skewVars
=============================================================================
