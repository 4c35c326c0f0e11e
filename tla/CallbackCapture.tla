-------------------------- MODULE CallbackCapture --------------------------
(***************************************************************************)
(* A capture backend with callbacks: the queues of CallbackQueue and the   *)
(* native session of the platform the program is built for.                *)
(***************************************************************************)
EXTENDS WindowsCapture, DarwinCapture

vars == <<sharedVars, winVars, macStream>>

Init == QueueInit /\ WinInit /\ MacInit

IsWindows == platform = "windows" /\ UNCHANGED macStream
IsDarwin  == platform = "darwin" /\ UNCHANGED winVars
Either    == UNCHANGED <<winVars, macStream>>

\* Every step of open; of the callback of k, once it is delivered; of Close.
Open == \/ QueueOpen /\ Either
        \/ IsWindows /\ WinOpen
        \/ IsDarwin /\ (MacInitNative \/ MacStart)

Callback(k) == \/ Deliver(k) /\ Either
               \/ k = "video" /\ IsWindows /\ FrameGuard

Unwind == \/ QueueUnwind /\ Either
          \/ IsWindows /\ WinUnwind
          \/ IsDarwin /\ (MacStop \/ MacFree)

\* What the native side may do or not.
Native == \/ IsWindows /\ (FrameArrived \/ Audio)
          \/ IsDarwin /\ (MacStopped \/ \E k \in Kinds : MacSample(k))

-----------------------------------------------------------------------------
\* Everything the stream had is given back.
Released ==
    /\ ~registered /\ native \in {"none", "freed"}
    /\ \A k \in Kinds : loop[k] \in {"none", "done"} /\ pipe[k] # "open"

\* The only states that may not move: the stream is gone, or could not be opened.
Terminated ==
    /\ opc = "failed" \/ \A c \in Callers : call[c] = "returned"
    /\ \A k \in Kinds : ppc[k] \in {"idle", "undefined"}
    /\ ~AudioRuns
    /\ UNCHANGED vars

Next == \/ Open \/ Unwind \/ Native \/ Terminated
        \/ \E k \in Kinds : Callback(k)
        \/ \E k \in Kinds : (Loop(k) \/ Consume(k)) /\ Either
        \/ CloseAudio /\ Either
        \/ \E c \in Closers : (CloseEnter(c) \/ CloseReturn(c)) /\ Either

Spec == Init /\ [][Next]_vars

\* Every thread runs, and the timer of the first frame expires.  Not assumed:
\* that a frame arrives, that anybody reads the stream or closes it, or that an
\* SCStream ever stops.  A select that can stop does so some time even if its
\* queue is filled again and again, and the audio thread runs out of packets once
\* Stop is under way, which stops the audio client before it waits.
Fairness ==
    /\ WF_vars(Open) /\ WF_vars(Unwind)
    /\ \A k \in Kinds : /\ WF_vars(Callback(k))
                        /\ WF_vars(Loop(k) /\ Either) /\ SF_vars(LoopStop(k) /\ Either)
    /\ WF_vars(stopping /\ IsWindows /\ (AudioDrained \/ AudioEnd))
    /\ \A c \in Closers : WF_vars(CloseReturn(c) /\ Either)

FairSpec == Spec /\ Fairness

-----------------------------------------------------------------------------
(* Properties                                                              *)

Copying == {"lookup", "size", "check", "offer", "drop", "retry"}

\* In particular a chunk is in a callback's hand exactly while it is offered, the
\* counter of Windows frame callbacks is one exactly from a callback's increment to
\* its decrement, and macOS delivers one sample at a time.
TypeOK ==
    /\ platform \in {"windows", "darwin"}
    /\ opc \in {"register", "init", "retry", "retryJoin", "unregister", "failVideo",
                "failJoinVideo", "failAudio", "failJoinAudio", "failPipes", "start",
                "wait", "closing", "ok", "failed"}
    /\ audio \in BOOLEAN /\ registered \in BOOLEAN /\ ready \in BOOLEAN
    /\ native \in {"none", "built", "started", "freed"}
    /\ stopping \in BOOLEAN /\ revoked \in BOOLEAN /\ drained \in BOOLEAN
    /\ inFlight \in 0..1 /\ thread \in {"none", "wait", "packets", "done"}
    /\ macStream \in {"off", "on", "stopping"}
    /\ ppc["video"] \in Copying \cup {"idle", "arrived", "count", "reset",
                                      "retest", "release", "signal", "undefined"}
    /\ ppc["audio"] \in (Copying \ {"size"}) \cup {"idle"}
    /\ platform = "windows" /\ ppc["video"] # "undefined" =>
           (ppc["video"] \in Copying \cup {"reset", "retest", "release"} <=> inFlight = 1)
    /\ platform = "darwin" => ppc["video"] = "idle" \/ ppc["audio"] = "idle"
    /\ hand \in [Kinds -> Nat] /\ made \in [Kinds -> Nat]
    /\ \A k \in Kinds : hand[k] # 0 <=> ppc[k] \in Copying
    /\ queue \in [Kinds -> Seq(Nat \ {0})]
    /\ \A k \in Kinds : Len(queue[k]) <= QueueSize
    /\ done \in [Kinds -> BOOLEAN]
    /\ loop \in [Kinds -> {"none", "select", "write", "done"}]
    /\ taken \in [Kinds -> Nat] /\ \A k \in Kinds : taken[k] # 0 <=> loop[k] = "write"
    /\ pipe \in [Kinds -> {"none", "open", "closed"}] /\ seen \in [Kinds -> Nat]
    /\ upc \in {"idle", "unregister", "pipes", "closeVideo", "joinVideo",
                "closeAudio", "joinAudio", "stop", "revoke", "drain", "drainWait",
                "join", "free", "done"}
    /\ call \in [Closers -> {"idle", "in", "returned"}]

\* A stream of chunks on its way, oldest first.
Present(x) == IF x = 0 THEN <<>> ELSE <<x>>
OnTheWay(k) == <<seen[k]>> \o Present(taken[k]) \o queue[k] \o Present(hand[k])

\* The consumer gets chunks in the order they were captured and none twice,
\* whatever the queue drops while its loop takes from it.
OrderKept ==
    \A k \in Kinds : LET s == OnTheWay(k)
                     IN  \A i \in 1..(Len(s) - 1) : s[i] < s[i + 1]

\* From the copy of a frame to the end of its delivery to Go the session is there,
\* and so it is while the audio thread runs and delivers, although Stop looks at
\* the counter once and neither look nor event is atomic with it.  It is not said of
\* all a callback does while it is counted: one that resets the event too late is
\* not waited for, finds shuttingDown set and leaves, perhaps on a freed session
\* (FrameTouchesFreed).
DeliveryOnLiveSession ==
    platform = "windows" =>
        /\ \A k \in Kinds : ppc[k] \in Copying => Alive
        /\ AudioRuns => Alive

\* Whoever returns from Close, and a failed open, leave nothing behind: no
\* registration, native session, goroutine or open pipe.
NothingLeftBehind ==
    opc = "failed" \/ (\E c \in Closers : call[c] = "returned") => Released

\* Close returns to every caller even if nobody reads the stream.
CloseReturns == \A c \in Closers : call[c] = "in" ~> call[c] = "returned"

\* Who waits for the loop of k to end: the opener or Close, in
\* asyncPipeWriter.Close.
Joins(k) == IF k = "video" THEN opc = "failJoinVideo" \/ upc = "joinVideo"
            ELSE opc \in {"retryJoin", "failJoinAudio"} \/ upc = "joinAudio"

\* What makes both so: nobody is in a wait that will not end.  The last send of
\* Enqueue always has room; a loop that is waited for was told to end and is not
\* blocked in a write; and StopWinCapture waits for its event only while a
\* callback is still to signal it, for its thread only once that was told to end.
NobodyStranded ==
    /\ \A k \in Kinds :
           /\ ppc[k] = "retry" => Len(queue[k]) < QueueSize
           /\ Joins(k) => /\ done[k] /\ loop[k] # "none"
                          /\ loop[k] = "write" => pipe[k] = "closed"
    /\ upc = "drainWait" /\ ~drained =>
           ppc["video"] \in Copying \cup {"retest", "release", "signal"}
    /\ upc = "join" => stopping
    /\ \A c \in Closers : call[c] = "in" => upc # "idle"

\* A callback gets through Enqueue even if nobody reads the stream: it never
\* holds up the thread, on macOS that of both kinds, that captures.
CallbackReturns == \A k \in Kinds : ppc[k] \in Copying ~> ppc[k] \notin Copying

=============================================================================
