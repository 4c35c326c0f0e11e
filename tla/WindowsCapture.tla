--------------------------- MODULE WindowsCapture ---------------------------
(***************************************************************************)
(* capture/capture_windows.go and capture_windows.cpp: the native session  *)
(* of the Windows backend.                                                 *)
(*                                                                         *)
(* The frame callback runs on the worker of a free-threaded frame pool,    *)
(* one at a time, and audio on a thread of its own.  Stopping waits for    *)
(* the thread, and for a callback if one is counted just then, by an event *)
(* which that callback has reset or is about to reset.  A callback that    *)
(* touches the session after it was freed reaches "undefined", where the   *)
(* model follows it no further.                                            *)
(* An operator X_Fault next to X is X with a plausible mistake in it.      *)
(***************************************************************************)
EXTENDS CallbackQueue

VARIABLES
    stopping,   \* shuttingDown and not isRunning
    revoked,    \* the FrameArrived handler is removed
    inFlight,   \* frameCallbacksInFlight
    drained,    \* frameCallbacksDrained is signalled
    thread      \* audio thread: "none", "wait" for the audio event, "packets", or "done"

winVars == <<stopping, revoked, inFlight, drained, thread>>

WinInit == /\ stopping = FALSE /\ revoked = FALSE
           /\ inFlight = 0 /\ drained = TRUE /\ thread = "none"

-----------------------------------------------------------------------------
(* open                                                                    *)

\* InitWinCapture: a failure with audio is retried without it.
WinInitNative ==
    /\ \/ OpenGo("init", "start") /\ native' = "built"
       \/ OpenGo("init", IF audio THEN "retry" ELSE "unregister") /\ UNCHANGED native
    /\ UNCHANGED <<platform, audio, registered, ready, prodVars, queueVars, loopVars,
                   pipe, closeVars, winVars>>

\* audioQ.Close: tell its loop to end ...
RetryCloseQueue ==
    /\ OpenGo("retry", "retryJoin")
    /\ CloseQueue("audio")
    /\ UNCHANGED <<platform, audio, registered, ready, native, prodVars, queue,
                   loopVars, pipe, closeVars, winVars>>

\* Forget the audio writer without waiting for it or closing its pipe.
RetryVideoOnly_Leak ==
    /\ OpenGo("retryJoin", "init")
    /\ audio' = FALSE
    /\ UNCHANGED <<platform, registered, ready, native, prodVars, queueVars, loopVars,
                   pipe, closeVars, winVars>>

\* ... wait for it, and go on with the video pipe only.
RetryVideoOnly ==
    /\ OpenGo("retryJoin", "init") /\ loop["audio"] = "done"
    /\ pipe' = [pipe EXCEPT !["audio"] = "closed"]
    /\ audio' = FALSE
    /\ UNCHANGED <<platform, registered, ready, native, prodVars, queueVars, loopVars,
                   closeVars, winVars>>

\* StartWinCapture: frames may arrive from here on; the audio client or its
\* thread may fail to start, which leaves the audio pipe silent.
WinStart ==
    /\ OpenGo("start", "wait")
    /\ native' = "started"
    /\ thread' \in IF audio THEN {"wait", "none"} ELSE {"none"}
    /\ UNCHANGED <<platform, audio, registered, ready, prodVars, queueVars, loopVars,
                   pipe, closeVars, stopping, revoked, inFlight, drained>>

WinOpen == WinInitNative \/ RetryCloseQueue \/ RetryVideoOnly \/ WinStart

-----------------------------------------------------------------------------
(* The frame callback and the audio thread                                 *)

Alive == native # "freed"

\* The frame pool raises FrameArrived while a handler is registered.
FrameArrived ==
    /\ native = "started" /\ ~revoked /\ made["video"] < MaxChunks
    /\ CallbackGo("video", "idle", "arrived")
    /\ UNCHANGED <<openVars, native, hand, made, queueVars, loopVars, pipe,
                   closeVars, winVars>>

\* The test of shuttingDown before the callback is counted.
FrameTest ==
    /\ Alive /\ CallbackGo("video", "arrived", IF stopping THEN "idle" ELSE "count")
    /\ UNCHANGED <<openVars, native, hand, made, queueVars, loopVars, pipe,
                   closeVars, winVars>>

\* Only reset the event.
FrameCount_Missing ==
    /\ Alive /\ CallbackGo("video", "count", "reset")
    /\ UNCHANGED <<openVars, native, hand, made, queueVars, loopVars, pipe,
                   closeVars, winVars>>

\* FrameCallbackGuard: count the callback ...
FrameCount ==
    /\ Alive /\ CallbackGo("video", "count", "reset")
    /\ inFlight' = inFlight + 1
    /\ UNCHANGED <<openVars, native, hand, made, queueVars, loopVars, pipe,
                   closeVars, stopping, revoked, drained, thread>>

\* ... and then reset the event Stop waits for, which is signalled up to here: a
\* Stop that finds the callback counted in between does not wait for it.
FrameReset ==
    /\ Alive /\ CallbackGo("video", "reset", "retest")
    /\ drained' = FALSE
    /\ UNCHANGED <<openVars, native, hand, made, queueVars, loopVars, pipe,
                   closeVars, stopping, revoked, inFlight, thread>>

\* The test of shuttingDown after it, then the frame is copied and handed to Go,
\* unless there is none or it cannot be copied.
FrameRetest ==
    /\ Alive
    /\ \/ /\ ~stopping /\ CallbackGo("video", "retest", "lookup")
          /\ made' = [made EXCEPT !["video"] = @ + 1]
          /\ hand' = [hand EXCEPT !["video"] = made'["video"]]
       \/ /\ CallbackGo("video", "retest", "release")
          /\ UNCHANGED <<made, hand>>
    /\ UNCHANGED <<openVars, native, queueVars, loopVars, pipe, closeVars, winVars>>

\* ~FrameCallbackGuard: uncount it ...
FrameRelease ==
    /\ Alive /\ CallbackGo("video", "release", IF inFlight = 1 THEN "signal" ELSE "idle")
    /\ inFlight' = inFlight - 1
    /\ UNCHANGED <<openVars, native, hand, made, queueVars, loopVars, pipe,
                   closeVars, stopping, revoked, drained, thread>>

\* ... and signal the event.
FrameSignal ==
    /\ Alive /\ CallbackGo("video", "signal", "idle")
    /\ drained' = TRUE
    /\ UNCHANGED <<openVars, native, hand, made, queueVars, loopVars, pipe,
                   closeVars, stopping, revoked, inFlight, thread>>

\* Any of these accesses to a session that is freed.  Stop does not wait for a
\* callback that has yet to be counted, or to reset the event, when Stop looks; nor
\* for what a callback does after it is uncounted.
FrameTouchesFreed ==
    /\ ~Alive
    /\ \E from \in {"arrived", "count", "reset", "retest", "release", "signal"} :
           CallbackGo("video", from, "undefined")
    /\ UNCHANGED <<openVars, native, hand, made, queueVars, loopVars, pipe,
                   closeVars, winVars>>

FrameGuard == \/ FrameTest \/ FrameCount \/ FrameReset \/ FrameRetest
              \/ FrameRelease \/ FrameSignal \/ FrameTouchesFreed

\* AudioCaptureThreadProc: the event is signalled and isRunning seen to be true.
AudioWake ==
    /\ thread = "wait" /\ ~stopping
    /\ thread' = "packets"
    /\ UNCHANGED <<sharedVars, stopping, revoked, inFlight, drained>>

\* The packets that are there are delivered, without a look at isRunning ...
AudioPacket ==
    /\ thread = "packets" /\ made["audio"] < MaxChunks
    /\ CallbackGo("audio", "idle", "lookup")
    /\ made' = [made EXCEPT !["audio"] = @ + 1]
    /\ hand' = [hand EXCEPT !["audio"] = made'["audio"]]
    /\ UNCHANGED <<openVars, native, queueVars, loopVars, pipe, closeVars, winVars>>

\* ... until there is none, or a call of the audio client fails.
AudioDrained ==
    /\ thread = "packets" /\ ppc["audio"] = "idle"
    /\ thread' = "wait"
    /\ UNCHANGED <<sharedVars, stopping, revoked, inFlight, drained>>

\* isRunning is seen to be false, or a call outside the loop of packets fails.
AudioEnd ==
    /\ thread = "wait"
    /\ thread' = "done"
    /\ UNCHANGED <<sharedVars, stopping, revoked, inFlight, drained>>

\* The thread is there, and may use the session.
AudioRuns == thread \in {"wait", "packets"}
Audio     == AudioWake \/ AudioPacket \/ AudioDrained \/ AudioEnd

-----------------------------------------------------------------------------
(* Close                                                                   *)

\* StopWinCapture: isRunning and shuttingDown, which no thread reads both of.
WinStop ==
    /\ platform = "windows" /\ UnwindGo("stop", "revoke")
    /\ stopping' = TRUE
    /\ UNCHANGED <<openVars, native, prodVars, queueVars, loopVars, pipe, call,
                   revoked, inFlight, drained, thread>>

WinRevoke ==
    /\ UnwindGo("revoke", "drain")
    /\ revoked' = TRUE
    /\ UNCHANGED <<openVars, native, prodVars, queueVars, loopVars, pipe, call,
                   stopping, inFlight, drained, thread>>

\* Free the session while a callback may be counted.
WinDrain_NoWait ==
    /\ UnwindGo("drain", "join")
    /\ UNCHANGED <<openVars, native, prodVars, queueVars, loopVars, pipe, call, winVars>>

\* Wait for the event only if a callback is counted now.
WinDrain ==
    /\ \/ UnwindGo("drain", IF inFlight > 0 THEN "drainWait" ELSE "join")
       \/ UnwindGo("drainWait", "join") /\ drained
    /\ UNCHANGED <<openVars, native, prodVars, queueVars, loopVars, pipe, call, winVars>>

\* The capture session is closed, the audio client stopped and its thread waited for.
WinJoin ==
    /\ UnwindGo("join", "free") /\ ~AudioRuns
    /\ UNCHANGED <<openVars, native, prodVars, queueVars, loopVars, pipe, call, winVars>>

\* FreeWinCapture; the read ends are closed after it.
WinFree ==
    /\ platform = "windows" /\ UnwindGo("free", "done")
    /\ native' = "freed"
    /\ UNCHANGED <<openVars, prodVars, queueVars, loopVars, pipe, call, winVars>>

WinUnwind == WinStop \/ WinRevoke \/ WinDrain \/ WinJoin \/ WinFree

=============================================================================
