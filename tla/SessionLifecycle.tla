-------------------------- MODULE SessionLifecycle --------------------------
(***************************************************************************)
(* internal/pipeline/prepare.go and session.go: building a pipeline,       *)
(* launching ffmpeg on it and taking it all down again.                    *)
(*                                                                         *)
(*   starter    runs Prepare and Launch, unwinding what it built when a    *)
(*              step fails;                                                *)
(*   ffmpeg     and the goroutine of os/exec that copies its stdin;        *)
(*   waiter     delivers ffmpeg's exit status and closes the session;      *)
(*   callers    of Session.Close, and the finalizer;                       *)
(*   workers    the goroutines of FramePacer and AudioRelay, reduced to    *)
(*              what ends them.                                            *)
(*                                                                         *)
(* Timeouts are abstracted: one may always expire.                         *)
(* An operator X_Fault next to X is X with a plausible mistake in it.      *)
(***************************************************************************)
EXTENDS Naturals, FiniteSets

CONSTANT Callers    \* goroutines of the program that may call Close

Waiter    == "waiter"
Finalizer == "finalizer"
Starter   == "starter"
Closers   == Callers \cup {Waiter, Finalizer, Starter}

ASSUME CallersAssumption ==
    /\ IsFiniteSet(Callers)
    /\ Callers \cap {Waiter, Finalizer, Starter} = {}

VARIABLES
    spc,        \* starter's program counter
    input,      \* Prepared.videoInput: "none", "stream" or "pacer"
    backend,    \* capture backend: "none", "open", "failed" or "closed"
    firstFrame, \* it has delivered a frame
    pipe,       \* the pacer's io.Pipe: "none", "open" or "closed"
    reader,     \* pacer's reader goroutine: "none", "run" or "done"
    pacer,      \* pacer goroutine
    audio,      \* audioSrc: "none", "capture" or "silence"
    audioOpen,  \* audioSrc has not ended
    producer,   \* audioPump's producer goroutine
    pumpClosed, \* audioPump.closed
    listener,   \* the relay's listener is open
    relay,      \* relay goroutine: "none", "accept", "run" or "done"
    dir,        \* what Cleanup removes: "none", "present", "removed", or
                \* "left" behind by a Cleanup that failed
    proc,       \* ffmpeg: "none", "running", "killed", "dead" or "reaped"
    copy,       \* stdin copy of os/exec: "none", "read", "write" or "done"
    wpc,        \* waiter's program counter
    exit,       \* Session.done: "none", "sent" or "closed"
    held,       \* the program still refers to the session
    finalizer,  \* a finalizer is set on it
    call,       \* call[c]: "idle", "in" Close, or "returned" from it
    upc,        \* program counter of the unwind: the body of closeOnce
    cleanup,    \* the unwind runs Cleanup: Close rather than Abort
    vpc         \* closeBounded's goroutine

prepVars   == <<spc, input>>
videoVars  == <<backend, firstFrame, pipe, reader, pacer>>
audioVars  == <<audio, audioOpen, producer, pumpClosed, listener, relay>>
ffmpegVars == <<proc, copy>>
waitVars   == <<wpc, exit>>
ownVars    == <<held, finalizer>>
unwindVars == <<upc, cleanup>>
vars == <<prepVars, videoVars, audioVars, dir, ffmpegVars, waitVars, ownVars,
          call, unwindVars, vpc>>

Init ==
    /\ spc = "open" /\ input = "none"
    /\ backend = "none" /\ firstFrame = FALSE
    /\ pipe = "none" /\ reader = "none" /\ pacer = "none"
    /\ audio \in {"none", "capture", "silence"} /\ audioOpen = FALSE
    /\ producer = "none" /\ pumpClosed = FALSE
    /\ listener = FALSE /\ relay = "none"
    /\ dir = "none"
    /\ proc = "none" /\ copy = "none"
    /\ wpc = "none" /\ exit = "none"
    /\ held = TRUE /\ finalizer = FALSE
    /\ call = [c \in Closers |-> "idle"]
    /\ upc = "idle" /\ cleanup = FALSE
    /\ vpc = "none"

-----------------------------------------------------------------------------
(* Prepare                                                                 *)

\* p.Abort: abortOnce, entered here directly or from Close.
BeginAbort == upc' = "listener" /\ cleanup' = FALSE

\* The capture backend opens, or Prepare returns its error.
PrepareOpen ==
    /\ spc = "open"
    /\ \/ /\ spc' = "pacer"
          /\ input' = "stream"
          /\ backend' = "open"
          /\ audioOpen' = (audio = "capture")
       \/ /\ spc' = "failed"
          /\ UNCHANGED <<input, backend, audioOpen>>
    /\ UNCHANGED <<firstFrame, pipe, reader, pacer, audio, producer, pumpClosed,
                   listener, relay, dir, ffmpegVars, waitVars, ownVars, call,
                   unwindVars, vpc>>

\* The stream stays Prepare's own to close.
PreparePacer_KeepStream ==
    /\ spc = "pacer"
    /\ \/ /\ spc' = IF audio = "none" THEN "prepared" ELSE "audio"
          /\ pipe' = "open" /\ reader' = "run" /\ pacer' = "run"
          /\ audioOpen' = (audio # "none")
          /\ UNCHANGED <<input, unwindVars>>
       \/ /\ spc' = "failed"
          /\ BeginAbort
          /\ UNCHANGED <<input, pipe, reader, pacer, audioOpen>>
    /\ UNCHANGED <<backend, firstFrame, audio, producer, pumpClosed, listener,
                   relay, dir, ffmpegVars, waitVars, ownVars, call, vpc>>

\* newFramePacer takes the stream over, or fails and leaves it to Abort.  The
\* silent audio source is created next.
PreparePacer ==
    /\ spc = "pacer"
    /\ \/ /\ spc' = IF audio = "none" THEN "prepared" ELSE "audio"
          /\ input' = "pacer"
          /\ pipe' = "open" /\ reader' = "run" /\ pacer' = "run"
          /\ audioOpen' = (audioOpen \/ audio = "silence")
          /\ UNCHANGED unwindVars
       \/ /\ spc' = "failed"
          /\ BeginAbort
          /\ UNCHANGED <<input, pipe, reader, pacer, audioOpen>>
    /\ UNCHANGED <<backend, firstFrame, audio, producer, pumpClosed, listener,
                   relay, dir, ffmpegVars, waitVars, ownVars, call, vpc>>

\* startAudioRelay: listen, then start the producer and the relay.
PrepareAudio ==
    /\ spc = "audio"
    /\ \/ /\ spc' = "prepared"
          /\ listener' = TRUE /\ producer' = "run" /\ relay' = "accept"
          /\ UNCHANGED unwindVars
       \/ /\ spc' = "failed"
          /\ BeginAbort
          /\ UNCHANGED <<listener, producer, relay>>
    /\ UNCHANGED <<input, videoVars, audio, audioOpen, pumpClosed, dir,
                   ffmpegVars, waitVars, ownVars, call, vpc>>

-----------------------------------------------------------------------------
(* Launch                                                                  *)

\* hls.Start could not make its directory: it aborts instead of launching.
AbortPrepared ==
    /\ spc = "prepared"
    /\ spc' = "failed"
    /\ BeginAbort
    /\ UNCHANGED <<input, videoVars, audioVars, dir, ffmpegVars, waitVars,
                   ownVars, call, vpc>>

\* StdoutPipe or cmd.Start fails: Launch calls Close and returns the error.
LaunchFail ==
    /\ spc = "prepared"
    /\ spc' = "failed"
    /\ call' = [call EXCEPT ![Starter] = "in"]
    /\ upc' = "kill" /\ cleanup' = TRUE
    /\ dir' \in {"none", "present"}
    /\ UNCHANGED <<input, videoVars, audioVars, ffmpegVars, waitVars, ownVars,
                   vpc>>

\* cmd.Start starts ffmpeg and the stdin copy; the finalizer is set and the
\* waiter started.  Only an HLS session has something to clean up.
Launch ==
    /\ spc = "prepared"
    /\ spc' = "launched"
    /\ proc' = "running" /\ copy' = "read"
    /\ finalizer' = TRUE
    /\ wpc' = "wait"
    /\ dir' \in {"none", "present"}
    /\ UNCHANGED <<input, videoVars, audioVars, exit, held, call, unwindVars, vpc>>

Start == PrepareOpen \/ PreparePacer \/ PrepareAudio
         \/ AbortPrepared \/ LaunchFail \/ Launch

-----------------------------------------------------------------------------
(* The capture and the workers                                             *)

BackendFrame ==
    /\ backend = "open" /\ reader = "run" /\ ~firstFrame
    /\ firstFrame' = TRUE
    /\ UNCHANGED <<prepVars, backend, pipe, reader, pacer, audioVars, dir,
                   ffmpegVars, waitVars, ownVars, call, unwindVars, vpc>>

\* The backend ends on its own, its audio with it.
BackendFail ==
    /\ backend = "open"
    /\ backend' = "failed"
    /\ audioOpen' = (audioOpen /\ audio = "silence")
    /\ UNCHANGED <<prepVars, firstFrame, pipe, reader, pacer, audio, producer,
                   pumpClosed, listener, relay, dir, ffmpegVars, waitVars,
                   ownVars, call, unwindVars, vpc>>

\* The source's Read fails once the backend has ended.
ReaderEnd ==
    /\ reader = "run" /\ backend # "open"
    /\ reader' = "done"
    /\ UNCHANGED <<prepVars, backend, firstFrame, pipe, pacer, audioVars, dir,
                   ffmpegVars, waitVars, ownVars, call, unwindVars, vpc>>

\* The pacer ends on a closed pipe, or on the reader's error unless it is
\* parked in a Write; it closes the pipe either way.
PacerEnd ==
    /\ pacer = "run"
    /\ pipe = "closed" \/ reader = "done"
    /\ pacer' = "done"
    /\ pipe' = "closed"
    /\ UNCHANGED <<prepVars, backend, firstFrame, reader, audioVars, dir,
                   ffmpegVars, waitVars, ownVars, call, unwindVars, vpc>>

\* The producer ends with its source, or after a read once the pump is closed.
ProducerEnd ==
    /\ producer = "run"
    /\ ~audioOpen \/ pumpClosed
    /\ producer' = "done"
    /\ UNCHANGED <<prepVars, videoVars, audio, audioOpen, pumpClosed, listener,
                   relay, dir, ffmpegVars, waitVars, ownVars, call, unwindVars,
                   vpc>>

Exited == proc \in {"dead", "reaped"}

\* ffmpeg has drained a frame and opens its second input.
RelayAccept ==
    /\ relay = "accept" /\ listener
    /\ proc = "running" /\ firstFrame
    /\ relay' = "run"
    /\ UNCHANGED <<prepVars, videoVars, audio, audioOpen, producer, pumpClosed,
                   listener, dir, ffmpegVars, waitVars, ownVars, call,
                   unwindVars, vpc>>

\* Accept fails on a closed listener; a running relay ends when the pump is
\* closed or drained, or when a write finds ffmpeg gone.
RelayEnd ==
    /\ \/ relay = "accept" /\ ~listener
       \/ relay = "run" /\ (pumpClosed \/ producer = "done" \/ Exited)
    /\ relay' = "done"
    /\ listener' = FALSE
    /\ UNCHANGED <<prepVars, videoVars, audio, audioOpen, producer, pumpClosed,
                   dir, ffmpegVars, waitVars, ownVars, call, unwindVars, vpc>>

Workers == \/ BackendFrame \/ BackendFail \/ ReaderEnd \/ PacerEnd
           \/ ProducerEnd \/ RelayAccept \/ RelayEnd

-----------------------------------------------------------------------------
(* ffmpeg and os/exec                                                      *)

\* ffmpeg exits: on its own, or because it was killed.
ProcExit ==
    /\ proc \in {"running", "killed"}
    /\ proc' = "dead"
    /\ UNCHANGED <<prepVars, videoVars, audioVars, dir, copy, waitVars, ownVars,
                   call, unwindVars, vpc>>

\* framePacer.Read returns a frame: the pacer repeats one from the first on.
CopyRead ==
    /\ copy = "read"
    /\ firstFrame /\ pipe = "open" /\ pacer = "run"
    /\ copy' = "write"
    /\ UNCHANGED <<prepVars, videoVars, audioVars, dir, proc, waitVars, ownVars,
                   call, unwindVars, vpc>>

\* ffmpeg takes the frame.
CopyWrite ==
    /\ copy = "write" /\ ~Exited
    /\ copy' = "read"
    /\ UNCHANGED <<prepVars, videoVars, audioVars, dir, proc, waitVars, ownVars,
                   call, unwindVars, vpc>>

\* The copy ends on a closed pipe, or on a write to a process that is gone.
CopyEnd ==
    /\ \/ copy = "read" /\ pipe = "closed"
       \/ copy = "write" /\ Exited
    /\ copy' = "done"
    /\ UNCHANGED <<prepVars, videoVars, audioVars, dir, proc, waitVars, ownVars,
                   call, unwindVars, vpc>>

Ffmpeg == ProcExit \/ CopyRead \/ CopyWrite \/ CopyEnd

-----------------------------------------------------------------------------
(* The goroutine waiting on ffmpeg                                         *)

\* cmd.Wait reaps the process first ...
WaitReap ==
    /\ wpc = "wait" /\ proc = "dead"
    /\ proc' = "reaped"
    /\ wpc' = "join"
    /\ UNCHANGED <<prepVars, videoVars, audioVars, dir, copy, exit, ownVars, call,
                   unwindVars, vpc>>

\* ... and then waits for the stdin copy, without a limit; done <- its result.
WaitSend ==
    /\ wpc = "join" /\ copy = "done"
    /\ exit' = "sent"
    /\ wpc' = "closeDone"
    /\ UNCHANGED <<prepVars, videoVars, audioVars, dir, ffmpegVars, ownVars, call,
                   unwindVars, vpc>>

\* The session is left to the caller.
WaitCloseDone_NoClose ==
    /\ wpc = "closeDone"
    /\ exit' = "closed"
    /\ wpc' = "done"
    /\ UNCHANGED <<prepVars, videoVars, audioVars, dir, ffmpegVars, ownVars, call,
                   unwindVars, vpc>>

\* close(done); Session.Close is next.
WaitCloseDone ==
    /\ wpc = "closeDone"
    /\ exit' = "closed"
    /\ wpc' = "close"
    /\ UNCHANGED <<prepVars, videoVars, audioVars, dir, ffmpegVars, ownVars, call,
                   unwindVars, vpc>>

WaitDone ==
    /\ wpc = "close" /\ call[Waiter] = "returned"
    /\ wpc' = "done"
    /\ UNCHANGED <<prepVars, videoVars, audioVars, dir, ffmpegVars, exit, ownVars,
                   call, unwindVars, vpc>>

Wait == WaitReap \/ WaitSend \/ WaitCloseDone \/ WaitDone

-----------------------------------------------------------------------------
(* Session.Close                                                           *)

\* The program drops its last reference; nobody is inside Close for it.
Abandon ==
    /\ spc = "launched" /\ held
    /\ \A c \in Callers : call[c] # "in"
    /\ held' = FALSE
    /\ UNCHANGED <<prepVars, videoVars, audioVars, dir, ffmpegVars, waitVars,
                   finalizer, call, unwindVars, vpc>>

\* The waiter's closure refers to the session until it returns.
Unreachable == ~held /\ wpc = "done"

MayCall(c) ==
    \/ c \in Callers /\ spc = "launched" /\ held
    \/ c = Waiter /\ wpc = "close"
    \/ c = Finalizer /\ finalizer /\ Unreachable

\* closeOnce: the first call runs the unwind, every other one waits for it.
CloseEnter(c) ==
    /\ call[c] = "idle" /\ MayCall(c)
    /\ call' = [call EXCEPT ![c] = "in"]
    /\ IF upc = "idle"
       THEN upc' = "kill" /\ cleanup' = TRUE /\ finalizer' = FALSE
       ELSE UNCHANGED <<unwindVars, finalizer>>
    /\ UNCHANGED <<prepVars, videoVars, audioVars, dir, ffmpegVars, waitVars,
                   held, vpc>>

\* A flag instead of a sync.Once: a second call returns at once.
CloseReturn_Flag(c) ==
    /\ call[c] = "in"
    /\ call' = [call EXCEPT ![c] = "returned"]
    /\ UNCHANGED <<prepVars, videoVars, audioVars, dir, ffmpegVars, waitVars,
                   ownVars, unwindVars, vpc>>

CloseReturn(c) ==
    /\ call[c] = "in" /\ upc = "done"
    /\ call' = [call EXCEPT ![c] = "returned"]
    /\ UNCHANGED <<prepVars, videoVars, audioVars, dir, ffmpegVars, waitVars,
                   ownVars, unwindVars, vpc>>

\* Unwind what was built and leave ffmpeg to end with its input.
UnwindKill_Missing ==
    /\ upc = "kill"
    /\ upc' = "listener"
    /\ UNCHANGED <<prepVars, videoVars, audioVars, dir, ffmpegVars, waitVars,
                   ownVars, call, cleanup, vpc>>

\* Kill reports a process that was waited for, and has no effect on a dead one.
UnwindKill ==
    /\ upc = "kill"
    /\ proc' = IF proc = "running" THEN "killed" ELSE proc
    /\ upc' = "listener"
    /\ UNCHANGED <<prepVars, videoVars, audioVars, dir, copy, waitVars, ownVars,
                   call, cleanup, vpc>>

\* Prepared.Abort from here to UnwindAudio; a handle Prepare never had is skipped.
UnwindListener ==
    /\ upc = "listener"
    /\ listener' = FALSE
    /\ upc' = "pump"
    /\ UNCHANGED <<prepVars, videoVars, audio, audioOpen, producer, pumpClosed,
                   relay, dir, ffmpegVars, waitVars, ownVars, call, cleanup, vpc>>

UnwindPump ==
    /\ upc = "pump"
    /\ pumpClosed' = (producer # "none")
    /\ upc' = "video"
    /\ UNCHANGED <<prepVars, videoVars, audio, audioOpen, producer, listener,
                   relay, dir, ffmpegVars, waitVars, ownVars, call, cleanup, vpc>>

\* closeBounded starts the Close of the video input ...
UnwindVideo ==
    /\ upc = "video"
    /\ vpc' = "backend"
    /\ upc' = "videoWait"
    /\ UNCHANGED <<prepVars, videoVars, audioVars, dir, ffmpegVars, waitVars,
                   ownVars, call, cleanup>>

\* Wait for the Close however long it takes.
UnwindVideoWait_Unbounded ==
    /\ upc = "videoWait" /\ vpc = "done"
    /\ upc' = "audio"
    /\ UNCHANGED <<prepVars, videoVars, audioVars, dir, ffmpegVars, waitVars,
                   ownVars, call, cleanup, vpc>>

\* ... and waits for it or for videoCloseTimeout.
UnwindVideoWait ==
    /\ upc = "videoWait"
    /\ upc' = "audio"
    /\ UNCHANGED <<prepVars, videoVars, audioVars, dir, ffmpegVars, waitVars,
                   ownVars, call, cleanup, vpc>>

\* Only the silent source is Prepare's own.
UnwindAudio ==
    /\ upc = "audio"
    /\ audioOpen' = (audioOpen /\ audio # "silence")
    /\ upc' = IF cleanup THEN "cleanup" ELSE "done"
    /\ UNCHANGED <<prepVars, videoVars, audio, producer, pumpClosed, listener,
                   relay, dir, ffmpegVars, waitVars, ownVars, call, cleanup, vpc>>

\* Cleanup, last; it may fail, which only makes Close return its error.
UnwindCleanup ==
    /\ upc = "cleanup"
    /\ dir' \in IF dir = "present" THEN {"removed", "left"} ELSE {dir}
    /\ upc' = "done"
    /\ UNCHANGED <<prepVars, videoVars, audioVars, ffmpegVars, waitVars, ownVars,
                   call, cleanup, vpc>>

Unwind == \/ UnwindKill \/ UnwindListener \/ UnwindPump \/ UnwindVideo
          \/ UnwindVideoWait \/ UnwindAudio \/ UnwindCleanup

\* The backend's Close returns, having ended the stream and its audio.
VideoCloseBackend ==
    /\ vpc = "backend"
    /\ backend' = "closed"
    /\ audioOpen' = (audioOpen /\ audio = "silence")
    /\ vpc' = IF input = "pacer" THEN "pipe" ELSE "done"
    /\ UNCHANGED <<prepVars, firstFrame, pipe, reader, pacer, audio, producer,
                   pumpClosed, listener, relay, dir, ffmpegVars, waitVars,
                   ownVars, call, unwindVars>>

\* framePacer.Close goes on to its pipe.
VideoClosePipe ==
    /\ vpc = "pipe"
    /\ pipe' = "closed"
    /\ vpc' = "done"
    /\ UNCHANGED <<prepVars, backend, firstFrame, reader, pacer, audioVars, dir,
                   ffmpegVars, waitVars, ownVars, call, unwindVars>>

-----------------------------------------------------------------------------
\* Nothing of the session runs any more.
Quiet ==
    /\ reader # "run" /\ pacer # "run"
    /\ producer # "run" /\ relay \notin {"accept", "run"}
    /\ copy \in {"none", "done"} /\ proc \in {"none", "reaped"}
    /\ wpc \in {"none", "done"} /\ vpc \in {"none", "done"}
    /\ \A c \in Closers : call[c] # "in"

\* The only states that may not move: nothing was built, or nothing is left.
Terminated ==
    /\ spc = "failed" \/ spc = "launched"
    /\ Quiet /\ upc \in {"idle", "done"}
    /\ UNCHANGED vars

Next == \/ Start \/ Workers \/ Ffmpeg \/ Wait \/ Abandon \/ Unwind
        \/ VideoCloseBackend \/ VideoClosePipe \/ Terminated
        \/ \E c \in Closers : CloseEnter(c) \/ CloseReturn(c)

Spec == Init /\ [][Next]_vars

\* The scheduler runs what can run, timers expire, the collector runs a finalizer
\* it may run, and ffmpeg exits when killed or when both its inputs ended.  Not
\* assumed: that a caller calls Close, that the backend delivers a frame or that
\* its Close returns, that ffmpeg takes what is written to it (so a pacer or a
\* relay that is parked in a Write stays there).
PacerParked == firstFrame /\ pipe = "open"
RelayParked == relay = "run" /\ ~Exited
InputsEnded == copy = "done" /\ relay \in {"none", "done"}

Fairness ==
    /\ WF_vars(Unwind)
    /\ \A c \in Closers : WF_vars(CloseReturn(c))
    /\ WF_vars(CloseEnter(Waiter)) /\ WF_vars(CloseEnter(Finalizer))
    /\ WF_vars(Wait)
    /\ WF_vars((proc = "killed" \/ InputsEnded) /\ ProcExit)
    /\ WF_vars(CopyRead) /\ WF_vars(CopyEnd)
    /\ WF_vars(ReaderEnd) /\ WF_vars(~PacerParked /\ PacerEnd)
    /\ WF_vars(~audioOpen /\ ProducerEnd)
    /\ WF_vars(~RelayParked /\ RelayEnd)
    /\ WF_vars(VideoClosePipe)

FairSpec == Spec /\ Fairness

\* As above while ffmpeg takes every frame, so that the pacer is never parked
\* for good (FramePacer's SourceFailureReachesFfmpeg).
ReadingSpec == FairSpec /\ WF_vars(CopyWrite) /\ WF_vars(PacerEnd)

-----------------------------------------------------------------------------
(* Properties                                                              *)

States(s) == s \cup {"none", "run", "done"}

\* In particular the video input has exactly one owner at every point: it is
\* the pacer from the moment there is one, the stream before.
TypeOK ==
    /\ spc \in {"open", "pacer", "audio", "prepared", "failed", "launched"}
    /\ input \in {"none", "stream", "pacer"}
    /\ input = "pacer" <=> pacer # "none"
    /\ input = "none" <=> backend = "none"
    /\ backend \in {"none", "open", "failed", "closed"}
    /\ firstFrame \in BOOLEAN /\ pipe \in {"none", "open", "closed"}
    /\ reader \in States({}) /\ pacer \in States({})
    /\ audio \in {"none", "capture", "silence"} /\ audioOpen \in BOOLEAN
    /\ producer \in States({}) /\ relay \in States({"accept"})
    /\ pumpClosed \in BOOLEAN /\ listener \in BOOLEAN
    /\ dir \in {"none", "present", "removed", "left"}
    /\ proc \in {"none", "running", "killed", "dead", "reaped"}
    /\ copy \in {"none", "read", "write", "done"}
    /\ wpc \in {"none", "wait", "join", "closeDone", "close", "done"}
    /\ exit \in {"none", "sent", "closed"}
    /\ held \in BOOLEAN /\ finalizer \in BOOLEAN
    /\ call \in [Closers -> {"idle", "in", "returned"}]
    /\ upc \in {"idle", "kill", "listener", "pump", "video", "videoWait",
                "audio", "cleanup", "done"}
    /\ cleanup \in BOOLEAN
    /\ vpc \in {"none", "backend", "pipe", "done"}

\* Whoever returns from Close, first or not, finds that every step of the unwind
\* has been taken: ffmpeg is told to die, nothing is left to connect to, the Close
\* of the video input has been started, and Cleanup has run on the directory.
\* Whether the removal succeeded is another matter (HlsOutput).
ReturnedMeansUnwound ==
    (\E c \in Closers : call[c] = "returned") =>
        /\ proc # "running" /\ ~listener
        /\ producer # "none" => pumpClosed
        /\ dir # "present" /\ ~finalizer
        /\ vpc # "none"

\* Nobody is left in a wait that nobody will end.  Whoever is in Close waits for an
\* unwind somebody has begun; the waiter waits for a process there is, and reaps
\* it once; and when the unwind and the Close of the video input are over, every
\* goroutine of the session finds what it is blocked on closed, ended or gone.
NobodyStranded ==
    /\ (\E c \in Closers : call[c] = "in") => upc # "idle"
    /\ wpc = "wait" <=> proc \in {"running", "killed", "dead"}
    /\ upc = "done" /\ vpc = "done" =>
           /\ reader = "run" => backend # "open"
           /\ pacer = "run" => pipe = "closed"
           /\ producer = "run" \/ relay = "run" => pumpClosed
           /\ relay = "accept" => ~listener
           /\ copy = "read" => pipe = "closed"
           /\ copy # "none" => proc # "running"

\* Close returns to every caller, even if the capture backend's never does.
CloseReturns == \A c \in Closers : call[c] = "in" ~> call[c] = "returned"

\* Once a session, or a Prepare that failed halfway, is being unwound, every
\* goroutine and ffmpeg itself end, provided the backend's Close returns.
UnwindEndsAll == []<>(vpc # "backend") => (upc # "idle" ~> Quiet)

\* A session whose ffmpeg exits closes itself, from the first frame on.
ExitReclaimsWithVideo == Exited /\ firstFrame ~> upc = "done"

\* session.go, in Launch: resources are reclaimed even if the caller forgets to
\* Close after ffmpeg exits.
ExitReclaims == Exited ~> upc = "done"

=============================================================================
