--------------------------- MODULE PipeWireStream ---------------------------
(***************************************************************************)
(* internal/pipewire/pipewire.go: one PipeWire stream, from NewStream or   *)
(* NewAudioStream to Close.                                                *)
(*                                                                         *)
(*   opener   NewStream, Start and, for video, WaitFrameRate;              *)
(*   loop     the thread in pw_main_loop_run and the callbacks it makes;   *)
(*   writer   the goroutine between frameCh and the io.Pipe;               *)
(*   callers  of Close, of which closeOnce lets one through.               *)
(*                                                                         *)
(* A frame is the ordinal at which the server captured it and a format the *)
(* ordinal at which it was negotiated.  The server's buffers are counted.  *)
(* An operator X_Fault next to X is X with a plausible mistake in it.      *)
(***************************************************************************)
EXTENDS Naturals, Sequences, FiniteSets

CONSTANTS
    Callers,    \* goroutines of the program that may call Close
    QueueSize,  \* capacity of frameCh
    PoolSize,   \* buffers the server shares with the stream
    MaxChunks,  \* bound: frames captured
    MaxFormats  \* bound: formats negotiated

Opener  == "opener"
Closers == Callers \cup {Opener}
Handles == {"loop", "context", "core", "data", "stream"}

ASSUME CallersAssumption == IsFiniteSet(Callers) /\ Opener \notin Callers
ASSUME SizesAssumption   == QueueSize \in Nat \ {0} /\ PoolSize \in Nat \ {0}
ASSUME BoundsAssumption  == MaxChunks \in Nat /\ MaxFormats \in Nat

VARIABLES
    kind,       \* "video" or "audio"
    opc,        \* opener's program counter
    have,       \* native handles not yet released, and the duplicated "fd"
    registered, \* the stream is in streams
    woken,      \* what ended WaitFrameRate's select: "none", "ready", "timeout"
    rate,       \* the <<num, den>> FrameRate has loaded
    num, den,   \* framerateNum and framerateDen
    ready,      \* close(formatReady) has run
    formats,    \* formats negotiated
    filled,     \* buffers the server has filled, oldest first
    free,       \* buffers the server may fill
    held,       \* frame of the buffer a callback has dequeued, 0 for none
    made,       \* frames captured
    lpc,        \* loop's program counter
    quit,       \* pw_main_loop_quit has reached the running loop
    offered,    \* the last frame that reached frameCh's select
    queue,      \* frameCh
    chClosed,   \* close(frameCh) has run
    wpc,        \* writer's program counter
    taken,      \* frame the writer has, 0 for none
    seen,       \* last frame the consumer read
    pipe,       \* the io.Pipe: "open" or "closed"
    closed,     \* Stream.closed
    upc,        \* program counter of Close's body
    call        \* call[c]: "idle", "in" or "returned", for callers of Close

openVars   == <<kind, opc, registered, woken, rate>>
formatVars == <<num, den, ready, formats>>
serverVars == <<filled, free, held, made>>
loopVars   == <<lpc, quit, offered>>
writerVars == <<queue, chClosed, wpc, taken, seen>>
closeVars  == <<closed, upc, call>>
vars == <<openVars, have, formatVars, serverVars, loopVars, writerVars, pipe,
          closeVars>>

Init ==
    /\ kind \in {"video", "audio"}
    /\ opc = IF kind = "video" THEN "dup" ELSE "loop"
    /\ have = {} /\ registered = FALSE /\ woken = "none" /\ rate = <<0, 0>>
    /\ num = 0 /\ den = 0 /\ ready = FALSE /\ formats = 0
    /\ filled = <<>> /\ free = PoolSize /\ held = 0 /\ made = 0
    /\ lpc = "none" /\ quit = FALSE /\ offered = 0
    /\ queue = <<>> /\ chClosed = FALSE
    /\ wpc = "recv" /\ taken = 0 /\ seen = 0
    /\ pipe = "open" /\ closed = FALSE
    /\ upc = "idle" /\ call = [c \in Closers |-> "idle"]

-----------------------------------------------------------------------------
(* NewStream, NewAudioStream                                               *)

\* The dup of the portal's descriptor: its failure returns at once.
Dup ==
    /\ opc = "dup"
    /\ \/ have' = {"fd"} /\ opc' = "loop"
       \/ have' = have /\ opc' = "leaked"
    /\ UNCHANGED <<kind, registered, woken, rate, formatVars, serverVars, loopVars,
                   writerVars, pipe, closeVars>>

\* What each step of NewStream adds if it succeeds, and if it fails.
Gain(step) == CASE step = "create"  -> {"data", "stream"}
                [] step = "connect" -> {}
                [] OTHER            -> {step}
Spill(step) == IF step = "create" THEN {"data"} ELSE {}

After == [loop |-> "context", context |-> "core", core |-> "create",
          create |-> "connect", connect |-> "register"]

\* One handle after another; the connected core owns the descriptor.
Acquire ==
    /\ opc \in DOMAIN After
    /\ have' = (have \cup Gain(opc)) \ (IF opc = "core" THEN {"fd"} ELSE {})
    /\ opc' = After[opc]
    /\ UNCHANGED <<kind, registered, woken, rate, formatVars, serverVars, loopVars,
                   writerVars, pipe, closeVars>>

\* Return the error without cleaning up.
AcquireFail_NoCleanup ==
    /\ opc \in DOMAIN After
    /\ have' = have \cup Spill(opc)
    /\ opc' = "failed"
    /\ UNCHANGED <<kind, registered, woken, rate, formatVars, serverVars, loopVars,
                   writerVars, pipe, closeVars>>

\* cleanupOnError: Close, with the handles acquired so far ...
AcquireFail ==
    /\ opc \in DOMAIN After
    /\ have' = have \cup Spill(opc)
    /\ opc' = "closing"
    /\ call' = [call EXCEPT ![Opener] = "in"]
    /\ upc' = "mark"
    /\ UNCHANGED <<kind, registered, woken, rate, formatVars, serverVars, loopVars,
                   writerVars, pipe, closed>>

\* ... then the deferred close of a descriptor nobody took over.
FailReturn ==
    /\ opc = "closing" /\ call[Opener] = "returned"
    /\ have' = have \ {"fd"}
    /\ opc' = "failed"
    /\ UNCHANGED <<kind, registered, woken, rate, formatVars, serverVars, loopVars,
                   writerVars, pipe, closeVars>>

Register ==
    /\ opc = "register"
    /\ registered' = TRUE
    /\ opc' = "start"
    /\ UNCHANGED <<kind, have, woken, rate, formatVars, serverVars, loopVars,
                   writerVars, pipe, closeVars>>

-----------------------------------------------------------------------------
(* Start, WaitFrameRate and FrameRate                                      *)

Start ==
    /\ opc = "start"
    /\ lpc' = "spawned"
    /\ opc' = IF kind = "video" THEN "wait" ELSE "ok"
    /\ UNCHANGED <<kind, have, registered, woken, rate, formatVars, serverVars, quit,
                   offered, writerVars, pipe, closeVars>>

Wake(by) ==
    /\ opc = "wait"
    /\ woken' = by
    /\ opc' = "num"
    /\ UNCHANGED <<kind, have, registered, rate, formatVars, serverVars, loopVars,
                   writerVars, pipe, closeVars>>

WaitReady == ready /\ Wake("ready")

WaitTimeout == Wake("timeout")

LoadNum ==
    /\ opc = "num"
    /\ rate' = [rate EXCEPT ![1] = num]
    /\ opc' = "den"
    /\ UNCHANGED <<kind, have, registered, woken, formatVars, serverVars, loopVars,
                   writerVars, pipe, closeVars>>

LoadDen ==
    /\ opc = "den"
    /\ rate' = [rate EXCEPT ![2] = den]
    /\ opc' = "ok"
    /\ UNCHANGED <<kind, have, registered, woken, formatVars, serverVars, loopVars,
                   writerVars, pipe, closeVars>>

Open == \/ Dup \/ Acquire \/ AcquireFail \/ FailReturn \/ Register
        \/ Start \/ WaitReady \/ WaitTimeout \/ LoadNum \/ LoadDen

-----------------------------------------------------------------------------
(* The PipeWire server and main loop, as the code uses them                *)

Looping == lpc \notin {"none", "spawned", "done"}

\* The server fills a buffer of a stream whose loop has negotiated with it.
Fill ==
    /\ Looping /\ free > 0 /\ made < MaxChunks
    /\ made' = made + 1
    /\ filled' = Append(filled, made')
    /\ free' = free - 1
    /\ UNCHANGED <<openVars, have, formatVars, held, loopVars, writerVars, pipe,
                   closeVars>>

\* Start's goroutine enters pw_main_loop_run.
LoopRun ==
    /\ lpc = "spawned"
    /\ lpc' = "dispatch"
    /\ UNCHANGED <<openVars, have, formatVars, serverVars, quit, offered, writerVars,
                   pipe, closeVars>>

LoopQuit ==
    /\ lpc = "dispatch" /\ quit
    /\ lpc' = "done"
    /\ UNCHANGED <<openVars, have, formatVars, serverVars, quit, offered, writerVars,
                   pipe, closeVars>>

\* The loop reports a format; on_param_changed_c lets only video formats through.
FormatChanged ==
    /\ lpc = "dispatch" /\ kind = "video" /\ formats < MaxFormats
    /\ formats' = formats + 1
    /\ lpc' = "num"
    /\ UNCHANGED <<openVars, have, num, den, ready, serverVars, quit, offered,
                   writerVars, pipe, closeVars>>

\* The loop reports filled buffers.
Process ==
    /\ lpc = "dispatch" /\ filled # <<>>
    /\ lpc' = "dequeue"
    /\ UNCHANGED <<openVars, have, formatVars, serverVars, quit, offered, writerVars,
                   pipe, closeVars>>

-----------------------------------------------------------------------------
(* on_param_changed_go                                                     *)

\* A stream that is not registered, or a denominator of 0, is ignored.
StoreNum ==
    /\ lpc = "num"
    /\ \/ registered /\ num' = formats /\ lpc' = "den"
       \/ num' = num /\ lpc' = "dispatch"
    /\ UNCHANGED <<openVars, have, den, ready, formats, serverVars, quit, offered,
                   writerVars, pipe, closeVars>>

StoreDen ==
    /\ lpc = "den"
    /\ den' = formats
    /\ lpc' = "ready"
    /\ UNCHANGED <<openVars, have, num, ready, formats, serverVars, quit, offered,
                   writerVars, pipe, closeVars>>

SetReady ==
    /\ lpc = "ready"
    /\ ready' = TRUE
    /\ lpc' = "dispatch"
    /\ UNCHANGED <<openVars, have, num, den, formats, serverVars, quit, offered,
                   writerVars, pipe, closeVars>>

-----------------------------------------------------------------------------
(* on_process_video, on_process_audio and on_frame_go                      *)

\* A dequeued buffer takes the place of the one held, which is lost.
Dequeue_Keep ==
    /\ lpc = "dequeue" /\ filled # <<>>
    /\ held' = Head(filled) /\ filled' = Tail(filled)
    /\ lpc' = IF kind = "video" THEN "dequeue" ELSE "frame"
    /\ UNCHANGED <<openVars, have, formatVars, free, made, quit, offered, writerVars,
                   pipe, closeVars>>

\* Video goes on to the latest buffer and gives the one before it back; audio
\* handles every one.
Dequeue ==
    /\ lpc = "dequeue" /\ filled # <<>>
    /\ held' = Head(filled) /\ filled' = Tail(filled)
    /\ free' = IF held = 0 THEN free ELSE free + 1
    /\ lpc' = IF kind = "video" THEN "dequeue" ELSE "frame"
    /\ UNCHANGED <<openVars, have, formatVars, made, quit, offered, writerVars, pipe,
                   closeVars>>

Dequeued ==
    /\ lpc = "dequeue" /\ filled = <<>>
    /\ lpc' = IF held = 0 THEN "dispatch" ELSE "frame"
    /\ UNCHANGED <<openVars, have, formatVars, serverVars, quit, offered, writerVars,
                   pipe, closeVars>>

\* process_single_buffer drops a frame that is empty, corrupt or out of bounds,
\* on_frame_go one of a stream that is not registered.
FrameCheck ==
    /\ lpc = "frame"
    /\ \/ registered /\ lpc' = "mark"
       \/ lpc' = "giveBack"
    /\ UNCHANGED <<openVars, have, formatVars, serverVars, quit, offered, writerVars,
                   pipe, closeVars>>

\* The two tests of closed: before the copy, and under frameMu's read lock.
EnqueueCheck ==
    /\ lpc \in {"mark", "locked"}
    /\ lpc' = IF closed THEN "giveBack" ELSE IF lpc = "mark" THEN "locked" ELSE "offer"
    /\ offered' = IF lpc' = "offer" THEN held ELSE offered
    /\ UNCHANGED <<openVars, have, formatVars, serverVars, quit, writerVars, pipe,
                   closeVars>>

\* The first send and the second, whose default cannot be taken: the loop's
\* thread is the only sender.
EnqueueSend ==
    /\ lpc \in {"offer", "retry"} /\ Len(queue) < QueueSize
    /\ queue' = Append(queue, held)
    /\ lpc' = "giveBack"
    /\ UNCHANGED <<openVars, have, formatVars, serverVars, quit, offered, chClosed,
                   wpc, taken, seen, pipe, closeVars>>

\* Full: drop the new frame.
EnqueueFull_DropNew ==
    /\ lpc = "offer" /\ Len(queue) = QueueSize
    /\ lpc' = "giveBack"
    /\ UNCHANGED <<openVars, have, formatVars, serverVars, quit, offered, writerVars,
                   pipe, closeVars>>

EnqueueFull ==
    /\ lpc = "offer" /\ Len(queue) = QueueSize
    /\ lpc' = "drop"
    /\ UNCHANGED <<openVars, have, formatVars, serverVars, quit, offered, writerVars,
                   pipe, closeVars>>

\* Drop the oldest frame, unless the writer was faster.
EnqueueDrop ==
    /\ lpc = "drop"
    /\ queue' = IF queue = <<>> THEN queue ELSE Tail(queue)
    /\ lpc' = "retry"
    /\ UNCHANGED <<openVars, have, formatVars, serverVars, quit, offered, chClosed,
                   wpc, taken, seen, pipe, closeVars>>

\* pw_stream_queue_buffer, at every end of process_single_buffer.
GiveBack ==
    /\ lpc = "giveBack"
    /\ held' = 0 /\ free' = free + 1
    /\ lpc' = IF kind = "video" THEN "dispatch" ELSE "dequeue"
    /\ UNCHANGED <<openVars, have, formatVars, filled, made, quit, offered,
                   writerVars, pipe, closeVars>>

Callback == \/ StoreNum \/ StoreDen \/ SetReady \/ Dequeue \/ Dequeued \/ FrameCheck
            \/ EnqueueCheck \/ EnqueueSend \/ EnqueueFull \/ EnqueueDrop \/ GiveBack

Loop == LoopRun \/ LoopQuit \/ Process \/ Callback

-----------------------------------------------------------------------------
(* The writer and the consumer                                             *)

WriterTake ==
    /\ wpc = "recv" /\ queue # <<>>
    /\ taken' = Head(queue) /\ queue' = Tail(queue)
    /\ wpc' = "write"
    /\ UNCHANGED <<openVars, have, formatVars, serverVars, loopVars, chClosed, seen,
                   pipe, closeVars>>

\* The range over frameCh ends.
WriterEnd ==
    /\ wpc = "recv" /\ queue = <<>> /\ chClosed
    /\ wpc' = "done"
    /\ UNCHANGED <<openVars, have, formatVars, serverVars, loopVars, queue, chClosed,
                   taken, seen, pipe, closeVars>>

\* The write fails on the closed pipe.
WriterFail ==
    /\ wpc = "write" /\ pipe = "closed"
    /\ wpc' = "done" /\ taken' = 0
    /\ UNCHANGED <<openVars, have, formatVars, serverVars, loopVars, queue, chClosed,
                   seen, pipe, closeVars>>

Writer == WriterTake \/ WriterEnd \/ WriterFail

\* Whoever has the stream reads the frame.
Consume ==
    /\ opc = "ok" /\ wpc = "write" /\ pipe = "open"
    /\ seen' = taken /\ taken' = 0
    /\ wpc' = "recv"
    /\ UNCHANGED <<openVars, have, formatVars, serverVars, loopVars, queue, chClosed,
                   pipe, closeVars>>

-----------------------------------------------------------------------------
(* Close                                                                   *)

\* closeOnce: the first call runs the body, every other one waits for it.
CloseEnter(c) ==
    /\ opc = "ok" /\ call[c] = "idle"
    /\ call' = [call EXCEPT ![c] = "in"]
    /\ upc' = IF upc = "idle" THEN "mark" ELSE upc
    /\ UNCHANGED <<openVars, have, formatVars, serverVars, loopVars, writerVars, pipe,
                   closed>>

CloseReturn(c) ==
    /\ call[c] = "in" /\ upc = "done"
    /\ call' = [call EXCEPT ![c] = "returned"]
    /\ UNCHANGED <<openVars, have, formatVars, serverVars, loopVars, writerVars, pipe,
                   closed, upc>>

UnwindMark ==
    /\ upc = "mark"
    /\ closed' = TRUE
    /\ upc' = "quit"
    /\ UNCHANGED <<openVars, have, formatVars, serverVars, loopVars, writerVars, pipe,
                   call>>

\* Stop: quit ends a loop that runs; one that is yet to be entered, if it ever
\* is, may or may not remember it.
UnwindQuit ==
    /\ upc = "quit"
    /\ quit' \in BOOLEAN /\ (Looping => quit')
    /\ upc' = "join"
    /\ UNCHANGED <<openVars, have, formatVars, serverVars, lpc, offered, writerVars,
                   pipe, closed, call>>

\* Go on while the loop may still be in a callback.
UnwindJoin_NoWait ==
    /\ upc = "join"
    /\ upc' = "unregister"
    /\ UNCHANGED <<openVars, have, formatVars, serverVars, loopVars, writerVars, pipe,
                   closed, call>>

\* wg.Wait: the loop has ended or was never started.
UnwindJoin ==
    /\ upc = "join" /\ lpc \in {"none", "done"}
    /\ upc' = "unregister"
    /\ UNCHANGED <<openVars, have, formatVars, serverVars, loopVars, writerVars, pipe,
                   closed, call>>

UnwindUnregister ==
    /\ upc = "unregister"
    /\ registered' = FALSE
    /\ upc' = "closeCh"
    /\ UNCHANGED <<kind, opc, woken, rate, have, formatVars, serverVars, loopVars,
                   writerVars, pipe, closed, call>>

\* close(frameCh) under frameMu's lock, then close(formatReady).
UnwindChannels ==
    /\ upc = "closeCh" /\ lpc \notin {"locked", "offer", "drop", "retry"}
    /\ chClosed' = TRUE
    /\ ready' = TRUE
    /\ upc' = "closeReader"
    /\ UNCHANGED <<openVars, have, num, den, formats, serverVars, loopVars, queue, wpc,
                   taken, seen, pipe, closed, call>>

\* Leave the read end open until the writer has ended.
UnwindReader_Later ==
    /\ upc = "closeReader"
    /\ upc' = "joinWriter"
    /\ UNCHANGED <<openVars, have, formatVars, serverVars, loopVars, writerVars, pipe,
                   closed, call>>

\* pr.Close, which makes a blocked write fail.
UnwindReader ==
    /\ upc = "closeReader"
    /\ pipe' = "closed"
    /\ upc' = "joinWriter"
    /\ UNCHANGED <<openVars, have, formatVars, serverVars, loopVars, writerVars,
                   closed, call>>

UnwindJoinWriter ==
    /\ upc = "joinWriter" /\ wpc = "done"
    /\ upc' = "destroy"
    /\ UNCHANGED <<openVars, have, formatVars, serverVars, loopVars, writerVars, pipe,
                   closed, call>>

\* The native objects, as far as they were made.
UnwindDestroy ==
    /\ upc = "destroy"
    /\ have' = have \ Handles
    /\ upc' = "done"
    /\ UNCHANGED <<openVars, formatVars, serverVars, loopVars, writerVars, pipe,
                   closed, call>>

Unwind == \/ UnwindMark \/ UnwindQuit \/ UnwindJoin \/ UnwindUnregister
          \/ UnwindChannels \/ UnwindReader \/ UnwindJoinWriter \/ UnwindDestroy

-----------------------------------------------------------------------------
\* Close waits for a loop that was entered after it was told to quit.
QuitLost == upc = "join" /\ ~quit /\ lpc \notin {"none", "done"}

\* The only states that may not move: the stream is gone or could not be opened,
\* or Close hangs for the reason above.
Terminated ==
    /\ \/ opc \in {"failed", "leaked"}
       \/ upc = "done" /\ \A c \in Callers : call[c] = "returned"
       \/ QuitLost
    /\ UNCHANGED vars

Next == \/ Open \/ Fill \/ FormatChanged \/ Loop \/ Writer \/ Consume
        \/ \E c \in Callers : CloseEnter(c)
        \/ \E c \in Closers : CloseReturn(c)
        \/ Unwind \/ Terminated

Spec == Init /\ [][Next]_vars

\* Every thread runs, WaitFrameRate's timer expires, and a loop that was told to
\* quit does so although there is always something to process.  Not assumed:
\* that a frame or a format arrives, that anybody reads the stream or closes it.
Fairness ==
    /\ WF_vars(Open) /\ WF_vars(Loop) /\ SF_vars(LoopQuit)
    /\ WF_vars(Writer) /\ WF_vars(Unwind)
    /\ \A c \in Closers : WF_vars(CloseReturn(c))

FairSpec == Spec /\ Fairness

-----------------------------------------------------------------------------
(* Properties                                                              *)

InEnqueue == {"mark", "locked", "offer", "drop", "retry"}

\* In particular a buffer is held exactly between its dequeue and its return.
TypeOK ==
    /\ kind \in {"video", "audio"}
    /\ opc \in DOMAIN After \cup {"dup", "leaked", "closing", "failed", "register",
                                  "start", "wait", "num", "den", "ok"}
    /\ have \subseteq Handles \cup {"fd"} /\ registered \in BOOLEAN
    /\ woken \in {"none", "ready", "timeout"}
    /\ rate \in (0..MaxFormats) \X (0..MaxFormats)
    /\ num \in 0..MaxFormats /\ den \in 0..MaxFormats /\ formats \in 0..MaxFormats
    /\ ready \in BOOLEAN
    /\ filled \in Seq(1..MaxChunks) /\ free \in 0..PoolSize
    /\ held \in 0..MaxChunks /\ made \in 0..MaxChunks
    /\ lpc \in InEnqueue \cup {"none", "spawned", "dispatch", "num", "den", "ready",
                               "dequeue", "frame", "giveBack", "done"}
    /\ held = 0 => lpc \notin InEnqueue \cup {"frame", "giveBack"}
    /\ held # 0 => lpc \in InEnqueue \cup {"dequeue", "frame", "giveBack"}
    /\ quit \in BOOLEAN /\ offered \in 0..MaxChunks
    /\ queue \in Seq(1..MaxChunks) /\ Len(queue) <= QueueSize
    /\ chClosed \in BOOLEAN
    /\ wpc \in {"recv", "write", "done"}
    /\ taken \in 0..MaxChunks /\ (taken # 0 <=> wpc = "write")
    /\ seen \in 0..MaxChunks
    /\ pipe \in {"open", "closed"} /\ closed \in BOOLEAN
    /\ upc \in {"idle", "mark", "quit", "join", "unregister", "closeCh",
                "closeReader", "joinWriter", "destroy", "done"}
    /\ call \in [Closers -> {"idle", "in", "returned"}]

\* Frames on their way from the consumer back to the server, oldest first.
Present(x) == IF x = 0 THEN <<>> ELSE <<x>>
Written  == <<seen>> \o Present(taken) \o queue
OnTheWay == Written \o (IF lpc = "giveBack" THEN <<>> ELSE Present(held)) \o filled

\* The consumer gets frames in the order they were captured and none twice, and
\* backpressure never costs the newest: outside enqueueFrame the last frame it
\* accepted is the last one the consumer has or will get.
FramesKept ==
    /\ \A i \in 1..(Len(OnTheWay) - 1) : OnTheWay[i] < OnTheWay[i + 1]
    /\ lpc \notin InEnqueue /\ pipe = "open" => Written[Len(Written)] = offered

\* Every buffer is the server's, filled, or in a callback's hand: no path through
\* the callbacks keeps one, which would starve the stream after PoolSize frames.
BuffersConserved ==
    free + Len(filled) + (IF held = 0 THEN 0 ELSE 1) = PoolSize

\* The loop's thread never runs, and no frame is sent on frameCh, once Close has
\* closed the channel and goes on to destroy what the callbacks use.
CallbacksBeforeDestroy ==
    Looping => /\ ~chClosed
               /\ Handles \subseteq have

\* Whoever returns from Close, and an open that failed after the descriptor was
\* duplicated, leave nothing behind: no handle, registration or goroutine.
NothingLeftBehind ==
    opc = "failed" \/ (\E c \in Callers : call[c] = "returned") =>
        /\ have = {} /\ ~registered /\ pipe = "closed"
        /\ wpc = "done" /\ lpc \in {"none", "done"}

\* Close returns to every caller even if nobody reads the stream, unless it told
\* a loop to quit that had not been entered yet.
CloseReturns ==
    [](~QuitLost) => \A c \in Closers : call[c] = "in" ~> call[c] = "returned"

\* What makes that so: nobody is in a wait that will not end.  The second send of
\* enqueueFrame always has room; Close never has to wait for frameMu, and waits
\* for a writer only once its channel and its pipe are closed; the writer does
\* not end before that; and whoever waits in closeOnce waits for a Close that
\* has begun.
NobodyStranded ==
    /\ lpc = "retry" => Len(queue) < QueueSize
    /\ upc = "closeCh" => lpc \notin {"locked", "offer", "drop", "retry"}
    /\ upc = "joinWriter" => chClosed /\ pipe = "closed"
    /\ wpc = "done" => closed
    /\ opc = "closing" => call[Opener] # "idle"
    /\ \A c \in Closers : call[c] = "in" => upc # "idle"

=============================================================================
