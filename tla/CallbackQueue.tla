--------------------------- MODULE CallbackQueue ---------------------------
(***************************************************************************)
(* What the Windows and the macOS backends of capture have in common: a    *)
(* capture whose frames and audio arrive in callbacks.  async_queue.go and *)
(* open_helpers.go, and the parts of capture_windows.go and                *)
(* capture_darwin.go that are the same.                                    *)
(*                                                                         *)
(*   opener     open: registers the stream, has the native session built   *)
(*              and started, waits for the first frame with a timeout;     *)
(*   callbacks  of either kind, from their lookup of the stream on;        *)
(*   loops      the goroutine of each asyncPipeWriter, between its queue   *)
(*              and the io.Pipe the consumer reads;                        *)
(*   callers    of Close.                                                  *)
(*                                                                         *)
(* The native session itself is in WindowsCapture and DarwinCapture, and   *)
(* CallbackCapture puts the three together.  Chunks are reduced to the     *)
(* ordinal at which they were captured.                                    *)
(* An operator X_Fault next to X is X with a plausible mistake in it.      *)
(***************************************************************************)
EXTENDS Naturals, Sequences, FiniteSets

CONSTANTS
    Callers,    \* goroutines of the program that may call Close
    QueueSize,  \* capacity of each asyncPipeWriter
    MaxChunks   \* bound: chunks captured of each kind

Opener  == "opener"
Closers == Callers \cup {Opener}
Kinds   == {"video", "audio"}

ASSUME CallersAssumption == IsFiniteSet(Callers) /\ Opener \notin Callers
ASSUME QueueAssumption   == QueueSize \in Nat \ {0}
ASSUME BoundAssumption   == MaxChunks \in Nat

VARIABLES
    platform,   \* "windows" or "darwin", fixed when the program is built
    opc,        \* opener's program counter
    audio,      \* ctxInfo.apw and audioQ are there
    registered, \* the stream is in winStreams or macStreams
    ready,      \* close(ctxInfo.ready) has run
    native,     \* native session: "none", "built", "started" or "freed"
    ppc,        \* ppc[k]: program counter of the callback of k
    hand,       \* hand[k]: chunk it has, 0 for none
    made,       \* made[k]: chunks captured
    queue,      \* queue[k]: asyncPipeWriter.queue
    done,       \* done[k]: close(w.done) has run
    loop,       \* loop[k]: "none", "select", "write" or "done"
    taken,      \* taken[k]: chunk the loop writes, 0 for none
    pipe,       \* pipe[k]: "none", "open" or "closed"
    seen,       \* seen[k]: last chunk the consumer read
    upc,        \* program counter of Close's body, run once
    call        \* call[c]: "idle", "in" Close, or "returned" from it

openVars  == <<platform, opc, audio, registered, ready>>
prodVars  == <<ppc, hand, made>>
queueVars == <<queue, done>>
loopVars  == <<loop, taken, seen>>
closeVars == <<upc, call>>
sharedVars == <<openVars, native, prodVars, queueVars, loopVars, pipe, closeVars>>

QueueInit ==
    /\ platform \in {"windows", "darwin"}
    /\ opc = "register" /\ audio \in BOOLEAN
    /\ registered = FALSE /\ ready = FALSE /\ native = "none"
    /\ ppc = [k \in Kinds |-> "idle"]
    /\ hand = [k \in Kinds |-> 0] /\ made = [k \in Kinds |-> 0]
    /\ queue = [k \in Kinds |-> <<>>] /\ done = [k \in Kinds |-> FALSE]
    /\ loop = [k \in Kinds |-> "none"] /\ taken = [k \in Kinds |-> 0]
    /\ pipe = [k \in Kinds |-> "none"] /\ seen = [k \in Kinds |-> 0]
    /\ upc = "idle" /\ call = [c \in Closers |-> "idle"]

-----------------------------------------------------------------------------
(* open                                                                    *)

\* The kinds this stream has.
Streamed == IF audio THEN Kinds ELSE {"video"}

OpenGo(from, to) == opc = from /\ opc' = to

Register ==
    /\ OpenGo("register", "init")
    /\ pipe' = [k \in Kinds |-> IF k \in Streamed THEN "open" ELSE "none"]
    /\ loop' = [k \in Kinds |-> IF k \in Streamed THEN "select" ELSE "none"]
    /\ registered' = TRUE
    /\ UNCHANGED <<platform, audio, ready, native, prodVars, queueVars, taken, seen,
                   closeVars>>

\* The native session could not be built: undo Register and return the error.
FailUnregister ==
    /\ OpenGo("unregister", "failVideo")
    /\ registered' = FALSE
    /\ UNCHANGED <<platform, audio, ready, native, prodVars, queueVars, loopVars,
                   pipe, closeVars>>

\* asyncPipeWriter.Close: close(done), then wait for the loop.
CloseQueue(k) == done' = [done EXCEPT ![k] = TRUE]
Joined(k)     == loop[k] = "done" /\ UNCHANGED done

FailQueues ==
    /\ \/ OpenGo("failVideo", "failJoinVideo") /\ CloseQueue("video")
       \/ OpenGo("failJoinVideo", IF audio THEN "failAudio" ELSE "failPipes")
          /\ Joined("video")
       \/ OpenGo("failAudio", "failJoinAudio") /\ CloseQueue("audio")
       \/ OpenGo("failJoinAudio", "failPipes") /\ Joined("audio")
    /\ UNCHANGED <<platform, audio, registered, ready, native, prodVars, queue,
                   loopVars, pipe, closeVars>>

\* Close both ends of every pipe the stream has.
ClosePipes == pipe' = [k \in Kinds |-> IF k \in Streamed THEN "closed" ELSE pipe[k]]

FailPipes ==
    /\ OpenGo("failPipes", "failed")
    /\ ClosePipes
    /\ UNCHANGED <<platform, audio, registered, ready, native, prodVars, queueVars,
                   loopVars, closeVars>>

WaitReady ==
    /\ ready /\ OpenGo("wait", "ok")
    /\ UNCHANGED <<platform, audio, registered, ready, native, prodVars, queueVars,
                   loopVars, pipe, closeVars>>

\* time.After(defaultFirstFrameTimeout): call Close ...
WaitTimeout ==
    /\ OpenGo("wait", "closing")
    /\ call' = [call EXCEPT ![Opener] = "in"]
    /\ upc' = "unregister"
    /\ UNCHANGED <<platform, audio, registered, ready, native, prodVars, queueVars,
                   loopVars, pipe>>

\* ... and return the error.
WaitFail ==
    /\ call[Opener] = "returned" /\ OpenGo("closing", "failed")
    /\ UNCHANGED <<platform, audio, registered, ready, native, prodVars, queueVars,
                   loopVars, pipe, closeVars>>

QueueOpen == \/ Register \/ FailUnregister \/ FailQueues \/ FailPipes
             \/ WaitReady \/ WaitTimeout \/ WaitFail

-----------------------------------------------------------------------------
(* The callbacks, from the lookup to the end of Enqueue                    *)

\* Where a callback goes then: the Windows frame callback has its session to
\* release, every other one is over.
Leave(k) == /\ ppc' = [ppc EXCEPT ![k] = IF platform = "windows" /\ k = "video"
                                         THEN "release" ELSE "idle"]
            /\ hand' = [hand EXCEPT ![k] = 0]

CallbackGo(k, from, to) == ppc[k] = from /\ ppc' = [ppc EXCEPT ![k] = to]

\* The registry, under its mutex: an unregistered stream drops the chunk.
Lookup(k) ==
    /\ ppc[k] = "lookup"
    /\ IF registered
       THEN /\ CallbackGo(k, "lookup", IF k = "video" THEN "size" ELSE "check")
            /\ UNCHANGED hand
       ELSE Leave(k)
    /\ UNCHANGED <<openVars, native, made, queueVars, loopVars, pipe, closeVars>>

\* widthOnce and heightOnce: the first frame's size is kept, then ready closed.
FirstFrame ==
    /\ CallbackGo("video", "size", "check")
    /\ ready' = TRUE
    /\ UNCHANGED <<platform, opc, audio, registered, native, hand, made, queueVars,
                   loopVars, pipe, closeVars>>

EnqueueCheck(k) ==
    /\ ppc[k] = "check"
    /\ IF done[k] THEN Leave(k) ELSE CallbackGo(k, "check", "offer") /\ UNCHANGED hand
    /\ UNCHANGED <<openVars, native, made, queueVars, loopVars, pipe, closeVars>>

\* The first send falls through to the second one.
EnqueueSend_FallThrough(k) ==
    /\ ppc[k] \in {"offer", "retry"} /\ Len(queue[k]) < QueueSize
    /\ queue' = [queue EXCEPT ![k] = Append(@, hand[k])]
    /\ IF ppc[k] = "offer"
       THEN CallbackGo(k, "offer", "drop") /\ UNCHANGED hand
       ELSE Leave(k)
    /\ UNCHANGED <<openVars, native, made, done, loopVars, pipe, closeVars>>

\* The first send, and the last one.  The default of the last one, which loses
\* the new chunk, cannot be taken: the callback is the queue's only sender.
EnqueueSend(k) ==
    /\ ppc[k] \in {"offer", "retry"} /\ Len(queue[k]) < QueueSize
    /\ queue' = [queue EXCEPT ![k] = Append(@, hand[k])]
    /\ Leave(k)
    /\ UNCHANGED <<openVars, native, made, done, loopVars, pipe, closeVars>>

\* Wait for the loop to make room.
EnqueueFull_Wait(k) ==
    /\ Len(queue[k]) < QueueSize /\ CallbackGo(k, "offer", "drop")
    /\ UNCHANGED <<openVars, native, hand, made, queueVars, loopVars, pipe, closeVars>>

EnqueueFull(k) ==
    /\ Len(queue[k]) = QueueSize /\ CallbackGo(k, "offer", "drop")
    /\ UNCHANGED <<openVars, native, hand, made, queueVars, loopVars, pipe, closeVars>>

\* Drop the oldest chunk, unless the loop was faster.
EnqueueDrop(k) ==
    /\ CallbackGo(k, "drop", "retry")
    /\ queue' = [queue EXCEPT ![k] = IF @ = <<>> THEN @ ELSE Tail(@)]
    /\ UNCHANGED <<openVars, native, hand, made, done, loopVars, pipe, closeVars>>

Deliver(k) == \/ Lookup(k)
              \/ k = "video" /\ FirstFrame
              \/ EnqueueCheck(k) \/ EnqueueSend(k) \/ EnqueueFull(k) \/ EnqueueDrop(k)

-----------------------------------------------------------------------------
(* The writers' loops and the consumer                                     *)

LoopStop(k) ==
    /\ loop[k] = "select" /\ done[k]
    /\ loop' = [loop EXCEPT ![k] = "done"]
    /\ UNCHANGED <<openVars, native, prodVars, queueVars, taken, seen, pipe, closeVars>>

LoopTake(k) ==
    /\ loop[k] = "select" /\ queue[k] # <<>>
    /\ taken' = [taken EXCEPT ![k] = Head(queue[k])]
    /\ queue' = [queue EXCEPT ![k] = Tail(@)]
    /\ loop' = [loop EXCEPT ![k] = "write"]
    /\ UNCHANGED <<openVars, native, prodVars, done, seen, pipe, closeVars>>

\* dst.Write fails on a pipe that was closed.
LoopFail(k) ==
    /\ loop[k] = "write" /\ pipe[k] = "closed"
    /\ loop' = [loop EXCEPT ![k] = "done"]
    /\ taken' = [taken EXCEPT ![k] = 0]
    /\ UNCHANGED <<openVars, native, prodVars, queueVars, seen, pipe, closeVars>>

Loop(k) == LoopStop(k) \/ LoopTake(k) \/ LoopFail(k)

\* The consumer, once open has returned the stream, reads the chunk.
Consume(k) ==
    /\ opc = "ok" /\ loop[k] = "write" /\ pipe[k] = "open"
    /\ seen' = [seen EXCEPT ![k] = taken[k]]
    /\ taken' = [taken EXCEPT ![k] = 0]
    /\ loop' = [loop EXCEPT ![k] = "select"]
    /\ UNCHANGED <<openVars, native, prodVars, queueVars, pipe, closeVars>>

\* Stream.Audio.Close, the read end of the audio pipe on its own.
CloseAudio ==
    /\ opc = "ok" /\ pipe["audio"] = "open"
    /\ pipe' = [pipe EXCEPT !["audio"] = "closed"]
    /\ UNCHANGED <<openVars, native, prodVars, queueVars, loopVars, closeVars>>

-----------------------------------------------------------------------------
(* Close                                                                   *)

\* closeOnce: the first call runs the body, every other one waits for it.
CloseEnter(c) ==
    /\ c \in Callers /\ opc = "ok" /\ call[c] = "idle"
    /\ call' = [call EXCEPT ![c] = "in"]
    /\ upc' = IF upc = "idle" THEN "unregister" ELSE upc
    /\ UNCHANGED <<openVars, native, prodVars, queueVars, loopVars, pipe>>

CloseReturn(c) ==
    /\ call[c] = "in" /\ upc = "done"
    /\ call' = [call EXCEPT ![c] = "returned"]
    /\ UNCHANGED <<openVars, native, prodVars, queueVars, loopVars, pipe, upc>>

UnwindGo(from, to) == upc = from /\ upc' = to

\* Windows closes pipes and queues before it stops the native session, macOS
\* after it has freed it.
First  == IF platform = "windows" THEN "pipes" ELSE "stop"
Second == IF platform = "windows" THEN "stop" ELSE "done"

UnwindUnregister ==
    /\ UnwindGo("unregister", First)
    /\ registered' = FALSE
    /\ UNCHANGED <<platform, opc, audio, ready, native, prodVars, queueVars, loopVars,
                   pipe, call>>

\* Close the queues and leave the pipes open.
UnwindPipes_Later ==
    /\ UnwindGo("pipes", "closeVideo")
    /\ UNCHANGED <<openVars, native, prodVars, queueVars, loopVars, pipe, call>>

\* A loop blocked in a write fails.
UnwindPipes ==
    /\ UnwindGo("pipes", "closeVideo")
    /\ ClosePipes
    /\ UNCHANGED <<openVars, native, prodVars, queueVars, loopVars, call>>

UnwindQueues ==
    /\ \/ UnwindGo("closeVideo", "joinVideo") /\ CloseQueue("video")
       \/ UnwindGo("joinVideo", IF audio THEN "closeAudio" ELSE Second)
          /\ Joined("video")
       \/ UnwindGo("closeAudio", "joinAudio") /\ CloseQueue("audio")
       \/ UnwindGo("joinAudio", Second) /\ Joined("audio")
    /\ UNCHANGED <<openVars, native, prodVars, queue, loopVars, pipe, call>>

QueueUnwind == UnwindUnregister \/ UnwindPipes \/ UnwindQueues

=============================================================================
