# Screencast: specifications, model checks and proofs

This directory models the concurrent core of `screencast`, a Go library that
captures a display, paces the raw frames into `ffmpeg` and hands out MPEG-TS or
HLS. The modules are written from the code under `src/`; the README says which
module stands for which code, what TLC checks on small instances, what TLAPS
proves for every value of the constants, and what is left out.

Run `tlc -config <cfg> <MC module>` for a check and `tlapm <module>` for proofs.

## 1. The system

```
 capture backend ──raw BGRA──▶ frame pacer ──io.Pipe──▶ os/exec stdin copy ─▶ ffmpeg ─▶ ts / hls
   (linux: portal + PipeWire,      │ timelineSkew                                 ▲
    windows, darwin: callbacks)    ▼                                              │ TCP loopback
 capture audio / silence ──PCM──▶ audio relay ────────────────────────────────────┘
```

| component | state it keeps | operations | hard behaviour | what makes it correct |
|---|---|---|---|---|
| Frame pacer (`internal/pipeline/frame_pacer.go`) | `frameCh` (cap. 1), `freeCh` (cap. 3), `srcErrCh`, an `io.Pipe`, `timelineSkew` (three atomics), the pacer's own clock | reader goroutine, pacer goroutine, `Read`, `Close` | two goroutines share recycled buffers; a ticker, bursts and abandoned spans move the clock; Close at any time | one owner per buffer; frames in order, newest kept; the clock is the anchor plus what was reported; Close ends both goroutines |
| Audio relay (`audio_relay.go`) | `audioPump.ch`, `closed`, listener, connection, bytes written | producer, `offer`, `relay`, `discardBuffered`, `close` | producer and relay on both ends of a lossy queue; decisions made before a write that blocks; skew read while the pacer changes it | PCM frames whole, in order, once; track within the dead band of the shortened clock; catches up; Close ends both |
| Pipeline session (`prepare.go`, `session.go`) | the handles built so far, `closeOnce`, `abortOnce`, `done`, the finalizer | `Prepare`, `Launch`, `Close`, `Abort`, `closeBounded`, the goroutine in `cmd.Wait` | partial failure of `Prepare`; several callers of `Close`; a backend whose Close hangs; ffmpeg and its stdin copy ending in any order | nobody returns from `Close` before the unwind; `Close` is bounded; everything ends; ffmpeg's exit reclaims |
| Synthetic silence (`silence.go`) | a sample clock, a closed flag | `Read`, `Close` | pacing against real time | chunks never exceed real time |
| Encoder selection, arguments, tuning | none | pure functions | clamps, `uint32` products | results within the documented ranges |
| ffmpeg stderr buffer (`locked_buffer.go`) | last bytes written | `Write`, `Tail` | drops its oldest half again and again over hours | bounded, and the end of what was written |
| Callback queue (`capture/async_queue.go`, `open_helpers.go`) | a bounded channel, a closed flag, the writer's goroutine | `Enqueue`, `Close`, first-frame wait | native callbacks race Close; drop-oldest; timeouts | nothing sent after Close; order kept; Close ends the loop |
| Windows capture (`capture_windows.go`, `.cpp`) | registry of streams, native session, its count of running callbacks | open with a retry without audio, Close, frame callback, audio thread | callbacks on OS threads during open and Close | nothing is copied or delivered from a freed session; a failed open releases everything |
| macOS capture (`capture_darwin.go`, `.m`) | registry of streams, `SCStream` | open, Close, samples on a serial queue | stopping is asynchronous and nobody waits for it | samples that come too late are harmless; a failed open releases everything |
| Linux capture, portal, PipeWire | D-Bus session, PipeWire fd, loop thread, frame queue, writer goroutine | portal requests, stream callbacks, Close | lost or late responses, cancellation, hang of the loop, C callbacks | nothing is used after destroy; failed opens close the portal session |
| MPEG-TS output (`ts/session.go`) | startup bytes, probe state | `Start`, probe, PAT/PMT parser, hand-over, `waitForStream`, Close | probe races exit, timeout and renderer; `cmd.Wait` stuck in the copy to stdin | the bytes are handed over complete and in order; `Start` returns, and only a stream it has recognised |
| HLS output (`hls/session.go`) | the directory, its files | `Start`, `waitForPlaylistReady`, `cleanupOldTempDirs`, Close | several programs clean up the same directory; a crash leaves directories; an ffmpeg told to die still writes | a live directory is never removed; an abandoned one is, some time |
| HTTP handler, display listing, logging, examples, end-to-end test support | none a property is about | | | |

Interactions: `Prepare` builds backend → pacer → relay in that order and
`Abort` unwinds listener → pump → video input → own audio; the pacer and the
relay share `timelineSkew` and nothing else; `os/exec` copies
`framePacer.Read` to ffmpeg's stdin and `cmd.Wait` waits for that copy.

## 2. Modules

| module | models | state and actions |
|---|---|---|
| `FramePacer` | `frame_pacer.go` | program counters of reader (`rpc`), pacer (`ppc`) and closer (`cpc`); every channel operation, atomic access, clock reading and blocking call is an action of its own. Buffers are model values, frame contents the ordinal of their capture. `Consume` is ffmpeg taking the frame the pacer is blocked on. |
| `PacedTrack` | the promise the two inputs make each other (comment on `timelineSkew`) | abstract: a track's length, the elapsed and the abandoned time. A track only grows, up to the shortened clock and a constant lead. |
| `TimelineSkew` | the skew the pacer writes and the relay reads | the anchor and the abandoned span, as the relay may see them move. `AudioRelay` extends it; `FramePacer` is shown to implement it. |
| `FramePacerProofs` | | theorems about `FramePacer` |
| `AudioRelay` | `audio_relay.go`, and the steps of `Abort` it sees | producer (`ppc`), relay (`rpc`), closer (`cpc`); a buffer is an interval of offsets in the capture. The pacer's side of the skew is the environment, `TimelineSkew`. |
| `AudioRelayProofs` | | theorems about `AudioRelay` |
| `SessionLifecycle` | `prepare.go`, `session.go` | starter (`spc`), the unwind (`upc`), the goroutine of `closeBounded` (`vpc`), waiter (`wpc`), stdin copy (`copy`), one `call[c]` per caller of `Close`; the workers of the other two modules are reduced to what ends them. |
| `SessionLifecycleProofs` | | theorems about `SessionLifecycle` and `StderrBuffer` |
| `CallbackQueue` | `async_queue.go`, `open_helpers.go` and what `capture_windows.go` and `capture_darwin.go` have in common | opener (`opc`), one callback (`ppc[k]`), queue and loop per kind of data, the body of `Close` (`upc`), one `call[c]` per caller |
| `WindowsCapture` | `capture_windows.go`, `capture_windows.cpp` | extends `CallbackQueue` by the native session: frame handler, count of running callbacks, audio thread. A callback that touches the session after it was freed reaches `undefined`, where the model follows it no further. |
| `DarwinCapture` | `capture_darwin.go`, `capture_darwin.m` | extends `CallbackQueue` by the `SCStream` (`macStream`) and its serial queue |
| `CallbackCapture` | the composition of the three | the platform is chosen once, as by the build; specification and properties |
| `CallbackCaptureProofs` | | theorems about `CallbackCapture` and the modules it is composed of |
| `PipeWireStream` | `internal/pipewire/pipewire.go` | one stream of either kind: opener (`opc`) and the native handles it has, main loop and callbacks (`lpc`), the buffers it shares with the server, writer (`wpc`), the body of `Close` (`upc`) |
| `PipeWireStreamProofs` | | theorems about `PipeWireStream` |
| `LinuxCapture` | `capture_linux.go`, `internal/xdgportal`, `internal/request`, `internal/apis`, `internal/session` | several opens at once on the process's one bus connection: place of each open (`pc`) and of its request (`at`), the portal's sessions, match rules, channels and the signals in them. A stream is reduced to whether it is open; `PipeWireStream` has the rest. |
| `LinuxCaptureProofs` | | theorems about `LinuxCapture` |
| `TsPacket` | the parser in `ts/session.go` | pure operators over packets of bytes: header, section, program entries, `HasPATAndPMT`, and `Reads`, the offsets the code indexes |
| `TransportStream` | `ts/session.go` | start (`spc`), probe (`ppc`), renderer (`rpc`), ffmpeg and its waiter (`proc`, `wpc`), the operating system's pipe. The stream is counted in half packets, so that a read may end inside one. `TsPacket` decides on packets of 24 bytes what the probe sees. |
| `TransportStreamProofs` | | theorems about `TsPacket` and `TransportStream` |
| `HlsOutput` | `hls/session.go` | programs (`pc[p]`) that share one directory for temporary files: what is in it and how old, an ffmpeg per directory, the steps of `os.RemoveAll`, crashes at any point |
| `HlsOutputProofs` | | theorems about `HlsOutput` |
| `StderrBuffer` | `locked_buffer.go` | `Write` of any piece, with the sizes of the code |
| `MC*` | | the entry point of TLC for a module, with its symmetry sets |

`FramePacer` and `AudioRelay` both refine `PacedTrack` (`KeepsTrack` in each),
one per input: that is how the two compose without a product state space. What
`AudioRelay` assumes of the pacer is a specification of its own, `TimelineSkew`,
and `FramePacer` refines that too (`DrivesSkew`), so nothing about the other
side is taken on trust.

An operator `X_Fault` next to `X` (for instance `PacerSwap_RecycleNew`) is `X`
with a plausible mistake. No specification uses it; put in place of `X` it shows
that a property notices the mistake. `PROJECT.json` lists which property each
one breaks.

## 3. What TLC checks

| run | instance | shows |
|---|---|---|
| `pacer` | 5 buffers, 4 frames, 7 instants, interval 2, burst 2, debt 2 | `BufferExclusive`, `NeverBackwards`, `KeepsTrack`, `DrivesSkew` |
| `pacer_live` | 4 buffers, 2 frames, 3 instants | `CloseEndsGoroutines`, `SourceFailureReachesFfmpeg` |
| `relay` | queue of 1, reads of 1½ PCM frames, 3 instants, 12 captured bytes | `PhaseAligned`, `NoReplay`, `PrerollBounded`, `KeepsTrack` |
| `relay_live` | queue of 1, 3 instants | `CloseEndsGoroutines`, `CatchesUp` |
| `session` | two callers | `ReturnedMeansUnwound`, `CloseReturns`, `ExitReclaimsWithVideo`, `UnwindEndsAll` |
| `callbacks` | both platforms, one caller and the opener, queues of 1, 2 chunks of each kind | `OrderKept`, `DeliveryOnLiveSession`, `NothingLeftBehind`, `CloseReturns`, `CallbackReturns` |
| `pipewire` | two callers, queue of 1, 2 buffers, 3 frames, 2 formats | `FramesKept`, `BuffersConserved`, `CallbacksBeforeDestroy`, `NothingLeftBehind`, `CloseReturns` |
| `linux` | two openers | `OwnSession`, `NothingLeftBehind` |
| `ts` | packets of 24 bytes; start-up of 3 half packets, probe of at most 6, reads of 2, a pipe of 2, 8 written | `InOrder`, `StartVerified`, `PipeOutlivesFfmpeg`, `StartReturns`, `CloseEndsAll` |
| `hls` | two programs, two directory names, two ticks to the age of removal | `LiveDirectoryKept`, `Reclaimed` |

`relay`, `session`, `callbacks`, `ts` and `hls` also check the `TypeOK` of
their module. Those of all modules are proved.

Why the bounds are enough. Four buffers can be live at once, so a pool of five
shows that the fifth is never needed, and four frames let every buffer be in a
different place. With an interval of 2 an instant can fall between two frames,
and seven instants let a stall exceed the debt limit of two frames and be
followed by a burst. A read of one and a half PCM frames alternates between
leaving half a frame and completing it; twelve bytes are enough to exceed the
dead band and a buffer; three instants let the deficit reach the fill threshold
and the pacer abandon time. Two callers, the waiter and the starter are all the
roles that enter `Close`; a third caller adds no new interleaving of roles.
A queue of one is full as soon as a second chunk arrives, so the drop races the
loop that takes; a loop holds one chunk more, and the third frame of `pipewire`
meets a full queue and a busy writer at once. Two buffers are enough for the
video callback to pass over one; two formats let a rate be read between them.
Two openers are enough for one's response to reach the other's channel. One
caller and the opener of a failed `open` are the two that can reach the body of
`Close` of a callback backend; a further caller only waits for the `sync.Once`.
A packet of 24 bytes has room for a PAT with two entries, an adaptation field
and the checksum. Three half packets end the start-up inside a packet, six let
the probe give up, and eight leave data to hand over behind either; reads and
pipe are smaller than each of them, so a read ends inside a packet and the pipe
is full. Two programs are one that cleans up and one that lives or died; with two
names a program may get a new directory while its old one is still there; two
ticks tell a fresh directory from one that is about to count as old.

Runs that end in a violation record where the code and its text disagree:

| run | the text | the code |
|---|---|---|
| `session_exit` | session.go:99, resources are reclaimed even if the caller forgets to Close after ffmpeg exits | `cmd.Wait` first waits for the stdin copy, which is blocked in the pacer until a first frame arrives |
| `hls_close` | session.go:24, Cleanup runs once ffmpeg is dead; hls/lifecycle_test.go:243, the directory goes after ffmpeg is dead | `Kill` is asynchronous and nothing in `Close` waits: a segment written while the directory is removed makes the removal fail, and the directory stays |

### Fairness

Safety needs none. For liveness:

- weak fairness of every goroutine step that can run: the Go scheduler is
  preemptive and starves nobody;
- strong fairness of single cases of a `select` (`PacerSourceError`,
  `RelayStop`, `RelayTick`): Go picks uniformly among ready cases, so a case
  that is ready again and again is taken;
- `CloseSourceDone` in `FramePacer`: the backend's Close returns. It is *not*
  assumed in `SessionLifecycle`, where `closeBounded` exists because it may not;
- strong fairness of `LoopStop` (`CallbackCapture`) and `LoopQuit`
  (`PipeWireStream`): a select that can stop, and a loop told to quit, do so
  although there is always something to process;
- strong fairness of `WaitFail` (`HlsOutput`): the wait for the playlist ends by
  its timeout although the ticker goes on;
- an ffmpeg that was told to die does (`TransportStream`, `HlsOutput`);
- the audio thread of Windows runs out of packets once Stop is under way, since
  its audio client is stopped (`CallbackCapture`);
- time passes (`Tick` of `HlsOutput`);
- the timers of `waitForFirstFrame`, `waitForStream` and `WaitFrameRate` expire;
- never assumed: that the copy to ffmpeg's stdin ends, that ffmpeg reads or writes, that a frame arrives, that an
  `SCStream` stops, that a renderer reads, that a caller closes.
  Where a property needs one of these it says so as its premise
  (`[]<>(ppc \notin {"firstWrite", "write"}) => ...`: every write ends).
  `CloseEndsAll` of `TransportStream` has the end of the stdin copy as its premise:
  `session_exit` shows the copy outliving ffmpeg, and where the backend's Close
  hangs, `closeBounded` gives up, nobody closes the pacer's pipe and it outlives
  the session. `StartReturns` needs no such premise.

`ReadingSpec` of `SessionLifecycle` adds an ffmpeg that reads; it only serves
`session_exit`, where it makes the counterexample stronger.

Two assumptions of `HlsOutput` restrict its environment, also for safety:
`Drawn` says that the random name of a new directory is not one that somebody
still refers to, and `Tick` that a running session changes its directory within
the twelve hours after which the clean-up takes a directory for abandoned. A
session paused for longer (a suspended machine) loses its directory.

## 4. What is proved

`FramePacerProofs`, for every pool of buffers, frame interval, burst limit, debt
limit and bound, from the named assumptions of `FramePacer` alone:

| theorem | property |
|---|---|
| `TypeCorrect` | `TypeOK`, with the couplings of program counters and buffers |
| `BuffersAreExclusive` | `BufferExclusive` |
| `ReaderDoesNotPark` | `ReaderNeverParks` |
| `SkewIsAccounted` | `SkewAccounted` |
| `VideoIsNotAhead` | `VideoNotAhead` |
| `DropsOnlyOverloaded` | `DropOnlyOverloaded` |
| `PictureNeverBackwards` | `NeverBackwards` |
| `NewestIsKept` | `NewestFrameKept` |
| `NoneStranded` | `NobodyStranded` |
| `PacerKeepsTrack` | `KeepsTrack`: `FramePacer` implements `PacedTrack` |
| `PacerDrivesSkew` | `DrivesSkew`: `FramePacer` implements `TimelineSkew` |

The argument has three layers. `Shape` strengthens `TypeOK` with two facts that
hold between program counters: a frame just received is still there, and a drop
only starts past the debt limit. `Timeline` adds what relates the pacer's
numbers between steps: while a burst runs, the frames still due were measured
against time that has passed, and between the two atomic additions of a drop
`frames` is ahead of `dropped` by exactly the span being dropped; without that
clause `SkewAccounted` is not inductive. `Exclusive` says that the owners of
buffers and the free pool are pairwise apart. Each is shown to hold initially
and to be preserved action by action; the refinement shows that every step maps
to `Pass`, `Emit` or a stutter.

`NeverBackwards` and `NewestFrameKept` rest on `Exclusive`. `InOrder` orders the
contents of the buffers by where they are: what ffmpeg has seen, the pacer's
latest frame, the one it just received, `frameCh`, the one the reader holds.
A capture writes into a buffer the reader alone owns, and that it is alone is
what keeps a newer frame out of one that waits in front of older ones.
`PacerDrivesSkew` discharges the environment of `AudioRelay`: the clock, the end
of the first write and three steps of the pacer are steps of the skew, and all
others leave it alone (`SkewPacer`, `SkewNext`); that the span of a drop is at
least one unit and leaves at least one takes the whole of `Timeline`
(`SkewDrop`). The runs repeat only `BufferExclusive`, `NeverBackwards`,
`KeepsTrack` and `DrivesSkew`; TLC checked the others before they were proved.

`AudioRelayProofs`, for every size of frame, read, queue and silence, every rate
and every threshold, from the named assumptions of `AudioRelay`:

| theorem | property |
|---|---|
| `TypeCorrect` | `TypeOK` |
| `ChannelsAligned` | `PhaseAligned` |
| `NeverReplayed` | `NoReplay` |
| `PrerollDiscarded` | `PrerollBounded` |
| `NoneStranded` | `NobodyStranded` |
| `RelayKeepsTrack` | `KeepsTrack`: `AudioRelay` implements `PacedTrack` |

None of them is inductive. `Control` says which buffers exist at which program
counter. `WholeFrames` adds the carry to `PhaseAligned`: the next buffer starts
where it does. `InCaptureOrder` orders what ffmpeg heard, the relay's buffer, the
queue and the buffer on offer by capture offset, pairwise, because a drop from
the front of the queue may happen between any two steps of the relay; and
`Discarded` says that once the queue has been emptied nothing older than the
connection is on its way. For the refinement no remembered clock may be ahead of
the real one (`Clocks`). Three lemmas do the arithmetic: what `alignAudio` returns
is whole frames, at most the bytes asked for, and monotone.

`SessionLifecycleProofs`, for any set of callers:

| theorem | property |
|---|---|
| `TypeCorrect` | `TypeOK`, with one owner of the video input at every point |
| `CloseUnwinds` | `ReturnedMeansUnwound` |
| `NoneStranded` | `NobodyStranded` |

`TypeOK` needs to know that an unwind only starts when there is a capture
(`Ownership`), `ReturnedMeansUnwound` what each step of the unwind leaves behind
for good (`Achieved`), which nothing built or launched later may undo
(`Building`). Of the directory it says that Cleanup has been run. Cleanup may fail,
which Close only reports (`UnwindCleanup` leaves the directory or not); how it
does is in `HlsOutput` and shown by `hls_close`.

`PipeWireStreamProofs`, for any callers, server buffers and capacity of `frameCh`:

| theorem | property |
|---|---|
| `TypeCorrect` | `TypeOK`, with a buffer in hand exactly between dequeue and return |
| `BuffersReturn` | `BuffersConserved` |
| `CallbacksFirst` | `CallbacksBeforeDestroy` |
| `CloseUnwinds` | `NothingLeftBehind` |
| `NewestAndInOrder` | `FramesKept` |
| `NoneStranded` | `NobodyStranded` |

`BuffersConserved` is inductive with `TypeOK`. The next two rest on what the opener
owns at each of its steps, with the loop and Close only after it (`Opened`), and
on what Close has achieved past each of its own (`Unwound`). For `FramesKept`,
`InCaptureOrder` orders what is between the server and the consumer, and
`NewestKept` follows the newest frame through `enqueueFrame`: from the moment it is
on offer until the second send it is only in the callback's hand, while the oldest
is dropped. That the pieces make one ascending sequence is a lemma about
concatenation (`Concatenated`).

`CallbackCaptureProofs`, for any callers and capacity of the queues, on both
platforms at once:

| theorem | property |
|---|---|
| `TypeCorrect` | `TypeOK`, with the count of callbacks and the serial queue of macOS |
| `SessionOutlivesDelivery` | `DeliveryOnLiveSession` |
| `CloseUnwinds` | `NothingLeftBehind` |
| `ChunksInOrder` | `OrderKept` |
| `NoneStranded` | `NobodyStranded` |

`SessionOutlivesDelivery` is the handshake of `StopWinCapture` with
`FrameCallbackGuard` (`Stopped`) and its wait for the audio thread (`Threaded`).
The event stays reset from a callback's reset to its signal, so a Stop that looks
after the reset waits for the callback's end. A callback that resets the event
later finds `shuttingDown` set in its second test and leaves without copying. Being
counted is not enough: between the increment and the reset the event is still
signalled, Stop passes, and the callback may go on to leave on a freed session.
That is why the property is about copying and delivering only. The proof shows
that the first test is not needed for it. Nor is it that the frame handler is
removed first: the theorem would hold if revoking it had no effect.
`CloseUnwinds` follows the steps of open
and of Close on each platform (`Opened`, `Unwound`, with `PastPipes`, `PastVideo`,
`PastJoins` and `PastFree` for their order). The order of the chunks is proved once
for one kind, as lemmas about what a capture, a send, a drop, a take and a read do
to five numbers and a queue (`InOrder`).

`NobodyStranded`, in five modules, is the safety half of their liveness
properties, which fairness and the prover's reach leave to TLC: nobody is in a
wait that nobody will end. It lists who waits where, and says of each that what
it waits for is there, or that the one who provides it has not come to that yet;
and that the second send of a drop-oldest queue, whose `default` branch the
models leave out, always finds room. It is not inductive. `Unwinding` (pacer,
relay) says what a goroutine that ended has left closed, and what each step of
Close has; `Early`, `Room`, `Signal` and `Joining` (callback backends) follow the
order of open, the single sender of a queue, the event of a draining Close and
who is joined; `Waits` (PipeWire) the quit, the reader and the one slot a drop
has made; `Attached` and `VideoClosed` (session) who exists when, since a closed
pipe says nothing of a session without a pacer.

The inductive invariant of each module was checked by TLC on the constants of the
module's run before it was proved.

`LinuxCaptureProofs`, for any finite set of openers:

| theorem | property |
|---|---|
| `TypeCorrect` | `TypeOK`, with listening exactly while waiting |
| `SessionsAreOwn` | `OwnSession` |
| `LeavesNothing` | `NothingLeftBehind` |

`TypeOK` is taken in two halves, what openers and portal keep (`Kept`) and the
bus (`Bus`). `OwnSession` is inductive with them: only `Respond` takes a handle,
and it compares the path first. `NothingLeftBehind` is not: an answer to a
request still under way could bring a closed session back. `Turn` excludes it
(the portal only works on a request whose session is ready for it, and closing
a session ends its request), and `Streams` says how far open and Close are while
a stream can be open.

`TransportStreamProofs`, for every size of packet, read, pipe, startup buffer and
probe limit:

| theorem | property |
|---|---|
| `TypeCorrect` | `TypeOK`: the probe holds less than its limit and one read |
| `HandOver` | `InOrder` |
| `StdoutOutlives` | `PipeOutlivesFfmpeg` |
| `StreamProved` | `StartVerified` |
| `ReadsInside` | the parser indexes nothing outside a packet, whatever its bytes |

`InOrder` speaks of one concatenation. The invariant takes it apart
(`Consecutive`): the probe's buffer, its read and the pipe are runs of units, each
beginning after the one before, so that a step cuts a run in two (`FollowsCut`) or
joins two (`FollowsJoin`). That the renderer may turn to the pipe takes `Control`:
by then the probe is over and both of its buffers are empty. `StreamProved` needs
that the buffer is still what the probe found valid when Start returns
(`Verified`), while ffmpeg goes on writing, and that what the parser accepts is
what it should: `ProvedMeansAnnounced` follows from where the parser finds the
sections of the five kinds of packet, and from the PAT's checksum not being
read as an entry (`PatLists`). `ReadsInside` assumes of a packet only its size of
at least five bytes; it rests on where a section that is found can start
(`SectionInside`).

`HlsOutputProofs`, for any number of programs, directory names and ticks to the
age of removal, and a crash anywhere:

| theorem | property |
|---|---|
| `TypeCorrect` | `TypeOK` |
| `SessionsKeepDirectories` | `LiveDirectoryKept` |

`LiveDirectoryKept` is a race between two programs: one has looked at the age of a
directory and decided to remove it, and the name may meanwhile be somebody's.
`Young` says that a running session's directory has not reached the age of
removal, which is what `Tick` assumes; `NotOld` that a program which is removing a
directory removes nobody's, however long ago it decided so, since a name somebody
still refers to is not drawn again (`Drawn`); `Owned` that two sessions never
have one directory.

`StderrBuffer`, in `SessionLifecycleProofs`, for pieces of any length and any
number of them: `BufferKeepsEnd`, the invariant `KeepsEnd`: the buffer never exceeds two
mebibytes, and is all of what ffmpeg wrote or its last mebibyte at least, without
a gap. The argument is about ends of sequences: the end of an end is an end
(`EndsTransitive`), and appending to both keeps it one (`EndsAppend`). The sizes
are those of the code, far beyond TLC, so the module has no run.

Only model-checked: liveness under fairness, and with it ENABLED, both out of the
prover's reach. Every invariant and action property of a passing run is proved.

## 5. What is not modelled

Frame and sample contents, pixel formats, the normalizing of options, the choice
of the encoder with ffmpeg's command line and tuning, display listing, logging,
the HTTP handler (stateless, by `net/http`), the examples and the instruments of
the end-to-end tests: no property is about them. The pacing of synthetic silence
is one timer per read; the relay sees it as any other source. `Tail` of the
stderr buffer only reads. ffmpeg, the operating system, D-Bus and
the goroutines of `os/exec` are external: they are modelled as the code uses
them, and `PROJECT.json` marks them so. A write of a frame is atomic towards the
reader of the pipe: `os/exec` copies in chunks, but no code can observe the
middle of a frame other than by the error that ends both sides.

Behaviours that are in the models but under no property, because the code does
not guard against them and no text says it does:

- a `Response` of the portal emitted before the listener is attached, after
  which open waits for good (`Silent` in `LinuxCapture`, whose run checks safety
  only);
- a quit sent to a PipeWire loop that has not been entered, after which Close
  waits for good (`QuitLost`, the premise of `CloseReturns` in `PipeWireStream`;
  the pipeline's `closeBounded` puts a bound on it);
- a failed `dup`, which leaves the writer goroutine behind (outcome `leaked`);
- a Windows frame handler that uses the session while nobody waits for it: it looks
  at the session before it is counted, it is counted but has not yet reset the
  event, or it signals the event after it is uncounted. The session may be freed
  under it (outcome `undefined`); `DeliveryOnLiveSession` only says that nothing is
  copied or delivered then;
- a backend whose Close hangs for good: `closeBounded` gives up, but the stdin copy
  and the goroutine in `cmd.Wait` may never end (premise of `CloseEndsAll` and
  `UnwindEndsAll`);
- the finalizer of a session, which never runs while ffmpeg does, because the
  waiting goroutine refers to the session;
- the relay's own anchor when it connects between the first frame and
  `markStart`: `KeepsTrack` of `AudioRelay` holds relative to the anchor the
  relay uses. When it is ahead it trims at most the excess of one buffer and
  writes the rest of it;
- a negative elapsed time in the relay, which the comment at audio_relay.go:221
  excludes: with such an anchor, or when the pacer abandons time between
  `time.Since` and `abandoned()`. `audioBytesFor` clamps it, so that `KeepsTrack`
  holds nevertheless;
- what is still in ffmpeg's standard output when `cmd.Wait` closes it, which the
  renderer does not get (`InOrder` of `TransportStream` excepts it).

The portal's responses are taken to be well formed; restore tokens and property
queries are left out.

## 6. Plan

Order, most important first; what exists is marked.

1. `FramePacer`, `PacedTrack`, proofs (done)
2. `AudioRelay` (done)
3. `SessionLifecycle` (done)
4. `CallbackQueue`, `WindowsCapture`, `DarwinCapture`, `CallbackCapture` (done)
5. `PipeWireStream` (done)
6. `LinuxCapture`, proofs (done)
7. `TsPacket`, its proof, `TransportStream`, `HlsOutput` (done)
8. `StderrBuffer`, its proof (done)
9. Proofs of `AudioRelay`, `SessionLifecycle`, `PipeWireStream`,
   `CallbackCapture`, `TransportStream` and `HlsOutput`, of the order of frames in
   `FramePacer`, of `TimelineSkew` and of `NobodyStranded` (done)
10. Pure operators, if they come to matter: frame-rate clamps, encoder choice.
