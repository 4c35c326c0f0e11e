----------------------- MODULE SessionLifecycleProofs -----------------------
(***************************************************************************)
(* What holds of SessionLifecycle for every set of callers, and of the     *)
(* StderrBuffer a session keeps for whatever ffmpeg writes.                *)
(*                                                                         *)
(* Neither TypeOK nor ReturnedMeansUnwound is inductive.  The first needs  *)
(* to know that an unwind only starts once the capture is open, which is   *)
(* in Ownership; the second that every step of the unwind leaves behind    *)
(* what the steps before it have achieved, and that nothing is built or    *)
(* launched any more once it has begun, which is in Achieved and Building. *)
(***************************************************************************)
EXTENDS SessionLifecycle, StderrBuffer, TLAPS

\* While Prepare and Launch still run nothing has been launched or closed, and
\* the unwind has not begun; a waiter and a finalizer only exist after Launch.
Building ==
    /\ spc \in {"open", "pacer", "audio", "prepared"} =>
           /\ upc = "idle" /\ proc = "none" /\ dir = "none"
           /\ \A c \in Closers : call[c] = "idle"
    /\ spc # "launched" => wpc = "none" /\ ~finalizer

\* There is a capture from the moment Prepare has opened it, and an unwind only
\* when there is one.
Ownership ==
    /\ spc = "open" => input = "none"
    /\ spc \in {"pacer", "audio", "prepared", "launched"} \/ upc # "idle"
           => input # "none"
    /\ vpc # "none" => upc # "idle"

\* The steps of the unwind up to and including each one.
UpToKill     == {"idle", "kill"}
UpToListener == UpToKill \cup {"listener"}
UpToPump     == UpToListener \cup {"pump"}
UpToVideo    == UpToPump \cup {"video"}

\* What the unwind has achieved by the time it is past each of its steps.
Achieved ==
    /\ upc # "idle" => ~finalizer
    /\ upc \notin UpToKill => proc # "running"
    /\ upc \notin UpToListener => ~listener
    /\ upc \notin UpToPump /\ producer # "none" => pumpClosed
    /\ upc \notin UpToVideo => vpc # "none"
    /\ upc # "idle" /\ ~cleanup => dir = "none"
    /\ upc = "done" => dir # "present"
    /\ \A c \in Closers : call[c] = "returned" => upc = "done"


IInv == TypeOK /\ Building /\ Ownership /\ Achieved

USE DEF prepVars, videoVars, audioVars, ffmpegVars, waitVars, ownVars, unwindVars,
        UpToKill, UpToListener, UpToPump, UpToVideo, States, Exited

-----------------------------------------------------------------------------
\* The inductive invariant holds initially.
LEMMA InvInit == Init => IInv
  BY DEF Init, IInv, TypeOK, Building, Ownership, Achieved

\* Prepare and Launch build and launch before anything is unwound.
LEMMA InvStart ==
    ASSUME IInv, Start
    PROVE  IInv'
<1>. USE DEF IInv, TypeOK, Building, Ownership, Achieved
<1>1. CASE PrepareOpen
  <2>1. audioOpen' \in BOOLEAN
    BY <1>1 DEF PrepareOpen
  <2>. QED
    BY <1>1, <2>1 DEF PrepareOpen
<1>2. CASE PreparePacer
  <2>1. audioOpen' \in BOOLEAN /\ cleanup' \in BOOLEAN
    BY <1>2 DEF PreparePacer, BeginAbort
  <2>. QED
    BY <1>2, <2>1 DEF PreparePacer, BeginAbort
<1>3. CASE PrepareAudio
  <2>1. listener' \in BOOLEAN /\ cleanup' \in BOOLEAN
    BY <1>3 DEF PrepareAudio, BeginAbort
  <2>. QED
    BY <1>3, <2>1 DEF PrepareAudio, BeginAbort
<1>4. CASE AbortPrepared
  <2>1. cleanup' \in BOOLEAN
    BY <1>4 DEF AbortPrepared, BeginAbort
  <2>. QED
    BY <1>4, <2>1 DEF AbortPrepared, BeginAbort
<1>5. CASE LaunchFail
  <2>1. cleanup' \in BOOLEAN
    BY <1>5 DEF LaunchFail
  <2>2. call' \in [Closers -> {"idle", "in", "returned"}]
    BY <1>5 DEF LaunchFail
  <2>. QED
    BY <1>5, <2>1, <2>2 DEF LaunchFail
<1>6. CASE Launch
  BY <1>6 DEF Launch
<1>. QED
  BY <1>1, <1>2, <1>3, <1>4, <1>5, <1>6 DEF Start

\* The workers only ever end.
LEMMA InvWorkers ==
    ASSUME IInv, Workers
    PROVE  IInv'
<1>. USE DEF IInv, TypeOK, Building, Ownership, Achieved
<1>1. CASE BackendFrame
  BY <1>1 DEF BackendFrame
<1>2. CASE BackendFail
  BY <1>2 DEF BackendFail
<1>3. CASE ReaderEnd
  BY <1>3 DEF ReaderEnd
<1>4. CASE PacerEnd
  BY <1>4 DEF PacerEnd
<1>5. CASE ProducerEnd
  BY <1>5 DEF ProducerEnd
<1>6. CASE RelayAccept
  BY <1>6 DEF RelayAccept
<1>7. CASE RelayEnd
  <2>1. listener' \in BOOLEAN
    BY <1>7 DEF RelayEnd
  <2>. QED
    BY <1>7, <2>1 DEF RelayEnd
<1>. QED
  BY <1>1, <1>2, <1>3, <1>4, <1>5, <1>6, <1>7 DEF Workers

\* ffmpeg never runs again once it was killed.
LEMMA InvFfmpeg ==
    ASSUME IInv, Ffmpeg
    PROVE  IInv'
<1>. USE DEF IInv, TypeOK, Building, Ownership, Achieved
<1>1. CASE ProcExit
  BY <1>1 DEF ProcExit
<1>2. CASE CopyRead
  BY <1>2 DEF CopyRead
<1>3. CASE CopyWrite
  BY <1>3 DEF CopyWrite
<1>4. CASE CopyEnd
  BY <1>4 DEF CopyEnd
<1>. QED
  BY <1>1, <1>2, <1>3, <1>4 DEF Ffmpeg

\* The waiter touches nothing the unwind has achieved.
LEMMA InvWait ==
    ASSUME IInv, Wait
    PROVE  IInv'
<1>. USE DEF IInv, TypeOK, Building, Ownership, Achieved
<1>1. CASE WaitReap
  BY <1>1 DEF WaitReap
<1>2. CASE WaitSend
  BY <1>2 DEF WaitSend
<1>3. CASE WaitCloseDone
  BY <1>3 DEF WaitCloseDone
<1>4. CASE WaitDone
  BY <1>4 DEF WaitDone
<1>. QED
  BY <1>1, <1>2, <1>3, <1>4 DEF Wait

\* Each step of the unwind achieves its part and keeps the others.
LEMMA InvUnwind ==
    ASSUME IInv, Unwind
    PROVE  IInv'
<1>. USE DEF IInv, TypeOK, Building, Ownership, Achieved
<1>1. CASE UnwindKill
  BY <1>1 DEF UnwindKill
<1>2. CASE UnwindListener
  <2>1. listener' \in BOOLEAN
    BY <1>2 DEF UnwindListener
  <2>. QED
    BY <1>2, <2>1 DEF UnwindListener
<1>3. CASE UnwindPump
  <2>1. pumpClosed' \in BOOLEAN
    BY <1>3 DEF UnwindPump
  <2>2. Achieved'
    BY <1>3 DEF UnwindPump
  <2>. QED
    BY <1>3, <2>1, <2>2 DEF UnwindPump
<1>4. CASE UnwindVideo
  BY <1>4 DEF UnwindVideo
<1>5. CASE UnwindVideoWait
  BY <1>5 DEF UnwindVideoWait
<1>6. CASE UnwindAudio
  BY <1>6 DEF UnwindAudio
<1>7. CASE UnwindCleanup
  BY <1>7 DEF UnwindCleanup
<1>. QED
  BY <1>1, <1>2, <1>3, <1>4, <1>5, <1>6, <1>7 DEF Unwind

\* Nobody may call Close before Launch has returned.
LEMMA CallsComeLate ==
    ASSUME Building, NEW c \in Closers, MayCall(c)
    PROVE  spc = "launched"
  BY DEF Building, MayCall

\* A caller enters and leaves Close, one after the other.
LEMMA InvCall ==
    ASSUME IInv, NEW c \in Closers, CloseEnter(c) \/ CloseReturn(c)
    PROVE  IInv'
<1>0. CloseEnter(c) => spc = "launched"
  BY CallsComeLate DEF CloseEnter, IInv
<1>. USE DEF IInv, TypeOK, Building, Ownership, Achieved
<1>1. CASE CloseEnter(c)
  <2>1. cleanup' \in BOOLEAN /\ finalizer' \in BOOLEAN
    BY <1>1 DEF CloseEnter
  <2>2. CASE upc = "idle"
    BY <1>1, <1>0, <2>1, <2>2 DEF CloseEnter
  <2>3. CASE upc # "idle"
    BY <1>1, <1>0, <2>1, <2>3 DEF CloseEnter
  <2>. QED
    BY <2>2, <2>3
<1>2. CASE CloseReturn(c)
  BY <1>2 DEF CloseReturn
<1>. QED
  BY <1>1, <1>2

\* The Close of the video input goes on beside the unwind.
LEMMA InvVideo ==
    ASSUME IInv, VideoCloseBackend \/ VideoClosePipe
    PROVE  IInv'
<1>. USE DEF IInv, TypeOK, Building, Ownership, Achieved
<1>1. CASE VideoCloseBackend
  <2>1. audioOpen' \in BOOLEAN
    BY <1>1 DEF VideoCloseBackend
  <2>. QED
    BY <1>1, <2>1 DEF VideoCloseBackend
<1>2. CASE VideoClosePipe
  BY <1>2 DEF VideoClosePipe
<1>. QED
  BY <1>1, <1>2

\* IInv is inductive.
LEMMA InvNext == IInv /\ [Next]_vars => IInv'
<1>. SUFFICES ASSUME IInv, [Next]_vars
              PROVE  IInv'
  OBVIOUS
<1>1. CASE Abandon
  <2>1. held' \in BOOLEAN
    BY <1>1 DEF Abandon
  <2>. QED
    BY <1>1, <2>1 DEF Abandon, IInv, TypeOK, Building, Ownership, Achieved
<1>2. CASE Terminated \/ UNCHANGED vars
  BY <1>2 DEF Terminated, vars, IInv, TypeOK, Building, Ownership, Achieved
<1>. QED
  BY <1>1, <1>2, InvStart, InvWorkers, InvFfmpeg, InvWait, InvUnwind, InvCall,
     InvVideo DEF Next

\* The invariant holds of every behaviour.
LEMMA Invariant == Spec => []IInv
  BY InvInit, InvNext, PTL DEF Spec

-----------------------------------------------------------------------------
\* Every variable keeps its type, and the video input has one owner at every
\* point of Prepare, Launch and the unwind.
THEOREM TypeCorrect == Spec => []TypeOK
<1>1. IInv => TypeOK
  BY DEF IInv
<1>. QED
  BY <1>1, Invariant, PTL

\* Whoever returns from Session.Close finds the session unwound: the first caller,
\* one that waited for it, the goroutine waiting for ffmpeg, and a Launch that
\* failed halfway.  Unwound means that every step was taken, not that Cleanup, whose
\* error is only reported, succeeded.
THEOREM CloseUnwinds == Spec => []ReturnedMeansUnwound
<1>1. IInv => ReturnedMeansUnwound
  BY DEF IInv, Achieved, ReturnedMeansUnwound
<1>. QED
  BY <1>1, Invariant, PTL

-----------------------------------------------------------------------------
(***************************************************************************)
(* The end.  That the pipe is closed says nothing of a session that has    *)
(* no pacer: NobodyStranded needs who exists when, which is Attached, and  *)
(* what the goroutine of closeBounded has closed, which is VideoClosed.    *)
(***************************************************************************)

\* Whoever runs has somebody on the other side: ffmpeg is only launched on a
\* pacer, and the relay started with a producer.
Attached ==
    /\ spc \in {"audio", "prepared", "launched"} => input = "pacer"
    /\ spc # "launched" => proc = "none" /\ copy = "none"
    /\ relay # "none" => producer # "none"
    /\ wpc = "wait" <=> proc \in {"running", "killed", "dead"}
    /\ (\E c \in Closers : call[c] = "in") => upc # "idle"

\* What the Close of the video input has closed past each of its steps.
VideoClosed ==
    /\ vpc \in {"pipe", "done"} => backend = "closed"
    /\ vpc = "done" /\ input = "pacer" => pipe = "closed"

Ended == IInv /\ Attached /\ VideoClosed

\* Launching comes after the pacer is there, and both before the unwind.
LEMMA EndedNext ==
    ASSUME Ended, [Next]_vars, IInv'
    PROVE  Ended'
<1>. USE DEF Ended, IInv, TypeOK, Building, Ownership, Attached, VideoClosed
<1>1. CASE Start
  BY <1>1 DEF Start, PrepareOpen, PreparePacer, PrepareAudio, AbortPrepared,
              LaunchFail, Launch, BeginAbort
<1>2. CASE Workers
  BY <1>2 DEF Workers, BackendFrame, BackendFail, ReaderEnd, PacerEnd, ProducerEnd,
              RelayAccept, RelayEnd
<1>3. CASE Ffmpeg
  BY <1>3 DEF Ffmpeg, ProcExit, CopyRead, CopyWrite, CopyEnd
<1>4. CASE Wait
  BY <1>4 DEF Wait, WaitReap, WaitSend, WaitCloseDone, WaitDone
<1>5. CASE Unwind
  BY <1>5 DEF Unwind, UnwindKill, UnwindListener, UnwindPump, UnwindVideo,
              UnwindVideoWait, UnwindAudio, UnwindCleanup, Achieved
<1>6. ASSUME NEW c \in Closers, CloseEnter(c) \/ CloseReturn(c)
      PROVE  Ended'
  BY <1>6 DEF CloseEnter, CloseReturn
<1>7. CASE VideoCloseBackend \/ VideoClosePipe
  BY <1>7 DEF VideoCloseBackend, VideoClosePipe
<1>8. CASE Abandon \/ Terminated \/ UNCHANGED vars
  BY <1>8 DEF Abandon, Terminated, vars
<1>. QED
  BY <1>1, <1>2, <1>3, <1>4, <1>5, <1>6, <1>7, <1>8 DEF Next

\* Whatever fails, is closed or exits first, nobody is left waiting for what
\* can no longer happen: not a caller of Close for an unwind nobody runs, nor
\* a goroutine of the session for a pipe, pump, listener or process that the
\* unwind has left alone.
THEOREM NoneStranded == Spec => []NobodyStranded
<1>1. Init => Ended
  BY InvInit DEF Init, Ended, Attached, VideoClosed
<1>2. Ended /\ [Next]_vars => Ended'
  BY InvNext, EndedNext DEF Ended
<1>3. Ended => NobodyStranded
  BY DEF Ended, IInv, TypeOK, Achieved, Attached, VideoClosed, NobodyStranded
<1>. QED
  BY <1>1, <1>2, <1>3, PTL DEF Spec

-----------------------------------------------------------------------------
(***************************************************************************)
(* The end of ffmpeg's standard error a session keeps.  KeepsEnd is        *)
(* inductive; the lemmas are about ends of sequences, since a trim takes   *)
(* the end of what is itself the end of everything written.                *)
(***************************************************************************)

\* A trim keeps something, and less than it cuts at.
LEMMA Limits ==
    /\ maxStderrCaptureBytes \in Nat /\ keepStderrCaptureBytes \in Nat
    /\ keepStderrCaptureBytes <= maxStderrCaptureBytes
  BY SMT DEF maxStderrCaptureBytes, keepStderrCaptureBytes

\* The end of a sequence is as long as it is asked to be, and ends it.
LEMMA FinalEnds ==
    ASSUME NEW s \in Seq(Byte), NEW n \in 0..Len(s)
    PROVE  Final(s, n) \in Seq(Byte) /\ Len(Final(s, n)) = n /\ EndsIn(s, Final(s, n))
<1>. DEFINE f == Final(s, n)
<1>1. f \in Seq(Byte) /\ Len(f) = n
  BY DEF Final
<1>2. ASSUME NEW i \in 1..n PROVE f[i] = s[Len(s) - n + i]
  BY <1>2 DEF Final
<1>. QED
  BY <1>1, <1>2 DEF EndsIn

\* The end of an end is an end.
LEMMA EndsTransitive ==
    ASSUME NEW s \in Seq(Byte), NEW e \in Seq(Byte), NEW f \in Seq(Byte),
           EndsIn(s, e), EndsIn(e, f)
    PROVE  EndsIn(s, f)
<1>1. Len(f) <= Len(s)
  BY DEF EndsIn
<1>2. ASSUME NEW i \in 1..Len(f) PROVE f[i] = s[Len(s) - Len(f) + i]
  <2>1. Len(e) - Len(f) + i \in 1..Len(e)
    BY DEF EndsIn
  <2>2. f[i] = e[Len(e) - Len(f) + i]
    BY DEF EndsIn
  <2>3. e[Len(e) - Len(f) + i] = s[Len(s) - Len(e) + (Len(e) - Len(f) + i)]
    BY <2>1 DEF EndsIn
  <2>. QED
    BY <2>2, <2>3
<1>. QED
  BY <1>1, <1>2 DEF EndsIn

\* Appending to both keeps an end an end.
LEMMA EndsAppend ==
    ASSUME NEW s \in Seq(Byte), NEW e \in Seq(Byte), NEW p \in Seq(Byte), EndsIn(s, e)
    PROVE  EndsIn(s \o p, e \o p)
<1>1. Len(s \o p) = Len(s) + Len(p) /\ Len(e \o p) = Len(e) + Len(p)
  OBVIOUS
<1>2. ASSUME NEW i \in 1..(Len(e) + Len(p))
      PROVE  (e \o p)[i] = (s \o p)[Len(s) - Len(e) + i]
  <2>. DEFINE j == Len(s) - Len(e) + i
  <2>0. Len(e) <= Len(s) /\ j \in 1..(Len(s) + Len(p)) /\ j - Len(s) = i - Len(e)
    BY DEF EndsIn
  <2>1. CASE i <= Len(e)
    <3>1. (e \o p)[i] = e[i] /\ (s \o p)[j] = s[j]
      BY <2>0, <2>1
    <3>2. e[i] = s[j]
      BY <2>1 DEF EndsIn
    <3>. QED
      BY <3>1, <3>2
  <2>2. CASE ~(i <= Len(e))
    <3>1. (e \o p)[i] = p[i - Len(e)] /\ (s \o p)[j] = p[j - Len(s)]
      BY <2>0, <2>2
    <3>. QED
      BY <2>0, <3>1
  <2>. QED
    BY <2>1, <2>2
<1>. QED
  BY <1>1, <1>2 DEF EndsIn

\* The buffer is always the bounded end of ffmpeg's standard error.
THEOREM BufferKeepsEnd == BufferSpec => []KeepsEnd
<1>1. BufferInit => KeepsEnd
  BY Limits DEF BufferInit, KeepsEnd, EndsIn
<1>2. KeepsEnd /\ [BufferNext]_<<written, buf>> => KeepsEnd'
  <2>. SUFFICES ASSUME KeepsEnd, NEW p \in Seq(Byte), Write(p)
                PROVE  KeepsEnd'
    BY DEF BufferNext, KeepsEnd, EndsIn
  <2>. DEFINE s == buf \o p
  <2>1. /\ s \in Seq(Byte) /\ written' \in Seq(Byte)
        /\ Len(s) = Len(buf) + Len(p)
        /\ EndsIn(written', s)
    BY EndsAppend DEF KeepsEnd, Write
  <2>2. CASE Len(s) > maxStderrCaptureBytes
    <3>1. buf' = Final(s, keepStderrCaptureBytes)
      BY <2>2 DEF Write, Trimmed
    <3>0. keepStderrCaptureBytes \in 0..Len(s)
      BY <2>1, <2>2, Limits
    <3>2. buf' \in Seq(Byte) /\ Len(buf') = keepStderrCaptureBytes /\ EndsIn(s, buf')
      BY <2>1, <3>0, <3>1, FinalEnds
    <3>3. EndsIn(written', buf')
      BY <2>1, <3>2, EndsTransitive
    <3>. QED
      BY <2>1, <3>2, <3>3, Limits DEF KeepsEnd, EndsIn
  <2>3. CASE Len(s) <= maxStderrCaptureBytes
    <3>1. buf' = s
      BY <2>1, <2>3, Limits DEF Write, Trimmed
    <3>2. buf' = written' \/ Len(buf') >= keepStderrCaptureBytes
      <4>1. CASE buf = written
        BY <3>1, <4>1 DEF Write
      <4>2. CASE Len(buf) >= keepStderrCaptureBytes
        BY <2>1, <3>1, <4>2, Limits DEF KeepsEnd
      <4>. QED
        BY <4>1, <4>2 DEF KeepsEnd
    <3>. QED
      BY <2>1, <2>3, <3>1, <3>2 DEF KeepsEnd, EndsIn
  <2>. QED
    BY <2>1, <2>2, <2>3, Limits
<1>. QED
  BY <1>1, <1>2, PTL DEF BufferSpec

=============================================================================
