----------------------------- MODULE AudioRelay -----------------------------
(***************************************************************************)
(* internal/pipeline/audio_relay.go: the goroutines between the capture    *)
(* audio source and the loopback socket ffmpeg reads PCM from.             *)
(*                                                                         *)
(*   producer  reads the source, holds back what is not a whole PCM frame  *)
(*             and offers the rest in a queue that drops its oldest buffer;*)
(*   relay     accepts ffmpeg's connection, throws away what was captured  *)
(*             before it, and then keeps the number of bytes written equal *)
(*             to the real time since video pts 0, less what the pacer     *)
(*             abandoned: it trims when ahead and writes silence when      *)
(*             behind;                                                     *)
(*   closer    the steps of Prepared.Abort this component sees.            *)
(*                                                                         *)
(* The pacer's side of timelineSkew is the environment: TimelineSkew, which*)
(* FramePacer implements.  Samples are reduced to their offset in the      *)
(* capture, so a buffer is an interval of offsets.                         *)
(* An operator X_Fault next to X is X with a plausible mistake in it.      *)
(***************************************************************************)
EXTENDS TimelineSkew, Sequences

CONSTANTS
    FrameBytes,     \* AudioFrameBytes
    ChunkSize,      \* chunkSize of startAudioPump
    QueueSize,      \* capacity of audioPump.ch
    Rate,           \* bytes per unit of time, a multiple of FrameBytes
    FillThreshold,  \* audioFillThreshold in bytes
    TrimThreshold,  \* audioTrimThreshold in bytes
    SilenceBytes,   \* audioFillChunk in bytes
    ReadSizes,      \* bound: bytes one Read of the source may return
    MaxNow,         \* bound: last instant of the clock
    MaxCaptured     \* bound: bytes the source delivers

ASSUME SizeAssumption ==
    /\ FrameBytes \in Nat \ {0} /\ QueueSize \in Nat \ {0}
    /\ {ChunkSize, Rate, FillThreshold, TrimThreshold, SilenceBytes}
         \subseteq Nat \ {0}
ASSUME WholeFramesAssumption ==
    \A n \in {Rate, FillThreshold, TrimThreshold, SilenceBytes} :
        n % FrameBytes = 0
ASSUME FillAssumption  == SilenceBytes <= FillThreshold
ASSUME BoundAssumption ==
    ReadSizes \subseteq Nat \ {0} /\ MaxNow \in Nat /\ MaxCaptured \in Nat

VARIABLES
    source,     \* the capture audio source still delivers
    captured,   \* bytes read from it
    head,       \* capture offset of buf[0]: carry = captured - head
    ppc,        \* producer's program counter
    pbuf,       \* producer: the buffer it offers
    perr,       \* producer: the Read that filled it also failed
    ch,         \* audioPump.ch
    chClosed,   \* close(p.ch) has run
    closed,     \* audioPump.closed
    listener,   \* the loopback listener is open
    conn,       \* "none", "open", or "gone" once either end closed it
    rpc,        \* relay's program counter
    rstart,     \* relay: start
    since,      \* relay: the time.Since(start) of elapsed()
    hand,       \* relay: the buffer it received, or the silence it writes
    tick,       \* ticker.C holds a tick
    written,    \* relay: written
    heard,      \* end of the last captured interval ffmpeg got
    atAccept,   \* bytes captured when ffmpeg connected
    cpc         \* closer's program counter

prodVars  == <<source, captured, head, ppc, pbuf, perr>>
pumpVars  == <<ch, chClosed, closed>>
netVars   == <<listener, conn>>
relayVars == <<rpc, rstart, since, hand, tick, written, heard, atAccept>>
vars == <<skewVars, prodVars, pumpVars, netVars, relayVars, cpc>>

-----------------------------------------------------------------------------
(* Byte arithmetic                                                         *)

\* Every byte instead of whole frames.
AlignAudio_None(n) == n

\* alignAudio: rounds down to a whole PCM frame.
AlignAudio(n) == IF n <= 0 THEN 0 ELSE n - (n % FrameBytes)

\* audioExpectedBytes: bytes a track of this length has.
ExpectedBytes(elapsed) == IF elapsed <= 0 THEN 0 ELSE AlignAudio(elapsed * Rate)

Smaller(m, n) == IF m < n THEN m ELSE n

Buffer(from, len) == [from |-> from, len |-> len]
NoBuffer == Buffer(0, 0)

\* A chunk of silence has no place in the capture.
Silence == Buffer(0, SilenceBytes)

\* Largest buffer the producer offers.
MaxBuffer == AlignAudio(ChunkSize + FrameBytes)

-----------------------------------------------------------------------------
Init ==
    /\ SkewInit
    /\ source = TRUE /\ captured = 0 /\ head = 0
    /\ ppc = "read" /\ pbuf = NoBuffer /\ perr = FALSE
    /\ ch = <<>> /\ chClosed = FALSE /\ closed = FALSE
    /\ listener = TRUE /\ conn = "none"
    /\ rpc = "accept" /\ rstart = 0 /\ since = 0 /\ hand = NoBuffer
    /\ tick = FALSE /\ written = 0 /\ heard = 0 /\ atAccept = 0
    /\ cpc = "idle"

-----------------------------------------------------------------------------
(* Time, and the pacer's side of the skew                                  *)

Advance ==
    /\ now < MaxNow
    /\ TimePasses
    /\ UNCHANGED <<prodVars, pumpVars, netVars, relayVars, cpc>>

Video ==
    /\ VideoFirstFrame \/ VideoStart \/ VideoMark \/ VideoDrop
    /\ UNCHANGED <<prodVars, pumpVars, netVars, relayVars, cpc>>

-----------------------------------------------------------------------------
(* The producer goroutine                                                  *)

\* The whole frames are offered and then held back as well.
ProducerRead_KeepAll ==
    /\ ppc = "read" /\ source
    /\ \E n \in ReadSizes, e \in BOOLEAN :
         LET aligned == AlignAudio(captured - head + n)
         IN  /\ n <= ChunkSize + FrameBytes - (captured - head)
             /\ captured + n <= MaxCaptured
             /\ captured' = captured + n
             /\ perr' = e
             /\ source' = ~e
             /\ head' = head
             /\ pbuf' = Buffer(head, aligned)
             /\ ppc' = IF aligned > 0 THEN "offer"
                       ELSE IF e THEN "close" ELSE "check"
    /\ UNCHANGED <<now, videoVars, pumpVars, netVars, relayVars, cpc>>

\* src.Read returns n bytes, and may report the end with them.  What is not a
\* whole frame stays at the front of buf.
ProducerRead ==
    /\ ppc = "read" /\ source
    /\ \E n \in ReadSizes, e \in BOOLEAN :
         LET aligned == AlignAudio(captured - head + n)
         IN  /\ n <= ChunkSize + FrameBytes - (captured - head)
             /\ captured + n <= MaxCaptured
             /\ captured' = captured + n
             /\ perr' = e
             /\ source' = ~e
             /\ head' = head + aligned
             /\ pbuf' = Buffer(head, aligned)
             /\ ppc' = IF aligned > 0 THEN "offer"
                       ELSE IF e THEN "close" ELSE "check"
    /\ UNCHANGED <<now, videoVars, pumpVars, netVars, relayVars, cpc>>

\* src.Read returns no bytes and an error: the source ended or was closed.
ProducerEnd ==
    /\ ppc = "read" /\ ~source
    /\ ppc' = "close"
    /\ UNCHANGED <<now, videoVars, source, captured, head, pbuf, perr, pumpVars,
                   netVars, relayVars, cpc>>

AfterOffer == IF perr THEN "close" ELSE "check"

\* The first select of offer falls through to the second attempt.
ProducerSend_FallThrough ==
    /\ ppc \in {"offer", "retry"} /\ Len(ch) < QueueSize
    /\ ch' = Append(ch, pbuf)
    /\ pbuf' = IF ppc = "offer" THEN pbuf ELSE NoBuffer
    /\ ppc' = IF ppc = "offer" THEN "retry" ELSE AfterOffer
    /\ UNCHANGED <<now, videoVars, source, captured, head, perr, chClosed, closed,
                   netVars, relayVars, cpc>>

\* The first select of offer, and the last one.  The default branch of the last
\* one, which loses b itself, is never taken: only the producer sends.
ProducerSend ==
    /\ ppc \in {"offer", "retry"} /\ Len(ch) < QueueSize
    /\ ch' = Append(ch, pbuf)
    /\ pbuf' = NoBuffer
    /\ ppc' = AfterOffer
    /\ UNCHANGED <<now, videoVars, source, captured, head, perr, chClosed, closed,
                   netVars, relayVars, cpc>>

ProducerFull ==
    /\ ppc = "offer" /\ Len(ch) = QueueSize
    /\ ppc' = "drop"
    /\ UNCHANGED <<now, videoVars, source, captured, head, pbuf, perr, pumpVars,
                   netVars, relayVars, cpc>>

\* Drop the oldest buffer, unless the relay emptied the queue meanwhile.
ProducerDropOldest ==
    /\ ppc = "drop"
    /\ ch' = IF ch = <<>> THEN ch ELSE Tail(ch)
    /\ ppc' = "retry"
    /\ UNCHANGED <<now, videoVars, source, captured, head, pbuf, perr, chClosed,
                   closed, netVars, relayVars, cpc>>

ProducerCheck ==
    /\ ppc = "check"
    /\ ppc' = IF closed THEN "close" ELSE "read"
    /\ UNCHANGED <<now, videoVars, source, captured, head, pbuf, perr, pumpVars,
                   netVars, relayVars, cpc>>

\* The deferred close(p.ch), then close(p.done).
ProducerClose ==
    /\ ppc = "close"
    /\ chClosed' = TRUE
    /\ ppc' = "done"
    /\ UNCHANGED <<now, videoVars, source, captured, head, pbuf, perr, ch, closed,
                   netVars, relayVars, cpc>>

\* Everything the producer does but wait for the source to deliver.
ProducerWork == \/ ProducerEnd \/ ProducerSend \/ ProducerFull
                \/ ProducerDropOldest \/ ProducerCheck \/ ProducerClose

-----------------------------------------------------------------------------
(* The relay goroutine                                                     *)

Running == {"select", "trim", "trimRead", "write", "tick", "tickRead", "silence"}

\* The deferred conn.Close and listener.Close.
RelayReturn ==
    /\ rpc' = "done"
    /\ listener' = FALSE
    /\ conn' = IF conn = "open" THEN "gone" ELSE conn

\* Accept fails once the listener is closed.
RelayAcceptFail ==
    /\ rpc = "accept" /\ ~listener
    /\ RelayReturn
    /\ UNCHANGED <<now, videoVars, prodVars, pumpVars, rstart, since, hand, tick,
                   written, heard, atAccept, cpc>>

\* ffmpeg opens its inputs in order: it has drained a video frame by now.
RelayAccept ==
    /\ rpc = "accept" /\ listener /\ vpc # "first"
    /\ conn' = "open"
    /\ atAccept' = captured
    /\ rpc' = "discard"
    /\ UNCHANGED <<now, videoVars, prodVars, pumpVars, listener, rstart, since,
                   hand, tick, written, heard, cpc>>

\* Start relaying with whatever the queue holds.
RelayDiscard_Nothing ==
    /\ rpc = "discard"
    /\ rpc' = "clock"
    /\ UNCHANGED <<now, videoVars, prodVars, pumpVars, netVars, rstart, since,
                   hand, tick, written, heard, atAccept, cpc>>

\* discardBuffered: one buffer at a time until the queue is empty.
RelayDiscard ==
    /\ rpc = "discard"
    /\ IF ch # <<>>
       THEN ch' = Tail(ch) /\ UNCHANGED rpc
       ELSE rpc' = "clock" /\ UNCHANGED ch
    /\ UNCHANGED <<now, videoVars, prodVars, chClosed, closed, netVars, rstart,
                   since, hand, tick, written, heard, atAccept, cpc>>

\* The time.Now() startedAt falls back to.
RelayClock ==
    /\ rpc = "clock"
    /\ rstart' = now
    /\ rpc' = "anchor"
    /\ UNCHANGED <<now, videoVars, prodVars, pumpVars, netVars, since, hand, tick,
                   written, heard, atAccept, cpc>>

\* startedAt loads the anchor.
RelayAnchor ==
    /\ rpc = "anchor"
    /\ rstart' = IF anchor # 0 THEN anchor ELSE rstart
    /\ rpc' = "select"
    /\ UNCHANGED <<now, videoVars, prodVars, pumpVars, netVars, since, hand, tick,
                   written, heard, atAccept, cpc>>

\* A tick is due.  Its period is abstracted: a tick only makes the relay look
\* at the clock.
Ticker ==
    /\ rpc \in Running /\ ~tick
    /\ tick' = TRUE
    /\ UNCHANGED <<now, videoVars, prodVars, pumpVars, netVars, rpc, rstart,
                   since, hand, written, heard, atAccept, cpc>>

\* case <-p.closed, or the queue is closed and drained.
RelayStop ==
    /\ rpc = "select"
    /\ closed \/ (chClosed /\ ch = <<>>)
    /\ RelayReturn
    /\ UNCHANGED <<now, videoVars, prodVars, pumpVars, rstart, since, hand, tick,
                   written, heard, atAccept, cpc>>

RelayReceive ==
    /\ rpc = "select" /\ ch # <<>>
    /\ hand' = Head(ch)
    /\ ch' = Tail(ch)
    /\ rpc' = "trim"
    /\ UNCHANGED <<now, videoVars, prodVars, chClosed, closed, netVars, rstart,
                   since, tick, written, heard, atAccept, cpc>>

RelayTick ==
    /\ rpc = "select" /\ tick
    /\ tick' = FALSE
    /\ rpc' = "tick"
    /\ UNCHANGED <<now, videoVars, prodVars, pumpVars, netVars, rstart, since,
                   hand, written, heard, atAccept, cpc>>

\* elapsed() looks at the clock first ...
RelaySince ==
    /\ rpc \in {"trim", "tick"}
    /\ since' = now - rstart
    /\ rpc' = IF rpc = "trim" THEN "trimRead" ELSE "tickRead"
    /\ UNCHANGED <<now, videoVars, prodVars, pumpVars, netVars, rstart, hand,
                   tick, written, heard, atAccept, cpc>>

\* ... and at what the pacer abandoned next.
Expected == ExpectedBytes(since - dropped)
Excess   == written - Expected

\* Bytes cut from the front of a received buffer.
Cut_Never == 0

Cut ==
    IF Excess > TrimThreshold THEN AlignAudio(Smaller(Excess, hand.len)) ELSE 0

RelayTrim ==
    /\ rpc = "trimRead"
    /\ IF Cut < hand.len
       THEN /\ hand' = Buffer(hand.from + Cut, hand.len - Cut)
            /\ rpc' = "write"
       ELSE /\ hand' = NoBuffer
            /\ rpc' = "select"
    /\ since' = 0
    /\ UNCHANGED <<now, videoVars, prodVars, pumpVars, netVars, rstart, tick,
                   written, heard, atAccept, cpc>>

\* The socket takes the buffer.
RelayWrite ==
    /\ rpc = "write" /\ conn = "open"
    /\ written' = written + hand.len
    /\ heard' = hand.from + hand.len
    /\ hand' = NoBuffer
    /\ rpc' = "select"
    /\ UNCHANGED <<now, videoVars, prodVars, pumpVars, netVars, rstart, since,
                   tick, atAccept, cpc>>

\* Wait for the threshold of the other direction.
Behind_TrimThreshold == -Excess >= TrimThreshold

Behind == -Excess >= FillThreshold

RelayFill ==
    /\ rpc = "tickRead"
    /\ IF Behind
       THEN hand' = Silence /\ rpc' = "silence"
       ELSE rpc' = "select" /\ UNCHANGED hand
    /\ since' = 0
    /\ UNCHANGED <<now, videoVars, prodVars, pumpVars, netVars, rstart, tick,
                   written, heard, atAccept, cpc>>

RelaySilence ==
    /\ rpc = "silence" /\ conn = "open"
    /\ written' = written + hand.len
    /\ hand' = NoBuffer
    /\ rpc' = "select"
    /\ UNCHANGED <<now, videoVars, prodVars, pumpVars, netVars, rstart, since,
                   tick, heard, atAccept, cpc>>

\* dst.Write fails on a connection ffmpeg is gone from.
RelayWriteFail ==
    /\ rpc \in {"write", "silence"} /\ conn = "gone"
    /\ RelayReturn
    /\ UNCHANGED <<now, videoVars, prodVars, pumpVars, rstart, since, hand, tick,
                   written, heard, atAccept, cpc>>

\* The relay's steps that wait for nobody, and those that wait for ffmpeg.
RelayWork == \/ RelayAcceptFail \/ RelayDiscard \/ RelayClock \/ RelayAnchor
             \/ RelayStop \/ RelayReceive \/ RelayTick \/ RelaySince
             \/ RelayTrim \/ RelayFill \/ RelayWriteFail

RelayOutput == RelayWrite \/ RelaySilence

-----------------------------------------------------------------------------
(* ffmpeg goes away, and the session is closed                             *)

FfmpegExit ==
    /\ conn = "open"
    /\ conn' = "gone"
    /\ UNCHANGED <<now, videoVars, prodVars, pumpVars, listener, relayVars, cpc>>

\* Leave the listener to the relay, which may never have a connection.
CloseListener_Missing ==
    /\ cpc = "idle"
    /\ cpc' = "pump"
    /\ UNCHANGED <<now, videoVars, prodVars, pumpVars, netVars, relayVars>>

\* Prepared.Abort closes the listener, then the pump, and the source last.
CloseListener ==
    /\ cpc = "idle"
    /\ listener' = FALSE
    /\ cpc' = "pump"
    /\ UNCHANGED <<now, videoVars, prodVars, pumpVars, conn, relayVars>>

ClosePump ==
    /\ cpc = "pump"
    /\ closed' = TRUE
    /\ cpc' = "source"
    /\ UNCHANGED <<now, videoVars, prodVars, ch, chClosed, netVars, relayVars>>

CloseSource ==
    /\ cpc = "source"
    /\ source' = FALSE
    /\ cpc' = "done"
    /\ UNCHANGED <<now, videoVars, captured, head, ppc, pbuf, perr, pumpVars,
                   netVars, relayVars>>

Close == CloseListener \/ ClosePump \/ CloseSource

-----------------------------------------------------------------------------
AllDone == ppc = "done" /\ rpc = "done" /\ cpc = "done"

\* Nothing of the relay is left to run: the only state that may not move.
Terminated == AllDone /\ UNCHANGED vars

Next == \/ Advance \/ Video \/ ProducerRead \/ ProducerWork
        \/ RelayAccept \/ Ticker \/ RelayWork \/ RelayOutput
        \/ FfmpegExit \/ Close \/ Terminated

Spec == Init /\ [][Next]_vars

\* The scheduler runs every goroutine that can run, and a select picks among its
\* ready cases at random: the end, and a tick, is noticed some time whatever else
\* is ready.
Fairness == /\ WF_vars(ProducerWork)
            /\ WF_vars(RelayWork)
            /\ SF_vars(RelayStop)
            /\ WF_vars(Ticker) /\ SF_vars(RelayTick)

\* As above; Session.Close has killed ffmpeg before Abort runs.  Nothing is
\* assumed of an ffmpeg that is not killed: it may stop reading at any time.
FairSpec == /\ Spec /\ Fairness
            /\ WF_vars(ClosePump) /\ WF_vars(CloseSource)
            /\ WF_vars(cpc # "idle" /\ FfmpegExit)

-----------------------------------------------------------------------------
(* Properties                                                              *)

Whole(b) == b.from % FrameBytes = 0 /\ b.len % FrameBytes = 0

TypeOK ==
    /\ now \in Nat
    /\ vpc \in {"first", "start", "mark", "run"}
    /\ vstart \in Nat /\ anchor \in Nat /\ dropped \in Nat
    /\ source \in BOOLEAN
    /\ captured \in Nat /\ head \in Nat
    /\ captured - head \in 0..(FrameBytes - 1)
    /\ ppc \in {"read", "offer", "drop", "retry", "check", "close", "done"}
    /\ pbuf \in [from : Nat, len : 0..MaxBuffer] /\ perr \in BOOLEAN
    /\ ch \in Seq([from : Nat, len : 1..MaxBuffer]) /\ Len(ch) <= QueueSize
    /\ chClosed \in BOOLEAN /\ closed \in BOOLEAN /\ listener \in BOOLEAN
    /\ conn \in {"none", "open", "gone"}
    /\ rpc \in {"accept", "discard", "clock", "anchor", "done"} \cup Running
    /\ rstart \in Nat /\ since \in Int
    /\ hand \in [from : Nat, len : 0..MaxBuffer] \cup {Silence}
    /\ tick \in BOOLEAN
    /\ written \in Nat /\ heard \in Nat /\ atAccept \in Nat
    /\ cpc \in {"idle", "pump", "source", "done"}

\* Stereo channels are never shifted: whatever sizes the source's reads have,
\* every buffer and every write starts and ends at a whole PCM frame, both in
\* the capture and in what ffmpeg counts.
PhaseAligned ==
    /\ Whole(pbuf) /\ Whole(hand) /\ \A i \in DOMAIN ch : Whole(ch[i])
    /\ written % FrameBytes = 0 /\ heard % FrameBytes = 0

\* Captured audio reaches ffmpeg in capture order and at most once, whatever
\* the queue drops while the relay takes from it.
NoReplay ==
    [][rpc = "write" /\ written' # written => hand.from >= heard]_written

\* No more than one read of pre-roll survives the discard at connect time:
\* what was captured earlier never reaches ffmpeg.
PrerollBounded ==
    [][heard' # heard => hand.from >= atAccept - (ChunkSize + FrameBytes)]_heard

\* A relay that is behind by the fill threshold makes it up, while ffmpeg reads.
Deficit == ExpectedBytes(now - rstart - dropped) - written
CatchesUp ==
    []<>(rpc \notin {"write", "silence"}) =>
        (rpc \in Running ~> rpc = "done" \/ Deficit < FillThreshold)

\* Closing a session ends both goroutines, whatever they were blocked in.
CloseEndsGoroutines == cpc # "idle" ~> AllDone

\* What makes that so: no goroutine is left in a wait nobody will end.  The last
\* select of offer always has room (its default branch, which would lose the
\* newest buffer, is dead code); a producer that ends has closed the queue, a
\* relay that ends has closed the connection and the listener; and once Abort
\* is through, the source, the listener and the pump let go of who waits there.
NobodyStranded ==
    /\ ppc = "retry" => Len(ch) < QueueSize
    /\ ppc = "done" => chClosed
    /\ rpc = "done" => conn # "open" /\ ~listener
    /\ rpc \in {"write", "silence"} => conn # "none"
    /\ cpc = "done" => /\ ppc = "read" => ~source
                       /\ rpc = "accept" => ~listener
                       /\ rpc = "select" => closed

\* The audio track in bytes: what is written, and what the relay has decided to
\* write while the socket blocks it.
Committed == IF rpc \in {"write", "silence", "done"} THEN written + hand.len
             ELSE written

Started == rstart # 0 /\ rpc # "anchor"

AudioTrack == INSTANCE PacedTrack WITH
    UnitsPerTick <- Rate,
    Lead         <- TrimThreshold + MaxBuffer,
    elapsed      <- IF Started THEN now - rstart ELSE 0,
    abandoned    <- IF Started THEN dropped ELSE 0,
    length       <- Committed

\* The relay keeps the audio track's promise to the video track.
KeepsTrack == AudioTrack!Track

=============================================================================
