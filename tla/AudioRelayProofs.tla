-------------------------- MODULE AudioRelayProofs --------------------------
(***************************************************************************)
(* What holds of AudioRelay for every frame, chunk, queue and chunk of     *)
(* silence, every rate and every size of read.                             *)
(*                                                                         *)
(* The three questions about the relay need three facts about its state    *)
(* that none of them mentions: what the program counters say of the        *)
(* buffers in flight (Control), that queue, hands and carry are one        *)
(* ordered run of capture offsets (InCaptureOrder), and that no clock a    *)
(* goroutine remembers is ahead of the real one (Clocks).                  *)
(***************************************************************************)
EXTENDS AudioRelay, SequenceTheorems, TLAPS

USE DEF skewVars, videoVars, prodVars, pumpVars, netVars, relayVars

\* The assumptions on the constants, one by one.
LEMMA Parameters ==
    /\ FrameBytes \in Nat \ {0} /\ QueueSize \in Nat \ {0}
    /\ ChunkSize \in Nat \ {0} /\ Rate \in Nat \ {0}
    /\ FillThreshold \in Nat \ {0} /\ TrimThreshold \in Nat \ {0}
    /\ SilenceBytes \in Nat \ {0}
    /\ MaxNow \in Nat /\ MaxCaptured \in Nat
    /\ \A n \in ReadSizes : n \in Nat \ {0}
  BY SizeAssumption, BoundAssumption

USE Parameters

-----------------------------------------------------------------------------
(* Whole PCM frames                                                        *)

Aligned(n) == n % FrameBytes = 0

\* Euclidean division.
LEMMA Division ==
    ASSUME NEW n \in Int
    PROVE  /\ n \div FrameBytes \in Int
           /\ n % FrameBytes \in 0..(FrameBytes - 1)
           /\ n = FrameBytes * (n \div FrameBytes) + (n % FrameBytes)
  OBVIOUS

\* The multiples of a frame are aligned.
LEMMA Multiple ==
    ASSUME NEW k \in Int
    PROVE  Aligned(FrameBytes * k)
  BY DEF Aligned

\* Sums and differences of whole frames are whole frames.
LEMMA AlignedSum ==
    ASSUME NEW m \in Int, NEW n \in Int, Aligned(m), Aligned(n),
           NEW s, s = m + n \/ s = m - n
    PROVE  Aligned(s)
<1>. DEFINE p == m \div FrameBytes
            q == n \div FrameBytes
<1>1. p \in Int /\ q \in Int /\ m = FrameBytes * p /\ n = FrameBytes * q
  BY Division DEF Aligned
<1>. HIDE DEF p, q
<1>2. m + n = FrameBytes * (p + q) /\ m - n = FrameBytes * (p - q)
  BY <1>1
<1>3. PICK k \in Int : s = FrameBytes * k
  <2>1. p + q \in Int /\ p - q \in Int
    BY <1>1
  <2>. QED
    BY <1>2, <2>1
<1>. QED
  BY <1>3, Multiple

\* Whole frames that differ are at least a frame apart.
LEMMA AlignedGap ==
    ASSUME NEW m \in Int, NEW n \in Int, Aligned(m), Aligned(n), m < n
    PROVE  m + FrameBytes <= n
<1>. DEFINE p == m \div FrameBytes
            q == n \div FrameBytes
<1>1. p \in Int /\ q \in Int /\ m = FrameBytes * p /\ n = FrameBytes * q
  BY Division DEF Aligned
<1>. HIDE DEF p, q
<1>2. p < q
  BY <1>1
<1>3. FrameBytes * (p + 1) <= FrameBytes * q
  BY <1>1, <1>2
<1>. QED
  BY <1>1, <1>3

\* alignAudio returns the whole frames of n bytes: all but less than a frame.
LEMMA AlignAudioResult ==
    ASSUME NEW n \in Int
    PROVE  /\ AlignAudio(n) \in Nat /\ Aligned(AlignAudio(n))
           /\ n >= 0 => n - AlignAudio(n) \in 0..(FrameBytes - 1)
           /\ n < 0 => AlignAudio(n) = 0
<1>1. CASE n <= 0
  <2>1. AlignAudio(n) = 0
    BY <1>1 DEF AlignAudio
  <2>2. Aligned(0)
    BY Multiple
  <2>. QED
    BY <1>1, <2>1, <2>2
<1>2. CASE n > 0
  <2>. DEFINE q == n \div FrameBytes
              r == n % FrameBytes
  <2>1. q \in Int /\ r \in 0..(FrameBytes - 1) /\ n = FrameBytes * q + r
    BY Division
  <2>2. AlignAudio(n) = n - r
    BY <1>2 DEF AlignAudio
  <2>. HIDE DEF q, r
  <2>3. FrameBytes * q \in Int /\ AlignAudio(n) = FrameBytes * q
    BY <2>1, <2>2
  <2>4. Aligned(FrameBytes * q)
    BY <2>1, Multiple
  <2>5. FrameBytes * q > -FrameBytes
    BY <1>2, <2>1
  <2>6. q >= 0
    BY <2>1, <2>5
  <2>7. FrameBytes * q \in Nat
    BY <2>1, <2>6
  <2>. QED
    BY <1>2, <2>1, <2>3, <2>4, <2>7
<1>. QED
  BY <1>1, <1>2

\* It leaves whole frames as they are.
LEMMA AlignAudioWhole ==
    ASSUME NEW n \in Nat, Aligned(n)
    PROVE  AlignAudio(n) = n
  BY DEF AlignAudio, Aligned

\* It is monotone.
LEMMA AlignAudioMonotone ==
    ASSUME NEW m \in Int, NEW n \in Int, m <= n
    PROVE  AlignAudio(m) <= AlignAudio(n)
<1>. DEFINE a == AlignAudio(m)
            b == AlignAudio(n)
<1>1. /\ a \in Nat /\ b \in Nat /\ Aligned(a) /\ Aligned(b)
      /\ m >= 0 => m - a \in 0..(FrameBytes - 1)
      /\ n >= 0 => n - b \in 0..(FrameBytes - 1)
      /\ m < 0 => a = 0
  BY AlignAudioResult
<1>. HIDE DEF a, b
<1>2. b < a => b + FrameBytes <= a
  BY <1>1, AlignedGap
<1>3. a <= b
  BY <1>1, <1>2
<1>. QED
  BY <1>3 DEF a, b

\* A track of any length is whole frames, and at most its time times the rate.
LEMMA ExpectedBytesResult ==
    ASSUME NEW t \in Int
    PROVE  /\ ExpectedBytes(t) \in Nat /\ Aligned(ExpectedBytes(t))
           /\ ExpectedBytes(t) <= (IF t <= 0 THEN 0 ELSE t * Rate)
<1>1. CASE t <= 0
  <2>1. ExpectedBytes(t) = 0
    BY <1>1 DEF ExpectedBytes
  <2>2. Aligned(0)
    BY Multiple
  <2>. QED
    BY <1>1, <2>1, <2>2
<1>2. CASE t > 0
  <2>1. ExpectedBytes(t) = AlignAudio(t * Rate)
    BY <1>2 DEF ExpectedBytes
  <2>2. t * Rate \in Nat
    BY <1>2
  <2>. QED
    BY <1>2, <2>1, <2>2, AlignAudioResult
<1>. QED
  BY <1>1, <1>2

-----------------------------------------------------------------------------
(* The inductive invariant                                                 *)

Captured == [from : Nat, len : 1..MaxBuffer]

Offering  == ppc \in {"offer", "drop", "retry"}
Receiving == rpc \in {"trim", "trimRead", "write"}
Connected == rpc \in {"clock", "anchor"} \cup Running

\* What a program counter says of the buffers and of the relay's start.
Control ==
    /\ Offering => pbuf \in Captured
    /\ Receiving => hand \in Captured
    /\ rpc = "silence" => hand = Silence
    /\ ~Receiving /\ rpc \notin {"silence", "done"} => hand.len = 0
    /\ rpc \in {"accept", "discard", "clock"} => rstart = 0
    /\ rpc \in {"anchor"} \cup Running => rstart >= 1

\* The carry starts at a whole frame too: what is read next is offered from it.
WholeFrames ==
    /\ Aligned(pbuf.from) /\ Aligned(pbuf.len)
    /\ Aligned(hand.from) /\ Aligned(hand.len)
    /\ \A i \in 1..Len(ch) : Aligned(ch[i].from) /\ Aligned(ch[i].len)
    /\ Aligned(written) /\ Aligned(heard) /\ Aligned(head)

End(b) == b.from + b.len

\* What ffmpeg heard, the buffer the relay holds, the queue from front to back,
\* the buffer on offer and the carry follow each other in the capture.
InCaptureOrder ==
    /\ heard <= head
    /\ \A i \in 1..Len(ch) : heard <= ch[i].from /\ End(ch[i]) <= head
    /\ \A i, j \in 1..Len(ch) : i < j => End(ch[i]) <= ch[j].from
    /\ Offering => /\ End(pbuf) = head /\ heard <= pbuf.from
                   /\ \A i \in 1..Len(ch) : End(ch[i]) <= pbuf.from
    /\ Receiving => /\ heard <= hand.from /\ End(hand) <= head
                    /\ \A i \in 1..Len(ch) : End(hand) <= ch[i].from
                    /\ Offering => End(hand) <= pbuf.from

\* Oldest offset that may still reach ffmpeg.
Oldest == atAccept - (ChunkSize + FrameBytes)

\* Once the queue has been emptied nothing older is on its way.
Discarded ==
    /\ atAccept <= captured
    /\ Offering => pbuf.from >= captured - (ChunkSize + FrameBytes)
    /\ Connected => \A i \in 1..Len(ch) : ch[i].from >= Oldest
    /\ Receiving => hand.from >= Oldest

\* Nobody remembers an instant that is still to come.
Clocks ==
    /\ now >= 1 /\ vstart <= now /\ anchor <= now /\ rstart <= now
    /\ rpc \in {"trimRead", "tickRead"} => since <= now - rstart

IInv == TypeOK /\ Control /\ WholeFrames /\ InCaptureOrder /\ Discarded /\ Clocks

\* The sizes the buffers have.
LEMMA Sizes ==
    /\ MaxBuffer \in Nat /\ MaxBuffer <= ChunkSize + FrameBytes
    /\ Aligned(0) /\ Aligned(SilenceBytes) /\ Aligned(Rate)
    /\ NoBuffer = [from |-> 0, len |-> 0]
    /\ Silence = [from |-> 0, len |-> SilenceBytes]
<1>1. ChunkSize + FrameBytes \in Nat
  OBVIOUS
<1>2. MaxBuffer \in Nat /\ MaxBuffer <= ChunkSize + FrameBytes
  BY <1>1, AlignAudioResult DEF MaxBuffer
<1>3. Aligned(0)
  BY Multiple
<1>. QED
  BY <1>2, <1>3, WholeFramesAssumption DEF Aligned, NoBuffer, Silence, Buffer

\* What is queued or held is an interval of the capture.
LEMMA BufferTypes ==
    ASSUME TypeOK
    PROVE  /\ \A i \in 1..Len(ch) : ch[i].from \in Nat /\ ch[i].len \in Nat
           /\ hand.from \in Nat /\ hand.len \in Nat
           /\ pbuf.from \in Nat /\ pbuf.len \in Nat
<1>1. ch \in Seq(Captured)
  BY DEF TypeOK, Captured
<1>2. \A i \in 1..Len(ch) : ch[i] \in Captured
  BY <1>1
<1>3. \A i \in 1..Len(ch) : ch[i].from \in Nat /\ ch[i].len \in Nat
  BY <1>2, Sizes DEF Captured
<1>4. hand.from \in Nat /\ hand.len \in Nat
  BY Sizes DEF TypeOK
<1>5. pbuf.from \in Nat /\ pbuf.len \in Nat
  BY Sizes DEF TypeOK
<1>. QED
  BY <1>3, <1>4, <1>5

\* The inductive invariant holds initially.
LEMMA InvInit == Init => IInv
<1>. SUFFICES ASSUME Init PROVE IInv
  OBVIOUS
<1>1. TypeOK
  <2>1. /\ source \in BOOLEAN /\ perr \in BOOLEAN /\ chClosed \in BOOLEAN
        /\ closed \in BOOLEAN /\ listener \in BOOLEAN /\ tick \in BOOLEAN
    BY DEF Init, SkewInit
  <2>2. ch \in Seq([from : Nat, len : 1..MaxBuffer]) /\ Len(ch) <= QueueSize
    BY DEF Init, SkewInit
  <2>3. pbuf \in [from : Nat, len : 0..MaxBuffer] /\ hand = pbuf
    BY Sizes DEF Init, SkewInit
  <2>. QED
    BY <2>1, <2>2, <2>3 DEF Init, SkewInit, TypeOK
<1>2. Control /\ Clocks /\ InCaptureOrder /\ Discarded
  BY Sizes DEF Init, SkewInit, Control, Clocks, InCaptureOrder, Discarded, Offering,
               Receiving, Connected, Running
<1>3. WholeFrames
  BY Sizes DEF Init, SkewInit, WholeFrames
<1>. QED
  BY <1>1, <1>2, <1>3 DEF IInv

\* Time passes, and the pacer starts the skew or abandons a span.
LEMMA InvVideo ==
    ASSUME IInv, Advance \/ Video
    PROVE  IInv'
<1>. USE DEF IInv, TypeOK, Control, WholeFrames, InCaptureOrder, Discarded,
             Clocks, Offering, Receiving, Connected, Running, Captured, End,
             Oldest
<1>0. UNCHANGED <<prodVars, pumpVars, netVars, relayVars, cpc>>
  BY DEF Advance, Video
<1>1. CASE TimePasses
  BY <1>0, <1>1, Sizes DEF TimePasses
<1>2. CASE VideoFirstFrame
  BY <1>0, <1>2, Sizes DEF VideoFirstFrame
<1>3. CASE VideoStart
  BY <1>0, <1>3, Sizes DEF VideoStart
<1>4. CASE VideoMark
  BY <1>0, <1>4, Sizes DEF VideoMark
<1>5. CASE VideoDrop
  BY <1>0, <1>5, Sizes DEF VideoDrop
<1>. QED
  BY <1>1, <1>2, <1>3, <1>4, <1>5 DEF Advance, Video

\* A read extends the carry, and moves its whole frames to the offer.
LEMMA InvRead ==
    ASSUME IInv, ProducerRead
    PROVE  IInv'
<1>1. PICK n \in ReadSizes, e \in BOOLEAN :
         LET aligned == AlignAudio(captured - head + n)
         IN  /\ n <= ChunkSize + FrameBytes - (captured - head)
             /\ captured' = captured + n
             /\ perr' = e
             /\ source' = ~e
             /\ head' = head + aligned
             /\ pbuf' = Buffer(head, aligned)
             /\ ppc' = IF aligned > 0 THEN "offer"
                       ELSE IF e THEN "close" ELSE "check"
  BY DEF ProducerRead
<1>2. /\ n \in Nat \ {0} /\ captured \in Nat /\ head \in Nat
      /\ captured - head \in 0..(FrameBytes - 1)
  BY DEF IInv, TypeOK
<1>. DEFINE c == captured - head + n
            a == AlignAudio(c)
<1>3. /\ a \in Nat /\ Aligned(a) /\ a <= MaxBuffer
      /\ c - a \in 0..(FrameBytes - 1)
  <2>1. c \in Nat /\ ChunkSize + FrameBytes \in Int /\ c <= ChunkSize + FrameBytes
    BY <1>1, <1>2
  <2>. HIDE DEF c
  <2>2. a <= MaxBuffer
    BY <2>1, AlignAudioMonotone DEF MaxBuffer
  <2>. QED
    BY <2>1, <2>2, AlignAudioResult
<1>4. /\ captured' = captured + n /\ head' = head + a
      /\ pbuf' = [from |-> head, len |-> a]
      /\ ppc' = IF a > 0 THEN "offer" ELSE IF e THEN "close" ELSE "check"
      /\ perr' \in BOOLEAN /\ source' \in BOOLEAN
  BY <1>1 DEF Buffer
<1>5. /\ Aligned(head) /\ head + a \in Nat
      /\ captured + n - (head + a) \in 0..(FrameBytes - 1)
  BY <1>2, <1>3 DEF IInv, WholeFrames
<1>6. Aligned(head + a)
  BY <1>2, <1>3, <1>5, AlignedSum
<1>7. n <= ChunkSize + FrameBytes - (captured - head)
  BY <1>1
<1>. HIDE DEF a
<1>8. TypeOK'
  <2>1. ppc' \in {"offer", "close", "check"}
    BY <1>4
  <2>2. pbuf' \in [from : Nat, len : 0..MaxBuffer]
    BY <1>2, <1>3, <1>4, Sizes
  <2>3. captured' \in Nat /\ head' \in Nat /\ captured' - head' \in 0..(FrameBytes - 1)
    BY <1>2, <1>4, <1>5
  <2>. QED
    BY <1>4, <2>1, <2>2, <2>3 DEF IInv, TypeOK, ProducerRead
<1>9. Control'
  BY <1>2, <1>3, <1>4, Sizes
     DEF IInv, Control, ProducerRead, Offering, Receiving, Captured
<1>10. WholeFrames'
  BY <1>3, <1>4, <1>5, <1>6 DEF IInv, WholeFrames, ProducerRead
<1>11. InCaptureOrder'
  <2>1. /\ ch' = ch /\ heard' = heard /\ hand' = hand /\ (Receiving' <=> Receiving)
        /\ head <= head'
    BY <1>2, <1>3, <1>4 DEF ProducerRead, Receiving
  <2>2. pbuf'.from = head /\ End(pbuf') = head'
    BY <1>4 DEF End
  <2>3. /\ heard \in Nat /\ head' \in Nat
        /\ \A i \in 1..Len(ch) : ch[i].from \in Nat /\ ch[i].len \in Nat
        /\ hand.from \in Nat /\ hand.len \in Nat
    BY <1>4, <1>5, BufferTypes DEF IInv, TypeOK
  <2>4. InCaptureOrder
    BY DEF IInv
  <2>5. /\ heard' <= head'
        /\ \A i \in 1..Len(ch') : heard' <= ch'[i].from /\ End(ch'[i]) <= head'
    BY <1>2, <2>1, <2>3, <2>4 DEF InCaptureOrder, End
  <2>6. \A i, j \in 1..Len(ch') : i < j => End(ch'[i]) <= ch'[j].from
    BY <2>1, <2>4 DEF InCaptureOrder
  <2>7. /\ End(pbuf') = head' /\ heard' <= pbuf'.from
        /\ \A i \in 1..Len(ch') : End(ch'[i]) <= pbuf'.from
    BY <2>1, <2>2, <2>4 DEF InCaptureOrder
  <2>8. ASSUME Receiving
        PROVE  /\ heard' <= hand'.from /\ End(hand') <= head'
               /\ \A i \in 1..Len(ch') : End(hand') <= ch'[i].from
               /\ End(hand') <= pbuf'.from
    BY <1>2, <2>1, <2>2, <2>3, <2>4, <2>8 DEF InCaptureOrder, End
  <2>. QED
    BY <2>1, <2>5, <2>6, <2>7, <2>8 DEF InCaptureOrder
<1>12. Discarded'
  BY <1>2, <1>4, <1>7
     DEF IInv, TypeOK, Discarded, ProducerRead, Receiving, Connected, Oldest
<1>13. Clocks'
  BY DEF IInv, Clocks, ProducerRead
<1>. QED
  BY <1>8, <1>9, <1>10, <1>11, <1>12, <1>13 DEF IInv

\* The rest of the queue, and the buffer at its front.
LEMMA QueueTail ==
    ASSUME TypeOK, ch # <<>>
    PROVE  /\ Tail(ch) \in Seq(Captured) /\ Len(Tail(ch)) = Len(ch) - 1
           /\ \A i \in 1..Len(Tail(ch)) :
                 i + 1 \in 1..Len(ch) /\ Tail(ch)[i] = ch[i + 1]
           /\ 1 \in 1..Len(ch) /\ Head(ch) = ch[1] /\ Head(ch) \in Captured
<1>1. ch \in Seq(Captured)
  BY DEF TypeOK, Captured
<1>. QED
  BY <1>1

\* The buffer on offer becomes the last of the queue.
LEMMA InvSend ==
    ASSUME IInv, ProducerSend
    PROVE  IInv'
<1>1. /\ Offering /\ ~Offering' /\ ch' = Append(ch, pbuf) /\ Len(ch) < QueueSize
      /\ ppc' \in {"close", "check"} /\ pbuf' = [from |-> 0, len |-> 0]
  BY Sizes DEF ProducerSend, AfterOffer, Offering
<1>2. ch \in Seq(Captured) /\ pbuf \in Captured
  BY <1>1 DEF IInv, TypeOK, Control, Captured
<1>3. /\ ch' \in Seq(Captured) /\ Len(ch') = Len(ch) + 1 /\ Len(ch) \in Nat
      /\ \A i \in 1..Len(ch') : ch'[i] = IF i <= Len(ch) THEN ch[i] ELSE pbuf
  BY <1>1, <1>2
<1>4. /\ \A i \in 1..Len(ch) : ch[i].from \in Nat /\ ch[i].len \in Nat
      /\ pbuf.from \in Nat /\ pbuf.len \in Nat
      /\ hand.from \in Nat /\ hand.len \in Nat
  BY BufferTypes DEF IInv
<1>5. TypeOK'
  BY <1>1, <1>3, Sizes DEF IInv, TypeOK, ProducerSend, Captured
<1>6. Control'
  BY <1>1 DEF IInv, Control, ProducerSend, Receiving
<1>7. WholeFrames'
  BY <1>1, <1>3, Sizes DEF IInv, WholeFrames, ProducerSend
<1>8. InCaptureOrder'
  <2>1. /\ heard' = heard /\ hand' = hand /\ (Receiving' <=> Receiving)
        /\ head' = head
    BY DEF ProducerSend, Receiving
  <2>2. InCaptureOrder /\ heard \in Nat /\ head \in Nat
    BY DEF IInv, TypeOK
  <2>3. /\ heard' <= head'
        /\ \A i \in 1..Len(ch') : heard' <= ch'[i].from /\ End(ch'[i]) <= head'
    BY <1>1, <1>3, <1>4, <2>1, <2>2 DEF InCaptureOrder, End
  <2>4. \A i, j \in 1..Len(ch') : i < j => End(ch'[i]) <= ch'[j].from
    BY <1>1, <1>3, <2>2 DEF InCaptureOrder
  <2>5. ASSUME Receiving
        PROVE  /\ heard' <= hand'.from /\ End(hand') <= head'
               /\ \A i \in 1..Len(ch') : End(hand') <= ch'[i].from
    BY <1>1, <1>3, <2>1, <2>2, <2>5 DEF InCaptureOrder
  <2>. QED
    BY <1>1, <2>1, <2>3, <2>4, <2>5 DEF InCaptureOrder
<1>9. Discarded'
  <2>1. /\ Discarded /\ captured \in Nat /\ atAccept \in Nat
        /\ Oldest \in Int /\ Oldest <= captured - (ChunkSize + FrameBytes)
    BY DEF IInv, TypeOK, Discarded, Oldest
  <2>2. /\ captured' = captured /\ atAccept' = atAccept /\ Oldest' = Oldest
        /\ (Connected' <=> Connected) /\ (Receiving' <=> Receiving) /\ hand' = hand
    BY DEF ProducerSend, Receiving, Connected, Oldest
  <2>3. pbuf.from >= Oldest
    BY <1>1, <1>4, <2>1 DEF Discarded
  <2>. QED
    BY <1>1, <1>3, <2>1, <2>2, <2>3 DEF Discarded
<1>10. Clocks'
  BY DEF IInv, Clocks, ProducerSend
<1>. QED
  BY <1>5, <1>6, <1>7, <1>8, <1>9, <1>10 DEF IInv

\* The oldest buffer is dropped, unless the relay was faster.
LEMMA InvDropOldest ==
    ASSUME IInv, ProducerDropOldest
    PROVE  IInv'
<1>1. CASE ch = <<>>
  BY <1>1 DEF IInv, TypeOK, Control, WholeFrames, InCaptureOrder, Discarded,
              Clocks, ProducerDropOldest, Offering, Receiving, Connected, Oldest
<1>2. CASE ch # <<>>
  <2>1. ch' = Tail(ch) /\ Offering /\ Offering'
    BY <1>2 DEF ProducerDropOldest, Offering
  <2>2. TypeOK'
    BY <1>2, <2>1, QueueTail DEF IInv, TypeOK, ProducerDropOldest, Captured
  <2>3. Control' /\ Clocks'
    BY <2>1 DEF IInv, Control, Clocks, ProducerDropOldest, Receiving
  <2>4. WholeFrames'
    BY <1>2, <2>1, QueueTail DEF IInv, WholeFrames, ProducerDropOldest
  <2>5. InCaptureOrder'
    BY <1>2, <2>1, QueueTail DEF IInv, InCaptureOrder, ProducerDropOldest, Receiving
  <2>6. Discarded'
    BY <1>2, <2>1, QueueTail
       DEF IInv, Discarded, ProducerDropOldest, Receiving, Connected, Oldest
  <2>. QED
    BY <2>2, <2>3, <2>4, <2>5, <2>6 DEF IInv
<1>. QED
  BY <1>1, <1>2

\* The producer's other steps move no bytes.
LEMMA InvProducerRest ==
    ASSUME IInv,
           ProducerEnd \/ ProducerFull \/ ProducerCheck \/ ProducerClose
    PROVE  IInv'
<1>. USE DEF IInv, TypeOK, Control, WholeFrames, InCaptureOrder, Discarded,
             Clocks, Offering, Receiving, Connected, Oldest
<1>1. CASE ProducerEnd
  BY <1>1 DEF ProducerEnd
<1>2. CASE ProducerFull
  <2>1. UNCHANGED <<now, videoVars, source, captured, head, pbuf, perr, pumpVars,
                    netVars, relayVars, cpc>>
    BY <1>2 DEF ProducerFull
  <2>2. ppc = "offer" /\ ppc' = "drop"
    BY <1>2 DEF ProducerFull
  <2>. QED
    BY <2>1, <2>2
<1>3. CASE ProducerCheck
  BY <1>3 DEF ProducerCheck
<1>4. CASE ProducerClose
  <2>1. chClosed' \in BOOLEAN
    BY <1>4 DEF ProducerClose
  <2>. QED
    BY <1>4, <2>1 DEF ProducerClose
<1>. QED
  BY <1>1, <1>2, <1>3, <1>4

\* The relay's steps that move no bytes.
LEMMA InvRelayRest ==
    ASSUME IInv,
           \/ RelayAcceptFail \/ RelayAccept \/ RelayClock \/ RelayAnchor
           \/ RelayStop \/ RelayTick \/ RelaySince \/ RelayWriteFail \/ Ticker
    PROVE  IInv'
<1>. USE DEF IInv, TypeOK, Control, WholeFrames, InCaptureOrder, Discarded,
             Clocks, Offering, Receiving, Connected, Running, Oldest
<1>1. CASE RelayAcceptFail
  <2>1. listener' \in BOOLEAN
    BY <1>1 DEF RelayAcceptFail, RelayReturn
  <2>. QED
    BY <1>1, <2>1 DEF RelayAcceptFail, RelayReturn
<1>2. CASE RelayAccept
  BY <1>2 DEF RelayAccept
<1>3. CASE RelayClock
  BY <1>3 DEF RelayClock
<1>4. CASE RelayAnchor
  BY <1>4 DEF RelayAnchor
<1>5. CASE RelayStop
  <2>1. listener' \in BOOLEAN
    BY <1>5 DEF RelayStop, RelayReturn
  <2>. QED
    BY <1>5, <2>1 DEF RelayStop, RelayReturn
<1>6. CASE RelayTick
  <2>1. tick' \in BOOLEAN
    BY <1>6 DEF RelayTick
  <2>. QED
    BY <1>6, <2>1 DEF RelayTick
<1>7. CASE RelaySince
  BY <1>7 DEF RelaySince
<1>8. CASE RelayWriteFail
  <2>1. listener' \in BOOLEAN
    BY <1>8 DEF RelayWriteFail, RelayReturn
  <2>. QED
    BY <1>8, <2>1 DEF RelayWriteFail, RelayReturn
<1>9. CASE Ticker
  <2>1. tick' \in BOOLEAN
    BY <1>9 DEF Ticker
  <2>. QED
    BY <1>9, <2>1 DEF Ticker
<1>. QED
  BY <1>1, <1>2, <1>3, <1>4, <1>5, <1>6, <1>7, <1>8, <1>9

\* ffmpeg goes away, and the session is closed.
LEMMA InvClose ==
    ASSUME IInv, FfmpegExit \/ Close
    PROVE  IInv'
<1>. USE DEF IInv, TypeOK, Control, WholeFrames, InCaptureOrder, Discarded,
             Clocks, Offering, Receiving, Connected, Oldest
<1>1. CASE FfmpegExit
  BY <1>1 DEF FfmpegExit
<1>2. CASE CloseListener
  <2>1. listener' \in BOOLEAN
    BY <1>2 DEF CloseListener
  <2>. QED
    BY <1>2, <2>1 DEF CloseListener
<1>3. CASE ClosePump
  <2>1. closed' \in BOOLEAN
    BY <1>3 DEF ClosePump
  <2>. QED
    BY <1>3, <2>1 DEF ClosePump
<1>4. CASE CloseSource
  <2>1. source' \in BOOLEAN
    BY <1>4 DEF CloseSource
  <2>. QED
    BY <1>4, <2>1 DEF CloseSource
<1>. QED
  BY <1>1, <1>2, <1>3, <1>4 DEF Close

\* What is cut is whole frames of the buffer; what is left of it ends less than
\* the dead band and a buffer ahead of what the track should have.
LEMMA CutResult ==
    ASSUME IInv, rpc = "trimRead"
    PROVE  /\ Cut \in 0..hand.len /\ Aligned(Cut) /\ Expected \in Nat
           /\ Cut < hand.len =>
                 written + (hand.len - Cut) <= Expected + TrimThreshold + MaxBuffer
<1>1. /\ hand.len \in 1..MaxBuffer /\ Aligned(hand.len)
      /\ written \in Nat /\ Aligned(written) /\ since - dropped \in Int
  BY Sizes
     DEF IInv, TypeOK, Control, WholeFrames, Receiving, Captured
<1>2. Expected \in Nat /\ Aligned(Expected)
  BY <1>1, ExpectedBytesResult DEF Expected
<1>3. Excess = written - Expected /\ Excess \in Int /\ Aligned(Excess)
  <2>1. written - Expected \in Int /\ Aligned(written - Expected)
    BY <1>1, <1>2, AlignedSum
  <2>. QED
    BY <2>1 DEF Excess
<1>. USE Sizes
<1>4. CASE Excess <= TrimThreshold
  <2>1. Cut = 0
    BY <1>3, <1>4 DEF Cut
  <2>. QED
    BY <1>1, <1>2, <1>3, <1>4, <2>1
<1>5. CASE Excess > TrimThreshold /\ Excess < hand.len
  <2>1. Smaller(Excess, hand.len) = Excess /\ Excess \in Nat
    BY <1>1, <1>3, <1>5 DEF Smaller
  <2>2. Cut = Excess
    BY <1>3, <1>5, <2>1, AlignAudioWhole DEF Cut
  <2>. QED
    BY <1>1, <1>2, <1>3, <1>5, <2>2
<1>6. CASE Excess > TrimThreshold /\ Excess >= hand.len
  <2>1. Smaller(Excess, hand.len) = hand.len /\ hand.len \in Nat
    BY <1>1, <1>3, <1>6 DEF Smaller
  <2>2. Cut = hand.len
    BY <1>1, <1>6, <2>1, AlignAudioWhole DEF Cut
  <2>. QED
    BY <1>1, <1>2, <2>2
<1>. QED
  BY <1>1, <1>2, <1>3, <1>4, <1>5, <1>6

\* One buffer is thrown away, or the queue is empty and the relay starts.
LEMMA InvDiscard ==
    ASSUME IInv, RelayDiscard
    PROVE  IInv'
<1>1. CASE ch = <<>>
  BY <1>1 DEF IInv, TypeOK, Control, WholeFrames, InCaptureOrder, Discarded,
              Clocks, RelayDiscard, Offering, Receiving, Connected, Running, Oldest
<1>2. CASE ch # <<>>
  <2>1. ch' = Tail(ch) /\ rpc' = "discard" /\ rpc = "discard"
    BY <1>2 DEF RelayDiscard
  <2>2. TypeOK'
    BY <1>2, <2>1, QueueTail DEF IInv, TypeOK, RelayDiscard, Captured
  <2>3. Control' /\ Clocks'
    BY <2>1 DEF IInv, Control, Clocks, RelayDiscard, Receiving, Offering
  <2>4. WholeFrames'
    BY <1>2, <2>1, QueueTail DEF IInv, WholeFrames, RelayDiscard
  <2>5. InCaptureOrder'
    BY <1>2, <2>1, QueueTail
       DEF IInv, InCaptureOrder, RelayDiscard, Receiving, Offering
  <2>6. Discarded'
    BY <2>1 DEF IInv, Discarded, RelayDiscard, Receiving, Connected, Running,
                Oldest, Offering
  <2>. QED
    BY <2>2, <2>3, <2>4, <2>5, <2>6 DEF IInv
<1>. QED
  BY <1>1, <1>2

\* The buffer at the front of the queue passes into the relay's hand.
LEMMA InvReceive ==
    ASSUME IInv, RelayReceive
    PROVE  IInv'
<1>1. /\ ch # <<>> /\ ch' = Tail(ch) /\ hand' = ch[1] /\ rpc' = "trim"
      /\ rpc = "select" /\ 1 \in 1..Len(ch) /\ hand' \in Captured
  BY QueueTail DEF IInv, RelayReceive
<1>2. TypeOK'
  <2>1. hand' \in [from : Nat, len : 0..MaxBuffer]
    BY <1>1, Sizes DEF Captured
  <2>2. ch' \in Seq([from : Nat, len : 1..MaxBuffer]) /\ Len(ch') <= QueueSize
    BY <1>1, QueueTail DEF IInv, TypeOK, Captured
  <2>3. UNCHANGED <<now, videoVars, prodVars, chClosed, closed, netVars, rstart,
                    since, tick, written, heard, atAccept, cpc>>
    BY DEF RelayReceive
  <2>. QED
    BY <1>1, <2>1, <2>2, <2>3 DEF IInv, TypeOK, Running
<1>3. Control' /\ Clocks'
  BY <1>1 DEF IInv, Control, Clocks, RelayReceive, Receiving, Offering, Running
<1>4. WholeFrames'
  BY <1>1, QueueTail DEF IInv, WholeFrames, RelayReceive
<1>5. InCaptureOrder'
  BY <1>1, QueueTail DEF IInv, InCaptureOrder, RelayReceive, Receiving, Offering
<1>6. Discarded'
  BY <1>1, QueueTail
     DEF IInv, Discarded, RelayReceive, Receiving, Connected, Running, Oldest,
         Offering
<1>. QED
  BY <1>2, <1>3, <1>4, <1>5, <1>6 DEF IInv

\* The front of a buffer is cut, or all of it.
LEMMA InvTrim ==
    ASSUME IInv, RelayTrim
    PROVE  IInv'
<1>1. /\ rpc = "trimRead" /\ Receiving /\ hand \in Captured
      /\ hand.from \in Nat /\ hand.len \in 1..MaxBuffer
  BY Sizes DEF IInv, Control, RelayTrim, Receiving, Captured
<1>2. Cut \in 0..hand.len /\ Aligned(Cut)
  BY <1>1, CutResult
<1>3. Aligned(hand.from + Cut) /\ Aligned(hand.len - Cut)
  <2>1. /\ Aligned(hand.from) /\ Aligned(hand.len)
        /\ hand.from \in Int /\ hand.len \in Int /\ Cut \in Int
    BY <1>1, <1>2, Sizes DEF IInv, WholeFrames
  <2>. QED
    BY <1>2, <2>1, AlignedSum
<1>. DEFINE c == Cut
<1>4. \/ hand' = [from |-> hand.from + c, len |-> hand.len - c]
            /\ c < hand.len /\ rpc' = "write"
      \/ hand' = [from |-> 0, len |-> 0] /\ rpc' = "select"
  BY Sizes DEF RelayTrim, Buffer
<1>5. c \in 0..hand.len /\ Aligned(hand.from + c) /\ Aligned(hand.len - c)
  BY <1>2, <1>3
<1>. HIDE DEF c
<1>6. /\ UNCHANGED <<now, videoVars, prodVars, pumpVars, netVars, rstart, tick,
                     written, heard, atAccept, cpc>>
      /\ since' = 0
  BY DEF RelayTrim
<1>7. TypeOK'
  <2>1. hand' \in [from : Nat, len : 0..MaxBuffer]
    BY <1>1, <1>4, <1>5, Sizes
  <2>2. rpc' \in {"write", "select"}
    BY <1>4
  <2>. QED
    BY <1>6, <2>1, <2>2 DEF IInv, TypeOK, Running
<1>8. Control' /\ Clocks'
  BY <1>1, <1>4, <1>5, <1>6, Sizes
     DEF IInv, Control, Clocks, Receiving, Offering, Running, Captured
<1>9. WholeFrames'
  BY <1>4, <1>5, <1>6, Sizes DEF IInv, WholeFrames
<1>10. InCaptureOrder'
  <2>1. Receiving' => End(hand') = End(hand) /\ hand'.from >= hand.from
    BY <1>1, <1>4, <1>5, Sizes DEF End, Receiving
  <2>. QED
    BY <1>1, <1>4, <1>5, <1>6, <2>1
       DEF IInv, TypeOK, InCaptureOrder, Receiving, Offering
<1>11. Discarded'
  BY <1>1, <1>4, <1>5, <1>6
     DEF IInv, TypeOK, Discarded, Receiving, Connected, Running, Oldest, Offering
<1>. QED
  BY <1>7, <1>8, <1>9, <1>10, <1>11 DEF IInv

\* ffmpeg hears a buffer.
LEMMA InvWrite ==
    ASSUME IInv, RelayWrite
    PROVE  IInv'
<1>1. /\ rpc = "write" /\ Receiving /\ hand \in Captured
      /\ hand.from \in Nat /\ hand.len \in 1..MaxBuffer
      /\ written \in Nat
  BY Sizes DEF IInv, TypeOK, Control, RelayWrite, Receiving, Captured
<1>2. /\ rpc' = "select" /\ hand' = [from |-> 0, len |-> 0]
      /\ written' = written + hand.len /\ heard' = End(hand)
      /\ UNCHANGED <<now, videoVars, prodVars, pumpVars, netVars, rstart, since,
                     tick, atAccept, cpc>>
  BY Sizes DEF RelayWrite, End
<1>3. Aligned(written + hand.len) /\ Aligned(End(hand))
  BY <1>1, AlignedSum DEF IInv, WholeFrames, End
<1>4. End(hand) \in Nat
  BY <1>1, Sizes DEF End
<1>5. TypeOK'
  <2>1. hand' \in [from : Nat, len : 0..MaxBuffer] /\ written' \in Nat
    BY <1>1, <1>2, Sizes
  <2>. QED
    BY <1>2, <1>4, <2>1 DEF IInv, TypeOK, Running
<1>6. Control' /\ Clocks'
  BY <1>1, <1>2 DEF IInv, Control, Clocks, Receiving, Offering, Running
<1>7. WholeFrames'
  BY <1>2, <1>3, Sizes DEF IInv, WholeFrames
<1>8. InCaptureOrder'
  BY <1>1, <1>2 DEF IInv, InCaptureOrder, Receiving, Offering
<1>9. Discarded'
  BY <1>1, <1>2
     DEF IInv, Discarded, Receiving, Connected, Running, Oldest, Offering
<1>. QED
  BY <1>5, <1>6, <1>7, <1>8, <1>9 DEF IInv

\* The relay decides whether it is behind.
LEMMA InvFill ==
    ASSUME IInv, RelayFill
    PROVE  IInv'
<1>1. /\ rpc = "tickRead" /\ since' = 0
      /\ UNCHANGED <<now, videoVars, prodVars, pumpVars, netVars, rstart, tick,
                     written, heard, atAccept, cpc>>
      /\ \/ hand' = Silence /\ rpc' = "silence"
         \/ hand' = hand /\ rpc' = "select"
  BY DEF RelayFill
<1>2. TypeOK'
  <2>1. /\ hand' \in [from : Nat, len : 0..MaxBuffer] \cup {Silence}
        /\ rpc' \in {"silence", "select"}
    BY <1>1 DEF IInv, TypeOK
  <2>. QED
    BY <1>1, <2>1 DEF IInv, TypeOK, Running
<1>3. Control' /\ Clocks'
  BY <1>1 DEF IInv, Control, Clocks, Receiving, Offering, Running
<1>4. WholeFrames'
  BY <1>1, Sizes DEF IInv, WholeFrames
<1>5. InCaptureOrder' /\ Discarded'
  BY <1>1 DEF IInv, InCaptureOrder, Discarded, Receiving, Connected, Running,
              Oldest, Offering
<1>. QED
  BY <1>2, <1>3, <1>4, <1>5 DEF IInv

\* Silence lengthens the track, and the capture is where it was.
LEMMA InvSilence ==
    ASSUME IInv, RelaySilence
    PROVE  IInv'
<1>1. /\ rpc = "silence" /\ rpc' = "select" /\ written' = written + SilenceBytes
      /\ hand' = [from |-> 0, len |-> 0]
      /\ UNCHANGED <<now, videoVars, prodVars, pumpVars, netVars, rstart, since,
                     tick, heard, atAccept, cpc>>
  BY Sizes DEF IInv, Control, RelaySilence
<1>2. /\ written \in Nat /\ SilenceBytes \in Nat
      /\ Aligned(written) /\ Aligned(SilenceBytes)
  BY Sizes DEF IInv, TypeOK, WholeFrames
<1>3. written + SilenceBytes \in Nat /\ Aligned(written + SilenceBytes)
  BY <1>2, AlignedSum
<1>4. TypeOK'
  <2>1. hand' \in [from : Nat, len : 0..MaxBuffer]
    BY <1>1, Sizes
  <2>. QED
    BY <1>1, <1>3, <2>1 DEF IInv, TypeOK, Running
<1>5. Control' /\ Clocks'
  BY <1>1 DEF IInv, Control, Clocks, Receiving, Offering, Running
<1>6. WholeFrames'
  BY <1>1, <1>3, Sizes DEF IInv, WholeFrames
<1>7. InCaptureOrder' /\ Discarded'
  BY <1>1 DEF IInv, InCaptureOrder, Discarded, Receiving, Connected, Running,
              Oldest, Offering
<1>. QED
  BY <1>4, <1>5, <1>6, <1>7 DEF IInv

\* The inductive invariant is preserved by every step.
LEMMA InvNext == IInv /\ [Next]_vars => IInv'
<1>. SUFFICES ASSUME IInv, [Next]_vars
              PROVE  IInv'
  OBVIOUS
<1>1. CASE UNCHANGED vars
  <2>. USE <1>1 DEF vars
  <2>1. TypeOK'
    BY DEF IInv, TypeOK
  <2>2. Control'
    BY DEF IInv, Control, Offering, Receiving
  <2>3. WholeFrames'
    BY DEF IInv, WholeFrames
  <2>4. InCaptureOrder'
    BY DEF IInv, InCaptureOrder, Offering, Receiving
  <2>5. Discarded' /\ Clocks'
    BY DEF IInv, Discarded, Clocks, Offering, Receiving, Connected, Oldest
  <2>. QED
    BY <2>1, <2>2, <2>3, <2>4, <2>5 DEF IInv
<1>2. CASE Terminated
  BY <1>1, <1>2 DEF Terminated
<1>3. CASE RelayWork
  BY <1>3, InvDiscard, InvReceive, InvTrim, InvFill, InvRelayRest DEF RelayWork
<1>4. CASE RelayOutput
  BY <1>4, InvWrite, InvSilence DEF RelayOutput
<1>5. CASE ProducerWork
  BY <1>5, InvSend, InvDropOldest, InvProducerRest DEF ProducerWork
<1>. QED
  BY <1>1, <1>2, <1>3, <1>4, <1>5, InvVideo, InvRead, InvRelayRest, InvClose
     DEF Next

\* The inductive invariant always holds.
LEMMA Invariant == Spec => []IInv
<1>. QED
  BY InvInit, InvNext, PTL DEF Spec

-----------------------------------------------------------------------------
(* What the code promises                                                  *)

\* Every goroutine, buffer and counter of audio_relay.go stays in its range: no
\* buffer outgrows the pump's, the carry stays under a frame, and the queue
\* never exceeds its capacity.
THEOREM TypeCorrect == Spec => []TypeOK
<1>1. IInv => TypeOK
  BY DEF IInv
<1>. QED
  BY <1>1, Invariant, PTL

\* Whatever the sizes of the reads, of a frame and of a chunk, the pump, alignAudio
\* and the trim keep every buffer and both counts on whole PCM frames.
THEOREM ChannelsAligned == Spec => []PhaseAligned
<1>1. IInv => PhaseAligned
  <2>1. DOMAIN ch = 1..Len(ch) \/ ~IInv
    BY DEF IInv, TypeOK
  <2>. QED
    BY <2>1 DEF IInv, WholeFrames, PhaseAligned, Whole, Aligned
<1>. QED
  BY <1>1, Invariant, PTL

\* offer drops the oldest buffer while runAudioRelay takes from the queue, and
\* yet no sample is written before an earlier one or twice.
THEOREM NeverReplayed == Spec => NoReplay
<1>1. IInv /\ [Next]_vars
        => [rpc = "write" /\ written' # written => hand.from >= heard]_written
  BY DEF IInv, InCaptureOrder, Receiving
<1>. QED
  BY <1>1, Invariant, PTL DEF Spec, NoReplay

\* discardBuffered leaves at most what one read returned of the time before
\* ffmpeg connected, whatever the producer does meanwhile.
THEOREM PrerollDiscarded == Spec => PrerollBounded
<1>1. IInv /\ [Next]_vars
        => [heard' # heard => hand.from >= atAccept - (ChunkSize + FrameBytes)]_heard
  <2>. SUFFICES ASSUME IInv, Next, heard' # heard
                PROVE  hand.from >= atAccept - (ChunkSize + FrameBytes)
    BY DEF vars
  <2>1. RelayWrite
    BY DEF Next, Advance, Video, ProducerRead, ProducerWork, ProducerEnd,
           ProducerSend, ProducerFull, ProducerDropOldest, ProducerCheck,
           ProducerClose, RelayAccept, Ticker,
           RelayWork, RelayAcceptFail, RelayDiscard, RelayClock, RelayAnchor,
           RelayStop, RelayReceive, RelayTick, RelaySince, RelayTrim, RelayFill,
           RelayWriteFail, RelayOutput, RelaySilence, FfmpegExit, Close,
           CloseListener, ClosePump, CloseSource, Terminated, vars
  <2>. QED
    BY <2>1 DEF IInv, Discarded, RelayWrite, Receiving, Oldest
<1>. QED
  BY <1>1, Invariant, PTL DEF Spec, PrerollBounded

-----------------------------------------------------------------------------
(* The end: NobodyStranded is inductive but for the connection a relay that  *)
(* was accepted has, and for what the closer did on its way.                 *)

Unwinding ==
    /\ NobodyStranded
    /\ rpc = "discard" \/ Connected => conn # "none"
    /\ cpc # "idle" => ~listener
    /\ cpc \in {"source", "done"} => closed
    /\ cpc = "done" => ~source

\* No step of the producer strands a goroutine: after a drop there is room,
\* because the relay only takes from the queue.
LEMMA UnwindingProducer ==
    ASSUME IInv, Unwinding, ProducerRead \/ ProducerWork
    PROVE  Unwinding'
<1>. USE DEF Unwinding, NobodyStranded, Connected, Running
<1>1. CASE ProducerRead
  <2>1. UNCHANGED <<pumpVars, netVars, relayVars, cpc>> /\ source /\ ppc' # "done"
        /\ ppc' # "retry"
    BY <1>1 DEF ProducerRead
  <2>. QED
    BY <2>1 DEF pumpVars, netVars, relayVars
<1>2. CASE ProducerDropOldest
  <2>1. Len(ch') < QueueSize
    BY <1>2 DEF ProducerDropOldest, IInv, TypeOK
  <2>. QED
    BY <1>2, <2>1 DEF ProducerDropOldest
<1>3. CASE ProducerClose
  BY <1>3 DEF ProducerClose
<1>4. CASE ProducerEnd \/ ProducerSend \/ ProducerFull \/ ProducerCheck
  <2>1. UNCHANGED <<source, chClosed, closed, netVars, relayVars, cpc>>
        /\ ppc' \notin {"done", "retry"}
    BY <1>4 DEF ProducerEnd, ProducerSend, ProducerFull, ProducerCheck, AfterOffer
  <2>2. cpc = "done" => ~source
    OBVIOUS
  <2>. QED
    BY <2>1, <2>2 DEF netVars, relayVars
<1>. QED
  BY <1>1, <1>2, <1>3, <1>4 DEF ProducerWork

\* No step of the relay does: it lets go of both sockets when it returns, and
\* what it takes from the queue only makes room.
LEMMA UnwindingRelay ==
    ASSUME IInv, Unwinding, RelayAccept \/ Ticker \/ RelayWork \/ RelayOutput
    PROVE  Unwinding'
<1>. USE DEF Unwinding, NobodyStranded, Connected, Running
<1>1. CASE RelayAcceptFail \/ RelayStop \/ RelayWriteFail
  <2>1. rpc' = "done" /\ listener' = FALSE /\ conn' # "open"
    BY <1>1 DEF RelayAcceptFail, RelayStop, RelayWriteFail, RelayReturn
  <2>2. UNCHANGED <<ppc, source, ch, chClosed, closed, cpc>>
    BY <1>1 DEF RelayAcceptFail, RelayStop, RelayWriteFail
  <2>. QED
    BY <2>1, <2>2
<1>2. CASE RelayAccept
  BY <1>2 DEF RelayAccept
<1>3. CASE RelayDiscard \/ RelayReceive
  <2>0. ch \in Seq(Captured) /\ Len(ch) \in Nat /\ QueueSize \in Nat
    BY DEF IInv, TypeOK, Captured
  <2>1. Len(ch') \in Nat /\ Len(ch') <= Len(ch)
    <3>1. CASE ch # <<>>
      <4>1. Len(Tail(ch)) \in Nat /\ Len(Tail(ch)) <= Len(ch)
        BY <2>0, <3>1
      <4>. QED
        BY <1>3, <2>0, <3>1, <4>1 DEF RelayDiscard, RelayReceive
    <3>2. CASE ch = <<>>
      BY <1>3, <2>0, <3>2 DEF RelayDiscard, RelayReceive
    <3>. QED
      BY <3>1, <3>2
  <2>2. /\ UNCHANGED <<ppc, source, chClosed, closed, listener, conn, cpc>>
        /\ rpc \in {"discard", "select"} /\ rpc' \in {"discard", "clock", "trim"}
    BY <1>3 DEF RelayDiscard, RelayReceive
  <2>. QED
    BY <2>0, <2>1, <2>2
<1>4. CASE \/ RelayClock \/ RelayAnchor \/ RelayTick \/ RelaySince \/ RelayTrim
           \/ RelayFill \/ RelayWrite \/ RelaySilence \/ Ticker
  <2>1. /\ UNCHANGED <<ppc, source, ch, chClosed, closed, listener, conn, cpc>>
        /\ Connected /\ Connected'
    BY <1>4 DEF RelayClock, RelayAnchor, RelayTick, RelaySince, RelayTrim,
       RelayFill, RelayWrite, RelaySilence, Ticker
  <2>2. cpc = "done" => closed
    OBVIOUS
  <2>. QED
    BY <2>1, <2>2
<1>. QED
  BY <1>1, <1>2, <1>3, <1>4 DEF RelayWork, RelayOutput

\* No step at all does.
LEMMA UnwindingNext == IInv /\ Unwinding /\ [Next]_vars => Unwinding'
<1>. SUFFICES ASSUME IInv, Unwinding, [Next]_vars
              PROVE  Unwinding'
  OBVIOUS
<1>1. CASE ProducerRead \/ ProducerWork
  BY <1>1, UnwindingProducer
<1>2. CASE RelayAccept \/ Ticker \/ RelayWork \/ RelayOutput
  BY <1>2, UnwindingRelay
<1>. USE DEF Unwinding, NobodyStranded, Connected, Running
<1>3. CASE Advance \/ Video \/ UNCHANGED vars
  <2>1. UNCHANGED <<ppc, source, ch, chClosed, closed, listener, conn, rpc, cpc>>
    BY <1>3 DEF Advance, Video, vars
  <2>. QED
    BY <2>1
<1>4. CASE FfmpegExit \/ Close
  BY <1>4 DEF FfmpegExit, Close, CloseListener, ClosePump, CloseSource
<1>. QED
  BY <1>1, <1>2, <1>3, <1>4 DEF Next, Terminated

\* However Abort, ffmpeg and the source interleave with the two goroutines, none
\* is left in a wait that nobody will end, and offer never loses what it was
\* called with: the safety half of CloseEndsGoroutines.
THEOREM NoneStranded == Spec => []NobodyStranded
<1>1. Init => Unwinding
  BY DEF Init, SkewInit, Unwinding, NobodyStranded, Connected, Running
<1>2. Unwinding => NobodyStranded
  BY DEF Unwinding
<1>. QED
  BY <1>1, <1>2, UnwindingNext, InvInit, InvNext, PTL DEF Spec

-----------------------------------------------------------------------------
(***************************************************************************)
(* AudioRelay implements PacedTrack: every step moves the track's clocks,  *)
(* commits bytes the clock allows, or leaves the track alone.              *)
(***************************************************************************)

Elapsed   == IF Started THEN now - rstart ELSE 0
Abandoned == IF Started THEN dropped ELSE 0

TrackStep ==
    \/ Elapsed' >= Elapsed /\ Abandoned' >= Abandoned /\ Committed' = Committed
    \/ /\ Committed' > Committed
       /\ Committed' <= AudioTrack!Target(Elapsed - Abandoned)
                            + (TrimThreshold + MaxBuffer)
       /\ Elapsed' = Elapsed /\ Abandoned' = Abandoned

\* The initial state is one of the abstract track.
LEMMA TrackInit == Init => AudioTrack!TrackInit
  BY DEF Init, SkewInit, AudioTrack!TrackInit, Started, Committed

\* A track that is longer has at least as many bytes.
LEMMA TargetMonotone ==
    ASSUME NEW s \in Int, NEW t \in Int, s <= t
    PROVE  /\ AudioTrack!Target(t) \in Nat
           /\ ExpectedBytes(s) \in Nat /\ ExpectedBytes(s) <= AudioTrack!Target(t)
<1>1. /\ ExpectedBytes(s) \in Nat
      /\ ExpectedBytes(s) <= (IF s <= 0 THEN 0 ELSE s * Rate)
  BY ExpectedBytesResult
<1>2. CASE s <= 0
  <2>1. t > 0 => t * Rate \in Nat
    OBVIOUS
  <2>. QED
    BY <1>1, <1>2, <2>1 DEF AudioTrack!Target
<1>3. CASE s > 0
  <2>1. s * Rate \in Nat /\ t * Rate \in Nat /\ s * Rate <= t * Rate
    BY <1>3
  <2>. QED
    BY <1>1, <1>3, <2>1 DEF AudioTrack!Target
<1>. QED
  BY <1>2, <1>3

\* What the relay takes the track's length to be is never ahead of the clock.
LEMMA ExpectedIsDue ==
    ASSUME IInv, rpc \in {"trimRead", "tickRead"}
    PROVE  /\ Started /\ Elapsed \in Int /\ Abandoned = dropped
           /\ AudioTrack!Target(Elapsed - Abandoned) \in Nat
           /\ Expected \in Nat /\ Expected <= AudioTrack!Target(Elapsed - Abandoned)
<1>1. /\ now \in Nat /\ rstart \in Nat /\ dropped \in Nat /\ since \in Int
      /\ rstart >= 1 /\ since <= now - rstart
  BY DEF IInv, TypeOK, Control, Clocks, Running
<1>2. Started /\ Elapsed = now - rstart /\ Abandoned = dropped
  BY <1>1 DEF Started, Elapsed, Abandoned
<1>3. /\ since - dropped \in Int /\ Elapsed - Abandoned \in Int
      /\ since - dropped <= Elapsed - Abandoned
  BY <1>1, <1>2
<1>4. /\ AudioTrack!Target(Elapsed - Abandoned) \in Nat
      /\ ExpectedBytes(since - dropped) \in Nat
      /\ ExpectedBytes(since - dropped) <= AudioTrack!Target(Elapsed - Abandoned)
  BY <1>3, TargetMonotone
<1>. QED
  BY <1>1, <1>2, <1>4 DEF Expected

\* The track's clocks stand still while the relay decides.
LEMMA ClocksKept ==
    ASSUME UNCHANGED <<now, rstart, dropped>>,
           rpc # "anchor", rpc' # "anchor"
    PROVE  Elapsed' = Elapsed /\ Abandoned' = Abandoned
  BY DEF Elapsed, Abandoned, Started

\* The decision to write what is left of a buffer is an Emit of the track.
LEMMA TrackTrim ==
    ASSUME IInv, RelayTrim
    PROVE  TrackStep
<1>1. /\ rpc = "trimRead" /\ written \in Nat /\ written' = written
      /\ hand.len \in 1..MaxBuffer /\ Elapsed' = Elapsed /\ Abandoned' = Abandoned
  <2>1. rpc = "trimRead" /\ rpc' # "anchor" /\ UNCHANGED <<now, rstart, dropped>>
    BY DEF RelayTrim
  <2>. QED
    BY <2>1, ClocksKept, Sizes
       DEF RelayTrim, IInv, TypeOK, Control, Receiving, Captured
<1>. DEFINE c == Cut
            e == Expected
            t == AudioTrack!Target(Elapsed - Abandoned)
<1>2. /\ c \in 0..hand.len /\ e \in Nat /\ t \in Nat /\ e <= t
      /\ c < hand.len =>
            written + (hand.len - c) <= e + TrimThreshold + MaxBuffer
      /\ Elapsed \in Int /\ Abandoned \in Nat
  BY <1>1, CutResult, ExpectedIsDue DEF IInv, TypeOK
<1>3. Committed = written
  BY <1>1 DEF Committed
<1>4. \/ c < hand.len /\ Committed' = written + (hand.len - c)
      \/ Committed' = written
  BY <1>1, Sizes DEF RelayTrim, Committed, Buffer
<1>. HIDE DEF c, e
<1>5. CASE c < hand.len /\ Committed' = written + (hand.len - c)
  <2>. HIDE DEF t
  <2>1. Committed' > Committed /\ Committed' <= t + (TrimThreshold + MaxBuffer)
    BY <1>1, <1>2, <1>3, <1>5, Sizes
  <2>. QED
    BY <1>1, <2>1 DEF TrackStep, t
<1>6. CASE Committed' = written
  BY <1>1, <1>2, <1>3, <1>6 DEF TrackStep
<1>. QED
  BY <1>4, <1>5, <1>6

\* The decision to make up for a gap is an Emit within what is due.
LEMMA TrackFill ==
    ASSUME IInv, RelayFill
    PROVE  TrackStep
<1>1. /\ rpc = "tickRead" /\ written \in Nat /\ written' = written
      /\ Elapsed' = Elapsed /\ Abandoned' = Abandoned
  <2>1. rpc = "tickRead" /\ rpc' # "anchor" /\ UNCHANGED <<now, rstart, dropped>>
    BY DEF RelayFill
  <2>. QED
    BY <2>1, ClocksKept DEF RelayFill, IInv, TypeOK
<1>. DEFINE e == Expected
            t == AudioTrack!Target(Elapsed - Abandoned)
<1>2. /\ e \in Nat /\ t \in Nat /\ e <= t
      /\ Elapsed \in Int /\ Abandoned \in Nat
  BY <1>1, ExpectedIsDue DEF IInv, TypeOK
<1>3. Committed = written
  BY <1>1 DEF Committed
<1>4. \/ e - written >= FillThreshold /\ Committed' = written + SilenceBytes
      \/ Committed' = written
  <2>1. -Excess = e - written
    BY <1>1, <1>2 DEF Excess
  <2>. HIDE DEF e
  <2>. QED
    BY <1>1, <2>1, Sizes DEF RelayFill, Behind, Committed
<1>. HIDE DEF e
<1>5. CASE e - written >= FillThreshold /\ Committed' = written + SilenceBytes
  <2>. HIDE DEF t
  <2>1. Committed' > Committed /\ Committed' <= t + (TrimThreshold + MaxBuffer)
    BY <1>1, <1>2, <1>3, <1>5, Sizes, FillAssumption
  <2>. QED
    BY <1>1, <2>1 DEF TrackStep, t
<1>6. CASE Committed' = written
  BY <1>1, <1>2, <1>3, <1>6 DEF TrackStep
<1>. QED
  BY <1>4, <1>5, <1>6

\* The track starts late when the relay takes over an anchor, and its clocks
\* move with the real one and with what the pacer abandons.
LEMMA TrackClocks ==
    ASSUME IInv, RelayAnchor \/ Advance \/ Video
    PROVE  TrackStep
<1>1. /\ now \in Nat /\ rstart \in Nat /\ dropped \in Nat /\ anchor \in Nat
      /\ rstart <= now /\ anchor <= now
  BY DEF IInv, TypeOK, Clocks
<1>2. CASE RelayAnchor
  <2>1. /\ rpc = "anchor" /\ rpc' = "select"
        /\ rstart' = anchor \/ rstart' = rstart
        /\ now' = now /\ dropped' = dropped /\ written' = written
    BY <1>2 DEF RelayAnchor
  <2>2. Committed' = Committed
    BY <2>1 DEF Committed
  <2>3. Elapsed = 0 /\ Abandoned = 0
    BY <2>1 DEF Elapsed, Abandoned, Started
  <2>4. now' - rstart' >= 0 /\ dropped' >= 0
    BY <1>1, <2>1
  <2>5. Elapsed' >= 0 /\ Abandoned' >= 0
    BY <2>4 DEF Elapsed, Abandoned
  <2>. QED
    BY <2>2, <2>3, <2>5 DEF TrackStep
<1>3. CASE Advance \/ Video
  <2>1. /\ UNCHANGED <<rpc, rstart, written, hand>>
        /\ now' >= now /\ now' \in Nat /\ dropped' >= dropped /\ dropped' \in Nat
    BY <1>1, <1>3 DEF Advance, Video, TimePasses, VideoFirstFrame, VideoStart,
       VideoMark, VideoDrop
  <2>2. Committed' = Committed /\ (Started' <=> Started)
    BY <2>1 DEF Committed, Started
  <2>3. Elapsed' >= Elapsed /\ Abandoned' >= Abandoned
    <3>1. /\ now \in Int /\ now' \in Int /\ rstart \in Int /\ now' >= now
          /\ rstart' = rstart
      BY <1>1, <2>1
    <3>2. now' - rstart' >= now - rstart
      <4>1. \A m, n, k \in Int : m >= n => m - k >= n - k
        OBVIOUS
      <4>. HIDE Parameters
      <4>. QED
        BY <3>1, <4>1
    <3>3. Elapsed' >= Elapsed
      <4>1. CASE Started
        <5>1. Elapsed = now - rstart /\ Elapsed' = now' - rstart'
          BY <2>2, <4>1 DEF Elapsed
        <5>. QED
          BY <3>2, <5>1
      <4>2. CASE ~Started
        <5>1. Elapsed = 0 /\ Elapsed' = 0
          BY <2>2, <4>2 DEF Elapsed
        <5>. QED
          BY <5>1
      <4>. QED
        BY <4>1, <4>2
    <3>4. Abandoned' >= Abandoned
      BY <1>1, <2>1, <2>2 DEF Abandoned
    <3>. QED
      BY <3>3, <3>4
  <2>. QED
    BY <2>2, <2>3 DEF TrackStep
<1>. QED
  BY <1>2, <1>3

\* Receiving, writing what was committed and returning leave the track alone.
LEMMA TrackRelay ==
    ASSUME IInv,
           \/ RelayAcceptFail \/ RelayDiscard \/ RelayClock \/ RelayStop
           \/ RelayReceive \/ RelayTick \/ RelaySince \/ RelayWriteFail
           \/ RelayAccept \/ RelayWrite \/ RelaySilence
    PROVE  TrackStep
<1>1. /\ now \in Nat /\ rstart \in Nat /\ dropped \in Nat
      /\ written \in Nat /\ hand.len \in Nat
  BY BufferTypes DEF IInv, TypeOK
<1>2. CASE RelayClock
  <2>1. /\ rpc = "clock" /\ rpc' = "anchor" /\ rstart = 0
        /\ UNCHANGED <<now, dropped, written>>
    BY <1>2 DEF RelayClock, IInv, Control
  <2>2. ~Started /\ ~Started' /\ Committed' = Committed
    BY <2>1 DEF Started, Committed
  <2>. QED
    BY <2>2 DEF TrackStep, Elapsed, Abandoned
<1>3. CASE \/ RelayAcceptFail \/ RelayDiscard \/ RelayStop \/ RelayReceive
           \/ RelayTick \/ RelaySince \/ RelayWriteFail \/ RelayAccept
           \/ RelayWrite \/ RelaySilence
  <2>1. /\ UNCHANGED <<now, rstart, dropped>>
        /\ rpc # "anchor" /\ rpc' # "anchor"
    BY <1>3 DEF RelayAcceptFail, RelayDiscard, RelayStop, RelayReceive, RelayTick,
                RelaySince, RelayWriteFail, RelayAccept, RelayWrite, RelaySilence,
                RelayReturn
  <2>2. Elapsed' = Elapsed /\ Abandoned' = Abandoned
    BY <2>1, ClocksKept
  <2>3. Committed' = Committed
    <3>1. CASE RelayStop \/ RelayAcceptFail
      <4>1. hand.len = 0
        BY <3>1 DEF RelayStop, RelayAcceptFail, IInv, Control, Receiving
      <4>. QED
        BY <1>1, <3>1, <4>1 DEF RelayStop, RelayAcceptFail, RelayReturn, Committed
    <3>2. CASE RelayWriteFail
      BY <3>2 DEF RelayWriteFail, RelayReturn, Committed
    <3>3. CASE RelayWrite \/ RelaySilence
      BY <3>3 DEF RelayWrite, RelaySilence, Committed
    <3>4. CASE RelayDiscard \/ RelayReceive \/ RelayTick \/ RelaySince \/ RelayAccept
      BY <3>4 DEF RelayDiscard, RelayReceive, RelayTick, RelaySince, RelayAccept,
                  Committed
    <3>. QED
      BY <1>3, <3>1, <3>2, <3>3, <3>4
  <2>4. Elapsed \in Int /\ Abandoned \in Int
    BY <1>1 DEF Elapsed, Abandoned
  <2>. QED
    BY <2>2, <2>3, <2>4 DEF TrackStep
<1>. QED
  BY <1>2, <1>3

\* Every step of the system maps to a step of the track or to a stutter.
LEMMA TrackNext == IInv /\ [Next]_vars => TrackStep
<1>. SUFFICES ASSUME IInv, [Next]_vars
              PROVE  TrackStep
  OBVIOUS
<1>1. CASE \/ ProducerRead \/ ProducerWork \/ Ticker \/ FfmpegExit \/ Close
           \/ UNCHANGED vars
  <2>1. UNCHANGED <<now, rstart, dropped, rpc, written, hand>>
    BY <1>1 DEF ProducerRead, ProducerWork, ProducerEnd, ProducerSend,
       ProducerFull, ProducerDropOldest, ProducerCheck, ProducerClose, Ticker,
       FfmpegExit, Close, CloseListener, ClosePump, CloseSource, vars
  <2>2. /\ Elapsed' = Elapsed /\ Abandoned' = Abandoned /\ Committed' = Committed
        /\ Elapsed \in Int /\ Abandoned \in Int
    BY <2>1 DEF Elapsed, Abandoned, Started, Committed, IInv, TypeOK
  <2>. QED
    BY <2>2 DEF TrackStep
<1>2. CASE RelayWork
  BY <1>2, TrackTrim, TrackFill, TrackClocks, TrackRelay DEF RelayWork
<1>3. CASE RelayOutput
  BY <1>3, TrackRelay DEF RelayOutput
<1>. QED
  BY <1>1, <1>2, <1>3, TrackClocks, TrackRelay DEF Next, Terminated

\* The audio input keeps its promise to the video input, for every rate and every
\* threshold: it never gets further ahead of the clock both are measured by than
\* the dead band of the trim and one buffer, and never takes a byte back.
THEOREM RelayKeepsTrack == Spec => KeepsTrack
<1>1. TrackStep => [AudioTrack!Pass \/ AudioTrack!Emit]_(AudioTrack!trackVars)
  BY DEF TrackStep, Elapsed, Abandoned, AudioTrack!Pass, AudioTrack!Emit,
         AudioTrack!trackVars
<1>. QED
  BY <1>1, TrackInit, TrackNext, Invariant, PTL
     DEF Spec, KeepsTrack, AudioTrack!Track

=============================================================================
