---------------------------- MODULE StderrBuffer ----------------------------
(***************************************************************************)
(* internal/pipeline/locked_buffer.go: the end of what ffmpeg writes to    *)
(* its standard error, kept for error messages.  os/exec's copy writes, in *)
(* pieces of any size, each under the mutex; Tail only reads.              *)
(***************************************************************************)
EXTENDS Integers, Sequences

Byte == 0..255

maxStderrCaptureBytes  == 2097152
keepStderrCaptureBytes == maxStderrCaptureBytes \div 2

VARIABLES
    written,  \* everything ffmpeg has written
    buf       \* lockedBuffer.buf

BufferInit == written = <<>> /\ buf = <<>>

Final(s, n) == SubSeq(s, Len(s) - n + 1, Len(s))

\* What Write leaves of the buffer.
Trimmed(s) ==
    IF Len(s) > maxStderrCaptureBytes THEN Final(s, keepStderrCaptureBytes) ELSE s

Write(p) ==
    /\ written' = written \o p
    /\ buf' = Trimmed(buf \o p)

BufferNext == \E p \in Seq(Byte) : Write(p)

BufferSpec == BufferInit /\ [][BufferNext]_<<written, buf>>

-----------------------------------------------------------------------------
\* s ends in e.
EndsIn(s, e) ==
    /\ Len(e) <= Len(s)
    /\ \A i \in 1..Len(e) : e[i] = s[Len(s) - Len(e) + i]

\* However long ffmpeg goes on and in whatever pieces it writes, the buffer is
\* bounded, and is the end of what was written without a gap: all of it, or at
\* least what a trim keeps.
KeepsEnd ==
    /\ written \in Seq(Byte) /\ buf \in Seq(Byte)
    /\ Len(buf) <= maxStderrCaptureBytes
    /\ EndsIn(written, buf)
    /\ buf = written \/ Len(buf) >= keepStderrCaptureBytes

=============================================================================
