--------------------------- MODULE TransportStream ---------------------------
(***************************************************************************)
(* ts/session.go: a session whose output is ffmpeg's standard output.      *)
(*                                                                         *)
(*   start      ts.Start from waitForStream on;                            *)
(*   probe      the goroutine that buffers the head of the stream until it *)
(*              has proved to be a transport stream;                       *)
(*   reader     the renderer that reads Stream, first from the probe's     *)
(*              buffer and then from the pipe;                             *)
(*   ffmpeg     and the goroutine waiting for it, which closes the read    *)
(*              end of the pipe before it delivers the exit status.        *)
(*                                                                         *)
(* The stream is counted in units of half a packet, so that a read may end *)
(* inside a packet; a unit is the ordinal at which ffmpeg wrote it.  What  *)
(* Session.Close does beyond ending ffmpeg is in SessionLifecycle.         *)
(* Timeouts are abstracted: one may always expire.                         *)
(* An operator X_Fault next to X is X with a plausible mistake in it.      *)
(***************************************************************************)
EXTENDS TsPacket, Sequences, SequencesExt

CONSTANTS
    StartupUnits,   \* defaultStartupBytes
    MaxProbeUnits,  \* maxProbeBytes
    ReadUnits,      \* size of a read
    PipeUnits,      \* capacity of the operating system's pipe
    MaxUnits        \* bound: units ffmpeg writes

ASSUME RoomAssumption  == TsPacketSize >= 24
ASSUME UnitsAssumption ==
    /\ {StartupUnits, MaxProbeUnits, ReadUnits, PipeUnits, MaxUnits} \subseteq Nat \ {0}
    /\ StartupUnits <= MaxProbeUnits

VARIABLES
    spc,        \* start: "wait", "grace", "close", "failed" or "ok"
    sent,       \* kinds of the packets ffmpeg has begun to write
    written,    \* units it has written
    proc,       \* ffmpeg: "running", "killed", "dead" or "reaped"
    pipe,       \* units in the pipe
    stdout,     \* its read end: "open" or "closed"
    wpc,        \* waiter: "wait", "copy", "send", "closeDone", "close" or "done"
    exit,       \* Session.done: "none", "sent" or "closed"
    closed,     \* Session.Close has run
    ppc,        \* probe: "read", "append", "signal" or "done"
    hand,       \* units its read returned
    failed,     \* its read returned an error
    buf,        \* streamProbe.buf
    valid,      \* streamProbe.valid
    gaveUp,     \* streamProbe.reason is set
    ready,      \* streamProbe.ready is closed
    rpc,        \* reader: "idle", "source", "ended" or "gone"
    last        \* last unit it was given

muxVars   == <<sent, written, proc, pipe, stdout>>
waitVars  == <<wpc, exit, closed>>
probeVars == <<ppc, hand, failed, buf, valid, gaveUp, ready>>
readVars  == <<rpc, last>>
vars == <<spc, muxVars, waitVars, probeVars, readVars>>

Init ==
    /\ spc = "wait"
    /\ sent = <<>> /\ written = 0 /\ proc = "running"
    /\ pipe = <<>> /\ stdout = "open"
    /\ wpc = "wait" /\ exit = "none" /\ closed = FALSE
    /\ ppc = "read" /\ hand = <<>> /\ failed = FALSE
    /\ buf = <<>> /\ valid = FALSE /\ gaveUp = FALSE /\ ready = FALSE
    /\ rpc = "idle" /\ last = 0

-----------------------------------------------------------------------------
(* ffmpeg                                                                  *)

\* A packet whose first bytes are given, filled up as the tests fill theirs.
Filled(bytes) == [i \in Offsets |-> IF i < Len(bytes) THEN bytes[i + 1] ELSE 255]

\* A PAT that lists program 1 on PID 256 and ends in a checksum which, read as
\* an entry, would list PID 291; PMTs on both; a packet without a section; and
\* one whose adaptation field leaves no room for one.
Bytes == [
    pat   |-> Filled(<<71, 64, 0, 16, 0, 0, 176, 13, 0, 1, 193, 0, 0,
                       0, 1, 225, 0, 171, 205, 225, 35>>),
    pmt   |-> Filled(<<71, 65, 0, 16, 0, 2, 176, 17, 0, 1, 193, 0, 0, 225, 0, 240, 0>>),
    stray |-> Filled(<<71, 65, 35, 16, 0, 2, 176, 17, 0, 1, 193, 0, 0, 225, 0, 240, 0>>),
    data  |-> Filled(<<71, 1, 0, 16>>),
    full  |-> Filled(<<71, 65, 0, 48, 255>>)]

Kinds == DOMAIN Bytes

\* ffmpeg writes a unit while the pipe has room, a killed one until the signal
\* takes effect.  What a packet is does not matter once the probe is over.
Mux ==
    /\ proc \in {"running", "killed"} /\ stdout = "open"
    /\ Len(pipe) < PipeUnits /\ written < MaxUnits
    /\ written' = written + 1
    /\ pipe' = Append(pipe, written')
    /\ IF written % 2 = 0
       THEN \E k \in IF ppc = "done" THEN {"data"} ELSE Kinds : sent' = Append(sent, k)
       ELSE UNCHANGED sent
    /\ UNCHANGED <<spc, proc, stdout, waitVars, probeVars, readVars>>

\* ffmpeg exits by itself, is killed, or a write of its fails.
ProcExit ==
    /\ proc \in {"running", "killed"}
    /\ proc' = "dead"
    /\ UNCHANGED <<spc, sent, written, pipe, stdout, waitVars, probeVars, readVars>>

-----------------------------------------------------------------------------
(* cmd.Wait and the goroutine it runs in                                   *)

WaitReap ==
    /\ wpc = "wait" /\ proc = "dead"
    /\ proc' = "reaped"
    /\ wpc' = "copy"
    /\ UNCHANGED <<spc, sent, written, pipe, stdout, exit, closed, probeVars, readVars>>

\* The copy to ffmpeg's stdin has ended: the read end of the pipe is closed, and
\* what is in the pipe lost.
WaitStdout ==
    /\ wpc = "copy"
    /\ stdout' = "closed" /\ pipe' = <<>>
    /\ wpc' = "send"
    /\ UNCHANGED <<spc, sent, written, proc, exit, closed, probeVars, readVars>>

WaitDone ==
    /\ \/ wpc = "send" /\ wpc' = "closeDone" /\ exit' = "sent"
       \/ wpc = "closeDone" /\ wpc' = "close" /\ exit' = "closed"
    /\ UNCHANGED <<spc, muxVars, closed, probeVars, readVars>>

\* Session.Close: ffmpeg is told to die and its inputs are closed.
Close ==
    /\ closed' = TRUE
    /\ proc' = IF proc = "running" THEN "killed" ELSE proc
    /\ UNCHANGED <<sent, written, pipe, stdout>>

WaitClose ==
    /\ wpc = "close"
    /\ Close
    /\ wpc' = "done"
    /\ UNCHANGED <<spc, exit, probeVars, readVars>>

\* The program closes a session it was given.
CallerClose ==
    /\ spc = "ok" /\ ~closed
    /\ Close
    /\ UNCHANGED <<spc, wpc, exit, probeVars, readVars>>

-----------------------------------------------------------------------------
(* Reading the pipe                                                        *)

\* A read returns what is there, or an error: end of file once nobody can write,
\* or that the read end is closed.
AtEnd == pipe = <<>> /\ (proc \in {"dead", "reaped"} \/ stdout = "closed")

\* streamProbe.run
ProbeRead ==
    /\ ppc = "read"
    /\ \/ /\ pipe # <<>>
          /\ LET n == IF Len(pipe) < ReadUnits THEN Len(pipe) ELSE ReadUnits
             IN  hand' = SubSeq(pipe, 1, n) /\ pipe' = SubSeq(pipe, n + 1, Len(pipe))
          /\ failed' = FALSE
       \/ /\ AtEnd
          /\ failed' = TRUE
          /\ UNCHANGED <<hand, pipe>>
    /\ ppc' = "append"
    /\ UNCHANGED <<spc, sent, written, proc, stdout, waitVars, buf, valid, gaveUp,
                   ready, readVars>>

\* The packets that are complete in the buffer.
Buffered(units) == {Bytes[sent[i]] : i \in 1..(Len(units) \div 2)}

Proved(units) == Len(units) >= StartupUnits /\ HasPATAndPMT(Buffered(units))

\* Announce a valid stream, and go on reading it.
ProbeAppend_ReadOn ==
    /\ ppc = "append"
    /\ buf' = buf \o hand /\ hand' = <<>>
    /\ valid' = (valid \/ Proved(buf'))
    /\ gaveUp' = (~valid' /\ Len(buf') >= MaxProbeUnits)
    /\ ready' = (ready \/ valid')
    /\ ppc' = IF gaveUp' \/ failed THEN "signal" ELSE "read"
    /\ UNCHANGED <<spc, muxVars, waitVars, failed, readVars>>

\* Wait for a valid stream however much of another one arrives.
ProbeAppend_NoLimit ==
    /\ ppc = "append"
    /\ buf' = buf \o hand /\ hand' = <<>>
    /\ valid' = (valid \/ Proved(buf'))
    /\ ppc' = IF valid' \/ failed THEN "signal" ELSE "read"
    /\ UNCHANGED <<spc, muxVars, waitVars, failed, gaveUp, ready, readVars>>

\* The bytes and the verdict, under the mutex.
ProbeAppend ==
    /\ ppc = "append"
    /\ buf' = buf \o hand /\ hand' = <<>>
    /\ valid' = (valid \/ Proved(buf'))
    /\ gaveUp' = (~valid' /\ Len(buf') >= MaxProbeUnits)
    /\ ppc' = IF valid' \/ gaveUp' \/ failed THEN "signal" ELSE "read"
    /\ UNCHANGED <<spc, muxVars, waitVars, failed, ready, readVars>>

ProbeSignal ==
    /\ ppc = "signal"
    /\ ready' = TRUE
    /\ ppc' = "done"
    /\ UNCHANGED <<spc, muxVars, waitVars, hand, failed, buf, valid, gaveUp, readVars>>

Probe == ProbeRead \/ ProbeAppend \/ ProbeSignal

\* prefixReader.Read: the buffer first; any part of it fits the caller's slice.
ReadBuffer ==
    /\ spc = "ok" /\ rpc = "idle"
    /\ IF buf = <<>>
       THEN rpc' = "source" /\ UNCHANGED <<buf, last>>
       ELSE \E n \in 1..Len(buf) :
                /\ last' = buf[n]
                /\ buf' = SubSeq(buf, n + 1, Len(buf))
                /\ UNCHANGED rpc
    /\ UNCHANGED <<spc, muxVars, waitVars, ppc, hand, failed, valid, gaveUp, ready>>

ReadSource ==
    /\ rpc = "source"
    /\ \/ \E n \in 1..Len(pipe) :
             /\ last' = pipe[n]
             /\ pipe' = SubSeq(pipe, n + 1, Len(pipe))
             /\ rpc' = "idle"
       \/ AtEnd /\ rpc' = "ended" /\ UNCHANGED <<last, pipe>>
    /\ UNCHANGED <<spc, sent, written, proc, stdout, waitVars, probeVars>>

\* Close the pipe with the stream.
Disconnect_ClosesPipe ==
    /\ spc = "ok" /\ rpc = "idle"
    /\ rpc' = "gone"
    /\ stdout' = "closed" /\ pipe' = <<>>
    /\ UNCHANGED <<spc, sent, written, proc, waitVars, probeVars, last>>

\* prefixReader.Close: the renderer closes the stream, which does nothing.
Disconnect ==
    /\ spc = "ok" /\ rpc = "idle"
    /\ rpc' = "gone"
    /\ UNCHANGED <<spc, muxVars, waitVars, probeVars, last>>

-----------------------------------------------------------------------------
(* Start                                                                   *)

\* waitForStream: the probe is over, with a verdict or for want of input.
WaitReady ==
    /\ spc = "wait" /\ ready
    /\ spc' = IF valid THEN "ok" ELSE IF gaveUp THEN "close" ELSE "grace"
    /\ UNCHANGED <<muxVars, waitVars, probeVars, readVars>>

\* ffmpeg's exit status arrives first, or StartupTimeout expires.
WaitExit    == spc = "wait" /\ exit # "none" /\ spc' = "close"
WaitTimeout == spc = "wait" /\ spc' = "close"

\* Wait for the exit status however long it takes.
Grace_NoTimeout == spc = "grace" /\ exit # "none" /\ spc' = "close"

\* The exit status, if it arrives within two seconds.
Grace == spc = "grace" /\ spc' = "close"

\* Return the error and leave the session to itself.
StartFail_Leave ==
    /\ spc = "close"
    /\ spc' = "failed"
    /\ UNCHANGED <<muxVars, waitVars, probeVars, readVars>>

\* Start closes the session and returns the error.
StartFail ==
    /\ spc = "close"
    /\ Close
    /\ spc' = "failed"
    /\ UNCHANGED <<wpc, exit, probeVars, readVars>>

Start == \/ WaitReady \/ StartFail
         \/ /\ WaitExit \/ WaitTimeout \/ Grace
            /\ UNCHANGED <<muxVars, waitVars, probeVars, readVars>>

-----------------------------------------------------------------------------
\* Nothing of the session runs any more.
Quiet == proc = "reaped" /\ wpc = "done" /\ ppc = "done" /\ rpc # "source"

Terminated == spc \in {"ok", "failed"} /\ Quiet /\ UNCHANGED vars

Next == \/ Mux \/ ProcExit
        \/ WaitReap \/ WaitStdout \/ WaitDone \/ WaitClose \/ CallerClose
        \/ Probe \/ ReadBuffer \/ ReadSource \/ Disconnect
        \/ Start \/ Terminated

Spec == Init /\ [][Next]_vars

\* Every goroutine runs, timers expire and a killed ffmpeg dies.  Not assumed:
\* that the copy to ffmpeg's stdin ends, which Close does not see to when the
\* backend's own Close hangs; that ffmpeg writes or exits; that anybody reads the
\* stream or closes it.
Fairness ==
    /\ WF_vars(Start) /\ WF_vars(Probe)
    /\ WF_vars(proc = "killed" /\ ProcExit)
    /\ WF_vars(WaitReap) /\ WF_vars(WaitDone) /\ WF_vars(WaitClose)
    /\ WF_vars(ReadSource)

FairSpec == Spec /\ Fairness

-----------------------------------------------------------------------------
(* Properties                                                              *)

\* In particular the probe never buffers more than its limit and one read.
TypeOK ==
    /\ spc \in {"wait", "grace", "close", "failed", "ok"}
    /\ sent \in Seq(Kinds) /\ written \in 0..MaxUnits
    /\ Len(sent) = (written + 1) \div 2
    /\ proc \in {"running", "killed", "dead", "reaped"}
    /\ pipe \in Seq(1..MaxUnits) /\ Len(pipe) <= PipeUnits
    /\ stdout \in {"open", "closed"}
    /\ wpc \in {"wait", "copy", "send", "closeDone", "close", "done"}
    /\ exit \in {"none", "sent", "closed"} /\ closed \in BOOLEAN
    /\ ppc \in {"read", "append", "signal", "done"}
    /\ hand \in Seq(1..MaxUnits) /\ Len(hand) <= ReadUnits
    /\ failed \in BOOLEAN /\ valid \in BOOLEAN /\ gaveUp \in BOOLEAN
    /\ buf \in Seq(1..MaxUnits) /\ Len(buf) < MaxProbeUnits + ReadUnits
    /\ ready \in BOOLEAN /\ ready => ppc = "done"
    /\ rpc \in {"idle", "source", "ended", "gone"} /\ last \in 0..MaxUnits

\* What the renderer was given, the probe's buffer, the probe's last read and
\* the pipe are consecutive and complete: the hand-over from the probe to the
\* renderer loses, repeats and reorders nothing.  Only what is in the pipe when
\* ffmpeg has exited may be lost.
InOrder ==
    LET s == <<last>> \o buf \o hand \o pipe
    IN  /\ \A i \in 1..(Len(s) - 1) : s[i + 1] = s[i] + 1
        /\ stdout = "open" => s[Len(s)] = written

\* Start only returns a stream whose head, still in the buffer as a whole, has a
\* PAT and the PMT it lists, in complete packets.
Announced == {sent[i] : i \in 1..(Len(buf) \div 2)}
StartVerified ==
    [][spc' = "ok" /\ spc # "ok" =>
        Len(buf) >= StartupUnits /\ {"pat", "pmt"} \subseteq Announced]_vars

\* A renderer that closes the stream or stops reading it never takes ffmpeg's
\* standard output away: its read end outlives the process.
PipeOutlivesFfmpeg == stdout = "closed" => proc = "reaped"

\* Start returns, even if ffmpeg neither writes nor exits and cmd.Wait is stuck
\* in the copy to its stdin.
StartReturns == <>(spc \in {"ok", "failed"})

\* A Start that failed and a Close, whoever called it, end ffmpeg, the probe, the
\* waiter and a renderer blocked in Read, provided cmd.Wait gets past the copy to
\* ffmpeg's stdin.  It does when the backend's Close returns (UnwindEndsAll of
\* SessionLifecycle); when that hangs, closeBounded gives up and the waiter stays.
CloseEndsAll == []<>(wpc # "copy") => (spc = "failed" \/ closed ~> Quiet)

=============================================================================
