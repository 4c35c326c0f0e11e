--------------------------- MODULE DarwinCapture ---------------------------
(***************************************************************************)
(* capture/capture_darwin.go and capture_darwin.m: the native session of   *)
(* the macOS backend, an SCStream whose samples of both kinds arrive one   *)
(* at a time on one serial dispatch queue.                                 *)
(*                                                                         *)
(* Stopping it is asynchronous and nobody waits: samples may arrive after  *)
(* it is stopped and freed.  They find the stream gone from the registry;  *)
(* one that has looked it up before goes on with its queue.                *)
(* An operator X_Fault next to X is X with a plausible mistake in it.      *)
(***************************************************************************)
EXTENDS CallbackQueue

VARIABLE
    macStream  \* SCStream: "off", "on" or "stopping"

MacInit == macStream = "off"

\* InitMacCapture: there may be no display, or no permission to see one.
MacInitNative ==
    /\ \/ OpenGo("init", "start") /\ native' = "built"
       \/ OpenGo("init", "unregister") /\ UNCHANGED native
    /\ UNCHANGED <<platform, audio, registered, ready, prodVars, queueVars, loopVars,
                   pipe, closeVars, macStream>>

\* StartMacCapture: an error of startCapture is ignored.
MacStart ==
    /\ OpenGo("start", "wait")
    /\ native' = "started"
    /\ macStream' \in {"on", "off"}
    /\ UNCHANGED <<platform, audio, registered, ready, prodVars, queueVars, loopVars,
                   pipe, closeVars>>

\* didOutputSampleBuffer, on the serial queue.
MacSample(k) ==
    /\ k \in Streamed /\ macStream # "off" /\ made[k] < MaxChunks
    /\ \A j \in Kinds : ppc[j] = "idle"
    /\ made' = [made EXCEPT ![k] = @ + 1]
    /\ hand' = [hand EXCEPT ![k] = made'[k]]
    /\ CallbackGo(k, "idle", "lookup")
    /\ UNCHANGED <<openVars, native, queueVars, loopVars, pipe, closeVars, macStream>>

\* StopMacCapture: stopCapture only asks.
MacStop ==
    /\ platform = "darwin" /\ UnwindGo("stop", "free")
    /\ macStream' = IF macStream = "on" THEN "stopping" ELSE macStream
    /\ UNCHANGED <<openVars, native, prodVars, queueVars, loopVars, pipe, call>>

\* The stream has stopped, as it was asked to or by itself.
MacStopped ==
    /\ macStream # "off"
    /\ macStream' = "off"
    /\ UNCHANGED sharedVars

\* FreeMacCapture gives the reference back; the stream keeps its own.
MacFree ==
    /\ platform = "darwin" /\ UnwindGo("free", "pipes")
    /\ native' = "freed"
    /\ UNCHANGED <<openVars, prodVars, queueVars, loopVars, pipe, call, macStream>>

=============================================================================
