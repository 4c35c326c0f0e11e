---------------------------- MODULE LinuxCapture ----------------------------
(***************************************************************************)
(* capture/capture_linux.go with internal/xdgportal and internal/request:  *)
(* open asks the desktop portal for a session, its sources and its start,  *)
(* then connects a video and perhaps an audio stream.                      *)
(*                                                                         *)
(* Each request is a call whose answer is a Response signal.  All openers  *)
(* of the process share one bus connection: a signal some match rule lets  *)
(* in reaches every channel that listens at that time, and one nobody has  *)
(* a rule for is lost.  The portal's signals are well formed.  A PipeWire  *)
(* stream is reduced to whether it is open (see PipeWireStream).           *)
(* An operator X_Fault next to X is X with a plausible mistake in it.      *)
(***************************************************************************)
EXTENDS Naturals, Sequences, FiniteSets

CONSTANTS Openers  \* goroutines that call open, each once

ASSUME OpenersAssumption == IsFiniteSet(Openers)

None == "none"
ASSUME NoneAssumption == None \notin Openers

VARIABLES
    pc,        \* pc[o]: where o's open is, or how it ended
    at,        \* at[o]: how far its current request is
    handle,    \* handle[o]: opener whose portal session o holds, or None
    include,   \* options.IncludeAudio
    video,     \* video[o], audio[o]: "none", "open" or "closed"
    audio,
    upc,       \* upc[o]: program counter of Close of o's stream
    session,   \* session[o]: the portal's session for o
    asked,     \* asked[o]: the request of o the portal is working on, or None
    matched,   \* openers with a match rule
    listening, \* openers with a signal channel
    inbox      \* inbox[o]: signals sent to o's channel

openVars   == <<pc, at, handle, include>>
streamVars == <<video, audio>>
portalVars == <<session, asked>>
busVars    == <<matched, listening, inbox>>
vars == <<openVars, streamVars, upc, portalVars, busVars>>

Requests == {"create", "select", "start"}
Then     == [create |-> "select", select |-> "start", start |-> "remote"]
Ended    == {"ok", "failed", "cancelled"}

Init ==
    /\ pc = [o \in Openers |-> "create"] /\ at = [o \in Openers |-> "call"]
    /\ handle = [o \in Openers |-> None] /\ include \in [Openers -> BOOLEAN]
    /\ video = [o \in Openers |-> "none"] /\ audio = [o \in Openers |-> "none"]
    /\ upc = [o \in Openers |-> "idle"]
    /\ session = [o \in Openers |-> "none"] /\ asked = [o \in Openers |-> None]
    /\ matched = {} /\ listening = {} /\ inbox = [o \in Openers |-> <<>>]

-----------------------------------------------------------------------------
(* The portal                                                              *)

\* The state of a session before a request and after it was granted.
Before(request) == CASE request = "create" -> "none"
                     [] request = "select" -> "created"
                     [] request = "start"  -> "selected"
Granted(request) == CASE request = "create" -> "created"
                      [] request = "select" -> "selected"
                      [] request = "start"  -> "started"

\* The portal, or the user, grants or refuses the request and emits Response.
Answer(o, granted) ==
    /\ asked[o] # None
    /\ session' = IF granted THEN [session EXCEPT ![o] = Granted(asked[o])]
                             ELSE session
    /\ inbox' = [p \in Openers |->
                   IF o \in matched /\ p \in listening
                   THEN Append(inbox[p], [from |-> o, granted |-> granted])
                   ELSE inbox[p]]
    /\ asked' = [asked EXCEPT ![o] = None]
    /\ UNCHANGED <<openVars, streamVars, upc, matched, listening>>

\* The user ends the sharing.
Withdraw(o) ==
    /\ session[o] = "started"
    /\ session' = [session EXCEPT ![o] = "closed"]
    /\ UNCHANGED <<openVars, streamVars, upc, asked, busVars>>

-----------------------------------------------------------------------------
(* A request: the call, then OnSignalResponse                              *)

\* An error or a refusal: open returns, after the deferred sess.Close if there
\* is a session.
Leave(o, outcome) ==
    pc' = [pc EXCEPT ![o] = IF handle[o] = None THEN outcome
                            ELSE IF outcome = "failed" THEN "cleanup"
                            ELSE "cleanupCancelled"]

\* apis.Call on the session o holds; the portal refuses a request out of turn.
Call(o) ==
    /\ pc[o] \in Requests /\ at[o] = "call"
    /\ LET s == IF handle[o] = None THEN o ELSE handle[o]
       IN  \/ /\ session[s] = Before(pc[o])
              /\ asked' = [asked EXCEPT ![s] = pc[o]]
              /\ at' = [at EXCEPT ![o] = "match"]
              /\ UNCHANGED pc
           \/ Leave(o, "failed") /\ UNCHANGED <<at, asked>>
    /\ UNCHANGED <<handle, include, streamVars, upc, session, busVars>>

\* AddMatchSignal, which may fail, ...
Match(o) ==
    /\ pc[o] \in Requests /\ at[o] = "match"
    /\ \/ /\ matched' = matched \cup {o}
          /\ at' = [at EXCEPT ![o] = "signal"]
          /\ UNCHANGED pc
       \/ /\ Leave(o, "failed")
          /\ at' = [at EXCEPT ![o] = "call"]
          /\ UNCHANGED matched
    /\ UNCHANGED <<handle, include, streamVars, upc, portalVars, listening, inbox>>

\* ... then conn.Signal of a new channel.
Listen(o) ==
    /\ pc[o] \in Requests /\ at[o] = "signal"
    /\ listening' = listening \cup {o}
    /\ at' = [at EXCEPT ![o] = "wait"]
    /\ UNCHANGED <<pc, handle, include, streamVars, upc, portalVars, matched, inbox>>

\* OnSignalResponse returns: its rule and its channel are removed.
Unlisten(o) ==
    /\ matched' = matched \ {o} /\ listening' = listening \ {o}
    /\ inbox' = [inbox EXCEPT ![o] = <<>>]
    /\ at' = [at EXCEPT ![o] = "call"]

\* Go on with the request, or stop when it was refused.  A refusal to select
\* sources goes unnoticed.
Proceed(o, response) ==
    IF response.granted \/ pc[o] = "select"
    THEN /\ handle' = IF pc[o] = "create" THEN [handle EXCEPT ![o] = response.from]
                                          ELSE handle
         /\ pc' = [pc EXCEPT ![o] = Then[@]]
    ELSE Leave(o, "cancelled") /\ UNCHANGED handle

\* Take any response for the one asked for.
Respond_AnyPath(o) ==
    /\ at[o] = "wait" /\ inbox[o] # <<>>
    /\ Proceed(o, Head(inbox[o]))
    /\ Unlisten(o)
    /\ UNCHANGED <<include, streamVars, upc, portalVars>>

\* A response of another path is an error.
Respond(o) ==
    /\ at[o] = "wait" /\ inbox[o] # <<>>
    /\ IF Head(inbox[o]).from = o
       THEN Proceed(o, Head(inbox[o]))
       ELSE Leave(o, "failed") /\ UNCHANGED handle
    /\ Unlisten(o)
    /\ UNCHANGED <<include, streamVars, upc, portalVars>>

-----------------------------------------------------------------------------
(* open, once the portal has started the session                           *)

\* No stream, an index out of range or an empty size, or the portal refuses
\* OpenPipeWireRemote: an error.
OpenRemote(o) ==
    /\ pc[o] = "remote"
    /\ \/ session[handle[o]] = "started" /\ pc' = [pc EXCEPT ![o] = "video"]
       \/ Leave(o, "failed")
    /\ UNCHANGED <<at, handle, include, streamVars, upc, portalVars, busVars>>

\* Return NewStream's error with the session open.
NewVideo_KeepSession(o) ==
    /\ pc[o] = "video"
    /\ \/ /\ video' = [video EXCEPT ![o] = "open"]
          /\ pc' = [pc EXCEPT ![o] = IF include[o] THEN "audio" ELSE "ok"]
       \/ pc' = [pc EXCEPT ![o] = "failed"] /\ UNCHANGED video
    /\ UNCHANGED <<at, handle, include, audio, upc, portalVars, busVars>>

\* NewStream, Start and WaitFrameRate.
NewVideo(o) ==
    /\ pc[o] = "video"
    /\ \/ /\ video' = [video EXCEPT ![o] = "open"]
          /\ pc' = [pc EXCEPT ![o] = IF include[o] THEN "audio" ELSE "ok"]
       \/ Leave(o, "failed") /\ UNCHANGED video
    /\ UNCHANGED <<at, handle, include, audio, upc, portalVars, busVars>>

\* Without audio open goes on with video only.
NewAudio(o) ==
    /\ pc[o] = "audio"
    /\ \/ audio' = [audio EXCEPT ![o] = "open"]
       \/ UNCHANGED audio
    /\ pc' = [pc EXCEPT ![o] = "ok"]
    /\ UNCHANGED <<at, handle, include, video, upc, portalVars, busVars>>

\* session.Close: the portal ends the session and what it was asked for it.
CloseSession(o) ==
    /\ session' = [session EXCEPT ![handle[o]] = "closed"]
    /\ asked' = [asked EXCEPT ![handle[o]] = None]

\* The deferred sess.Close, while cleanupSession.
Cleanup(o) ==
    /\ pc[o] \in {"cleanup", "cleanupCancelled"}
    /\ CloseSession(o)
    /\ pc' = [pc EXCEPT ![o] = IF @ = "cleanup" THEN "failed" ELSE "cancelled"]
    /\ UNCHANGED <<at, handle, include, streamVars, upc, busVars>>

Open(o) == \/ Call(o) \/ Match(o) \/ Listen(o) \/ Respond(o)
           \/ OpenRemote(o) \/ NewVideo(o) \/ NewAudio(o) \/ Cleanup(o)

-----------------------------------------------------------------------------
(* linuxReadCloser.Close                                                   *)

Close(o) ==
    /\ \/ /\ pc[o] = "ok" /\ upc[o] = "idle"
          /\ upc' = [upc EXCEPT ![o] = "video"]
          /\ UNCHANGED <<streamVars, portalVars>>
       \/ /\ upc[o] = "video"
          /\ video' = [video EXCEPT ![o] = "closed"]
          /\ upc' = [upc EXCEPT ![o] = "audio"]
          /\ UNCHANGED <<audio, portalVars>>
       \/ /\ upc[o] = "audio"
          /\ audio' = [audio EXCEPT ![o] = IF @ = "open" THEN "closed" ELSE @]
          /\ upc' = [upc EXCEPT ![o] = "session"]
          /\ UNCHANGED <<video, portalVars>>
       \/ /\ upc[o] = "session"
          /\ CloseSession(o)
          /\ upc' = [upc EXCEPT ![o] = "done"]
          /\ UNCHANGED streamVars
    /\ UNCHANGED <<openVars, busVars>>

-----------------------------------------------------------------------------
\* The opener waits for a signal; nothing but the portal or another opener ends it.
Silent(o) == at[o] = "wait" /\ inbox[o] = <<>>

\* The only states that may not move.
Terminated ==
    /\ \A o \in Openers : \/ pc[o] \in {"failed", "cancelled"}
                          \/ upc[o] = "done"
                          \/ Silent(o) /\ asked[o] = None
    /\ UNCHANGED vars

Next == \/ \E o \in Openers : \/ \E granted \in BOOLEAN : Answer(o, granted)
                              \/ Withdraw(o) \/ Open(o) \/ Close(o)
        \/ Terminated

Spec == Init /\ [][Next]_vars

-----------------------------------------------------------------------------
(* Properties                                                              *)

\* In particular o listens exactly while it waits for a response.
TypeOK ==
    /\ pc \in [Openers -> Requests \cup Ended \cup {"remote", "video", "audio",
                                                    "cleanup", "cleanupCancelled"}]
    /\ at \in [Openers -> {"call", "match", "signal", "wait"}]
    /\ \A o \in Openers : at[o] # "call" => pc[o] \in Requests
    /\ handle \in [Openers -> Openers \cup {None}] /\ include \in [Openers -> BOOLEAN]
    /\ video \in [Openers -> {"none", "open", "closed"}]
    /\ audio \in [Openers -> {"none", "open", "closed"}]
    /\ upc \in [Openers -> {"idle", "video", "audio", "session", "done"}]
    /\ session \in [Openers -> {"none", "created", "selected", "started", "closed"}]
    /\ asked \in [Openers -> Requests \cup {None}]
    /\ matched = {o \in Openers : at[o] \in {"signal", "wait"}}
    /\ listening = {o \in Openers : at[o] = "wait"}
    /\ inbox \in [Openers -> Seq([from : Openers, granted : BOOLEAN])]
    /\ \A o \in Openers : inbox[o] # <<>> => o \in listening

\* An opener only ever holds the portal session it asked for, although every
\* opener's responses reach every channel.
OwnSession == \A o \in Openers : handle[o] \in {None, o}

\* An open that got its session handle and failed, and a Close that returned,
\* leave no portal session and no stream open.
NothingLeftBehind ==
    \A o \in Openers :
        handle[o] # None /\ (pc[o] \in {"failed", "cancelled"} \/ upc[o] = "done") =>
            /\ session[handle[o]] = "closed"
            /\ video[o] # "open" /\ audio[o] # "open"

=============================================================================
