------------------------- MODULE LinuxCaptureProofs -------------------------
(***************************************************************************)
(* What holds of LinuxCapture for any number of concurrent opens.          *)
(*                                                                         *)
(* NothingLeftBehind is not inductive.  Turn adds that the portal only     *)
(* works on a request its session is ready for, so an answer never brings  *)
(* a closed session back; Streams adds when a stream can be open.          *)
(***************************************************************************)
EXTENDS LinuxCapture, SequenceTheorems, TLAPS

\* The two halves of TypeOK: what an opener and the portal keep, and the bus.
Kept ==
    /\ pc \in [Openers -> Requests \cup Ended \cup {"remote", "video", "audio",
                                                    "cleanup", "cleanupCancelled"}]
    /\ at \in [Openers -> {"call", "match", "signal", "wait"}]
    /\ \A o \in Openers : at[o] # "call" => pc[o] \in Requests
    /\ handle \in [Openers -> Openers \cup {None}] /\ include \in [Openers -> BOOLEAN]
    /\ video \in [Openers -> {"none", "open", "closed"}]
    /\ audio \in [Openers -> {"none", "open", "closed"}]
    /\ upc \in [Openers -> {"idle", "video", "audio", "session", "done"}]
    /\ session \in [Openers -> {"none", "created", "selected", "started", "closed"}]
    /\ asked \in [Openers -> Requests \cup {None}]

Signals == Seq([from : Openers, granted : BOOLEAN])

Bus ==
    /\ matched = {o \in Openers : at[o] \in {"signal", "wait"}}
    /\ listening = {o \in Openers : at[o] = "wait"}
    /\ inbox \in [Openers -> Signals]
    /\ \A o \in Openers : inbox[o] # <<>> => o \in listening

USE DEF openVars, streamVars, portalVars, busVars

LEMMA Halves == TypeOK <=> Kept /\ Bus
  BY DEF TypeOK, Kept, Bus, Signals

LEMMA HalvesNext == TypeOK' <=> Kept' /\ Bus'
  BY DEF TypeOK, Kept, Bus, Signals

\* The type invariant holds initially.
LEMMA TypeInit == Init => TypeOK
  <1> SUFFICES ASSUME Init PROVE TypeOK
    OBVIOUS
  <1>1. Kept
    BY DEF Init, Kept, Requests, Ended
  <1>2. <<>> \in Signals
    BY DEF Signals
  <1>3. Bus
    BY <1>2 DEF Init, Bus
  <1> QED
    BY <1>1, <1>3, Halves

\* What Unlisten leaves of the bus.
LEMMA UnlistenBus ==
    ASSUME Kept, Bus, NEW o \in Openers, Unlisten(o)
    PROVE  Bus'
  <1>1. <<>> \in Signals
    BY DEF Signals
  <1>2. matched' = {p \in Openers : at'[p] \in {"signal", "wait"}}
    BY DEF Unlisten, Bus, Kept
  <1>3. listening' = {p \in Openers : at'[p] = "wait"}
    BY DEF Unlisten, Bus, Kept
  <1>4. inbox' \in [Openers -> Signals]
    BY <1>1 DEF Unlisten, Bus
  <1>5. \A p \in Openers : inbox'[p] # <<>> => p \in listening'
    BY DEF Unlisten, Bus
  <1> QED
    BY <1>2, <1>3, <1>4, <1>5 DEF Bus

\* An answer appends one signal to some of the channels that listen.
LEMMA AnswerBus ==
    ASSUME Kept, Bus, NEW o \in Openers, NEW granted \in BOOLEAN, Answer(o, granted)
    PROVE  Bus'
  <1>1. ASSUME NEW s \in Signals
        PROVE  Append(s, [from |-> o, granted |-> granted]) \in Signals
    BY <1>1 DEF Signals
  <1>2. inbox' \in [Openers -> Signals]
    BY <1>1 DEF Answer, Bus
  <1>3. \A p \in Openers : inbox'[p] # <<>> => p \in listening'
    BY DEF Answer, Bus
  <1> QED
    BY <1>2, <1>3 DEF Answer, Bus

\* No step of any opener, of the portal or of the user breaks Bus.
LEMMA BusNext ==
    ASSUME Kept, Bus, [Next]_vars
    PROVE  Bus'
  <1>1. ASSUME NEW o \in Openers, NEW granted \in BOOLEAN, Answer(o, granted)
        PROVE  Bus'
    BY <1>1, AnswerBus
  <1>2. ASSUME NEW o \in Openers, Call(o)
        PROVE  Bus'
    <2>1. CASE at' = at
      BY <1>2, <2>1 DEF Call, Bus
    <2>2. CASE at' = [at EXCEPT ![o] = "match"]
      BY <1>2, <2>2 DEF Call, Bus, Kept
    <2> QED
      BY <1>2, <2>1, <2>2 DEF Call
  <1>3. ASSUME NEW o \in Openers, Match(o)
        PROVE  Bus'
    BY <1>3 DEF Match, Bus, Kept
  <1>4. ASSUME NEW o \in Openers, Listen(o)
        PROVE  Bus'
    BY <1>4 DEF Listen, Bus, Kept
  <1>5. ASSUME NEW o \in Openers, Respond(o)
        PROVE  Bus'
    BY <1>5, UnlistenBus DEF Respond
  <1>6. CASE UNCHANGED <<at, matched, listening, inbox>>
    BY <1>6 DEF Bus
  <1>7. ASSUME NEW o \in Openers,
               Withdraw(o) \/ OpenRemote(o) \/ NewVideo(o) \/ NewAudio(o) \/ Cleanup(o)
                 \/ Close(o)
        PROVE  UNCHANGED <<at, matched, listening, inbox>>
    BY <1>7 DEF Withdraw, OpenRemote, NewVideo, NewAudio, Cleanup, Close
  <1>8. UNCHANGED vars => UNCHANGED <<at, matched, listening, inbox>>
    BY DEF vars
  <1> QED
    BY <1>1, <1>2, <1>3, <1>4, <1>5, <1>6, <1>7, <1>8 DEF Next, Open, Terminated

\* A signal in a channel names the opener whose request it answers.
LEMMA Heads ==
    ASSUME Bus, NEW o \in Openers, inbox[o] # <<>>
    PROVE  Head(inbox[o]) \in [from : Openers, granted : BOOLEAN]
  <1>1. inbox[o] \in Seq([from : Openers, granted : BOOLEAN])
    BY DEF Bus, Signals
  <1> QED
    BY <1>1, HeadTailProperties

\* No step breaks Kept.
LEMMA KeptNext ==
    ASSUME Kept, Bus, [Next]_vars
    PROVE  Kept'
  <1> USE DEF Kept, Requests, Ended
  <1>1. ASSUME NEW o \in Openers, NEW granted \in BOOLEAN, Answer(o, granted)
        PROVE  Kept'
    <2>1. asked[o] \in Requests
      BY <1>1 DEF Answer
    <2>2. Granted(asked[o]) \in {"created", "selected", "started"}
      BY <2>1 DEF Granted
    <2> QED
      BY <1>1, <2>2 DEF Answer
  <1>2. ASSUME NEW o \in Openers, Withdraw(o)
        PROVE  Kept'
    BY <1>2 DEF Withdraw
  <1>3. ASSUME NEW o \in Openers, Call(o)
        PROVE  Kept'
    BY <1>3 DEF Call, Leave
  <1>4. ASSUME NEW o \in Openers, Match(o)
        PROVE  Kept'
    BY <1>4 DEF Match, Leave
  <1>5. ASSUME NEW o \in Openers, Listen(o)
        PROVE  Kept'
    BY <1>5 DEF Listen
  <1>6. ASSUME NEW o \in Openers, Respond(o)
        PROVE  Kept'
    BY <1>6, Heads DEF Respond, Proceed, Leave, Unlisten, Then
  <1>7. ASSUME NEW o \in Openers, OpenRemote(o)
        PROVE  Kept'
    BY <1>7 DEF OpenRemote, Leave
  <1>8. ASSUME NEW o \in Openers, NewVideo(o)
        PROVE  Kept'
    BY <1>8 DEF NewVideo, Leave
  <1>9. ASSUME NEW o \in Openers, NewAudio(o)
        PROVE  Kept'
    BY <1>9 DEF NewAudio
  <1>10. ASSUME NEW o \in Openers, Cleanup(o)
         PROVE  Kept'
    BY <1>10 DEF Cleanup, CloseSession
  <1>11. ASSUME NEW o \in Openers, Close(o)
         PROVE  Kept'
    BY <1>11 DEF Close, CloseSession
  <1>12. CASE UNCHANGED vars
    BY <1>12 DEF vars
  <1> QED
    BY <1>1, <1>2, <1>3, <1>4, <1>5, <1>6, <1>7, <1>8, <1>9, <1>10, <1>11, <1>12
    DEF Next, Open, Terminated

\* Every variable keeps to its values, and an opener listens exactly while it
\* waits for a response.
THEOREM TypeCorrect == Spec => []TypeOK
  <1>1. TypeOK /\ [Next]_vars => TypeOK'
    BY Halves, HalvesNext, BusNext, KeptNext
  <1> QED
    BY TypeInit, <1>1, PTL DEF Spec

-----------------------------------------------------------------------------
\* Only Respond takes a handle, and it takes it from a response to its own request.
LEMMA OwnNext ==
    ASSUME Kept, Bus, OwnSession, [Next]_vars
    PROVE  OwnSession'
  <1>1. ASSUME NEW o \in Openers, Respond(o)
        PROVE  OwnSession'
    <2>1. handle' = handle \/ handle' = [handle EXCEPT ![o] = o]
      BY <1>1, Heads DEF Respond, Proceed
    <2> QED
      BY <2>1 DEF OwnSession, Kept
  <1>2. CASE handle' = handle
    BY <1>2 DEF OwnSession
  <1> QED
    BY <1>1, <1>2
    DEF Next, Open, Terminated, vars, Answer, Withdraw, Call, Match, Listen,
        OpenRemote, NewVideo, NewAudio, Cleanup, Close

\* However the responses of concurrent opens mix, an opener only holds the
\* portal session it asked for.
THEOREM SessionsAreOwn == Spec => []OwnSession
  <1>1. Init => Kept /\ Bus /\ OwnSession
    BY TypeInit, Halves DEF Init, OwnSession
  <1>2. Kept /\ Bus /\ OwnSession /\ [Next]_vars => (Kept /\ Bus /\ OwnSession)'
    BY BusNext, KeptNext, OwnNext
  <1> QED
    BY <1>1, <1>2, PTL DEF Spec

-----------------------------------------------------------------------------
\* The portal works only on requests their session is ready for.
Turn == \A o \in Openers : asked[o] # None => session[o] = Before(asked[o])

\* How far open and Close are when a stream is, or may be, open.
Streams ==
    \A o \in Openers :
        /\ pc[o] \notin {"audio", "ok"} => video[o] = "none"
        /\ pc[o] # "ok" => audio[o] = "none" /\ upc[o] = "idle"
        /\ upc[o] \in {"audio", "session", "done"} => video[o] # "open"
        /\ upc[o] \in {"session", "done"} => audio[o] # "open"

Owned == Kept /\ Bus /\ OwnSession

\* No step has the portal work on a request out of turn.
LEMMA TurnNext ==
    ASSUME Owned, Turn, [Next]_vars
    PROVE  Turn'
  <1> USE DEF Owned, Turn, Kept
  <1>1. ASSUME NEW o \in Openers, NEW granted \in BOOLEAN, Answer(o, granted)
        PROVE  Turn'
    BY <1>1 DEF Answer
  <1>2. ASSUME NEW o \in Openers, Withdraw(o)
        PROVE  Turn'
    <2>1. asked[o] = None
      BY <1>2 DEF Withdraw, Before, Requests
    <2> QED
      BY <1>2, <2>1 DEF Withdraw
  <1>3. ASSUME NEW o \in Openers, Call(o)
        PROVE  Turn'
    BY <1>3 DEF Call, OwnSession
  <1>4. ASSUME NEW o \in Openers, CloseSession(o)
        PROVE  Turn'
    BY <1>4 DEF CloseSession
  <1>5. CASE UNCHANGED portalVars
    BY <1>5
  <1> QED
    BY <1>1, <1>2, <1>3, <1>4, <1>5
    DEF Next, Open, Terminated, vars, Match, Listen, Respond, OpenRemote,
        NewVideo, NewAudio, Cleanup, Close

\* No step breaks Streams.
LEMMA StreamsNext ==
    ASSUME Kept, Streams, [Next]_vars
    PROVE  Streams'
  <1> USE DEF Kept, Streams, Requests
  <1>1. CASE UNCHANGED <<pc, video, audio, upc>>
    BY <1>1
  <1>2. ASSUME NEW o \in Openers, Call(o) \/ Match(o)
        PROVE  Streams'
    BY <1>2 DEF Call, Match, Leave
  <1>3. ASSUME NEW o \in Openers, Respond(o)
        PROVE  Streams'
    BY <1>3 DEF Respond, Proceed, Leave, Then
  <1>4. ASSUME NEW o \in Openers, OpenRemote(o)
        PROVE  Streams'
    BY <1>4 DEF OpenRemote, Leave
  <1>5. ASSUME NEW o \in Openers, NewVideo(o)
        PROVE  Streams'
    BY <1>5 DEF NewVideo, Leave
  <1>6. ASSUME NEW o \in Openers, NewAudio(o)
        PROVE  Streams'
    BY <1>6 DEF NewAudio
  <1>7. ASSUME NEW o \in Openers, Cleanup(o)
        PROVE  Streams'
    BY <1>7 DEF Cleanup
  <1>8. ASSUME NEW o \in Openers, Close(o)
        PROVE  Streams'
    BY <1>8 DEF Close
  <1> QED
    BY <1>1, <1>2, <1>3, <1>4, <1>5, <1>6, <1>7, <1>8
    DEF Next, Open, Terminated, vars, Answer, Withdraw, Listen

\* No step leaves a session or a stream behind.
LEMMA NothingLeftNext ==
    ASSUME Owned, Turn, Streams, NothingLeftBehind, [Next]_vars
    PROVE  NothingLeftBehind'
  <1> USE DEF Owned, Kept, OwnSession, Streams, NothingLeftBehind
  <1>1. ASSUME NEW o \in Openers, NEW granted \in BOOLEAN, Answer(o, granted)
        PROVE  NothingLeftBehind'
    <2>1. session[o] # "closed"
      BY <1>1 DEF Answer, Turn, Before, Requests
    <2> QED
      BY <1>1, <2>1 DEF Answer
  <1>2. ASSUME NEW o \in Openers, Withdraw(o)
        PROVE  NothingLeftBehind'
    BY <1>2 DEF Withdraw
  <1>3. ASSUME NEW o \in Openers, Call(o) \/ Match(o) \/ Listen(o)
        PROVE  NothingLeftBehind'
    BY <1>3 DEF Call, Match, Listen, Leave
  <1>4. ASSUME NEW o \in Openers, Respond(o)
        PROVE  NothingLeftBehind'
    BY <1>4, Heads DEF Respond, Proceed, Leave, Then, Requests
  <1>5. ASSUME NEW o \in Openers, OpenRemote(o) \/ NewVideo(o)
        PROVE  NothingLeftBehind'
    BY <1>5 DEF OpenRemote, NewVideo, Leave
  <1>6. ASSUME NEW o \in Openers, NewAudio(o)
        PROVE  NothingLeftBehind'
    BY <1>6 DEF NewAudio
  <1>7. ASSUME NEW o \in Openers, Cleanup(o)
        PROVE  NothingLeftBehind'
    BY <1>7 DEF Cleanup, CloseSession
  <1>8. ASSUME NEW o \in Openers, Close(o)
        PROVE  NothingLeftBehind'
    BY <1>8 DEF Close, CloseSession
  <1>9. CASE UNCHANGED vars
    BY <1>9 DEF vars
  <1> QED
    BY <1>1, <1>2, <1>3, <1>4, <1>5, <1>6, <1>7, <1>8, <1>9 DEF Next, Open, Terminated

\* An open that fails with a session in hand, and a Close, end the portal
\* session and close the streams, whatever other opens do meanwhile.
THEOREM LeavesNothing == Spec => []NothingLeftBehind
  <1> DEFINE IInv == Owned /\ Turn /\ Streams /\ NothingLeftBehind
  <1>1. Init => IInv
    BY TypeInit, Halves DEF Init, Owned, OwnSession, Turn, Streams, NothingLeftBehind
  <1>2. IInv /\ [Next]_vars => IInv'
    BY BusNext, KeptNext, OwnNext, TurnNext, StreamsNext, NothingLeftNext DEF Owned
  <1> QED
    BY <1>1, <1>2, PTL DEF Spec

=============================================================================
