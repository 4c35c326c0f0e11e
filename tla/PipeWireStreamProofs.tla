------------------------ MODULE PipeWireStreamProofs ------------------------
(***************************************************************************)
(* What holds of PipeWireStream for every number of callers and server     *)
(* buffers and every capacity of frameCh.                                  *)
(*                                                                         *)
(* That nothing is used after it was destroyed, and nothing left behind,   *)
(* takes two facts no property states: what the opener owns at each of its *)
(* steps (Opened), and what Close has achieved by the time it is past each *)
(* of its own (Unwound).  The order of the frames takes the order of       *)
(* everything between the server and the consumer (InCaptureOrder).        *)
(***************************************************************************)
EXTENDS PipeWireStream, SequenceTheorems, TLAPS

USE SizesAssumption, BoundsAssumption

USE DEF openVars, formatVars, serverVars, loopVars, writerVars, closeVars

-----------------------------------------------------------------------------
(* Sequences in ascending order                                            *)

Elements(s)   == {s[i] : i \in 1..Len(s)}
Increasing(s) == \A i, j \in 1..Len(s) : i < j => s[i] < s[j]

\* What is appended goes last.
LEMMA Appended ==
    ASSUME NEW s \in Seq(Nat), NEW x \in Nat,
           Increasing(s), \A y \in Elements(s) : y < x
    PROVE  /\ Increasing(Append(s, x)) /\ Len(Append(s, x)) = Len(s) + 1
           /\ Elements(Append(s, x)) = Elements(s) \cup {x}
<1>1. /\ Len(s) \in Nat /\ Len(Append(s, x)) = Len(s) + 1
      /\ \A i \in 1..(Len(s) + 1) :
            Append(s, x)[i] = IF i = Len(s) + 1 THEN x ELSE s[i]
  OBVIOUS
<1>. DEFINE t == Append(s, x)
<1>. HIDE DEF t
<1>2. Elements(t) = Elements(s) \cup {x}
  <2>1. ASSUME NEW i \in 1..Len(t)
        PROVE  t[i] \in Elements(s) \cup {x}
    BY <1>1 DEF Elements, t
  <2>2. ASSUME NEW i \in 1..Len(s)
        PROVE  s[i] \in Elements(t)
    <3>1. i \in 1..Len(t) /\ t[i] = s[i]
      BY <1>1 DEF t
    <3>. QED
      BY <3>1 DEF Elements
  <2>3. x \in Elements(t)
    <3>1. Len(s) + 1 \in 1..Len(t) /\ t[Len(s) + 1] = x
      BY <1>1 DEF t
    <3>. QED
      BY <3>1 DEF Elements
  <2>. QED
    BY <2>1, <2>2, <2>3 DEF Elements
<1>3. Increasing(t)
  <2>. SUFFICES ASSUME NEW i \in 1..Len(t), NEW j \in 1..Len(t), i < j
                PROVE  t[i] < t[j]
    BY DEF Increasing
  <2>1. i \in 1..Len(s) /\ t[i] = s[i]
    BY <1>1 DEF t
  <2>2. s[i] < x
    <3>1. s[i] \in Elements(s)
      BY <2>1 DEF Elements
    <3>. QED
      BY <3>1
  <2>3. CASE j = Len(s) + 1
    <3>1. t[j] = x
      BY <1>1, <2>3 DEF t
    <3>. QED
      BY <2>1, <2>2, <3>1
  <2>4. CASE j # Len(s) + 1
    <3>1. j \in 1..Len(s) /\ t[j] = s[j]
      BY <1>1, <2>4 DEF t
    <3>. QED
      BY <2>1, <3>1 DEF Increasing
  <2>. QED
    BY <2>3, <2>4
<1>. QED
  BY <1>1, <1>2, <1>3 DEF t

\* What is taken from the front is before the rest.
LEMMA TakenFromFront ==
    ASSUME NEW s \in Seq(Nat), s # <<>>, Increasing(s)
    PROVE  /\ Head(s) \in Elements(s) /\ Increasing(Tail(s))
           /\ Len(Tail(s)) = Len(s) - 1 /\ Elements(Tail(s)) \subseteq Elements(s)
           /\ \A y \in Elements(Tail(s)) : Head(s) < y
<1>1. /\ Len(s) \in Nat \ {0} /\ Len(Tail(s)) = Len(s) - 1 /\ Head(s) = s[1]
      /\ \A i \in 1..(Len(s) - 1) : Tail(s)[i] = s[i + 1]
  OBVIOUS
<1>2. Head(s) \in Elements(s)
  BY <1>1 DEF Elements
<1>3. Increasing(Tail(s))
  BY <1>1 DEF Increasing
<1>4. ASSUME NEW i \in 1..Len(Tail(s))
      PROVE  Tail(s)[i] \in Elements(s) /\ Head(s) < Tail(s)[i]
  <2>1. i + 1 \in 1..Len(s) /\ 1 \in 1..Len(s) /\ Tail(s)[i] = s[i + 1] /\ 1 < i + 1
    BY <1>1
  <2>2. s[1] < s[i + 1]
    BY <2>1 DEF Increasing
  <2>. QED
    BY <1>1, <2>1, <2>2 DEF Elements
<1>5. Elements(Tail(s)) \subseteq Elements(s) /\ \A y \in Elements(Tail(s)) : Head(s) < y
  BY <1>4 DEF Elements
<1>. QED
  BY <1>1, <1>2, <1>3, <1>5

\* A sequence goes on with what is after all of it.
LEMMA Concatenated ==
    ASSUME NEW s \in Seq(Nat), NEW t \in Seq(Nat), Increasing(s), Increasing(t),
           \A x \in Elements(s), y \in Elements(t) : x < y
    PROVE  /\ s \o t \in Seq(Nat) /\ Increasing(s \o t)
           /\ Elements(s \o t) \subseteq Elements(s) \cup Elements(t)
<1>1. /\ Len(s) \in Nat /\ Len(t) \in Nat
      /\ s \o t \in Seq(Nat) /\ Len(s \o t) = Len(s) + Len(t)
      /\ \A i \in 1..(Len(s) + Len(t)) :
            (s \o t)[i] = IF i <= Len(s) THEN s[i] ELSE t[i - Len(s)]
  BY ConcatProperties
<1>. DEFINE u == s \o t
<1>. HIDE DEF u
<1>2. ASSUME NEW i \in 1..Len(u), i <= Len(s)
      PROVE  i \in 1..Len(s) /\ u[i] = s[i] /\ u[i] \in Elements(s)
  <2>1. i \in 1..Len(s) /\ u[i] = s[i]
    BY <1>1, <1>2 DEF u
  <2>. QED
    BY <2>1 DEF Elements
<1>3. ASSUME NEW i \in 1..Len(u), i > Len(s)
      PROVE  /\ i - Len(s) \in 1..Len(t) /\ u[i] = t[i - Len(s)]
             /\ u[i] \in Elements(t)
  <2>1. i - Len(s) \in 1..Len(t) /\ u[i] = t[i - Len(s)]
    BY <1>1, <1>3 DEF u
  <2>. QED
    BY <2>1 DEF Elements
<1>4. Increasing(u)
  <2>. SUFFICES ASSUME NEW i \in 1..Len(u), NEW j \in 1..Len(u), i < j
                PROVE  u[i] < u[j]
    BY DEF Increasing
  <2>1. i \in Nat /\ j \in Nat /\ Len(s) \in Nat
    BY <1>1 DEF u
  <2>2. CASE i <= Len(s) /\ j > Len(s)
    <3>1. u[i] \in Elements(s) /\ u[j] \in Elements(t)
      BY <1>2, <1>3, <2>2
    <3>. QED
      BY <3>1
  <2>3. CASE j <= Len(s)
    <3>1. i <= Len(s)
      BY <2>1, <2>3
    <3>2. /\ i \in 1..Len(s) /\ u[i] = s[i]
          /\ j \in 1..Len(s) /\ u[j] = s[j]
      BY <1>2, <2>3, <3>1
    <3>. QED
      BY <3>2 DEF Increasing
  <2>4. CASE i > Len(s)
    <3>1. j > Len(s)
      BY <2>1, <2>4
    <3>2. /\ i - Len(s) \in 1..Len(t) /\ u[i] = t[i - Len(s)]
          /\ j - Len(s) \in 1..Len(t) /\ u[j] = t[j - Len(s)]
      BY <1>3, <2>4, <3>1
    <3>3. i - Len(s) < j - Len(s)
      BY <2>1
    <3>. QED
      BY <3>2, <3>3 DEF Increasing
  <2>. QED
    BY <2>1, <2>2, <2>3, <2>4
<1>5. ASSUME NEW i \in 1..Len(u)
      PROVE  u[i] \in Elements(s) \cup Elements(t)
  <2>1. i <= Len(s) \/ i > Len(s)
    BY <1>1 DEF u
  <2>. QED
    BY <1>2, <1>3, <2>1
<1>6. Elements(u) \subseteq Elements(s) \cup Elements(t)
  BY <1>5 DEF Elements
<1>. QED
  BY <1>1, <1>4, <1>6 DEF u

-----------------------------------------------------------------------------
(* The inductive invariant                                                 *)

\* Steps of the opener before there is anything to close, and with it.
Acquiring == DOMAIN After \cup {"dup", "leaked"}
Streaming == {"wait", "num", "den", "ok"}

\* Handles that have been made by the time the opener takes each step.
MadeBy(step) == CASE step = "context" -> {"loop"}
                  [] step = "core"    -> {"loop", "context"}
                  [] step = "create"  -> {"loop", "context", "core"}
                  [] step = "connect" -> Handles
                  [] OTHER            -> {}

\* What the opener owns.  The loop's thread and Close come after it: the loop
\* once everything was made, and Close once open has returned or has failed.
Opened ==
    /\ MadeBy(opc) \subseteq have
    /\ opc \in {"register", "start"} \cup Streaming /\ upc # "done" => Handles \subseteq have
    /\ opc \notin {"loop", "context", "core", "closing"} => "fd" \notin have
    /\ opc \in {"dup", "leaked"} => have = {}
    /\ registered => opc \in {"start"} \cup Streaming
    /\ opc \notin Streaming => lpc = "none"
    /\ upc # "idle" => opc \in {"ok", "closing", "failed"}
    /\ opc = "closing" => upc # "idle"
    /\ opc = "failed" => upc = "done"
    /\ \A c \in Callers : call[c] # "idle" => opc = "ok"
    /\ \A c \in Closers : call[c] = "returned" => upc = "done"

\* The steps of Close up to and including each one.
UpToJoin       == {"idle", "mark", "quit", "join"}
UpToUnregister == UpToJoin \cup {"unregister"}
UpToChannels   == UpToUnregister \cup {"closeCh"}
UpToReader     == UpToChannels \cup {"closeReader"}
UpToWriter     == UpToReader \cup {"joinWriter"}

\* What Close has achieved by the time it is past each of its steps.
Unwound ==
    /\ upc \notin UpToJoin => lpc \in {"none", "done"}
    /\ upc \notin UpToUnregister => ~registered
    /\ chClosed => upc \notin UpToChannels
    /\ upc \notin UpToReader => pipe = "closed"
    /\ upc \notin UpToWriter => wpc = "done"
    /\ upc = "done" => have \subseteq {"fd"}

\* The consumer, the writer, frameCh, the callback and the server have frames in
\* the order of their capture.  A frame that was sent is no longer the callback's.
InCaptureOrder ==
    /\ taken # 0 => seen < taken
    /\ seen <= made /\ taken <= made /\ held <= made
    /\ Increasing(queue) /\ Increasing(filled)
    /\ \A x \in Elements(queue) : seen < x /\ taken < x /\ x <= made
    /\ held # 0 /\ lpc # "giveBack" =>
           seen < held /\ taken < held /\ \A x \in Elements(queue) : x < held
    /\ \A y \in Elements(filled) :
           /\ seen < y /\ taken < y /\ held < y /\ y <= made
           /\ \A x \in Elements(queue) : x < y

\* The newest frame the consumer has or will get.
Newest == IF queue # <<>> THEN queue[Len(queue)] ELSE IF taken # 0 THEN taken ELSE seen

Offering == lpc \in {"offer", "drop", "retry"}

\* The frame on offer is the callback's until it is in frameCh.
NewestKept ==
    /\ Offering => offered = held
    /\ pipe = "open" /\ ~Offering => Newest = offered

IInv == TypeOK /\ BuffersConserved /\ Opened /\ Unwound /\ InCaptureOrder /\ NewestKept

USE DEF MadeBy, Streaming, UpToJoin, UpToUnregister, UpToChannels, UpToReader,
        UpToWriter, Handles, InEnqueue

\* The steps that acquire a handle.
LEMMA Steps == DOMAIN After = {"loop", "context", "core", "create", "connect"}
  BY DEF After

\* The inductive invariant holds initially.
LEMMA InvInit == Init => IInv
<1>. SUFFICES ASSUME Init PROVE IInv
  OBVIOUS
<1>1. TypeOK
  <2>1. /\ registered \in BOOLEAN /\ ready \in BOOLEAN /\ quit \in BOOLEAN
        /\ chClosed \in BOOLEAN /\ closed \in BOOLEAN
    BY DEF Init
  <2>2. call \in [Closers -> {"idle", "in", "returned"}]
    BY DEF Init
  <2>3. rate \in (0..MaxFormats) \X (0..MaxFormats)
    BY DEF Init
  <2>. QED
    BY <2>1, <2>2, <2>3, Steps DEF Init, TypeOK
<1>2. BuffersConserved /\ InCaptureOrder /\ NewestKept
  BY DEF Init, BuffersConserved, InCaptureOrder, NewestKept, Newest, Offering,
         Increasing, Elements
<1>3. Opened /\ Unwound
  BY DEF Init, Opened, Unwound, Closers
<1>. QED
  BY <1>1, <1>2, <1>3 DEF IInv

\* What a step that touches neither frames nor buffers keeps of them.
LEMMA FramesUntouched ==
    ASSUME IInv, UNCHANGED <<serverVars, queue, taken, seen, offered, pipe>>,
           lpc' # lpc => lpc \notin InEnqueue \cup {"giveBack"}
                         /\ lpc' \notin InEnqueue \cup {"giveBack"}
    PROVE  BuffersConserved' /\ InCaptureOrder' /\ NewestKept'
<1>1. BuffersConserved'
  BY DEF IInv, BuffersConserved
<1>2. InCaptureOrder'
  BY DEF IInv, InCaptureOrder
<1>3. NewestKept'
  BY DEF IInv, NewestKept, Newest, Offering
<1>. QED
  BY <1>1, <1>2, <1>3

\* What a step of the opener has to keep in range.
LEMMA OpenTypes ==
    ASSUME TypeOK,
           UNCHANGED <<kind, formatVars, serverVars, quit, offered, writerVars, pipe,
                       closed>>,
           opc' \in DOMAIN After \cup {"dup", "leaked", "closing", "failed", "register",
                                      "start", "wait", "num", "den", "ok"},
           have' \subseteq Handles \cup {"fd"}, registered' \in BOOLEAN,
           woken' \in {"none", "ready", "timeout"},
           rate' \in (0..MaxFormats) \X (0..MaxFormats),
           \/ lpc' = lpc
           \/ lpc = "none" /\ lpc' = "spawned",
           upc' \in {"idle", "mark", "done"} \/ upc' = upc,
           call' \in [Closers -> {"idle", "in", "returned"}]
    PROVE  TypeOK'
  BY DEF TypeOK

\* The opener makes one handle after another, and none after a failure.
LEMMA InvOpen ==
    ASSUME IInv, Open
    PROVE  IInv'
<1>. USE DEF IInv
<1>0. /\ TypeOK /\ Opened /\ Unwound
      /\ BuffersConserved' /\ InCaptureOrder' /\ NewestKept'
  <2>1. /\ UNCHANGED <<serverVars, queue, taken, seen, offered, pipe>>
        /\ lpc' # lpc => opc = "start" /\ lpc' = "spawned"
    BY DEF Open, Dup, Acquire, AcquireFail, FailReturn, Register, Start, WaitReady,
           WaitTimeout, Wake, LoadNum, LoadDen
  <2>2. opc = "start" => lpc = "none"
    BY DEF Opened
  <2>. QED
    BY <2>1, <2>2, FramesUntouched
<1>. USE <1>0
<1>. HIDE DEF IInv
<1>1. /\ have \subseteq Handles \cup {"fd"} /\ registered \in BOOLEAN
      /\ woken \in {"none", "ready", "timeout"}
      /\ rate \in (0..MaxFormats) \X (0..MaxFormats)
      /\ num \in 0..MaxFormats /\ den \in 0..MaxFormats
      /\ call \in [Closers -> {"idle", "in", "returned"}]
  BY DEF TypeOK
<1>2. CASE Dup
  <2>1. TypeOK'
    BY <1>1, <1>2, OpenTypes, Steps DEF Dup
  <2>2. Opened' /\ Unwound'
    BY <1>2 DEF Dup, Opened, Unwound
  <2>. QED
    BY <2>1, <2>2 DEF IInv
<1>3. CASE Acquire
  <2>1. /\ opc \in {"loop", "context", "core", "create", "connect"}
        /\ opc = "loop" => have' = have \cup {"loop"} /\ opc' = "context"
        /\ opc = "context" => have' = have \cup {"context"} /\ opc' = "core"
        /\ opc = "core" => have' = (have \cup {"core"}) \ {"fd"} /\ opc' = "create"
        /\ opc = "create" => have' = have \cup {"data", "stream"} /\ opc' = "connect"
        /\ opc = "connect" => have' = have /\ opc' = "register"
    BY <1>3, Steps DEF Acquire, Gain, After
  <2>2. UNCHANGED <<kind, registered, woken, rate, formatVars, serverVars, loopVars,
                    writerVars, pipe, closeVars>>
    BY <1>3 DEF Acquire
  <2>3. TypeOK'
    <3>1. have' \subseteq Handles \cup {"fd"}
      BY <1>1, <2>1
    <3>2. opc' \in DOMAIN After \cup {"register"}
      BY <2>1, Steps
    <3>. QED
      BY <1>1, <2>2, <3>1, <3>2, OpenTypes
  <2>4. Opened' /\ Unwound'
    BY <2>1, <2>2 DEF Opened, Unwound
  <2>. QED
    BY <2>3, <2>4 DEF IInv
<1>4. CASE AcquireFail
  <2>1. /\ call' \in [Closers -> {"idle", "in", "returned"}]
        /\ \A c \in Closers : call'[c] = IF c = Opener THEN "in" ELSE call[c]
    BY <1>1, <1>4 DEF AcquireFail
  <2>2. TypeOK'
    BY <1>1, <1>4, <2>1, OpenTypes DEF AcquireFail, Spill
  <2>3. Opened'
    BY <1>4, <2>1, CallersAssumption, Steps DEF AcquireFail, Opened, Closers
  <2>4. Unwound'
    BY <1>4, Steps DEF AcquireFail, Opened, Unwound
  <2>. QED
    BY <2>2, <2>3, <2>4 DEF IInv
<1>5. CASE FailReturn
  <2>1. TypeOK'
    BY <1>1, <1>5, OpenTypes DEF FailReturn
  <2>2. Opened' /\ Unwound'
    BY <1>5 DEF FailReturn, Opened, Unwound, Closers
  <2>. QED
    BY <2>1, <2>2 DEF IInv
<1>6. CASE Register
  <2>1. registered' \in BOOLEAN
    BY <1>6 DEF Register
  <2>2. TypeOK'
    BY <1>1, <1>6, <2>1, OpenTypes DEF Register
  <2>3. Opened' /\ Unwound'
    BY <1>6 DEF Register, Opened, Unwound
  <2>. QED
    BY <2>2, <2>3 DEF IInv
<1>7. CASE Start
  <2>1. TypeOK'
    BY <1>1, <1>7, OpenTypes DEF Start, Opened
  <2>2. Opened' /\ Unwound'
    BY <1>7 DEF Start, Opened, Unwound
  <2>. QED
    BY <2>1, <2>2 DEF IInv
<1>8. CASE WaitReady \/ WaitTimeout
  <2>1. TypeOK'
    BY <1>1, <1>8, OpenTypes DEF WaitReady, WaitTimeout, Wake
  <2>2. Opened' /\ Unwound'
    BY <1>8 DEF WaitReady, WaitTimeout, Wake, Opened, Unwound
  <2>. QED
    BY <2>1, <2>2 DEF IInv
<1>9. CASE LoadNum \/ LoadDen
  <2>1. rate' \in (0..MaxFormats) \X (0..MaxFormats)
    BY <1>1, <1>9 DEF LoadNum, LoadDen
  <2>2. TypeOK'
    BY <1>1, <1>9, <2>1, OpenTypes DEF LoadNum, LoadDen
  <2>3. Opened' /\ Unwound'
    BY <1>9 DEF LoadNum, LoadDen, Opened, Unwound
  <2>. QED
    BY <2>2, <2>3 DEF IInv
<1>. QED
  BY <1>2, <1>3, <1>4, <1>5, <1>6, <1>7, <1>8, <1>9 DEF Open

LoopSteps == InEnqueue \cup {"spawned", "dispatch", "num", "den", "ready", "dequeue",
                             "frame", "giveBack", "done"}

\* While the loop's thread runs the opener owns everything and Close waits.
LEMMA LoopOwns ==
    ASSUME IInv, UNCHANGED <<openVars, have, chClosed, wpc, pipe, closeVars>>,
           lpc \notin {"none", "done"}
    PROVE  Opened' /\ Unwound'
<1>1. Opened /\ Unwound
  BY DEF IInv
<1>. QED
  BY <1>1 DEF Opened, Unwound

\* What a step of the loop has to keep in range.
LEMMA LoopTypes ==
    ASSUME TypeOK,
           UNCHANGED <<openVars, have, chClosed, wpc, taken, seen, pipe, closeVars>>,
           num' \in 0..MaxFormats, den' \in 0..MaxFormats, formats' \in 0..MaxFormats,
           ready' \in BOOLEAN,
           filled' \in Seq(1..MaxChunks), free' \in 0..PoolSize,
           held' \in 0..MaxChunks, made' \in 0..MaxChunks,
           lpc' \in LoopSteps \/ lpc' = lpc,
           held' = 0 => lpc' \notin InEnqueue \cup {"frame", "giveBack"},
           held' # 0 => lpc' \in InEnqueue \cup {"dequeue", "frame", "giveBack"},
           quit' = quit, offered' \in 0..MaxChunks,
           queue' \in Seq(1..MaxChunks), Len(queue') <= QueueSize
    PROVE  TypeOK'
<1>1. /\ kind' \in {"video", "audio"}
      /\ opc' \in DOMAIN After \cup {"dup", "leaked", "closing", "failed", "register",
                                    "start", "wait", "num", "den", "ok"}
      /\ have' \subseteq Handles \cup {"fd"} /\ registered' \in BOOLEAN
      /\ woken' \in {"none", "ready", "timeout"}
      /\ rate' \in (0..MaxFormats) \X (0..MaxFormats)
  BY DEF TypeOK
<1>2. lpc' \in InEnqueue \cup {"none", "spawned", "dispatch", "num", "den", "ready",
                               "dequeue", "frame", "giveBack", "done"}
  BY DEF TypeOK, LoopSteps
<1>3. quit' \in BOOLEAN /\ chClosed' \in BOOLEAN
  BY DEF TypeOK
<1>4. /\ wpc' \in {"recv", "write", "done"} /\ taken' \in 0..MaxChunks
      /\ (taken' # 0 <=> wpc' = "write") /\ seen' \in 0..MaxChunks
  BY DEF TypeOK
<1>5. /\ pipe' \in {"open", "closed"} /\ closed' \in BOOLEAN
      /\ upc' \in {"idle", "mark", "quit", "join", "unregister", "closeCh",
                   "closeReader", "joinWriter", "destroy", "done"}
      /\ call' \in [Closers -> {"idle", "in", "returned"}]
  BY DEF TypeOK
<1>. QED
  BY <1>1, <1>2, <1>3, <1>4, <1>5 DEF TypeOK

\* What TypeOK says of the state the loop works on.
LEMMA LoopState ==
    ASSUME TypeOK
    PROVE  /\ num \in 0..MaxFormats /\ den \in 0..MaxFormats
           /\ formats \in 0..MaxFormats /\ ready \in BOOLEAN
           /\ filled \in Seq(1..MaxChunks) /\ free \in 0..PoolSize
           /\ held \in 0..MaxChunks /\ made \in 0..MaxChunks
           /\ offered \in 0..MaxChunks
           /\ queue \in Seq(1..MaxChunks) /\ Len(queue) <= QueueSize
  BY DEF TypeOK

\* A callback has a frame in hand while it has something to do with it.
LEMMA LoopHolds ==
    ASSUME TypeOK
    PROVE  /\ held = 0 => lpc \notin InEnqueue \cup {"frame", "giveBack"}
           /\ held # 0 => lpc \in InEnqueue \cup {"dequeue", "frame", "giveBack"}
  BY DEF TypeOK

\* Frames are compared as numbers.
LEMMA Numbers ==
    ASSUME TypeOK
    PROVE  /\ seen \in Nat /\ taken \in Nat /\ held \in Nat /\ made \in Nat
           /\ queue \in Seq(Nat) /\ filled \in Seq(Nat)
           /\ free \in Nat /\ Len(queue) \in Nat /\ Len(filled) \in Nat
           /\ \A x \in Elements(queue) : x \in Nat /\ x > 0
           /\ \A y \in Elements(filled) : y \in Nat /\ y > 0
<1>1. /\ queue \in Seq(1..MaxChunks) /\ filled \in Seq(1..MaxChunks)
      /\ seen \in Nat /\ taken \in Nat /\ held \in Nat /\ made \in Nat
      /\ free \in Nat
  BY DEF TypeOK
<1>2. \A i \in 1..Len(queue) : queue[i] \in 1..MaxChunks
  BY <1>1
<1>3. \A i \in 1..Len(filled) : filled[i] \in 1..MaxChunks
  BY <1>1
<1>4. Len(queue) \in Nat /\ Len(filled) \in Nat
  BY <1>1
<1>5. /\ \A x \in Elements(queue) : x \in Nat /\ x > 0
      /\ \A y \in Elements(filled) : y \in Nat /\ y > 0
  BY <1>2, <1>3 DEF Elements
<1>6. queue \in Seq(Nat) /\ filled \in Seq(Nat)
  BY <1>1
<1>. QED
  BY <1>1, <1>4, <1>5, <1>6

\* The loop starts, ends, and reports formats and filled buffers.
LEMMA InvLoop ==
    ASSUME IInv,
           \/ LoopRun \/ LoopQuit \/ FormatChanged \/ Process
           \/ StoreNum \/ StoreDen \/ SetReady
    PROVE  IInv'
<1>1. /\ UNCHANGED <<openVars, have, chClosed, wpc, taken, seen, pipe, closeVars>>
      /\ UNCHANGED <<serverVars, queue, quit, offered>>
      /\ lpc \in {"spawned", "dispatch", "num", "den", "ready"}
      /\ lpc' \in {"done", "dispatch", "num", "den", "ready", "dequeue"}
  BY DEF LoopRun, LoopQuit, FormatChanged, Process, StoreNum, StoreDen, SetReady
<1>2. TypeOK
  BY DEF IInv
<1>3. /\ num' \in 0..MaxFormats /\ den' \in 0..MaxFormats
      /\ formats' \in 0..MaxFormats
  <2>1. /\ num' = num \/ num' = formats
        /\ den' = den \/ den' = formats
        /\ formats' = formats \/ (formats < MaxFormats /\ formats' = formats + 1)
    BY DEF LoopRun, LoopQuit, FormatChanged, Process, StoreNum, StoreDen, SetReady
  <2>2. num \in 0..MaxFormats /\ den \in 0..MaxFormats /\ formats \in 0..MaxFormats
    BY <1>2, LoopState
  <2>. QED
    BY <2>1, <2>2
<1>4. ready' \in BOOLEAN
  BY <1>2, LoopState
     DEF LoopRun, LoopQuit, FormatChanged, Process, StoreNum, StoreDen, SetReady
<1>5. TypeOK'
  BY <1>1, <1>2, <1>3, <1>4, LoopState, LoopHolds, LoopTypes DEF LoopSteps
<1>6. BuffersConserved' /\ InCaptureOrder' /\ NewestKept'
  BY <1>1, FramesUntouched
<1>7. Opened' /\ Unwound'
  BY <1>1, LoopOwns
<1>. QED
  BY <1>5, <1>6, <1>7 DEF IInv

\* The server fills a buffer with a frame newer than every other.
LEMMA InvFill ==
    ASSUME IInv, Fill
    PROVE  IInv'
<1>1. TypeOK /\ BuffersConserved /\ InCaptureOrder /\ NewestKept
  BY DEF IInv
<1>2. /\ UNCHANGED <<openVars, have, formatVars, held, loopVars, writerVars, pipe,
                     closeVars>>
      /\ made' = made + 1 /\ made < MaxChunks /\ free > 0 /\ free' = free - 1
      /\ filled' = Append(filled, made + 1) /\ lpc \notin {"none", "done"}
  BY DEF Fill, Looping
<1>3. /\ filled' \in Seq(1..MaxChunks) /\ Len(filled') = Len(filled) + 1
      /\ Len(filled) \in Nat
      /\ \A i \in 1..Len(filled') :
            filled'[i] = IF i <= Len(filled) THEN filled[i] ELSE made + 1
  <2>1. filled \in Seq(1..MaxChunks) /\ made \in 0..MaxChunks
    BY <1>1 DEF TypeOK
  <2>2. made + 1 \in 1..MaxChunks
    BY <1>2, <2>1
  <2>. QED
    BY <1>2, <2>1, <2>2, AppendProperties
<1>4. TypeOK'
  <2>1. free' \in 0..PoolSize /\ made' \in 0..MaxChunks
    <3>1. free \in 0..PoolSize /\ made \in 0..MaxChunks
      BY <1>1, LoopState
    <3>2. made' = made + 1 /\ made < MaxChunks /\ free > 0 /\ free' = free - 1
      BY <1>2
    <3>. QED
      BY <3>1, <3>2
  <2>. QED
    BY <1>1, <1>2, <1>3, <2>1, LoopState, LoopHolds, LoopTypes
<1>5. BuffersConserved'
  <2>1. free \in Nat /\ BuffersConserved
    BY <1>1, Numbers
  <2>2. free' = free - 1 /\ Len(filled') = Len(filled) + 1 /\ held' = held
    BY <1>2, <1>3
  <2>. QED
    BY <1>3, <2>1, <2>2 DEF BuffersConserved
<1>6. InCaptureOrder'
  <2>1. \A y \in Elements(filled) : y < made + 1
    BY <1>1, Numbers DEF InCaptureOrder
  <2>2. /\ Increasing(filled') /\ Elements(filled') = Elements(filled) \cup {made'}
    BY <1>1, <1>2, <2>1, Numbers, Appended DEF InCaptureOrder
  <2>3. /\ seen < made' /\ taken < made' /\ held < made' /\ made < made'
        /\ \A x \in Elements(queue) : x < made'
    BY <1>1, <1>2, Numbers DEF InCaptureOrder
  <2>4. \A y \in Elements(filled') :
           /\ seen < y /\ taken < y /\ held < y /\ y <= made'
           /\ \A x \in Elements(queue) : x < y
    <3>1. ASSUME NEW y \in Elements(filled)
          PROVE  /\ seen < y /\ taken < y /\ held < y /\ y <= made'
                 /\ \A x \in Elements(queue) : x < y
      <4>1. /\ seen < y /\ taken < y /\ held < y /\ \A x \in Elements(queue) : x < y
        BY <1>1 DEF InCaptureOrder
      <4>2. y <= made'
        BY <1>1, <1>2, <2>1, Numbers
      <4>. QED
        BY <4>1, <4>2
    <3>2. /\ seen < made' /\ taken < made' /\ held < made' /\ made' <= made'
          /\ \A x \in Elements(queue) : x < made'
      <4>1. made' \in Nat
        BY <1>1, <1>2, Numbers
      <4>. QED
        BY <2>3, <4>1
    <3>3. \A y \in Elements(filled') : y \in Elements(filled) \/ y = made'
      BY <2>2
    <3>. QED
      BY <3>1, <3>2, <3>3
  <2>5. /\ seen <= made' /\ taken <= made' /\ held <= made'
        /\ \A x \in Elements(queue) : x <= made'
    BY <1>1, <1>2, <2>3, Numbers
  <2>. QED
    BY <1>1, <1>2, <2>2, <2>4, <2>5 DEF InCaptureOrder
<1>7. NewestKept'
  BY <1>1, <1>2 DEF NewestKept, Newest, Offering
<1>8. Opened' /\ Unwound'
  BY <1>2, LoopOwns
<1>. QED
  BY <1>4, <1>5, <1>6, <1>7, <1>8 DEF IInv

\* A callback takes the oldest filled buffer, and gives back the one it held.
LEMMA InvDequeue ==
    ASSUME IInv, Dequeue
    PROVE  IInv'
<1>1. TypeOK /\ BuffersConserved /\ InCaptureOrder /\ NewestKept
  BY DEF IInv
<1>2. /\ UNCHANGED <<openVars, have, formatVars, made, quit, offered, writerVars, pipe,
                     closeVars>>
      /\ lpc = "dequeue" /\ filled # <<>> /\ lpc' \in {"dequeue", "frame"}
      /\ held' = Head(filled) /\ filled' = Tail(filled)
      /\ free' = IF held = 0 THEN free ELSE free + 1
  BY DEF Dequeue
<1>3. /\ Head(filled) \in Elements(filled) /\ Increasing(filled')
      /\ Elements(filled') \subseteq Elements(filled) /\ Len(filled') = Len(filled) - 1
      /\ \A y \in Elements(filled') : held' < y
  BY <1>1, <1>2, Numbers, TakenFromFront DEF InCaptureOrder
<1>4. BuffersConserved' /\ held' # 0 /\ held' \in Nat
  <2>1. held' # 0 /\ held' \in Nat
    BY <1>1, <1>2, <1>3, Numbers
  <2>2. BuffersConserved /\ free \in Nat /\ Len(filled) \in Nat
    BY <1>1, Numbers
  <2>3. Len(filled') = Len(filled) - 1 /\ free' = IF held = 0 THEN free ELSE free + 1
    BY <1>2, <1>3
  <2>. QED
    BY <2>1, <2>2, <2>3 DEF BuffersConserved
<1>5. TypeOK'
  <2>1. held' \in 1..MaxChunks /\ filled' \in Seq(1..MaxChunks)
    <3>1. /\ filled \in Seq(1..MaxChunks) /\ filled # <<>>
          /\ held' = Head(filled) /\ filled' = Tail(filled)
      BY <1>1, <1>2, LoopState
    <3>. QED
      BY <3>1
  <2>2. free' \in 0..PoolSize
    <3>1. /\ free \in Nat /\ free <= PoolSize
          /\ held # 0 => free + 1 <= PoolSize
      BY <1>1, Numbers DEF BuffersConserved
    <3>2. \/ held = 0 /\ free' = free
          \/ held # 0 /\ free' = free + 1
      BY <1>2
    <3>. QED
      BY <3>1, <3>2
  <2>3. /\ lpc' \in LoopSteps /\ lpc' \in InEnqueue \cup {"dequeue", "frame", "giveBack"}
        /\ held' # 0
    BY <1>2, <1>4 DEF LoopSteps
  <2>4. held' \in 0..MaxChunks
    BY <2>1
  <2>5. UNCHANGED <<formatVars, made, quit, queue, offered>>
    BY <1>2
  <2>. QED
    BY <1>1, <1>2, <2>1, <2>2, <2>3, <2>4, <2>5, LoopState, LoopTypes
<1>6. InCaptureOrder'
  BY <1>1, <1>2, <1>3, <1>4, Numbers DEF InCaptureOrder
<1>7. NewestKept'
  BY <1>1, <1>2 DEF NewestKept, Newest, Offering
<1>8. Opened' /\ Unwound'
  BY <1>2, LoopOwns
<1>. QED
  BY <1>4, <1>5, <1>6, <1>7, <1>8 DEF IInv

\* The steps of a callback that leave every frame where it is.
LEMMA InvCheck ==
    ASSUME IInv, Dequeued \/ FrameCheck \/ EnqueueCheck \/ EnqueueFull
    PROVE  IInv'
<1>1. TypeOK /\ BuffersConserved /\ InCaptureOrder /\ NewestKept
  BY DEF IInv
<1>2. /\ UNCHANGED <<openVars, have, formatVars, serverVars, quit, writerVars, pipe,
                     closeVars>>
      /\ offered' = IF lpc' = "offer" THEN held ELSE offered
      /\ lpc \in {"dequeue", "frame", "mark", "locked", "offer"}
      /\ lpc' \in {"dispatch", "frame", "mark", "locked", "offer", "drop", "giveBack"}
      /\ lpc' = "dispatch" => held = 0
      /\ lpc = "dequeue" /\ lpc' # "dispatch" => held # 0
      /\ lpc' = "drop" <=> lpc = "offer"
  BY <1>1 DEF Dequeued, FrameCheck, EnqueueCheck, EnqueueFull
<1>3. held = 0 => lpc' = "dispatch"
  BY <1>1, <1>2, LoopHolds
<1>4. TypeOK'
  <2>1. offered' \in 0..MaxChunks
    BY <1>1, <1>2, LoopState
  <2>. QED
    BY <1>1, <1>2, <1>3, <2>1, LoopState, LoopTypes DEF LoopSteps
<1>5. BuffersConserved'
  BY <1>1, <1>2 DEF BuffersConserved
<1>6. InCaptureOrder'
  BY <1>1, <1>2 DEF InCaptureOrder
<1>7. NewestKept'
  BY <1>1, <1>2 DEF NewestKept, Newest, Offering
<1>8. Opened' /\ Unwound'
  BY <1>2, LoopOwns
<1>. QED
  BY <1>4, <1>5, <1>6, <1>7, <1>8 DEF IInv

\* The frame on offer becomes the newest of frameCh.
LEMMA InvSend ==
    ASSUME IInv, EnqueueSend
    PROVE  IInv'
<1>1. TypeOK /\ BuffersConserved /\ InCaptureOrder /\ NewestKept
  BY DEF IInv
<1>2. /\ UNCHANGED <<openVars, have, formatVars, serverVars, quit, offered, chClosed,
                     wpc, taken, seen, pipe, closeVars>>
      /\ lpc \in {"offer", "retry"} /\ lpc' = "giveBack"
      /\ queue' = Append(queue, held) /\ Len(queue) < QueueSize
  BY DEF EnqueueSend
<1>3. held # 0 /\ held \in Nat
  BY <1>1, <1>2, LoopHolds, Numbers
<1>4. /\ Increasing(queue') /\ Len(queue') = Len(queue) + 1
      /\ Elements(queue') = Elements(queue) \cup {held}
  BY <1>1, <1>2, <1>3, Numbers, Appended DEF InCaptureOrder
<1>5. TypeOK'
  <2>1. held \in 1..MaxChunks
    BY <1>1, <1>3, LoopState
  <2>2. queue' \in Seq(1..MaxChunks) /\ Len(queue') <= QueueSize
    BY <1>1, <1>2, <1>4, <2>1, LoopState, Numbers
  <2>. QED
    BY <1>1, <1>2, <1>3, <2>2, LoopState, LoopTypes DEF LoopSteps
<1>6. BuffersConserved'
  BY <1>1, <1>2 DEF BuffersConserved
<1>7. InCaptureOrder'
  BY <1>1, <1>2, <1>3, <1>4, Numbers DEF InCaptureOrder
<1>8. NewestKept'
  <2>1. queue' # <<>> /\ queue'[Len(queue')] = held
    <3>1. queue \in Seq(Nat) /\ held \in Nat /\ queue' = Append(queue, held)
      BY <1>1, <1>2, <1>3, Numbers
    <3>. QED
      BY <3>1
  <2>. QED
    BY <1>1, <1>2, <2>1 DEF NewestKept, Newest, Offering
<1>9. Opened' /\ Unwound'
  BY <1>2, LoopOwns
<1>. QED
  BY <1>5, <1>6, <1>7, <1>8, <1>9 DEF IInv

\* The oldest frame of frameCh is dropped, unless the writer was faster.
LEMMA InvDrop ==
    ASSUME IInv, EnqueueDrop
    PROVE  IInv'
<1>1. TypeOK /\ BuffersConserved /\ InCaptureOrder /\ NewestKept
  BY DEF IInv
<1>2. /\ UNCHANGED <<openVars, have, formatVars, serverVars, quit, offered, chClosed,
                     wpc, taken, seen, pipe, closeVars>>
      /\ lpc = "drop" /\ lpc' = "retry"
      /\ queue = <<>> => queue' = queue
      /\ queue # <<>> => queue' = Tail(queue)
  BY DEF EnqueueDrop
<1>3. /\ Increasing(queue') /\ Elements(queue') \subseteq Elements(queue)
      /\ queue' \in Seq(1..MaxChunks) /\ Len(queue') <= QueueSize
  <2>1. CASE queue = <<>>
    BY <1>1, <1>2, <2>1, LoopState DEF InCaptureOrder
  <2>2. CASE queue # <<>>
    <3>1. /\ queue' = Tail(queue) /\ queue \in Seq(1..MaxChunks)
          /\ Len(queue) \in Nat /\ Len(queue) <= QueueSize
      BY <1>1, <1>2, <2>2, LoopState, Numbers
    <3>2. /\ Increasing(queue') /\ Elements(queue') \subseteq Elements(queue)
          /\ Len(queue') = Len(queue) - 1
      BY <1>1, <2>2, <3>1, Numbers, TakenFromFront DEF InCaptureOrder
    <3>3. queue' \in Seq(1..MaxChunks)
      BY <2>2, <3>1
    <3>. QED
      BY <3>1, <3>2, <3>3
  <2>. QED
    BY <2>1, <2>2
<1>4. held # 0
  BY <1>1, <1>2, LoopHolds
<1>5. TypeOK'
  BY <1>1, <1>2, <1>3, <1>4, LoopState, LoopTypes DEF LoopSteps
<1>6. BuffersConserved' /\ NewestKept'
  BY <1>1, <1>2 DEF BuffersConserved, NewestKept, Offering
<1>7. InCaptureOrder'
  BY <1>1, <1>2, <1>3 DEF InCaptureOrder
<1>8. Opened' /\ Unwound'
  BY <1>2, LoopOwns
<1>. QED
  BY <1>5, <1>6, <1>7, <1>8 DEF IInv

\* The callback gives its buffer back.
LEMMA InvGiveBack ==
    ASSUME IInv, GiveBack
    PROVE  IInv'
<1>1. TypeOK /\ BuffersConserved /\ InCaptureOrder /\ NewestKept
  BY DEF IInv
<1>2. /\ UNCHANGED <<openVars, have, formatVars, filled, made, quit, offered,
                     writerVars, pipe, closeVars>>
      /\ lpc = "giveBack" /\ lpc' \in {"dispatch", "dequeue"}
      /\ held' = 0 /\ free' = free + 1
  BY DEF GiveBack
<1>3. held # 0
  BY <1>1, <1>2, LoopHolds
<1>4. BuffersConserved'
  BY <1>1, <1>2, <1>3, Numbers DEF BuffersConserved
<1>5. TypeOK'
  <2>1. free \in Nat /\ free + 1 <= PoolSize
    BY <1>1, <1>3, Numbers DEF BuffersConserved
  <2>2. free' \in 0..PoolSize
    BY <1>2, <2>1
  <2>3. lpc' \in LoopSteps /\ lpc' \notin InEnqueue \cup {"frame", "giveBack"}
    BY <1>2 DEF LoopSteps, InEnqueue
  <2>4. UNCHANGED <<openVars, have, formatVars, filled, made, quit, offered,
                    writerVars, pipe, closeVars>> /\ held' = 0
    BY <1>2
  <2>. QED
    BY <1>1, <2>2, <2>3, <2>4, LoopState, LoopTypes
<1>6. InCaptureOrder'
  BY <1>1, <1>2, Numbers DEF InCaptureOrder
<1>7. NewestKept'
  BY <1>1, <1>2 DEF NewestKept, Newest, Offering
<1>8. Opened' /\ Unwound'
  BY <1>2, LoopOwns
<1>. QED
  BY <1>4, <1>5, <1>6, <1>7, <1>8 DEF IInv

\* What a step of the writer or the consumer has to keep in range.
LEMMA WriterTypes ==
    ASSUME TypeOK,
           UNCHANGED <<openVars, have, formatVars, serverVars, loopVars, chClosed, pipe,
                       closeVars>>,
           wpc' \in {"recv", "write", "done"}, taken' \in 0..MaxChunks,
           taken' # 0 <=> wpc' = "write", seen' \in 0..MaxChunks,
           queue' \in Seq(1..MaxChunks), Len(queue') <= QueueSize
    PROVE  TypeOK'
  BY DEF TypeOK

\* Neither of them opens or closes anything.
LEMMA WriterOwns ==
    ASSUME IInv, UNCHANGED <<openVars, have, loopVars, chClosed, pipe, closeVars>>,
           wpc # "done"
    PROVE  Opened' /\ Unwound'
<1>1. Opened /\ Unwound
  BY DEF IInv
<1>. QED
  BY <1>1 DEF Opened, Unwound

\* The writer takes the oldest frame of frameCh.
LEMMA InvTake ==
    ASSUME IInv, WriterTake
    PROVE  IInv'
<1>1. TypeOK /\ BuffersConserved /\ InCaptureOrder /\ NewestKept
  BY DEF IInv
<1>2. /\ UNCHANGED <<openVars, have, formatVars, serverVars, loopVars, chClosed, seen,
                     pipe, closeVars>>
      /\ wpc = "recv" /\ wpc' = "write" /\ queue # <<>>
      /\ taken' = Head(queue) /\ queue' = Tail(queue)
  BY DEF WriterTake
<1>3. /\ Head(queue) \in Elements(queue) /\ Increasing(queue')
      /\ Elements(queue') \subseteq Elements(queue) /\ Len(queue') = Len(queue) - 1
      /\ \A x \in Elements(queue') : taken' < x
  BY <1>1, <1>2, Numbers, TakenFromFront DEF InCaptureOrder
<1>4. TypeOK'
  <2>1. taken' \in 1..MaxChunks /\ queue' \in Seq(1..MaxChunks)
    <3>1. /\ queue \in Seq(1..MaxChunks) /\ queue # <<>>
          /\ taken' = Head(queue) /\ queue' = Tail(queue)
      BY <1>1, <1>2, LoopState
    <3>. QED
      BY <3>1
  <2>2. Len(queue') <= QueueSize
    BY <1>1, <1>3, LoopState, Numbers
  <2>3. seen' \in 0..MaxChunks
    BY <1>1, <1>2 DEF TypeOK
  <2>. QED
    BY <1>1, <1>2, <2>1, <2>2, <2>3, WriterTypes
<1>5. BuffersConserved'
  BY <1>1, <1>2 DEF BuffersConserved
<1>6. InCaptureOrder'
  BY <1>1, <1>2, <1>3 DEF InCaptureOrder
<1>7. NewestKept'
  <2>1. taken' # 0
    BY <1>1, <1>2, <1>3, Numbers
  <2>2. /\ queue' = <<>> => queue[Len(queue)] = taken'
        /\ queue' # <<>> => queue'[Len(queue')] = queue[Len(queue)]
    <3>1. /\ queue \in Seq(Nat) /\ queue # <<>>
          /\ taken' = Head(queue) /\ queue' = Tail(queue)
      BY <1>1, <1>2, Numbers
    <3>2. /\ Len(queue) \in Nat \ {0} /\ Len(queue') = Len(queue) - 1
          /\ taken' = queue[1] /\ \A i \in 1..Len(queue') : queue'[i] = queue[i + 1]
      BY <3>1
    <3>3. queue' = <<>> => Len(queue) = 1
      BY <3>2
    <3>4. queue' # <<>> => Len(queue') \in 1..Len(queue')
      BY <3>1, <3>2
    <3>. QED
      BY <3>2, <3>3, <3>4
  <2>. QED
    BY <1>1, <1>2, <2>1, <2>2 DEF NewestKept, Newest, Offering
<1>8. Opened' /\ Unwound'
  BY <1>2, WriterOwns
<1>. QED
  BY <1>4, <1>5, <1>6, <1>7, <1>8 DEF IInv

\* The writer ends or fails, or the consumer reads its frame.
LEMMA InvWriter ==
    ASSUME IInv, WriterEnd \/ WriterFail \/ Consume
    PROVE  IInv'
<1>1. TypeOK /\ BuffersConserved /\ InCaptureOrder /\ NewestKept
  BY DEF IInv
<1>2. /\ UNCHANGED <<openVars, have, formatVars, serverVars, loopVars, queue, chClosed,
                     pipe, closeVars>>
      /\ wpc # "done" /\ wpc' \in {"recv", "done"} /\ taken' = 0
      /\ \/ seen' = seen /\ taken = 0
         \/ seen' = seen /\ pipe = "closed"
         \/ seen' = taken /\ taken # 0
  BY <1>1 DEF WriterEnd, WriterFail, Consume, TypeOK
<1>3. TypeOK'
  <2>1. seen' \in 0..MaxChunks
    BY <1>1, <1>2 DEF TypeOK
  <2>. QED
    BY <1>1, <1>2, <2>1, LoopState, WriterTypes
<1>4. BuffersConserved'
  BY <1>1, <1>2 DEF BuffersConserved
<1>5. InCaptureOrder'
  BY <1>1, <1>2, Numbers DEF InCaptureOrder
<1>6. NewestKept'
  BY <1>1, <1>2 DEF NewestKept, Newest, Offering
<1>7. Opened' /\ Unwound'
  BY <1>2, WriterOwns
<1>. QED
  BY <1>3, <1>4, <1>5, <1>6, <1>7 DEF IInv

\* What a step of Close has to keep in range.
LEMMA CloseTypes ==
    ASSUME TypeOK,
           UNCHANGED <<kind, opc, woken, rate, num, den, formats, serverVars, lpc, offered,
                       queue, wpc, taken, seen>>,
           have' \subseteq have, registered' \in BOOLEAN, ready' \in BOOLEAN,
           quit' \in BOOLEAN, chClosed' \in BOOLEAN, pipe' \in {"open", "closed"},
           closed' \in BOOLEAN,
           upc' \in {"idle", "mark", "quit", "join", "unregister", "closeCh",
                    "closeReader", "joinWriter", "destroy", "done"},
           call' \in [Closers -> {"idle", "in", "returned"}]
    PROVE  TypeOK'
<1>1. have' \subseteq Handles \cup {"fd"}
  BY DEF TypeOK
<1>. QED
  BY <1>1 DEF TypeOK

\* Frames do not move while a stream is closed: the pipe only stops the consumer.
LEMMA CloseFrames ==
    ASSUME IInv, UNCHANGED <<serverVars, queue, taken, seen, offered, lpc>>,
           pipe' \in {pipe, "closed"}
    PROVE  BuffersConserved' /\ InCaptureOrder' /\ NewestKept'
<1>1. BuffersConserved /\ InCaptureOrder /\ NewestKept
  BY DEF IInv
<1>. QED
  BY <1>1 DEF BuffersConserved, InCaptureOrder, NewestKept, Newest, Offering

\* Close is entered and returned from.
LEMMA InvCall ==
    ASSUME IInv, NEW c \in Closers,
           \/ c \in Callers /\ CloseEnter(c)
           \/ CloseReturn(c)
    PROVE  IInv'
<1>1. /\ TypeOK /\ Opened /\ Unwound
      /\ BuffersConserved' /\ InCaptureOrder' /\ NewestKept'
  BY CloseFrames DEF IInv, CloseEnter, CloseReturn
<1>2. /\ call \in [Closers -> {"idle", "in", "returned"}]
      /\ have \subseteq Handles \cup {"fd"} /\ pipe \in {"open", "closed"}
      /\ upc \in {"idle", "mark", "quit", "join", "unregister", "closeCh",
                  "closeReader", "joinWriter", "destroy", "done"}
  BY <1>1 DEF TypeOK
<1>3. /\ registered \in BOOLEAN /\ ready \in BOOLEAN /\ quit \in BOOLEAN
      /\ chClosed \in BOOLEAN /\ closed \in BOOLEAN
  BY <1>1 DEF TypeOK
<1>4. UNCHANGED <<openVars, have, formatVars, serverVars, loopVars, writerVars, pipe,
                  closed>>
  BY DEF CloseEnter, CloseReturn
<1>5. CASE c \in Callers /\ CloseEnter(c)
  <2>1. /\ opc = "ok" /\ call[c] = "idle" /\ call' = [call EXCEPT ![c] = "in"]
        /\ upc' = IF upc = "idle" THEN "mark" ELSE upc
    BY <1>5 DEF CloseEnter
  <2>2. /\ call' \in [Closers -> {"idle", "in", "returned"}]
        /\ \A d \in Closers : call'[d] = IF d = c THEN "in" ELSE call[d]
    BY <1>2, <2>1
  <2>3. TypeOK'
    BY <1>1, <1>2, <1>3, <1>4, <2>1, <2>2, CloseTypes
  <2>4. Opened' /\ Unwound'
    BY <1>1, <1>4, <2>1, <2>2, CallersAssumption DEF Opened, Unwound, Closers
  <2>. QED
    BY <1>1, <2>3, <2>4 DEF IInv
<1>6. CASE CloseReturn(c)
  <2>1. /\ upc = "done" /\ call[c] = "in" /\ call' = [call EXCEPT ![c] = "returned"]
        /\ upc' = upc
    BY <1>6 DEF CloseReturn
  <2>2. /\ call' \in [Closers -> {"idle", "in", "returned"}]
        /\ \A d \in Closers : call'[d] = IF d = c THEN "returned" ELSE call[d]
    BY <1>2, <2>1
  <2>3. TypeOK'
    BY <1>1, <1>2, <1>3, <1>4, <2>1, <2>2, CloseTypes
  <2>4. Opened' /\ Unwound'
    BY <1>1, <1>4, <2>1, <2>2, CallersAssumption DEF Opened, Unwound, Closers
  <2>. QED
    BY <1>1, <2>3, <2>4 DEF IInv
<1>. QED
  BY <1>5, <1>6

\* Every step of Close but the last takes what it needs away from the others, and
\* the last releases the handles.
LEMMA InvUnwind ==
    ASSUME IInv, Unwind
    PROVE  IInv'
<1>1. /\ TypeOK /\ Opened /\ Unwound
      /\ BuffersConserved' /\ InCaptureOrder' /\ NewestKept'
  <2>1. /\ UNCHANGED <<serverVars, queue, taken, seen, offered, lpc>>
        /\ pipe' \in {pipe, "closed"}
    BY DEF Unwind, UnwindMark, UnwindQuit, UnwindJoin, UnwindUnregister,
           UnwindChannels, UnwindReader, UnwindJoinWriter, UnwindDestroy
  <2>. QED
    BY <2>1, CloseFrames DEF IInv
<1>2. UNCHANGED <<kind, opc, woken, rate, num, den, formats, lpc, wpc, call>>
  BY DEF Unwind, UnwindMark, UnwindQuit, UnwindJoin, UnwindUnregister,
         UnwindChannels, UnwindReader, UnwindJoinWriter, UnwindDestroy
<1>3. TypeOK'
  <2>1. /\ have' \subseteq have /\ pipe' \in {"open", "closed"}
        /\ upc' \in {"quit", "join", "unregister", "closeCh", "closeReader",
                     "joinWriter", "destroy", "done"}
    BY <1>1 DEF Unwind, UnwindMark, UnwindQuit, UnwindJoin, UnwindUnregister,
                UnwindChannels, UnwindReader, UnwindJoinWriter, UnwindDestroy, TypeOK
  <2>2. call' \in [Closers -> {"idle", "in", "returned"}]
    BY <1>1, <1>2 DEF TypeOK
  <2>3. /\ registered \in BOOLEAN /\ ready \in BOOLEAN /\ quit \in BOOLEAN
        /\ chClosed \in BOOLEAN /\ closed \in BOOLEAN
    BY <1>1 DEF TypeOK
  <2>4. /\ registered' = registered \/ registered' = FALSE
        /\ ready' = ready \/ ready' = TRUE
        /\ quit' = quit \/ quit' \in BOOLEAN
        /\ chClosed' = chClosed \/ chClosed' = TRUE
        /\ closed' = closed \/ closed' = TRUE
    BY DEF Unwind, UnwindMark, UnwindQuit, UnwindJoin, UnwindUnregister,
           UnwindChannels, UnwindReader, UnwindJoinWriter, UnwindDestroy
  <2>5. /\ registered' \in BOOLEAN /\ ready' \in BOOLEAN /\ quit' \in BOOLEAN
        /\ chClosed' \in BOOLEAN /\ closed' \in BOOLEAN
    BY <2>3, <2>4
  <2>6. UNCHANGED <<serverVars, offered, queue, taken, seen>>
    BY DEF Unwind, UnwindMark, UnwindQuit, UnwindJoin, UnwindUnregister,
           UnwindChannels, UnwindReader, UnwindJoinWriter, UnwindDestroy
  <2>. QED
    BY <1>1, <1>2, <2>1, <2>2, <2>5, <2>6, CloseTypes
<1>4. /\ upc # "idle" /\ upc # "done" /\ opc \in {"ok", "closing"}
      /\ \A c \in Closers : call[c] # "returned"
  BY <1>1 DEF Unwind, UnwindMark, UnwindQuit, UnwindJoin, UnwindUnregister,
              UnwindChannels, UnwindReader, UnwindJoinWriter, UnwindDestroy, Opened
<1>5. Opened'
  <2>1. /\ upc' # "idle"
        /\ registered' => registered
        /\ upc' # "done" => have' = have
        /\ have' \subseteq have
    BY DEF Unwind, UnwindMark, UnwindQuit, UnwindJoin, UnwindUnregister,
           UnwindChannels, UnwindReader, UnwindJoinWriter, UnwindDestroy
  <2>. QED
    BY <1>1, <1>2, <1>4, <2>1 DEF Opened
<1>6. CASE UnwindMark \/ UnwindQuit
  BY <1>1, <1>3, <1>5, <1>6 DEF UnwindMark, UnwindQuit, Unwound, IInv
<1>7. CASE UnwindJoin \/ UnwindUnregister
  BY <1>1, <1>3, <1>5, <1>7 DEF UnwindJoin, UnwindUnregister, Unwound, IInv
<1>8. CASE UnwindChannels \/ UnwindReader
  BY <1>1, <1>3, <1>5, <1>8 DEF UnwindChannels, UnwindReader, Unwound, IInv
<1>9. CASE UnwindJoinWriter
  BY <1>1, <1>3, <1>5, <1>9 DEF UnwindJoinWriter, Unwound, IInv
<1>10. CASE UnwindDestroy
  <2>1. have' \subseteq {"fd"}
    BY <1>1, <1>10 DEF UnwindDestroy, TypeOK
  <2>. QED
    BY <1>1, <1>3, <1>5, <1>10, <2>1 DEF UnwindDestroy, Unwound, IInv
<1>. QED
  BY <1>6, <1>7, <1>8, <1>9, <1>10 DEF Unwind

\* The inductive invariant is kept by every step.
LEMMA InvNext == IInv /\ [Next]_vars => IInv'
<1>. SUFFICES ASSUME IInv, [Next]_vars PROVE IInv'
  OBVIOUS
<1>1. CASE Open
  BY <1>1, InvOpen
<1>2. CASE Fill
  BY <1>2, InvFill
<1>3. CASE FormatChanged \/ Loop
  <2>1. CASE LoopRun \/ LoopQuit \/ FormatChanged \/ Process
             \/ StoreNum \/ StoreDen \/ SetReady
    BY <2>1, InvLoop
  <2>2. CASE Dequeue
    BY <2>2, InvDequeue
  <2>3. CASE Dequeued \/ FrameCheck \/ EnqueueCheck \/ EnqueueFull
    BY <2>3, InvCheck
  <2>4. CASE EnqueueSend
    BY <2>4, InvSend
  <2>5. CASE EnqueueDrop
    BY <2>5, InvDrop
  <2>6. CASE GiveBack
    BY <2>6, InvGiveBack
  <2>. QED
    BY <1>3, <2>1, <2>2, <2>3, <2>4, <2>5, <2>6 DEF Loop, Callback
<1>4. CASE Writer \/ Consume
  BY <1>4, InvTake, InvWriter DEF Writer
<1>5. ASSUME NEW c \in Callers, CloseEnter(c)
      PROVE  IInv'
  BY <1>5, InvCall DEF Closers
<1>6. ASSUME NEW c \in Closers, CloseReturn(c)
      PROVE  IInv'
  BY <1>6, InvCall
<1>7. CASE Unwind
  BY <1>7, InvUnwind
<1>8. CASE UNCHANGED vars
  <2>1. /\ TypeOK /\ BuffersConserved /\ Opened /\ Unwound /\ InCaptureOrder
        /\ NewestKept
    BY DEF IInv
  <2>2. TypeOK'
    BY <1>8, <2>1 DEF vars, TypeOK
  <2>3. BuffersConserved' /\ InCaptureOrder' /\ NewestKept'
    BY <1>8, <2>1 DEF vars, BuffersConserved, InCaptureOrder, NewestKept, Newest,
                      Offering
  <2>4. Opened' /\ Unwound'
    BY <1>8, <2>1 DEF vars, Opened, Unwound
  <2>. QED
    BY <2>2, <2>3, <2>4 DEF IInv
<1>. QED
  BY <1>1, <1>2, <1>3, <1>4, <1>5, <1>6, <1>7, <1>8 DEF Next, Terminated

\* The inductive invariant holds of every reachable state.
LEMMA Invariant == Spec => []IInv
  BY InvInit, InvNext, PTL DEF Spec

-----------------------------------------------------------------------------
(* The properties                                                          *)

\* Every variable keeps to its range, and a buffer is held by a callback exactly
\* between its dequeue and its return to the server.
THEOREM TypeCorrect == Spec => []TypeOK
<1>1. IInv => TypeOK
  BY DEF IInv
<1>. QED
  BY <1>1, Invariant, PTL

\* No path through the callbacks keeps a buffer of the server, whatever the size
\* of its pool.
THEOREM BuffersReturn == Spec => []BuffersConserved
<1>1. IInv => BuffersConserved
  BY DEF IInv
<1>. QED
  BY <1>1, Invariant, PTL

\* The loop's thread has ended before Close closes frameCh and destroys the
\* handles that its callbacks use.
THEOREM CallbacksFirst == Spec => []CallbacksBeforeDestroy
<1>1. IInv => CallbacksBeforeDestroy
  <2>. SUFFICES ASSUME IInv, Looping
                PROVE  ~chClosed /\ Handles \subseteq have
    BY DEF CallbacksBeforeDestroy
  <2>1. Opened /\ Unwound
    BY DEF IInv
  <2>2. opc \in Streaming /\ upc \in UpToJoin
    BY <2>1 DEF Looping, Opened, Unwound
  <2>. QED
    BY <2>1, <2>2 DEF Opened, Unwound
<1>. QED
  BY <1>1, Invariant, PTL

\* Neither a Close that has returned nor an open that has failed leaves a handle,
\* a registration or a goroutine behind.
THEOREM CloseUnwinds == Spec => []NothingLeftBehind
<1>1. IInv => NothingLeftBehind
  <2>. SUFFICES ASSUME IInv, opc = "failed" \/ \E c \in Callers : call[c] = "returned"
                PROVE  /\ have = {} /\ ~registered /\ pipe = "closed"
                       /\ wpc = "done" /\ lpc \in {"none", "done"}
    BY DEF NothingLeftBehind
  <2>1. Opened /\ Unwound
    BY DEF IInv
  <2>2. upc = "done" /\ opc \in {"ok", "failed"}
    BY <2>1 DEF Opened, Closers
  <2>. QED
    BY <2>1, <2>2 DEF Opened, Unwound
<1>. QED
  BY <1>1, Invariant, PTL

\* A frame that may be there or not is a sequence in order.
LEMMA Single ==
    ASSUME NEW x \in Nat
    PROVE  /\ <<x>> \in Seq(Nat) /\ Increasing(<<x>>) /\ Elements(<<x>>) = {x}
           /\ Present(x) \in Seq(Nat) /\ Increasing(Present(x))
           /\ \A y \in Elements(Present(x)) : y = x /\ x # 0
<1>1. <<x>> \in Seq(Nat) /\ Len(<<x>>) = 1 /\ <<x>>[1] = x
  OBVIOUS
<1>2. Increasing(<<x>>) /\ Elements(<<x>>) = {x}
  BY <1>1 DEF Increasing, Elements
<1>3. <<>> \in Seq(Nat) /\ Increasing(<<>>) /\ Elements(<<>>) = {}
  BY DEF Increasing, Elements
<1>4. CASE x = 0
  BY <1>1, <1>2, <1>3, <1>4 DEF Present
<1>5. CASE x # 0
  BY <1>1, <1>2, <1>5 DEF Present
<1>. QED
  BY <1>4, <1>5

\* What goes before a sequence does not change its end.
LEMMA LastOf ==
    ASSUME NEW s \in Seq(Nat), NEW t \in Seq(Nat)
    PROVE  /\ t # <<>> => (s \o t)[Len(s \o t)] = t[Len(t)]
           /\ t = <<>> /\ s # <<>> => (s \o t)[Len(s \o t)] = s[Len(s)]
<1>1. /\ Len(s) \in Nat /\ Len(t) \in Nat /\ Len(s \o t) = Len(s) + Len(t)
      /\ \A i \in 1..(Len(s) + Len(t)) :
            (s \o t)[i] = IF i <= Len(s) THEN s[i] ELSE t[i - Len(s)]
  BY ConcatProperties
<1>2. ASSUME t # <<>>
      PROVE  (s \o t)[Len(s \o t)] = t[Len(t)]
  <2>1. Len(t) > 0
    BY <1>1, <1>2
  <2>. QED
    BY <1>1, <2>1
<1>3. ASSUME t = <<>>, s # <<>>
      PROVE  (s \o t)[Len(s \o t)] = s[Len(s)]
  <2>1. Len(t) = 0 /\ Len(s) > 0
    BY <1>1, <1>3
  <2>. QED
    BY <1>1, <2>1
<1>. QED
  BY <1>2, <1>3

\* Everything between the server and the consumer is one ascending sequence.
LEMMA Ordered == IInv => Increasing(OnTheWay) /\ OnTheWay \in Seq(Nat)
<1>. SUFFICES ASSUME IInv PROVE Increasing(OnTheWay) /\ OnTheWay \in Seq(Nat)
  OBVIOUS
<1>1. TypeOK /\ InCaptureOrder
  BY DEF IInv
<1>. DEFINE inHand == IF lpc = "giveBack" THEN <<>> ELSE Present(held)
            read   == <<seen>> \o Present(taken)
<1>2. /\ seen \in Nat /\ taken \in Nat /\ held \in Nat
      /\ queue \in Seq(Nat) /\ filled \in Seq(Nat)
      /\ Increasing(queue) /\ Increasing(filled)
  BY <1>1, Numbers DEF InCaptureOrder
<1>3. /\ read \in Seq(Nat) /\ Increasing(read)
      /\ \A x \in Elements(read) : x = seen \/ (x = taken /\ taken # 0)
  <2>1. \A x \in Elements(<<seen>>), y \in Elements(Present(taken)) : x < y
    <3>1. Elements(<<seen>>) = {seen}
      BY <1>2, Single
    <3>2. \A y \in Elements(Present(taken)) : y = taken /\ taken # 0
      BY <1>2, Single
    <3>3. taken # 0 => seen < taken
      BY <1>1 DEF InCaptureOrder
    <3>. QED
      BY <3>1, <3>2, <3>3
  <2>2. /\ read \in Seq(Nat) /\ Increasing(read)
        /\ Elements(read) \subseteq Elements(<<seen>>) \cup Elements(Present(taken))
    <3>1. /\ <<seen>> \in Seq(Nat) /\ Increasing(<<seen>>)
          /\ Present(taken) \in Seq(Nat) /\ Increasing(Present(taken))
      BY <1>2, Single
    <3>. QED
      BY <2>1, <3>1, Concatenated
  <2>3. /\ Elements(<<seen>>) = {seen}
        /\ \A x \in Elements(Present(taken)) : x = taken /\ taken # 0
    BY <1>2, Single
  <2>. QED
    BY <2>2, <2>3
<1>4. /\ inHand \in Seq(Nat) /\ Increasing(inHand)
      /\ \A x \in Elements(inHand) : x = held /\ held # 0 /\ lpc # "giveBack"
  <2>1. <<>> \in Seq(Nat) /\ Increasing(<<>>) /\ Elements(<<>>) = {}
    BY DEF Increasing, Elements
  <2>2. CASE lpc = "giveBack"
    BY <2>1, <2>2
  <2>3. CASE lpc # "giveBack"
    BY <1>2, <2>3, Single
  <2>. QED
    BY <2>2, <2>3
<1>. HIDE DEF inHand, read
<1>5. /\ Written = read \o queue /\ Written \in Seq(Nat) /\ Increasing(Written)
      /\ \A x \in Elements(Written) :
            x = seen \/ (x = taken /\ taken # 0) \/ x \in Elements(queue)
  <2>1. \A x \in Elements(read), y \in Elements(queue) : x < y
    BY <1>1, <1>3 DEF InCaptureOrder
  <2>2. Written = read \o queue
    BY DEF Written, read
  <2>3. /\ read \o queue \in Seq(Nat) /\ Increasing(read \o queue)
        /\ Elements(read \o queue) \subseteq Elements(read) \cup Elements(queue)
    BY <1>2, <1>3, <2>1, Concatenated
  <2>. QED
    BY <1>3, <2>2, <2>3
<1>6. /\ Written \o inHand \in Seq(Nat) /\ Increasing(Written \o inHand)
      /\ \A x \in Elements(Written \o inHand) :
            \/ x = seen \/ (x = taken /\ taken # 0) \/ x \in Elements(queue)
            \/ x = held
  <2>1. \A x \in Elements(Written), y \in Elements(inHand) : x < y
    BY <1>1, <1>4, <1>5 DEF InCaptureOrder
  <2>2. /\ Written \o inHand \in Seq(Nat) /\ Increasing(Written \o inHand)
        /\ Elements(Written \o inHand) \subseteq Elements(Written) \cup Elements(inHand)
    BY <1>4, <1>5, <2>1, Concatenated
  <2>. QED
    BY <1>4, <1>5, <2>2
<1>7. \A x \in Elements(Written \o inHand), y \in Elements(filled) : x < y
  BY <1>1, <1>6 DEF InCaptureOrder
<1>8. OnTheWay = (Written \o inHand) \o filled
  BY DEF OnTheWay, inHand
<1>. DEFINE front == Written \o inHand
<1>9. front \in Seq(Nat) /\ Increasing(front)
      /\ \A x \in Elements(front), y \in Elements(filled) : x < y
  BY <1>6, <1>7
<1>10. OnTheWay = front \o filled
  BY <1>8
<1>. HIDE DEF front
<1>. QED
  BY <1>2, <1>9, <1>10, Concatenated

\* The consumer gets frames in the order of their capture and none twice, and the
\* newest frame that enqueueFrame accepted is never the one that is dropped.
THEOREM NewestAndInOrder == Spec => []FramesKept
<1>1. IInv => \A i \in 1..(Len(OnTheWay) - 1) : OnTheWay[i] < OnTheWay[i + 1]
  <2>. SUFFICES ASSUME IInv, NEW i \in 1..(Len(OnTheWay) - 1)
                PROVE  OnTheWay[i] < OnTheWay[i + 1]
    OBVIOUS
  <2>1. Increasing(OnTheWay) /\ Len(OnTheWay) \in Nat
    BY Ordered
  <2>2. i \in 1..Len(OnTheWay) /\ i + 1 \in 1..Len(OnTheWay) /\ i < i + 1
    BY <2>1
  <2>. QED
    BY <2>1, <2>2 DEF Increasing
<1>2. IInv => (lpc \notin InEnqueue /\ pipe = "open" => Written[Len(Written)] = offered)
  <2>. SUFFICES ASSUME IInv, lpc \notin InEnqueue, pipe = "open"
                PROVE  Written[Len(Written)] = offered
    OBVIOUS
  <2>1. TypeOK /\ Newest = offered
    BY DEF IInv, NewestKept, Offering
  <2>. DEFINE read == <<seen>> \o Present(taken)
  <2>2. seen \in Nat /\ taken \in Nat /\ queue \in Seq(Nat)
    BY <2>1, Numbers
  <2>3. read \in Seq(Nat) /\ read # <<>>
        /\ read[Len(read)] = IF taken # 0 THEN taken ELSE seen
    <3>1. /\ <<seen>> \in Seq(Nat) /\ <<seen>> # <<>> /\ Len(<<seen>>) = 1
          /\ <<seen>>[1] = seen
      BY <2>2
    <3>2. /\ <<taken>> # <<>> /\ Len(<<taken>>) = 1 /\ <<taken>>[1] = taken
      BY <2>2
    <3>3. Present(taken) \in Seq(Nat)
      BY <2>2, Single
    <3>4. CASE taken = 0
      <4>1. Present(taken) = <<>>
        BY <3>4 DEF Present
      <4>2. read[Len(read)] = seen /\ read \in Seq(Nat)
        BY <3>1, <3>3, <4>1, LastOf, ConcatProperties
      <4>3. Len(read) = 1
        BY <3>1, <3>3, <4>1, ConcatProperties
      <4>. HIDE DEF read
      <4>4. read # <<>>
        BY <4>3
      <4>. QED
        BY <3>4, <4>2, <4>4
    <3>5. CASE taken # 0
      <4>1. Present(taken) = <<taken>>
        BY <3>5 DEF Present
      <4>2. read[Len(read)] = taken /\ read \in Seq(Nat)
        BY <3>1, <3>2, <3>3, <4>1, LastOf, ConcatProperties
      <4>3. Len(read) = 2
        BY <3>1, <3>2, <3>3, <4>1, ConcatProperties
      <4>. HIDE DEF read
      <4>4. read # <<>>
        BY <4>3
      <4>. QED
        BY <3>5, <4>2, <4>4
    <3>. QED
      BY <3>4, <3>5
  <2>4. Written = read \o queue
    BY DEF Written
  <2>. HIDE DEF read
  <2>5. Written[Len(Written)] = Newest
    BY <2>2, <2>3, <2>4, LastOf DEF Newest
  <2>. QED
    BY <2>1, <2>5
<1>3. IInv => FramesKept
  BY <1>1, <1>2 DEF FramesKept
<1>. QED
  BY <1>3, Invariant, PTL

-----------------------------------------------------------------------------
(* The waits: what Close has closed by the time it waits for the writer, and  *)
(* that a stream nobody closes has an open channel and an open pipe.          *)

Waits ==
    /\ NobodyStranded
    /\ upc \notin {"idle", "mark"} => closed
    /\ upc \notin UpToChannels => chClosed
    /\ pipe = "closed" => upc \notin UpToReader

\* The queue is full at the second send only if it was filled since the drop, and
\* the loop's thread is the only sender.
LEMMA RoomAfterDrop ==
    ASSUME TypeOK, EnqueueDrop
    PROVE  Len(queue') < QueueSize
<1>1. queue \in Seq(1..MaxChunks) /\ Len(queue) \in Nat /\ Len(queue) <= QueueSize
      /\ QueueSize \in Nat \ {0}
  BY SizesAssumption DEF TypeOK
<1>2. CASE queue = <<>>
  BY <1>1, <1>2 DEF EnqueueDrop
<1>3. CASE queue # <<>>
  <2>1. queue' = Tail(queue)
    BY <1>3 DEF EnqueueDrop
  <2>2. Len(Tail(queue)) = Len(queue) - 1
    BY <1>1, <1>3
  <2>. QED
    BY <1>1, <2>1, <2>2
<1>. QED
  BY <1>2, <1>3

\* No step strands anybody.
LEMMA WaitsNext == IInv /\ Waits /\ [Next]_vars => Waits'
<1>. SUFFICES ASSUME IInv, Waits, [Next]_vars PROVE Waits'
  OBVIOUS
<1>1. /\ TypeOK /\ Opened /\ Unwound
      /\ call \in [Closers -> {"idle", "in", "returned"}] /\ Opener \in Closers
  BY DEF IInv, TypeOK, Closers
<1>2. upc # "idle" => opc \in {"ok", "closing", "failed"}
  BY <1>1 DEF Opened
<1>3. upc = "closeCh" => lpc \in {"none", "done"}
  BY <1>1 DEF Unwound
<1>. USE DEF Waits, NobodyStranded
<1>4. CASE Open
  <2>1. UNCHANGED <<queue, chClosed, wpc, pipe, closed>>
        /\ lpc' \in {lpc, "spawned"} /\ (lpc' # lpc => opc = "start")
    BY <1>4 DEF Open, Dup, Acquire, AcquireFail, FailReturn, Register, Start,
       WaitReady, WaitTimeout, Wake, LoadNum, LoadDen, loopVars, writerVars, closeVars
  <2>2. CASE AcquireFail
    BY <1>1, <1>2, <2>1, <2>2, Steps DEF AcquireFail, loopVars
  <2>3. CASE ~AcquireFail
    <3>1. UNCHANGED <<upc, call>> /\ (opc' = "closing" => opc = "closing")
      BY <1>4, <2>3, Steps DEF Open, Dup, Acquire, FailReturn, Register, Start,
         WaitReady, WaitTimeout, Wake, LoadNum, LoadDen, closeVars, After
    <3>2. lpc' # lpc => upc = "idle"
      BY <1>2, <2>1
    <3>. QED
      BY <2>1, <3>1, <3>2
  <2>. QED
    BY <2>2, <2>3
<1>5. CASE Fill \/ FormatChanged \/ Loop
  <2>1. UNCHANGED <<opc, chClosed, wpc, pipe, closed, upc, call>>
    BY <1>5 DEF Fill, FormatChanged, Loop, LoopRun, LoopQuit, Process, Callback,
       StoreNum, StoreDen, SetReady, Dequeue, Dequeued, FrameCheck, EnqueueCheck,
       EnqueueSend, EnqueueFull, EnqueueDrop, GiveBack, openVars, writerVars, closeVars
  <2>2. upc = "closeCh" => lpc' \notin {"locked", "offer", "drop", "retry"}
    BY <1>3, <1>5 DEF Fill, FormatChanged, Loop, LoopRun, LoopQuit, Process, Callback,
       StoreNum, StoreDen, SetReady, Dequeue, Dequeued, FrameCheck, EnqueueCheck,
       EnqueueSend, EnqueueFull, EnqueueDrop, GiveBack, loopVars
  <2>3. lpc' = "retry" => Len(queue') < QueueSize
    <3>1. CASE EnqueueDrop
      BY <1>1, <3>1, RoomAfterDrop
    <3>2. CASE Fill
      BY <3>2 DEF Fill, loopVars, writerVars
    <3>3. CASE ~EnqueueDrop /\ ~Fill
      <4>1. lpc' # "retry"
        BY <1>5, <3>3 DEF FormatChanged, Loop, LoopRun, LoopQuit, Process, Callback,
           StoreNum, StoreDen, SetReady, Dequeue, Dequeued, FrameCheck, EnqueueCheck,
           EnqueueSend, EnqueueFull, GiveBack
      <4>. QED
        BY <4>1
    <3>. QED
      BY <3>1, <3>2, <3>3
  <2>. QED
    BY <2>1, <2>2, <2>3
<1>6. CASE Writer \/ Consume
  <2>1. UNCHANGED <<opc, lpc, chClosed, pipe, closed, upc, call>>
    BY <1>6 DEF Writer, WriterTake, WriterEnd, WriterFail, Consume, openVars, loopVars,
       closeVars
  <2>2. wpc' = "done" => wpc = "done" \/ chClosed \/ pipe = "closed"
    BY <1>6 DEF Writer, WriterTake, WriterEnd, WriterFail, Consume
  <2>3. chClosed \/ pipe = "closed" => closed
    BY <1>1 DEF Unwound
  <2>4. lpc = "retry" => Len(queue') < QueueSize
    <3>1. CASE WriterTake
      <4>1. queue \in Seq(1..MaxChunks) /\ Len(queue) \in Nat /\ queue # <<>>
            /\ queue' = Tail(queue) /\ QueueSize \in Nat
        BY <1>1, <3>1, SizesAssumption DEF WriterTake, TypeOK
      <4>2. Len(Tail(queue)) = Len(queue) - 1
        BY <4>1
      <4>. QED
        BY <4>1, <4>2
    <3>2. CASE WriterEnd \/ WriterFail \/ Consume
      BY <3>2 DEF WriterEnd, WriterFail, Consume
    <3>. QED
      BY <1>6, <3>1, <3>2 DEF Writer
  <2>. QED
    BY <2>1, <2>2, <2>3, <2>4
<1>7. ASSUME NEW c \in Closers, CloseEnter(c) \/ CloseReturn(c)
      PROVE  Waits'
  <2>1. /\ UNCHANGED <<opc, lpc, queue, chClosed, wpc, pipe, closed>>
        /\ upc' \in {upc, "mark"} /\ (upc' # upc => upc = "idle")
        /\ upc' # "idle"
    BY <1>7 DEF CloseEnter, CloseReturn, openVars, loopVars, writerVars
  <2>2. call[Opener] # "idle" => call'[Opener] # "idle"
    BY <1>1, <1>7 DEF CloseEnter, CloseReturn
  <2>. QED
    BY <2>1, <2>2
<1>8. CASE Unwind
  <2>1. UNCHANGED <<opc, lpc, queue, wpc, call>> /\ upc # "idle" /\ upc' # "idle"
    BY <1>8 DEF Unwind, UnwindMark, UnwindQuit, UnwindJoin, UnwindUnregister,
       UnwindChannels, UnwindReader, UnwindJoinWriter, UnwindDestroy, openVars,
       loopVars, writerVars
  <2>2. CASE UnwindMark \/ UnwindQuit \/ UnwindJoin
    BY <2>1, <2>2 DEF UnwindMark, UnwindQuit, UnwindJoin, writerVars
  <2>3. CASE UnwindUnregister
    <3>1. lpc \in {"none", "done"}
      BY <1>1, <2>3 DEF Unwound, UnwindUnregister
    <3>. QED
      BY <2>1, <2>3, <3>1 DEF UnwindUnregister, writerVars
  <2>4. CASE UnwindChannels
    BY <2>1, <2>4 DEF UnwindChannels
  <2>5. CASE UnwindReader \/ UnwindJoinWriter \/ UnwindDestroy
    BY <2>1, <2>5 DEF UnwindReader, UnwindJoinWriter, UnwindDestroy, writerVars
  <2>. QED
    BY <1>8, <2>2, <2>3, <2>4, <2>5 DEF Unwind
<1>9. CASE UNCHANGED vars
  BY <1>9 DEF vars, openVars, loopVars, writerVars, closeVars
<1>. QED
  BY <1>4, <1>5, <1>6, <1>7, <1>8, <1>9 DEF Next, Terminated, Closers

\* Neither Close nor the callbacks ever get into a wait that does not end, but for
\* a loop that was told to quit before it was entered: the safety half of
\* CloseReturns.
THEOREM NoneStranded == Spec => []NobodyStranded
<1>1. Init => Waits
  BY DEF Init, Waits, NobodyStranded, Closers
<1>2. Waits => NobodyStranded
  BY DEF Waits
<1>. QED
  BY <1>1, <1>2, WaitsNext, InvInit, InvNext, PTL DEF Spec

=============================================================================
