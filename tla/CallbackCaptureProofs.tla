----------------------- MODULE CallbackCaptureProofs -----------------------
(***************************************************************************)
(* What holds of CallbackCapture for every number of callers and every     *)
(* capacity of the queues.                                                 *)
(*                                                                         *)
(* Windows frees a session while a callback may still be on its way, so    *)
(* what Close may rely on is how the counter, the event and the two tests  *)
(* of shuttingDown fit together (Stopped).  That a failed open and a Close *)
(* that has returned leave nothing behind takes what each of their steps   *)
(* has achieved (Opened, Unwound), in an order that is another one on each *)
(* platform; the order of the chunks takes the order of everything between *)
(* the capture and the consumer (InCaptureOrder).                          *)
(***************************************************************************)
EXTENDS CallbackCapture, SequenceTheorems, TLAPS

USE DEF openVars, prodVars, queueVars, loopVars, closeVars, sharedVars, winVars

-----------------------------------------------------------------------------
(* Sequences in ascending order                                            *)

Elements(s)   == {s[i] : i \in 1..Len(s)}
Increasing(s) == \A i, j \in 1..Len(s) : i < j => s[i] < s[j]

\* What is appended goes last.
LEMMA Appended ==
    ASSUME NEW s \in Seq(Nat), NEW x \in Nat,
           Increasing(s), \A y \in Elements(s) : y < x
    PROVE  /\ Increasing(Append(s, x)) /\ Len(Append(s, x)) = Len(s) + 1
           /\ Elements(Append(s, x)) = Elements(s) \cup {x}
<1>1. /\ Len(s) \in Nat /\ Len(Append(s, x)) = Len(s) + 1
      /\ \A i \in 1..(Len(s) + 1) :
            Append(s, x)[i] = IF i = Len(s) + 1 THEN x ELSE s[i]
  OBVIOUS
<1>. DEFINE t == Append(s, x)
<1>. HIDE DEF t
<1>2. Elements(t) = Elements(s) \cup {x}
  <2>1. ASSUME NEW i \in 1..Len(t)
        PROVE  t[i] \in Elements(s) \cup {x}
    BY <1>1 DEF Elements, t
  <2>2. ASSUME NEW i \in 1..Len(s)
        PROVE  s[i] \in Elements(t)
    <3>1. i \in 1..Len(t) /\ t[i] = s[i]
      BY <1>1 DEF t
    <3>. QED
      BY <3>1 DEF Elements
  <2>3. x \in Elements(t)
    <3>1. Len(s) + 1 \in 1..Len(t) /\ t[Len(s) + 1] = x
      BY <1>1 DEF t
    <3>. QED
      BY <3>1 DEF Elements
  <2>. QED
    BY <2>1, <2>2, <2>3 DEF Elements
<1>3. Increasing(t)
  <2>. SUFFICES ASSUME NEW i \in 1..Len(t), NEW j \in 1..Len(t), i < j
                PROVE  t[i] < t[j]
    BY DEF Increasing
  <2>1. i \in 1..Len(s) /\ t[i] = s[i]
    BY <1>1 DEF t
  <2>2. s[i] \in Elements(s)
    BY <2>1 DEF Elements
  <2>3. CASE j = Len(s) + 1
    BY <1>1, <2>1, <2>2, <2>3 DEF t
  <2>4. CASE j # Len(s) + 1
    BY <1>1, <2>1, <2>4 DEF t, Increasing
  <2>. QED
    BY <2>3, <2>4
<1>. QED
  BY <1>1, <1>2, <1>3 DEF t

\* What is taken from the front is before the rest.
LEMMA TakenFromFront ==
    ASSUME NEW s \in Seq(Nat), s # <<>>, Increasing(s)
    PROVE  /\ Head(s) \in Elements(s) /\ Increasing(Tail(s))
           /\ Len(Tail(s)) = Len(s) - 1 /\ Elements(Tail(s)) \subseteq Elements(s)
           /\ \A y \in Elements(Tail(s)) : Head(s) < y
<1>1. /\ Len(s) \in Nat \ {0} /\ Len(Tail(s)) = Len(s) - 1 /\ Head(s) = s[1]
      /\ \A i \in 1..(Len(s) - 1) : Tail(s)[i] = s[i + 1]
  OBVIOUS
<1>2. Head(s) \in Elements(s)
  BY <1>1 DEF Elements
<1>3. Increasing(Tail(s))
  BY <1>1 DEF Increasing
<1>4. ASSUME NEW i \in 1..Len(Tail(s))
      PROVE  Tail(s)[i] \in Elements(s) /\ Head(s) < Tail(s)[i]
  <2>1. i + 1 \in 1..Len(s) /\ 1 \in 1..Len(s) /\ Tail(s)[i] = s[i + 1] /\ 1 < i + 1
    BY <1>1
  <2>2. s[1] < s[i + 1]
    BY <2>1 DEF Increasing
  <2>. QED
    BY <1>1, <2>1, <2>2 DEF Elements
<1>5. Elements(Tail(s)) \subseteq Elements(s) /\ \A y \in Elements(Tail(s)) : Head(s) < y
  BY <1>4 DEF Elements
<1>. QED
  BY <1>1, <1>2, <1>3, <1>5

\* A sequence goes on with what is after all of it.
LEMMA Concatenated ==
    ASSUME NEW s \in Seq(Nat), NEW t \in Seq(Nat), Increasing(s), Increasing(t),
           \A x \in Elements(s), y \in Elements(t) : x < y
    PROVE  /\ s \o t \in Seq(Nat) /\ Increasing(s \o t)
           /\ Elements(s \o t) \subseteq Elements(s) \cup Elements(t)
<1>1. /\ Len(s) \in Nat /\ Len(t) \in Nat
      /\ s \o t \in Seq(Nat) /\ Len(s \o t) = Len(s) + Len(t)
      /\ \A i \in 1..(Len(s) + Len(t)) :
            (s \o t)[i] = IF i <= Len(s) THEN s[i] ELSE t[i - Len(s)]
  BY ConcatProperties
<1>. DEFINE u == s \o t
<1>. HIDE DEF u
<1>2. ASSUME NEW i \in 1..Len(u), i <= Len(s)
      PROVE  i \in 1..Len(s) /\ u[i] = s[i] /\ u[i] \in Elements(s)
  <2>1. i \in 1..Len(s) /\ u[i] = s[i]
    BY <1>1, <1>2 DEF u
  <2>. QED
    BY <2>1 DEF Elements
<1>3. ASSUME NEW i \in 1..Len(u), i > Len(s)
      PROVE  /\ i - Len(s) \in 1..Len(t) /\ u[i] = t[i - Len(s)]
             /\ u[i] \in Elements(t)
  <2>1. i - Len(s) \in 1..Len(t) /\ u[i] = t[i - Len(s)]
    BY <1>1, <1>3 DEF u
  <2>. QED
    BY <2>1 DEF Elements
<1>4. Increasing(u)
  <2>. SUFFICES ASSUME NEW i \in 1..Len(u), NEW j \in 1..Len(u), i < j
                PROVE  u[i] < u[j]
    BY DEF Increasing
  <2>1. i \in Nat /\ j \in Nat /\ Len(s) \in Nat
    BY <1>1 DEF u
  <2>2. CASE i <= Len(s) /\ j > Len(s)
    <3>1. u[i] \in Elements(s) /\ u[j] \in Elements(t)
      BY <1>2, <1>3, <2>2
    <3>. QED
      BY <3>1
  <2>3. CASE j <= Len(s)
    <3>1. i <= Len(s)
      BY <2>1, <2>3
    <3>2. /\ i \in 1..Len(s) /\ u[i] = s[i]
          /\ j \in 1..Len(s) /\ u[j] = s[j]
      BY <1>2, <2>3, <3>1
    <3>. QED
      BY <3>2 DEF Increasing
  <2>4. CASE i > Len(s)
    <3>1. j > Len(s)
      BY <2>1, <2>4
    <3>2. /\ i - Len(s) \in 1..Len(t) /\ u[i] = t[i - Len(s)]
          /\ j - Len(s) \in 1..Len(t) /\ u[j] = t[j - Len(s)]
      BY <1>3, <2>4, <3>1
    <3>3. i - Len(s) < j - Len(s)
      BY <2>1
    <3>. QED
      BY <3>2, <3>3 DEF Increasing
  <2>. QED
    BY <2>1, <2>2, <2>3, <2>4
<1>5. ASSUME NEW i \in 1..Len(u)
      PROVE  u[i] \in Elements(s) \cup Elements(t)
  <2>1. i <= Len(s) \/ i > Len(s)
    BY <1>1 DEF u
  <2>. QED
    BY <1>2, <1>3, <2>1
<1>6. Elements(u) \subseteq Elements(s) \cup Elements(t)
  BY <1>5 DEF Elements
<1>. QED
  BY <1>1, <1>4, <1>6 DEF u

-----------------------------------------------------------------------------
(* One kind of chunk, on its way from the capture to the consumer          *)

\* The last chunk read is s, the loop has t and the callback h, q is the queue,
\* and m chunks were captured.
InOrder(s, t, q, h, m) ==
    /\ s <= m /\ t <= m /\ h <= m
    /\ t # 0 => s < t
    /\ Increasing(q)
    /\ \A x \in Elements(q) : s < x /\ t < x /\ x <= m
    /\ h # 0 => s < h /\ t < h /\ \A x \in Elements(q) : x < h

\* A chunk that is captured is newer than every other.
LEMMA OrderCapture ==
    ASSUME NEW s \in Nat, NEW t \in Nat, NEW q \in Seq(Nat), NEW m \in Nat,
           InOrder(s, t, q, 0, m)
    PROVE  InOrder(s, t, q, m + 1, m + 1)
<1>1. \A x \in Elements(q) : x \in Nat
  BY DEF Elements
<1>. QED
  BY <1>1 DEF InOrder

\* A callback leaves without its chunk.
LEMMA OrderLeave ==
    ASSUME NEW s \in Nat, NEW t \in Nat, NEW q \in Seq(Nat), NEW h \in Nat,
           NEW m \in Nat, InOrder(s, t, q, h, m)
    PROVE  InOrder(s, t, q, 0, m)
  BY DEF InOrder

\* The chunk in hand becomes the last of the queue.
LEMMA OrderSend ==
    ASSUME NEW s \in Nat, NEW t \in Nat, NEW q \in Seq(Nat), NEW h \in Nat,
           NEW m \in Nat, InOrder(s, t, q, h, m), h # 0
    PROVE  InOrder(s, t, Append(q, h), 0, m)
<1>1. /\ Increasing(Append(q, h))
      /\ Elements(Append(q, h)) = Elements(q) \cup {h}
  BY Appended DEF InOrder
<1>. QED
  BY <1>1 DEF InOrder

\* The oldest chunk of the queue is dropped.
LEMMA OrderDrop ==
    ASSUME NEW s \in Nat, NEW t \in Nat, NEW q \in Seq(Nat), NEW h \in Nat,
           NEW m \in Nat, InOrder(s, t, q, h, m), q # <<>>
    PROVE  InOrder(s, t, Tail(q), h, m)
<1>1. Increasing(Tail(q)) /\ Elements(Tail(q)) \subseteq Elements(q)
  BY TakenFromFront DEF InOrder
<1>. QED
  BY <1>1 DEF InOrder

\* The loop takes the oldest chunk of the queue.
LEMMA OrderTake ==
    ASSUME NEW s \in Nat, NEW q \in Seq(Nat), NEW h \in Nat, NEW m \in Nat,
           InOrder(s, 0, q, h, m), q # <<>>
    PROVE  InOrder(s, Head(q), Tail(q), h, m)
<1>1. /\ Head(q) \in Elements(q) /\ Increasing(Tail(q))
      /\ Elements(Tail(q)) \subseteq Elements(q)
      /\ \A x \in Elements(Tail(q)) : Head(q) < x
  BY TakenFromFront DEF InOrder
<1>. QED
  BY <1>1 DEF InOrder

\* The loop loses its chunk, or the consumer reads it.
LEMMA OrderRead ==
    ASSUME NEW s \in Nat, NEW t \in Nat, NEW q \in Seq(Nat), NEW h \in Nat,
           NEW m \in Nat, InOrder(s, t, q, h, m), t # 0
    PROVE  InOrder(s, 0, q, h, m) /\ InOrder(t, 0, q, h, m)
<1>1. \A x \in Elements(q) : x \in Nat
  BY DEF Elements
<1>. QED
  BY <1>1 DEF InOrder

-----------------------------------------------------------------------------
(* The inductive invariant                                                 *)

\* The consumer, the loop, the queue and the callback have chunks in the order of
\* their capture.
InCaptureOrder ==
    \A k \in Kinds : InOrder(seen[k], taken[k], queue[k], hand[k], made[k])

\* Program counters of the callbacks, of both kinds.
CallbackSteps == Copying \cup {"idle", "arrived", "count", "reset", "retest",
                               "release", "signal", "undefined"}

Types == TypeOK /\ ppc \in [Kinds -> CallbackSteps]

Ended(k) == loop[k] \in {"none", "done"}
Shut(k)  == pipe[k] # "open"

\* Steps of the opener before there is a native session, and those that undo what
\* was opened.
Building == {"register", "init", "retry", "retryJoin", "unregister", "failVideo",
             "failJoinVideo", "failAudio", "failJoinAudio", "failPipes"}
Undoing  == {"failVideo", "failJoinVideo", "failAudio", "failJoinAudio", "failPipes",
             "failed"}

\* What the opener has made and undone at each of its steps, and that Close comes
\* after it: once open has returned, or for a first frame that never arrived.
Opened ==
    /\ opc \in Building => native = "none"
    /\ opc \in Undoing => ~registered
    /\ opc \in {"failAudio", "failJoinAudio", "failPipes"} => Ended("video")
    /\ opc = "failPipes" => Ended("audio")
    /\ opc = "failed" => Released /\ upc \in {"idle", "done"}
    /\ ~audio /\ opc # "register" => Ended("audio") /\ Shut("audio")
    /\ opc = "register" => \A k \in Kinds : Ended(k) /\ Shut(k)
    /\ upc # "idle" => opc \in {"ok", "closing", "failed"}
    /\ \A c \in Closers : call[c] = "returned" => upc = "done"

\* Steps of Close after it has closed the pipes, joined the loop of the video, and
\* joined both: Windows stops the native session after all of them.
Stopping  == {"stop", "revoke", "drain", "drainWait", "join", "free"}
WinOnly   == IF platform = "windows" THEN Stopping ELSE {}
PastJoins == {"done"} \cup WinOnly
PastVideo == PastJoins \cup {"closeAudio", "joinAudio"}
PastPipes == PastVideo \cup {"closeVideo", "joinVideo"}
PastFree  == IF platform = "windows" THEN {"done"} ELSE {"pipes"} \cup PastPipes

\* What Close has achieved by the time it is past each of its steps.
Unwound ==
    /\ upc \notin {"idle", "unregister"} => ~registered
    /\ upc \in PastPipes => \A k \in Kinds : Shut(k)
    /\ upc \in PastVideo => Ended("video")
    /\ upc \in PastJoins => Ended("audio")
    /\ native = "freed" <=> upc \in PastFree

\* How StopWinCapture gets every callback off the session.  The event stays reset
\* from a callback's reset to its signal; one that is counted after the session
\* was told to stop sees that in its second test and leaves.
Stopped ==
    platform = "windows" =>
        /\ ppc["video"] \in Copying \cup {"retest", "release", "signal"} => ~drained
        /\ upc \in {"revoke", "drain", "drainWait", "join", "free", "done"} => stopping
        /\ upc \in {"join", "free", "done"} => ppc["video"] \notin Copying
        /\ upc \in {"free", "done"} => ~AudioRuns

IInv == Types /\ InCaptureOrder /\ Opened /\ Unwound /\ Stopped

\* What Types says of the state the callbacks and the loops work on.
LEMMA State ==
    ASSUME Types
    PROVE  /\ ppc \in [Kinds -> CallbackSteps]
           /\ hand \in [Kinds -> Nat] /\ made \in [Kinds -> Nat]
           /\ queue \in [Kinds -> Seq(Nat \ {0})] /\ done \in [Kinds -> BOOLEAN]
           /\ \A k \in Kinds : /\ Len(queue[k]) <= QueueSize
                               /\ hand[k] # 0 <=> ppc[k] \in Copying
                               /\ taken[k] # 0 <=> loop[k] = "write"
           /\ loop \in [Kinds -> {"none", "select", "write", "done"}]
           /\ taken \in [Kinds -> Nat] /\ seen \in [Kinds -> Nat]
           /\ pipe \in [Kinds -> {"none", "open", "closed"}]
  BY DEF Types, TypeOK

\* A queue is one of numbers.
LEMMA QueueOfNumbers ==
    ASSUME Types, NEW k \in Kinds
    PROVE  queue[k] \in Seq(Nat \ {0}) /\ queue[k] \in Seq(Nat) /\ Len(queue[k]) \in Nat
<1>1. queue[k] \in Seq(Nat \ {0})
  BY State
<1>2. queue[k] \in Seq(Nat)
  BY <1>1
<1>. QED
  BY <1>1, <1>2

\* The inductive invariant holds initially.
LEMMA InvInit == Init => IInv
<1>. SUFFICES ASSUME Init PROVE IInv
  OBVIOUS
<1>. USE DEF Init, QueueInit, WinInit, MacInit
<1>1. Types
  <2>1. /\ audio \in BOOLEAN /\ registered \in BOOLEAN /\ ready \in BOOLEAN
        /\ stopping \in BOOLEAN /\ revoked \in BOOLEAN /\ drained \in BOOLEAN
    OBVIOUS
  <2>2. /\ call \in [Closers -> {"idle", "in", "returned"}]
        /\ done \in [Kinds -> BOOLEAN]
    OBVIOUS
  <2>3. /\ ppc \in [Kinds -> CallbackSteps] /\ ppc["video"] = "idle"
        /\ ppc["audio"] = "idle"
    BY DEF CallbackSteps, Kinds
  <2>4. queue \in [Kinds -> Seq(Nat \ {0})] /\ \A k \in Kinds : Len(queue[k]) <= QueueSize
    BY QueueAssumption
  <2>5. \A k \in Kinds : /\ hand[k] # 0 <=> ppc[k] \in Copying
                         /\ taken[k] # 0 <=> loop[k] = "write"
    BY DEF Copying
  <2>6. /\ hand \in [Kinds -> Nat] /\ made \in [Kinds -> Nat] /\ taken \in [Kinds -> Nat]
        /\ seen \in [Kinds -> Nat] /\ pipe \in [Kinds -> {"none", "open", "closed"}]
        /\ loop \in [Kinds -> {"none", "select", "write", "done"}]
    OBVIOUS
  <2>. QED
    BY <2>1, <2>2, <2>3, <2>4, <2>5, <2>6 DEF Types, TypeOK, Copying
<1>2. InCaptureOrder
  BY DEF InCaptureOrder, InOrder, Increasing, Elements
<1>3. Opened /\ Unwound
  BY DEF Opened, Unwound, Building, Undoing, Ended, Shut, PastPipes, PastVideo,
         PastJoins, PastFree, WinOnly, Stopping, Kinds
<1>4. Stopped
  BY DEF Stopped, Copying, Kinds
<1>. QED
  BY <1>1, <1>2, <1>3, <1>4 DEF IInv

-----------------------------------------------------------------------------
(* The callbacks                                                           *)

\* Afterwards the callback of k is at p with chunk h, m chunks of k were captured
\* and its queue is q.
Acts(k, p, h, m, q) ==
    /\ ppc' = [ppc EXCEPT ![k] = p] /\ hand' = [hand EXCEPT ![k] = h]
    /\ made' = [made EXCEPT ![k] = m] /\ queue' = [queue EXCEPT ![k] = q]

\* What a step of a callback has to keep in range.
LEMMA ActsTypes ==
    ASSUME Types, NEW k \in Kinds, NEW p \in CallbackSteps, NEW h \in Nat, NEW m \in Nat,
           NEW q \in Seq(Nat \ {0}), Len(q) <= QueueSize, Acts(k, p, h, m, q),
           UNCHANGED <<platform, opc, audio, registered, native, done, loopVars, pipe,
                       closeVars, stopping, revoked, thread, macStream>>,
           ready' \in BOOLEAN, drained' \in BOOLEAN, inFlight' \in 0..1,
           k = "audio" => /\ p \in (Copying \ {"size"}) \cup {"idle"}
                          /\ inFlight' = inFlight,
           h # 0 <=> p \in Copying,
           platform = "windows" /\ k = "video" /\ p # "undefined" =>
               (p \in Copying \cup {"reset", "retest", "release"} <=> inFlight' = 1),
           platform = "darwin" => p = "idle" \/ \A j \in Kinds \ {k} : ppc[j] = "idle"
    PROVE  Types'
<1>1. /\ ppc' \in [Kinds -> CallbackSteps] /\ hand' \in [Kinds -> Nat]
      /\ made' \in [Kinds -> Nat] /\ queue' \in [Kinds -> Seq(Nat \ {0})]
  BY State DEF Acts
<1>2. /\ ppc'[k] = p /\ hand'[k] = h /\ queue'[k] = q
      /\ \A j \in Kinds \ {k} :
            ppc'[j] = ppc[j] /\ hand'[j] = hand[j] /\ queue'[j] = queue[j]
  BY State DEF Acts
<1>3. \A j \in Kinds : /\ Len(queue'[j]) <= QueueSize
                       /\ hand'[j] # 0 <=> ppc'[j] \in Copying
  BY <1>2, State
<1>4. /\ ppc'["video"] \in Copying \cup {"idle", "arrived", "count", "reset",
                                         "retest", "release", "signal", "undefined"}
      /\ ppc'["audio"] \in (Copying \ {"size"}) \cup {"idle"}
  BY <1>2 DEF Kinds, CallbackSteps, Types, TypeOK
<1>5. platform' = "windows" /\ ppc'["video"] # "undefined" =>
          (ppc'["video"] \in Copying \cup {"reset", "retest", "release"} <=> inFlight' = 1)
  <2>1. CASE k = "video"
    BY <1>2, <2>1
  <2>2. CASE k = "audio"
    <3>1. ppc'["video"] = ppc["video"]
      BY <1>2, <2>2 DEF Kinds
    <3>. QED
      BY <2>2, <3>1 DEF Types, TypeOK
  <2>. QED
    BY <2>1, <2>2 DEF Kinds
<1>6. platform' = "darwin" => ppc'["video"] = "idle" \/ ppc'["audio"] = "idle"
  BY <1>2 DEF Kinds, Types, TypeOK
<1>7. /\ platform' \in {"windows", "darwin"}
      /\ opc' \in {"register", "init", "retry", "retryJoin", "unregister", "failVideo",
                   "failJoinVideo", "failAudio", "failJoinAudio", "failPipes", "start",
                   "wait", "closing", "ok", "failed"}
      /\ native' \in {"none", "built", "started", "freed"}
      /\ thread' \in {"none", "wait", "packets", "done"}
      /\ macStream' \in {"off", "on", "stopping"}
  BY DEF Types, TypeOK
<1>8. /\ audio' \in BOOLEAN /\ registered' \in BOOLEAN
      /\ stopping' \in BOOLEAN /\ revoked' \in BOOLEAN
  BY DEF Types, TypeOK
<1>9. /\ done' \in [Kinds -> BOOLEAN]
      /\ loop' \in [Kinds -> {"none", "select", "write", "done"}]
      /\ taken' \in [Kinds -> Nat] /\ \A j \in Kinds : taken'[j] # 0 <=> loop'[j] = "write"
      /\ pipe' \in [Kinds -> {"none", "open", "closed"}] /\ seen' \in [Kinds -> Nat]
  BY State
<1>10. /\ upc' \in {"idle", "unregister", "pipes", "closeVideo", "joinVideo",
                    "closeAudio", "joinAudio", "stop", "revoke", "drain", "drainWait",
                    "join", "free", "done"}
       /\ call' \in [Closers -> {"idle", "in", "returned"}]
  BY DEF Types, TypeOK
<1>. QED
  BY <1>1, <1>3, <1>4, <1>5, <1>6, <1>7, <1>8, <1>9, <1>10 DEF Types, TypeOK

\* What a step of a callback has to keep in order and, on Windows, of the session.
LEMMA InvActs ==
    ASSUME IInv, NEW k \in Kinds, NEW p, NEW h, NEW m, NEW q,
           Acts(k, p, h, m, q), Types', InOrder(seen[k], taken[k], q, h, m),
           UNCHANGED <<platform, opc, audio, registered, native, done, loopVars, pipe,
                       closeVars, stopping, revoked, thread, macStream>>,
           k = "audio" => drained' = drained,
           platform = "windows" /\ k = "video" =>
               /\ p \in Copying \cup {"retest", "release", "signal"} => ~drained'
               /\ upc \in {"join", "free", "done"} => p \notin Copying
    PROVE  IInv'
<1>1. Types /\ InCaptureOrder /\ Opened /\ Unwound /\ Stopped
  BY DEF IInv
<1>2. /\ ppc'[k] = p /\ hand'[k] = h /\ made'[k] = m /\ queue'[k] = q
      /\ \A j \in Kinds \ {k} : /\ ppc'[j] = ppc[j] /\ hand'[j] = hand[j]
                                /\ made'[j] = made[j] /\ queue'[j] = queue[j]
  BY <1>1, State DEF Acts
<1>3. InCaptureOrder'
  BY <1>1, <1>2 DEF InCaptureOrder
<1>4. Opened' /\ Unwound'
  BY <1>1 DEF Opened, Unwound, Ended, Shut, Released, PastPipes, PastVideo, PastJoins,
              PastFree, WinOnly, Stopping
<1>5. Stopped'
  <2>1. CASE k = "video"
    BY <1>1, <1>2, <2>1 DEF Stopped, AudioRuns
  <2>2. CASE k = "audio"
    <3>1. ppc'["video"] = ppc["video"]
      BY <1>2, <2>2 DEF Kinds
    <3>. QED
      BY <1>1, <2>2, <3>1 DEF Stopped, AudioRuns
  <2>. QED
    BY <2>1, <2>2 DEF Kinds
<1>. QED
  BY <1>3, <1>4, <1>5 DEF IInv

\* A callback goes on with its chunk, and may replace the queue.
LEMMA InvStay ==
    ASSUME IInv, NEW k \in Kinds, ppc[k] \in Copying,
           NEW p \in Copying, k = "audio" => p # "size",
           NEW q \in Seq(Nat \ {0}), Len(q) <= QueueSize,
           InOrder(seen[k], taken[k], q, hand[k], made[k]),
           ppc' = [ppc EXCEPT ![k] = p], queue' = [queue EXCEPT ![k] = q],
           ready' \in {ready, TRUE},
           UNCHANGED <<platform, opc, audio, registered, native, hand, made, done,
                       loopVars, pipe, closeVars, winVars, macStream>>
    PROVE  IInv'
<1>1. Types /\ Stopped
  BY DEF IInv
<1>2. hand[k] \in Nat /\ made[k] \in Nat /\ (hand[k] # 0 <=> p \in Copying)
  BY <1>1, State
<1>3. Acts(k, p, hand[k], made[k], q)
  BY <1>1, State DEF Acts
<1>4. Types'
  <2>1. ready \in BOOLEAN /\ drained \in BOOLEAN /\ inFlight \in 0..1
    BY <1>1 DEF Types, TypeOK
  <2>2. ready' \in BOOLEAN /\ drained' \in BOOLEAN /\ inFlight' \in 0..1
    BY <2>1
  <2>3. platform = "windows" /\ k = "video" => inFlight' = 1
    BY <1>1 DEF Types, TypeOK, Copying
  <2>4. platform = "darwin" => \A j \in Kinds \ {k} : ppc[j] = "idle"
    BY <1>1 DEF Types, TypeOK, Copying, Kinds
  <2>5. p \in CallbackSteps
    BY DEF CallbackSteps
  <2>. QED
    BY <1>1, <1>2, <1>3, <2>2, <2>3, <2>4, <2>5, ActsTypes
<1>5. platform = "windows" /\ k = "video" =>
          ~drained' /\ upc \notin {"join", "free", "done"}
  BY <1>1 DEF Stopped
<1>. QED
  BY <1>2, <1>3, <1>4, <1>5, InvActs

\* A callback leaves without its chunk, which the queue may have.
LEMMA InvLeave ==
    ASSUME IInv, NEW k \in Kinds, ppc[k] \in Copying, Leave(k),
           NEW q \in Seq(Nat \ {0}), Len(q) <= QueueSize,
           InOrder(seen[k], taken[k], q, 0, made[k]),
           queue' = [queue EXCEPT ![k] = q],
           UNCHANGED <<platform, opc, audio, registered, ready, native, made, done,
                       loopVars, pipe, closeVars, winVars, macStream>>
    PROVE  IInv'
<1>1. Types /\ Stopped
  BY DEF IInv
<1>. DEFINE p == IF platform = "windows" /\ k = "video" THEN "release" ELSE "idle"
<1>2. Acts(k, p, 0, made[k], q)
  BY <1>1, State DEF Acts, Leave
<1>3. /\ p \in CallbackSteps /\ p \notin Copying /\ made[k] \in Nat
      /\ platform = "windows" /\ k = "video" => p = "release"
      /\ ~(platform = "windows" /\ k = "video") => p = "idle"
  BY <1>1, State DEF CallbackSteps, Copying
<1>. HIDE DEF p
<1>4. Types'
  <2>1. ready \in BOOLEAN /\ drained \in BOOLEAN /\ inFlight \in 0..1
    BY <1>1 DEF Types, TypeOK
  <2>2. ready' \in BOOLEAN /\ drained' \in BOOLEAN /\ inFlight' \in 0..1
    BY <2>1
  <2>3. platform = "windows" /\ k = "video" => inFlight' = 1
    BY <1>1 DEF Types, TypeOK, Copying
  <2>. QED
    BY <1>1, <1>2, <1>3, <2>2, <2>3, ActsTypes
<1>5. platform = "windows" /\ k = "video" => ~drained' /\ p \notin Copying
  BY <1>1, <1>3 DEF Stopped
<1>. QED
  BY <1>2, <1>4, <1>5, InvActs

\* Every step from the lookup to the end of Enqueue.
LEMMA InvDeliver ==
    ASSUME IInv, NEW k \in Kinds, Deliver(k), Either
    PROVE  IInv'
<1>1. Types /\ InCaptureOrder
  BY DEF IInv
<1>2. /\ queue[k] \in Seq(Nat \ {0}) /\ queue[k] \in Seq(Nat) /\ Len(queue[k]) \in Nat
      /\ Len(queue[k]) <= QueueSize /\ queue = [queue EXCEPT ![k] = queue[k]]
      /\ seen[k] \in Nat /\ taken[k] \in Nat /\ hand[k] \in Nat /\ made[k] \in Nat
      /\ InOrder(seen[k], taken[k], queue[k], hand[k], made[k])
      /\ ppc \in [Kinds -> CallbackSteps]
  BY <1>1, State, QueueOfNumbers DEF InCaptureOrder
<1>3. UNCHANGED <<platform, opc, audio, registered, native, made, done, loopVars, pipe,
                  closeVars, winVars, macStream>>
  BY DEF Deliver, Lookup, FirstFrame, EnqueueCheck, EnqueueSend, EnqueueFull,
         EnqueueDrop, Either
<1>4. ppc[k] \in Copying
  BY DEF Deliver, Lookup, FirstFrame, EnqueueCheck, EnqueueSend, EnqueueFull,
         EnqueueDrop, CallbackGo, Copying
<1>5. InOrder(seen[k], taken[k], queue[k], 0, made[k])
  BY <1>2, OrderLeave
<1>6. CASE Lookup(k) \/ EnqueueCheck(k)
  <2>1. UNCHANGED <<ready, queue>>
    BY <1>6 DEF Lookup, EnqueueCheck
  <2>2. CASE Leave(k)
    BY <1>2, <1>3, <1>4, <1>5, <2>1, <2>2, InvLeave
  <2>3. ASSUME NEW p \in {"size", "check", "offer"}, k = "audio" => p # "size",
               ppc' = [ppc EXCEPT ![k] = p], UNCHANGED hand
        PROVE  IInv'
    <3>1. p \in Copying
      BY DEF Copying
    <3>. QED
      BY <1>2, <1>3, <1>4, <2>1, <2>3, <3>1, InvStay
  <2>. QED
    BY <1>6, <2>2, <2>3 DEF Lookup, EnqueueCheck, CallbackGo, Kinds
<1>7. CASE k = "video" /\ FirstFrame
  <2>1. /\ ppc' = [ppc EXCEPT ![k] = "check"] /\ ready' = TRUE /\ UNCHANGED <<hand, queue>>
    BY <1>7 DEF FirstFrame, CallbackGo
  <2>2. "check" \in Copying
    BY DEF Copying
  <2>. QED
    BY <1>2, <1>3, <1>4, <2>1, <2>2, InvStay
<1>8. CASE EnqueueSend(k)
  <2>. DEFINE q == Append(queue[k], hand[k])
  <2>1. /\ Leave(k) /\ queue' = [queue EXCEPT ![k] = q] /\ Len(queue[k]) < QueueSize
        /\ UNCHANGED ready
    BY <1>8, <1>2 DEF EnqueueSend
  <2>2. hand[k] \in Nat \ {0}
    BY <1>1, <1>2, <1>4, State
  <2>3. q \in Seq(Nat \ {0}) /\ Len(q) = Len(queue[k]) + 1
    BY <1>2, <2>2
  <2>4. Len(q) <= QueueSize
    BY <1>2, <2>1, <2>3, QueueAssumption
  <2>5. InOrder(seen[k], taken[k], q, 0, made[k])
    BY <1>2, <2>2, OrderSend
  <2>. HIDE DEF q
  <2>. QED
    BY <1>3, <1>4, <2>1, <2>3, <2>4, <2>5, InvLeave
<1>9. CASE EnqueueFull(k)
  <2>1. ppc' = [ppc EXCEPT ![k] = "drop"] /\ UNCHANGED <<ready, hand, queue>>
    BY <1>9 DEF EnqueueFull, CallbackGo
  <2>2. "drop" \in Copying
    BY DEF Copying
  <2>. QED
    BY <1>2, <1>3, <1>4, <2>1, <2>2, InvStay
<1>10. CASE EnqueueDrop(k)
  <2>. DEFINE q == IF queue[k] = <<>> THEN queue[k] ELSE Tail(queue[k])
  <2>1. /\ ppc' = [ppc EXCEPT ![k] = "retry"] /\ queue' = [queue EXCEPT ![k] = q]
        /\ UNCHANGED <<ready, hand>>
    BY <1>10 DEF EnqueueDrop, CallbackGo
  <2>2. "retry" \in Copying
    BY DEF Copying
  <2>3. /\ q \in Seq(Nat \ {0}) /\ Len(q) <= QueueSize
        /\ InOrder(seen[k], taken[k], q, hand[k], made[k])
    <3>1. CASE queue[k] = <<>>
      BY <1>2, <3>1
    <3>2. CASE queue[k] # <<>>
      <4>1. q = Tail(queue[k])
        BY <3>2
      <4>2. Tail(queue[k]) \in Seq(Nat \ {0}) /\ Len(Tail(queue[k])) = Len(queue[k]) - 1
        BY <1>2, <3>2
      <4>3. Len(Tail(queue[k])) <= QueueSize
        BY <1>2, <4>2, QueueAssumption
      <4>4. InOrder(seen[k], taken[k], Tail(queue[k]), hand[k], made[k])
        BY <1>2, <3>2, OrderDrop
      <4>. QED
        BY <4>1, <4>2, <4>3, <4>4
    <3>. QED
      BY <3>1, <3>2
  <2>. HIDE DEF q
  <2>. QED
    BY <1>3, <1>4, <2>1, <2>2, <2>3, InvStay
<1>. QED
  BY <1>6, <1>7, <1>8, <1>9, <1>10 DEF Deliver


-----------------------------------------------------------------------------
(* The native side of a callback                                           *)

\* A step of the frame callback's guard that leaves the chunks alone.
LEMMA InvGuard ==
    ASSUME IInv, platform = "windows",
           NEW p \in CallbackSteps \ Copying, ppc["video"] \notin Copying,
           ppc' = [ppc EXCEPT !["video"] = p],
           UNCHANGED <<openVars, native, hand, made, queueVars, loopVars, pipe,
                       closeVars, stopping, revoked, thread, macStream>>,
           drained' \in BOOLEAN, inFlight' \in 0..1,
           p # "undefined" => (p \in {"reset", "retest", "release"} <=> inFlight' = 1),
           p \in {"retest", "release", "signal"} => ~drained'
    PROVE  IInv'
<1>1. Types /\ InCaptureOrder
  BY DEF IInv
<1>2. /\ "video" \in Kinds
      /\ hand["video"] \in Nat /\ made["video"] \in Nat /\ hand["video"] = 0
      /\ queue["video"] \in Seq(Nat \ {0}) /\ Len(queue["video"]) <= QueueSize
      /\ InOrder(seen["video"], taken["video"], queue["video"], hand["video"],
                 made["video"])
  BY <1>1, State DEF InCaptureOrder, Kinds
<1>3. Acts("video", p, hand["video"], made["video"], queue["video"])
  BY <1>1, State DEF Acts
<1>4. Types'
  <2>1. ready' \in BOOLEAN
    BY <1>1 DEF Types, TypeOK
  <2>2. hand["video"] # 0 <=> p \in Copying
    BY <1>2
  <2>3. p # "undefined" =>
            (p \in Copying \cup {"reset", "retest", "release"} <=> inFlight' = 1)
    OBVIOUS
  <2>. QED
    BY <1>1, <1>2, <1>3, <2>1, <2>2, <2>3, ActsTypes
<1>. QED
  BY <1>2, <1>3, <1>4, InvActs

\* A chunk is captured by a callback that had none.
LEMMA InvCapture ==
    ASSUME IInv, NEW k \in Kinds, ppc[k] \notin Copying,
           ppc' = [ppc EXCEPT ![k] = "lookup"],
           made' = [made EXCEPT ![k] = @ + 1], hand' = [hand EXCEPT ![k] = made'[k]],
           UNCHANGED <<openVars, native, queueVars, loopVars, pipe, closeVars, winVars,
                       macStream>>,
           platform = "windows" /\ k = "video" => ppc[k] = "retest" /\ ~stopping,
           platform = "darwin" => \A j \in Kinds \ {k} : ppc[j] = "idle"
    PROVE  IInv'
<1>1. Types /\ InCaptureOrder /\ Stopped
  BY DEF IInv
<1>2. /\ hand[k] = 0 /\ made[k] \in Nat /\ made'[k] = made[k] + 1
      /\ seen[k] \in Nat /\ taken[k] \in Nat
      /\ queue[k] \in Seq(Nat \ {0}) /\ Len(queue[k]) <= QueueSize
      /\ queue[k] \in Seq(Nat)
      /\ InOrder(seen[k], taken[k], queue[k], 0, made[k])
  BY <1>1, State, QueueOfNumbers DEF InCaptureOrder
<1>3. Acts(k, "lookup", made[k] + 1, made[k] + 1, queue[k])
  BY <1>1, <1>2, State DEF Acts
<1>4. InOrder(seen[k], taken[k], queue[k], made[k] + 1, made[k] + 1)
  BY <1>2, OrderCapture
<1>5. platform = "windows" /\ k = "video" =>
          ~drained' /\ upc \notin {"join", "free", "done"} /\ inFlight' = 1
  BY <1>1 DEF Stopped, Types, TypeOK
<1>6. Types'
  <2>1. /\ ready' \in BOOLEAN /\ drained' \in BOOLEAN /\ inFlight' \in 0..1
    BY <1>1 DEF Types, TypeOK
  <2>2. "lookup" \in Copying /\ "lookup" \in CallbackSteps /\ "lookup" # "size"
    BY DEF Copying, CallbackSteps
  <2>3. made[k] + 1 \in Nat /\ made[k] + 1 # 0
    BY <1>2
  <2>. QED
    BY <1>1, <1>2, <1>3, <1>5, <2>1, <2>2, <2>3, ActsTypes
<1>. QED
  BY <1>3, <1>4, <1>5, <1>6, InvActs

\* The frame callback of Windows from its arrival to its last use of the session.
LEMMA InvFrameGuard ==
    ASSUME IInv, IsWindows, FrameGuard
    PROVE  IInv'
<1>1. Types /\ Stopped /\ platform = "windows" /\ UNCHANGED macStream
  BY DEF IInv, IsWindows
<1>2. /\ drained \in BOOLEAN /\ inFlight \in 0..1
      /\ ppc["video"] # "undefined" =>
             (ppc["video"] \in Copying \cup {"reset", "retest", "release"}
                  <=> inFlight = 1)
      /\ ppc["video"] \in Copying \cup {"retest", "release", "signal"} => ~drained
  BY <1>1 DEF Types, TypeOK, Stopped
<1>3. CASE FrameTest
  <2>1. \E p \in {"idle", "count"} : ppc' = [ppc EXCEPT !["video"] = p]
    BY <1>3 DEF FrameTest, CallbackGo
  <2>. QED
    BY <1>1, <1>2, <1>3, <2>1, InvGuard DEF FrameTest, CallbackGo, CallbackSteps, Copying
<1>4. CASE FrameCount
  <2>1. inFlight = 0
    BY <1>2, <1>4 DEF FrameCount, CallbackGo, Copying
  <2>2. inFlight' = 1 /\ ppc' = [ppc EXCEPT !["video"] = "reset"]
    BY <1>4, <2>1 DEF FrameCount, CallbackGo
  <2>3. drained' \in BOOLEAN
    BY <1>2, <1>4 DEF FrameCount
  <2>4. /\ UNCHANGED <<openVars, native, hand, made, queueVars, loopVars, pipe,
                       closeVars, stopping, revoked, thread>>
        /\ ppc["video"] \notin Copying
    BY <1>4 DEF FrameCount, CallbackGo, Copying
  <2>5. "reset" \in CallbackSteps \ Copying /\ inFlight' \in 0..1
    BY <2>2 DEF CallbackSteps, Copying
  <2>. QED
    BY <1>1, <2>2, <2>3, <2>4, <2>5, InvGuard
<1>5. CASE FrameReset
  <2>1. drained' \in BOOLEAN /\ ~drained'
    BY <1>5 DEF FrameReset
  <2>. QED
    BY <1>1, <1>2, <1>5, <2>1, InvGuard DEF FrameReset, CallbackGo, CallbackSteps, Copying
<1>6. CASE FrameRetest
  <2>1. /\ Alive /\ ppc["video"] = "retest"
        /\ UNCHANGED <<openVars, native, queueVars, loopVars, pipe, closeVars, winVars>>
    BY <1>6 DEF FrameRetest, CallbackGo
  <2>2. CASE UNCHANGED <<made, hand>> /\ ppc' = [ppc EXCEPT !["video"] = "release"]
    BY <1>1, <1>2, <2>1, <2>2, InvGuard DEF CallbackSteps, Copying
  <2>3. CASE /\ ~stopping /\ ppc' = [ppc EXCEPT !["video"] = "lookup"]
             /\ made' = [made EXCEPT !["video"] = @ + 1]
             /\ hand' = [hand EXCEPT !["video"] = made'["video"]]
    BY <1>1, <1>2, <2>1, <2>3, InvCapture DEF Copying, Kinds
  <2>. QED
    BY <1>6, <2>2, <2>3 DEF FrameRetest, CallbackGo
<1>7. CASE FrameRelease
  <2>1. inFlight = 1 /\ ~drained
    BY <1>2, <1>7 DEF FrameRelease, CallbackGo
  <2>2. /\ inFlight' = 0 /\ ppc' = [ppc EXCEPT !["video"] = "signal"]
        /\ UNCHANGED <<openVars, native, hand, made, queueVars, loopVars, pipe,
                       closeVars, stopping, revoked, thread>>
    BY <1>7, <2>1 DEF FrameRelease, CallbackGo
  <2>3. drained' \in BOOLEAN /\ inFlight' \in 0..1
    BY <1>2, <1>7, <2>2 DEF FrameRelease
  <2>4. ~drained' /\ ppc["video"] \notin Copying
    BY <1>7, <2>1 DEF FrameRelease, CallbackGo, Copying
  <2>5. "signal" \in CallbackSteps \ Copying
    BY DEF CallbackSteps, Copying
  <2>6. "signal" # "undefined" =>
            ("signal" \in {"reset", "retest", "release"} <=> inFlight' = 1)
    BY <2>2
  <2>. DEFINE p == "signal"
  <2>. HIDE DEF p
  <2>7. /\ p \in CallbackSteps \ Copying /\ ppc' = [ppc EXCEPT !["video"] = p]
        /\ p # "undefined" => (p \in {"reset", "retest", "release"} <=> inFlight' = 1)
    BY <2>2, <2>5, <2>6 DEF p
  <2>. QED
    BY <1>1, <2>2, <2>3, <2>4, <2>7, InvGuard
<1>8. CASE FrameSignal
  <2>1. drained' \in BOOLEAN
    BY <1>8 DEF FrameSignal
  <2>. QED
    BY <1>1, <1>2, <1>8, <2>1, InvGuard DEF FrameSignal, CallbackGo, CallbackSteps, Copying
<1>9. CASE FrameTouchesFreed
  <2>1. /\ ppc["video"] \notin Copying /\ ppc' = [ppc EXCEPT !["video"] = "undefined"]
        /\ UNCHANGED <<openVars, native, hand, made, queueVars, loopVars, pipe,
                       closeVars, winVars>>
    BY <1>9 DEF FrameTouchesFreed, CallbackGo, Copying
  <2>2. drained' \in BOOLEAN /\ inFlight' \in 0..1
    BY <1>2, <2>1
  <2>. QED
    BY <1>1, <2>1, <2>2, InvGuard DEF CallbackSteps, Copying
<1>. QED
  BY <1>3, <1>4, <1>5, <1>6, <1>7, <1>8, <1>9 DEF FrameGuard

\* A callback of the audio thread or of an SCStream begins with its chunk, and the
\* frame callback of Windows without.
LEMMA InvNativeCallback ==
    ASSUME IInv,
           \/ IsWindows /\ (FrameArrived \/ AudioPacket)
           \/ IsDarwin /\ \E k \in Kinds : MacSample(k)
    PROVE  IInv'
<1>1. Types
  BY DEF IInv
<1>2. CASE IsWindows /\ FrameArrived
  <2>1. /\ platform = "windows" /\ ppc["video"] = "idle"
        /\ ppc' = [ppc EXCEPT !["video"] = "arrived"]
        /\ UNCHANGED <<openVars, native, hand, made, queueVars, loopVars, pipe,
                       closeVars, winVars, macStream>>
    BY <1>2 DEF IsWindows, FrameArrived, CallbackGo
  <2>2. inFlight \in 0..1 /\ inFlight # 1 /\ drained \in BOOLEAN
    BY <1>1, <2>1 DEF Types, TypeOK, Copying
  <2>3. /\ "arrived" \in CallbackSteps \ Copying /\ ppc["video"] \notin Copying
        /\ inFlight' \in 0..1 /\ drained' \in BOOLEAN /\ inFlight' # 1
    BY <2>1, <2>2 DEF CallbackSteps, Copying
  <2>. QED
    BY <2>1, <2>3, InvGuard
<1>3. CASE IsWindows /\ AudioPacket
  <2>1. /\ ppc["audio"] = "idle" /\ ppc' = [ppc EXCEPT !["audio"] = "lookup"]
        /\ made' = [made EXCEPT !["audio"] = @ + 1]
        /\ hand' = [hand EXCEPT !["audio"] = made'["audio"]]
        /\ UNCHANGED <<openVars, native, queueVars, loopVars, pipe, closeVars, winVars,
                       macStream>>
        /\ platform = "windows"
    BY <1>3 DEF IsWindows, AudioPacket, CallbackGo
  <2>2. "audio" \in Kinds /\ ppc["audio"] \notin Copying
    BY <2>1 DEF Kinds, Copying
  <2>. QED
    BY <2>1, <2>2, InvCapture
<1>4. ASSUME NEW k \in Kinds, IsDarwin, MacSample(k)
      PROVE  IInv'
  <2>1. /\ \A j \in Kinds : ppc[j] = "idle"
        /\ ppc' = [ppc EXCEPT ![k] = "lookup"]
        /\ made' = [made EXCEPT ![k] = @ + 1]
        /\ hand' = [hand EXCEPT ![k] = made'[k]]
        /\ UNCHANGED <<openVars, native, queueVars, loopVars, pipe, closeVars, winVars,
                       macStream>>
        /\ platform = "darwin"
    BY <1>4 DEF IsDarwin, MacSample, CallbackGo
  <2>2. ppc[k] \notin Copying
    BY <2>1 DEF Copying
  <2>. QED
    BY <2>1, <2>2, InvCapture
<1>. QED
  BY <1>2, <1>3, <1>4

-----------------------------------------------------------------------------
(* The loops and the consumer                                              *)

\* Afterwards the loop of k is at l with chunk t, s is the last chunk read and q
\* the queue.
Moves(k, l, t, s, q) ==
    /\ loop' = [loop EXCEPT ![k] = l] /\ taken' = [taken EXCEPT ![k] = t]
    /\ seen' = [seen EXCEPT ![k] = s] /\ queue' = [queue EXCEPT ![k] = q]

\* What a step of a loop that has not ended has to keep.
LEMMA InvMoves ==
    ASSUME IInv, NEW k \in Kinds, loop[k] \in {"select", "write"},
           NEW l \in {"select", "write", "done"}, NEW t \in Nat, NEW s \in Nat,
           NEW q \in Seq(Nat \ {0}), Len(q) <= QueueSize, Moves(k, l, t, s, q),
           t # 0 <=> l = "write", InOrder(s, t, q, hand[k], made[k]),
           UNCHANGED <<openVars, native, prodVars, done, pipe, closeVars, winVars,
                       macStream>>
    PROVE  IInv'
<1>1. Types /\ InCaptureOrder /\ Opened /\ Unwound /\ Stopped
  BY DEF IInv
<1>2. /\ loop'[k] = l /\ taken'[k] = t /\ seen'[k] = s /\ queue'[k] = q
      /\ \A j \in Kinds \ {k} : /\ loop'[j] = loop[j] /\ taken'[j] = taken[j]
                                /\ seen'[j] = seen[j] /\ queue'[j] = queue[j]
  BY <1>1, State DEF Moves
<1>3. Types'
  <2>1. /\ loop' \in [Kinds -> {"none", "select", "write", "done"}]
        /\ taken' \in [Kinds -> Nat] /\ seen' \in [Kinds -> Nat]
        /\ queue' \in [Kinds -> Seq(Nat \ {0})]
    BY <1>1, State DEF Moves
  <2>2. \A j \in Kinds : Len(queue'[j]) <= QueueSize /\ (taken'[j] # 0 <=> loop'[j] = "write")
    BY <1>1, <1>2, State
  <2>3. /\ platform' \in {"windows", "darwin"}
        /\ opc' \in {"register", "init", "retry", "retryJoin", "unregister", "failVideo",
                     "failJoinVideo", "failAudio", "failJoinAudio", "failPipes", "start",
                     "wait", "closing", "ok", "failed"}
        /\ native' \in {"none", "built", "started", "freed"}
        /\ thread' \in {"none", "wait", "packets", "done"}
        /\ macStream' \in {"off", "on", "stopping"}
    BY <1>1 DEF Types, TypeOK
  <2>4. /\ audio' \in BOOLEAN /\ registered' \in BOOLEAN /\ ready' \in BOOLEAN
        /\ stopping' \in BOOLEAN /\ revoked' \in BOOLEAN /\ drained' \in BOOLEAN
    BY <1>1 DEF Types, TypeOK
  <2>5. /\ inFlight' \in 0..1 /\ ppc' = ppc /\ hand' = hand /\ platform' = platform
        /\ inFlight' = inFlight
    BY <1>1 DEF Types, TypeOK
  <2>6. /\ ppc' \in [Kinds -> CallbackSteps] /\ hand' \in [Kinds -> Nat]
        /\ made' \in [Kinds -> Nat] /\ done' \in [Kinds -> BOOLEAN]
        /\ pipe' \in [Kinds -> {"none", "open", "closed"}]
        /\ \A j \in Kinds : hand'[j] # 0 <=> ppc'[j] \in Copying
    BY <1>1, State
  <2>7. /\ upc' \in {"idle", "unregister", "pipes", "closeVideo", "joinVideo",
                     "closeAudio", "joinAudio", "stop", "revoke", "drain", "drainWait",
                     "join", "free", "done"}
        /\ call' \in [Closers -> {"idle", "in", "returned"}]
    BY <1>1 DEF Types, TypeOK
  <2>. QED
    BY <1>1, <2>1, <2>2, <2>3, <2>4, <2>5, <2>6, <2>7 DEF Types, TypeOK
<1>4. InCaptureOrder'
  BY <1>1, <1>2 DEF InCaptureOrder
<1>5. Opened' /\ Unwound'
  <2>1. \A j \in Kinds : Ended(j) => Ended(j)'
    BY <1>2 DEF Ended
  <2>2. \A j \in Kinds : Shut(j) => Shut(j)'
    BY DEF Shut
  <2>3. Released => Released'
    BY <2>1, <2>2 DEF Released, Ended, Shut
  <2>4. PastPipes' = PastPipes /\ PastVideo' = PastVideo /\ PastJoins' = PastJoins
        /\ PastFree' = PastFree
    BY DEF PastPipes, PastVideo, PastJoins, PastFree, WinOnly, Stopping
  <2>. QED
    BY <1>1, <2>1, <2>2, <2>3, <2>4 DEF Opened, Unwound, Kinds
<1>6. Stopped'
  BY <1>1 DEF Stopped, AudioRuns
<1>. QED
  BY <1>3, <1>4, <1>5, <1>6 DEF IInv

\* The loop stops, takes or fails, and the consumer reads.
LEMMA InvLoop ==
    ASSUME IInv, NEW k \in Kinds, Loop(k) \/ Consume(k), Either
    PROVE  IInv'
<1>1. Types /\ InCaptureOrder
  BY DEF IInv
<1>2. /\ queue[k] \in Seq(Nat \ {0}) /\ queue[k] \in Seq(Nat) /\ Len(queue[k]) \in Nat
      /\ Len(queue[k]) <= QueueSize
      /\ seen[k] \in Nat /\ taken[k] \in Nat /\ hand[k] \in Nat /\ made[k] \in Nat
      /\ InOrder(seen[k], taken[k], queue[k], hand[k], made[k])
      /\ taken[k] # 0 <=> loop[k] = "write"
      /\ queue = [queue EXCEPT ![k] = queue[k]] /\ taken = [taken EXCEPT ![k] = taken[k]]
      /\ seen = [seen EXCEPT ![k] = seen[k]]
  BY <1>1, State, QueueOfNumbers DEF InCaptureOrder
<1>3. UNCHANGED <<openVars, native, prodVars, done, pipe, closeVars, winVars, macStream>>
  BY DEF Loop, LoopStop, LoopTake, LoopFail, Consume, Either
<1>4. CASE LoopStop(k)
  <2>1. loop[k] = "select" /\ Moves(k, "done", taken[k], seen[k], queue[k])
    BY <1>2, <1>4 DEF LoopStop, Moves
  <2>. QED
    BY <1>2, <1>3, <2>1, InvMoves
<1>5. CASE LoopTake(k)
  <2>. DEFINE h == Head(queue[k])
              q == Tail(queue[k])
  <2>1. /\ loop[k] = "select" /\ Moves(k, "write", h, seen[k], q)
        /\ queue[k] # <<>>
    BY <1>2, <1>5 DEF LoopTake, Moves
  <2>2. /\ h \in Nat \ {0} /\ q \in Seq(Nat \ {0}) /\ Len(q) = Len(queue[k]) - 1
    BY <1>2, <2>1
  <2>3. Len(q) <= QueueSize
    BY <1>2, <2>2, QueueAssumption
  <2>4. taken[k] = 0
    BY <1>2, <2>1
  <2>5. InOrder(seen[k], h, q, hand[k], made[k])
    BY <1>2, <2>1, <2>4, OrderTake
  <2>. HIDE DEF h, q
  <2>. QED
    BY <1>3, <2>1, <2>2, <2>3, <2>5, <1>2, InvMoves
<1>6. CASE LoopFail(k)
  <2>1. loop[k] = "write" /\ Moves(k, "done", 0, seen[k], queue[k])
    BY <1>2, <1>6 DEF LoopFail, Moves
  <2>2. InOrder(seen[k], 0, queue[k], hand[k], made[k])
    BY <1>2, <2>1, OrderRead
  <2>. QED
    BY <1>2, <1>3, <2>1, <2>2, InvMoves
<1>7. CASE Consume(k)
  <2>1. loop[k] = "write" /\ Moves(k, "select", 0, taken[k], queue[k])
    BY <1>2, <1>7 DEF Consume, Moves
  <2>2. InOrder(taken[k], 0, queue[k], hand[k], made[k])
    BY <1>2, <2>1, OrderRead
  <2>. QED
    BY <1>2, <1>3, <2>1, <2>2, InvMoves
<1>. QED
  BY <1>4, <1>5, <1>6, <1>7 DEF Loop

-----------------------------------------------------------------------------
(* The opener and Close                                                    *)

OpenSteps  == {"register", "init", "retry", "retryJoin", "unregister", "failVideo",
               "failJoinVideo", "failAudio", "failJoinAudio", "failPipes", "start",
               "wait", "closing", "ok", "failed"}
CloseSteps == {"idle", "unregister", "pipes", "closeVideo", "joinVideo", "closeAudio",
               "joinAudio", "stop", "revoke", "drain", "drainWait", "join", "free",
               "done"}

\* What Types says of the state the opener and Close work on.
LEMMA Ranges ==
    ASSUME Types
    PROVE  /\ opc \in OpenSteps /\ upc \in CloseSteps
           /\ audio \in BOOLEAN /\ registered \in BOOLEAN /\ ready \in BOOLEAN
           /\ stopping \in BOOLEAN /\ revoked \in BOOLEAN
           /\ native \in {"none", "built", "started", "freed"}
           /\ thread \in {"none", "wait", "packets", "done"}
           /\ macStream \in {"off", "on", "stopping"}
           /\ call \in [Closers -> {"idle", "in", "returned"}]
           /\ platform \in {"windows", "darwin"}
  BY DEF Types, TypeOK, OpenSteps, CloseSteps

\* What a step of the opener or of Close, which handle no chunk, has to keep in
\* range.
LEMMA QuietTypes ==
    ASSUME IInv,
           UNCHANGED <<platform, prodVars, queue, taken, seen, inFlight, drained>>,
           opc' \in OpenSteps, upc' \in CloseSteps,
           audio' \in BOOLEAN, registered' \in BOOLEAN, ready' \in BOOLEAN,
           stopping' \in BOOLEAN, revoked' \in BOOLEAN,
           native' \in {"none", "built", "started", "freed"},
           thread' \in {"none", "wait", "packets", "done"},
           macStream' \in {"off", "on", "stopping"},
           done' \in [Kinds -> BOOLEAN],
           loop' \in [Kinds -> {"none", "select", "write", "done"}],
           \A k \in Kinds : loop'[k] = "write" <=> loop[k] = "write",
           pipe' \in [Kinds -> {"none", "open", "closed"}],
           call' \in [Closers -> {"idle", "in", "returned"}]
    PROVE  Types' /\ InCaptureOrder'
<1>1. Types /\ InCaptureOrder
  BY DEF IInv
<1>2. InCaptureOrder'
  BY <1>1 DEF InCaptureOrder
<1>3. /\ inFlight' \in 0..1 /\ drained' \in BOOLEAN
      /\ ppc' \in [Kinds -> CallbackSteps]
      /\ hand' \in [Kinds -> Nat] /\ made' \in [Kinds -> Nat]
      /\ queue' \in [Kinds -> Seq(Nat \ {0})]
      /\ taken' \in [Kinds -> Nat] /\ seen' \in [Kinds -> Nat]
  BY <1>1 DEF Types, TypeOK
<1>4. \A k \in Kinds : /\ Len(queue'[k]) <= QueueSize
                       /\ hand'[k] # 0 <=> ppc'[k] \in Copying
                       /\ taken'[k] # 0 <=> loop'[k] = "write"
  BY <1>1, State
<1>5. /\ platform' \in {"windows", "darwin"}
      /\ ppc'["video"] \in Copying \cup {"idle", "arrived", "count", "reset",
                                         "retest", "release", "signal", "undefined"}
      /\ ppc'["audio"] \in (Copying \ {"size"}) \cup {"idle"}
      /\ platform' = "windows" /\ ppc'["video"] # "undefined" =>
           (ppc'["video"] \in Copying \cup {"reset", "retest", "release"}
                <=> inFlight' = 1)
      /\ platform' = "darwin" => ppc'["video"] = "idle" \/ ppc'["audio"] = "idle"
  BY <1>1 DEF Types, TypeOK
<1>6. Types'
  BY <1>3, <1>4, <1>5 DEF Types, TypeOK, OpenSteps, CloseSteps
<1>. QED
  BY <1>2, <1>6

\* What is past does not depend on the opener or on Close.
LEMMA SamePast ==
    ASSUME platform' = platform
    PROVE  /\ PastPipes' = PastPipes /\ PastVideo' = PastVideo
           /\ PastJoins' = PastJoins /\ PastFree' = PastFree
  BY DEF PastPipes, PastVideo, PastJoins, PastFree, WinOnly, Stopping

\* Before Close nothing of it has happened.
LEMMA BeforeClose ==
    /\ "idle" \notin PastPipes /\ "idle" \notin PastVideo /\ "idle" \notin PastJoins
    /\ "idle" \notin PastFree
    /\ "unregister" \notin PastPipes /\ "unregister" \notin PastVideo
    /\ "unregister" \notin PastJoins /\ "unregister" \notin PastFree
    /\ "done" \in PastPipes /\ "done" \in PastVideo /\ "done" \in PastJoins
    /\ "done" \in PastFree
  BY DEF PastPipes, PastVideo, PastJoins, PastFree, WinOnly, Stopping

\* The opener before Close has begun: what of the native side it may change.
LEMMA OpenUnwound ==
    ASSUME IInv, UNCHANGED <<platform, ppc, drained, stopping>>,
           upc = "idle", upc' \in {"idle", "unregister"}, native' # "freed"
    PROVE  Unwound' /\ Stopped'
<1>1. Unwound' 
  BY SamePast, BeforeClose DEF Unwound
<1>2. Stopped'
  BY DEF IInv, Stopped
<1>. QED
  BY <1>1, <1>2

\* The opener registers the stream, and undoes it if there is no native session.
LEMMA InvQueueOpen ==
    ASSUME IInv, QueueOpen, Either
    PROVE  IInv'
<1>1. Types /\ Opened /\ Unwound /\ Stopped
  BY DEF IInv
<1>2. UNCHANGED <<platform, audio, native, prodVars, queue, taken, seen, inFlight,
                  drained, stopping, revoked, thread, macStream, ready>>
  BY DEF QueueOpen, Register, FailUnregister, FailQueues, FailPipes, WaitReady,
         WaitTimeout, WaitFail, Either
<1>3. /\ audio' \in BOOLEAN /\ ready' \in BOOLEAN
      /\ stopping' \in BOOLEAN /\ revoked' \in BOOLEAN
      /\ native' \in {"none", "built", "started", "freed"}
      /\ thread' \in {"none", "wait", "packets", "done"}
      /\ macStream' \in {"off", "on", "stopping"}
  BY <1>1, <1>2, Ranges
<1>4. CASE Register
  <2>1. /\ opc = "register" /\ opc' = "init" /\ UNCHANGED <<done, closeVars>>
        /\ upc = "idle" /\ native = "none" /\ \A k \in Kinds : Ended(k) /\ Shut(k)
        /\ \A c \in Closers : call[c] # "returned"
    BY <1>1, <1>4 DEF Register, OpenGo, Opened, Building
  <2>2. /\ pipe' = [k \in Kinds |-> IF k \in Streamed THEN "open" ELSE "none"]
        /\ loop' = [k \in Kinds |-> IF k \in Streamed THEN "select" ELSE "none"]
    BY <1>4 DEF Register
  <2>3. /\ pipe' \in [Kinds -> {"none", "open", "closed"}]
        /\ loop' \in [Kinds -> {"none", "select", "write", "done"}]
        /\ \A k \in Kinds : loop'[k] = "write" <=> loop[k] = "write"
        /\ ~audio => loop'["audio"] = "none" /\ pipe'["audio"] = "none"
    BY <2>1, <2>2 DEF Streamed, Kinds, Ended
  <2>4. registered' \in BOOLEAN
    BY <1>4 DEF Register
  <2>5. Types' /\ InCaptureOrder'
    <3>1. /\ opc' \in OpenSteps /\ upc' \in CloseSteps /\ done' \in [Kinds -> BOOLEAN]
          /\ call' \in [Closers -> {"idle", "in", "returned"}]
      BY <1>1, <2>1, Ranges, State DEF OpenSteps
    <3>. QED
      BY <1>2, <1>3, <2>3, <2>4, <3>1, QuietTypes
  <2>6. Opened'
    BY <1>2, <2>1, <2>3 DEF Opened, Building, Undoing, Ended, Shut
  <2>7. Unwound' /\ Stopped'
    BY <1>2, <2>1, OpenUnwound
  <2>. QED
    BY <2>5, <2>6, <2>7 DEF IInv
<1>5. CASE FailUnregister
  <2>1. /\ opc = "unregister" /\ opc' = "failVideo" /\ ~registered'
        /\ UNCHANGED <<done, loop, pipe, closeVars>>
        /\ upc = "idle" /\ native = "none"
    BY <1>1, <1>5 DEF FailUnregister, OpenGo, Opened, Building
  <2>2. registered' \in BOOLEAN
    BY <1>5 DEF FailUnregister
  <2>3. Types' /\ InCaptureOrder'
    <3>1. /\ opc' \in OpenSteps /\ upc' \in CloseSteps /\ done' \in [Kinds -> BOOLEAN]
          /\ call' \in [Closers -> {"idle", "in", "returned"}]
          /\ pipe' \in [Kinds -> {"none", "open", "closed"}]
          /\ loop' \in [Kinds -> {"none", "select", "write", "done"}]
      BY <1>1, <2>1, Ranges, State DEF OpenSteps
    <3>. QED
      BY <1>2, <1>3, <2>1, <2>2, <3>1, QuietTypes
  <2>4. Opened'
    BY <1>1, <1>2, <2>1 DEF Opened, Building, Undoing, Ended, Shut
  <2>5. Unwound' /\ Stopped'
    BY <1>2, <2>1, OpenUnwound
  <2>. QED
    BY <2>3, <2>4, <2>5 DEF IInv
<1>6. CASE FailQueues
  <2>1. /\ opc \in {"failVideo", "failJoinVideo", "failAudio", "failJoinAudio"}
        /\ opc' \in {"failJoinVideo", "failAudio", "failJoinAudio", "failPipes"}
        /\ opc' \in {"failAudio", "failJoinAudio", "failPipes"} =>
               opc \in {"failAudio", "failJoinAudio"} \/ loop["video"] = "done"
        /\ opc' = "failPipes" => ~audio \/ loop["audio"] = "done"
        /\ UNCHANGED <<registered, loop, pipe, closeVars>>
    BY <1>6 DEF FailQueues, OpenGo, Joined, CloseQueue
  <2>2. upc = "idle" /\ native = "none" /\ ~registered
    BY <1>1, <2>1 DEF Opened, Building, Undoing
  <2>3. done' \in [Kinds -> BOOLEAN]
    <3>1. done \in [Kinds -> BOOLEAN]
      BY <1>1, State
    <3>2. \/ done' = done \/ done' = [done EXCEPT !["video"] = TRUE]
          \/ done' = [done EXCEPT !["audio"] = TRUE]
      BY <1>6 DEF FailQueues, CloseQueue, Joined
    <3>. QED
      BY <3>1, <3>2
  <2>4. Types' /\ InCaptureOrder'
    <3>1. /\ opc' \in OpenSteps /\ upc' \in CloseSteps
          /\ call' \in [Closers -> {"idle", "in", "returned"}]
          /\ pipe' \in [Kinds -> {"none", "open", "closed"}]
          /\ loop' \in [Kinds -> {"none", "select", "write", "done"}]
      BY <1>1, <2>1, Ranges, State DEF OpenSteps
    <3>2. registered' \in BOOLEAN
      BY <1>1, <2>1, Ranges
    <3>. QED
      BY <1>2, <1>3, <2>1, <2>3, <3>1, <3>2, QuietTypes
  <2>5. Opened'
    BY <1>1, <1>2, <2>1, <2>2 DEF Opened, Building, Undoing, Ended, Shut
  <2>6. Unwound' /\ Stopped'
    BY <1>2, <2>1, <2>2, OpenUnwound
  <2>. QED
    BY <2>4, <2>5, <2>6 DEF IInv
<1>7. CASE FailPipes
  <2>1. /\ opc = "failPipes" /\ opc' = "failed"
        /\ pipe' = [k \in Kinds |-> IF k \in Streamed THEN "closed" ELSE pipe[k]]
        /\ UNCHANGED <<registered, done, loop, closeVars>>
    BY <1>7 DEF FailPipes, OpenGo, ClosePipes
  <2>2. /\ upc = "idle" /\ native = "none" /\ ~registered
        /\ Ended("video") /\ Ended("audio") /\ (~audio => Shut("audio"))
    BY <1>1, <2>1 DEF Opened, Building, Undoing
  <2>3. /\ pipe' \in [Kinds -> {"none", "open", "closed"}]
        /\ \A k \in Kinds : pipe'[k] # "open"
    BY <1>1, <2>1, <2>2, State DEF Streamed, Kinds, Shut
  <2>4. Types' /\ InCaptureOrder'
    <3>1. /\ opc' \in OpenSteps /\ upc' \in CloseSteps /\ done' \in [Kinds -> BOOLEAN]
          /\ call' \in [Closers -> {"idle", "in", "returned"}]
          /\ loop' \in [Kinds -> {"none", "select", "write", "done"}]
      BY <1>1, <2>1, Ranges, State DEF OpenSteps
    <3>2. registered' \in BOOLEAN
      BY <1>1, <2>1, Ranges
    <3>. QED
      BY <1>2, <1>3, <2>1, <2>3, <3>1, <3>2, QuietTypes
  <2>5. Opened'
    BY <1>1, <1>2, <2>1, <2>2, <2>3 DEF Opened, Building, Undoing, Ended, Shut, Released,
                                        Kinds
  <2>6. Unwound' /\ Stopped'
    BY <1>2, <2>1, <2>2, OpenUnwound
  <2>. QED
    BY <2>4, <2>5, <2>6 DEF IInv
<1>8. CASE WaitReady
  <2>1. opc = "wait" /\ opc' = "ok" /\ UNCHANGED <<registered, done, loop, pipe, closeVars>>
    BY <1>8 DEF WaitReady, OpenGo
  <2>2. Types' /\ InCaptureOrder'
    <3>1. /\ opc' \in OpenSteps /\ upc' \in CloseSteps /\ done' \in [Kinds -> BOOLEAN]
          /\ call' \in [Closers -> {"idle", "in", "returned"}]
          /\ pipe' \in [Kinds -> {"none", "open", "closed"}]
          /\ loop' \in [Kinds -> {"none", "select", "write", "done"}]
      BY <1>1, <2>1, Ranges, State DEF OpenSteps
    <3>2. registered' \in BOOLEAN
      BY <1>1, <2>1, Ranges
    <3>. QED
      BY <1>2, <1>3, <2>1, <3>1, <3>2, QuietTypes
  <2>3. Opened'
    BY <1>1, <1>2, <2>1 DEF Opened, Building, Undoing, Ended, Shut
  <2>4. Unwound' /\ Stopped'
    BY <1>1, <1>2, <2>1, SamePast DEF Unwound, Stopped, AudioRuns, Ended, Shut
  <2>. QED
    BY <2>2, <2>3, <2>4 DEF IInv
<1>9. CASE WaitTimeout
  <2>1. /\ opc = "wait" /\ opc' = "closing" /\ upc' = "unregister"
        /\ call' = [call EXCEPT ![Opener] = "in"]
        /\ UNCHANGED <<registered, done, loop, pipe>>
    BY <1>9 DEF WaitTimeout, OpenGo
  <2>2. upc = "idle" /\ native # "freed" /\ \A c \in Closers : call[c] # "returned"
    <3>1. upc = "idle"
      BY <1>1, <2>1 DEF Opened
    <3>. QED
      BY <1>1, <3>1, BeforeClose DEF Opened, Unwound
  <2>3. /\ call' \in [Closers -> {"idle", "in", "returned"}]
        /\ \A c \in Closers : call'[c] # "returned"
    BY <1>1, <2>1, <2>2, Ranges
  <2>4. Types' /\ InCaptureOrder'
    <3>1. /\ opc' \in OpenSteps /\ upc' \in CloseSteps /\ done' \in [Kinds -> BOOLEAN]
          /\ pipe' \in [Kinds -> {"none", "open", "closed"}]
          /\ loop' \in [Kinds -> {"none", "select", "write", "done"}]
      BY <1>1, <2>1, Ranges, State DEF OpenSteps, CloseSteps
    <3>2. registered' \in BOOLEAN
      BY <1>1, <2>1, Ranges
    <3>. QED
      BY <1>2, <1>3, <2>1, <2>3, <3>1, <3>2, QuietTypes
  <2>5. Opened'
    BY <1>1, <1>2, <2>1, <2>3 DEF Opened, Building, Undoing, Ended, Shut
  <2>6. Unwound' /\ Stopped'
    BY <1>2, <2>1, <2>2, OpenUnwound
  <2>. QED
    BY <2>4, <2>5, <2>6 DEF IInv
<1>10. CASE WaitFail
  <2>1. /\ call[Opener] = "returned" /\ opc = "closing" /\ opc' = "failed"
        /\ UNCHANGED <<registered, done, loop, pipe, closeVars>>
    BY <1>10 DEF WaitFail, OpenGo
  <2>2. upc = "done"
    BY <1>1, <2>1 DEF Opened, Closers
  <2>3. Types' /\ InCaptureOrder'
    <3>1. /\ opc' \in OpenSteps /\ upc' \in CloseSteps /\ done' \in [Kinds -> BOOLEAN]
          /\ call' \in [Closers -> {"idle", "in", "returned"}]
          /\ pipe' \in [Kinds -> {"none", "open", "closed"}]
          /\ loop' \in [Kinds -> {"none", "select", "write", "done"}]
      BY <1>1, <2>1, Ranges, State DEF OpenSteps
    <3>2. registered' \in BOOLEAN
      BY <1>1, <2>1, Ranges
    <3>. QED
      BY <1>2, <1>3, <2>1, <3>1, <3>2, QuietTypes
  <2>4. Released
    BY <1>1, <2>2, BeforeClose DEF Unwound, Released, Ended, Shut, Kinds
  <2>5. Opened'
    BY <1>1, <1>2, <2>1, <2>2, <2>4 DEF Opened, Building, Undoing, Ended, Shut, Released
  <2>6. Unwound' /\ Stopped'
    BY <1>1, <1>2, <2>1, SamePast DEF Unwound, Stopped, AudioRuns, Ended, Shut
  <2>. QED
    BY <2>3, <2>5, <2>6 DEF IInv
<1>. QED
  BY <1>4, <1>5, <1>6, <1>7, <1>8, <1>9, <1>10 DEF QueueOpen

\* The opener builds and starts the native session, on Windows once more without
\* audio if it failed with it.
LEMMA InvNativeOpen ==
    ASSUME IInv,
           \/ IsWindows /\ WinOpen
           \/ IsDarwin /\ (MacInitNative \/ MacStart)
    PROVE  IInv'
<1>1. Types /\ Opened /\ Unwound /\ Stopped
  BY DEF IInv
<1>2. UNCHANGED <<platform, registered, ready, prodVars, queue, taken, seen, loop,
                  closeVars, stopping, revoked, inFlight, drained>>
  BY DEF IsWindows, IsDarwin, WinOpen, WinInitNative, RetryCloseQueue, RetryVideoOnly,
         WinStart, MacInitNative, MacStart
<1>3. /\ opc \in {"init", "retry", "retryJoin", "start"}
      /\ opc' \in {"init", "retry", "retryJoin", "start", "unregister", "wait"}
      /\ native' \in {native, "built", "started"}
      /\ opc' \in {"init", "retry", "retryJoin", "unregister"} =>
             native' = native /\ opc # "start"
      /\ audio' = audio \/ (audio' = FALSE /\ loop["audio"] = "done")
      /\ pipe' = pipe \/ pipe' = [pipe EXCEPT !["audio"] = "closed"]
      /\ audio' # audio => pipe' = [pipe EXCEPT !["audio"] = "closed"]
  BY DEF IsWindows, IsDarwin, WinOpen, WinInitNative, RetryCloseQueue, RetryVideoOnly,
         WinStart, MacInitNative, MacStart, OpenGo
<1>4. upc = "idle" /\ native # "freed"
  BY <1>1, <1>3, BeforeClose DEF Opened, Unwound
<1>5. Types' /\ InCaptureOrder'
  <2>1. /\ opc' \in OpenSteps /\ upc' \in CloseSteps
        /\ native' \in {"none", "built", "started", "freed"}
        /\ call' \in [Closers -> {"idle", "in", "returned"}]
        /\ loop' \in [Kinds -> {"none", "select", "write", "done"}]
        /\ pipe' \in [Kinds -> {"none", "open", "closed"}]
    BY <1>1, <1>2, <1>3, Ranges, State DEF OpenSteps
  <2>2. /\ registered' \in BOOLEAN /\ ready' \in BOOLEAN
        /\ stopping' \in BOOLEAN /\ revoked' \in BOOLEAN
    BY <1>1, <1>2, Ranges
  <2>3. audio' \in BOOLEAN
    BY <1>1, <1>3, Ranges
  <2>4. /\ thread' \in {"none", "wait", "packets", "done"}
        /\ macStream' \in {"off", "on", "stopping"}
    BY <1>1, Ranges
       DEF IsWindows, IsDarwin, WinOpen, WinInitNative, RetryCloseQueue, RetryVideoOnly,
           WinStart, MacInitNative, MacStart
  <2>5. done' \in [Kinds -> BOOLEAN]
    <3>1. done \in [Kinds -> BOOLEAN]
      BY <1>1, State
    <3>2. done' = done \/ done' = [done EXCEPT !["audio"] = TRUE]
      BY DEF IsWindows, IsDarwin, WinOpen, WinInitNative, RetryCloseQueue,
             RetryVideoOnly, WinStart, MacInitNative, MacStart, CloseQueue
    <3>. QED
      BY <3>1, <3>2
  <2>. QED
    BY <1>2, <2>1, <2>2, <2>3, <2>4, <2>5, QuietTypes
<1>6. Opened'
  <2>1. ~audio' => Ended("audio")' /\ Shut("audio")'
    <3>1. CASE audio' = audio
      <4>1. ~audio' => Ended("audio") /\ Shut("audio")
        BY <1>1, <1>3, <3>1 DEF Opened
      <4>2. Shut("audio") => Shut("audio")'
        BY <1>1, <1>3, State DEF Shut, Kinds
      <4>. QED
        BY <1>2, <4>1, <4>2 DEF Ended
    <3>2. CASE audio' # audio
      <4>1. loop["audio"] = "done" /\ pipe' = [pipe EXCEPT !["audio"] = "closed"]
        BY <1>3, <3>2
      <4>2. pipe'["audio"] = "closed"
        BY <1>1, <4>1, State DEF Kinds
      <4>. QED
        BY <1>2, <4>1, <4>2 DEF Ended, Shut
    <3>. QED
      BY <3>1, <3>2
  <2>2. opc' \in Building => native' = "none"
    BY <1>1, <1>3 DEF Opened, Building
  <2>. QED
    BY <1>1, <1>2, <1>3, <1>4, <2>1, <2>2 DEF Opened, Undoing
<1>7. Unwound' /\ Stopped'
  <2>1. native' # "freed"
    BY <1>3, <1>4
  <2>2. Unwound'
    BY <1>2, <1>4, <2>1, SamePast, BeforeClose DEF Unwound
  <2>. QED
    BY <1>1, <1>2, <1>4, <2>2 DEF Stopped
<1>. QED
  BY <1>5, <1>6, <1>7 DEF IInv

\* Close is entered, and returned from once its body is done.
LEMMA InvCall ==
    ASSUME IInv, NEW c \in Closers, CloseEnter(c) \/ CloseReturn(c), Either
    PROVE  IInv'
<1>1. Types /\ Opened /\ Unwound /\ Stopped
  BY DEF IInv
<1>2. UNCHANGED <<openVars, native, prodVars, queueVars, loopVars, pipe, winVars,
                  macStream>>
  BY DEF CloseEnter, CloseReturn, Either
<1>3. /\ \/ opc = "ok" /\ upc' = (IF upc = "idle" THEN "unregister" ELSE upc)
            /\ call[c] = "idle" /\ call' = [call EXCEPT ![c] = "in"]
         \/ upc = "done" /\ upc' = upc /\ call' = [call EXCEPT ![c] = "returned"]
  BY DEF CloseEnter, CloseReturn
<1>4. /\ call' \in [Closers -> {"idle", "in", "returned"}]
      /\ \A d \in Closers : call'[d] = "returned" => upc = "done"
  BY <1>1, <1>3, Ranges DEF Opened
<1>5. Types' /\ InCaptureOrder'
  <2>1. upc' \in CloseSteps
    BY <1>1, <1>3, Ranges DEF CloseSteps
  <2>. QED
    BY <1>1, <1>2, <1>4, <2>1, Ranges, State, QuietTypes
<1>6. Released => Released'
  BY <1>2 DEF Released
<1>7. upc' = upc \/ (upc = "idle" /\ upc' = "unregister" /\ opc = "ok")
  BY <1>3
<1>8. Opened'
  <2>1. \A k \in Kinds : (Ended(k) => Ended(k)') /\ (Shut(k) => Shut(k)')
    BY <1>2 DEF Ended, Shut
  <2>2. upc = "done" => upc' = "done"
    BY <1>7
  <2>3. \A d \in Closers : call'[d] = "returned" => upc' = "done"
    BY <1>4, <2>2
  <2>. QED
    BY <1>1, <1>2, <1>6, <1>7, <2>1, <2>3 DEF Opened, Kinds
<1>9. Unwound' /\ Stopped'
  BY <1>1, <1>2, <1>7, SamePast, BeforeClose DEF Unwound, Stopped, AudioRuns, Ended, Shut
<1>. QED
  BY <1>5, <1>8, <1>9 DEF IInv

\* The rest of what the native side does and the consumer does to the audio.
LEMMA InvAside ==
    ASSUME IInv,
           \/ CloseAudio /\ Either
           \/ IsWindows /\ (AudioWake \/ AudioDrained \/ AudioEnd)
           \/ IsDarwin /\ MacStopped
    PROVE  IInv'
<1>1. Types /\ Opened /\ Unwound /\ Stopped
  BY DEF IInv
<1>2. /\ UNCHANGED <<openVars, native, prodVars, queueVars, loopVars, closeVars, stopping,
                     revoked, inFlight, drained>>
      /\ pipe' = pipe \/ pipe' = [pipe EXCEPT !["audio"] = "closed"]
      /\ thread' = thread \/ (AudioRuns /\ thread' \in {"wait", "packets", "done"})
      /\ macStream' \in {macStream, "off"}
  BY DEF CloseAudio, Either, IsWindows, IsDarwin, AudioWake, AudioDrained, AudioEnd,
         AudioRuns, MacStopped
<1>3. /\ pipe' \in [Kinds -> {"none", "open", "closed"}]
      /\ \A k \in Kinds : (Shut(k) => Shut(k)') /\ (Ended(k) => Ended(k)')
  BY <1>1, <1>2, State DEF Shut, Ended, Kinds
<1>4. Types' /\ InCaptureOrder'
  <2>1. /\ thread' \in {"none", "wait", "packets", "done"}
        /\ macStream' \in {"off", "on", "stopping"}
    BY <1>1, <1>2, Ranges
  <2>. QED
    BY <1>1, <1>2, <1>3, <2>1, Ranges, State, QuietTypes
<1>5. Released => Released'
  BY <1>2, <1>3 DEF Released, Ended, Shut
<1>6. Opened'
  BY <1>1, <1>2, <1>3, <1>5 DEF Opened, Kinds
<1>7. Unwound' /\ Stopped'
  BY <1>1, <1>2, <1>3, SamePast DEF Unwound, Stopped, AudioRuns, Kinds
<1>. QED
  BY <1>4, <1>6, <1>7 DEF IInv

\* Every step of Close takes something more away, on each platform in its order.
LEMMA InvUnwind ==
    ASSUME IInv, Unwind
    PROVE  IInv'
<1>. USE DEF Unwind, QueueUnwind, WinUnwind, UnwindUnregister, UnwindPipes, UnwindQueues,
             WinStop, WinRevoke, WinDrain, WinJoin, WinFree, MacStop, MacFree, Either,
             IsWindows, IsDarwin, UnwindGo
<1>1. Types /\ Opened /\ Unwound /\ Stopped
  BY DEF IInv
<1>2. /\ UNCHANGED <<platform, opc, audio, ready, prodVars, queue, loopVars, call,
                     inFlight, drained, thread>>
      /\ upc \notin {"idle", "done"}
  OBVIOUS
<1>3. /\ opc \in {"ok", "closing"} /\ \A c \in Closers : call[c] # "returned"
  BY <1>1, <1>2 DEF Opened
<1>4. /\ registered' \in {registered, FALSE} /\ native' \in {native, "freed"}
      /\ pipe' = pipe \/ ClosePipes
      /\ upc' \in CloseSteps \ {"idle", "unregister"}
  BY DEF First, Second, CloseSteps
<1>5. /\ pipe' \in [Kinds -> {"none", "open", "closed"}]
      /\ \A k \in Kinds : (Shut(k) => Shut(k)') /\ (Ended(k) => Ended(k)')
  BY <1>1, <1>2, <1>4, State DEF ClosePipes, Shut, Ended
<1>6. Types' /\ InCaptureOrder'
  <2>1. /\ stopping' \in BOOLEAN /\ revoked' \in BOOLEAN
    <3>1. /\ stopping' \in {stopping, TRUE} /\ revoked' \in {revoked, TRUE}
      OBVIOUS
    <3>. QED
      BY <1>1, <3>1, Ranges
  <2>2. done' \in [Kinds -> BOOLEAN]
    <3>1. done \in [Kinds -> BOOLEAN]
      BY <1>1, State
    <3>2. \/ done' = done \/ done' = [done EXCEPT !["video"] = TRUE]
          \/ done' = [done EXCEPT !["audio"] = TRUE]
      BY DEF CloseQueue, Joined
    <3>. QED
      BY <3>1, <3>2
  <2>3. macStream' \in {"off", "on", "stopping"}
    BY <1>1, Ranges
  <2>4. registered' \in BOOLEAN /\ native' \in {"none", "built", "started", "freed"}
    BY <1>1, <1>4, Ranges
  <2>5. /\ opc' \in OpenSteps /\ upc' \in CloseSteps
        /\ loop' \in [Kinds -> {"none", "select", "write", "done"}]
        /\ call' \in [Closers -> {"idle", "in", "returned"}]
        /\ thread' \in {"none", "wait", "packets", "done"}
    BY <1>1, <1>2, <1>4, Ranges, State
  <2>6. audio' \in BOOLEAN /\ ready' \in BOOLEAN
    BY <1>1, <1>2, Ranges
  <2>. HIDE DEF Unwind
  <2>. QED
    BY <1>2, <1>5, <2>1, <2>2, <2>3, <2>4, <2>5, <2>6, QuietTypes
<1>7. Opened'
  <2>. HIDE DEF Unwind
  <2>1. \A c \in Closers : call'[c] # "returned"
    BY <1>2, <1>3
  <2>2. ~audio => Ended("audio")' /\ Shut("audio")'
    BY <1>1, <1>3, <1>5 DEF Opened, Kinds
  <2>. QED
    BY <1>2, <1>3, <2>1, <2>2 DEF Opened, Building, Undoing
<1>8. Unwound'
  <2>1. ~registered'
    BY <1>1 DEF Unwound
  <2>2. upc' \in PastPipes => \A k \in Kinds : Shut(k)'
    <3>1. CASE UnwindPipes
      <4>1. \A k \in Kinds : pipe'[k] # "open"
        BY <1>1, <1>3, <3>1 DEF ClosePipes, Streamed, Opened, Shut, Kinds
      <4>. QED
        BY <4>1 DEF Shut
    <3>2. CASE ~UnwindPipes
      <4>1. upc' \in PastPipes => upc \in PastPipes
        BY <1>2, <3>2 DEF PastPipes, PastVideo, PastJoins, WinOnly, Stopping, First, Second
      <4>. QED
        BY <1>1, <1>5, <4>1 DEF Unwound
    <3>. QED
      BY <3>1, <3>2
  <2>3. upc' \in PastVideo => Ended("video")'
    <3>1. upc' \in PastVideo => upc \in PastVideo \/ loop["video"] = "done"
      BY <1>2 DEF PastVideo, PastJoins, WinOnly, Stopping, First, Second, Joined
    <3>. QED
      BY <1>1, <1>5, <3>1 DEF Unwound, Ended, Kinds
  <2>4. upc' \in PastJoins => Ended("audio")'
    <3>1. upc' \in PastJoins => upc \in PastJoins \/ ~audio \/ loop["audio"] = "done"
      BY <1>2 DEF PastJoins, WinOnly, Stopping, First, Second, Joined
    <3>. QED
      BY <1>1, <1>3, <1>5, <3>1 DEF Unwound, Opened, Ended, Kinds
  <2>5. native' = "freed" <=> upc' \in PastFree
    <3>1. CASE WinFree \/ MacFree
      BY <3>1 DEF PastFree, PastPipes, PastVideo, PastJoins
    <3>2. CASE ~WinFree /\ ~MacFree
      <4>1. native' = native /\ (upc' \in PastFree <=> upc \in PastFree)
        BY <1>1, <1>2, <3>2, Ranges
           DEF PastFree, PastPipes, PastVideo, PastJoins, WinOnly, Stopping, First, Second
      <4>. QED
        BY <1>1, <4>1 DEF Unwound
    <3>. QED
      BY <3>1, <3>2
  <2>6. /\ PastPipes' = PastPipes /\ PastVideo' = PastVideo
        /\ PastJoins' = PastJoins /\ PastFree' = PastFree
    BY <1>2, SamePast
  <2>. HIDE DEF Unwind
  <2>. QED
    BY <2>1, <2>2, <2>3, <2>4, <2>5, <2>6 DEF Unwound
<1>9. Stopped'
  <2>. SUFFICES ASSUME platform = "windows" PROVE Stopped'
    BY <1>2 DEF Stopped
  <2>1. /\ upc' \in {"revoke", "drain", "drainWait", "join", "free", "done"} => stopping'
        /\ upc' \in {"free", "done"} => ~AudioRuns'
    BY <1>1 DEF Stopped, First, Second, AudioRuns
  <2>2. upc' \in {"join", "free", "done"} => ppc["video"] \notin Copying
    <3>1. \/ upc' \notin {"join", "free", "done"} \/ upc \in {"join", "free"}
          \/ upc = "drain" /\ ~(inFlight > 0)
          \/ upc = "drainWait" /\ drained
      BY DEF First, Second
    <3>2. inFlight \in 0..1
      BY <1>1 DEF Types, TypeOK
    <3>3. ~(inFlight > 0) => ppc["video"] \notin Copying
      <4>1. ppc["video"] \in Copying => inFlight = 1
        BY <1>1 DEF Types, TypeOK, Copying
      <4>. QED
        BY <4>1
    <3>. QED
      BY <1>1, <3>1, <3>3 DEF Stopped
  <2>. HIDE DEF Unwind
  <2>. QED
    BY <1>1, <1>2, <2>1, <2>2 DEF Stopped
<1>. QED
  BY <1>6, <1>7, <1>8, <1>9 DEF IInv

\* The inductive invariant is kept by every step.
LEMMA InvNext == IInv /\ [Next]_vars => IInv'
<1>. SUFFICES ASSUME IInv, [Next]_vars PROVE IInv'
  OBVIOUS
<1>1. CASE Open
  BY <1>1, InvQueueOpen, InvNativeOpen DEF Open
<1>2. CASE Unwind
  BY <1>2, InvUnwind
<1>3. CASE Native
  BY <1>3, InvNativeCallback, InvAside DEF Native, Audio
<1>4. ASSUME NEW k \in Kinds, Callback(k)
      PROVE  IInv'
  BY <1>4, InvDeliver, InvFrameGuard DEF Callback
<1>5. ASSUME NEW k \in Kinds, Loop(k) \/ Consume(k), Either
      PROVE  IInv'
  BY <1>5, InvLoop
<1>6. CASE CloseAudio /\ Either
  BY <1>6, InvAside
<1>7. ASSUME NEW c \in Closers, CloseEnter(c) \/ CloseReturn(c), Either
      PROVE  IInv'
  BY <1>7, InvCall
<1>8. CASE UNCHANGED vars
  <2>1. Types /\ Opened /\ Unwound /\ Stopped
    BY DEF IInv
  <2>2. UNCHANGED <<sharedVars, winVars, macStream>>
    BY <1>8 DEF vars
  <2>3. Types' /\ InCaptureOrder'
    BY <2>1, <2>2, Ranges, State, QuietTypes
  <2>4. /\ Released => Released'
        /\ \A k \in Kinds : (Shut(k) => Shut(k)') /\ (Ended(k) => Ended(k)')
    BY <2>2 DEF Released, Shut, Ended
  <2>5. Opened'
    BY <2>1, <2>2, <2>4 DEF Opened, Kinds
  <2>6. Unwound' /\ Stopped'
    BY <2>1, <2>2, <2>4, SamePast DEF Unwound, Stopped, AudioRuns, Kinds
  <2>. QED
    BY <2>3, <2>5, <2>6 DEF IInv
<1>. QED
  BY <1>1, <1>2, <1>3, <1>4, <1>5, <1>6, <1>7, <1>8 DEF Next, Terminated

\* The inductive invariant holds of every reachable state.
LEMMA Invariant == Spec => []IInv
  BY InvInit, InvNext, PTL DEF Spec

-----------------------------------------------------------------------------
(* The properties                                                          *)

\* Every variable keeps to its range; a chunk is in a callback's hand exactly while
\* it is offered, the counter of Windows frame callbacks is one exactly from a
\* callback's increment to its decrement, and macOS delivers one sample at a time.
THEOREM TypeCorrect == Spec => []TypeOK
<1>1. IInv => TypeOK
  BY DEF IInv, Types
<1>. QED
  BY <1>1, Invariant, PTL

\* Neither a Close that has returned nor a failed open leaves a registration, a
\* native session, a goroutine or an open pipe behind, on either platform.
THEOREM CloseUnwinds == Spec => []NothingLeftBehind
<1>1. IInv => NothingLeftBehind
  <2>. SUFFICES ASSUME IInv, opc = "failed" \/ \E c \in Closers : call[c] = "returned"
                PROVE  Released
    BY DEF NothingLeftBehind
  <2>1. Opened /\ Unwound
    BY DEF IInv
  <2>2. CASE opc = "failed"
    BY <2>1, <2>2 DEF Opened
  <2>3. CASE \E c \in Closers : call[c] = "returned"
    <3>1. upc = "done"
      BY <2>1, <2>3 DEF Opened
    <3>. QED
      BY <2>1, <3>1, BeforeClose DEF Unwound, Released, Ended, Shut, Kinds
  <2>. QED
    BY <2>2, <2>3
<1>. QED
  BY <1>1, Invariant, PTL

\* A chunk that may be there or not is a sequence in order.
LEMMA Single ==
    ASSUME NEW x \in Nat
    PROVE  /\ <<x>> \in Seq(Nat) /\ Increasing(<<x>>) /\ Elements(<<x>>) = {x}
           /\ Present(x) \in Seq(Nat) /\ Increasing(Present(x))
           /\ \A y \in Elements(Present(x)) : y = x /\ x # 0
<1>1. <<x>> \in Seq(Nat) /\ Len(<<x>>) = 1 /\ <<x>>[1] = x
  OBVIOUS
<1>2. Increasing(<<x>>) /\ Elements(<<x>>) = {x}
  BY <1>1 DEF Increasing, Elements
<1>3. <<>> \in Seq(Nat) /\ Increasing(<<>>) /\ Elements(<<>>) = {}
  BY DEF Increasing, Elements
<1>4. CASE x = 0
  BY <1>1, <1>2, <1>3, <1>4 DEF Present
<1>5. CASE x # 0
  BY <1>1, <1>2, <1>5 DEF Present
<1>. QED
  BY <1>4, <1>5

\* What is in order on its way is one ascending sequence.
LEMMA Ordered ==
    ASSUME NEW s \in Nat, NEW t \in Nat, NEW q \in Seq(Nat), NEW h \in Nat,
           NEW m \in Nat, InOrder(s, t, q, h, m)
    PROVE  /\ Increasing(<<s>> \o Present(t) \o q \o Present(h))
           /\ <<s>> \o Present(t) \o q \o Present(h) \in Seq(Nat)
<1>. DEFINE read    == <<s>> \o Present(t)
            written == read \o q
<1>1. /\ <<s>> \in Seq(Nat) /\ Increasing(<<s>>) /\ Elements(<<s>>) = {s}
      /\ Present(t) \in Seq(Nat) /\ Increasing(Present(t))
      /\ \A x \in Elements(Present(t)) : x = t /\ t # 0
      /\ Present(h) \in Seq(Nat) /\ Increasing(Present(h))
      /\ \A x \in Elements(Present(h)) : x = h /\ h # 0
  BY Single
<1>2. /\ read \in Seq(Nat) /\ Increasing(read)
      /\ \A x \in Elements(read) : x = s \/ (x = t /\ t # 0)
  <2>1. \A x \in Elements(<<s>>), y \in Elements(Present(t)) : x < y
    BY <1>1 DEF InOrder
  <2>2. /\ read \in Seq(Nat) /\ Increasing(read)
        /\ Elements(read) \subseteq Elements(<<s>>) \cup Elements(Present(t))
    BY <1>1, <2>1, Concatenated
  <2>. QED
    BY <1>1, <2>2
<1>. HIDE DEF read
<1>3. /\ written \in Seq(Nat) /\ Increasing(written)
      /\ \A x \in Elements(written) : x = s \/ (x = t /\ t # 0) \/ x \in Elements(q)
  <2>1. \A x \in Elements(read), y \in Elements(q) : x < y
    BY <1>2 DEF InOrder
  <2>2. /\ written \in Seq(Nat) /\ Increasing(written)
        /\ Elements(written) \subseteq Elements(read) \cup Elements(q)
    BY <1>2, <2>1, Concatenated DEF InOrder
  <2>. QED
    BY <1>2, <2>2
<1>. HIDE DEF written
<1>4. \A x \in Elements(written), y \in Elements(Present(h)) : x < y
  BY <1>1, <1>3 DEF InOrder
<1>5. /\ written \o Present(h) \in Seq(Nat) /\ Increasing(written \o Present(h))
  BY <1>1, <1>3, <1>4, Concatenated
<1>. QED
  BY <1>5 DEF written, read

\* The consumer gets the chunks of each kind in the order they were captured and
\* none twice, whatever the queue drops while its loop takes from it.
THEOREM ChunksInOrder == Spec => []OrderKept
<1>1. IInv => OrderKept
  <2>. SUFFICES ASSUME IInv, NEW k \in Kinds, NEW i \in 1..(Len(OnTheWay(k)) - 1)
                PROVE  OnTheWay(k)[i] < OnTheWay(k)[i + 1]
    BY DEF OrderKept
  <2>1. Types /\ InCaptureOrder
    BY DEF IInv
  <2>2. /\ seen[k] \in Nat /\ taken[k] \in Nat /\ hand[k] \in Nat /\ made[k] \in Nat
        /\ queue[k] \in Seq(Nat)
        /\ InOrder(seen[k], taken[k], queue[k], hand[k], made[k])
    BY <2>1, State, QueueOfNumbers DEF InCaptureOrder
  <2>3. Increasing(OnTheWay(k)) /\ OnTheWay(k) \in Seq(Nat)
    BY <2>2, Ordered DEF OnTheWay
  <2>4. Len(OnTheWay(k)) \in Nat
    BY <2>3
  <2>5. i \in 1..Len(OnTheWay(k)) /\ i + 1 \in 1..Len(OnTheWay(k)) /\ i < i + 1
    BY <2>4
  <2>. QED
    BY <2>3, <2>5 DEF Increasing
<1>. QED
  BY <1>1, Invariant, PTL

-----------------------------------------------------------------------------
(***************************************************************************)
(* The session under a delivery, and the waits.  For audio the first needs *)
(* that a chunk is only delivered by the thread that is waited for         *)
(* (Threaded).  NobodyStranded needs four more facts, each inductive next  *)
(* to IInv: a failed open cannot wait for a loop in a write because        *)
(* nothing was captured yet (Early), a callback between its two sends is   *)
(* the only one that fills its queue (Room), the event is reset only while *)
(* a callback has still to signal it (Signal), and who joins a loop has    *)
(* made it and told it to end (Joining).                                   *)
(***************************************************************************)

Early ==
    opc \in Building \cup {"start"} =>
        /\ native # "started" /\ thread = "none" /\ macStream = "off"
        /\ \A k \in Kinds : ppc[k] = "idle" /\ made[k] = 0

Room == \A k \in Kinds : ppc[k] = "retry" => Len(queue[k]) < QueueSize

Signal ==
    /\ ~drained => /\ platform = "windows"
                   /\ ppc["video"] \in Copying \cup {"retest", "release", "signal",
                                                     "undefined"}
    /\ ppc["video"] = "undefined" => native = "freed"

Joining ==
    /\ \A k \in Kinds : loop[k] = "none" <=> pipe[k] = "none"
    /\ opc # "register" => \A k \in Streamed : loop[k] # "none"
    /\ opc \in {"retry", "retryJoin", "failAudio", "failJoinAudio"} => audio
    /\ upc \in {"closeAudio", "joinAudio"} => audio
    /\ \A k \in Kinds : Joins(k) => done[k]
    /\ \A c \in Closers : call[c] = "in" => upc # "idle"
    /\ platform = "darwin" => upc \notin {"revoke", "drain", "drainWait", "join"}

\* Nothing is captured before the native session is started.
LEMMA EarlyNext == IInv /\ Early /\ [Next]_vars => Early'
<1>. SUFFICES ASSUME IInv, Early, [Next]_vars PROVE Early'
  OBVIOUS
<1>. DEFINE Started == opc \notin Building \cup {"start"}
<1>1. CASE Open
  <2>1. CASE opc' \notin Building \cup {"start"}
    BY <2>1 DEF Early
  <2>2. CASE opc' \in Building \cup {"start"}
    <3>1. opc \in Building \cup {"start"} /\ native' \in {native, "built"}
          /\ UNCHANGED <<thread, macStream, ppc, made>>
      BY <1>1, <2>2 DEF Open, QueueOpen, Register, FailUnregister, FailQueues,
         FailPipes, WaitReady, WaitTimeout, WaitFail, Either, IsWindows, IsDarwin,
         WinOpen, WinInitNative, RetryCloseQueue, RetryVideoOnly, WinStart,
         MacInitNative, MacStart, OpenGo, Building, prodVars, winVars
    <3>. QED
      BY <3>1 DEF Early
  <2>. QED
    BY <2>1, <2>2
<1>2. CASE Started
  <2>1. opc' = opc \/ Open
    BY DEF Next, Unwind, QueueUnwind, UnwindUnregister, UnwindPipes, UnwindQueues,
       IsWindows, IsDarwin, WinUnwind, WinStop, WinRevoke, WinDrain, WinJoin, WinFree,
       MacStop, MacFree, Native, FrameArrived, Audio, AudioWake, AudioPacket,
       AudioDrained, AudioEnd, MacStopped, MacSample, Terminated,
       Callback, Deliver, Lookup, FirstFrame, EnqueueCheck,
       EnqueueSend, EnqueueFull, EnqueueDrop, FrameGuard, FrameTest, FrameCount,
       FrameReset, FrameRetest, FrameRelease, FrameSignal, FrameTouchesFreed, Loop,
       LoopStop, LoopTake, LoopFail, Consume, CloseAudio, CloseEnter, CloseReturn,
       vars, sharedVars, openVars
  <2>. QED
    BY <1>1, <1>2, <2>1 DEF Early
<1>3. CASE ~Started /\ ~Open
  <2>1. /\ native # "started" /\ thread = "none" /\ macStream = "off"
        /\ \A k \in Kinds : ppc[k] = "idle" /\ made[k] = 0
    BY <1>3 DEF Early
  <2>2. upc = "idle"
    <3>1. opc \notin {"ok", "closing", "failed"}
      BY <1>3 DEF Building
    <3>. QED
      BY <3>1 DEF IInv, Opened
  <2>3. ~Unwind
    BY <2>2 DEF Unwind, QueueUnwind, UnwindUnregister, UnwindPipes, UnwindQueues,
       UnwindGo, WinUnwind, WinStop, WinRevoke, WinDrain, WinJoin, WinFree, MacStop,
       MacFree
  <2>4. ~Native
    BY <2>1 DEF Native, FrameArrived, Audio, AudioWake, AudioPacket, AudioDrained,
       AudioEnd, MacStopped, MacSample
  <2>5. \A k \in Kinds : ~Callback(k)
    BY <2>1 DEF Callback, Deliver, Lookup, FirstFrame, EnqueueCheck, EnqueueSend,
       EnqueueFull, EnqueueDrop, CallbackGo, FrameGuard, FrameTest, FrameCount,
       FrameReset, FrameRetest, FrameRelease, FrameSignal, FrameTouchesFreed, Kinds
  <2>6. UNCHANGED <<native, thread, macStream, ppc, made>>
    BY <1>3, <2>3, <2>4, <2>5 DEF Next, Terminated, Loop, LoopStop, LoopTake,
       LoopFail, Consume, CloseAudio, CloseEnter, CloseReturn, Either, winVars,
       prodVars, vars, sharedVars
  <2>. QED
    BY <2>1, <2>6 DEF Early
<1>. QED
  BY <1>1, <1>2, <1>3

\* What the steps of the opener and of Close, and those of the loops and of the
\* consumer, do to the callbacks: nothing.
LEMMA CallbacksAside ==
    ASSUME \/ Open \/ Unwind
           \/ \E k \in Kinds : (Loop(k) \/ Consume(k)) /\ Either
           \/ CloseAudio /\ Either
           \/ \E c \in Closers : (CloseEnter(c) \/ CloseReturn(c)) /\ Either
           \/ UNCHANGED vars
    PROVE  UNCHANGED ppc
  BY DEF Open, QueueOpen, Register, FailUnregister, FailQueues, FailPipes, WaitReady,
     WaitTimeout, WaitFail, IsWindows, IsDarwin, WinOpen, WinInitNative,
     RetryCloseQueue, RetryVideoOnly, WinStart, MacInitNative, MacStart, Unwind,
     QueueUnwind, UnwindUnregister, UnwindPipes, UnwindQueues, WinUnwind, WinStop,
     WinRevoke, WinDrain, WinJoin, WinFree, MacStop, MacFree, Loop, LoopStop, LoopTake,
     LoopFail, Consume, CloseAudio, CloseEnter, CloseReturn, prodVars, vars, sharedVars

\* A chunk of Windows audio is delivered by the audio thread in its loop of packets.
Threaded == platform = "windows" /\ ppc["audio"] # "idle" => thread = "packets"

\* The thread only leaves that loop between two deliveries.
LEMMA ThreadedNext == IInv /\ Early /\ Threaded /\ [Next]_vars => Threaded'
<1>. SUFFICES ASSUME IInv, Early, Threaded, [Next]_vars, platform' = "windows",
                     ppc'["audio"] # "idle"
              PROVE  thread' = "packets"
  BY DEF Threaded
<1>1. /\ ppc \in [Kinds -> CallbackSteps] /\ Kinds = {"video", "audio"}
      /\ ppc["audio"] \in Copying \cup {"idle"}
  BY DEF IInv, Types, TypeOK, Kinds
<1>2. CASE Open
  <2>1. UNCHANGED <<platform, ppc>> /\ (thread' = thread \/ opc = "start")
    BY <1>2, CallbacksAside
    DEF Open, QueueOpen, Register, FailUnregister, FailQueues, FailPipes, WaitReady,
        WaitTimeout, WaitFail, Either, IsWindows, IsDarwin, WinOpen, WinInitNative,
        RetryCloseQueue, RetryVideoOnly, WinStart, MacInitNative, MacStart, OpenGo
  <2>. QED
    BY <1>1, <2>1 DEF Threaded, Early
<1>3. CASE \/ Unwind
           \/ \E k \in Kinds : (Loop(k) \/ Consume(k)) /\ Either
           \/ CloseAudio /\ Either
           \/ \E c \in Closers : (CloseEnter(c) \/ CloseReturn(c)) /\ Either
           \/ UNCHANGED vars
  <2>1. UNCHANGED <<platform, ppc, thread>>
    BY <1>3, CallbacksAside
    DEF Unwind, QueueUnwind, UnwindUnregister, UnwindPipes, UnwindQueues, Either,
        IsWindows, IsDarwin, WinUnwind, WinStop, WinRevoke, WinDrain, WinJoin, WinFree,
        MacStop, MacFree, Loop, LoopStop, LoopTake, LoopFail, Consume, CloseAudio,
        CloseEnter, CloseReturn, vars, sharedVars
  <2>. QED
    BY <2>1 DEF Threaded
<1>4. ASSUME NEW k \in Kinds, Callback(k)
      PROVE  thread' = "packets"
  <2>1. UNCHANGED <<platform, thread>> /\ (ppc["audio"] = "idle" => ppc'["audio"] = "idle")
    BY <1>1, <1>4
    DEF Callback, Deliver, Lookup, FirstFrame, EnqueueCheck, EnqueueSend, EnqueueFull,
        EnqueueDrop, Leave, Either, IsWindows, FrameGuard, FrameTest, FrameCount,
        FrameReset, FrameRetest, FrameRelease, FrameSignal, FrameTouchesFreed,
        CallbackGo
  <2>. QED
    BY <2>1 DEF Threaded
<1>5. CASE Native
  BY <1>1, <1>5
  DEF Threaded, Native, FrameArrived, Audio, AudioWake, AudioPacket, AudioDrained,
      AudioEnd, IsWindows, IsDarwin, MacStopped, MacSample, CallbackGo
<1>. QED
  BY <1>2, <1>3, <1>4, <1>5 DEF Next, Terminated

\* From the copy of a frame to the end of its delivery, and while the audio thread
\* runs and delivers, the session is there: the counter, the event and the second
\* test of shuttingDown together, and the wait for the thread, see to that.
THEOREM SessionOutlivesDelivery == Spec => []DeliveryOnLiveSession
<1>1. IInv /\ Threaded => DeliveryOnLiveSession
  <2>. SUFFICES ASSUME IInv, Threaded, platform = "windows", native = "freed"
                PROVE  /\ \A k \in Kinds : ppc[k] \notin Copying
                       /\ ~AudioRuns
    BY DEF DeliveryOnLiveSession, Alive
  <2>1. Unwound /\ Stopped
    BY DEF IInv
  <2>2. upc = "done"
    BY <2>1 DEF Unwound, PastFree
  <2>3. ppc["video"] \notin Copying /\ ~AudioRuns
    BY <2>1, <2>2 DEF Stopped
  <2>4. ppc["audio"] = "idle"
    BY <2>3 DEF Threaded, AudioRuns
  <2>. QED
    BY <2>3, <2>4 DEF Kinds, Copying
<1>2. Init => Early /\ Threaded
  BY DEF Init, QueueInit, WinInit, MacInit, Early, Threaded, Kinds
<1>. QED
  BY <1>1, <1>2, EarlyNext, ThreadedNext, InvInit, InvNext, PTL DEF Spec

\* What everything but Enqueue and the loops does to the queues: nothing.
LEMMA QueuesAside ==
    ASSUME \/ Open \/ Unwind \/ Native
           \/ \E k \in Kinds : Lookup(k) \/ EnqueueCheck(k) \/ EnqueueFull(k)
           \/ FirstFrame \/ FrameGuard
           \/ \E k \in Kinds : LoopStop(k) \/ LoopFail(k) \/ Consume(k)
           \/ CloseAudio
           \/ \E c \in Closers : CloseEnter(c) \/ CloseReturn(c)
           \/ UNCHANGED vars
    PROVE  UNCHANGED queue
  BY DEF Open, QueueOpen, Register, FailUnregister, FailQueues, FailPipes, WaitReady,
     WaitTimeout, WaitFail, IsWindows, IsDarwin, WinOpen, WinInitNative,
     RetryCloseQueue, RetryVideoOnly, WinStart, MacInitNative, MacStart, Unwind,
     QueueUnwind, UnwindUnregister, UnwindPipes, UnwindQueues, WinUnwind, WinStop,
     WinRevoke, WinDrain, WinJoin, WinFree, MacStop, MacFree, Native, FrameArrived,
     Audio, AudioWake, AudioPacket, AudioDrained, AudioEnd, MacStopped, MacSample,
     Lookup, EnqueueCheck, EnqueueFull,
     FirstFrame, FrameGuard, FrameTest, FrameCount, FrameReset, FrameRetest,
     FrameRelease, FrameSignal, FrameTouchesFreed, LoopStop, LoopFail, Consume,
     CloseAudio, CloseEnter, CloseReturn, queueVars, vars, sharedVars

\* Between the two sends of Enqueue the queue only gets emptier: the callback of k
\* is the only one that fills the queue of k.
LEMMA RoomNext == IInv /\ Room /\ [Next]_vars => Room'
<1>. SUFFICES ASSUME IInv, Room, [Next]_vars PROVE Room'
  OBVIOUS
<1>1. /\ ppc \in [Kinds -> CallbackSteps] /\ queue \in [Kinds -> Seq(Nat \ {0})]
      /\ \A k \in Kinds : Len(queue[k]) \in Nat /\ Len(queue[k]) <= QueueSize
      /\ QueueSize \in Nat \ {0}
  BY State, QueueOfNumbers, QueueAssumption DEF IInv
<1>2. CASE UNCHANGED queue
  <2>1. CASE UNCHANGED ppc
    BY <1>2, <2>1 DEF Room
  <2>2. ASSUME NEW k \in Kinds, NEW p \in CallbackSteps \ {"retry"},
               ppc' = [ppc EXCEPT ![k] = p]
        PROVE  Room'
    BY <1>1, <1>2, <2>2 DEF Room
  <2>3. ASSUME NEW k \in Kinds, Callback(k)
        PROVE  Room'
    <3>1. CASE Leave(k)
      <4>1. PICK p \in {"release", "idle"} : ppc' = [ppc EXCEPT ![k] = p]
        BY <3>1 DEF Leave
      <4>2. p \in CallbackSteps \ {"retry"}
        BY DEF CallbackSteps
      <4>. QED
        BY <2>2, <4>1, <4>2
    <3>2. CASE k = "video" /\ FirstFrame
      BY <2>2, <3>2 DEF FirstFrame, CallbackGo, CallbackSteps, Copying
    <3>3. CASE Lookup(k) /\ ~Leave(k)
      BY <2>2, <3>3 DEF Lookup, CallbackGo, CallbackSteps, Copying
    <3>4. CASE (EnqueueCheck(k) \/ EnqueueFull(k)) /\ ~Leave(k)
      BY <2>2, <3>4 DEF EnqueueCheck, EnqueueFull, CallbackGo, CallbackSteps, Copying
    <3>5. CASE k = "video" /\ FrameGuard
      <4>1. CASE FrameTest \/ FrameRelease
        BY <2>2, <3>5, <4>1 DEF FrameTest, FrameRelease, CallbackGo, CallbackSteps,
           Copying
      <4>2. CASE FrameCount \/ FrameReset \/ FrameRetest
        BY <2>2, <3>5, <4>2 DEF FrameCount, FrameReset, FrameRetest, CallbackGo,
           CallbackSteps, Copying
      <4>3. CASE FrameSignal \/ FrameTouchesFreed
        BY <2>2, <3>5, <4>3 DEF FrameSignal, FrameTouchesFreed, CallbackGo,
           CallbackSteps, Copying
      <4>. QED
        BY <3>5, <4>1, <4>2, <4>3 DEF FrameGuard
    <3>6. CASE EnqueueSend(k) /\ ~Leave(k)
      BY <3>6 DEF EnqueueSend
    <3>7. CASE EnqueueDrop(k)
      <4>1. queue[k] = <<>>
        <5>1. queue[k] # <<>> => Tail(queue[k]) # queue[k]
          BY <1>1
        <5>. QED
          BY <1>1, <1>2, <3>7, <5>1 DEF EnqueueDrop
      <4>2. ppc' = [ppc EXCEPT ![k] = "retry"] /\ Len(queue[k]) = 0
        BY <3>7, <4>1 DEF EnqueueDrop, CallbackGo
      <4>. QED
        BY <1>1, <1>2, <4>2 DEF Room
    <3>. QED
      BY <2>3, <3>1, <3>2, <3>3, <3>4, <3>5, <3>6, <3>7 DEF Callback, Deliver
  <2>4. CASE Native
    <3>1. CASE FrameArrived \/ AudioPacket
      BY <2>2, <3>1 DEF FrameArrived, AudioPacket, CallbackGo, CallbackSteps, Copying,
         Kinds
    <3>2. ASSUME NEW k \in Kinds, MacSample(k)
          PROVE  Room'
      BY <2>2, <3>2 DEF MacSample, CallbackGo, CallbackSteps, Copying
    <3>3. CASE AudioWake \/ AudioDrained \/ AudioEnd \/ MacStopped
      BY <2>1, <3>3 DEF AudioWake, AudioDrained, AudioEnd, MacStopped, sharedVars,
         prodVars
    <3>. QED
      BY <2>4, <3>1, <3>2, <3>3 DEF Native, Audio
  <2>. QED
    BY <2>1, <2>3, <2>4, CallbacksAside DEF Next, Terminated
<1>3. ASSUME NEW k \in Kinds, EnqueueDrop(k)
      PROVE  Room'
  <2>1. /\ ppc' = [ppc EXCEPT ![k] = "retry"]
        /\ queue' = [queue EXCEPT ![k] = IF @ = <<>> THEN @ ELSE Tail(@)]
    BY <1>3 DEF EnqueueDrop, CallbackGo
  <2>2. Len(queue'[k]) < QueueSize
    <3>1. CASE queue[k] = <<>>
      BY <1>1, <2>1, <3>1
    <3>2. CASE queue[k] # <<>>
      <4>1. queue[k] \in Seq(Nat \ {0})
        BY <1>1
      <4>2. Len(Tail(queue[k])) = Len(queue[k]) - 1
        BY <4>1, <3>2
      <4>. QED
        BY <1>1, <2>1, <3>2, <4>2
    <3>. QED
      BY <3>1, <3>2
  <2>3. \A j \in Kinds \ {k} : ppc'[j] = ppc[j] /\ queue'[j] = queue[j]
    BY <1>1, <2>1
  <2>. QED
    BY <2>2, <2>3 DEF Room
<1>4. ASSUME NEW k \in Kinds, EnqueueSend(k)
      PROVE  Room'
  <2>1. ppc'[k] # "retry"
    BY <1>1, <1>4 DEF EnqueueSend, Leave
  <2>2. \A j \in Kinds \ {k} : ppc'[j] = ppc[j] /\ queue'[j] = queue[j]
    BY <1>1, <1>4 DEF EnqueueSend, Leave
  <2>. QED
    BY <2>1, <2>2 DEF Room
<1>5. ASSUME NEW k \in Kinds, LoopTake(k)
      PROVE  Room'
  <2>1. /\ queue[k] # <<>> /\ queue' = [queue EXCEPT ![k] = Tail(@)] /\ UNCHANGED ppc
    BY <1>5 DEF LoopTake, prodVars
  <2>2. queue[k] \in Seq(Nat \ {0})
    BY <1>1
  <2>3. Len(Tail(queue[k])) = Len(queue[k]) - 1
    BY <2>1, <2>2
  <2>4. Len(queue'[k]) < QueueSize
    BY <1>1, <2>1, <2>3
  <2>5. \A j \in Kinds \ {k} : ppc'[j] = ppc[j] /\ queue'[j] = queue[j]
    BY <1>1, <2>1
  <2>. QED
    BY <2>4, <2>5 DEF Room
<1>6. \/ UNCHANGED queue
      \/ \E k \in Kinds : EnqueueDrop(k) \/ EnqueueSend(k) \/ LoopTake(k)
  BY QueuesAside DEF Next, Terminated, Callback, Deliver, Loop, Kinds
<1>. QED
  BY <1>2, <1>3, <1>4, <1>5, <1>6

\* The event is reset only while the callback that reset it has still to signal it.
LEMMA SignalNext == IInv /\ Signal /\ [Next]_vars => Signal'
<1>. SUFFICES ASSUME IInv, Signal, [Next]_vars PROVE Signal'
  OBVIOUS
<1>1. ppc \in [Kinds -> CallbackSteps] /\ {"video", "audio"} = Kinds
  BY State DEF IInv, Kinds
<1>2. Opened /\ Unwound
  BY DEF IInv
<1>. USE DEF Signal
<1>3. CASE Open
  <2>1. UNCHANGED <<ppc, drained, platform>>
    BY <1>3, CallbacksAside DEF Open, QueueOpen, Register, FailUnregister, FailQueues,
       FailPipes, WaitReady, WaitTimeout, WaitFail, IsWindows, IsDarwin, Either,
       WinOpen, WinInitNative, RetryCloseQueue, RetryVideoOnly, WinStart,
       MacInitNative, MacStart, openVars, winVars
  <2>2. native = "freed" => native' = "freed"
    <3>1. native = "freed" => opc \in {"ok", "closing", "failed"}
      <4>1. native = "freed" => upc # "idle"
        BY <1>2 DEF Unwound, PastFree, PastPipes, PastVideo, PastJoins, WinOnly, Stopping
      <4>. QED
        BY <1>2, <4>1 DEF Opened
    <3>. QED
      BY <1>3, <3>1 DEF Open, QueueOpen, Register, FailUnregister, FailQueues,
         FailPipes, WaitReady, WaitTimeout, WaitFail, IsWindows, IsDarwin, WinOpen,
         WinInitNative, RetryCloseQueue, RetryVideoOnly, WinStart, MacInitNative,
         MacStart, OpenGo
  <2>. QED
    BY <2>1, <2>2
<1>4. CASE Unwind
  <2>1. UNCHANGED <<ppc, drained, platform>> /\ native' \in {native, "freed"}
    BY <1>4, CallbacksAside DEF Unwind, QueueUnwind, UnwindUnregister, UnwindPipes,
       UnwindQueues, IsWindows, IsDarwin, Either, WinUnwind, WinStop, WinRevoke,
       WinDrain, WinJoin, WinFree, MacStop, MacFree, openVars, winVars
  <2>. QED
    BY <2>1
<1>5. ASSUME NEW k \in Kinds, Deliver(k), Either
      PROVE  Signal'
  <2>1. UNCHANGED <<drained, platform, native>> /\ ppc[k] \in Copying
    BY <1>5 DEF Deliver, Lookup, FirstFrame, EnqueueCheck, EnqueueSend, EnqueueFull,
       EnqueueDrop, CallbackGo, Either, openVars, winVars, Copying
  <2>2. \/ \E p \in Copying : ppc' = [ppc EXCEPT ![k] = p]
        \/ Leave(k)
    BY <1>5 DEF Deliver, Lookup, FirstFrame, EnqueueCheck, EnqueueSend, EnqueueFull,
       EnqueueDrop, CallbackGo, Copying
  <2>3. CASE k = "audio"
    BY <1>1, <2>1, <2>2, <2>3 DEF Leave
  <2>4. CASE k = "video" /\ \E p \in Copying : ppc' = [ppc EXCEPT ![k] = p]
    <3>1. ppc'["video"] \in Copying
      BY <1>1, <2>4
    <3>. QED
      BY <2>1, <2>4, <3>1 DEF Copying
  <2>5. CASE k = "video" /\ Leave(k)
    <3>1. ppc'["video"] = IF platform = "windows" THEN "release" ELSE "idle"
      BY <1>1, <2>5 DEF Leave
    <3>. QED
      BY <2>1, <3>1
  <2>. QED
    BY <1>1, <2>2, <2>3, <2>4, <2>5
<1>6. CASE IsWindows /\ FrameGuard
  <2>1. UNCHANGED <<platform, native>> /\ platform = "windows"
    BY <1>6 DEF IsWindows, FrameGuard, FrameTest, FrameCount, FrameReset, FrameRetest,
       FrameRelease, FrameSignal, FrameTouchesFreed, openVars
  <2>2. CASE FrameTest \/ FrameCount
    BY <1>1, <2>1, <2>2 DEF FrameTest, FrameCount, CallbackGo, Copying, winVars
  <2>3. CASE FrameReset
    BY <1>1, <2>1, <2>3 DEF FrameReset, CallbackGo
  <2>4. CASE FrameRetest
    BY <1>1, <2>1, <2>4 DEF FrameRetest, CallbackGo, Copying, winVars
  <2>5. CASE FrameRelease
    <3>1. ppc["video"] = "release" /\ inFlight = 1
      BY <1>6, <2>1, <2>5 DEF FrameRelease, CallbackGo, IInv, Types, TypeOK
    <3>. QED
      BY <1>1, <2>1, <2>5, <3>1 DEF FrameRelease, CallbackGo
  <2>6. CASE FrameSignal
    BY <1>1, <2>1, <2>6 DEF FrameSignal, CallbackGo
  <2>7. CASE FrameTouchesFreed
    BY <1>1, <2>1, <2>7 DEF FrameTouchesFreed, CallbackGo, Alive, winVars
  <2>. QED
    BY <1>6, <2>2, <2>3, <2>4, <2>5, <2>6, <2>7 DEF FrameGuard
<1>7. CASE Native
  <2>1. UNCHANGED <<drained, platform, native>>
    BY <1>7 DEF Native, FrameArrived, Audio, AudioWake, AudioPacket, AudioDrained,
       AudioEnd, MacStopped, MacSample, IsWindows, IsDarwin, sharedVars, openVars, winVars
  <2>2. \/ ppc'["video"] = ppc["video"]
        \/ ppc["video"] = "idle" /\ ppc'["video"] \in {"arrived", "lookup"}
    BY <1>1, <1>7 DEF Native, FrameArrived, Audio, AudioWake, AudioPacket,
       AudioDrained, AudioEnd, MacStopped, MacSample, CallbackGo, sharedVars, prodVars
  <2>. QED
    BY <2>1, <2>2 DEF Copying
<1>8. CASE \/ \E k \in Kinds : (Loop(k) \/ Consume(k)) /\ Either
           \/ CloseAudio /\ Either
           \/ \E c \in Closers : (CloseEnter(c) \/ CloseReturn(c)) /\ Either
           \/ UNCHANGED vars
  <2>1. UNCHANGED <<ppc, drained, platform, native>>
    BY <1>8, CallbacksAside DEF Loop, LoopStop, LoopTake, LoopFail, Consume, CloseAudio,
       CloseEnter, CloseReturn, Either, openVars, winVars, vars, sharedVars
  <2>. QED
    BY <2>1
<1>. QED
  BY <1>3, <1>4, <1>5, <1>6, <1>7, <1>8 DEF Next, Terminated, Callback

\* What everything but the opener, the loops, the consumer and Close does to what
\* joins a loop: nothing.
LEMMA JoinsAside ==
    ASSUME \/ \E k \in Kinds : Callback(k)
           \/ Native
           \/ UNCHANGED vars
    PROVE  UNCHANGED <<platform, opc, audio, done, loop, pipe, closeVars>>
  BY DEF Callback, Deliver, Lookup, FirstFrame, EnqueueCheck, EnqueueSend, EnqueueFull,
     EnqueueDrop, FrameGuard, FrameTest, FrameCount, FrameReset, FrameRetest,
     FrameRelease, FrameSignal, FrameTouchesFreed, Native, FrameArrived, Audio, AudioWake,
     AudioPacket, AudioDrained, AudioEnd, MacStopped, MacSample, IsWindows,
     IsDarwin, Either, vars, sharedVars,
     openVars, queueVars, loopVars, closeVars

\* Joining is kept by a step that changes nothing it speaks of.
LEMMA JoiningKept ==
    ASSUME Joining, UNCHANGED <<platform, opc, audio, done, loop, pipe, closeVars>>
    PROVE  Joining'
  BY DEF Joining, Joins, Streamed, Kinds, closeVars

\* A loop is waited for only by who has made it and has told it to end.
LEMMA JoiningNext == IInv /\ Joining /\ [Next]_vars => Joining'
<1>. SUFFICES ASSUME IInv, Joining, [Next]_vars PROVE Joining'
  OBVIOUS
<1>1. /\ done \in [Kinds -> BOOLEAN] /\ Kinds = {"video", "audio"}
      /\ loop \in [Kinds -> {"none", "select", "write", "done"}]
      /\ pipe \in [Kinds -> {"none", "open", "closed"}]
      /\ call \in [Closers -> {"idle", "in", "returned"}]
      /\ audio \in BOOLEAN
  BY State DEF IInv, Types, TypeOK, Kinds
<1>2. upc # "idle" => opc \in {"ok", "closing", "failed"}
  BY DEF IInv, Opened
<1>. USE DEF Joining, Joins, Streamed, closeVars
<1>3. CASE QueueOpen /\ Either
  <2>1. CASE Register
    BY <1>1, <1>2, <2>1 DEF Register, OpenGo, queueVars
  <2>2. CASE FailUnregister \/ FailPipes \/ WaitReady \/ WaitFail
    <3>1. CASE FailUnregister \/ WaitReady \/ WaitFail
      BY <1>1, <1>2, <3>1 DEF FailUnregister, WaitReady, WaitFail, OpenGo, queueVars,
         loopVars
    <3>2. CASE FailPipes
      <4>1. \A k \in Kinds : pipe'[k] = IF k \in Streamed THEN "closed" ELSE pipe[k]
        BY <3>2 DEF FailPipes, ClosePipes
      <4>2. /\ opc = "failPipes" /\ opc' = "failed"
            /\ UNCHANGED <<platform, audio, done, loop, upc, call>>
        BY <3>2 DEF FailPipes, OpenGo, queueVars, loopVars
      <4>. QED
        BY <1>1, <1>2, <4>1, <4>2
    <3>. QED
      BY <2>2, <3>1, <3>2
  <2>3. CASE FailQueues
    <3>1. UNCHANGED <<platform, audio, loop, pipe, upc, call>>
      BY <2>3 DEF FailQueues, loopVars
    <3>2. CASE opc = "failVideo" /\ opc' = "failJoinVideo" /\ CloseQueue("video")
      BY <1>1, <1>2, <3>1, <3>2 DEF CloseQueue
    <3>3. CASE opc = "failAudio" /\ opc' = "failJoinAudio" /\ CloseQueue("audio")
      BY <1>1, <1>2, <3>1, <3>3 DEF CloseQueue
    <3>4. CASE /\ opc = "failJoinVideo" /\ UNCHANGED done
               /\ opc' = IF audio THEN "failAudio" ELSE "failPipes"
      BY <1>1, <1>2, <3>1, <3>4
    <3>5. CASE opc = "failJoinAudio" /\ opc' = "failPipes" /\ UNCHANGED done
      BY <1>1, <1>2, <3>1, <3>5
    <3>. QED
      BY <2>3, <3>2, <3>3, <3>4, <3>5 DEF FailQueues, OpenGo, Joined
  <2>4. CASE WaitTimeout
    <3>1. /\ opc = "wait" /\ opc' = "closing" /\ upc' = "unregister"
          /\ UNCHANGED <<platform, audio, done, loop, pipe>>
      BY <2>4 DEF WaitTimeout, OpenGo, queueVars, loopVars
    <3>. QED
      BY <1>1, <3>1
  <2>. QED
    BY <1>3, <2>1, <2>2, <2>3, <2>4 DEF QueueOpen
<1>4. CASE IsWindows /\ WinOpen
  <2>1. CASE WinInitNative \/ WinStart
    BY <1>1, <1>2, <2>1 DEF WinInitNative, WinStart, OpenGo, queueVars, loopVars
  <2>2. CASE RetryCloseQueue
    <3>1. /\ opc = "retry" /\ opc' = "retryJoin" /\ CloseQueue("audio")
          /\ UNCHANGED <<platform, audio, loop, pipe, upc, call>>
      BY <2>2 DEF RetryCloseQueue, OpenGo, loopVars
    <3>. QED
      BY <1>1, <1>2, <3>1 DEF CloseQueue
  <2>3. CASE RetryVideoOnly
    <3>1. /\ opc = "retryJoin" /\ opc' = "init" /\ loop["audio"] = "done"
          /\ pipe' = [pipe EXCEPT !["audio"] = "closed"] /\ audio' = FALSE
          /\ UNCHANGED <<platform, done, loop, upc, call>>
      BY <2>3 DEF RetryVideoOnly, OpenGo, queueVars, loopVars
    <3>. QED
      BY <1>1, <1>2, <3>1
  <2>. QED
    BY <1>4, <2>1, <2>2, <2>3 DEF WinOpen
<1>5. CASE IsDarwin /\ (MacInitNative \/ MacStart)
  BY <1>1, <1>2, <1>5 DEF MacInitNative, MacStart, OpenGo, queueVars, loopVars
<1>6. CASE QueueUnwind /\ Either
  <2>1. CASE UnwindUnregister
    BY <1>1, <1>2, <2>1 DEF UnwindUnregister, UnwindGo, First, queueVars, loopVars
  <2>2. CASE UnwindPipes
    <3>1. \A k \in Kinds : pipe'[k] = IF k \in Streamed THEN "closed" ELSE pipe[k]
      BY <2>2 DEF UnwindPipes, ClosePipes
    <3>2. /\ upc = "pipes" /\ upc' = "closeVideo"
          /\ UNCHANGED <<platform, opc, audio, done, loop, call>>
      BY <2>2 DEF UnwindPipes, UnwindGo, openVars, queueVars, loopVars
    <3>. QED
      BY <1>1, <1>2, <3>1, <3>2
  <2>3. CASE UnwindQueues
    <3>1. UNCHANGED <<platform, opc, audio, loop, pipe, call>>
      BY <2>3 DEF UnwindQueues, openVars, loopVars
    <3>2. CASE upc = "closeVideo" /\ upc' = "joinVideo" /\ CloseQueue("video")
      BY <1>1, <1>2, <3>1, <3>2 DEF CloseQueue
    <3>3. CASE upc = "closeAudio" /\ upc' = "joinAudio" /\ CloseQueue("audio")
      BY <1>1, <1>2, <3>1, <3>3 DEF CloseQueue
    <3>4. CASE /\ upc = "joinVideo" /\ UNCHANGED done
               /\ upc' = IF audio THEN "closeAudio" ELSE Second
      BY <1>1, <1>2, <3>1, <3>4 DEF Second
    <3>5. CASE upc = "joinAudio" /\ upc' = Second /\ UNCHANGED done
      BY <1>1, <1>2, <3>1, <3>5 DEF Second
    <3>. QED
      BY <2>3, <3>2, <3>3, <3>4, <3>5 DEF UnwindQueues, UnwindGo, Joined
  <2>. QED
    BY <1>6, <2>1, <2>2, <2>3 DEF QueueUnwind
<1>7. CASE \/ IsWindows /\ WinUnwind
           \/ IsDarwin /\ (MacStop \/ MacFree)
  BY <1>1, <1>2, <1>7 DEF IsWindows, WinUnwind, WinStop, WinRevoke, WinDrain, WinJoin,
     WinFree, MacStop, MacFree, UnwindGo, openVars, queueVars, loopVars
<1>8. ASSUME NEW k \in Kinds, Loop(k) \/ Consume(k)
      PROVE  Joining'
  <2>1. /\ UNCHANGED <<platform, opc, audio, done, pipe, upc, call>>
        /\ loop[k] # "none" /\ \E l \in {"select", "write", "done"} :
                                   loop' = [loop EXCEPT ![k] = l]
    BY <1>8 DEF Loop, LoopStop, LoopTake, LoopFail, Consume, openVars, queueVars
  <2>. QED
    BY <1>1, <1>2, <2>1
<1>9. CASE CloseAudio
  BY <1>1, <1>2, <1>9 DEF CloseAudio, openVars, queueVars, loopVars
<1>10. ASSUME NEW c \in Closers, CloseEnter(c) \/ CloseReturn(c)
       PROVE  Joining'
  <2>1. CASE CloseEnter(c)
    <3>1. /\ UNCHANGED <<platform, opc, audio, done, loop, pipe>>
          /\ upc' = IF upc = "idle" THEN "unregister" ELSE upc
      BY <2>1 DEF CloseEnter, openVars, queueVars, loopVars
    <3>2. upc' # "idle"
      BY <3>1
    <3>. QED
      BY <1>1, <1>2, <3>1, <3>2
  <2>2. CASE CloseReturn(c)
    BY <1>1, <1>2, <2>2 DEF CloseReturn, openVars, queueVars, loopVars
  <2>. QED
    BY <1>10, <2>1, <2>2
<1>11. CASE (\E k \in Kinds : Callback(k)) \/ Native \/ UNCHANGED vars
  BY <1>11, JoinsAside, JoiningKept
<1>. QED
  BY <1>3, <1>4, <1>5, <1>6, <1>7, <1>8, <1>9, <1>10, <1>11
  DEF Next, Open, Unwind, Terminated

\* Close, a failed open and the callbacks never get into a wait that does not end,
\* whatever the platform and the number of callers: the safety half of CloseReturns
\* and CallbackReturns.
THEOREM NoneStranded == Spec => []NobodyStranded
<1>1. Init => Early /\ Room /\ Signal /\ Joining
  BY DEF Init, QueueInit, WinInit, MacInit, Early, Room, Signal, Joining, Joins, Kinds
<1>2. IInv /\ Early /\ Room /\ Signal /\ Joining => NobodyStranded
  <2>. SUFFICES ASSUME IInv, Early, Room, Signal, Joining PROVE NobodyStranded
    OBVIOUS
  <2>1. Types /\ InCaptureOrder /\ Opened /\ Unwound /\ Stopped
    BY DEF IInv
  <2>2. ASSUME NEW k \in Kinds, Joins(k)
        PROVE  /\ done[k] /\ loop[k] # "none"
               /\ loop[k] = "write" => pipe[k] = "closed"
    <3>1. done[k]
      BY <2>2 DEF Joining
    <3>2. opc # "register" /\ k \in Streamed
      BY <2>1, <2>2 DEF Joining, Joins, Streamed, Opened, Kinds
    <3>3. loop[k] # "none" /\ pipe[k] # "none"
      BY <3>2 DEF Joining
    <3>4. CASE opc \in Building
      <4>1. /\ made[k] = 0 /\ taken[k] \in Nat /\ taken[k] <= made[k]
            /\ taken[k] # 0 <=> loop[k] = "write"
        BY <2>1, <3>4, State DEF Early, InCaptureOrder, InOrder
      <4>. QED
        BY <3>1, <3>3, <4>1
    <3>5. CASE upc \in {"joinVideo", "joinAudio"}
      <4>1. Shut(k) /\ pipe[k] \in {"none", "open", "closed"}
        BY <2>1, <3>5, State DEF Unwound, PastPipes, PastVideo
      <4>. QED
        BY <3>1, <3>3, <4>1 DEF Shut
    <3>. QED
      BY <2>2, <3>4, <3>5 DEF Joins, Building
  <2>3. upc = "drainWait" /\ ~drained =>
            ppc["video"] \in Copying \cup {"retest", "release", "signal"}
    <3>. SUFFICES ASSUME upc = "drainWait", ~drained
                  PROVE  ppc["video"] \in Copying \cup {"retest", "release", "signal"}
      OBVIOUS
    <3>1. platform = "windows"
      BY DEF Signal
    <3>2. native # "freed"
      BY <2>1, <3>1 DEF Unwound, PastFree
    <3>. QED
      BY <3>2 DEF Signal
  <2>4. upc = "join" => stopping
    <3>1. upc = "join" => platform # "darwin"
      BY DEF Joining
    <3>2. platform \in {"windows", "darwin"}
      BY <2>1 DEF Types, TypeOK
    <3>. QED
      BY <2>1, <3>1, <3>2 DEF Stopped
  <2>. QED
    BY <2>2, <2>3, <2>4 DEF NobodyStranded, Room, Joining
<1>. QED
  BY <1>1, <1>2, EarlyNext, RoomNext, SignalNext, JoiningNext, InvInit, InvNext, PTL
  DEF Spec

=============================================================================
