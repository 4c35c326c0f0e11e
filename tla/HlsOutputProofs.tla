--------------------------- MODULE HlsOutputProofs ---------------------------
(***************************************************************************)
(* What holds of HlsOutput for any programs, directories and age.          *)
(*                                                                         *)
(* TypeOK is inductive.  LiveDirectoryKept is about steps, and rests on    *)
(* what keeps the steps that remove something away from a session's        *)
(* directory: it is young, no clean-up has taken it for an old one, and it *)
(* is no other program's.                                                  *)
(***************************************************************************)
EXTENDS HlsOutput, TLAPS

\* The directory of a session is there, and too young for a clean-up.
Young ==
    \A p \in Programs, d \in Dirs : InUse(p, d) => d \in present /\ age[d] < MaxAge

\* No clean-up is removing it, even one that has looked at it long before.
NotOld ==
    \A p, q \in Programs, d \in Dirs : InUse(p, d) => old[q] # d

\* A directory is one program's, also while that removes it and after.
Owned ==
    \A p, q \in Programs : mine[p] # None /\ p # q => mine[p] # mine[q]

IInv == TypeOK /\ Young /\ NotOld /\ Owned

USE DEF progVars, fsVars, InSession, Files

\* Every variable has its range.
Ranges ==
    /\ pc \in [Programs -> InSession \cup {"off", "stat", "entries", "rmdir",
                   "mkdir", "unlink", "remove", "closed"}]
    /\ todo \in [Programs -> SUBSET Dirs]
    /\ old \in [Programs -> Dirs \cup {None}] /\ mine \in [Programs -> Dirs \cup {None}]
    /\ ffmpeg \in [Dirs -> {"none", "running", "ending"}]
    /\ present \subseteq Dirs /\ files \in [Dirs -> SUBSET Files]
    /\ age \in [Dirs -> 0..MaxAge]

\* A program has a directory exactly where it uses one.
Placed ==
    \A p \in Programs :
        /\ old[p] # None <=> pc[p] \in {"entries", "rmdir"}
        /\ mine[p] # None <=> pc[p] \in InSession \cup {"unlink", "remove", "closed"}

\* An ffmpeg that was not told to end has a session.
Fed == \A d \in Dirs : ffmpeg[d] = "running" => \E p \in Programs : InUse(p, d)

\* There is nothing in a directory that does not exist.
Empty == \A d \in Dirs \ present : files[d] = {} /\ age[d] = 0

\* The parts are the type invariant.
LEMMA TypeParts == TypeOK <=> Ranges /\ Placed /\ Fed /\ Empty
  BY DEF TypeOK, Ranges, Placed, Fed, Empty

-----------------------------------------------------------------------------
\* The invariant holds initially.
LEMMA InvInit == Init => IInv
<1>. SUFFICES ASSUME Init PROVE IInv
  OBVIOUS
<1>. USE NamesAssumption, AgeAssumption DEF Init
<1>1. Ranges /\ Placed
  BY DEF Ranges, Placed
<1>2. Fed /\ Empty
  BY DEF Fed, Empty
<1>3. Young /\ NotOld /\ Owned
  BY DEF Young, NotOld, Owned, InUse
<1>. QED
  BY <1>1, <1>2, <1>3, TypeParts DEF IInv

-----------------------------------------------------------------------------
(* The range of the variables                                              *)

\* What removing the entries or the directory leaves behind.
LEMMA RangesRemove ==
    ASSUME Ranges, Empty, NEW d \in Dirs, RemoveEntries(d) \/ RemoveDir(d)
    PROVE  /\ present' \subseteq Dirs /\ files' \in [Dirs -> SUBSET Files]
           /\ age' \in [Dirs -> 0..MaxAge] /\ Empty'
<1>1. CASE RemoveEntries(d)
  BY <1>1, AgeAssumption DEF RemoveEntries, Ranges, Empty
<1>2. CASE RemoveDir(d)
  BY <1>2, AgeAssumption DEF RemoveDir, Ranges, Empty
<1>. QED
  BY <1>1, <1>2

\* A step of a program's Start, Close or crash keeps the ranges, and the directories
\* it has at hand.
LEMMA RangesProgram ==
    ASSUME IInv, NEW p \in Programs,
           StartGlob(p) \/ Start(p) \/ CloseCall(p) \/ Close(p) \/ Crash(p)
    PROVE  Ranges' /\ Placed' /\ Empty'
<1>0. Ranges /\ Placed /\ Empty
  BY TypeParts DEF IInv
<1>. USE <1>0, NamesAssumption DEF Go
<1>1. CASE StartGlob(p)
  BY <1>1 DEF StartGlob, Ranges, Placed, Empty
<1>2. CASE CleanStat(p)
  BY <1>2 DEF CleanStat, Ranges, Placed, Empty
<1>3. CASE CleanEntries(p)
  <2>1. old[p] \in Dirs
    BY <1>3 DEF CleanEntries, Ranges, Placed
  <2>2. UNCHANGED <<todo, old, mine, ffmpeg>> /\ Go(p, "entries", "rmdir")
    BY <1>3 DEF CleanEntries
  <2>3. RemoveEntries(old[p])
    BY <1>3 DEF CleanEntries
  <2>. QED
    BY <2>1, <2>2, <2>3, RangesRemove DEF Ranges, Placed
<1>4. CASE CleanDir(p)
  <2>1. old[p] \in Dirs
    BY <1>4 DEF CleanDir, Ranges, Placed
  <2>2. /\ UNCHANGED <<todo, mine, ffmpeg>> /\ Go(p, "rmdir", "stat")
        /\ old' = [old EXCEPT ![p] = None]
    BY <1>4 DEF CleanDir
  <2>3. RemoveDir(old[p])
    BY <1>4 DEF CleanDir
  <2>. QED
    BY <2>1, <2>2, <2>3, RangesRemove DEF Ranges, Placed
<1>5. CASE CleanDone(p)
  BY <1>5 DEF CleanDone, Ranges, Placed, Empty
<1>6. CASE Mkdir(p)
  BY <1>6 DEF Mkdir, Ranges, Placed, Empty
<1>7. CASE Launch(p)
  BY <1>7 DEF Launch, Ranges, Placed, Empty
<1>8. CASE WaitTick(p) \/ WaitStat(p) \/ WaitFail(p) \/ CloseCall(p)
  BY <1>8 DEF WaitTick, WaitStat, WaitFail, CloseCall, Ranges, Placed, Empty
<1>9. CASE Kill(p)
  BY <1>9 DEF Kill, Ending, Ranges, Placed, Empty
<1>10. CASE CloseEntries(p)
  <2>1. mine[p] \in Dirs
    BY <1>10 DEF CloseEntries, Ranges, Placed
  <2>2. UNCHANGED <<todo, old, mine, ffmpeg>> /\ Go(p, "unlink", "remove")
    BY <1>10 DEF CloseEntries
  <2>3. RemoveEntries(mine[p])
    BY <1>10 DEF CloseEntries
  <2>. QED
    BY <2>1, <2>2, <2>3, RangesRemove DEF Ranges, Placed
<1>11. CASE CloseDir(p)
  <2>1. mine[p] \in Dirs
    BY <1>11 DEF CloseDir, Ranges, Placed
  <2>2. UNCHANGED <<todo, old, mine, ffmpeg>> /\ Go(p, "remove", "closed")
    BY <1>11 DEF CloseDir
  <2>3. RemoveDir(mine[p])
    BY <1>11 DEF CloseDir
  <2>. QED
    BY <2>1, <2>2, <2>3, RangesRemove DEF Ranges, Placed
<1>12. CASE Crash(p)
  BY <1>12 DEF Crash, Ending, Ranges, Placed, Empty
<1>. QED
  BY <1>1, <1>2, <1>3, <1>4, <1>5, <1>6, <1>7, <1>8, <1>9, <1>10, <1>11, <1>12
  DEF Start, Close

\* So does a step of ffmpeg, and so does time.
LEMMA RangesWorld ==
    ASSUME IInv, (\E d \in Dirs : Write(d) \/ Exit(d)) \/ Tick
    PROVE  Ranges' /\ Placed' /\ Empty'
<1>0. Ranges /\ Placed /\ Empty
  BY TypeParts DEF IInv
<1>. USE <1>0, AgeAssumption
<1>1. ASSUME NEW d \in Dirs, Write(d)
      PROVE  Ranges' /\ Placed' /\ Empty'
  BY <1>1 DEF Write, Ranges, Placed, Empty
<1>2. ASSUME NEW d \in Dirs, Exit(d)
      PROVE  Ranges' /\ Placed' /\ Empty'
  BY <1>2 DEF Exit, Ranges, Placed, Empty
<1>3. CASE Tick
  <2>1. age' \in [Dirs -> 0..MaxAge]
    BY <1>3 DEF Tick, Ranges
  <2>2. UNCHANGED <<progVars, ffmpeg, present, files>>
    BY <1>3 DEF Tick
  <2>3. \A d \in Dirs \ present : age'[d] = 0
    BY <1>3 DEF Tick
  <2>. QED
    BY <2>1, <2>2, <2>3 DEF Ranges, Placed, Empty
<1>. QED
  BY <1>1, <1>2, <1>3

-----------------------------------------------------------------------------
(* Whose a directory is                                                    *)

Safe == Fed /\ Young /\ NotOld /\ Owned

\* A step by which a program neither begins a session nor ends one, nor takes a
\* directory for an old one, and which touches no file, changes nothing.
LEMMA SafeKept ==
    ASSUME IInv, UNCHANGED <<mine, present, age, ffmpeg>>,
           \A q \in Programs : pc'[q] \in InSession <=> pc[q] \in InSession,
           \A q \in Programs : old'[q] \in {old[q], None}
    PROVE  Safe'
<1>1. \A q \in Programs, d \in Dirs : InUse(q, d)' <=> InUse(q, d)
  BY DEF InUse
<1>2. Fed /\ Young /\ NotOld /\ Owned
  BY TypeParts DEF IInv
<1>. QED
  BY <1>1, <1>2, NamesAssumption DEF Safe, Fed, Young, NotOld, Owned

\* Removing a directory that is in no session leaves the sessions theirs.
LEMMA SafeRemove ==
    ASSUME IInv, NEW e \in Dirs, RemoveEntries(e) \/ RemoveDir(e),
           \A q \in Programs : ~InUse(q, e),
           UNCHANGED <<mine, ffmpeg>>,
           \A q \in Programs : pc'[q] \in InSession <=> pc[q] \in InSession,
           \A q \in Programs : old'[q] \in {old[q], None}
    PROVE  Safe'
<1>1. \A q \in Programs, d \in Dirs : InUse(q, d)' <=> InUse(q, d)
  BY DEF InUse
<1>2. Fed /\ Young /\ NotOld /\ Owned /\ Ranges
  BY TypeParts DEF IInv
<1>3. \A d \in Dirs : d # e => (d \in present' <=> d \in present) /\ age'[d] = age[d]
  BY <1>2 DEF RemoveEntries, RemoveDir, Ranges
<1>. QED
  BY <1>1, <1>2, <1>3, NamesAssumption DEF Safe, Fed, Young, NotOld, Owned

\* The steps of a clean-up: only a directory that no session can have is taken
\* for an old one, since a session's is young.
LEMMA SafeClean ==
    ASSUME IInv, NEW p \in Programs,
           StartGlob(p) \/ CleanStat(p) \/ CleanEntries(p) \/ CleanDir(p) \/ CleanDone(p)
    PROVE  Safe'
<1>0. Ranges /\ Placed /\ Fed /\ Empty /\ Young /\ NotOld /\ Owned
  BY TypeParts DEF IInv
<1>. USE NamesAssumption DEF Go
<1>1. CASE StartGlob(p)
  <2>1. /\ UNCHANGED <<old, ffmpeg, fsVars>>
        /\ mine' = [mine EXCEPT ![p] = None]
        /\ pc' = [pc EXCEPT ![p] = "stat"] /\ pc[p] \in {"off", "closed"}
    BY <1>1 DEF StartGlob
  <2>2. \A q \in Programs, d \in Dirs : InUse(q, d)' <=> InUse(q, d)
    BY <1>0, <2>1 DEF InUse, Ranges
  <2>3. \A q \in Programs : mine'[q] \in {mine[q], None}
    BY <1>0, <2>1 DEF Ranges
  <2>. QED
    BY <1>0, <2>1, <2>2, <2>3 DEF Safe, Fed, Young, NotOld, Owned
<1>2. CASE CleanStat(p)
  <2>1. UNCHANGED <<mine, ffmpeg, fsVars>>
    BY <1>2 DEF CleanStat
  <2>2. PICK e \in todo[p] :
            IF e \in present /\ age[e] >= MaxAge
            THEN old' = [old EXCEPT ![p] = e] /\ Go(p, "stat", "entries")
            ELSE UNCHANGED <<old, pc>>
    BY <1>2 DEF CleanStat
  <2>3. CASE e \in present /\ age[e] >= MaxAge
    <3>1. e \in Dirs /\ age[e] \in Nat
      BY <1>0, AgeAssumption DEF Ranges
    <3>2. old' = [old EXCEPT ![p] = e] /\ pc[p] = "stat" /\ pc' = [pc EXCEPT ![p] = "entries"]
      BY <2>2, <2>3
    <3>3. \A q \in Programs, d \in Dirs : InUse(q, d)' <=> InUse(q, d)
      BY <1>0, <2>1, <3>2 DEF InUse, Ranges
    <3>4. \A q \in Programs : ~InUse(q, e)
      BY <1>0, <2>3, <3>1, AgeAssumption DEF Young
    <3>5. \A q \in Programs : old'[q] = old[q] \/ old'[q] = e
      BY <1>0, <3>2 DEF Ranges
    <3>. QED
      BY <1>0, <2>1, <3>3, <3>4, <3>5 DEF Safe, Fed, Young, NotOld, Owned
  <2>4. CASE ~(e \in present /\ age[e] >= MaxAge)
    BY <2>1, <2>2, <2>4, SafeKept
  <2>. QED
    BY <2>3, <2>4
<1>3. CASE CleanEntries(p) \/ CleanDir(p)
  <2>1. old[p] \in Dirs
    BY <1>0, <1>3 DEF CleanEntries, CleanDir, Ranges, Placed
  <2>2. \A q \in Programs : ~InUse(q, old[p])
    BY <1>0, <2>1 DEF NotOld
  <2>3. RemoveEntries(old[p]) \/ RemoveDir(old[p])
    BY <1>3 DEF CleanEntries, CleanDir
  <2>4. UNCHANGED <<mine, ffmpeg>> /\ old' \in {old, [old EXCEPT ![p] = None]}
    BY <1>3 DEF CleanEntries, CleanDir
  <2>5. \A q \in Programs : pc'[q] \in InSession <=> pc[q] \in InSession
    BY <1>0, <1>3 DEF CleanEntries, CleanDir, Ranges
  <2>6. \A q \in Programs : old'[q] \in {old[q], None}
    BY <1>0, <2>4 DEF Ranges
  <2>. QED
    BY <2>1, <2>2, <2>3, <2>4, <2>5, <2>6, SafeRemove
<1>4. CASE CleanDone(p)
  <2>1. \A q \in Programs : pc'[q] \in InSession <=> pc[q] \in InSession
    BY <1>0, <1>4 DEF CleanDone, Ranges
  <2>. QED
    BY <1>4, <2>1, SafeKept DEF CleanDone
<1>. QED
  BY <1>1, <1>2, <1>3, <1>4

\* The steps of a session's beginning: its directory is nobody's, is new, and is
\* not on the list of any clean-up that is under way.
LEMMA SafeBegin ==
    ASSUME IInv, NEW p \in Programs, Mkdir(p) \/ Launch(p)
    PROVE  Safe'
<1>0. Ranges /\ Placed /\ Fed /\ Empty /\ Young /\ NotOld /\ Owned
  BY TypeParts DEF IInv
<1>. USE NamesAssumption DEF Go
<1>1. CASE Mkdir(p) /\ pc'[p] = "launch"
  <2>1. PICK e \in Dirs : Drawn(e) /\ mine' = [mine EXCEPT ![p] = e]
                           /\ present' = present \cup {e}
    BY <1>0, <1>1 DEF Mkdir, Ranges
  <2>2. UNCHANGED <<todo, old, ffmpeg, files, age>> /\ pc[p] = "mkdir"
        /\ pc' = [pc EXCEPT ![p] = "launch"]
    BY <1>0, <1>1 DEF Mkdir, Ranges
  <2>3. mine'[p] = e /\ \A q \in Programs : q # p => mine'[q] = mine[q]
    BY <1>0, <2>1 DEF Ranges
  <2>4. \A q \in Programs, d \in Dirs :
            InUse(q, d)' <=> (q = p /\ d = e) \/ InUse(q, d)
    BY <1>0, <2>2, <2>3 DEF InUse, Ranges
  <2>5. age[e] = 0 /\ \A q \in Programs : old[q] # e /\ mine[q] # e
    BY <1>0, <2>1 DEF Drawn, Empty
  <2>6. Fed' /\ Young'
    BY <1>0, <2>1, <2>2, <2>4, <2>5, AgeAssumption DEF Fed, Young
  <2>7. NotOld' /\ Owned'
    BY <1>0, <2>2, <2>3, <2>4, <2>5 DEF NotOld, Owned
  <2>. QED
    BY <2>6, <2>7 DEF Safe
<1>2. CASE Mkdir(p) /\ pc'[p] # "launch"
  <2>1. Go(p, "mkdir", "off") /\ UNCHANGED <<mine, present, old, ffmpeg, age>>
    BY <1>0, <1>2 DEF Mkdir, Ranges
  <2>2. \A q \in Programs : pc'[q] \in InSession <=> pc[q] \in InSession
    BY <1>0, <2>1 DEF Ranges
  <2>. QED
    BY <2>1, <2>2, SafeKept
<1>3. CASE Launch(p)
  <2>1. /\ UNCHANGED <<old, mine, fsVars>>
        /\ ffmpeg' \in {ffmpeg, [ffmpeg EXCEPT ![mine[p]] = "running"]}
        /\ pc[p] = "launch" /\ mine[p] \in Dirs
    BY <1>0, <1>3 DEF Launch, Ranges, Placed
  <2>2. \A q \in Programs, d \in Dirs : InUse(q, d)' <=> InUse(q, d)
    BY <1>0, <1>3, <2>1 DEF Launch, InUse, Ranges
  <2>3. InUse(p, mine[p])
    BY <2>1 DEF InUse
  <2>4. \A d \in Dirs : d # mine[p] => ffmpeg'[d] = ffmpeg[d]
    BY <1>0, <2>1 DEF Ranges
  <2>5. Fed'
    BY <1>0, <2>1, <2>2, <2>3, <2>4 DEF Fed
  <2>. QED
    BY <1>0, <2>1, <2>2, <2>5 DEF Safe, Young, NotOld, Owned
<1>. QED
  BY <1>1, <1>2, <1>3

\* Nor does the wait for the playlist or the decision to close change anything.
LEMMA SafeWait ==
    ASSUME IInv, NEW p \in Programs,
           WaitTick(p) \/ WaitStat(p) \/ WaitFail(p) \/ CloseCall(p)
    PROVE  Safe'
<1>1. UNCHANGED <<old, mine, present, age, ffmpeg>>
  BY DEF WaitTick, WaitStat, WaitFail, CloseCall
<1>2. \A q \in Programs : pc'[q] \in InSession <=> pc[q] \in InSession
  BY TypeParts DEF IInv, Ranges, WaitTick, WaitStat, WaitFail, CloseCall, Go
<1>. QED
  BY <1>1, <1>2, SafeKept

\* The steps of a session's end: ffmpeg is told, and only the directory of the
\* program that closes is removed.
LEMMA SafeEnd ==
    ASSUME IInv, NEW p \in Programs,
           Kill(p) \/ CloseEntries(p) \/ CloseDir(p) \/ Crash(p)
    PROVE  Safe'
<1>0. Ranges /\ Placed /\ Fed /\ Empty /\ Young /\ NotOld /\ Owned
  BY TypeParts DEF IInv
<1>. USE NamesAssumption DEF Go
<1>1. CASE Kill(p) \/ Crash(p)
  <2>1. UNCHANGED fsVars /\ ffmpeg' = Ending(mine[p])
    BY <1>1 DEF Kill, Crash
  <2>2. \A q \in Programs : /\ mine'[q] \in {mine[q], None} /\ old'[q] \in {old[q], None}
                            /\ q # p => mine'[q] = mine[q] /\ pc'[q] = pc[q]
                            /\ pc'[p] \notin InSession
    BY <1>0, <1>1 DEF Kill, Crash, Ranges
  <2>3. \A q \in Programs, d \in Dirs : InUse(q, d)' <=> InUse(q, d) /\ q # p
    BY <2>2 DEF InUse
  <2>4. Fed'
    <3>. SUFFICES ASSUME NEW d \in Dirs, ffmpeg'[d] = "running"
                  PROVE  \E q \in Programs : InUse(q, d)'
      BY DEF Fed
    <3>1. ffmpeg[d] = "running" /\ d # mine[p]
      BY <2>1 DEF Ending
    <3>2. PICK q \in Programs : InUse(q, d)
      BY <1>0, <3>1 DEF Fed
    <3>. QED
      BY <2>3, <3>1, <3>2 DEF InUse
  <2>. QED
    BY <1>0, <2>1, <2>2, <2>3, <2>4 DEF Safe, Young, NotOld, Owned
<1>2. CASE CloseEntries(p) \/ CloseDir(p)
  <2>1. /\ pc[p] \in {"unlink", "remove"} /\ mine[p] \in Dirs
        /\ UNCHANGED <<old, mine, ffmpeg>>
    BY <1>0, <1>2 DEF CloseEntries, CloseDir, Ranges, Placed
  <2>2. \A q \in Programs : ~InUse(q, mine[p])
    BY <1>0, <2>1 DEF InUse, Owned
  <2>3. RemoveEntries(mine[p]) \/ RemoveDir(mine[p])
    BY <1>2 DEF CloseEntries, CloseDir
  <2>4. \A q \in Programs : pc'[q] \in InSession <=> pc[q] \in InSession
    BY <1>0, <1>2 DEF CloseEntries, CloseDir, Ranges
  <2>. QED
    BY <2>1, <2>2, <2>3, <2>4, SafeRemove
<1>. QED
  BY <1>1, <1>2

\* ffmpeg writing makes its directory younger, and time stops short of making a
\* session's directory old.
LEMMA SafeWorld ==
    ASSUME IInv, (\E d \in Dirs : Write(d) \/ Exit(d)) \/ Tick
    PROVE  Safe'
<1>0. Ranges /\ Placed /\ Fed /\ Empty /\ Young /\ NotOld /\ Owned
  BY TypeParts DEF IInv
<1>1. UNCHANGED <<pc, old, mine, present>>
  BY DEF Write, Exit, Tick
<1>2. \A q \in Programs, d \in Dirs : InUse(q, d)' <=> InUse(q, d)
  BY <1>1 DEF InUse
<1>3. \A d \in Dirs : ffmpeg'[d] = "running" => ffmpeg[d] = "running"
  BY <1>0 DEF Write, Exit, Tick, Ranges
<1>4. \A p \in Programs, d \in Dirs : InUse(p, d) => age'[d] < MaxAge
  <2>. SUFFICES ASSUME NEW p \in Programs, NEW d \in Dirs, InUse(p, d)
                PROVE  age'[d] < MaxAge
    OBVIOUS
  <2>1. d \in present /\ age[d] < MaxAge /\ age[d] \in Nat
    BY <1>0, AgeAssumption DEF Young, Ranges
  <2>2. CASE Tick
    <3>1. age[d] + 1 < MaxAge /\ age'[d] = age[d] + 1
      BY <2>1, <2>2 DEF Tick
    <3>. QED
      BY <3>1
  <2>3. CASE \E e \in Dirs : Write(e) \/ Exit(e)
    BY <1>0, <2>1, <2>3, AgeAssumption DEF Write, Exit, Ranges
  <2>. QED
    BY <2>2, <2>3
<1>. QED
  BY <1>0, <1>1, <1>2, <1>3, <1>4 DEF Safe, Fed, Young, NotOld, Owned

-----------------------------------------------------------------------------
\* The invariant is inductive.
LEMMA InvNext == IInv /\ [Next]_vars => IInv'
<1>. SUFFICES ASSUME IInv, [Next]_vars PROVE IInv'
  OBVIOUS
<1>0. Ranges' /\ Placed' /\ Empty' /\ Safe' => IInv'
  BY TypeParts, PTL DEF IInv, Safe
<1>1. ASSUME NEW p \in Programs,
             StartGlob(p) \/ Start(p) \/ CloseCall(p) \/ Close(p) \/ Crash(p)
      PROVE  IInv'
  <2>1. Safe'
    BY <1>1, SafeClean, SafeBegin, SafeWait, SafeEnd DEF Start, Close
  <2>. QED
    BY <1>0, <1>1, <2>1, RangesProgram
<1>2. ASSUME (\E d \in Dirs : Write(d) \/ Exit(d)) \/ Tick
      PROVE  IInv'
  BY <1>0, <1>2, RangesWorld, SafeWorld
<1>3. CASE UNCHANGED vars
  BY <1>3 DEF vars, IInv, TypeOK, Young, NotOld, Owned, InUse
<1>. QED
  BY <1>1, <1>2, <1>3 DEF Next

\* The invariant holds of every behaviour.
LEMMA Invariant == Spec => []IInv
  BY InvInit, InvNext, PTL DEF Spec

\* Every variable keeps its type; an ffmpeg nobody has told to end belongs to a
\* session, however its program got there.
THEOREM TypeCorrect == Spec => []TypeOK
<1>1. IInv => TypeOK
  BY DEF IInv
<1>. QED
  BY <1>1, Invariant, PTL

\* No step takes a file out of a session's directory: the two that remove entries
\* do it in a directory that is old, or that belongs to a program that closes.
LEMMA FilesKept ==
    ASSUME IInv, [Next]_vars, NEW p \in Programs, NEW d \in Dirs, InUse(p, d)
    PROVE  files[d] \subseteq files'[d]
<1>0. Ranges /\ Placed /\ NotOld /\ Owned
  BY TypeParts DEF IInv
<1>1. ASSUME NEW q \in Programs, CleanEntries(q)
      PROVE  files[d] \subseteq files'[d]
  <2>1. old[q] # d
    BY <1>0 DEF NotOld
  <2>. QED
    BY <1>0, <1>1, <2>1 DEF CleanEntries, RemoveEntries, Ranges
<1>2. ASSUME NEW q \in Programs, CloseEntries(q)
      PROVE  files[d] \subseteq files'[d]
  <2>1. pc[q] = "unlink" /\ mine[q] # None
    BY <1>0, <1>2 DEF CloseEntries, Go, Placed
  <2>2. mine[q] # d
    BY <1>0, <2>1 DEF InUse, Owned
  <2>. QED
    BY <1>0, <1>2, <2>2 DEF CloseEntries, RemoveEntries, Ranges
<1>3. ASSUME NEW e \in Dirs, Write(e)
      PROVE  files[d] \subseteq files'[d]
  BY <1>0, <1>3 DEF Write, Ranges
<1>4. ASSUME NEW q \in Programs,
             \/ StartGlob(q) \/ CleanStat(q) \/ CleanDir(q) \/ CleanDone(q)
             \/ Mkdir(q) \/ Launch(q) \/ WaitTick(q) \/ WaitStat(q) \/ WaitFail(q)
             \/ CloseCall(q) \/ Kill(q) \/ CloseDir(q) \/ Crash(q)
      PROVE  files' = files
  BY <1>4
  DEF StartGlob, CleanStat, CleanDir, CleanDone, Mkdir, Launch, WaitTick, WaitStat,
      WaitFail, CloseCall, Kill, CloseDir, Crash, RemoveDir
<1>5. ASSUME (\E e \in Dirs : Exit(e)) \/ Tick \/ UNCHANGED vars
      PROVE  files' = files
  BY <1>5 DEF Exit, Tick, vars
<1>. QED
  BY <1>1, <1>2, <1>3, <1>4, <1>5 DEF Next, Start, Close

\* For any number of programs that start, clean up, close and crash in one
\* temporary directory, a session keeps its directory and what is in it.
THEOREM SessionsKeepDirectories == Spec => LiveDirectoryKept
<1>1. ASSUME IInv, IInv', [Next]_vars, NEW p \in Programs, NEW d \in Dirs,
             InUse(p, d), InUse(p, d)'
      PROVE  d \in present' /\ files[d] \subseteq files'[d]
  BY <1>1, FilesKept DEF IInv, Young
<1>2. IInv /\ IInv' /\ [Next]_vars
          => [\A p \in Programs, d \in Dirs :
                  InUse(p, d) /\ InUse(p, d)' =>
                      d \in present' /\ files[d] \subseteq files'[d]]_vars
  BY <1>1
<1>. QED
  BY <1>2, Invariant, PTL DEF Spec, LiveDirectoryKept

=============================================================================
