------------------------------ MODULE HlsOutput ------------------------------
(***************************************************************************)
(* hls/session.go: sessions that write segments into directories of their  *)
(* own, made by programs that share one directory for temporary files.     *)
(*                                                                         *)
(*   programs   Start, with its clean-up of what earlier programs left     *)
(*              behind, the wait for the playlist, and Close; a program    *)
(*              may crash at any point and start again;                    *)
(*   ffmpeg     one for each directory, which outlives its program by the  *)
(*              time it takes to notice.                                   *)
(*                                                                         *)
(* A segment stands for one with data in it.  Ages are measured in ticks   *)
(* of which MaxAge make the twelve hours of the code.                      *)
(* An operator X_Fault next to X is X with a plausible mistake in it.      *)
(***************************************************************************)
EXTENDS Naturals, FiniteSets

CONSTANTS
    Programs,
    Dirs,     \* names of directories
    MaxAge    \* maxAge of cleanupOldTempDirs

None  == "none"
Files == {"playlist", "segment"}

ASSUME NamesAssumption == IsFiniteSet(Dirs) /\ None \notin Dirs
ASSUME AgeAssumption   == MaxAge \in Nat \ {0}

VARIABLES
    pc,       \* pc[p]: where program p is
    todo,     \* todo[p]: matches of Glob that Start has not looked at yet
    old,      \* old[p]: directory its clean-up is removing
    mine,     \* mine[p]: directory of its session
    ffmpeg,   \* ffmpeg[d]: "none", "running" or "ending"
    present,  \* directories there are
    files,    \* files[d]: what is in d
    age       \* age[d]: time since d changed

progVars == <<pc, todo, old, mine>>
fsVars   == <<present, files, age>>
vars     == <<progVars, ffmpeg, fsVars>>

Init ==
    /\ pc = [p \in Programs |-> "off"] /\ todo = [p \in Programs |-> {}]
    /\ old = [p \in Programs |-> None] /\ mine = [p \in Programs |-> None]
    /\ ffmpeg = [d \in Dirs |-> "none"]
    /\ present = {} /\ files = [d \in Dirs |-> {}] /\ age = [d \in Dirs |-> 0]

Go(p, from, to) == pc[p] = from /\ pc' = [pc EXCEPT ![p] = to]

\* Two steps of os.RemoveAll(d): the entries, which changes the directory if there
\* are any, then the directory itself, which fails if there are entries again.
RemoveEntries(d) ==
    /\ files' = [files EXCEPT ![d] = {}]
    /\ age' = [age EXCEPT ![d] = IF files[d] = {} THEN @ ELSE 0]
    /\ UNCHANGED present

RemoveDir(d) ==
    /\ IF files[d] = {}
       THEN present' = present \ {d} /\ age' = [age EXCEPT ![d] = 0]
       ELSE UNCHANGED <<present, age>>
    /\ UNCHANGED files

-----------------------------------------------------------------------------
(* Start: cleanupOldTempDirs                                               *)

\* Start, in a program that has no session or has closed it: Glob.
StartGlob(p) ==
    /\ Go(p, "off", "stat") \/ Go(p, "closed", "stat")
    /\ todo' = [todo EXCEPT ![p] = present]
    /\ mine' = [mine EXCEPT ![p] = None]
    /\ UNCHANGED <<old, ffmpeg, fsVars>>

\* Take every directory that matches for an old one.
CleanStat_AnyAge(p) ==
    /\ pc[p] = "stat"
    /\ \E d \in todo[p] :
           /\ todo' = [todo EXCEPT ![p] = @ \ {d}]
           /\ IF d \in present
              THEN old' = [old EXCEPT ![p] = d] /\ Go(p, "stat", "entries")
              ELSE UNCHANGED <<old, pc>>
    /\ UNCHANGED <<mine, ffmpeg, fsVars>>

\* The next match: gone, too young, or to be removed.
CleanStat(p) ==
    /\ pc[p] = "stat"
    /\ \E d \in todo[p] :
           /\ todo' = [todo EXCEPT ![p] = @ \ {d}]
           /\ IF d \in present /\ age[d] >= MaxAge
              THEN old' = [old EXCEPT ![p] = d] /\ Go(p, "stat", "entries")
              ELSE UNCHANGED <<old, pc>>
    /\ UNCHANGED <<mine, ffmpeg, fsVars>>

\* os.Remove, which only removes empty directories.
CleanEntries_Skip(p) ==
    /\ Go(p, "entries", "rmdir")
    /\ UNCHANGED <<todo, old, mine, ffmpeg, fsVars>>

CleanEntries(p) ==
    /\ Go(p, "entries", "rmdir")
    /\ RemoveEntries(old[p])
    /\ UNCHANGED <<todo, old, mine, ffmpeg>>

\* Its error is ignored.
CleanDir(p) ==
    /\ Go(p, "rmdir", "stat")
    /\ RemoveDir(old[p])
    /\ old' = [old EXCEPT ![p] = None]
    /\ UNCHANGED <<todo, mine, ffmpeg>>

CleanDone(p) ==
    /\ todo[p] = {} /\ Go(p, "stat", "mkdir")
    /\ UNCHANGED <<todo, old, mine, ffmpeg, fsVars>>

-----------------------------------------------------------------------------
(* Start: the session                                                      *)

\* os.MkdirTemp draws names until one is free.  A name is random: it is not
\* drawn again while somebody still has it from before.  It may fail, and so may
\* pipeline.Prepare in front of it.
Drawn(d) ==
    /\ d \notin present /\ ffmpeg[d] = "none"
    /\ \A p \in Programs : d \notin todo[p] \cup {old[p], mine[p]}

Mkdir(p) ==
    /\ \/ /\ Go(p, "mkdir", "launch")
          /\ \E d \in Dirs :
                 /\ Drawn(d)
                 /\ mine' = [mine EXCEPT ![p] = d]
                 /\ present' = present \cup {d}
       \/ Go(p, "mkdir", "off") /\ UNCHANGED <<mine, present>>
    /\ UNCHANGED <<todo, old, ffmpeg, files, age>>

\* Prepared.Launch; a failure goes through Close, with nothing to kill.
Launch(p) ==
    /\ \/ /\ Go(p, "launch", "wait")
          /\ ffmpeg' = [ffmpeg EXCEPT ![mine[p]] = "running"]
       \/ Go(p, "launch", "kill") /\ UNCHANGED ffmpeg
    /\ UNCHANGED <<todo, old, mine, fsVars>>

\* waitForPlaylistReady: the ticker finds a playlist ...
WaitTick(p) ==
    /\ Go(p, "wait", "listed") /\ "playlist" \in files[mine[p]]
    /\ UNCHANGED <<todo, old, mine, ffmpeg, fsVars>>

\* ... and a segment it lists, or not yet.
WaitStat(p) ==
    /\ \/ Go(p, "listed", "ok") /\ "segment" \in files[mine[p]]
       \/ Go(p, "listed", "wait") /\ "segment" \notin files[mine[p]]
    /\ UNCHANGED <<todo, old, mine, ffmpeg, fsVars>>

\* ffmpeg has exited, or StartupTimeout expires.
WaitFail(p) ==
    /\ Go(p, "wait", "kill")
    /\ UNCHANGED <<todo, old, mine, ffmpeg, fsVars>>

Start(p) == \/ CleanStat(p) \/ CleanEntries(p) \/ CleanDir(p) \/ CleanDone(p)
            \/ Mkdir(p) \/ Launch(p)
            \/ WaitTick(p) \/ WaitStat(p) \/ WaitFail(p)

-----------------------------------------------------------------------------
(* Close                                                                   *)

\* The program closes its session, or the goroutine waiting for ffmpeg does.
CloseCall(p) ==
    /\ Go(p, "ok", "kill")
    /\ UNCHANGED <<todo, old, mine, ffmpeg, fsVars>>

\* Unwind without killing ffmpeg.
Kill_Missing(p) ==
    /\ Go(p, "kill", "unlink")
    /\ UNCHANGED <<todo, old, mine, ffmpeg, fsVars>>

\* Told that its program is gone, or to die, ffmpeg takes some time.
Ending(d) == [e \in Dirs |-> IF e = d /\ ffmpeg[e] = "running" THEN "ending" ELSE ffmpeg[e]]

\* Session.Close up to Cleanup: Kill does not wait.
Kill(p) ==
    /\ Go(p, "kill", "unlink")
    /\ ffmpeg' = Ending(mine[p])
    /\ UNCHANGED <<todo, old, mine, fsVars>>

\* Cleanup: os.RemoveAll, whose error Close returns.
CloseEntries(p) ==
    /\ Go(p, "unlink", "remove")
    /\ RemoveEntries(mine[p])
    /\ UNCHANGED <<todo, old, mine, ffmpeg>>

CloseDir(p) ==
    /\ Go(p, "remove", "closed")
    /\ RemoveDir(mine[p])
    /\ UNCHANGED <<todo, old, mine, ffmpeg>>

Close(p) == Kill(p) \/ CloseEntries(p) \/ CloseDir(p)

-----------------------------------------------------------------------------
(* The world                                                               *)

\* A program ends without closing its session; ffmpeg's input ends.
Crash(p) ==
    /\ pc[p] # "off"
    /\ pc' = [pc EXCEPT ![p] = "off"] /\ todo' = [todo EXCEPT ![p] = {}]
    /\ old' = [old EXCEPT ![p] = None] /\ mine' = [mine EXCEPT ![p] = None]
    /\ ffmpeg' = Ending(mine[p])
    /\ UNCHANGED fsVars

\* ffmpeg writes a file into its directory, if that is still there.
Write(d) ==
    /\ ffmpeg[d] \in {"running", "ending"} /\ d \in present
    /\ \E f \in Files : files' = [files EXCEPT ![d] = @ \cup {f}]
    /\ age' = [age EXCEPT ![d] = 0]
    /\ UNCHANGED <<progVars, ffmpeg, present>>

Exit(d) ==
    /\ ffmpeg[d] \in {"running", "ending"}
    /\ ffmpeg' = [ffmpeg EXCEPT ![d] = "none"]
    /\ UNCHANGED <<progVars, fsVars>>

InSession == {"launch", "wait", "listed", "ok", "kill"}
InUse(p, d) == pc[p] \in InSession /\ mine[p] = d

\* Time passes.  A session is assumed to change its directory at least once in
\* MaxAge: it writes segments, or is closed by its start-up timeout.
Tick ==
    /\ \A p \in Programs, d \in Dirs : InUse(p, d) => age[d] + 1 < MaxAge
    /\ age' = [d \in Dirs |-> IF d \notin present THEN 0
                              ELSE IF age[d] < MaxAge THEN age[d] + 1 ELSE MaxAge]
    /\ UNCHANGED <<progVars, ffmpeg, present, files>>

-----------------------------------------------------------------------------
Next == \/ \E p \in Programs : \/ StartGlob(p) \/ Start(p)
                               \/ CloseCall(p) \/ Close(p) \/ Crash(p)
        \/ \E d \in Dirs : Write(d) \/ Exit(d)
        \/ Tick

Spec == Init /\ [][Next]_vars

\* Programs go on with what they do, time passes, a running ffmpeg writes and
\* one whose program is gone exits; whoever waits for ffmpeg closes the session
\* when it does.  The start-up timer expires and its case of the select is taken
\* some time, although the ticker's is ready again and again.  Not assumed: that
\* a program starts or closes a session.
Fairness ==
    /\ \A p \in Programs :
           /\ WF_vars(Start(p)) /\ SF_vars(WaitFail(p)) /\ WF_vars(Close(p))
           /\ WF_vars(CloseCall(p) /\ ffmpeg[mine[p]] = "none")
    /\ \A d \in Dirs : /\ WF_vars(ffmpeg[d] = "running" /\ Write(d))
                       /\ WF_vars(ffmpeg[d] = "ending" /\ Exit(d))
    /\ WF_vars(Tick)

FairSpec == Spec /\ Fairness

-----------------------------------------------------------------------------
(* Properties                                                              *)

\* In particular an ffmpeg that was not told to end belongs to a session.
TypeOK ==
    /\ pc \in [Programs -> InSession \cup {"off", "stat", "entries", "rmdir",
                   "mkdir", "unlink", "remove", "closed"}]
    /\ todo \in [Programs -> SUBSET Dirs]
    /\ old \in [Programs -> Dirs \cup {None}] /\ mine \in [Programs -> Dirs \cup {None}]
    /\ \A p \in Programs :
           /\ old[p] # None <=> pc[p] \in {"entries", "rmdir"}
           /\ mine[p] # None <=> pc[p] \in InSession \cup {"unlink", "remove", "closed"}
    /\ ffmpeg \in [Dirs -> {"none", "running", "ending"}]
    /\ \A d \in Dirs : ffmpeg[d] = "running" => \E p \in Programs : InUse(p, d)
    /\ present \subseteq Dirs /\ files \in [Dirs -> SUBSET Files]
    /\ \A d \in Dirs \ present : files[d] = {} /\ age[d] = 0
    /\ age \in [Dirs -> 0..MaxAge]

\* However the starts, closes and crashes of other programs interleave with it,
\* a session keeps its directory and what is in it until its own Close.
LiveDirectoryKept ==
    [][\A p \in Programs, d \in Dirs :
           InUse(p, d) /\ InUse(p, d)' => d \in present' /\ files[d] \subseteq files'[d]]_vars

\* What a crash, or a Close whose removal failed, left behind is removed by some
\* later Start, provided programs go on getting through their clean-up.
Abandoned(d) == d \in present /\ \A p \in Programs : mine[p] = d => pc[p] = "closed"
Reclaimed ==
    []<>(\E p \in Programs : pc[p] = "mkdir")
        => \A d \in Dirs : Abandoned(d) ~> d \notin present

\* lifecycle_test.go and the comment above Session.Close: when Close returns the
\* directory is gone, and it goes after ffmpeg is dead.
CloseRemoves == \A p \in Programs : pc[p] = "closed" => mine[p] \notin present

=============================================================================
