------------------------------ MODULE Updater -------------------------------
(***************************************************************************)
(* Updates: the manager's look for them (manager/updatestate.go), their    *)
(* download, verification and installation (updater/), and what a UI       *)
(* process of an administrator shows of it (ui/ui.go, ui/updatepage.go).   *)
(*                                                                         *)
(* A version is the sequence of its parts; a list of files, whose          *)
(* signature readFileList has checked, is the set of their versions; a     *)
(* file is what its list says it is or is not.                             *)
(***************************************************************************)
EXTENDS Naturals, Sequences, FiniteSets, SequencesExt

CONSTANTS
  Lists,    \* the lists that the server may have
  Ours,     \* our version
  Admins,   \* the UI processes
  Updates,  \* the updates that are asked for
  Cap,      \* what the channel of an update's progress holds
  MaxNotes  \* bound on the notifications on their way to a process when one
            \* more is sent

UpdaterAssumption ==
  /\ Ours \in Seq(Nat) /\ \A L \in Lists : L \subseteq Seq(Nat)
  /\ IsFiniteSet(Admins)
  /\ Cap \in Nat \ {0, 1} /\ MaxNotes \in Nat

VARIABLES
  official, \* IsRunningOfficialVersion
  list,     \* the list of the server
  state,    \* updateState
  inProgress,
  run,      \* of each update: where it is, the version it installs, and
            \* whether the file is what the list says and is authentic
  progress, \* its channel
  reader,   \* the updates whose progress is read
  files,    \* those with a temporary file
  notes,    \* the notifications on their way to each process
  ui        \* each process: where its start is, whether it has the tab of the
            \* updates, and whether that shows its button

vars == <<official, list, state, inProgress, run, progress, reader, files, notes, ui>>
manager == <<official, list, state>>
updates == <<inProgress, run, progress, reader, files>>

NoVersion == <<>>
Run(at, v, listed, authentic) == [at |-> at, version |-> v, listed |-> listed, authentic |-> authentic]

Init ==
  /\ official \in BOOLEAN
  /\ list \in Lists
  /\ state = "unknown"
  /\ inProgress = FALSE
  /\ run = [u \in Updates |-> Run("unasked", NoVersion, FALSE, FALSE)]
  /\ progress = [u \in Updates |-> <<>>] /\ reader = {} /\ files = {}
  /\ notes = [c \in Admins |-> <<>>]
  /\ ui = [c \in Admins |-> [at |-> "starting", answer |-> "unknown", tab |-> FALSE, button |-> TRUE]]

-----------------------------------------------------------------------------
(* versionNewerThanUs and findCandidate.                                   *)

\* ParseUint takes 16 bits.
Invalid(part) == part >= 2^16
Part(v, i) == IF i <= Len(v) THEN v[i] ELSE 0
Longer(a, b) == IF Len(a) > Len(b) THEN Len(a) ELSE Len(b)

\* Mutant of Newness: parts are compared as far as both have them.
NewnessShort(v) ==
  LET l == IF Len(v) < Len(Ours) THEN Len(v) ELSE Len(Ours)
      from[i \in 1..l + 1] ==
        IF i > l THEN IF Len(v) >= Len(Ours) THEN "newer" ELSE "not newer"
        ELSE IF Invalid(Part(v, i)) THEN "error"
        ELSE IF Part(v, i) = Part(Ours, i) THEN from[i + 1]
        ELSE IF Part(v, i) > Part(Ours, i) THEN "newer" ELSE "not newer"
  IN  from[1]

\* Parts are compared up to the first that differs, and none is read after it.
Newness(v) ==
  LET l == Longer(v, Ours)
      from[i \in 1..l + 1] ==
        IF i > l THEN "not newer"
        ELSE IF Invalid(Part(v, i)) THEN "error"
        ELSE IF Part(v, i) = Part(Ours, i) THEN from[i + 1]
        ELSE IF Part(v, i) > Part(Ours, i) THEN "newer" ELSE "not newer"
  IN  from[1]

Found(v) == [found |-> TRUE, version |-> v]
NotFound == [found |-> FALSE, version |-> NoVersion]

\* The files come in any order: the first that is newer is taken, unless one whose
\* version is no version comes before it, which makes the look fail.
Candidates == {Found(v) : v \in {w \in list : Newness(w) = "newer"}}
Missing == \A v \in list : Newness(v) = "not newer"

\* checkForUpdate, which may fail of itself.
CheckForUpdate ==
  IF ~official THEN {} ELSE Candidates \cup (IF Missing THEN {NotFound} ELSE {})

Publish(what) == notes' = [c \in Admins |-> Append(notes[c], what)]
RoomForNotes == \A c \in Admins : Len(notes[c]) <= MaxNotes

-----------------------------------------------------------------------------
(* The manager's loop, checkForUpdates.  It tells of an update once.       *)

CheckForUpdates ==
  /\ state = "unknown"
  /\ \/ official /\ CheckForUpdate \cap Candidates # {} /\ state' = "found"
     \/ ~official /\ state' = "disabled"
  /\ Publish(state')
  /\ UNCHANGED <<official, list, updates, ui>>

\* A new release; one during a download is left out.
Release ==
  /\ list' \in Lists \ {list}
  /\ \A u \in Updates : run[u].at = "unasked"
  /\ UNCHANGED <<official, state, updates, notes, ui>>

-----------------------------------------------------------------------------
(* DownloadVerifyAndExecute, and the goroutine of ManagerService.Update.   *)

\* Mutant of Begin: the flag is looked at and set in two steps.
BeginRacy(u) ==
  /\ inProgress' = TRUE
  /\ run' = [run EXCEPT ![u].at = "check"]
  /\ progress' = [progress EXCEPT ![u] = <<"activity">>]

\* CompareAndSwap of updateInProgress.
Begin(u) ==
  IF inProgress
  THEN /\ progress' = [progress EXCEPT ![u] = <<"activity", "error">>]
       /\ run' = [run EXCEPT ![u].at = "over"]
       /\ UNCHANGED inProgress
  ELSE /\ inProgress' = TRUE
       /\ run' = [run EXCEPT ![u].at = "check"]
       /\ progress' = [progress EXCEPT ![u] = <<"activity">>]

Update(u) ==
  /\ run[u].at = "unasked"
  /\ Begin(u)
  /\ reader' = reader \cup {u}
  /\ UNCHANGED <<manager, files, notes>>

\* The writer of the channel waits while it is full.
Send(u, what) ==
  /\ Len(progress[u]) < Cap
  /\ progress' = [progress EXCEPT ![u] = Append(@, what)]

Goes(u, r) == run' = [run EXCEPT ![u] = r] /\ Send(u, "activity")

\* The last message comes before the deferred calls.
Fails(u) == run' = [run EXCEPT ![u].at = "closing"] /\ Send(u, "error") /\ UNCHANGED files

Check(u) ==
  /\ run[u].at = "check"
  /\ \/ \E f \in CheckForUpdate : f.found /\ Goes(u, Run("create", f.version, FALSE, FALSE)) /\ UNCHANGED files
     \/ Fails(u)

CreateFile(u) ==
  /\ run[u].at = "create"
  /\ \/ Goes(u, [run[u] EXCEPT !.at = "download"]) /\ files' = files \cup {u}
     \/ Fails(u)

\* The download, and the comparison of its hash.
Download(u) ==
  /\ run[u].at = "download"
  /\ \/ Goes(u, [run[u] EXCEPT !.at = "verify", !.listed = TRUE]) /\ UNCHANGED files
     \/ Fails(u)

\* verifyAuthenticode.
Verify(u) ==
  /\ run[u].at = "verify"
  /\ \/ Goes(u, [run[u] EXCEPT !.at = "install", !.authentic = TRUE]) /\ UNCHANGED files
     \/ Fails(u)

\* runMsi.
Install(u) ==
  /\ run[u].at = "install"
  /\ \/ run' = [run EXCEPT ![u].at = "closing"] /\ Send(u, "complete") /\ UNCHANGED files
     \/ Fails(u)

\* The deferred calls.
Close(u) ==
  /\ run[u].at = "closing"
  /\ run' = [run EXCEPT ![u].at = "over"]
  /\ files' = files \ {u}
  /\ inProgress' = FALSE
  /\ UNCHANGED progress

DoIt(u) ==
  /\ \/ Close(u)
     \/ (Check(u) \/ CreateFile(u) \/ Download(u) \/ Verify(u) \/ Install(u)) /\ UNCHANGED inProgress
  /\ UNCHANGED <<manager, reader, notes, ui>>

\* Mutant of Forward: the goroutine ends with an error alone.
ForwardToError(u) ==
  /\ u \in reader /\ progress[u] # <<>>
  /\ RoomForNotes
  /\ Publish(Head(progress[u]))
  /\ progress' = [progress EXCEPT ![u] = Tail(@)]
  /\ reader' = IF Head(progress[u]) = "error" THEN reader \ {u} ELSE reader
  /\ UNCHANGED <<manager, inProgress, run, files, ui>>

\* IPCServerNotifyUpdateProgress.
Forward(u) ==
  /\ u \in reader /\ progress[u] # <<>>
  /\ RoomForNotes
  /\ Publish(Head(progress[u]))
  /\ progress' = [progress EXCEPT ![u] = Tail(@)]
  /\ reader' = IF Head(progress[u]) \in {"error", "complete"} THEN reader \ {u} ELSE reader
  /\ UNCHANGED <<manager, inProgress, run, files, ui>>

-----------------------------------------------------------------------------
(* A UI process.  Each notification is written by its own goroutine, and   *)
(* so they come in any order (ManagerIpc); none is given up here.           *)

\* RunUI registers its callback and asks for the state thereafter.
Register(c) ==
  /\ ui[c].at = "starting"
  /\ ui' = [ui EXCEPT ![c].at = "registered"]
  /\ UNCHANGED <<manager, updates, notes>>

\* Mutant of Ask: the answer is only looked at if it comes late.
AskNothing(c) ==
  /\ ui[c].at = "registered"
  /\ ui' = [ui EXCEPT ![c].at = "asked"]
  /\ UNCHANGED <<manager, updates, notes>>

\* The answer of UpdateState, which waits for the UI thread.
Ask(c) ==
  /\ ui[c].at = "registered"
  /\ ui' = [ui EXCEPT ![c].at = "asked", ![c].answer = state]
  /\ UNCHANGED <<manager, updates, notes>>

\* mtw.UpdateFound: the tab is there once.
UpdateFound(u) == [u EXCEPT !.tab = TRUE]

Answered(c) ==
  /\ ui[c].at = "asked"
  /\ ui' = [ui EXCEPT ![c] = [(IF @.answer = "found" THEN UpdateFound(@) ELSE @) EXCEPT !.at = "running"]]
  /\ UNCHANGED <<manager, updates, notes>>

\* onUpdateNotification and the page's callback: switchToUpdatingState hides the
\* button, switchToReadyState shows it.
Notified(u, what) ==
  IF what = "found" THEN UpdateFound(u)
  ELSE IF u.tab /\ what = "activity" THEN [u EXCEPT !.button = FALSE]
  ELSE IF u.tab /\ what \in {"error", "complete"} THEN [u EXCEPT !.button = TRUE]
  ELSE u

\* Before the callbacks are there, a notification is for nobody.
Receive(c) ==
  /\ \E i \in 1..Len(notes[c]) :
       /\ notes' = [notes EXCEPT ![c] = RemoveAt(@, i)]
       /\ ui' = IF ui[c].at = "starting" THEN ui ELSE [ui EXCEPT ![c] = Notified(@, notes[c][i])]
  /\ UNCHANGED <<manager, updates>>

\* The button of the page.
Click(c, u) ==
  /\ ui[c].tab /\ ui[c].button
  /\ Update(u)
  /\ ui' = [ui EXCEPT ![c].button = FALSE]

\* The dialog that asks once whether to update, which leaves the page as it is.
Prompted(c, u) ==
  /\ ui[c].tab
  /\ Update(u)
  /\ UNCHANGED ui

-----------------------------------------------------------------------------
UIStep(c) == Register(c) \/ Ask(c) \/ Answered(c) \/ Receive(c)

Next ==
  \/ CheckForUpdates \/ Release
  \/ \E u \in Updates : DoIt(u) \/ Forward(u)
  \/ \E c \in Admins : UIStep(c)
  \/ \E c \in Admins, u \in Updates : Click(c, u) \/ Prompted(c, u)

Spec == Init /\ [][Next]_vars

\* Goroutines and the UI go on; no user has to do anything.
Fairness ==
  /\ \A u \in Updates : WF_vars(DoIt(u)) /\ WF_vars(Forward(u))
  /\ \A c \in Admins : WF_vars(UIStep(c))

FairSpec == Spec /\ Fairness

-----------------------------------------------------------------------------
(* Properties.                                                             *)

Going == {"check", "create", "download", "verify", "install", "closing"}

\* The type of the state; one update goes on at most, and a temporary file is
\* there only while one does (updateInProgress).
TypeOK ==
  /\ state \in {"unknown", "found", "disabled"}
  /\ \A u \in Updates :
       /\ run[u].at \in Going \cup {"unasked", "over"}
       /\ Len(progress[u]) <= Cap
       /\ run[u].at \in Going => inProgress
       /\ u \in files => run[u].at \in Going
  /\ Cardinality({u \in Updates : run[u].at \in Going}) <= 1

\* A version is newer than ours when, where the two first differ, filled up with
\* zeros, its part is the greater one.
IsNewer(v) ==
  \E i \in 1..Longer(v, Ours) :
    /\ Part(v, i) > Part(Ours, i)
    /\ \A j \in 1..i - 1 : Part(v, j) = Part(Ours, j)

\* What is installed is newer, is in the signed list and has an authentic signature
\* (DownloadVerifyAndExecute, versionNewerThanUs).
InstallsNewer ==
  \A u \in Updates :
    run[u].at = "install" => IsNewer(run[u].version) /\ run[u].listed /\ run[u].authentic

\* An update that was asked for ends: its file is deleted, its last message is
\* read, and another one may begin, however full its channel was.
UpdateEnds ==
  \A u \in Updates : []<>(run[u].at \in {"unasked", "over"} /\ u \notin reader \cup files)

\* An update that was found is shown by every UI process, whenever that started:
\* it asks after it has registered for the one notification (RunUI).
FoundIsShown == []<>(state = "found" => \A c \in Admins : ui[c].tab)

\* "Please try again", says the page (ui/updatepage.go:105): when no update goes
\* on and nothing is on its way, its button is there.
CanTryAgain ==
  (~inProgress /\ \A u \in Updates : progress[u] = <<>> /\ \A c \in Admins : notes[c] = <<>>)
    => \A c \in Admins : ui[c].button
=============================================================================
