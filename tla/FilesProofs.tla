---------------------------- MODULE FilesProofs ----------------------------
(***************************************************************************)
(* Whatever number of tasks publish into one directory, whatever modes     *)
(* their playbooks mix, and whatever crashes, retries, errors and cleanups *)
(* come between: the safety properties of Files hold.                      *)
(***************************************************************************)
EXTENDS Files, TLAPS

USE DEF Terminal, Free, Foreign, Dangling

\* The work directory's variables and the places keep their types.
THEOREM FilesTypeCorrect == Spec => []TypeOK
<1>1. Init => TypeOK
  BY FilesAssumption DEF Init, TypeOK, Places, Verdicts, Stages
<1>2. TypeOK /\ [Next]_vars => TypeOK'
  <2> SUFFICES ASSUME TypeOK, [Next]_vars PROVE TypeOK'
    OBVIOUS
  <2>0. Retries \in Nat /\ MaxPlaces \in Nat \ {0}
    BY FilesAssumption
  <2> USE DEF TypeOK, Verdicts, Stages, taskVars, diskVars, runVars, cleanVars, counts, Go,
              Finish
  <2>1. ASSUME NEW t \in Tasks, Claim(t) PROVE TypeOK'
    BY <2>0, <2>1 DEF Claim
  <2>2. ASSUME NEW t \in Tasks, MakeDirectory(t) PROVE TypeOK'
    BY <2>0, <2>2 DEF MakeDirectory
  <2>3. ASSUME NEW t \in Tasks, SetWorkdir(t) PROVE TypeOK'
    BY <2>0, <2>3 DEF SetWorkdir
  <2>4. ASSUME NEW t \in Tasks, WriteTaskJson(t) PROVE TypeOK'
    BY <2>0, <2>4 DEF WriteTaskJson
  <2>5. ASSUME NEW t \in Tasks, MakeArtifact(t) PROVE TypeOK'
    BY <2>0, <2>5 DEF MakeArtifact
  <2>6. ASSUME NEW t \in Tasks, Pick(t) PROVE TypeOK'
    <3>1. CollisionPath(t) \subseteq Places
      BY <2>0 DEF CollisionPath, FirstFree, Places
    <3> QED
      BY <2>0, <2>6, <3>1 DEF Pick, Fail
  <2>7. ASSUME NEW t \in Tasks, CopyBeside(t) PROVE TypeOK'
    BY <2>0, <2>7 DEF CopyBeside, Fail
  <2>8. ASSUME NEW t \in Tasks, Replace(t) PROVE TypeOK'
    BY <2>0, <2>8 DEF Replace, Put, AfterPublish
  <2>9. ASSUME NEW t \in Tasks, Link(t) PROVE TypeOK'
    BY <2>0, <2>9 DEF Link, Put
  <2>10. ASSUME NEW t \in Tasks, LinkTaken(t) PROVE TypeOK'
    BY <2>0, <2>10 DEF LinkTaken, Fail, FirstFree
  <2>11. ASSUME NEW t \in Tasks, UnlinkCopy(t) PROVE TypeOK'
    BY <2>0, <2>11 DEF UnlinkCopy, AfterPublish, Fail
  <2>12. ASSUME NEW t \in Tasks, RemoveInput(t) PROVE TypeOK'
    BY <2>0, <2>12 DEF RemoveInput, InputRemoved
  <2>13. ASSUME NEW t \in Tasks, Done(t) PROVE TypeOK'
    BY <2>0, <2>13 DEF Done
  <2>14. ASSUME NEW t \in Tasks, Finalize(t) PROVE TypeOK'
    BY <2>0, <2>14 DEF Finalize
  <2>15. ASSUME NEW t \in Tasks, Reconcile(t) PROVE TypeOK'
    BY <2>0, <2>15 DEF Reconcile
  <2>16. ASSUME NEW t \in Tasks, UserRetry(t) PROVE TypeOK'
    BY <2>0, <2>16 DEF UserRetry
  <2>17. CASE Crash
    BY <2>17 DEF Crash
  <2>18. ASSUME NEW keep \in KeepStatuses, NEW old \in SUBSET Tasks, ListCandidates(keep, old)
        PROVE  TypeOK'
    BY <2>18 DEF ListCandidates, Candidates
  <2>19. ASSUME NEW t \in Turn, LookAt(t) PROVE TypeOK'
    BY <2>19 DEF Turn, LookAt
  <2>20. ASSUME NEW t \in Turn, RemoveDirectory(t) PROVE TypeOK'
    BY <2>20 DEF Turn, RemoveDirectory
  <2>21. ASSUME NEW t \in Turn, ClearWorkdir(t) PROVE TypeOK'
    BY <2>21 DEF Turn, ClearWorkdir
  <2>22. CASE CleanupDies
    BY <2>22 DEF CleanupDies
  <2>23. CASE UNCHANGED vars
    BY <2>23 DEF vars
  <2> QED
    BY <2>1, <2>2, <2>3, <2>4, <2>5, <2>6, <2>7, <2>8, <2>9, <2>10, <2>11, <2>12, <2>13,
       <2>14, <2>15, <2>16, <2>17, <2>18, <2>19, <2>20, <2>21, <2>22, <2>23
    DEF Next, Work, Cleanup
<1> QED
  BY <1>1, <1>2, PTL DEF Spec

LEMMA OtherSteps ==
  ASSUME [Next]_vars, ~ \E t \in Tasks : Replace(t) \/ Link(t)
  PROVE  UNCHANGED <<job, dest, copies>>
BY DEF Next, Work, Cleanup, vars, diskVars, runVars, Claim, MakeDirectory, SetWorkdir,
   WriteTaskJson, MakeArtifact, Pick, CopyBeside, LinkTaken, UnlinkCopy, RemoveInput, Done,
   Finalize, Reconcile, UserRetry, Crash, ListCandidates, LookAt, RemoveDirectory,
   ClearWorkdir, CleanupDies

LEMMA PlacesStep == ASSUME TypeOK, [Next]_vars PROVE PlacesKept /\ job' = job
<1>1. CASE \E t \in Tasks : Replace(t) \/ Link(t)
  <2>1. PICK t \in Tasks : Replace(t) \/ Link(t)
    BY <1>1
  <2>2. dest' = [dest EXCEPT ![place[t]] = t] /\ job' = job
    BY <2>1 DEF Replace, Link, Put
  <2>3. job[t].mode = "replace" \/ dest[place[t]] = Free
    BY <2>1 DEF Replace, Link
  <2> QED
    BY <2>2, <2>3 DEF TypeOK, PlacesKept
<1>2. CASE ~ \E t \in Tasks : Replace(t) \/ Link(t)
  BY <1>2, OtherSteps DEF PlacesKept
<1> QED
  BY <1>1, <1>2

\* Only a copy that replaces or a link to a free place changes the destination.
THEOREM NothingIsOverwritten == Spec => NothingOverwritten
<1>1. TypeOK /\ [Next]_vars => PlacesKept
  BY PlacesStep
<1> QED
  BY <1>1, FilesTypeCorrect, PTL DEF Spec, NothingOverwritten

---------------------------------------------------------------------------
(* A worker at work has its task in processing; so a task that was over    *)
(* when the cleanup listed it is over still, unless it was retried.        *)

Resting == {"none", "finalize"}
AtWork == \A t \in Tasks : pc[t] \notin Resting => status[t] = "processing"
ListedIsOver == \A t \in todo \ retried : status[t] \in Terminal \ {"flagged"}

LEMMA Idleness == Spec => [](AtWork /\ ListedIsOver)
<1>1. Init => AtWork /\ ListedIsOver
  BY DEF Init, AtWork, ListedIsOver, Resting
<1>2. TypeOK /\ AtWork /\ ListedIsOver /\ [Next]_vars => AtWork' /\ ListedIsOver'
  <2> SUFFICES ASSUME TypeOK, AtWork, ListedIsOver, [Next]_vars
               PROVE  AtWork' /\ ListedIsOver'
    OBVIOUS
  <2> USE DEF AtWork, ListedIsOver, Resting, TypeOK, taskVars, runVars, cleanVars, Go, Finish
  <2>1. ASSUME NEW t \in Tasks, Claim(t) PROVE AtWork' /\ ListedIsOver'
    BY <2>1 DEF Claim
  <2>2. ASSUME NEW t \in Tasks, MakeDirectory(t) PROVE AtWork' /\ ListedIsOver'
    BY <2>2 DEF MakeDirectory
  <2>3. ASSUME NEW t \in Tasks, SetWorkdir(t) PROVE AtWork' /\ ListedIsOver'
    BY <2>3 DEF SetWorkdir
  <2>4. ASSUME NEW t \in Tasks, WriteTaskJson(t) PROVE AtWork' /\ ListedIsOver'
    BY <2>4 DEF WriteTaskJson
  <2>5. ASSUME NEW t \in Tasks, MakeArtifact(t) PROVE AtWork' /\ ListedIsOver'
    BY <2>5 DEF MakeArtifact
  <2>6. ASSUME NEW t \in Tasks, Pick(t) PROVE AtWork' /\ ListedIsOver'
    BY <2>6 DEF Pick, Fail
  <2>7. ASSUME NEW t \in Tasks, CopyBeside(t) PROVE AtWork' /\ ListedIsOver'
    BY <2>7 DEF CopyBeside, Fail
  <2>8. ASSUME NEW t \in Tasks, Replace(t) PROVE AtWork' /\ ListedIsOver'
    BY <2>8 DEF Replace, Put, AfterPublish
  <2>9. ASSUME NEW t \in Tasks, Link(t) PROVE AtWork' /\ ListedIsOver'
    BY <2>9 DEF Link, Put
  <2>10. ASSUME NEW t \in Tasks, LinkTaken(t) PROVE AtWork' /\ ListedIsOver'
    BY <2>10 DEF LinkTaken, Fail
  <2>11. ASSUME NEW t \in Tasks, UnlinkCopy(t) PROVE AtWork' /\ ListedIsOver'
    BY <2>11 DEF UnlinkCopy, AfterPublish, Fail
  <2>12. ASSUME NEW t \in Tasks, RemoveInput(t) PROVE AtWork' /\ ListedIsOver'
    BY <2>12 DEF RemoveInput, InputRemoved
  <2>13. ASSUME NEW t \in Tasks, Done(t) PROVE AtWork' /\ ListedIsOver'
    BY <2>13 DEF Done
  <2>14. ASSUME NEW t \in Tasks, Finalize(t) PROVE AtWork' /\ ListedIsOver'
    BY <2>14 DEF Finalize
  <2>15. ASSUME NEW t \in Tasks, Reconcile(t) PROVE AtWork' /\ ListedIsOver'
    BY <2>15 DEF Reconcile
  <2>16. ASSUME NEW t \in Tasks, UserRetry(t) PROVE AtWork' /\ ListedIsOver'
    BY <2>16 DEF UserRetry
  <2>17. CASE Crash
    BY <2>17 DEF Crash
  <2>18. ASSUME NEW keep \in KeepStatuses, NEW old \in SUBSET Tasks, ListCandidates(keep, old)
        PROVE  AtWork' /\ ListedIsOver'
    BY <2>18 DEF ListCandidates, Candidates, KeepStatuses
  <2>19. ASSUME NEW t \in Turn, LookAt(t) PROVE AtWork' /\ ListedIsOver'
    BY <2>19 DEF Turn, LookAt
  <2>20. ASSUME NEW t \in Turn, RemoveDirectory(t) PROVE AtWork' /\ ListedIsOver'
    BY <2>20 DEF Turn, RemoveDirectory
  <2>21. ASSUME NEW t \in Turn, ClearWorkdir(t) PROVE AtWork' /\ ListedIsOver'
    BY <2>21 DEF Turn, ClearWorkdir
  <2>22. CASE CleanupDies
    BY <2>22 DEF CleanupDies
  <2>23. CASE UNCHANGED vars
    BY <2>23 DEF vars
  <2> QED
    BY <2>1, <2>2, <2>3, <2>4, <2>5, <2>6, <2>7, <2>8, <2>9, <2>10, <2>11, <2>12, <2>13,
       <2>14, <2>15, <2>16, <2>17, <2>18, <2>19, <2>20, <2>21, <2>22, <2>23
    DEF Next, Work, Cleanup
<1> QED
  BY <1>1, <1>2, FilesTypeCorrect, PTL DEF Spec

\* Nothing but the removal of a listed directory takes one away.
THEOREM CleanupSparesTheRest == Spec => CleanedWhenOver
<1>1. ASSUME TypeOK, AtWork, ListedIsOver, [Next]_vars, NEW t \in dir \ dir', t \notin retried
      PROVE  status[t] \in Terminal \ {"flagged"} /\ pc[t] \in {"none", "finalize"}
  <2>1. \E u \in Turn : RemoveDirectory(u)
    BY <1>1 DEF Next, Work, Cleanup, vars, diskVars, Claim, MakeDirectory, SetWorkdir,
       WriteTaskJson, MakeArtifact, Pick, CopyBeside, Replace, Link, LinkTaken, UnlinkCopy,
       RemoveInput, Done, Finalize, Reconcile, UserRetry, Crash, ListCandidates, LookAt,
       ClearWorkdir, CleanupDies
  <2>2. t \in todo
    BY <1>1, <2>1 DEF RemoveDirectory, Turn
  <2> QED
    BY <1>1, <2>2 DEF ListedIsOver, AtWork, Resting, TypeOK
<1>2. TypeOK /\ AtWork /\ ListedIsOver /\ [Next]_vars => RemovedWhenOver
  BY <1>1 DEF RemovedWhenOver
<1> QED
  BY <1>2, FilesTypeCorrect, Idleness, PTL DEF Spec, CleanedWhenOver

---------------------------------------------------------------------------
(* Before it has published, a run has a copy left of what it is allowed.   *)

Before == {"mkdir", "record", "json", "make", "pick", "copy", "publish"}
After == {"untmp", "unlink", "passed"}
CopiesCounted ==
  \A t \in Tasks : /\ copies[t] <= allowed[t]
                   /\ pc[t] \in Before => copies[t] < allowed[t]
                   /\ pc[t] \in After => copies[t] > 0
                   /\ status[t] = "done" => copies[t] > 0

THEOREM AtMostOneCopy == Spec => []PublishedOnce
<1>1. ASSUME Init PROVE CopiesCounted
  <2>1. ASSUME NEW t \in Tasks
        PROVE  copies[t] = 0 /\ allowed[t] = 0 /\ pc[t] = "none" /\ status[t] = "pending"
    BY <1>1, <2>1 DEF Init
  <2>2. ASSUME NEW t \in Tasks
        PROVE  /\ copies[t] <= allowed[t]
               /\ pc[t] \notin Before \cup After
               /\ status[t] # "done"
    BY <2>1, <2>2 DEF Before, After
  <2> QED
    BY <2>2 DEF CopiesCounted
<1>2. TypeOK /\ CopiesCounted /\ [Next]_vars => CopiesCounted'
  <2> SUFFICES ASSUME TypeOK, CopiesCounted, [Next]_vars PROVE CopiesCounted'
    OBVIOUS
  <2> USE DEF CopiesCounted, Before, After, TypeOK, taskVars, runVars, cleanVars, Go, Finish
  <2>1. ASSUME NEW t \in Tasks, Claim(t) PROVE CopiesCounted'
    BY <2>1 DEF Claim
  <2>2. ASSUME NEW t \in Tasks, MakeDirectory(t) PROVE CopiesCounted'
    BY <2>2 DEF MakeDirectory
  <2>3. ASSUME NEW t \in Tasks, SetWorkdir(t) PROVE CopiesCounted'
    BY <2>3 DEF SetWorkdir
  <2>4. ASSUME NEW t \in Tasks, WriteTaskJson(t) PROVE CopiesCounted'
    BY <2>4 DEF WriteTaskJson
  <2>5. ASSUME NEW t \in Tasks, MakeArtifact(t) PROVE CopiesCounted'
    BY <2>5 DEF MakeArtifact
  <2>6. ASSUME NEW t \in Tasks, Pick(t) PROVE CopiesCounted'
    BY <2>6 DEF Pick, Fail
  <2>7. ASSUME NEW t \in Tasks, CopyBeside(t) PROVE CopiesCounted'
    BY <2>7 DEF CopyBeside, Fail
  <2>8. ASSUME NEW t \in Tasks, Replace(t) PROVE CopiesCounted'
    BY <2>8 DEF Replace, Put, AfterPublish
  <2>9. ASSUME NEW t \in Tasks, Link(t) PROVE CopiesCounted'
    BY <2>9 DEF Link, Put
  <2>10. ASSUME NEW t \in Tasks, LinkTaken(t) PROVE CopiesCounted'
    BY <2>10 DEF LinkTaken, Fail
  <2>11. ASSUME NEW t \in Tasks, UnlinkCopy(t) PROVE CopiesCounted'
    BY <2>11 DEF UnlinkCopy, AfterPublish, Fail
  <2>12. ASSUME NEW t \in Tasks, RemoveInput(t) PROVE CopiesCounted'
    BY <2>12 DEF RemoveInput, InputRemoved
  <2>13. ASSUME NEW t \in Tasks, Done(t) PROVE CopiesCounted'
    BY <2>13 DEF Done
  <2>14. ASSUME NEW t \in Tasks, Finalize(t) PROVE CopiesCounted'
    BY <2>14 DEF Finalize
  <2>15. ASSUME NEW t \in Tasks, Reconcile(t) PROVE CopiesCounted'
    BY <2>15 DEF Reconcile
  <2>16. ASSUME NEW t \in Tasks, UserRetry(t) PROVE CopiesCounted'
    BY <2>16 DEF UserRetry
  <2>17. CASE Crash
    BY <2>17 DEF Crash
  <2>18. CASE Cleanup
    BY <2>18 DEF Cleanup, ListCandidates, LookAt, RemoveDirectory, ClearWorkdir, CleanupDies
  <2>19. CASE UNCHANGED vars
    BY <2>19 DEF vars
  <2> QED
    BY <2>1, <2>2, <2>3, <2>4, <2>5, <2>6, <2>7, <2>8, <2>9, <2>10, <2>11, <2>12, <2>13,
       <2>14, <2>15, <2>16, <2>17, <2>18, <2>19
    DEF Next, Work
<1>3. CopiesCounted => PublishedOnce
  BY DEF CopiesCounted, PublishedOnce
<1> QED
  BY <1>1, <1>2, <1>3, FilesTypeCorrect, PTL DEF Spec

---------------------------------------------------------------------------
(* A step removes its input only after it has published.                   *)

InputSafe ==
  \A t \in Tasks : job[t].kind = "move" =>
    /\ t \in source \/ Published(t)
    /\ pc[t] \in After => Published(t)

LEMMA StaysPublished ==
  ASSUME TypeOK, [Next]_vars, NEW t \in Tasks, Published(t) PROVE Published(t)'
<1>1. PlacesKept /\ job' = job
  BY PlacesStep
<1>2. t # Free
  BY FilesAssumption
<1> QED
  BY <1>1, <1>2 DEF Published, PlacesKept

THEOREM NoFileLost == Spec => []NothingLost
<1>1. Init => InputSafe
  BY DEF Init, InputSafe, After
<1>2. TypeOK /\ InputSafe /\ [Next]_vars => InputSafe'
  <2> SUFFICES ASSUME TypeOK, InputSafe, [Next]_vars, NEW t \in Tasks,
                      job'[t].kind = "move"
               PROVE  /\ t \in source' \/ Published(t)'
                      /\ pc'[t] \in After => Published(t)'
    BY DEF InputSafe
  <2>1. job[t].kind = "move" /\ (t \in source \/ Published(t)) /\ (pc[t] \in After => Published(t))
    BY PlacesStep DEF InputSafe
  <2>2. CASE Published(t)
    BY <2>2, StaysPublished
  <2>3. CASE ~Published(t) /\ (Replace(t) \/ Link(t))
    <3>1. place[t] \in Places /\ dest'[place[t]] = t
      BY <2>3 DEF Replace, Link, Put, TypeOK
    <3> QED
      BY <3>1 DEF Published
  <2>4. CASE ~Published(t) /\ ~(Replace(t) \/ Link(t))
    <3>1. t \in source /\ pc[t] \notin After
      BY <2>1, <2>4
    <3>2. t \in source'
      BY <3>1 DEF Next, Work, Cleanup, vars, diskVars, Claim, MakeDirectory, SetWorkdir, WriteTaskJson,
         MakeArtifact, Pick, CopyBeside, Replace, Link, LinkTaken, UnlinkCopy, InputRemoved,
         RemoveInput, Fail, AfterPublish, Done, Finalize, Reconcile, UserRetry, Crash,
         ListCandidates, LookAt, RemoveDirectory, ClearWorkdir, CleanupDies, After, taskVars
    <3>3. pc'[t] \notin After
      BY <2>4, <3>1 DEF Next, Work, Cleanup, vars, diskVars, Claim, MakeDirectory, SetWorkdir, WriteTaskJson,
         MakeArtifact, Pick, CopyBeside, Replace, Link, LinkTaken, UnlinkCopy, InputRemoved,
         RemoveInput, Fail, AfterPublish, Done, Finalize, Reconcile, UserRetry, Crash,
         ListCandidates, LookAt, RemoveDirectory, ClearWorkdir, CleanupDies, After, Go, Finish, TypeOK
    <3> QED
      BY <3>2, <3>3
  <2> QED
    BY <2>2, <2>3, <2>4
<1>3. InputSafe => NothingLost
  BY DEF InputSafe, NothingLost
<1> QED
  BY <1>1, <1>2, <1>3, FilesTypeCorrect, PTL DEF Spec
=============================================================================
