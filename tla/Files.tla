------------------------------- MODULE Files -------------------------------
(***************************************************************************)
(* The files of a task: its work directory (core/workdir.py), what it      *)
(* publishes (executors/builtin/file_steps.py and image.export of          *)
(* executors/headless/steps.py) and the cleanup (core/retention.py).       *)
(*                                                                         *)
(* Every task belongs to a pipeline of its own, so that all may run side   *)
(* by side, and all publish into one directory; a user and other programs  *)
(* own files there as well.  Between two actions of a worker anything may  *)
(* happen that another worker, the user, a cleanup or a crash does.        *)
(*                                                                         *)
(* A definition marked "mistake" is the next definition with a bug, which  *)
(* the property it names finds; it is not used.                            *)
(***************************************************************************)
EXTENDS Integers

CONSTANTS
  Tasks,          \* a set of task ids
  Jobs,           \* what the playbooks may do: a set of [task -> [kind, mode, direct]].
                  \* Direct: the publishing step is the first and takes the source
  Retries,        \* retries of the publishing step
  Policy,         \* reconcile_stale_policy, "retry" or "fail"
  MaxPlaces,      \* bound: the name, name-2, ... name-MaxPlaces
  MaxFaults,      \* bound: errors of the file system
  MaxCrashes,     \* bound: crashes of the program and of a cleanup
  MaxRetries,     \* bound: retries by the user
  MaxPasses       \* bound: cleanups

ASSUME FilesAssumption ==
  /\ Tasks \subseteq Nat \ {0}
  /\ Jobs \subseteq [Tasks -> [kind : {"move", "export"},
                               mode : {"suffix", "replace", "fail"}, direct : BOOLEAN]]
  /\ Retries \in Nat /\ Policy \in {"retry", "fail"}
  /\ MaxPlaces \in Nat \ {0}
  /\ MaxFaults \in Nat /\ MaxCrashes \in Nat /\ MaxRetries \in Nat /\ MaxPasses \in Nat

VARIABLES
  job,            \* the playbook of a task; never changes
  status,         \* tasks.status
  recorded,       \* tasks whose column workdir is set
  dir,            \* tasks whose work directory is on disk
  artifact,       \* and with it the output of the step before the publishing one
  source,         \* tasks whose watched file is there
  dest,           \* what is at each place of the destination directory
  pc,             \* where the worker of a task is
  place,          \* final: where it wants to publish
  attempt,        \* attempts of the publishing step
  copies,         \* how often a task has published
  allowed,        \* how often it may: its runs, and errors after publishing
  todo,           \* tasks the cleanup has listed and not done with
  cleaning,       \* where the cleanup is
  retried,        \* tasks retried since the cleanup listed them
  faults, crashes, retries, passes

taskVars == <<status, recorded>>
diskVars == <<dir, artifact, source, dest>>
runVars == <<place, attempt, copies>>
counts == <<faults, crashes, retries>>
cleanVars == <<todo, cleaning, retried, passes>>
vars == <<job, taskVars, diskVars, pc, runVars, allowed, cleanVars, counts>>

Places == 1..MaxPlaces
Free == 0                    \* nothing there
Foreign == -1                \* a file of somebody else
Dangling == -2               \* a symbolic link to nothing
Terminal == {"done", "failed", "flagged"}

\* Path.exists follows a link, os.link does not.
Exists(p) == dest[p] \notin {Free, Dangling}
HasInput(t) == IF job[t].direct THEN t \in source ELSE t \in artifact
\* _collision_path looks for the first place without a file.
FirstFree == {p \in Places : ~Exists(p) /\ \A q \in Places : q < p => Exists(q)}

Go(t, where) == pc' = [pc EXCEPT ![t] = where]
Finish(t, verdict) ==
  /\ status' = [status EXCEPT ![t] = verdict]
  /\ Go(t, "finalize")

---------------------------------------------------------------------------
(* _run_task_inner, up to the publishing step.                             *)

Claim(t) ==
  /\ pc[t] = "none" /\ status[t] = "pending"
  /\ status' = [status EXCEPT ![t] = "processing"]
  /\ Go(t, "mkdir")
  /\ attempt' = [attempt EXCEPT ![t] = 1]
  /\ allowed' = [allowed EXCEPT ![t] = @ + 1]
  /\ UNCHANGED <<job, recorded, diskVars, place, copies, cleanVars, counts>>

MakeDirectory(t) ==
  /\ pc[t] = "mkdir"
  /\ dir' = dir \cup {t}
  /\ Go(t, "record")
  /\ UNCHANGED <<job, taskVars, artifact, source, dest, runVars, allowed, cleanVars,
                 counts>>

SetWorkdir(t) ==
  /\ pc[t] = "record"
  /\ recorded' = recorded \cup {t}
  /\ Go(t, "json")
  /\ UNCHANGED <<job, status, diskVars, runVars, allowed, cleanVars, counts>>

\* Without the directory the write raises: runner_error.
WriteTaskJson(t) ==
  /\ pc[t] = "json"
  /\ \/ /\ t \in dir
        /\ Go(t, IF job[t].direct THEN "pick" ELSE "make")
        /\ UNCHANGED status
     \/ t \notin dir /\ Finish(t, "failed")
  /\ UNCHANGED <<job, recorded, diskVars, runVars, allowed, cleanVars, counts>>

\* file.rename_from_manifest and its like copy the source below the work
\* directory; step_dir makes the directory again if it has to.
MakeArtifact(t) ==
  /\ pc[t] = "make"
  /\ dir' = dir \cup {t}
  /\ artifact' = artifact \cup {t}
  /\ Go(t, "pick")
  /\ UNCHANGED <<job, taskVars, source, dest, runVars, allowed, cleanVars, counts>>

---------------------------------------------------------------------------
(* The publishing step: file.move and image.export.                        *)

\* The step fails: another attempt, or the ladder is exhausted.
Fail(t) ==
  \/ /\ attempt[t] <= Retries
     /\ attempt' = [attempt EXCEPT ![t] = @ + 1]
     /\ Go(t, "pick")
     /\ UNCHANGED status
  \/ /\ attempt[t] > Retries
     /\ Finish(t, "flagged")
     /\ UNCHANGED attempt

\* An export refuses a link that leaves the destination; a move follows it.
Refused(t) ==
  \/ ~HasInput(t)
  \/ job[t].mode = "fail" /\ Exists(1)
  \/ job[t].kind = "export" /\ dest[1] = Dangling
CollisionPath(t) == IF job[t].mode = "suffix" THEN FirstFree ELSE {1}

Pick(t) ==
  /\ pc[t] = "pick"
  /\ dir' = dir \cup {t}
  /\ \/ Refused(t) /\ Fail(t) /\ UNCHANGED place
     \/ /\ ~Refused(t)
        /\ \E p \in CollisionPath(t) : place' = [place EXCEPT ![t] = p]
        /\ Go(t, "copy")
        /\ UNCHANGED <<status, attempt>>
  /\ UNCHANGED <<job, recorded, artifact, source, dest, copies, allowed, cleanVars,
                 counts>>

\* Mistake (NothingLost): a move moves its input beside the destination.
MoveBeside(t) ==
  /\ pc[t] = "copy"
  /\ \/ HasInput(t) /\ Go(t, "publish") /\ UNCHANGED <<status, attempt, faults>>
     \/ ~HasInput(t) /\ Fail(t) /\ UNCHANGED faults
     \/ faults < MaxFaults /\ faults' = faults + 1 /\ Fail(t)
  /\ source' = IF job[t].kind = "move" THEN source \ {t} ELSE source
  /\ UNCHANGED <<job, recorded, dir, artifact, dest, place, copies, allowed, cleanVars,
                 crashes, retries>>
\* The input is copied beside its destination; what is left of the copy is
\* removed when the step fails.
CopyBeside(t) ==
  /\ pc[t] = "copy"
  /\ \/ HasInput(t) /\ Go(t, "publish") /\ UNCHANGED <<status, attempt, faults>>
     \/ ~HasInput(t) /\ Fail(t) /\ UNCHANGED faults
     \/ faults < MaxFaults /\ faults' = faults + 1 /\ Fail(t)
  /\ UNCHANGED <<job, recorded, diskVars, place, copies, allowed, cleanVars,
                 crashes, retries>>

Put(t) ==
  /\ dest' = [dest EXCEPT ![place[t]] = t]
  /\ copies' = [copies EXCEPT ![t] = @ + 1]
AfterPublish(t) == Go(t, IF job[t].kind = "move" THEN "unlink" ELSE "passed")

Replace(t) ==
  /\ pc[t] = "publish" /\ job[t].mode = "replace"
  /\ Put(t) /\ AfterPublish(t)
  /\ UNCHANGED <<job, taskVars, dir, artifact, source, place, attempt, allowed, cleanVars,
                 counts>>

\* Mistake (NothingOverwritten): the copy is renamed to its place.
RenameOver(t) ==
  /\ pc[t] = "publish" /\ job[t].mode # "replace"
  /\ Put(t) /\ Go(t, "untmp")
  /\ UNCHANGED <<job, taskVars, dir, artifact, source, place, attempt, allowed, cleanVars,
                 counts>>
\* os.link: somebody may have come first, whatever exists() has said.
Link(t) ==
  /\ pc[t] = "publish" /\ job[t].mode # "replace" /\ dest[place[t]] = Free
  /\ Put(t) /\ Go(t, "untmp")
  /\ UNCHANGED <<job, taskVars, dir, artifact, source, place, attempt, allowed, cleanVars,
                 counts>>

\* Mistake (WorkersFinish): the same place is tried again.
LinkAgain(t) ==
  /\ pc[t] = "publish" /\ job[t].mode # "replace" /\ dest[place[t]] # Free
  /\ Go(t, "publish")
  /\ UNCHANGED <<job, taskVars, diskVars, runVars, allowed, cleanVars, counts>>
LinkTaken(t) ==
  /\ pc[t] = "publish" /\ job[t].mode # "replace" /\ dest[place[t]] # Free
  /\ \/ job[t].mode = "fail" /\ Fail(t) /\ UNCHANGED place
     \/ /\ job[t].mode = "suffix"
        /\ \E p \in FirstFree : place' = [place EXCEPT ![t] = p]
        /\ UNCHANGED <<status, attempt, pc>>
  /\ UNCHANGED <<job, recorded, diskVars, copies, allowed, cleanVars, counts>>

\* The second half of _publish.  An error in it fails a step that has
\* published, and the next attempt publishes once more.
UnlinkCopy(t) ==
  /\ pc[t] = "untmp"
  /\ \/ AfterPublish(t) /\ UNCHANGED <<status, attempt, allowed, faults>>
     \/ /\ faults < MaxFaults /\ faults' = faults + 1
        /\ allowed' = [allowed EXCEPT ![t] = @ + 1]
        /\ Fail(t)
  /\ UNCHANGED <<job, recorded, diskVars, place, copies, cleanVars,
                 crashes, retries>>

InputRemoved(t) ==
  /\ source' = IF job[t].direct THEN source \ {t} ELSE source
  /\ artifact' = IF job[t].direct THEN artifact ELSE artifact \ {t}
\* Mistake (PublishedOnce): an input that cannot be removed fails the step.
RemoveInputStrictly(t) ==
  /\ pc[t] = "unlink"
  /\ \/ InputRemoved(t) /\ Go(t, "passed") /\ UNCHANGED <<status, attempt, faults>>
     \/ /\ faults < MaxFaults /\ faults' = faults + 1
        /\ Fail(t) /\ UNCHANGED <<artifact, source>>
  /\ UNCHANGED <<job, recorded, dir, dest, place, copies, allowed, cleanVars,
                 crashes, retries>>
\* An input that cannot be removed is a warning.
RemoveInput(t) ==
  /\ pc[t] = "unlink"
  /\ \/ InputRemoved(t) /\ UNCHANGED faults
     \/ faults < MaxFaults /\ faults' = faults + 1 /\ UNCHANGED <<artifact, source>>
  /\ Go(t, "passed")
  /\ UNCHANGED <<job, taskVars, dir, dest, runVars, allowed, cleanVars,
                 crashes, retries>>

Done(t) ==
  /\ pc[t] = "passed"
  /\ Finish(t, "done")
  /\ UNCHANGED <<job, recorded, diskVars, runVars, allowed, cleanVars, counts>>
\* _finalize_task_json, which raises when the directory is gone.
Finalize(t) ==
  /\ pc[t] = "finalize"
  /\ Go(t, "none")
  /\ UNCHANGED <<job, taskVars, diskVars, runVars, allowed, cleanVars, counts>>

---------------------------------------------------------------------------
(* Recovery, the user and the cleanup.                                     *)

Crash ==
  /\ crashes < MaxCrashes /\ crashes' = crashes + 1
  /\ pc' = [t \in Tasks |-> "none"]
  /\ UNCHANGED <<job, taskVars, diskVars, runVars, allowed, cleanVars, faults, retries>>

\* Ledger.reconcile.
Reconcile(t) ==
  /\ pc[t] = "none" /\ status[t] = "processing"
  /\ status' = [status EXCEPT ![t] = IF Policy = "retry" THEN "pending" ELSE "failed"]
  /\ UNCHANGED <<job, recorded, diskVars, pc, runVars, allowed, cleanVars,
                 counts>>

UserRetry(t) ==
  /\ status[t] \in {"failed", "flagged"}
  /\ retries < MaxRetries /\ retries' = retries + 1
  /\ status' = [status EXCEPT ![t] = "pending"]
  /\ retried' = retried \cup {t}
  /\ UNCHANGED <<job, recorded, diskVars, pc, runVars, allowed, todo, cleaning, passes,
                 faults, crashes>>

KeepStatuses == {{"flagged", "failed"}, {"flagged"}}
\* Mistake (CleanedWhenOver): the evidence is not kept.
CandidatesAll(keep) == {t \in recorded : status[t] \in Terminal}
\* list_retention_candidates and _skip_reason, which looks at what was listed.
Candidates(keep) == {t \in recorded : status[t] \in Terminal \ keep}

\* Old: the tasks whose finished_at is before the cutoff, with --days 0 all.
ListCandidates(keep, old) ==
  /\ todo = {} /\ passes < MaxPasses /\ passes' = passes + 1
  /\ todo' = Candidates(keep) \cap old /\ retried' = {}
  /\ UNCHANGED <<job, taskVars, diskVars, pc, runVars, allowed, cleaning, counts>>

Turn == {t \in todo : \A u \in todo : t <= u}
LookAt(t) ==
  /\ cleaning = "look"
  /\ \/ t \in dir /\ cleaning' = "remove" /\ UNCHANGED <<recorded, todo>>
     \/ /\ t \notin dir
        /\ recorded' = recorded \ {t} /\ todo' = todo \ {t}
        /\ UNCHANGED cleaning
  /\ UNCHANGED <<job, status, diskVars, pc, runVars, allowed, retried, passes, counts>>
RemoveDirectory(t) ==
  /\ cleaning = "remove" /\ cleaning' = "clear"
  /\ dir' = dir \ {t}
  /\ artifact' = artifact \ {t}
  /\ UNCHANGED <<job, taskVars, source, dest, pc, runVars, allowed, todo, retried, passes,
                 counts>>
ClearWorkdir(t) ==
  /\ cleaning = "clear" /\ cleaning' = "look"
  /\ recorded' = recorded \ {t}
  /\ todo' = todo \ {t}
  /\ UNCHANGED <<job, status, diskVars, pc, runVars, allowed, retried, passes, counts>>
CleanupDies ==
  /\ todo # {} /\ crashes < MaxCrashes /\ crashes' = crashes + 1
  /\ todo' = {} /\ cleaning' = "look"
  /\ UNCHANGED <<job, taskVars, diskVars, pc, runVars, allowed, retried, passes,
                 faults, retries>>

---------------------------------------------------------------------------
Init ==
  /\ job \in Jobs
  /\ status = [t \in Tasks |-> "pending"] /\ pc = [t \in Tasks |-> "none"]
  /\ recorded = {} /\ dir = {} /\ artifact = {} /\ source = Tasks
  /\ \E first \in {Free, Foreign, Dangling} :
       dest = [p \in Places |-> IF p = 1 THEN first ELSE Free]
  /\ place = [t \in Tasks |-> 1] /\ attempt = place
  /\ copies = [t \in Tasks |-> 0] /\ allowed = copies
  /\ todo = {} /\ cleaning = "look" /\ retried = {}
  /\ faults = 0 /\ crashes = 0 /\ retries = 0 /\ passes = 0

Work(t) ==
  \/ Claim(t) \/ MakeDirectory(t) \/ SetWorkdir(t) \/ WriteTaskJson(t) \/ MakeArtifact(t)
  \/ Pick(t) \/ CopyBeside(t) \/ Replace(t) \/ Link(t) \/ LinkTaken(t) \/ UnlinkCopy(t)
  \/ RemoveInput(t) \/ Done(t) \/ Finalize(t)
Cleanup ==
  \/ \E keep \in KeepStatuses, old \in SUBSET Tasks : ListCandidates(keep, old)
  \/ \E t \in Turn : LookAt(t) \/ RemoveDirectory(t) \/ ClearWorkdir(t)
  \/ CleanupDies

Next ==
  \/ \E t \in Tasks : Work(t) \/ Reconcile(t) \/ UserRetry(t)
  \/ Crash \/ Cleanup

Spec == Init /\ [][Next]_vars
FairSpec == Spec /\ \A t \in Tasks : WF_vars(Work(t))

---------------------------------------------------------------------------
(* Properties.                                                             *)

Verdicts == Terminal \cup {"pending", "processing"}
Stages == {"none", "mkdir", "record", "json", "make", "pick", "copy", "publish", "untmp",
           "unlink", "passed", "finalize"}
TypeOK ==
  /\ job \in Jobs /\ status \in [Tasks -> Verdicts] /\ pc \in [Tasks -> Stages]
  /\ recorded \subseteq Tasks
  /\ dir \subseteq Tasks /\ artifact \subseteq Tasks /\ source \subseteq Tasks
  /\ dest \in [Places -> Tasks \cup {Free, Foreign, Dangling}]
  /\ place \in [Tasks -> Places] /\ attempt \in [Tasks -> 1..Retries + 1]
  /\ copies \in [Tasks -> Nat] /\ allowed \in [Tasks -> Nat]
  /\ todo \subseteq Tasks /\ retried \subseteq Tasks
  /\ cleaning \in {"look", "remove", "clear"}
  /\ faults \in Nat /\ crashes \in Nat /\ retries \in Nat /\ passes \in Nat

\* What is at a place of the destination stays there, unless the playbook of
\* a task says replace: however two publishers are interleaved between their
\* look at the place and its taking (_collision_path, _publish).
PlacesKept ==
  \A p \in Places : dest[p] # Free /\ dest'[p] # dest[p] =>
    \E t \in Tasks : job[t].mode = "replace" /\ dest'[p] = t
NothingOverwritten == [][PlacesKept]_vars

\* A moved file is at its source or published, at every moment and after
\* every crash and error, unless another task's playbook says replace
\* (MoveStep.run).
Published(t) ==
  \/ \E p \in Places : dest[p] = t
  \/ \E u \in Tasks \ {t} : job[u].mode = "replace"
NothingLost == \A t \in Tasks : job[t].kind = "move" => t \in source \/ Published(t)

\* A run publishes its file once at most, and a done task has: only another
\* run, after a crash or a retry, or an error between the two halves of
\* _publish makes another copy (docs/ledger.md: at-least-once after crash
\* recovery).
PublishedOnce ==
  \A t \in Tasks : /\ copies[t] <= allowed[t]
                   /\ status[t] = "done" => copies[t] > 0

\* Only the directory of a task that is over is removed, and never that of a
\* flagged one; excepted is a task that was retried after it had been listed
\* (cleanup_workdirs, _skip_reason).
RemovedWhenOver ==
  \A t \in dir \ dir' : t \notin retried =>
    status[t] \in Terminal \ {"flagged"} /\ pc[t] \in {"none", "finalize"}
CleanedWhenOver == [][RemovedWhenOver]_vars

\* A worker comes to an end with its task, however often its place is taken;
\* unless a dangling link has the name: to exists() the place is free, to
\* os.link it is taken, and file.move looks for another place forever.
WorkersFinish ==
  \A t \in Tasks : pc[t] # "none" ~> pc[t] = "none" \/ dest[1] = Dangling
=============================================================================
