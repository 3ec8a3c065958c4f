------------------------------- MODULE Runner -------------------------------
(***************************************************************************)
(* The worker that takes tasks through the playbook (core/runner.py,       *)
(* PipelineRunner and the worker loop of PipelineService), on the ledger   *)
(* of Ledger.tla, with everything that may happen around it: triggers      *)
(* admit tasks, users retry and cancel from the web UI or the CLI, time    *)
(* passes, the process crashes and starts again.                           *)
(*                                                                         *)
(* A step of the worker is one ledger call with the Python up to the next  *)
(* one.  Executing a step sequence is one step with a free outcome: ok,    *)
(* fail, skip, or an exception of the runner itself (an unknown step id, a *)
(* full disk); exceptions of the step are a fail (HeadlessEngine).         *)
(*                                                                         *)
(* As in Ledger, a definition marked "mistake" is the next definition with *)
(* a bug, which the property it names finds; it is not used.               *)
(***************************************************************************)
EXTENDS Ledger, Sequences, FiniteSets

CONSTANTS
  Workers,          \* worker threads; one per pipeline in the supported mode
  Users,            \* web requests and CLI commands
  UserTargets,      \* what users ask for: "pending" is a retry, "skipped" a cancel
  Trigger,          \* the trigger thread, which admits candidates
  Playbook,         \* the validated playbook the runner was built with
  BranchNames,      \* names of recovery branches
  NoPolicy,         \* on_failure absent from a step
  NoBranch,         \* branch_name None: the primary group
  NoStep,           \* last_step_id NULL
  Oneshot,          \* TRUE: run_until_idle; FALSE: the service's worker loop
  ReconcilePolicy,  \* "retry" or "fail"
  MaxCrashes        \* bound on crashes of the process

ASSUME RunnerAssumption ==
  /\ Workers \subseteq Clients
  /\ Users \subseteq Clients
  /\ Workers \cap Users = {}
  /\ UserTargets \subseteq {"pending", "skipped"}
  /\ Trigger \in Clients \ (Workers \cup Users)
  /\ Oneshot \in BOOLEAN
  /\ ReconcilePolicy \in {"retry", "fail"}
  /\ MaxCrashes \in Nat
  /\ NoBranch \notin BranchNames

VARIABLES
  attempts,     \* the branch_attempts table
  worker,       \* per worker: where it is in run_task and its local variables
  crashes

runnerVars == <<task, reserved, flags, session, binding, now, attempts, worker, crashes>>

-----------------------------------------------------------------------------
(* The playbook *)

Steps == 1..Len(Playbook.steps)
StepId(i) == Playbook.steps[i].id

(* A step-level on_failure replaces the playbook's default, it is not merged. *)
Policy(i) ==
  IF Playbook.steps[i].on_failure # NoPolicy THEN Playbook.steps[i].on_failure
  ELSE Playbook.on_failure

(* failure_policy_groups: the primary group, then the recovery branches. *)
Groups(i) == <<[branch |-> NoBranch, retries |-> Policy(i).retries]>> \o Policy(i).branches

StepIds == {StepId(i) : i \in Steps}
Branches == BranchNames \cup {NoBranch}

(* What the playbook's validation guarantees.  The levels of the ledger     *)
(* reach as far as a ladder is long.                                        *)
ASSUME PlaybookAssumption ==
  /\ Len(Playbook.steps) \in Nat \ {0}
  /\ \A i \in Steps :
       /\ Policy(i).retries \in Nat
       /\ Policy(i).branches \in Seq([branch : BranchNames, retries : Nat])
       /\ 0..Len(Groups(i)) \subseteq Levels

-----------------------------------------------------------------------------
(* Branch attempts and the escalation level *)

(* Rows equal in every column are one row, so a row left open by a crash is *)
(* the one its replay closes; last is read for primary attempts only.       *)
Attempt == [task : TaskIds, branch : Branches, no : Nat \ {0},
            last : StepIds \cup {NoStep}, ok : BOOLEAN, finished : BOOLEAN]

AttemptRow(t, branch, no, last, ok, finished) ==
  [task |-> t, branch |-> branch, no |-> no, last |-> last, ok |-> ok, finished |-> finished]

OpenAttempt(t, branch, no) == AttemptRow(t, branch, no, NoStep, FALSE, FALSE)

AttemptGroupKey(a) ==
  IF a.branch # NoBranch THEN <<"branch", a.branch>> ELSE <<"primary", a.last>>

(* The keys of the failing step's own ladder. *)
GroupKey(i, g) ==
  IF g = 1 THEN <<"primary", StepId(i)>> ELSE <<"branch", Groups(i)[g].branch>>

LadderKeys(i) == {GroupKey(i, g) : g \in DOMAIN Groups(i)}

(* mistake: attempts are counted, not groups (LevelIsRung). *)
FailedAttempts(t, i) ==
  Cardinality({a \in attempts : /\ a.task = t /\ a.finished /\ ~a.ok
                                /\ AttemptGroupKey(a) \in LadderKeys(i)})

(* exhausted_branches: groups of the ladder with a finished attempt and none ok. *)
ExhaustedBranches(t, i) ==
  LET group(k) == {a \in attempts : a.task = t /\ AttemptGroupKey(a) = k}
  IN  Cardinality({k \in LadderKeys(i) :
                     /\ \E a \in group(k) : a.finished
                     /\ \A a \in group(k) : ~a.ok})

-----------------------------------------------------------------------------
(* The worker *)

PCs == {"down", "reconciling", "idle", "exited", "dead", "setup", "start", "execute",
        "finish", "exhausted", "skipping", "failing", "settle", "commit", "finalize"}

(* pc is where the worker is; then the loop variables of run_task and       *)
(* _run_with_policy; handling is TRUE inside the except clause.             *)
WorkerState == [pc : PCs, task : TaskIds \cup {0}, step : Steps, group : Nat \ {0},
                no : Nat \ {0}, result : {"ok", "fail", "skip"}, target : Targets,
                handling : BOOLEAN]

Down == [pc |-> "down", task |-> 0, step |-> 1, group |-> 1, no |-> 1,
         result |-> "ok", target |-> "done", handling |-> FALSE]

AtLoop == [Down EXCEPT !.pc = "idle"]

Goto(w, pc) == worker' = [worker EXCEPT ![w].pc = pc]

(* mistake: the handler handles its own exceptions (WorkerComesBack). *)
RaiseAgain(w) == Goto(w, "failing")

(* Where an exception goes: the handler of run_task catches one of the run, *)
(* its own escapes.  The service loop logs it and goes on; run_until_idle   *)
(* does not, and the command ends.                                          *)
Raise(w) ==
  worker' = [worker EXCEPT ![w] =
               IF ~@.handling THEN [@ EXCEPT !.pc = "failing"]
               ELSE [AtLoop EXCEPT !.pc = IF Oneshot THEN "dead" ELSE "idle"]]

SettleAs(w, target) ==
  worker' = [worker EXCEPT ![w].pc = "settle", ![w].target = target]

(* start: reconcile, then the loop. *)
Start(w) ==
  /\ worker[w].pc = "down"
  /\ \/ /\ Stale = {}
        /\ worker' = [worker EXCEPT ![w] = AtLoop]
        /\ UNCHANGED ledgerVars
     \/ /\ BeginReconcile(w, ReconcilePolicy)
        /\ Goto(w, "reconciling")
  /\ UNCHANGED <<attempts, crashes>>

Reconciled(w) ==
  /\ worker[w].pc = "reconciling"
  /\ Commit(w)
  /\ worker' = [worker EXCEPT ![w] = AtLoop]
  /\ UNCHANGED <<attempts, crashes>>

(* run_once *)
Claim(w) ==
  /\ worker[w].pc = "idle"
  /\ \E t \in TaskIds :
        /\ ClaimNext(t)
        /\ worker' = [worker EXCEPT ![w] = [AtLoop EXCEPT !.pc = "setup", !.task = t]]
  /\ UNCHANGED <<attempts, crashes>>

(* The queue is empty: run_until_idle returns. *)
Exit(w) ==
  /\ Oneshot
  /\ worker[w].pc = "idle"
  /\ \A t \in TaskIds : task[t].status # "pending"
  /\ Goto(w, "exited")
  /\ UNCHANGED <<ledgerVars, attempts, crashes>>

(* TaskWorkdir.create, set_workdir, task.json; then the first step.  The    *)
(* directory or the file may fail, before or after the row is updated.      *)
Setup(w) ==
  /\ worker[w].pc = "setup"
  /\ \/ Touch(worker[w].task) /\ (Goto(w, "start") \/ Raise(w))
     \/ UNCHANGED ledgerVars /\ Raise(w)
  /\ UNCHANGED <<attempts, crashes>>

StartAttempt(w) ==
  LET me == worker[w] IN
  /\ me.pc = "start"
  /\ attempts' = attempts \cup {OpenAttempt(me.task, Groups(me.step)[me.group].branch, me.no)}
  /\ Goto(w, "execute")
  /\ UNCHANGED <<ledgerVars, crashes>>

(* execute_step_sequence: any outcome, or an exception of the runner. *)
Execute(w) ==
  /\ worker[w].pc = "execute"
  /\ \/ \E result \in {"ok", "fail", "skip"} :
           worker' = [worker EXCEPT ![w].pc = "finish", ![w].result = result]
     \/ Raise(w)
  /\ UNCHANGED <<ledgerVars, attempts, crashes>>

(* mistake: done one step early (DoneIsEarned). *)
NextStepButLast(w) ==
  LET i == worker[w].step IN
  IF i + 1 >= Len(Playbook.steps) THEN SettleAs(w, "done")
  ELSE worker' = [worker EXCEPT ![w] = [@ EXCEPT !.pc = "start", !.step = i + 1,
                                                 !.group = 1, !.no = 1]]

(* After an ok: the next primary step, or done. *)
NextStep(w) ==
  LET i == worker[w].step IN
  IF i = Len(Playbook.steps) THEN SettleAs(w, "done")
  ELSE worker' = [worker EXCEPT ![w] = [@ EXCEPT !.pc = "start", !.step = i + 1,
                                                 !.group = 1, !.no = 1]]

(* mistake: retries is taken for the number of attempts (BranchAfterExhaustion). *)
RetriesAsAttempts(no, group) == no < group.retries

(* A group has retries + 1 attempts. *)
RetryLeft(no, group) == no <= group.retries

(* finish_attempt, and set_current_branch when a recovery branch succeeded, *)
(* which refreshes updated_at.                                              *)
FinishAttempt(w) ==
  LET me == worker[w]
      group == Groups(me.step)[me.group]
      open == OpenAttempt(me.task, group.branch, me.no)
      last == IF group.branch = NoBranch THEN StepId(me.step) ELSE NoStep
      closed == AttemptRow(me.task, group.branch, me.no, last, me.result = "ok", TRUE)
  IN
  /\ me.pc = "finish"
  /\ attempts' = (attempts \ {open}) \cup {closed}
  /\ IF me.result = "ok" /\ group.branch # NoBranch
     THEN Touch(me.task) ELSE UNCHANGED ledgerVars
  /\ CASE me.result = "ok" -> NextStep(w)
       [] me.result = "skip" -> Goto(w, "skipping")
       [] me.result = "fail" /\ RetryLeft(me.no, group) ->
            worker' = [worker EXCEPT ![w].pc = "start", ![w].no = @ + 1]
       [] OTHER -> Goto(w, "exhausted")
  /\ UNCHANGED crashes

(* mistake: the last branch is never reached (FlaggedClimbedLadder). *)
LastButOne(me) == me.group + 1 >= Len(Groups(me.step))
LastGroup(me) == me.group = Len(Groups(me.step))

(* All attempts of a group failed: a flag at the next level, then the next  *)
(* branch; after the last one the task ends as the policy says.             *)
GroupExhausted(w) ==
  LET me == worker[w] IN
  /\ me.pc = "exhausted"
  /\ RaiseFlag(me.task, "task_failure", ExhaustedBranches(me.task, me.step), me.group)
  /\ IF LastGroup(me)
     THEN SettleAs(w, IF Policy(me.step).then = "mark_failed" THEN "flagged" ELSE "skipped")
     ELSE worker' = [worker EXCEPT ![w] = [@ EXCEPT !.pc = "start",
                                                    !.group = me.group + 1, !.no = 1]]
  /\ UNCHANGED <<attempts, crashes>>

(* mistake: a skipped task is left in processing (EveryTaskSettles). *)
StepSkippedFlagOnly(w) ==
  /\ worker[w].pc = "skipping"
  /\ RaiseFlag(worker[w].task, "task_skipped", 1, 0)
  /\ worker' = [worker EXCEPT ![w] = AtLoop]
  /\ UNCHANGED <<attempts, crashes>>

StepSkipped(w) ==
  /\ worker[w].pc = "skipping"
  /\ RaiseFlag(worker[w].task, "task_skipped", 1, 0)
  /\ SettleAs(w, "skipped")
  /\ UNCHANGED <<attempts, crashes>>

(* The except clause of run_task. *)
RunnerError(w) ==
  /\ worker[w].pc = "failing"
  /\ RaiseFlag(worker[w].task, "runner_error", 1, 0)
  /\ worker' = [worker EXCEPT ![w] = [@ EXCEPT !.pc = "settle", !.target = "failed",
                                               !.handling = TRUE]]
  /\ UNCHANGED <<attempts, crashes>>

(* transition to the target; the check reads whatever the status is now. *)
Settle(w) ==
  LET me == worker[w] IN
  /\ me.pc = "settle"
  /\ \/ /\ BeginTransition(w, me.task, me.target,
                           IF me.target = "failed" THEN "runner error" ELSE "none")
        /\ Goto(w, "commit")
     \/ /\ ~Legal(me.task, me.target)
        /\ Raise(w)
        /\ UNCHANGED ledgerVars
  /\ UNCHANGED <<attempts, crashes>>

SettleCommit(w) ==
  /\ worker[w].pc = "commit"
  /\ Commit(w)
  /\ Goto(w, "finalize")
  /\ UNCHANGED <<attempts, crashes>>

(* _finalize_task_json; still inside the try of run_task, and it may raise  *)
(* when the work directory is gone or the disk is full.                     *)
Finalize(w) ==
  /\ worker[w].pc = "finalize"
  /\ worker' = [worker EXCEPT ![w] = AtLoop] \/ Raise(w)
  /\ UNCHANGED <<ledgerVars, attempts, crashes>>

WorkerStep(w) ==
  \/ Start(w) \/ Reconciled(w) \/ Claim(w) \/ Exit(w) \/ Setup(w)
  \/ StartAttempt(w) \/ Execute(w) \/ FinishAttempt(w) \/ GroupExhausted(w)
  \/ StepSkipped(w) \/ RunnerError(w) \/ Settle(w) \/ SettleCommit(w) \/ Finalize(w)

-----------------------------------------------------------------------------
(* Around the worker *)

Alive(w) == worker[w].pc \notin {"down", "dead", "exited"}

(* The process dies; what it has not committed is rolled back by SQLite. *)
Crash(w) ==
  /\ Alive(w)
  /\ crashes < MaxCrashes
  /\ crashes' = crashes + 1
  /\ worker' = [worker EXCEPT ![w] = Down]
  /\ session' = [session EXCEPT ![w] = Closed]
  /\ UNCHANGED <<task, reserved, flags, binding, now, attempts>>

(* task_retry, task_cancel and `ordine retry`: transition without a look at *)
(* what the worker is doing.                                                *)
UserStep(u) ==
  /\ \/ \E t \in TaskIds, target \in UserTargets :
           BeginTransition(u, t, target, "none")
     \/ Commit(u)
     \/ Abort(u)
  /\ UNCHANGED <<attempts, worker, crashes>>

(* A trigger admits a candidate. *)
Admit ==
  /\ CreateTask(NoKey, 0)
  /\ UNCHANGED <<attempts, worker, crashes>>

TimePasses == Tick /\ UNCHANGED <<attempts, worker, crashes>>

RunnerInit ==
  /\ Init
  /\ attempts = {}
  /\ worker = [w \in Workers |-> Down]
  /\ crashes = 0

RunnerNext ==
  \/ \E w \in Workers : WorkerStep(w) \/ Crash(w)
  \/ \E u \in Users : UserStep(u)
  \/ Admit
  \/ TimePasses

RunnerSpec == RunnerInit /\ [][RunnerNext]_runnerVars

(* The worker thread runs and the steps it calls return (executors enforce  *)
(* timeouts); a commit the worker or a user has begun completes; the clock  *)
(* moves.  Nothing obliges a user, a trigger or a crash to happen.          *)
Fairness ==
  /\ \A w \in Workers : WF_runnerVars(WorkerStep(w))
  /\ \A u \in Users : WF_runnerVars(UserStep(u) /\ session[u] # Closed)
  /\ WF_runnerVars(TimePasses)

FairSpec == RunnerSpec /\ Fairness

-----------------------------------------------------------------------------
RunnerTypeOK ==
  /\ TypeOK
  /\ attempts \subseteq Attempt
  /\ worker \in [Workers -> WorkerState]
  /\ \A w \in Workers : worker[w].group \in DOMAIN Groups(worker[w].step)
  /\ crashes \in 0..MaxCrashes

(* A group of the ladder of step i that has succeeded once for task t. *)
Succeeded(t, i) ==
  \E a \in attempts : a.task = t /\ a.ok /\ AttemptGroupKey(a) \in LadderKeys(i)

(* done is earned: whatever retries, cancels, crashes and replays came      *)
(* before, a task is done only if every playbook step has a successful      *)
(* attempt, its own or one of its recovery branches.                        *)
DoneIsEarned ==
  \A t \in TaskIds : task[t].status = "done" => \A i \in Steps : Succeeded(t, i)

(* A flagged task has climbed the whole ladder of a step whose policy says  *)
(* mark_failed: a flag for the primary and for every recovery branch.       *)
FlaggedClimbedLadder ==
  \A t \in TaskIds :
    task[t].status = "flagged" =>
      \E i \in Steps :
        /\ Policy(i).then = "mark_failed"
        /\ \A g \in DOMAIN Groups(i) :
             \E f \in flags : f.task = t /\ f.kind = "task_failure" /\ f.rung = g

(* failed is reserved for runner errors and for recovery that gives up      *)
(* (docs/runner.md), and a human can see which: its flag is in the table    *)
(* before the status is.                                                    *)
FailedIsFlagged ==
  \A t \in TaskIds :
    task[t].status = "failed" =>
      \E f \in flags : f.task = t /\ f.kind \in {"runner_error", "stale_processing"}

(* A recovery branch is tried only after every attempt of the group before  *)
(* it was finished without success, in the ladder of some step.             *)
BranchAfterExhaustion ==
  \A a \in attempts :
    a.branch # NoBranch =>
      \E i \in Steps : \E g \in DOMAIN Groups(i) \ {1} :
        /\ Groups(i)[g].branch = a.branch
        /\ \A n \in 1..(Groups(i)[g-1].retries + 1) :
             \E b \in attempts :
               /\ b.task = a.task /\ b.no = n /\ b.finished /\ ~b.ok
               /\ AttemptGroupKey(b) = GroupKey(i, g - 1)

(* The documented escalation: level 1 when the primary is exhausted, one    *)
(* more for each exhausted branch (docs/ledger.md, Flag escalation).        *)
LevelIsRung == \A f \in flags : f.kind = "task_failure" => f.level = f.rung

(* Single claim (docs/ledger.md, invariant 2), seen from the workers: no    *)
(* two of them run the same task.                                           *)
RunsAlone ==
  \A w, v \in Workers :
    worker[w].task # 0 /\ worker[w].task = worker[v].task => w = v

(* Every admitted task reaches an end state while the process stays up and  *)
(* nobody interferes; or it waits in the queue and no one-shot command is   *)
(* left to claim it, because it came after the last had seen the queue      *)
(* empty (run_until_idle).                                                  *)
EveryTaskSettles ==
  \A t \in TaskIds :
    Exists(t) ~> \/ task[t].status \in TerminalFinished
                 \/ task[t].status = "pending" /\ \A w \in Workers : ~Alive(w)

(* Whatever users do to the task under way, the service's worker comes back *)
(* to its loop (docs/runner.md: it must never die because of one task).     *)
WorkerComesBack ==
  \A w \in Workers : worker[w].pc = "setup" ~> worker[w].pc = "idle"

-----------------------------------------------------------------------------
(* What the documentation says and the code does not do *)

(* After the stale timeout, a task that a crash left in processing goes     *)
(* back to the queue.                                                       *)
Abandoned(t) ==
  task[t].status = "processing" /\ \A w \in Workers : worker[w].task # t

CrashIsRecovered == \A t \in TaskIds : Abandoned(t) ~> ~Abandoned(t)
=============================================================================
