-------------------------------- MODULE Lab --------------------------------
(***************************************************************************)
(* The dry-run lab: the rehearsals of core/dryrun.py and the store of      *)
(* web/routes/lab.py that keeps one of them per pipeline, with the command *)
(* dry-run of cli/main.py.                                                 *)
(*                                                                         *)
(* A handler of the lab has no await once it works on a session, so one    *)
(* handler runs at a time (call); it is modelled attempt by attempt,       *)
(* because each attempt may end in any of the Results.  Only resume waits, *)
(* for its form, between its look at the store and its work (asked).       *)
(*                                                                         *)
(* The artifact of an attempt is its path below the task's work directory. *)
(* What a path holds is kept as one bit per recorded step: whether its     *)
(* output still is what that step made.                                    *)
(*                                                                         *)
(* A definition marked "mistake" is the next definition with a bug, which  *)
(* the property it names finds; it is not used.                            *)
(***************************************************************************)
EXTENDS Integers, Sequences

CONSTANTS
  Books,          \* [version -> [pipeline, steps]]: a step is the failure policy
                  \* in force for it, [retries, branches, then], and a branch
                  \* is [name, retries]
  Pipelines,
  Results,        \* what an attempt may do
  MaxSamples,     \* bound: files in the sample directory, max_samples
  MaxSessions,    \* bound: sessions ever created
  MaxChanges,     \* bound: changes of the sample directory
  MaxStops        \* bound: ends of the server

ASSUME LabAssumption ==
  /\ Results \subseteq {"ok", "pass", "fail", "torn", "skip", "raise"}
  /\ MaxSamples \in Nat \ {0} /\ MaxSessions \in Nat
  /\ MaxChanges \in Nat /\ MaxStops \in Nat
  /\ \A v \in DOMAIN Books :
       /\ Books[v].pipeline \in Pipelines
       /\ Books[v].steps \in Seq([retries : Nat, branches : Seq([name : STRING, retries : Nat]),
                                  then : {"mark_failed", "skip"}])
       /\ Books[v].steps # <<>>

VARIABLES
  sessions,       \* DryRunSession objects, oldest first
  byId,           \* keys of LabSessionStore._by_id
  byPipeline,     \* LabSessionStore._by_pipeline, 0 for no entry
  sandboxes,      \* session directories on disk
  asked,          \* sessions a resume has looked up and waits for its form
  call,           \* the handler at work
  tried,          \* attempts of a run at its step: [group, attempt, result]
  samples,        \* files in the sample directory the glob matches
  changes, stops  \* counters for the bounds

store == <<byId, byPipeline>>
counts == <<changes, stops>>
vars == <<sessions, store, sandboxes, asked, call, tried, samples, counts>>

Sids == DOMAIN sessions
None == 0
Min(a, b) == IF a <= b THEN a ELSE b

---------------------------------------------------------------------------
(* Sessions and their tasks.                                               *)

Sample == <<"sample">>
NoPath == <<>>
Terminal == {"done", "skipped", "failed"}
Passed == {"ok", "replayed"}

NewTask == [pointer |-> 0, status |-> "pending", input |-> Sample, states |-> <<>>]
Session(v, n, owner) ==
  [version |-> v, owner |-> owner, open |-> TRUE, tasks |-> [t \in 1..n |-> NewTask]]
\* A closed session answers nothing but errors: what it was is forgotten.
Over == [open |-> FALSE, tasks |-> <<>>]

PipelineOf(s) == Books[sessions[s].version].pipeline
StepsOf(s) == Books[sessions[s].version].steps
Task(s, t) == sessions[s].tasks[t]
WithTask(s, t, k) == [sessions EXCEPT ![s].tasks[t] = k]

\* fast_forward_plan: the first step that has not passed.
FastForwardPlan(k) ==
  LET open == {i \in DOMAIN k.states : k.states[i].status \notin Passed}
  IN  IF open = {} THEN k.pointer
      ELSE (CHOOSE i \in open : \A j \in open : i <= j) - 1

\* Mistake (PointerIsProgress): a step tried again gets another entry.
AppendEntry(k, entry) == Append(k.states, entry)
\* The entry of the step the pointer is at.
AppendStepState(k, entry) ==
  IF k.pointer < Len(k.states) THEN [k.states EXCEPT ![k.pointer + 1] = entry]
  ELSE Append(k.states, entry)
Entry(status, output) == [status |-> status, output |-> output, kept |-> TRUE]

---------------------------------------------------------------------------
(* The store.                                                              *)

Idle == [op |-> "idle"]
CloseIn(ss, sids) == [s \in DOMAIN ss |-> IF s \in sids THEN Over ELSE ss[s]]

\* Mistake (OneRehearsal): the session the pipeline had is left as it is.
PutBeside(s, ss, gone) ==
  /\ byId' = (byId \ gone) \cup {s}
  /\ byPipeline' = [byPipeline EXCEPT ![Books[ss[s].version].pipeline] = s]
  /\ sessions' = CloseIn(ss, gone)
  /\ sandboxes' = (sandboxes \cup {s}) \ gone

\* put closes the session the pipeline had; gone is closed in any case.
Put(s, ss, gone) ==
  LET p   == Books[ss[s].version].pipeline
      out == gone \cup ({byPipeline[p]} \ {None})
  IN  /\ byId' = (byId \ out) \cup {s}
      /\ byPipeline' = [byPipeline EXCEPT ![p] = s]
      /\ sessions' = CloseIn(ss, out)
      /\ sandboxes' = (sandboxes \cup {s}) \ out

CloseAll(sids) ==
  /\ byId' = byId \ sids
  /\ byPipeline' = [p \in Pipelines |-> IF byPipeline[p] \in sids THEN None ELSE byPipeline[p]]
  /\ sessions' = CloseIn(sessions, sids)
  /\ sandboxes' = sandboxes \ sids

---------------------------------------------------------------------------
(* DryRunSession.create makes the sandbox before it looks for samples.     *)

NewSid == Len(sessions) + 1
Ready == call = Idle /\ Len(sessions) < MaxSessions
NoSamples ==
  /\ samples = 0
  /\ sessions' = Append(sessions, Over)
  /\ sandboxes' = sandboxes \cup {NewSid}

LabCreate(v) ==
  /\ Ready
  /\ \/ NoSamples /\ UNCHANGED store
     \/ /\ samples > 0
        /\ Put(NewSid, Append(sessions, Session(v, Min(samples, MaxSamples), "lab")), {})
  /\ UNCHANGED <<asked, call, tried, samples, counts>>

---------------------------------------------------------------------------
(* The handlers.  An attempt in hand is [sid, task, group, attempt]: group *)
(* 0 is the step itself, then come the branches of its policy.             *)

Call(op, s, t, last) ==
  [op |-> op, sid |-> s, task |-> t, last |-> last, at |-> "task",
   group |-> 0, attempt |-> 1, old |-> None, point |-> 0]
Trying(c, group) == [c EXCEPT !.at = "attempt", !.group = group, !.attempt = 1]

Branches == StepsOf(call.sid)[Task(call.sid, call.task).pointer + 1].branches
Retries(group) ==
  IF group = 0 THEN StepsOf(call.sid)[Task(call.sid, call.task).pointer + 1].retries
  ELSE Branches[group].retries
\* Mistake (ArtifactsKept): a step's directory does not carry its number.
StepDirByPlugin(i, group) ==
  IF group = 0 THEN <<"step">> ELSE <<"branch", Branches[group].name>>
\* The directory of the attempt: of a branch, its number and name and not the
\* step it recovers.  Here the name stands for both.
StepDir(i, group) == IF group = 0 THEN <<"step", i>> ELSE <<"branch", Branches[group].name>>

Handler(s, t) == call = Idle /\ s \in byId /\ t \in DOMAIN sessions[s].tasks
Begin(c, status) ==
  /\ call' = c /\ tried' = <<>>
  /\ sessions' = [sessions EXCEPT ![c.sid].tasks[c.task].status = status]
  /\ UNCHANGED <<store, sandboxes, asked, samples, counts>>

RunNextStep(s, t) ==
  /\ Handler(s, t) /\ Task(s, t).status \in {"pending", "running"}
  /\ Begin(Trying(Call("once", s, t, t), 0), "running")
RetryStep(s, t) ==
  /\ Handler(s, t) /\ Task(s, t).status = "paused"
  /\ Begin(Trying(Call("once", s, t, t), 0), "running")
RunBranches(s, t) ==
  /\ Handler(s, t) /\ Task(s, t).status = "paused"
  /\ IF StepsOf(s)[Task(s, t).pointer + 1].branches # <<>>
     THEN Begin(Trying(Call("branches", s, t, t), 1), "paused")
     ELSE /\ sessions' = WithTask(s, t, [Task(s, t) EXCEPT
                           !.states = AppendStepState(Task(s, t), Entry("fail", NoPath))])
          /\ UNCHANGED <<store, sandboxes, asked, call, tried, samples, counts>>

RunToEnd(s, t) ==
  /\ Handler(s, t)
  /\ call' = Call("run", s, t, t) /\ tried' = <<>>
  /\ UNCHANGED <<sessions, store, sandboxes, asked, samples, counts>>
RunAll(s) ==
  /\ Handler(s, 1)
  /\ call' = Call("run", s, 1, Len(sessions[s].tasks)) /\ tried' = <<>>
  /\ UNCHANGED <<sessions, store, sandboxes, asked, samples, counts>>
\* The command: a session of its own, all of it, and its end.  It is another
\* process and shares nothing with the store; bound: only beside an empty one.
DryRun(v) ==
  /\ Ready /\ byId = {}
  /\ IF samples = 0 THEN NoSamples /\ UNCHANGED call
     ELSE /\ sessions' = Append(sessions, Session(v, Min(samples, MaxSamples), "cli"))
          /\ sandboxes' = sandboxes \cup {NewSid}
          /\ call' = Call("run", NewSid, 1, Min(samples, MaxSamples))
  /\ tried' = <<>>
  /\ UNCHANGED <<store, asked, samples, counts>>

---------------------------------------------------------------------------
(* The loops over the tasks of run_to_end, run_all and resume.             *)

NextTask(c) == [c EXCEPT !.at = "task", !.task = @ + 1]

TakeTask ==
  /\ call # Idle /\ call.op = "run" /\ call.at = "task" /\ call.task <= call.last
  /\ LET k == Task(call.sid, call.task)
     IN  IF k.status \in Terminal
         THEN call' = NextTask(call) /\ UNCHANGED sessions
         ELSE /\ call' = Trying(call, 0)
              /\ sessions' = WithTask(call.sid, call.task, [k EXCEPT !.status = "running"])
  /\ tried' = <<>>
  /\ UNCHANGED <<store, sandboxes, asked, samples, counts>>

HandlerEnds ==
  /\ call # Idle /\ call.op = "run" /\ call.at = "task" /\ call.task > call.last
  /\ call' = Idle
  /\ IF sessions[call.sid].owner = "cli" THEN CloseAll({call.sid})
     ELSE UNCHANGED <<sessions, store, sandboxes>>
  /\ tried' = <<>>
  /\ UNCHANGED <<asked, samples, counts>>

---------------------------------------------------------------------------
(* One attempt.  Its result is ok with an output, ok without one (pass),   *)
(* skip, a failure, a failure that has written its output (torn) or an     *)
(* exception.                                                              *)

InHand == call # Idle /\ call.at = "attempt"
Here == Task(call.sid, call.task)
Tried(result) ==
  tried' = IF call.op # "run" THEN <<>>
           ELSE Append(tried, [group |-> call.group, attempt |-> call.attempt, result |-> result])

\* The directory of the attempt is used again: what another step had there
\* is no longer what that step made.
Overwritten(states, path) ==
  [i \in DOMAIN states |->
     IF states[i].output = path THEN [states[i] EXCEPT !.kept = FALSE] ELSE states[i]]
Written(k, result) ==
  IF result \in {"ok", "torn"}
  THEN [k EXCEPT !.states = Overwritten(@, StepDir(k.pointer + 1, call.group))] ELSE k

Continue(c) ==               \* after a step that passed
  IF c.op \in {"run", "replay"} THEN [c EXCEPT !.at = "task"] ELSE Idle

AttemptPasses(result) ==
  /\ InHand /\ result \in Results \cap {"ok", "pass"}
  /\ LET k   == Written(Here, result)
         out == IF result = "ok" THEN StepDir(k.pointer + 1, call.group) ELSE NoPath
         n   == k.pointer + 1
     IN  sessions' = WithTask(call.sid, call.task,
           [pointer |-> n,
            status  |-> IF n = Len(StepsOf(call.sid)) THEN "done" ELSE "pending",
            input   |-> IF out = NoPath THEN k.input ELSE out,
            states  |-> AppendStepState(k, Entry(IF call.op = "replay" THEN "replayed" ELSE "ok", out))])
  /\ Tried(result) /\ call' = Continue(call)
  /\ UNCHANGED <<store, sandboxes, asked, samples, counts>>

Halt(k, status, entry) ==    \* the task stops at this step
  WithTask(call.sid, call.task,
           [k EXCEPT !.status = status, !.states = AppendStepState(k, Entry(entry, NoPath))])
Halted(c) ==
  CASE c.op = "run"    -> NextTask(c)
    [] c.op = "replay" -> [c EXCEPT !.at = "replayed"]
    [] OTHER           -> Idle

\* A skip ends the task, except in a branch the user runs, where it is one
\* more failure.  A replay pauses at whatever did not pass.
AttemptSkips ==
  /\ InHand /\ "skip" \in Results /\ call.op # "branches"
  /\ sessions' = Halt(Here, IF call.op = "replay" THEN "paused" ELSE "skipped", "skip")
  /\ Tried("skip") /\ call' = Halted(call)
  /\ UNCHANGED <<store, sandboxes, asked, samples, counts>>

\* Mistake (RunsLikeTheRunner): a group gets as many attempts as it has
\* retries, and at least one.
NextRungShort ==
  IF call.op = "once" \/ call.op = "replay" THEN Idle
  ELSE IF call.attempt < Retries(call.group) THEN [call EXCEPT !.attempt = @ + 1]
  ELSE IF call.group < Len(Branches) THEN Trying(call, call.group + 1)
  ELSE Idle
\* The attempt after a failure, Idle when there is none.
NextRung ==
  IF call.op = "once" \/ call.op = "replay" THEN Idle
  ELSE IF call.attempt < Retries(call.group) + 1 THEN [call EXCEPT !.attempt = @ + 1]
  ELSE IF call.group < Len(Branches) THEN Trying(call, call.group + 1)
  ELSE Idle

\* What a task becomes when all is used up: the policy's then is not read.
Failures == {"fail", "torn"} \cup (IF call.op = "branches" THEN {"skip"} ELSE {})
AttemptFails(result) ==
  /\ InHand /\ result \in Results \cap Failures
  /\ LET k == Written(Here, result)
     IN  IF NextRung # Idle
         THEN sessions' = WithTask(call.sid, call.task, k) /\ call' = NextRung
         ELSE /\ sessions' = Halt(k, IF call.op = "run" THEN "failed" ELSE "paused", "fail")
              /\ call' = Halted(call)
  /\ Tried(result)
  /\ UNCHANGED <<store, sandboxes, asked, samples, counts>>

\* The exception leaves the task as the handler has set it; the command
\* closes its session, a resumed session is left to nobody.
AttemptRaises ==
  /\ InHand /\ "raise" \in Results
  /\ call' = Idle
  /\ IF sessions[call.sid].owner = "cli" THEN CloseAll({call.sid})
     ELSE IF call.op = "replay"
     THEN sessions' = CloseIn(sessions, {call.sid}) /\ UNCHANGED <<store, sandboxes>>
     ELSE UNCHANGED <<sessions, store, sandboxes>>
  /\ tried' = <<>>
  /\ UNCHANGED <<asked, samples, counts>>

---------------------------------------------------------------------------
(* Resume: a new session on another version, in which every task passes    *)
(* once more, without retries or branches, what the furthest task had      *)
(* passed.                                                                 *)

LabResume(s) ==
  /\ call = Idle /\ s \in byId
  /\ asked' = asked \cup {s}
  /\ UNCHANGED <<sessions, store, sandboxes, call, tried, samples, counts>>

ResumePoint(s) ==
  LET plans == {FastForwardPlan(sessions[s].tasks[t]) : t \in DOMAIN sessions[s].tasks}
  IN  CHOOSE n \in plans : \A m \in plans : m <= n

ResumeRefused(s) ==          \* closed meanwhile
  /\ call = Idle /\ s \in asked /\ ~sessions[s].open
  /\ asked' = asked \ {s}
  /\ UNCHANGED <<sessions, store, sandboxes, call, tried, samples, counts>>

Resume(s, v) ==
  /\ Ready /\ s \in asked /\ sessions[s].open /\ Books[v].pipeline = PipelineOf(s)
  /\ asked' = asked \ {s}
  /\ IF samples = 0 THEN NoSamples /\ UNCHANGED call
     ELSE LET n == Min(samples, Len(sessions[s].tasks))
          IN  /\ sessions' = Append(sessions, Session(v, n, "lab"))
              /\ sandboxes' = sandboxes \cup {NewSid}
              /\ call' = [Call("replay", NewSid, 1, n) EXCEPT !.old = s, !.point = ResumePoint(s)]
  /\ tried' = <<>>
  /\ UNCHANGED <<store, samples, counts>>

Replaying == call # Idle /\ call.op = "replay" /\ call.at = "task"
ReplayNext ==
  /\ Replaying /\ call.task <= call.last
  /\ LET k == Task(call.sid, call.task)
     IN  /\ call' = IF k.pointer < call.point THEN Trying(call, 0) ELSE NextTask(call)
         /\ k.pointer < call.point => k.pointer < Len(StepsOf(call.sid))
  /\ tried' = <<>>
  /\ UNCHANGED <<sessions, store, sandboxes, asked, samples, counts>>

\* The new version has fewer steps than had passed: the error leaves the new
\* session, sandbox and all, to nobody.
ReplayOverruns ==
  /\ Replaying /\ call.task <= call.last
  /\ LET k == Task(call.sid, call.task)
     IN  k.pointer < call.point /\ k.pointer = Len(StepsOf(call.sid))
  /\ call' = Idle
  /\ sessions' = CloseIn(sessions, {call.sid})
  /\ UNCHANGED <<store, sandboxes, asked, tried, samples, counts>>

Resumed ==
  /\ \/ Replaying /\ call.task > call.last
     \/ call # Idle /\ call.at = "replayed"
  /\ Put(call.sid, sessions, {call.old})
  /\ call' = Idle
  /\ UNCHANGED <<asked, tried, samples, counts>>

---------------------------------------------------------------------------
LabClose(s) ==
  /\ call = Idle /\ s \in byId
  /\ CloseAll({s})
  /\ UNCHANGED <<asked, call, tried, samples, counts>>

\* The server shuts down when no handler runs, or dies and leaves the sandboxes.
Shutdown ==
  /\ call = Idle /\ stops < MaxStops /\ stops' = stops + 1
  /\ CloseAll(byId) /\ asked' = {}
  /\ UNCHANGED <<call, tried, samples, changes>>
Crash ==
  /\ stops < MaxStops /\ stops' = stops + 1
  /\ call # Idle => sessions[call.sid].owner = "lab"
  /\ sessions' = CloseIn(sessions, Sids)
  /\ byId' = {} /\ byPipeline' = [p \in Pipelines |-> None]
  /\ asked' = {} /\ call' = Idle
  /\ UNCHANGED <<sandboxes, tried, samples, changes>>

\* Bound: between handlers, because only the start of one reads the directory.
ChangeSamples(n) ==
  /\ call = Idle /\ changes < MaxChanges /\ changes' = changes + 1
  /\ samples' = n
  /\ UNCHANGED <<sessions, store, sandboxes, asked, call, tried, stops>>

Init ==
  /\ sessions = <<>> /\ byId = {} /\ byPipeline = [p \in Pipelines |-> None]
  /\ sandboxes = {} /\ asked = {} /\ call = Idle /\ tried = <<>>
  /\ samples = MaxSamples /\ changes = 0 /\ stops = 0

Work ==                      \* the handler at work
  \/ TakeTask \/ HandlerEnds \/ ReplayNext \/ ReplayOverruns \/ Resumed
  \/ \E r \in Results : AttemptPasses(r) \/ AttemptFails(r)
  \/ AttemptSkips \/ AttemptRaises

Next ==
  \/ \E v \in DOMAIN Books : LabCreate(v) \/ DryRun(v)
  \/ \E s \in byId : \E t \in DOMAIN sessions[s].tasks :
       RunNextStep(s, t) \/ RetryStep(s, t) \/ RunBranches(s, t) \/ RunToEnd(s, t)
  \/ \E s \in byId : RunAll(s) \/ LabResume(s) \/ LabClose(s)
  \/ \E s \in asked : ResumeRefused(s) \/ \E v \in DOMAIN Books : Resume(s, v)
  \/ Work \/ Shutdown \/ Crash
  \/ \E n \in 0..MaxSamples : ChangeSamples(n)

Spec == Init /\ [][Next]_vars

---------------------------------------------------------------------------
(* Properties.                                                             *)

\* A task stands at the step after those that passed: nothing is skipped or
\* passed twice, whichever of next, retry, branches, run and resume got it
\* there; it is done when all have passed, and paused or failed only with the
\* failure on its page (_append_step_state, _execute_primary_once,
\* run_branches, _run_primary_runner_equivalent).
StandsAtProgress(k, n) ==
  /\ Len(k.states) \in {k.pointer, k.pointer + 1}
  /\ \A i \in 1..k.pointer : k.states[i].status \in Passed
  /\ Len(k.states) > k.pointer => k.states[k.pointer + 1].status \in {"fail", "skip"}
  /\ k.status = "done" <=> k.pointer = n
  /\ k.status \in {"paused", "failed", "skipped"} => Len(k.states) = k.pointer + 1
PointerIsProgress ==
  \A s \in Sids : \A t \in DOMAIN sessions[s].tasks :
    StandsAtProgress(Task(s, t), Len(StepsOf(s)))

\* The artifact a step's page shows as its output is what that step made, and
\* the next attempt reads what the last step with an output made: what is
\* tried, retried and recovered after it leaves it alone.  Excepted are the
\* outputs of a recovery branch that a later step may fall back on as well:
\* both use one directory, so that a failing attempt can even overwrite the
\* input of the next (docs/runner.md: "the *same starting input the failed
\* primary step had*"; step_dir, run_branches, _execute_primary_once).
SharedLater(s, i, path) ==
  \E j \in i + 1..Len(StepsOf(s)) : \E b \in DOMAIN StepsOf(s)[j].branches :
    path = <<"branch", StepsOf(s)[j].branches[b].name>>
Feeds(k) ==                  \* the last step that passed with an output
  {i \in 1..k.pointer : /\ k.states[i].output # NoPath
                        /\ \A j \in i + 1..k.pointer : k.states[j].output = NoPath}
ArtifactsKept ==
  \A s \in Sids : \A t \in DOMAIN sessions[s].tasks :
    LET k == Task(s, t)
    IN  /\ \A i \in DOMAIN k.states : k.states[i].kept \/ SharedLater(s, i, k.states[i].output)
        /\ k.input # Sample => \E i \in Feeds(k) : k.input = k.states[i].output
        /\ k.input = Sample => Feeds(k) = {}

\* The rehearsal of a step under run-to-end makes the attempts the runner
\* would, the step first, each branch in its order and only once the group
\* before has used up its retries, and takes the runner's verdict
\* (_run_primary_runner_equivalent against PipelineRunner.run_task and
\* _run_with_policy; docs/lab.md: "Runner-equivalent (primary retries +
\* auto-branches); stops on exhaustion").  Excepted is a policy that says
\* skip when all are used up: the runner skips such a task, the rehearsal
\* says it failed.
More(pol, group) == IF group = 0 THEN pol.retries ELSE pol.branches[group].retries
Exhausts(pol, rung) ==
  /\ rung.result \in {"fail", "torn"}
  /\ rung.group = Len(pol.branches) /\ rung.attempt = More(pol, rung.group) + 1
RunnerVerdict(pol, rung) ==
  CASE rung.result \in {"ok", "pass"} -> "passed"
    [] rung.result = "skip"           -> "skipped"
    [] Exhausts(pol, rung)            -> IF pol.then = "skip" THEN "skipped" ELSE "failed"
    [] OTHER                          -> "goes on"
LabVerdict(before, after) ==
  IF after.pointer = before.pointer + 1 THEN "passed"
  ELSE IF after.status \in {"skipped", "failed"} THEN after.status
  ELSE "goes on"
RunsLikeTheRunner ==
  [][(call # Idle /\ call.op = "run" /\ tried' # tried /\ tried' # <<>>) =>
       LET k    == Task(call.sid, call.task)
           pol  == StepsOf(call.sid)[k.pointer + 1]
           last == tried'[Len(tried')]
           lab  == LabVerdict(k, sessions'[call.sid].tasks[call.task])
       IN  /\ tried'[1].group = 0 /\ tried'[1].attempt = 1
           /\ \A n \in 1..Len(tried') - 1 :
                LET a == tried'[n] b == tried'[n + 1]
                IN  /\ a.result \in {"fail", "torn"}
                    /\ \/ b.group = a.group /\ b.attempt = a.attempt + 1
                       \/ /\ b.group = a.group + 1 /\ b.attempt = 1
                          /\ a.attempt = More(pol, a.group) + 1
           /\ IF Exhausts(pol, last) /\ pol.then = "skip" THEN lab = "failed"
              ELSE lab = RunnerVerdict(pol, last)]_vars

\* A pipeline has one rehearsal at most, it is open and its sandbox is on
\* disk, whatever a resume had looked up before its form came
\* (LabSessionStore, lab_create, lab_resume).
OneRehearsal ==
  /\ \A s \in byId : /\ sessions[s].open /\ s \in sandboxes
                     /\ byPipeline[PipelineOf(s)] = s
  /\ \A p \in Pipelines : byPipeline[p] # None => byPipeline[p] \in byId
=============================================================================
