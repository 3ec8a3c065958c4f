---------------------------- MODULE LadderProofs ----------------------------
(***************************************************************************)
(* Two more results about the worker: the order in which it climbs the     *)
(* ladder of a step, for every playbook; and that the levels of the flags  *)
(* are the rungs of the ladder when nobody puts a task under way back into *)
(* the queue, so that no task is in the hands of two workers.              *)
(***************************************************************************)
EXTENDS RunnerProofs

-----------------------------------------------------------------------------
(* Used-up attempts are evidence as well, and it is not taken away.         *)
Failed(t, i, g, n) ==
  \E b \in attempts : /\ b.task = t /\ b.no = n /\ b.finished /\ ~b.ok
                      /\ AttemptGroupKey(b) = GroupKey(i, g)

UsedUp(t, i, g) == \A n \in 1..(Groups(i)[g].retries + 1) : Failed(t, i, g, n)

Descends(a) ==
  a.branch # NoBranch =>
    \E i \in Steps : \E g \in DOMAIN Groups(i) \ {1} :
      Groups(i)[g].branch = a.branch /\ UsedUp(a.task, i, g - 1)

(* Where the worker is on the ladder: the groups below are used up, and so  *)
(* are the attempts before this one.                                        *)
Climbing(x) ==
  x.pc \in InPolicy =>
    /\ \A g \in Nat \ {0} : g < x.group => UsedUp(x.task, x.step, g)
    /\ x.pc # "exhausted" =>
         \A n \in Nat \ {0} : n < x.no => Failed(x.task, x.step, x.group, n)
    /\ x.pc = "exhausted" => UsedUp(x.task, x.step, x.group)

Laddered ==
  /\ \A a \in attempts : Descends(a)
  /\ \A w \in Workers : Climbing(worker[w])

FinishedStay == \A a \in attempts : a.finished => a \in attempts'

LEMMA UsedUpStays ==
  ASSUME FinishedStay
  PROVE  /\ \A t, i, g, n : Failed(t, i, g, n) => Failed(t, i, g, n)'
         /\ \A t, i, g : UsedUp(t, i, g) => UsedUp(t, i, g)'
         /\ \A a : Descends(a) => Descends(a)'
         /\ \A x : Climbing(x) => Climbing(x)'
<1>1. \A t, i, g, n : Failed(t, i, g, n) => Failed(t, i, g, n)'
  BY DEF FinishedStay, Failed
<1>2. \A t, i, g : UsedUp(t, i, g) => UsedUp(t, i, g)'
  BY <1>1 DEF UsedUp
<1>3. QED  BY <1>1, <1>2 DEF Descends, Climbing

(* The same place on the ladder, or off it. *)
SamePlace(y, x) ==
  \/ y.pc \notin InPolicy
  \/ /\ {x.pc, y.pc} \subseteq InPolicy \ {"exhausted"}
     /\ y.task = x.task /\ y.step = x.step /\ y.group = x.group /\ y.no = x.no

(* A place that asks for no more than the one before, or for nothing.       *)
NoMoreThan(y, x) ==
  SamePlace(y, x) \/ (y.pc # "exhausted" /\ y.group = 1 /\ y.no = 1)

(* A worker at the foot of the ladder with a task that was in the queue and *)
(* is no more.                                                              *)
ClaimedNow(y) ==
  /\ y.pc = "setup" /\ y.group = 1 /\ y.no = 1 /\ y.target # "pending"
  /\ y.task \in TaskIds /\ task[y.task].status = "pending"
  /\ task'[y.task].status # "pending"

LEMMA NothingMore ==
  ASSUME NEW x, NEW y, Climbing(x), NoMoreThan(y, x)
  PROVE  Climbing(y)
<1>1. CASE y.pc \notin InPolicy
  BY <1>1 DEF Climbing
<1>2. CASE y.pc # "exhausted" /\ y.group = 1 /\ y.no = 1
  BY <1>2 DEF Climbing
<1>3. CASE /\ {x.pc, y.pc} \subseteq InPolicy \ {"exhausted"}
           /\ y.task = x.task /\ y.step = x.step /\ y.group = x.group /\ y.no = x.no
  BY <1>3 DEF Climbing
<1>4. QED  BY <1>1, <1>2, <1>3 DEF NoMoreThan, SamePlace

-----------------------------------------------------------------------------
(* The steps that leave the attempts alone.                                 *)
LEMMA StillSteps ==
  ASSUME RunnerSound, NEW w \in Workers,
         \/ Start(w) \/ Reconciled(w) \/ Claim(w) \/ Exit(w) \/ Setup(w) \/ Execute(w)
         \/ StepSkipped(w) \/ RunnerError(w) \/ Settle(w) \/ SettleCommit(w) \/ Finalize(w)
  PROVE  /\ attempts' = attempts
         /\ \A v \in Workers : v # w => worker'[v] = worker[v]
         /\ \/ SamePlace(worker'[w], worker[w])
            \/ ClaimedNow(worker'[w])
<1>1. worker \in [Workers -> WorkerState] /\ task \in [TaskIds -> Row]
  BY DEF RunnerSound, WorkersSound, Sound, TypeOK
<1>2. PICK x : x = worker[w] /\ x \in WorkerState
  BY <1>1
<1>3. attempts' = attempts
  BY DEF Start, Reconciled, Claim, Exit, Setup, Execute, StepSkipped, RunnerError, Settle,
         SettleCommit, Finalize
<1>4. \A v \in Workers : v # w => worker'[v] = worker[v]
  BY <1>1 DEF Start, Reconciled, Claim, Exit, Setup, Execute, StepSkipped, RunnerError, Settle,
              SettleCommit, Finalize, Goto, Raise, SettleAs
<1> SUFFICES SamePlace(worker'[w], worker[w]) \/ ClaimedNow(worker'[w])
  BY <1>3, <1>4
<1>5. /\ AtLoop.pc = "idle" /\ AtLoop.group = 1 /\ AtLoop.no = 1
      /\ AtLoop.target = "done" /\ AtLoop \in WorkerState
  BY LoopFormed DEF WellFormed, AtLoop, Down
<1>6. CASE Raise(w)
  <2>1. PICK y : /\ worker' = [worker EXCEPT ![w] = y]
                 /\ y.pc \in {"failing", "dead", "idle"}
    BY <1>6, RaiseFormed DEF RunnerSound
  <2>2. QED  BY <1>1, <2>1 DEF SamePlace, InPolicy
<1>7. CASE worker' = [worker EXCEPT ![w] = AtLoop]
  <2>1. worker'[w].pc = "idle"
    BY <1>1, <1>5, <1>7
  <2>2. QED  BY <2>1 DEF SamePlace, InPolicy
<1>8. ASSUME NEW pc, Goto(w, pc), pc \notin InPolicy
      PROVE  SamePlace(worker'[w], worker[w])
  <2>1. worker'[w] = [x EXCEPT !.pc = pc]
    BY <1>1, <1>2, <1>8 DEF Goto
  <2>2. worker'[w].pc = pc
    BY <1>2, <2>1 DEF WorkerState
  <2>3. QED  BY <1>8, <2>2 DEF SamePlace
<1>9. ASSUME NEW target, SettleAs(w, target) PROVE SamePlace(worker'[w], worker[w])
  <2>1. worker'[w] = [x EXCEPT !.pc = "settle", !.target = target]
    BY <1>1, <1>2, <1>9 DEF SettleAs
  <2>2. worker'[w].pc = "settle"
    BY <1>2, <2>1 DEF WorkerState
  <2>3. QED  BY <2>2 DEF SamePlace, InPolicy
<1>10. CASE Claim(w)
  <2>1. PICK t \in TaskIds :
          /\ ClaimNext(t)
          /\ worker' = [worker EXCEPT ![w] = [AtLoop EXCEPT !.pc = "setup", !.task = t]]
    BY <1>10 DEF Claim
  <2>2. worker'[w] = [AtLoop EXCEPT !.pc = "setup", !.task = t]
    BY <1>1, <2>1
  <2>3. /\ worker'[w].pc = "setup" /\ worker'[w].group = 1 /\ worker'[w].no = 1
        /\ worker'[w].task = t /\ worker'[w].target = "done"
    BY <1>5, <2>2 DEF WorkerState
  <2>4. task[t].status = "pending" /\ task'[t].status = "processing"
    BY <1>1, <2>1 DEF ClaimNext, OldestPending, Row
  <2>5. QED  BY <2>1, <2>3, <2>4 DEF ClaimedNow, InRun
<1>11. CASE x.pc = "setup" /\ Goto(w, "start")
  <2>1. worker'[w] = [x EXCEPT !.pc = "start"]
    BY <1>1, <1>2, <1>11 DEF Goto
  <2>2. /\ worker'[w].pc = "start" /\ worker'[w].task = x.task /\ worker'[w].step = x.step
        /\ worker'[w].group = x.group /\ worker'[w].no = x.no
    BY <1>2, <2>1 DEF WorkerState
  <2>3. QED  BY <1>2, <1>11, <2>2 DEF SamePlace, InPolicy
<1>12. ASSUME x.pc = "execute", NEW result,
              worker' = [worker EXCEPT ![w].pc = "finish", ![w].result = result]
       PROVE  SamePlace(worker'[w], worker[w])
  <2>1. worker'[w] = [x EXCEPT !.pc = "finish", !.result = result]
    BY <1>1, <1>2, <1>12
  <2>2. /\ worker'[w].pc = "finish" /\ worker'[w].task = x.task /\ worker'[w].step = x.step
        /\ worker'[w].group = x.group /\ worker'[w].no = x.no
    BY <1>2, <2>1 DEF WorkerState
  <2>3. QED  BY <1>2, <1>12, <2>2 DEF SamePlace, InPolicy
<1>13. CASE RunnerError(w)
  <2>1. worker'[w] = [x EXCEPT !.pc = "settle", !.target = "failed", !.handling = TRUE]
    BY <1>1, <1>2, <1>13 DEF RunnerError
  <2>2. worker'[w].pc = "settle"
    BY <1>2, <2>1 DEF WorkerState
  <2>3. QED  BY <2>2 DEF SamePlace, InPolicy
<1>14. QED
  <2>1. {"reconciling", "exited", "commit", "finalize"} \cap InPolicy = {}
    BY DEF InPolicy
  <2>2. QED
    BY <1>2, <1>6, <1>7, <1>8, <1>9, <1>10, <1>11, <1>12, <1>13, <2>1
       DEF Start, Reconciled, Exit, Setup, Execute, StepSkipped, Settle, SettleCommit, Finalize

(* An attempt is entered into the table where the worker is on the ladder.  *)
LEMMA RowDescends ==
  ASSUME RunnerSound, NEW w \in Workers, worker[w].pc \in InPolicy, Climbing(worker[w]),
         NEW a, a.task = worker[w].task,
         a.branch = Groups(worker[w].step)[worker[w].group].branch
  PROVE  Descends(a)
<1> DEFINE me == worker[w]
<1>1. me.step \in Steps /\ me.group \in DOMAIN Groups(me.step)
  BY DEF RunnerSound, WorkersSound, WorkerState
<1>2. me.group \in Nat \ {0} /\ (a.branch # NoBranch => me.group # 1)
  BY <1>1, GroupFacts
<1> HIDE DEF me
<1>3. ASSUME a.branch # NoBranch PROVE UsedUp(a.task, me.step, me.group - 1)
  <2>1. me.group - 1 \in Nat \ {0} /\ me.group - 1 < me.group
    BY <1>2, <1>3
  <2>2. QED  BY <2>1 DEF Climbing, me
<1>4. QED  BY <1>1, <1>2, <1>3 DEF Descends, me

LEMMA StartedAttempt ==
  ASSUME RunnerSound, Laddered, NEW w \in Workers, StartAttempt(w)
  PROVE  FinishedStay /\ (\A a \in attempts' : Descends(a))
         /\ (\A v \in Workers : Climbing(worker'[v]))
<1>1. worker \in [Workers -> WorkerState]
  BY DEF RunnerSound, WorkersSound
<1>2. PICK x : x = worker[w] /\ x \in WorkerState /\ x.pc = "start" /\ Climbing(x)
  BY <1>1 DEF StartAttempt, Laddered
<1>3. PICK row : row = OpenAttempt(x.task, Groups(x.step)[x.group].branch, x.no)
  OBVIOUS
<1>4. attempts' = attempts \cup {row} /\ worker' = [worker EXCEPT ![w].pc = "execute"]
  BY <1>2, <1>3 DEF StartAttempt, Goto
<1>5. row.task = x.task /\ row.branch = Groups(x.step)[x.group].branch
  BY <1>3 DEF OpenAttempt, AttemptRow
<1>6. Descends(row)
  BY <1>2, <1>5, RowDescends DEF InPolicy
<1>7. worker'[w] = [x EXCEPT !.pc = "execute"] /\ \A v \in Workers : v # w => worker'[v] = worker[v]
  BY <1>1, <1>2, <1>4
<1>8. NoMoreThan(worker'[w], x)
  <2>1. /\ worker'[w].pc = "execute" /\ worker'[w].task = x.task /\ worker'[w].step = x.step
        /\ worker'[w].group = x.group /\ worker'[w].no = x.no
    BY <1>2, <1>7 DEF WorkerState
  <2>2. QED  BY <1>2, <2>1 DEF NoMoreThan, SamePlace, InPolicy
<1>9. Climbing(worker'[w])
  <2>1. PICK y : y = worker'[w]
    OBVIOUS
  <2>2. QED  BY <1>2, <1>8, <2>1, NothingMore
<1>10. QED  BY <1>4, <1>6, <1>7, <1>9 DEF FinishedStay, Laddered

(* An attempt is closed: the next step or group begins at its first         *)
(* attempt, the next attempt after a failed one, and a group is used up     *)
(* with the last.                                                           *)
LEMMA FinishedAttempt ==
  ASSUME RunnerSound, Laddered, NEW w \in Workers, FinishAttempt(w)
  PROVE  FinishedStay /\ (\A a \in attempts' : Descends(a))
         /\ (\A v \in Workers : v # w => worker'[v] = worker[v])
         /\ \E y : y = worker'[w] /\ Climbing(y)'
<1>1. worker \in [Workers -> WorkerState]
  BY DEF RunnerSound, WorkersSound
<1>2. PICK x : /\ x = worker[w] /\ x \in WorkerState /\ x.pc = "finish" /\ Climbing(x)
               /\ x.group \in DOMAIN Groups(x.step)
  BY <1>1 DEF FinishAttempt, Laddered, RunnerSound, WorkersSound
<1>3. /\ x.step \in Steps /\ x.group \in Nat \ {0} /\ x.no \in Nat \ {0}
      /\ x.result \in {"ok", "fail", "skip"}
  BY <1>2 DEF WorkerState
<1>4. PICK group, last : /\ group = Groups(x.step)[x.group]
                         /\ last = IF group.branch = NoBranch THEN StepId(x.step) ELSE NoStep
  OBVIOUS
<1>5. group.retries \in Nat /\ (group.branch = NoBranch <=> x.group = 1)
  BY <1>2, <1>3, <1>4, GroupFacts, RunnerAssumption
<1>6. PICK open, closed :
        /\ open = OpenAttempt(x.task, group.branch, x.no)
        /\ closed = AttemptRow(x.task, group.branch, x.no, last, x.result = "ok", TRUE)
  OBVIOUS
<1>7. attempts' = (attempts \ {open}) \cup {closed}
  BY <1>2, <1>4, <1>6 DEF FinishAttempt
<1>8. /\ ~open.finished /\ closed.finished /\ closed.ok = (x.result = "ok")
      /\ closed.task = x.task /\ closed.branch = group.branch /\ closed.no = x.no
      /\ closed.last = last
  BY <1>6 DEF OpenAttempt, AttemptRow
<1>9. FinishedStay
  BY <1>7, <1>8 DEF FinishedStay
<1>10. Descends(closed)
  BY <1>2, <1>4, <1>8, RowDescends DEF InPolicy
<1>11. \A a \in attempts' : Descends(a)
  BY <1>7, <1>10 DEF Laddered
<1>12. \A v \in Workers : v # w => worker'[v] = worker[v]
  BY <1>1 DEF FinishAttempt, NextStep, SettleAs, Goto
<1>13. Climbing(x)'
  BY <1>2, <1>9, UsedUpStays
<1>14. ASSUME x.result = "fail" PROVE Failed(x.task, x.step, x.group, x.no)'
  <2>1. AttemptGroupKey(closed) = GroupKey(x.step, x.group)
    BY <1>4, <1>5, <1>8 DEF AttemptGroupKey, GroupKey
  <2>2. closed \in attempts' /\ ~closed.ok
    BY <1>7, <1>8, <1>14
  <2>3. QED  BY <1>8, <2>1, <2>2 DEF Failed
<1>15. CASE worker'[w].pc \notin InPolicy
  BY <1>9, <1>11, <1>12, <1>15 DEF Climbing
<1>16. CASE worker'[w].pc # "exhausted" /\ worker'[w].group = 1 /\ worker'[w].no = 1
  BY <1>9, <1>11, <1>12, <1>16 DEF Climbing
<1>17. CASE x.result = "fail" /\ worker' = [worker EXCEPT ![w].pc = "start", ![w].no = @ + 1]
  <2>1. PICK y : y = [x EXCEPT !.pc = "start", !.no = @ + 1]
    OBVIOUS
  <2>2. /\ y.pc = "start" /\ y.task = x.task /\ y.step = x.step /\ y.group = x.group
        /\ y.no = x.no + 1
    BY <1>2, <2>1 DEF WorkerState
  <2>3. \A n \in Nat \ {0} : n < y.no => Failed(x.task, x.step, x.group, n)'
    <3>1. \A n \in Nat \ {0} : n < y.no => n < x.no \/ n = x.no
      BY <1>3, <2>2
    <3>2. QED  BY <1>2, <1>13, <1>14, <1>17, <3>1 DEF Climbing, InPolicy
  <2>4. Climbing(y)'
    BY <1>2, <1>13, <2>2, <2>3 DEF Climbing, InPolicy
  <2>5. y = worker'[w]
    BY <1>1, <1>2, <1>17, <2>1
  <2>6. QED  BY <1>9, <1>11, <1>12, <2>4, <2>5
<1>18. CASE x.result = "fail" /\ ~RetryLeft(x.no, group) /\ Goto(w, "exhausted")
  <2>1. PICK y : y = [x EXCEPT !.pc = "exhausted"]
    OBVIOUS
  <2>2. y.pc = "exhausted" /\ y.task = x.task /\ y.step = x.step /\ y.group = x.group
    BY <1>2, <2>1 DEF WorkerState
  <2>3. UsedUp(x.task, x.step, x.group)'
    <3>1. \A n \in 1..(group.retries + 1) : n \in Nat \ {0} /\ (n < x.no \/ n = x.no)
      BY <1>3, <1>5, <1>18 DEF RetryLeft
    <3>2. \A n \in 1..(group.retries + 1) : Failed(x.task, x.step, x.group, n)'
      BY <1>2, <1>13, <1>14, <1>18, <3>1 DEF Climbing, InPolicy
    <3>3. QED  BY <1>4, <3>2 DEF UsedUp
  <2>4. Climbing(y)'
    BY <1>2, <1>13, <2>2, <2>3 DEF Climbing, InPolicy
  <2>5. y = worker'[w]
    BY <1>1, <1>2, <1>18, <2>1 DEF Goto
  <2>6. QED  BY <1>9, <1>11, <1>12, <2>4, <2>5
<1>19. QED
  <2>1. CASE x.result = "ok"
    <3>1. NextStep(w)
      BY <1>2, <2>1 DEF FinishAttempt
    <3>2. CASE SettleAs(w, "done")
      <4>1. worker'[w] = [x EXCEPT !.pc = "settle", !.target = "done"]
        BY <1>1, <1>2, <3>2 DEF SettleAs
      <4>2. worker'[w].pc = "settle"
        BY <1>2, <4>1 DEF WorkerState
      <4>3. QED  BY <1>15, <4>2 DEF InPolicy
    <3>3. CASE worker' = [worker EXCEPT ![w] = [@ EXCEPT !.pc = "start", !.step = x.step + 1,
                                                         !.group = 1, !.no = 1]]
      <4>1. worker'[w] = [x EXCEPT !.pc = "start", !.step = x.step + 1, !.group = 1, !.no = 1]
        BY <1>1, <1>2, <3>3
      <4>2. worker'[w].pc = "start" /\ worker'[w].group = 1 /\ worker'[w].no = 1
        BY <1>2, <4>1 DEF WorkerState
      <4>3. QED  BY <1>16, <4>2
    <3>4. QED  BY <1>2, <3>1, <3>2, <3>3 DEF NextStep
  <2>2. CASE x.result = "skip"
    <3>1. Goto(w, "skipping")
      BY <1>2, <2>2 DEF FinishAttempt
    <3>2. worker'[w] = [x EXCEPT !.pc = "skipping"]
      BY <1>1, <1>2, <3>1 DEF Goto
    <3>3. worker'[w].pc = "skipping"
      BY <1>2, <3>2 DEF WorkerState
    <3>4. QED  BY <1>15, <3>3 DEF InPolicy
  <2>3. CASE x.result = "fail"
    BY <1>2, <1>4, <1>17, <1>18, <2>3 DEF FinishAttempt
  <2>4. QED  BY <1>3, <2>1, <2>2, <2>3

(* A group is used up: the worker goes to the next one, or to the end.      *)
LEMMA ExhaustedGroup ==
  ASSUME RunnerSound, Laddered, NEW w \in Workers, GroupExhausted(w)
  PROVE  /\ attempts' = attempts
         /\ \A v \in Workers : v # w => worker'[v] = worker[v]
         /\ \E y : y = worker'[w] /\ Climbing(y)
<1>1. worker \in [Workers -> WorkerState]
  BY DEF RunnerSound, WorkersSound
<1>2. PICK x : x = worker[w] /\ x \in WorkerState /\ x.pc = "exhausted" /\ Climbing(x)
  BY <1>1 DEF GroupExhausted, Laddered
<1>3. attempts' = attempts
  BY DEF GroupExhausted
<1>4. \A v \in Workers : v # w => worker'[v] = worker[v]
  BY <1>1 DEF GroupExhausted, SettleAs
<1>5. ASSUME NEW target, SettleAs(w, target) PROVE \E y : y = worker'[w] /\ Climbing(y)
  <2>1. worker'[w] = [x EXCEPT !.pc = "settle", !.target = target]
    BY <1>1, <1>2, <1>5 DEF SettleAs
  <2>2. worker'[w].pc = "settle"
    BY <1>2, <2>1 DEF WorkerState
  <2>3. QED  BY <2>2 DEF Climbing, InPolicy
<1>6. CASE worker' = [worker EXCEPT ![w] = [@ EXCEPT !.pc = "start",
                                                     !.group = x.group + 1, !.no = 1]]
  <2>1. PICK y : y = [x EXCEPT !.pc = "start", !.group = x.group + 1, !.no = 1]
    OBVIOUS
  <2>2. /\ y.pc = "start" /\ y.task = x.task /\ y.step = x.step /\ y.no = 1
        /\ y.group = x.group + 1 /\ x.group \in Nat \ {0}
    BY <1>2, <2>1 DEF WorkerState
  <2>3. \A g \in Nat \ {0} : g < y.group => g < x.group \/ g = x.group
    BY <2>2
  <2>4. \A g \in Nat \ {0} : g < y.group => UsedUp(y.task, y.step, g)
    BY <1>2, <2>2, <2>3 DEF Climbing, InPolicy
  <2>5. Climbing(y)
    BY <2>2, <2>4 DEF Climbing
  <2>6. y = worker'[w]
    BY <1>1, <1>2, <1>6, <2>1
  <2>7. QED  BY <1>3, <1>4, <2>5, <2>6
<1>7. QED  BY <1>2, <1>3, <1>4, <1>5, <1>6 DEF GroupExhausted

-----------------------------------------------------------------------------
LEMMA LadderedStep == RunnerSound /\ Laddered /\ [RunnerNext]_runnerVars => Laddered'
<1> SUFFICES ASSUME RunnerSound, Laddered, [RunnerNext]_runnerVars PROVE Laddered'
  OBVIOUS
<1>1. ASSUME FinishedStay, \A a \in attempts' : Descends(a),
             \A v \in Workers : \E y : y = worker'[v] /\ (Climbing(y) \/ Climbing(y)')
      PROVE  Laddered'
  <2>1. \A a \in attempts' : Descends(a)'
    BY <1>1, UsedUpStays
  <2>2. ASSUME NEW v \in Workers PROVE Climbing(worker[v])'
    <3>1. PICK y : y = worker'[v] /\ Climbing(y)'
      BY <1>1, UsedUpStays
    <3>2. QED  BY <3>1 DEF Climbing
  <2>3. QED  BY <2>1, <2>2 DEF Laddered
<1>2. attempts' = attempts => FinishedStay /\ \A a \in attempts' : Descends(a)
  BY DEF FinishedStay, Laddered
<1>3. CASE ~\E w \in Workers : WorkerStep(w)
  <2>1. UNCHANGED attempts /\ \A w \in Workers : worker'[w] \in {worker[w], Down}
    BY <1>3, SurroundingStep
  <2>2. Climbing(Down)
    BY DEF Climbing, Down, InPolicy
  <2>3. \A v \in Workers : Climbing(worker'[v])
    BY <2>1, <2>2 DEF Laddered
  <2>4. QED  BY <1>1, <1>2, <2>1, <2>3
<1>4. ASSUME NEW w \in Workers, WorkerStep(w) PROVE Laddered'
  <2>1. CASE StartAttempt(w)
    BY <1>1, <2>1, StartedAttempt
  <2>2. CASE FinishAttempt(w)
    BY <1>1, <2>2, FinishedAttempt DEF Laddered
  <2>3. CASE GroupExhausted(w)
    BY <1>1, <1>2, <2>3, ExhaustedGroup DEF Laddered
  <2>4. CASE ~StartAttempt(w) /\ ~FinishAttempt(w) /\ ~GroupExhausted(w)
    <3>1. /\ attempts' = attempts
          /\ \A v \in Workers : v # w => worker'[v] = worker[v]
          /\ NoMoreThan(worker'[w], worker[w])
      BY <1>4, <2>4, StillSteps DEF WorkerStep, NoMoreThan, ClaimedNow
    <3>2. PICK x, y : x = worker[w] /\ y = worker'[w]
      OBVIOUS
    <3>3. Climbing(y)
      BY <3>1, <3>2, NothingMore DEF Laddered
    <3>4. QED  BY <1>1, <1>2, <3>1, <3>2, <3>3 DEF Laddered
  <2>5. QED  BY <2>1, <2>2, <2>3, <2>4
<1>5. QED  BY <1>3, <1>4

(* A recovery branch is tried only after every attempt of the group before  *)
(* it has failed, whatever was retried, cancelled, replayed or crashed      *)
(* (_run_with_policy).                                                      *)
THEOREM BranchesInOrder == RunnerSpec => []BranchAfterExhaustion
<1>1. RunnerInit => Laddered
  BY DEF RunnerInit, Laddered, Climbing, Down, InPolicy
<1>2. Laddered => BranchAfterExhaustion
  BY DEF Laddered, Descends, UsedUp, Failed, BranchAfterExhaustion
<1>3. QED  BY <1>1, <1>2, LadderedStep, AlwaysRunnerSound, PTL DEF RunnerSpec

-----------------------------------------------------------------------------
(* Nobody puts a task under way back into the queue: no user does anything, *)
(* and recovery finds nothing stale or gives up what it finds.              *)
Undisturbed ==
  Users = {} /\ (MaxTime <= StaleAfter \/ ReconcilePolicy = "fail")

(* A worker has its task for itself: the task is out of the queue, no       *)
(* update will put it back, and no other worker has it.                     *)
Alone ==
  /\ \A c \in Clients : session[c].rows # {} => session[c].target # "pending"
  /\ \A w \in Workers :
       /\ worker[w].target # "pending"
       /\ worker[w].pc \in InRun => task[worker[w].task].status # "pending"
       /\ worker[w].pc \notin InRun => worker[w].task = 0
  /\ RunsAlone

(* A row leaves the queue for good.                                         *)
LEMMA NotRequeued ==
  ASSUME Sound, Alone, [Next]_ledgerVars, NEW t \in TaskIds,
         task[t].status \notin {"pending", "absent"}
  PROVE  task'[t].status # "pending"
<1>1. TypeOK
  BY DEF Sound
<1>2. CASE Admission
  <2>1. PICK source \in {"scan", "arrival", "manifest"}, key \in Keys \cup {NoKey},
              ordinal \in Ordinals \cup {0} : Insert(source, key, ordinal)
    BY <1>1, <1>2, AdmissionStep
  <2>2. task'[t] = task[t]
    BY <1>1, <2>1, Inserted DEF NextId, Exists
  <2>3. QED  BY <2>2
<1>3. ASSUME NEW u \in TaskIds,
             ClaimNext(u) \/ Touch(u)
      PROVE  task'[t].status \in {task[t].status, "processing"}
  BY <1>1, <1>3 DEF ClaimNext, Touch, TypeOK, Row
<1>4. ASSUME NEW c \in Clients, Commit(c)
      PROVE  task'[t].status # "pending"
  <2>1. session[c] \in Session /\ task[t] \in Row /\ session[c].target \in Targets
    BY <1>1 DEF TypeOK, Session
  <2>2. session[c].target # "pending"
    BY <1>4 DEF Commit, Alone
  <2>3. QED  BY <1>4, <2>1, <2>2, WrittenIdentity DEF Commit
<1>5. CASE UNCHANGED task
  BY <1>5
<1>6. QED
  BY <1>2, <1>3, <1>4, <1>5
     DEF Next, ClientStep, SingleStatement, RaiseFlag, ResolveFlag, BeginTransition,
         BeginReconcile, Abort, BeginReserve, CommitReserve, Tick, ledgerVars

(* What a worker becomes: it keeps its task, drops it, or has claimed one.  *)
Keeps(x, y) ==
  /\ y.target # "pending"
  /\ \/ y.task = x.task /\ (x.pc \in InRun <=> y.pc \in InRun)
     \/ y.task = 0 /\ y.pc \notin InRun

LEMMA WorkerKeeps ==
  ASSUME RunnerSound, Alone, NEW w \in Workers, WorkerStep(w)
  PROVE  /\ \A v \in Workers : v # w => worker'[v] = worker[v]
         /\ Keeps(worker[w], worker'[w]) \/ ClaimedNow(worker'[w])
<1>1. worker \in [Workers -> WorkerState] /\ task \in [TaskIds -> Row]
  BY DEF RunnerSound, WorkersSound, Sound, TypeOK
<1>2. PICK x : x = worker[w] /\ x \in WorkerState
  BY <1>1
<1>3. \A v \in Workers : v # w => worker'[v] = worker[v]
  BY <1>1 DEF WorkerStep, Start, Reconciled, Claim, Exit, Setup, StartAttempt, Execute,
              FinishAttempt, NextStep, GroupExhausted, StepSkipped, RunnerError, Settle,
              SettleCommit, Finalize, Goto, Raise, SettleAs
<1> SUFFICES Keeps(x, worker'[w]) \/ ClaimedNow(worker'[w])
  BY <1>2, <1>3
<1>4. x.target # "pending" /\ (x.pc \notin InRun => x.task = 0)
  BY <1>2 DEF Alone
<1>5. /\ AtLoop \in WorkerState /\ AtLoop.pc = "idle" /\ AtLoop.task = 0
      /\ AtLoop.target = "done"
  BY LoopFormed DEF WellFormed, AtLoop, Down
<1>6. CASE worker' = [worker EXCEPT ![w] = AtLoop]
  <2>1. worker'[w] = AtLoop
    BY <1>1, <1>6
  <2>2. QED  BY <1>5, <2>1 DEF Keeps, InRun
<1>7. CASE x.pc \in InRun /\ Raise(w)
  <2>1. CASE ~x.handling
    <3>1. PICK y : y = [x EXCEPT !.pc = "failing"] /\ worker' = [worker EXCEPT ![w] = y]
      BY <1>1, <1>2, <1>7, <2>1 DEF Raise
    <3>2. y.pc = "failing" /\ y.task = x.task /\ y.target = x.target
      BY <1>2, <3>1 DEF WorkerState
    <3>3. QED  BY <1>1, <1>4, <1>7, <3>1, <3>2 DEF Keeps, InRun
  <2>2. CASE x.handling
    <3>1. PICK y : /\ y = [AtLoop EXCEPT !.pc = IF Oneshot THEN "dead" ELSE "idle"]
                   /\ worker' = [worker EXCEPT ![w] = y]
      BY <1>1, <1>2, <1>7, <2>2 DEF Raise
    <3>2. y.pc \in {"dead", "idle"} /\ y.task = 0 /\ y.target = "done"
      BY <1>5, <3>1 DEF WorkerState
    <3>3. QED  BY <1>1, <3>1, <3>2 DEF Keeps, InRun
  <2>3. QED  BY <2>1, <2>2
<1>8. ASSUME NEW pc, Goto(w, pc), x.pc \in InRun <=> pc \in InRun
      PROVE  Keeps(x, worker'[w])
  <2>1. worker'[w] = [x EXCEPT !.pc = pc]
    BY <1>1, <1>2, <1>8 DEF Goto
  <2>2. worker'[w].pc = pc /\ worker'[w].task = x.task /\ worker'[w].target = x.target
    BY <1>2, <2>1 DEF WorkerState
  <2>3. QED  BY <1>4, <1>8, <2>2 DEF Keeps
<1>9. ASSUME NEW target, SettleAs(w, target), target # "pending", x.pc \in InRun
      PROVE  Keeps(x, worker'[w])
  <2>1. worker'[w] = [x EXCEPT !.pc = "settle", !.target = target]
    BY <1>1, <1>2, <1>9 DEF SettleAs
  <2>2. worker'[w].pc = "settle" /\ worker'[w].task = x.task /\ worker'[w].target = target
    BY <1>2, <2>1 DEF WorkerState
  <2>3. QED  BY <1>9, <2>2 DEF Keeps, InRun
<1>10. CASE Claim(w)
  <2>1. SamePlace(worker'[w], worker[w]) \/ ClaimedNow(worker'[w])
    BY <1>10, StillSteps
  <2>2. worker'[w].pc = "setup" /\ x.pc = "idle"
    BY <1>1, <1>2, <1>5, <1>10 DEF Claim, WorkerState
  <2>3. QED  BY <1>2, <2>1, <2>2 DEF SamePlace, InPolicy
<1>11. CASE Execute(w)
  <2>1. x.pc = "execute"
    BY <1>2, <1>11 DEF Execute
  <2>2. ASSUME NEW result,
               worker' = [worker EXCEPT ![w].pc = "finish", ![w].result = result]
        PROVE  Keeps(x, worker'[w])
    <3>1. worker'[w] = [x EXCEPT !.pc = "finish", !.result = result]
      BY <1>1, <1>2, <2>2
    <3>2. worker'[w].pc = "finish" /\ worker'[w].task = x.task /\ worker'[w].target = x.target
      BY <1>2, <3>1 DEF WorkerState
    <3>3. QED  BY <1>4, <2>1, <3>2 DEF Keeps, InRun
  <2>3. QED  BY <1>7, <1>11, <2>1, <2>2 DEF Execute, InRun
<1>12. ASSUME NEW y, worker' = [worker EXCEPT ![w] = y], y.pc = "start", y.task = x.task,
              y.target = x.target, x.pc \in InRun
       PROVE  Keeps(x, worker'[w])
  BY <1>1, <1>4, <1>12 DEF Keeps, InRun
<1>13. CASE FinishAttempt(w)
  <2>1. x.pc = "finish" /\ x.pc \in InRun
    BY <1>2, <1>13 DEF FinishAttempt, InRun
  <2>2. CASE NextStep(w)
    <3>1. CASE SettleAs(w, "done")
      BY <1>9, <2>1, <3>1
    <3>2. ASSUME NEW i, worker' = [worker EXCEPT ![w] = [@ EXCEPT !.pc = "start", !.step = i,
                                                            !.group = 1, !.no = 1]]
          PROVE  Keeps(x, worker'[w])
      <4>1. PICK y : y = [x EXCEPT !.pc = "start", !.step = i, !.group = 1, !.no = 1]
        OBVIOUS
      <4>2. worker' = [worker EXCEPT ![w] = y]
        BY <1>1, <1>2, <3>2, <4>1
      <4>3. y.pc = "start" /\ y.task = x.task /\ y.target = x.target
        BY <1>2, <4>1 DEF WorkerState
      <4>4. QED  BY <1>12, <2>1, <4>2, <4>3
    <3>3. QED  BY <2>2, <3>1, <3>2 DEF NextStep
  <2>3. CASE worker' = [worker EXCEPT ![w].pc = "start", ![w].no = @ + 1]
    <3>1. PICK y : y = [x EXCEPT !.pc = "start", !.no = @ + 1]
      OBVIOUS
    <3>2. worker' = [worker EXCEPT ![w] = y]
      BY <1>1, <1>2, <2>3, <3>1
    <3>3. y.pc = "start" /\ y.task = x.task /\ y.target = x.target
      BY <1>2, <3>1 DEF WorkerState
    <3>4. QED  BY <1>12, <2>1, <3>2, <3>3
  <2>4. CASE Goto(w, "skipping") \/ Goto(w, "exhausted")
    BY <1>8, <2>1, <2>4 DEF InRun
  <2>5. x.result \in {"ok", "skip", "fail"}
    BY <1>2 DEF WorkerState
  <2>6. QED  BY <1>2, <1>13, <2>2, <2>3, <2>4, <2>5 DEF FinishAttempt
<1>14. CASE GroupExhausted(w)
  <2>1. x.pc \in InRun
    BY <1>2, <1>14 DEF GroupExhausted, InRun
  <2>2. CASE SettleAs(w, IF Policy(x.step).then = "mark_failed" THEN "flagged" ELSE "skipped")
    BY <1>9, <2>1, <2>2
  <2>3. CASE worker' = [worker EXCEPT ![w] = [@ EXCEPT !.pc = "start",
                                                       !.group = x.group + 1, !.no = 1]]
    <3>1. PICK y : y = [x EXCEPT !.pc = "start", !.group = x.group + 1, !.no = 1]
      OBVIOUS
    <3>2. worker' = [worker EXCEPT ![w] = y]
      BY <1>1, <1>2, <2>3, <3>1
    <3>3. y.pc = "start" /\ y.task = x.task /\ y.target = x.target
      BY <1>2, <3>1 DEF WorkerState
    <3>4. QED  BY <1>12, <2>1, <3>2, <3>3
  <2>4. QED  BY <1>2, <1>14, <2>2, <2>3 DEF GroupExhausted
<1>15. CASE StepSkipped(w)
  BY <1>2, <1>9, <1>15 DEF StepSkipped, InRun
<1>16. CASE RunnerError(w)
  <2>1. worker'[w] = [x EXCEPT !.pc = "settle", !.target = "failed", !.handling = TRUE]
    BY <1>1, <1>2, <1>16 DEF RunnerError
  <2>2. worker'[w].pc = "settle" /\ worker'[w].task = x.task /\ worker'[w].target = "failed"
    BY <1>2, <2>1 DEF WorkerState
  <2>3. QED  BY <1>2, <1>16, <2>2 DEF RunnerError, Keeps, InRun
<1>17. CASE Start(w) \/ Reconciled(w) \/ Exit(w)
  BY <1>2, <1>6, <1>8, <1>17 DEF Start, Reconciled, Exit, InRun
<1>18. CASE Setup(w) \/ StartAttempt(w)
  BY <1>2, <1>7, <1>8, <1>18 DEF Setup, StartAttempt, InRun
<1>19. CASE Settle(w) \/ SettleCommit(w) \/ Finalize(w)
  BY <1>2, <1>6, <1>7, <1>8, <1>19 DEF Settle, SettleCommit, Finalize, InRun
<1>20. QED
  BY <1>10, <1>11, <1>13, <1>14, <1>15, <1>16, <1>17, <1>18, <1>19 DEF WorkerStep

(* An update that is begun now is a worker's, or gives up what is stale.    *)
LEMMA NoRequeueBegun ==
  ASSUME RunnerSound, Alone, Undisturbed, [RunnerNext]_runnerVars, NEW c \in Clients
  PROVE  session'[c].rows # {} => session'[c].target # "pending"
<1>0. session \in [Clients -> Session] /\ Workers \subseteq Clients
  BY RunnerAssumption DEF RunnerSound, Sound, TypeOK
<1>1. CASE session' = session
  BY <1>1 DEF Alone
<1>2. ASSUME NEW w \in Workers, session' = [session EXCEPT ![w] = Closed]
      PROVE  session'[c].rows # {} => session'[c].target # "pending"
  BY <1>0, <1>2, ClosedUpdate DEF Alone
<1>3. ASSUME NEW w \in Workers, Settle(w)
      PROVE  session'[c].rows # {} => session'[c].target # "pending"
  <2>1. CASE UNCHANGED ledgerVars
    BY <1>1, <2>1 DEF ledgerVars
  <2>2. ASSUME NEW error, BeginTransition(w, worker[w].task, worker[w].target, error)
        PROVE  session'[c].rows # {} => session'[c].target # "pending"
    <3>1. c # w => session'[c] = session[c]
      BY <1>0, <2>2 DEF BeginTransition
    <3>2. c = w => session'[c].target = worker[w].target
      BY <1>0, <2>2 DEF BeginTransition
    <3>3. QED  BY <3>1, <3>2 DEF Alone
  <2>3. QED  BY <1>3, <2>1, <2>2 DEF Settle
<1>4. ASSUME NEW w \in Workers, Start(w)
      PROVE  session'[c].rows # {} => session'[c].target # "pending"
  <2>1. CASE UNCHANGED ledgerVars
    BY <1>1, <2>1 DEF ledgerVars
  <2>2. CASE BeginReconcile(w, ReconcilePolicy)
    <3>1. ReconcilePolicy = "fail"
      <4>1. PICK t \in TaskIds : task[t].updated < now - StaleAfter
        BY <2>2 DEF BeginReconcile, Stale
      <4>2. task[t].updated \in 0..MaxTime /\ now \in 0..MaxTime
        BY <4>1 DEF RunnerSound, Sound, TypeOK, Row
      <4>3. QED  BY <4>1, <4>2, LedgerAssumption DEF Undisturbed
    <3>2. c # w => session'[c] = session[c]
      BY <1>0, <2>2 DEF BeginReconcile
    <3>3. c = w => session'[c].target = "failed"
      BY <1>0, <2>2, <3>1 DEF BeginReconcile
    <3>4. QED  BY <3>2, <3>3 DEF Alone
  <2>3. QED  BY <1>4, <2>1, <2>2 DEF Start
<1>5. ASSUME NEW w \in Workers, Reconciled(w) \/ SettleCommit(w) \/ Crash(w)
      PROVE  session' = [session EXCEPT ![w] = Closed]
  BY <1>5 DEF Reconciled, SettleCommit, Commit, Crash
<1>6. ASSUME NEW w \in Workers, WorkerStep(w),
             ~Settle(w), ~Start(w), ~Reconciled(w), ~SettleCommit(w)
      PROVE  session' = session
  BY <1>6 DEF WorkerStep, Claim, ClaimNext, Exit, Setup, Touch, StartAttempt, Execute,
              FinishAttempt, GroupExhausted, StepSkipped, RunnerError,
              RaiseFlag, Finalize, ledgerVars
<1>7. ASSUME Admit \/ TimePasses \/ UNCHANGED runnerVars PROVE session' = session
  BY <1>7 DEF Admit, CreateTask, TimePasses, Tick, runnerVars
<1>8. QED
  BY <1>1, <1>2, <1>3, <1>4, <1>5, <1>6, <1>7 DEF RunnerNext, Undisturbed

LEMMA AloneStep == Undisturbed /\ RunnerSound /\ Alone /\ [RunnerNext]_runnerVars => Alone'
<1> SUFFICES ASSUME Undisturbed, RunnerSound, Alone, [RunnerNext]_runnerVars PROVE Alone'
  OBVIOUS
<1>1. \A c \in Clients : session'[c].rows # {} => session'[c].target # "pending"
  BY NoRequeueBegun
<1>2. \A w \in Workers : worker[w].pc \in InRun =>
        /\ worker[w].task \in TaskIds
        /\ task[worker[w].task].status \notin {"pending", "absent"}
  BY DEF Alone, RunnerSound, Holds, Exists
<1>3. \A w \in Workers : worker[w].pc \in InRun => task'[worker[w].task].status # "pending"
  BY <1>2, NotRequeued, LedgerStep DEF RunnerSound
<1>4. /\ Down.target # "pending" /\ Down.task = 0 /\ Down.pc \notin InRun
      /\ 0 \notin TaskIds
  BY LedgerAssumption DEF Down, InRun
<1>5. ASSUME \A w \in Workers : worker'[w] \in {worker[w], Down} PROVE Alone'
  <2>1. \A w \in Workers :
          /\ worker'[w].target # "pending"
          /\ worker'[w].pc \in InRun => task'[worker'[w].task].status # "pending"
          /\ worker'[w].pc \notin InRun => worker'[w].task = 0
    BY <1>3, <1>4, <1>5 DEF Alone
  <2>2. RunsAlone'
    BY <1>4, <1>5 DEF Alone, RunsAlone
  <2>3. QED  BY <1>1, <2>1, <2>2 DEF Alone
<1>6. ASSUME NEW w \in Workers, WorkerStep(w) PROVE Alone'
  <2>1. \A v \in Workers : v # w => worker'[v] = worker[v]
    BY <1>6, WorkerKeeps
  <2>2. PICK x, y : x = worker[w] /\ y = worker'[w]
    OBVIOUS
  <2>3. CASE Keeps(x, y)
    <3>1. /\ y.target # "pending"
          /\ y.pc \in InRun => task'[y.task].status # "pending"
          /\ y.pc \notin InRun => y.task = 0
          /\ y.task \in {0, x.task}
      BY <1>3, <2>2, <2>3 DEF Keeps, Alone
    <3>2. RunsAlone'
      BY <2>1, <2>2, <3>1 DEF Alone, RunsAlone
    <3>3. QED  BY <1>1, <1>3, <2>1, <2>2, <3>1, <3>2 DEF Alone
  <2>4. CASE ClaimedNow(y)
    <3>1. \A v \in Workers : worker[v].task # y.task
      BY <1>2, <1>4, <2>4 DEF ClaimedNow, Alone
    <3>2. RunsAlone'
      BY <2>1, <2>2, <3>1 DEF Alone, RunsAlone
    <3>3. QED  BY <1>1, <1>3, <2>1, <2>2, <2>4, <3>2 DEF Alone, ClaimedNow, InRun
  <2>5. QED  BY <1>6, <2>2, <2>3, <2>4, WorkerKeeps
<1>7. QED  BY <1>5, <1>6, SurroundingStep

LEMMA InitAlone == RunnerInit => Alone
<1>1. Down.target # "pending" /\ Down.task = 0 /\ Down.pc \notin InRun
  BY DEF Down, InRun
<1>2. QED  BY <1>1, ClosedUpdate DEF RunnerInit, Init, Alone, RunsAlone

-----------------------------------------------------------------------------
(* No group of one step is a group of another as well, and none twice in    *)
(* the same ladder.                                                         *)
LaddersApart ==
  \A i, j \in Steps : \A g \in DOMAIN Groups(i), h \in DOMAIN Groups(j) :
    GroupKey(i, g) = GroupKey(j, h) => i = j /\ g = h

(* An attempt at a step before the one at hand, or a failed one at a group  *)
(* that has been reached.                                                   *)
Below(a, x) ==
  \E i \in Steps : \E g \in DOMAIN Groups(i) :
    /\ AttemptGroupKey(a) = GroupKey(i, g)
    /\ i < x.step \/ (i = x.step /\ g <= x.group /\ ~a.ok)

Queued(t) == task[t].status \in {"pending", "absent"}

(* The attempts of a task are those of one run.                             *)
FirstRun ==
  \A a \in attempts :
    /\ a.ok => a.finished
    /\ a.finished => ~Queued(a.task)
    /\ \A w \in Workers :
         a.finished /\ a.task = worker[w].task /\ worker[w].pc \in InPolicy =>
           Below(a, worker[w])

LEMMA LevelIsGroup ==
  ASSUME LaddersApart, RunnerSound, Laddered, FirstRun,
         NEW w \in Workers, worker[w].pc = "exhausted"
  PROVE  ExhaustedBranches(worker[w].task, worker[w].step) = worker[w].group
<1>1. PICK x : x = worker[w] /\ x \in WorkerState /\ x.group \in DOMAIN Groups(x.step)
  BY DEF RunnerSound, WorkersSound
<1>2. PICK t, i, n : t = x.task /\ i = x.step /\ n = x.group
  OBVIOUS
<1>3. i \in Steps /\ n \in Nat \ {0} /\ n \in DOMAIN Groups(i)
  BY <1>1, <1>2 DEF WorkerState
<1>4. DOMAIN Groups(i) = 1..Len(Groups(i)) /\ Len(Groups(i)) \in Nat
  BY <1>3, GroupFacts
<1>5. \A g \in 1..n : g \in DOMAIN Groups(i) /\ g \in Nat \ {0}
  BY <1>3, <1>4
<1>6. \A g \in 1..n : UsedUp(t, i, g)
  <2>1. \A g \in 1..n : g \in Nat \ {0} /\ (g < n \/ g = n)
    BY <1>3
  <2>2. QED  BY <1>1, <1>2, <2>1 DEF Laddered, Climbing, InPolicy
<1>7. \A a \in attempts : a.finished /\ a.task = t => Below(a, x)
  BY <1>1, <1>2 DEF FirstRun, InPolicy
<1> DEFINE group(k) == {a \in attempts : a.task = t /\ AttemptGroupKey(a) = k}
           K == {k \in LadderKeys(i) : /\ \E a \in group(k) : a.finished
                                       /\ \A a \in group(k) : ~a.ok}
           f == [g \in 1..n |-> GroupKey(i, g)]
<1>8. ASSUME NEW a \in attempts, a.finished, a.task = t,
             NEW g \in DOMAIN Groups(i), AttemptGroupKey(a) = GroupKey(i, g)
      PROVE  g <= n /\ ~a.ok
  <2>1. PICK j, h :
          /\ j \in Steps /\ h \in DOMAIN Groups(j) /\ AttemptGroupKey(a) = GroupKey(j, h)
          /\ j < x.step \/ (j = x.step /\ h <= x.group /\ ~a.ok)
    BY <1>7, <1>8 DEF Below
  <2>2. GroupKey(j, h) = GroupKey(i, g) /\ g \in DOMAIN Groups(i) /\ i \in Steps
    BY <1>3, <1>8, <2>1
  <2>3. \A p \in DOMAIN Groups(j), q \in DOMAIN Groups(i) :
          GroupKey(j, p) = GroupKey(i, q) => j = i /\ p = q
    BY <2>1, <2>2 DEF LaddersApart
  <2>4. ~(i < i)
    BY <1>3, FirstStep
  <2>5. j = i /\ h = g
    BY <2>1, <2>2, <2>3
  <2>6. QED  BY <1>2, <2>1, <2>4, <2>5
<1>9. \A k \in K : \E g \in 1..n : k = GroupKey(i, g)
  <2> SUFFICES ASSUME NEW k \in K PROVE \E g \in 1..n : k = GroupKey(i, g)
    OBVIOUS
  <2>1. PICK g \in DOMAIN Groups(i) : k = GroupKey(i, g)
    BY DEF LadderKeys
  <2>2. PICK a \in attempts : a.task = t /\ AttemptGroupKey(a) = k /\ a.finished
    OBVIOUS
  <2>3. g <= n
    BY <1>8, <2>1, <2>2
  <2>4. g \in 1..n
    BY <1>3, <1>4, <2>3
  <2>5. QED  BY <2>1, <2>4
<1>10. \A g \in 1..n : GroupKey(i, g) \in K
  <2> SUFFICES ASSUME NEW g \in 1..n PROVE GroupKey(i, g) \in K
    OBVIOUS
  <2>1. g \in DOMAIN Groups(i) /\ GroupKey(i, g) \in LadderKeys(i)
    BY <1>5 DEF LadderKeys
  <2>2. Groups(i)[g].retries \in Nat
    BY <1>3, <2>1, GroupFacts
  <2>3. 1 \in 1..(Groups(i)[g].retries + 1)
    BY <2>2
  <2>4. \E a \in group(GroupKey(i, g)) : a.finished
    BY <1>6, <2>3 DEF UsedUp, Failed
  <2>5. \A a \in group(GroupKey(i, g)) : ~a.ok
    BY <1>8, <2>1 DEF FirstRun
  <2>6. QED  BY <2>1, <2>4, <2>5
<1>11. f \in Bijection(1..n, K)
  <2>1. \A g, h \in 1..n : GroupKey(i, g) = GroupKey(i, h) => g = h
    BY <1>3, <1>5 DEF LaddersApart
  <2> HIDE DEF K
  <2>2. f \in [1..n -> K]
    BY <1>10
  <2>3. f \in Injection(1..n, K)
    BY <2>1, <2>2 DEF Injection, IsInjective
  <2>4. f \in Surjection(1..n, K)
    BY <1>9, <2>2 DEF Surjection
  <2>5. QED  BY <2>3, <2>4 DEF Bijection
<1>12. IsFiniteSet(1..n) /\ Cardinality(1..n) = n
  <2>1. IsFiniteSet(1..n) /\ Cardinality(1..n) = IF 1 > n THEN 0 ELSE n - 1 + 1
    BY <1>3, FS_Interval
  <2>2. QED  BY <1>3, <2>1
<1>13. Cardinality(K) = n
  <2> HIDE DEF K, f
  <2>1. QED  BY <1>11, <1>12, FS_Bijection DEF ExistsBijection
<1>14. QED  BY <1>1, <1>2, <1>13 DEF ExhaustedBranches

(* What has left the queue does not come back.                              *)
LEMMA QueueLeft ==
  ASSUME Undisturbed, RunnerSound, Alone, [RunnerNext]_runnerVars, NEW t \in TaskIds, ~Queued(t)
  PROVE  ~Queued(t)'
<1>1. [Next]_ledgerVars
  BY LedgerStep
<1>2. task'[t].status # "pending"
  BY <1>1, NotRequeued DEF RunnerSound, Queued
<1>3. task'[t].status # "absent"
  BY <1>1, RowsStay DEF RunnerSound, Queued, Exists, Stays
<1>4. QED  BY <1>2, <1>3 DEF Queued

LEMMA FirstRunStep ==
  Undisturbed /\ RunnerSound /\ Alone /\ FirstRun /\ [RunnerNext]_runnerVars => FirstRun'
<1> SUFFICES ASSUME Undisturbed, RunnerSound, Alone, FirstRun, [RunnerNext]_runnerVars
             PROVE  FirstRun'
  OBVIOUS
<1>1. worker \in [Workers -> WorkerState] /\ \A a \in attempts : a.task \in TaskIds
  BY DEF RunnerSound, WorkersSound, Attempt
<1>2. \A w \in Workers : worker[w].pc \in InPolicy =>
        worker[w].task \in TaskIds /\ worker[w].task # 0 /\ ~Queued(worker[w].task)
  BY LedgerAssumption DEF RunnerSound, Holds, Exists, Alone, Queued, InPolicy, InRun
<1>3. \A t \in TaskIds : ~Queued(t) => ~Queued(t)'
  BY QueueLeft
<1>4. ASSUME attempts' = attempts,
             \A v \in Workers : \A a \in attempts :
               a.finished /\ a.task = worker'[v].task /\ worker'[v].pc \in InPolicy =>
                 Below(a, worker'[v])
      PROVE  FirstRun'
  <2>1. \A a \in attempts : (a.ok => a.finished) /\ (a.finished => ~Queued(a.task)')
    BY <1>1, <1>3 DEF FirstRun
  <2>2. QED  BY <1>4, <2>1 DEF FirstRun, Below, Queued
<1>5. ASSUME NEW w \in Workers, WorkerStep(w) PROVE FirstRun'
  <2>1. \A v \in Workers : v # w => worker'[v] = worker[v]
    BY <1>5, WorkerKeeps
  <2>2. PICK x, y : x = worker[w] /\ y = worker'[w]
    OBVIOUS
  <2>3. x \in WorkerState /\ x.group \in DOMAIN Groups(x.step)
    BY <1>1, <2>2 DEF RunnerSound, WorkersSound
  <2>4. ASSUME attempts' = attempts,
               \A a \in attempts : a.finished /\ a.task = y.task /\ y.pc \in InPolicy => Below(a, y)
        PROVE  FirstRun'
    BY <1>4, <2>1, <2>2, <2>4 DEF FirstRun
  <2>5. CASE StartAttempt(w)
    <3>1. PICK row : row = OpenAttempt(x.task, Groups(x.step)[x.group].branch, x.no)
      OBVIOUS
    <3>2. /\ x.pc = "start" /\ attempts' = attempts \cup {row}
          /\ worker' = [worker EXCEPT ![w].pc = "execute"]
      BY <2>2, <2>5, <3>1 DEF StartAttempt, Goto
    <3>3. ~row.finished /\ ~row.ok
      BY <3>1 DEF OpenAttempt, AttemptRow
    <3>4. y = [x EXCEPT !.pc = "execute"]
      BY <1>1, <2>2, <3>2
    <3>5. y.pc = "execute" /\ y.task = x.task /\ y.step = x.step /\ y.group = x.group
      BY <2>3, <3>4 DEF WorkerState
    <3>6. \A a \in attempts' : (a.ok => a.finished) /\ (a.finished => ~Queued(a.task)')
      BY <1>1, <1>3, <3>2, <3>3 DEF FirstRun
    <3>7. \A a \in attempts : a.finished /\ a.task = y.task => Below(a, y)
      BY <2>2, <3>2, <3>5 DEF FirstRun, InPolicy, Below
    <3>8. \A v \in Workers : \A a \in attempts' :
            a.finished /\ a.task = worker'[v].task /\ worker'[v].pc \in InPolicy =>
              Below(a, worker'[v])
      BY <2>1, <2>2, <3>2, <3>3, <3>7 DEF FirstRun
    <3>9. QED  BY <3>6, <3>8 DEF FirstRun, Below, Queued
  <2>6. CASE FinishAttempt(w)
    <3>1. PICK group, last : /\ group = Groups(x.step)[x.group]
                             /\ last = IF group.branch = NoBranch THEN StepId(x.step) ELSE NoStep
      OBVIOUS
    <3>2. PICK open, row :
            /\ open = OpenAttempt(x.task, group.branch, x.no)
            /\ row = AttemptRow(x.task, group.branch, x.no, last, x.result = "ok", TRUE)
      OBVIOUS
    <3>3. x.pc = "finish" /\ attempts' = (attempts \ {open}) \cup {row}
      BY <2>2, <2>6, <3>1, <3>2 DEF FinishAttempt
    <3>4. /\ row.finished /\ row.ok = (x.result = "ok") /\ row.task = x.task
          /\ row.branch = group.branch /\ row.last = last
      BY <3>2 DEF AttemptRow
    <3>5. x.step \in Steps /\ x.step \in Nat /\ x.group \in Nat
      BY <2>3, FirstStep DEF WorkerState
    <3>6. group.branch = NoBranch <=> x.group = 1
      BY <2>3, <3>1, <3>5, GroupFacts, RunnerAssumption
    <3>7. AttemptGroupKey(row) = GroupKey(x.step, x.group)
      BY <3>1, <3>4, <3>6 DEF AttemptGroupKey, GroupKey
    <3>8. \A a \in attempts' : (a.ok => a.finished) /\ (a.finished => ~Queued(a.task)')
      BY <1>1, <1>2, <1>3, <2>2, <3>3, <3>4 DEF FirstRun, InPolicy
    <3>9. \A v \in Workers : v # w /\ worker[v].pc \in InPolicy => worker[v].task # x.task
      BY <1>2, <2>2, <3>3 DEF Alone, RunsAlone, InPolicy
    <3>10. ASSUME y.pc \in InPolicy
           PROVE  /\ y.task = x.task
                  /\ \/ y.step = x.step + 1
                     \/ x.result # "ok" /\ y.step = x.step /\ y.group = x.group
      <4>1. CASE x.result = "ok"
        <5>1. NextStep(w)
          BY <2>2, <2>6, <4>1 DEF FinishAttempt
        <5>2. CASE SettleAs(w, "done")
          <6>1. y = [x EXCEPT !.pc = "settle", !.target = "done"]
            BY <1>1, <2>2, <5>2 DEF SettleAs
          <6>2. y.pc = "settle"
            BY <2>3, <6>1 DEF WorkerState
          <6>3. QED  BY <3>10, <6>2 DEF InPolicy
        <5>3. CASE worker' = [worker EXCEPT ![w] = [@ EXCEPT !.pc = "start", !.step = x.step + 1,
                                                             !.group = 1, !.no = 1]]
          <6>1. y = [x EXCEPT !.pc = "start", !.step = x.step + 1, !.group = 1, !.no = 1]
            BY <1>1, <2>2, <5>3
          <6>2. QED  BY <2>3, <6>1 DEF WorkerState
        <5>4. QED  BY <2>2, <5>1, <5>2, <5>3 DEF NextStep
      <4>2. CASE x.result # "ok"
        <5>1. x.result \in {"skip", "fail"}
          BY <2>3, <4>2 DEF WorkerState
        <5>2. ASSUME NEW pc, Goto(w, pc)
              PROVE  y.task = x.task /\ y.step = x.step /\ y.group = x.group
          <6>1. y = [x EXCEPT !.pc = pc]
            BY <1>1, <2>2, <5>2 DEF Goto
          <6>2. QED  BY <2>3, <6>1 DEF WorkerState
        <5>3. CASE worker' = [worker EXCEPT ![w].pc = "start", ![w].no = @ + 1]
          <6>1. y = [x EXCEPT !.pc = "start", !.no = @ + 1]
            BY <1>1, <2>2, <5>3
          <6>2. y.task = x.task /\ y.step = x.step /\ y.group = x.group
            BY <2>3, <6>1 DEF WorkerState
          <6>3. QED  BY <4>2, <6>2
        <5>4. QED  BY <2>2, <2>6, <4>2, <5>1, <5>2, <5>3 DEF FinishAttempt
      <4>3. QED  BY <4>1, <4>2
    <3>11. ASSUME NEW a \in attempts', a.finished, a.task = y.task, y.pc \in InPolicy
           PROVE  Below(a, y)
      <4>1. CASE a = row
        <5>1. x.step < x.step + 1 /\ x.group <= x.group
          BY <3>5
        <5>2. row.ok => y.step = x.step + 1
          BY <3>4, <3>10, <3>11
        <5>3. x.step < y.step \/ (x.step = y.step /\ x.group <= y.group /\ ~row.ok)
          BY <3>4, <3>10, <3>11, <5>1
        <5>4. QED  BY <2>3, <3>5, <3>7, <4>1, <5>3 DEF Below
      <4>2. CASE a \in attempts
        <5>1. Below(a, x)
          BY <2>2, <3>3, <3>10, <3>11, <4>2 DEF FirstRun, InPolicy
        <5>2. \A i \in Steps : i <= x.step => i < x.step + 1
          BY <3>5, FirstStep
        <5>3. QED  BY <3>5, <3>10, <3>11, <5>1, <5>2, FirstStep DEF Below
      <4>3. QED  BY <3>3, <3>11, <4>1, <4>2
    <3>12. \A v \in Workers : \A a \in attempts' :
             a.finished /\ a.task = worker'[v].task /\ worker'[v].pc \in InPolicy =>
               Below(a, worker'[v])
      <4>1. \A a \in attempts' : a \in attempts \/ a.task = x.task
        BY <3>3, <3>4
      <4>2. QED  BY <2>1, <2>2, <3>9, <3>11, <4>1 DEF FirstRun
    <3>13. QED  BY <3>8, <3>12 DEF FirstRun, Below, Queued
  <2>7. CASE GroupExhausted(w)
    <3>1. /\ attempts' = attempts
          /\ y.pc \in InPolicy => /\ x.pc \in InPolicy /\ y.task = x.task /\ y.step = x.step
                                  /\ y.group = x.group + 1
      <4>1. attempts' = attempts /\ x.pc = "exhausted"
        BY <2>2, <2>7 DEF GroupExhausted
      <4>2. ASSUME NEW target, SettleAs(w, target) PROVE y.pc \notin InPolicy
        <5>1. y = [x EXCEPT !.pc = "settle", !.target = target]
          BY <1>1, <2>2, <4>2 DEF SettleAs
        <5>2. y.pc = "settle"
          BY <2>3, <5>1 DEF WorkerState
        <5>3. QED  BY <5>2 DEF InPolicy
      <4>3. CASE worker' = [worker EXCEPT ![w] = [@ EXCEPT !.pc = "start",
                                                           !.group = x.group + 1, !.no = 1]]
        <5>1. y = [x EXCEPT !.pc = "start", !.group = x.group + 1, !.no = 1]
          BY <1>1, <2>2, <4>3
        <5>2. y.task = x.task /\ y.step = x.step /\ y.group = x.group + 1
          BY <2>3, <5>1 DEF WorkerState
        <5>3. QED  BY <4>1, <5>2 DEF InPolicy
      <4>4. QED  BY <2>2, <2>7, <4>1, <4>2, <4>3 DEF GroupExhausted
    <3>2. \A i \in Steps : \A g \in DOMAIN Groups(i) : g <= x.group => g <= x.group + 1
      <4>1. x.group \in Nat
        BY <2>3 DEF WorkerState
      <4>2. QED  BY <4>1, GroupFacts
    <3>3. \A a : Below(a, x) /\ y.pc \in InPolicy => Below(a, y)
      BY <3>1, <3>2 DEF Below
    <3>4. QED  BY <2>2, <2>4, <3>1, <3>3 DEF FirstRun
  <2>8. CASE ~StartAttempt(w) /\ ~FinishAttempt(w) /\ ~GroupExhausted(w)
    <3>1. attempts' = attempts /\ (SamePlace(y, x) \/ ClaimedNow(y))
      BY <1>5, <2>2, <2>8, StillSteps DEF WorkerStep
    <3>2. CASE SamePlace(y, x)
      BY <2>2, <2>4, <3>1, <3>2 DEF FirstRun, SamePlace, Below
    <3>3. CASE ClaimedNow(y)
      BY <2>4, <3>1, <3>3 DEF FirstRun, ClaimedNow, Queued
    <3>4. QED  BY <3>1, <3>2, <3>3
  <2>9. QED  BY <2>5, <2>6, <2>7, <2>8
<1>6. CASE ~\E w \in Workers : WorkerStep(w)
  <2>1. UNCHANGED attempts /\ \A w \in Workers : worker'[w] \in {worker[w], Down}
    BY <1>6, SurroundingStep
  <2>2. Down.pc \notin InPolicy
    BY DEF Down, InPolicy
  <2>3. QED  BY <1>4, <2>1, <2>2 DEF FirstRun
<1>7. QED  BY <1>5, <1>6

(* A flag of an exhausted group is raised by the worker that exhausted it.  *)
LEMMA FlagRaised ==
  ASSUME RunnerSound, [RunnerNext]_runnerVars, NEW f \in flags', f \notin flags,
         f.kind = "task_failure"
  PROVE  \E w \in Workers :
           /\ worker[w].pc = "exhausted" /\ f.rung = worker[w].group
           /\ f.level = ExhaustedBranches(worker[w].task, worker[w].step)
<1>1. ASSUME NEW c, Commit(c) PROVE FALSE
  <2>1. \E t \in session[c].rows : f = StaleFlag(t)
    BY <1>1 DEF Commit
  <2>2. QED  BY <2>1 DEF StaleFlag
<1>2. ASSUME NEW t, NEW kind, NEW level, NEW rung, RaiseFlag(t, kind, level, rung)
      PROVE  kind = "task_failure" /\ f.level = level /\ f.rung = rung
  <2>1. f = [task |-> t, kind |-> kind, level |-> level, rung |-> rung, open |-> TRUE]
    BY <1>2 DEF RaiseFlag
  <2>2. QED  BY <2>1
<1>3. ASSUME NEW w \in Workers, GroupExhausted(w)
      PROVE  /\ worker[w].pc = "exhausted" /\ f.rung = worker[w].group
             /\ f.level = ExhaustedBranches(worker[w].task, worker[w].step)
  BY <1>2, <1>3 DEF GroupExhausted
<1>4. ASSUME NEW w \in Workers, StepSkipped(w) \/ RunnerError(w) PROVE FALSE
  BY <1>2, <1>4 DEF StepSkipped, RunnerError
<1>5. ASSUME NEW w \in Workers, WorkerStep(w) PROVE GroupExhausted(w)
  BY <1>1, <1>4, <1>5
     DEF WorkerStep, Start, BeginReconcile, Reconciled, Claim, ClaimNext, Exit, Setup, Touch,
         StartAttempt, Execute, FinishAttempt, Settle, BeginTransition,
         SettleCommit, Finalize, ledgerVars
<1>6. ASSUME \/ \E w \in Workers : Crash(w)
             \/ \E u \in Users : UserStep(u)
             \/ Admit \/ TimePasses \/ UNCHANGED runnerVars
      PROVE  FALSE
  BY <1>1, <1>6 DEF Crash, UserStep, BeginTransition, Abort, Admit, CreateTask, TimePasses, Tick,
                    runnerVars
<1>7. QED  BY <1>3, <1>5, <1>6 DEF RunnerNext

(* The documented escalation (docs/ledger.md): in the first run of a task   *)
(* the level of a flag is the rung of the ladder it was raised at, for      *)
(* every playbook whose steps share no recovery branch (exhausted_branches, *)
(* _run_with_policy).                                                       *)
THEOREM LevelsAreRungs ==
  ASSUME Undisturbed, LaddersApart PROVE RunnerSpec => []LevelIsRung
<1>1. RunnerInit => Alone
  BY InitAlone
<1>2. RunnerInit => Laddered /\ FirstRun /\ LevelIsRung
  BY DEF RunnerInit, Init, Laddered, Climbing, Down, InPolicy, FirstRun, LevelIsRung
<1>3. RunnerSound /\ Alone /\ [RunnerNext]_runnerVars => Alone'
  BY AloneStep
<1>4. RunnerSound /\ Alone /\ FirstRun /\ [RunnerNext]_runnerVars => FirstRun'
  BY FirstRunStep
<1>5. RunnerSound /\ Laddered /\ FirstRun /\ LevelIsRung /\ [RunnerNext]_runnerVars => LevelIsRung'
  <2> SUFFICES ASSUME RunnerSound, Laddered, FirstRun, LevelIsRung, [RunnerNext]_runnerVars,
                      NEW f \in flags', f.kind = "task_failure"
               PROVE  f.level = f.rung
    BY DEF LevelIsRung
  <2>1. CASE f \in flags
    BY <2>1 DEF LevelIsRung
  <2>2. CASE f \notin flags
    BY <2>2, FlagRaised, LevelIsGroup
  <2>3. QED  BY <2>1, <2>2
<1>6. QED  BY <1>1, <1>2, <1>3, <1>4, <1>5, LadderedStep, AlwaysRunnerSound, PTL DEF RunnerSpec
=============================================================================
