---------------------------- MODULE RunnerProofs ----------------------------
(***************************************************************************)
(* What holds of the worker for every playbook, every number of tasks,     *)
(* workers, users, crashes and replays.                                    *)
(***************************************************************************)
EXTENDS Runner, LedgerProofs, FiniteSetTheorems

-----------------------------------------------------------------------------
(* The playbook *)

LEMMA Prepended ==
  ASSUME NEW T, NEW x, NEW rest \in Seq(T)
  PROVE  /\ Len(<<x>> \o rest) = Len(rest) + 1
         /\ DOMAIN (<<x>> \o rest) = 1..(Len(rest) + 1)
         /\ (<<x>> \o rest)[1] = x
         /\ \A g \in 2..(Len(rest) + 1) :
              (<<x>> \o rest)[g] = rest[g - 1] /\ rest[g - 1] \in T
<1>1. <<x>> \in Seq({x}) /\ Len(<<x>>) = 1 /\ <<x>>[1] = x
  OBVIOUS
<1>2. rest \in Seq(T \cup {x}) /\ <<x>> \in Seq(T \cup {x}) /\ Len(rest) \in Nat
  OBVIOUS
<1>3. QED  BY <1>1, <1>2

(* A ladder is the primary group and the named branches after it. *)
LEMMA GroupFacts ==
  ASSUME NEW i \in Steps
  PROVE  /\ Len(Groups(i)) \in Nat \ {0}
         /\ DOMAIN Groups(i) = 1..Len(Groups(i))
         /\ Groups(i)[1].branch = NoBranch /\ Groups(i)[1].retries \in Nat
         /\ \A g \in DOMAIN Groups(i) \ {1} :
              Groups(i)[g].branch \in BranchNames /\ Groups(i)[g].retries \in Nat
<1> DEFINE first == [branch |-> NoBranch, retries |-> Policy(i).retries]
           rest == Policy(i).branches
<1>1. rest \in Seq([branch : BranchNames, retries : Nat]) /\ Policy(i).retries \in Nat
  BY PlaybookAssumption
<1>2. Groups(i) = <<first>> \o rest
  BY DEF Groups
<1>3. /\ Len(Groups(i)) = Len(rest) + 1
      /\ DOMAIN Groups(i) = 1..(Len(rest) + 1)
      /\ Groups(i)[1] = first
      /\ \A g \in 2..(Len(rest) + 1) : Groups(i)[g] = rest[g - 1]
  BY <1>1, <1>2, Prepended
<1>4. \A g \in 2..(Len(rest) + 1) : rest[g - 1] \in [branch : BranchNames, retries : Nat]
  BY <1>1, Prepended
<1>5. first.branch = NoBranch /\ first.retries \in Nat
  BY <1>1 DEF first
<1>6. Len(rest) \in Nat
  BY <1>1
<1>7. QED  BY <1>2, <1>3, <1>4, <1>5, <1>6

LEMMA FirstStep == 1 \in Steps /\ \A i \in Steps : i \in Nat \ {0}
  BY PlaybookAssumption DEF Steps

(* The level of a flag is at most the length of the failing step's ladder,  *)
(* so the ledger has it.                                                    *)
LEMMA LevelBound ==
  ASSUME NEW t, NEW i \in Steps
  PROVE  ExhaustedBranches(t, i) \in 0..Len(Groups(i))
<1> DEFINE n == Len(Groups(i))
           f == [g \in 1..n |-> GroupKey(i, g)]
<1>1. n \in Nat /\ DOMAIN Groups(i) = 1..n
  BY GroupFacts
<1>2. f \in Surjection(1..n, LadderKeys(i))
  BY <1>1 DEF LadderKeys, Surjection
<1>3. IsFiniteSet(1..n) /\ Cardinality(1..n) = n
  <2>1. \A m \in Nat : IsFiniteSet(1..m) /\ Cardinality(1..m) = m
    <3> SUFFICES ASSUME NEW m \in Nat PROVE IsFiniteSet(1..m) /\ Cardinality(1..m) = m
      OBVIOUS
    <3>1. IsFiniteSet(1..m) /\ Cardinality(1..m) = IF 1 > m THEN 0 ELSE m - 1 + 1
      BY FS_Interval
    <3>2. QED  BY <3>1
  <2>2. QED  BY <1>1, <2>1
<1>4. IsFiniteSet(LadderKeys(i)) /\ Cardinality(LadderKeys(i)) <= n
  BY <1>2, <1>3, FS_Surjection
<1>5. PICK K \in SUBSET LadderKeys(i) : ExhaustedBranches(t, i) = Cardinality(K)
  BY DEF ExhaustedBranches
<1>6. IsFiniteSet(K) /\ Cardinality(K) <= Cardinality(LadderKeys(i))
  BY <1>4, <1>5, FS_Subset
<1>7. Cardinality(K) \in Nat /\ Cardinality(LadderKeys(i)) \in Nat
  BY <1>4, <1>6, FS_CardinalityType
<1>8. QED  BY <1>1, <1>4, <1>5, <1>6, <1>7

LEMMA LevelTypes ==
  ASSUME NEW i \in Steps
  PROVE  /\ 1 \in Levels
         /\ DOMAIN Groups(i) \subseteq Levels
         /\ \A t : ExhaustedBranches(t, i) \in Levels
<1>1. 0..Len(Groups(i)) \subseteq Levels
  BY PlaybookAssumption
<1>2. Len(Groups(i)) \in Nat \ {0} /\ DOMAIN Groups(i) = 1..Len(Groups(i))
  BY GroupFacts
<1>3. QED  BY <1>1, <1>2, LevelBound

-----------------------------------------------------------------------------
(* The worker as a client of the ledger *)

(* The places where the worker has a task in hand. *)
InRun == {"setup", "start", "execute", "finish", "exhausted", "skipping", "failing",
          "settle", "commit", "finalize"}

WorkersSound ==
  /\ worker \in [Workers -> WorkerState]
  /\ \A w \in Workers : worker[w].group \in DOMAIN Groups(worker[w].step)

(* A worker has an update open only between the two halves of reconcile and *)
(* of transition, and the task in its hands is a row of the table; nobody   *)
(* reserves a name here and the trigger is always between two calls.        *)
Holds ==
  /\ \A c \in Clients : binding[c] = NoBinding
  /\ session[Trigger] = Closed
  /\ \A w \in Workers :
       /\ worker[w].pc \notin {"reconciling", "commit"} => session[w] = Closed
       /\ worker[w].pc \in InRun => worker[w].task \in TaskIds /\ Exists(worker[w].task)

RunnerSound ==
  /\ Sound /\ WorkersSound /\ Holds
  /\ attempts \subseteq Attempt
  /\ crashes \in 0..MaxCrashes

(* Each step of a worker is a step of the ledger's general client. *)
LEMMA WorkerIsClient ==
  ASSUME RunnerSound, NEW w \in Workers, WorkerStep(w)
  PROVE  [Next]_ledgerVars
<1> DEFINE me == worker[w]
<1>1. w \in Clients /\ me \in WorkerState /\ me.group \in DOMAIN Groups(me.step)
  BY RunnerAssumption DEF RunnerSound, WorkersSound
<1>2. me.step \in Steps /\ me.target \in Targets
  BY <1>1 DEF WorkerState
<1>3. me.pc \notin {"reconciling", "commit"} => Idle(w)
  BY <1>1 DEF RunnerSound, Holds, Idle
<1>4. me.pc \in InRun => me.task \in TaskIds
  BY DEF RunnerSound, Holds
<1> HIDE DEF me
<1>5. CASE Start(w)
  <2>1. CASE UNCHANGED ledgerVars
    BY <2>1
  <2>2. CASE BeginReconcile(w, ReconcilePolicy)
    BY <1>1, <2>2, RunnerAssumption DEF Next, ClientStep
  <2>3. QED  BY <1>5, <2>1, <2>2 DEF Start
<1>6. CASE Reconciled(w) \/ SettleCommit(w)
  BY <1>1, <1>6 DEF Reconciled, SettleCommit, Next, ClientStep
<1>7. CASE Claim(w)
  <2>1. Idle(w)
    BY <1>3, <1>7 DEF Claim, me
  <2>2. QED  BY <1>1, <1>7, <2>1 DEF Claim, Next, SingleStatement
<1>8. CASE Exit(w) \/ StartAttempt(w) \/ Execute(w) \/ Finalize(w)
  BY <1>8 DEF Exit, StartAttempt, Execute, Finalize
<1>9. CASE Setup(w) \/ FinishAttempt(w)
  <2>1. me.pc \in {"setup", "finish"}
    BY <1>9 DEF Setup, FinishAttempt, me
  <2>2. Idle(w) /\ me.task \in TaskIds
    BY <1>3, <1>4, <2>1 DEF InRun
  <2>3. Touch(me.task) \/ UNCHANGED ledgerVars
    BY <1>9 DEF Setup, FinishAttempt, me
  <2>4. QED  BY <1>1, <2>2, <2>3 DEF Next, SingleStatement
<1>10. CASE GroupExhausted(w)
  <2>1. me.pc = "exhausted"
    BY <1>10 DEF GroupExhausted, me
  <2>2. Idle(w) /\ me.task \in TaskIds
    BY <1>3, <1>4, <2>1 DEF InRun
  <2>3. RaiseFlag(me.task, "task_failure", ExhaustedBranches(me.task, me.step), me.group)
    BY <1>10 DEF GroupExhausted, me
  <2>4. ExhaustedBranches(me.task, me.step) \in Levels /\ me.group \in Levels
    BY <1>1, <1>2, LevelTypes DEF me
  <2>5. QED  BY <1>1, <2>2, <2>3, <2>4 DEF Next, SingleStatement
<1>11. CASE StepSkipped(w) \/ RunnerError(w)
  <2>1. me.pc \in {"skipping", "failing"}
    BY <1>11 DEF StepSkipped, RunnerError, me
  <2>2. Idle(w) /\ me.task \in TaskIds
    BY <1>3, <1>4, <2>1 DEF InRun
  <2>3. \E kind \in {"runner_error", "task_skipped"} : RaiseFlag(me.task, kind, 1, 0)
    BY <1>11 DEF StepSkipped, RunnerError, me
  <2>4. 1 \in Levels
    BY <1>2, LevelTypes
  <2>5. QED  BY <1>1, <2>2, <2>3, <2>4 DEF Next, SingleStatement
<1>12. CASE Settle(w)
  <2>1. me.pc = "settle"
    BY <1>12 DEF Settle, me
  <2>2. me.task \in TaskIds
    BY <1>4, <2>1 DEF InRun
  <2>3. \/ BeginTransition(w, me.task, me.target,
                           IF me.target = "failed" THEN "runner error" ELSE "none")
        \/ UNCHANGED ledgerVars
    BY <1>12 DEF Settle, me
  <2>4. QED  BY <1>1, <1>2, <2>2, <2>3 DEF Next, ClientStep
<1>13. QED
  BY <1>5, <1>6, <1>7, <1>8, <1>9, <1>10, <1>11, <1>12 DEF WorkerStep

(* So is everything else that happens around the worker. *)
LEMMA LedgerStep == RunnerSound /\ [RunnerNext]_runnerVars => [Next]_ledgerVars
<1> SUFFICES ASSUME RunnerSound, [RunnerNext]_runnerVars PROVE [Next]_ledgerVars
  OBVIOUS
<1>1. ASSUME NEW w \in Workers, Crash(w) PROVE [Next]_ledgerVars
  <2>1. /\ w \in Clients /\ binding[w] = NoBinding
        /\ session \in [Clients -> Session] /\ DOMAIN binding = Clients
        /\ binding = [c \in DOMAIN binding |-> binding[c]]
    BY RunnerAssumption DEF RunnerSound, Sound, TypeOK, Holds
  <2>2. /\ session' = [session EXCEPT ![w] = Closed]
        /\ UNCHANGED <<task, reserved, flags, binding, now>>
    BY <1>1 DEF Crash
  <2>3. CASE Idle(w)
    BY <2>1, <2>2, <2>3 DEF Idle, ledgerVars
  <2>4. CASE ~Idle(w)
    <3>1. binding = [binding EXCEPT ![w] = NoBinding]
      BY <2>1
    <3>2. Abort(w)
      BY <2>2, <2>4, <3>1 DEF Abort
    <3>3. QED  BY <2>1, <3>2 DEF Next, ClientStep
  <2>5. QED  BY <2>3, <2>4
<1>2. ASSUME NEW u \in Users, UserStep(u) PROVE [Next]_ledgerVars
  <2>1. /\ u \in Clients /\ {"pending", "skipped"} \subseteq Targets
        /\ UserTargets \subseteq {"pending", "skipped"}
    BY RunnerAssumption DEF Targets, Statuses
  <2>2. ASSUME NEW t \in TaskIds, NEW target \in {"pending", "skipped"},
               BeginTransition(u, t, target, "none")
        PROVE  ClientStep(u)
    BY <2>1, <2>2 DEF ClientStep
  <2>3. QED  BY <1>2, <2>1, <2>2 DEF UserStep, Next, ClientStep
<1>3. CASE Admit
  <2>1. Trigger \in Clients /\ Idle(Trigger)
    BY RunnerAssumption DEF RunnerSound, Holds, Idle
  <2>2. Admission
    BY <1>3 DEF Admit, Admission
  <2>3. QED  BY <2>1, <2>2 DEF Next, SingleStatement
<1>4. CASE TimePasses
  BY <1>4 DEF TimePasses, Next
<1>5. CASE UNCHANGED runnerVars
  BY <1>5 DEF runnerVars, ledgerVars
<1>6. QED  BY <1>1, <1>2, <1>3, <1>4, <1>5, WorkerIsClient DEF RunnerNext

(* The rows of the table stay. *)
Stays(t) == t \in TaskIds /\ task'[t].status # "absent"

LEMMA RowsStay ==
  ASSUME Sound, [Next]_ledgerVars
  PROVE  \A t \in TaskIds : Exists(t) => Stays(t)
<1>1. TypeOK
  BY DEF Sound
<1>2. CASE Admission
  <2>1. PICK source \in {"scan", "arrival", "manifest"}, key \in Keys \cup {NoKey},
              ordinal \in Ordinals \cup {0} : Insert(source, key, ordinal)
    BY <1>1, <1>2, AdmissionStep
  <2>2. \E t \in TaskIds :
          /\ \A u \in TaskIds : u # t => task'[u] = task[u]
          /\ task'[t].status = "pending"
    BY <1>1, <2>1, Inserted
  <2>3. QED  BY <2>2 DEF Exists, Stays
<1>3. CASE Update
  BY <1>3 DEF Update, SameIdentity, Exists, Stays
<1>4. QED  BY <1>2, <1>3, UpdateStep

-----------------------------------------------------------------------------
(* The worker's own state *)

WellFormed(x) == x \in WorkerState /\ x.group \in DOMAIN Groups(x.step)

(* What the worker becomes in one step: still well formed, holding an       *)
(* update only where Holds allows it, and with the same task in hand or     *)
(* none, but for a claim.                                                   *)
Moves(w, x) ==
  /\ worker' = [worker EXCEPT ![w] = x]
  /\ WellFormed(x)
  /\ x.pc \notin {"reconciling", "commit"} => session'[w] = Closed
  /\ x.pc \in InRun => Stays(x.task)

LEMMA LoopFormed == WellFormed(Down) /\ WellFormed(AtLoop)
<1>1. 1 \in Steps /\ 1 \in DOMAIN Groups(1)
  BY FirstStep, GroupFacts
<1>2. "done" \in Targets
  BY DEF Targets, Statuses
<1>3. Down \in WorkerState
  BY <1>1, <1>2 DEF Down, WorkerState, PCs
<1>4. Down.group = 1 /\ Down.step = 1
  BY DEF Down
<1>5. AtLoop \in WorkerState /\ AtLoop.group = 1 /\ AtLoop.step = 1
  BY <1>3, <1>4 DEF AtLoop, WorkerState, PCs
<1>6. QED  BY <1>1, <1>3, <1>4, <1>5 DEF WellFormed

(* pc alone changes. *)
LEMMA GotoFormed ==
  ASSUME WorkersSound, NEW w \in Workers, NEW pc \in PCs
  PROVE  /\ WellFormed([worker[w] EXCEPT !.pc = pc])
         /\ [worker[w] EXCEPT !.pc = pc].pc = pc
         /\ [worker[w] EXCEPT !.pc = pc].task = worker[w].task
         /\ Goto(w, pc) => worker' = [worker EXCEPT ![w] = [worker[w] EXCEPT !.pc = pc]]
  BY DEF WorkersSound, WellFormed, WorkerState, Goto

(* An exception leads to the handler with the task, or to no task at all. *)
LEMMA RaiseFormed ==
  ASSUME WorkersSound, NEW w \in Workers, Raise(w)
  PROVE  \E x : /\ worker' = [worker EXCEPT ![w] = x] /\ WellFormed(x)
                /\ \/ /\ ~worker[w].handling
                      /\ x = [worker[w] EXCEPT !.pc = "failing"]
                      /\ x.pc = "failing" /\ x.task = worker[w].task
                   \/ /\ x.pc \in {"dead", "idle"}
                      /\ worker[w].handling
<1>1. CASE ~worker[w].handling
  <2> DEFINE x == [worker[w] EXCEPT !.pc = "failing"]
  <2>1. worker' = [worker EXCEPT ![w] = x]
    BY <1>1 DEF Raise, WorkersSound
  <2>2. WellFormed(x) /\ x.pc = "failing" /\ x.task = worker[w].task
    BY GotoFormed DEF PCs
  <2>3. QED  BY <1>1, <2>1, <2>2
<1>2. CASE worker[w].handling
  <2> DEFINE x == [AtLoop EXCEPT !.pc = IF Oneshot THEN "dead" ELSE "idle"]
  <2>1. worker' = [worker EXCEPT ![w] = x]
    BY <1>2 DEF Raise, WorkersSound
  <2>2. WellFormed(x) /\ x.pc \in {"dead", "idle"}
    BY LoopFormed DEF WellFormed, WorkerState, PCs
  <2>3. QED  BY <1>2, <2>1, <2>2
<1>3. QED  BY <1>1, <1>2

-----------------------------------------------------------------------------
(* Evidence: what the worker must have in the tables at each place, and     *)
(* what each end status rests on.  Evidence is never taken away.            *)
RungFlag(t, g) == \E f \in flags : f.task = t /\ f.kind = "task_failure" /\ f.rung = g

Climbed(t, i) == Policy(i).then = "mark_failed" /\ \A g \in DOMAIN Groups(i) : RungFlag(t, g)

ErrorFlag(t) == \E f \in flags : f.task = t /\ f.kind \in {"runner_error", "stale_processing"}

Justified(t, s) ==
  /\ s = "done" => \A i \in Steps : Succeeded(t, i)
  /\ s = "flagged" => \E i \in Steps : Climbed(t, i)
  /\ s = "failed" => ErrorFlag(t)

InPolicy == {"setup", "start", "execute", "finish", "exhausted"}

Warranted(x) ==
  /\ x.pc \in InPolicy =>
       /\ \A j \in Steps : j < x.step => Succeeded(x.task, j)
       /\ \A g \in Nat \ {0} : g < x.group => RungFlag(x.task, g)
  /\ x.pc \in {"settle", "commit"} => Justified(x.task, x.target)

EvidenceKept == flags \subseteq flags' /\ \A a \in attempts : a.ok => a \in attempts'

LEMMA Monotone ==
  ASSUME EvidenceKept
  PROVE  /\ \A t, i : Succeeded(t, i) => Succeeded(t, i)'
         /\ \A t, g : RungFlag(t, g) => RungFlag(t, g)'
         /\ \A t, s : Justified(t, s) => Justified(t, s)'
         /\ \A x : Warranted(x) => Warranted(x)'
<1>1. \A t, i : Succeeded(t, i) => Succeeded(t, i)'
  BY DEF EvidenceKept, Succeeded
<1>2. \A t, g : RungFlag(t, g) => RungFlag(t, g)'
  BY DEF EvidenceKept, RungFlag
<1>3. \A t, i : Climbed(t, i) => Climbed(t, i)'
  BY <1>2 DEF Climbed
<1>4. \A t : ErrorFlag(t) => ErrorFlag(t)'
  BY DEF EvidenceKept, ErrorFlag
<1>5. \A t, s : Justified(t, s) => Justified(t, s)'
  BY <1>1, <1>3, <1>4 DEF Justified
<1>6. \A x : Warranted(x) => Warranted(x)'
  BY <1>1, <1>2, <1>5 DEF Warranted
<1>7. QED  BY <1>1, <1>2, <1>5, <1>6

(* The outcome of one step of worker w. *)
WorkerMoved(w) ==
  /\ EvidenceKept
  /\ attempts' \subseteq Attempt
  /\ UNCHANGED <<binding, crashes>>
  /\ \A c \in Clients \ {w} : session'[c] = session[c]
  /\ \E x : Moves(w, x) /\ (Warranted(worker[w]) => Warranted(x)')

(* A step that leaves attempts and the raised flags and moves to a place    *)
(* that asks for no more evidence than the one before.                      *)
LEMMA PlainMove ==
  ASSUME RunnerSound, NEW w \in Workers, NEW x, Moves(w, x),
         flags \subseteq flags', UNCHANGED <<attempts, binding, crashes>>,
         \A c \in Clients \ {w} : session'[c] = session[c],
         x.pc \in InPolicy =>
           \/ /\ worker[w].pc \in InPolicy
              /\ x.task = worker[w].task /\ x.step = worker[w].step
              /\ x.group = worker[w].group
           \/ x.step = 1 /\ x.group = 1,
         x.pc \in {"settle", "commit"} =>
           /\ worker[w].pc \in {"settle", "commit"}
           /\ x.task = worker[w].task /\ x.target = worker[w].target
  PROVE  WorkerMoved(w)
<1>1. EvidenceKept /\ attempts' \subseteq Attempt
  BY DEF EvidenceKept, RunnerSound
<1>2. Warranted(worker[w]) => Warranted(x)'
  <2> SUFFICES ASSUME Warranted(worker[w]) PROVE Warranted(x)'
    OBVIOUS
  <2>1. CASE x.step = 1 /\ x.group = 1 /\ x.pc \notin {"settle", "commit"}
    BY <2>1, FirstStep DEF Warranted
  <2>2. CASE x.step # 1 \/ x.group # 1 \/ x.pc \in {"settle", "commit"}
    <3>1. Warranted(x)
      BY <2>2 DEF Warranted, InPolicy
    <3>2. QED  BY <1>1, <3>1, Monotone
  <2>3. QED  BY <2>1, <2>2
<1>3. QED  BY <1>1, <1>2 DEF WorkerMoved

(* The task in hand is still a row after the step. *)
LEMMA TaskStays ==
  ASSUME RunnerSound, NEW w \in Workers, worker[w].pc \in InRun, [Next]_ledgerVars
  PROVE  Stays(worker[w].task)
  BY RowsStay DEF RunnerSound, Holds

(* An exception raised between two ledger calls. *)
LEMMA RaiseMove ==
  ASSUME RunnerSound, NEW w \in Workers, Raise(w), [Next]_ledgerVars,
         worker[w].pc \in InRun \ {"commit"},
         UNCHANGED <<flags, session, attempts, binding, crashes>>
  PROVE  WorkerMoved(w)
<1>1. PICK x : /\ worker' = [worker EXCEPT ![w] = x] /\ WellFormed(x)
               /\ \/ x.pc = "failing" /\ x.task = worker[w].task
                  \/ x.pc \in {"dead", "idle"}
  BY RaiseFormed DEF RunnerSound
<1>2. Stays(worker[w].task)
  BY TaskStays
<1>3. session'[w] = Closed
  BY DEF RunnerSound, Holds, InRun
<1>4. Moves(w, x)
  BY <1>1, <1>2, <1>3 DEF Moves, InRun
<1>5. x.pc \notin InPolicy /\ x.pc \notin {"settle", "commit"}
  BY <1>1 DEF InPolicy
<1>6. QED  BY <1>4, <1>5, PlainMove

(* A move to another place of the same run, with the same loop variables. *)
LEMMA GotoMove ==
  ASSUME RunnerSound, NEW w \in Workers, NEW pc \in PCs, Goto(w, pc), [Next]_ledgerVars,
         pc \in InRun => worker[w].pc \in InRun,
         pc \notin {"reconciling", "commit"} => session'[w] = Closed,
         pc \in InPolicy => worker[w].pc \in InPolicy,
         pc \in {"settle", "commit"} => worker[w].pc \in {"settle", "commit"},
         flags \subseteq flags', UNCHANGED <<attempts, binding, crashes>>,
         \A c \in Clients \ {w} : session'[c] = session[c]
  PROVE  WorkerMoved(w)
<1> DEFINE x == [worker[w] EXCEPT !.pc = pc]
<1>1. WellFormed(x) /\ x.pc = pc /\ x.task = worker[w].task
      /\ worker' = [worker EXCEPT ![w] = x]
  BY GotoFormed DEF RunnerSound
<1>2. x.step = worker[w].step /\ x.group = worker[w].group /\ x.target = worker[w].target
  BY DEF RunnerSound, WorkersSound, WorkerState
<1> HIDE DEF x
<1>3. pc \in InRun => Stays(worker[w].task)
  BY TaskStays
<1>4. Moves(w, x)
  BY <1>1, <1>3 DEF Moves
<1>5. QED  BY <1>1, <1>2, <1>4, PlainMove

(* start, reconcile and the loop: nothing is in hand but a fresh claim. *)
LEMMA LoopMoves ==
  ASSUME RunnerSound, NEW w \in Workers, [Next]_ledgerVars,
         Start(w) \/ Reconciled(w) \/ Claim(w) \/ Exit(w)
  PROVE  WorkerMoved(w)
<1>1. w \in Clients /\ session \in [Clients -> Session]
  BY RunnerAssumption DEF RunnerSound, Sound, TypeOK
<1>2. AtLoop.pc = "idle" /\ WellFormed(AtLoop)
  BY LoopFormed DEF AtLoop, Down
<1>3. CASE Start(w) /\ UNCHANGED ledgerVars /\ worker' = [worker EXCEPT ![w] = AtLoop]
  <2>1. session'[w] = Closed /\ UNCHANGED <<session, flags, attempts, binding, crashes>>
    BY <1>3 DEF Start, RunnerSound, Holds, ledgerVars
  <2>2. Moves(w, AtLoop)
    BY <1>2, <1>3, <2>1 DEF Moves, InRun
  <2>3. QED  BY <1>2, <2>1, <2>2, PlainMove DEF InPolicy
<1>4. CASE Start(w) /\ BeginReconcile(w, ReconcilePolicy) /\ Goto(w, "reconciling")
  <2>1. \A c \in Clients \ {w} : session'[c] = session[c]
    BY <1>1, <1>4 DEF BeginReconcile
  <2>2. UNCHANGED <<flags, attempts, binding, crashes>>
    BY <1>4 DEF BeginReconcile, Start
  <2>3. QED  BY <1>4, <2>1, <2>2, GotoMove DEF PCs, InRun, InPolicy
<1>5. CASE Reconciled(w)
  <2>1. /\ \A c \in Clients \ {w} : session'[c] = session[c]
        /\ session'[w] = Closed /\ flags \subseteq flags'
        /\ UNCHANGED <<attempts, binding, crashes>>
    BY <1>1, <1>5 DEF Reconciled, Commit
  <2>2. Moves(w, AtLoop)
    BY <1>2, <1>5, <2>1 DEF Moves, InRun, Reconciled
  <2>3. QED  BY <1>2, <2>1, <2>2, PlainMove DEF InPolicy
<1>6. CASE Claim(w)
  <2>1. PICK t \in TaskIds :
          /\ ClaimNext(t)
          /\ worker' = [worker EXCEPT ![w] = [AtLoop EXCEPT !.pc = "setup", !.task = t]]
    BY <1>6 DEF Claim
  <2> DEFINE x == [AtLoop EXCEPT !.pc = "setup", !.task = t]
  <2>2. /\ WellFormed(x) /\ x.pc = "setup" /\ x.task = t /\ x.step = 1 /\ x.group = 1
    <3>1. AtLoop \in WorkerState /\ AtLoop.group \in DOMAIN Groups(AtLoop.step)
          /\ AtLoop.step = 1 /\ AtLoop.group = 1
      BY LoopFormed DEF WellFormed, AtLoop, Down
    <3>2. x \in WorkerState /\ x.pc = "setup" /\ x.task = t /\ x.step = AtLoop.step
          /\ x.group = AtLoop.group
      BY <3>1 DEF WorkerState, PCs
    <3>3. QED  BY <3>1, <3>2 DEF WellFormed
  <2> HIDE DEF x
  <2>3. Stays(t)
    BY <2>1, RowsStay DEF ClaimNext, OldestPending, Exists, RunnerSound
  <2>4. UNCHANGED <<session, flags, attempts, binding, crashes>> /\ session'[w] = Closed
    BY <1>6, <2>1 DEF Claim, ClaimNext, RunnerSound, Holds
  <2>5. Moves(w, x)
    BY <2>1, <2>2, <2>3, <2>4 DEF Moves, x
  <2>6. QED  BY <2>2, <2>4, <2>5, PlainMove
<1>7. CASE Exit(w)
  <2>1. UNCHANGED <<session, flags, attempts, binding, crashes>> /\ session'[w] = Closed
    BY <1>7 DEF Exit, ledgerVars, RunnerSound, Holds
  <2>2. QED  BY <1>7, <2>1, GotoMove DEF Exit, PCs, InRun, InPolicy
<1>8. QED  BY <1>3, <1>4, <1>5, <1>6, <1>7 DEF Start

(* The end of a run: the target is decided and the worker is about to set it. *)
LEMMA SettleMove ==
  ASSUME RunnerSound, NEW w \in Workers, NEW target \in Targets, SettleAs(w, target),
         [Next]_ledgerVars, worker[w].pc \in InRun \ {"commit"},
         UNCHANGED <<session, binding, crashes>>,
         EvidenceKept, attempts' \subseteq Attempt,
         Warranted(worker[w]) => \E t : t = worker[w].task /\ Justified(t, target)'
  PROVE  WorkerMoved(w)
<1> DEFINE x == [worker[w] EXCEPT !.pc = "settle", !.target = target]
<1>1. worker[w] \in WorkerState /\ worker[w].group \in DOMAIN Groups(worker[w].step)
  BY DEF RunnerSound, WorkersSound
<1>2. x \in WorkerState /\ x.pc = "settle" /\ x.target = target /\ x.task = worker[w].task
      /\ x.step = worker[w].step /\ x.group = worker[w].group
  BY <1>1 DEF WorkerState, PCs
<1>3. worker' = [worker EXCEPT ![w] = x]
  BY DEF SettleAs, RunnerSound, WorkersSound
<1>4. PICK y : y = x
  OBVIOUS
<1> HIDE DEF x
<1>5. session'[w] = Closed /\ Stays(worker[w].task)
  BY TaskStays DEF RunnerSound, Holds, InRun
<1>6. Moves(w, y)
  BY <1>1, <1>2, <1>3, <1>4, <1>5 DEF Moves, WellFormed
<1>7. Warranted(worker[w]) => Warranted(y)'
  <2> SUFFICES ASSUME Warranted(worker[w]) PROVE Warranted(y)'
    OBVIOUS
  <2>1. Justified(y.task, y.target)'
    BY <1>2, <1>4
  <2>2. y.pc = "settle"
    BY <1>2, <1>4
  <2>3. QED  BY <2>1, <2>2 DEF Warranted, InPolicy
<1>8. \A c \in Clients \ {w} : session'[c] = session[c]
  OBVIOUS
<1>9. QED  BY <1>6, <1>7, <1>8 DEF WorkerMoved

(* A move inside the ladders: the loop variables change. *)
LEMMA LadderMove ==
  ASSUME RunnerSound, NEW w \in Workers, NEW x,
         worker' = [worker EXCEPT ![w] = x], WellFormed(x),
         x.pc \in InPolicy, x.task = worker[w].task,
         [Next]_ledgerVars, worker[w].pc \in InPolicy,
         UNCHANGED <<session, binding, crashes>>,
         EvidenceKept, attempts' \subseteq Attempt,
         Warranted(worker[w]) => Warranted(x)'
  PROVE  WorkerMoved(w)
<1>1. session'[w] = Closed
  BY DEF RunnerSound, Holds, InPolicy
<1>2. Stays(x.task)
  BY TaskStays DEF InPolicy, InRun
<1>3. Moves(w, x)
  BY <1>1, <1>2 DEF Moves, InPolicy, InRun
<1>4. \A c \in Clients \ {w} : session'[c] = session[c]
  OBVIOUS
<1>5. QED  BY <1>3, <1>4 DEF WorkerMoved

(* setup, start_attempt and the execution of a sequence. *)
LEMMA AttemptMoves ==
  ASSUME RunnerSound, NEW w \in Workers, [Next]_ledgerVars,
         Setup(w) \/ StartAttempt(w) \/ Execute(w)
  PROVE  WorkerMoved(w)
<1>1. CASE Setup(w)
  <2>1. worker[w].pc = "setup" /\ UNCHANGED <<flags, session, attempts, binding, crashes>>
    BY <1>1 DEF Setup, Touch, ledgerVars
  <2>2. session'[w] = Closed
    BY <2>1 DEF RunnerSound, Holds
  <2>3. CASE Goto(w, "start")
    BY <2>1, <2>2, <2>3, GotoMove DEF PCs, InRun, InPolicy
  <2>4. CASE Raise(w)
    BY <2>1, <2>4, RaiseMove DEF InRun
  <2>5. QED  BY <1>1, <2>3, <2>4 DEF Setup
<1>2. CASE StartAttempt(w)
  <2> DEFINE me == worker[w]
             row == OpenAttempt(me.task, Groups(me.step)[me.group].branch, me.no)
             x == [me EXCEPT !.pc = "execute"]
  <2>1. /\ me.pc = "start" /\ attempts' = attempts \cup {row} /\ Goto(w, "execute")
        /\ UNCHANGED <<flags, session, binding, crashes>>
    BY <1>2 DEF StartAttempt, ledgerVars
  <2>2. me \in WorkerState /\ me.group \in DOMAIN Groups(me.step)
    BY DEF RunnerSound, WorkersSound
  <2>3. me.task \in TaskIds /\ me.step \in Steps /\ me.no \in Nat \ {0}
    BY <2>1, <2>2 DEF RunnerSound, Holds, InRun, WorkerState
  <2>4. Groups(me.step)[me.group].branch \in Branches
    BY <2>2, <2>3, GroupFacts DEF Branches
  <2>5. row \in Attempt
    BY <2>3, <2>4 DEF OpenAttempt, AttemptRow, Attempt
  <2>6. EvidenceKept /\ attempts' \subseteq Attempt
    BY <2>1, <2>5 DEF EvidenceKept, RunnerSound
  <2>7. /\ WellFormed(x) /\ x.pc = "execute" /\ x.task = me.task
        /\ worker' = [worker EXCEPT ![w] = x]
    BY <2>1, GotoFormed DEF RunnerSound, PCs
  <2>8. x.step = me.step /\ x.group = me.group
    BY <2>2 DEF WorkerState
  <2>9. PICK y : y = x
    OBVIOUS
  <2> HIDE DEF x
  <2>10. Warranted(me) => Warranted(y)
    BY <2>1, <2>7, <2>8, <2>9 DEF Warranted, InPolicy
  <2>11. Warranted(me) => Warranted(y)'
    BY <2>6, <2>10, Monotone
  <2>12. QED  BY <2>1, <2>6, <2>7, <2>9, <2>11, LadderMove DEF InPolicy
<1>3. CASE Execute(w)
  <2>1. worker[w].pc = "execute" /\ UNCHANGED <<flags, session, attempts, binding, crashes>>
    BY <1>3 DEF Execute, ledgerVars
  <2>2. CASE Raise(w)
    BY <2>1, <2>2, RaiseMove DEF InRun
  <2>3. ASSUME NEW result \in {"ok", "fail", "skip"},
               worker' = [worker EXCEPT ![w].pc = "finish", ![w].result = result]
        PROVE  WorkerMoved(w)
    <3> DEFINE x == [worker[w] EXCEPT !.pc = "finish", !.result = result]
    <3>1. worker[w] \in WorkerState /\ worker[w].group \in DOMAIN Groups(worker[w].step)
      BY DEF RunnerSound, WorkersSound
    <3>2. x \in WorkerState /\ x.pc = "finish" /\ x.task = worker[w].task
          /\ x.step = worker[w].step /\ x.group = worker[w].group
      BY <3>1 DEF WorkerState, PCs
    <3>3. worker' = [worker EXCEPT ![w] = x]
      BY <2>3 DEF RunnerSound, WorkersSound
    <3>4. PICK y : y = x
      OBVIOUS
    <3> HIDE DEF x
    <3>5. WellFormed(y) /\ EvidenceKept /\ attempts' \subseteq Attempt
      BY <2>1, <3>1, <3>2, <3>4 DEF WellFormed, EvidenceKept, RunnerSound
    <3>6. Warranted(worker[w]) => Warranted(y)
      BY <2>1, <3>2, <3>4 DEF Warranted, InPolicy
    <3>7. QED  BY <2>1, <3>2, <3>3, <3>4, <3>5, <3>6, LadderMove, Monotone DEF InPolicy
  <2>4. QED  BY <1>3, <2>2, <2>3 DEF Execute
<1>4. QED  BY <1>1, <1>2, <1>3

(* finish_attempt: a success is recorded before the next step is entered.   *)
LEMMA FinishMoves ==
  ASSUME RunnerSound, NEW w \in Workers, [Next]_ledgerVars, FinishAttempt(w)
  PROVE  WorkerMoved(w)
<1> DEFINE me == worker[w]
           branch == Groups(me.step)[me.group].branch
           open == OpenAttempt(me.task, branch, me.no)
           last == IF branch = NoBranch THEN StepId(me.step) ELSE NoStep
           closed == AttemptRow(me.task, branch, me.no, last, me.result = "ok", TRUE)
<1>1. /\ me.pc = "finish" /\ UNCHANGED <<flags, session, binding, crashes>>
      /\ attempts' = (attempts \ {open}) \cup {closed}
  BY DEF FinishAttempt, Touch, ledgerVars
<1>2. me \in WorkerState /\ me.group \in DOMAIN Groups(me.step)
  BY DEF RunnerSound, WorkersSound
<1>3. /\ me.task \in TaskIds /\ me.step \in Steps /\ me.no \in Nat \ {0}
      /\ me.group \in Nat \ {0}
  BY <1>1, <1>2 DEF RunnerSound, Holds, InRun, WorkerState
<1>4. branch \in Branches /\ (branch = NoBranch <=> me.group = 1)
  BY <1>2, <1>3, GroupFacts, RunnerAssumption DEF Branches
<1>6. StepId(me.step) \in StepIds
  BY <1>3 DEF StepIds
<1>7. closed \in Attempt
  <2>1. (me.result = "ok") \in BOOLEAN
    OBVIOUS
  <2>2. (IF branch = NoBranch THEN StepId(me.step) ELSE NoStep) \in StepIds \cup {NoStep}
    BY <1>6
  <2>3. PICK ok, last1 : ok = (me.result = "ok") /\ last1 = last
    OBVIOUS
  <2>4. closed = AttemptRow(me.task, branch, me.no, last1, ok, TRUE)
    BY <2>3
  <2> HIDE DEF closed, branch, me, last
  <2>5. ok \in BOOLEAN /\ last1 \in StepIds \cup {NoStep}
    BY <2>1, <2>2, <2>3 DEF last
  <2>6. QED  BY <1>3, <1>4, <2>4, <2>5 DEF Attempt, AttemptRow
<1>8. EvidenceKept /\ attempts' \subseteq Attempt
  <2>1. open.ok = FALSE
    BY DEF OpenAttempt, AttemptRow
  <2>2. attempts \subseteq Attempt
    BY DEF RunnerSound
  <2> HIDE DEF open, closed
  <2>3. QED  BY <1>1, <1>7, <2>1, <2>2 DEF EvidenceKept
<1>9. ASSUME me.result = "ok" PROVE \E t, i : t = me.task /\ i = me.step /\ Succeeded(t, i)'
  <2>1. closed.task = me.task /\ closed.ok = TRUE /\ closed.branch = branch
        /\ closed.last = IF branch = NoBranch THEN StepId(me.step) ELSE NoStep
    BY <1>9 DEF AttemptRow
  <2>2. closed \in attempts'
    BY <1>1
  <2> HIDE DEF closed
  <2>3. AttemptGroupKey(closed) = GroupKey(me.step, me.group)
    BY <1>4, <2>1 DEF AttemptGroupKey, GroupKey
  <2>4. AttemptGroupKey(closed) \in LadderKeys(me.step)
    BY <1>2, <2>3 DEF LadderKeys
  <2>5. PICK a, t, i : a = closed /\ t = me.task /\ i = me.step
    OBVIOUS
  <2>6. Succeeded(t, i)'
    BY <2>1, <2>2, <2>4, <2>5 DEF Succeeded, AttemptGroupKey, LadderKeys
  <2>7. QED  BY <2>5, <2>6
<1> HIDE DEF open, closed, branch
<1>10. CASE me.result = "ok" /\ SettleAs(w, "done") /\ me.step = Len(Playbook.steps)
  <2>1. ASSUME Warranted(me) PROVE \E t : t = me.task /\ Justified(t, "done")'
    <3>1. PICK t, i : t = me.task /\ i = me.step /\ Succeeded(t, i)'
      BY <1>9, <1>10
    <3>2. \A j \in Steps : j < i => Succeeded(t, j)
      BY <1>1, <2>1, <3>1 DEF Warranted, InPolicy
    <3>3. \A j \in Steps : j < i \/ j = i
      BY <1>10, <3>1, PlaybookAssumption DEF Steps
    <3>4. \A j \in Steps : Succeeded(t, j)'
      BY <1>8, <3>1, <3>2, <3>3, Monotone
    <3>5. Justified(t, "done")'
      BY <3>4 DEF Justified
    <3>6. QED  BY <3>1, <3>5
  <2>2. "done" \in Targets
    BY DEF Targets, Statuses
  <2>3. QED  BY <1>1, <1>8, <1>10, <2>1, <2>2, SettleMove DEF InRun
<1>11. CASE /\ me.result = "ok" /\ me.step # Len(Playbook.steps)
            /\ worker' = [worker EXCEPT ![w] = [@ EXCEPT !.pc = "start", !.step = me.step + 1,
                                                         !.group = 1, !.no = 1]]
  <2>1. PICK x : x = [me EXCEPT !.pc = "start", !.step = me.step + 1, !.group = 1, !.no = 1]
    OBVIOUS
  <2>2. me.step + 1 \in Steps
    BY <1>3, <1>11, PlaybookAssumption DEF Steps
  <2>3. 1 \in DOMAIN Groups(me.step + 1)
    BY <2>2, GroupFacts
  <2>4. x \in WorkerState /\ x.pc = "start" /\ x.task = me.task /\ x.step = me.step + 1
        /\ x.group = 1
    <3>1. PICK i, one : i = me.step + 1 /\ one = 1
      OBVIOUS
    <3>2. me \in WorkerState /\ i \in Steps /\ one \in Nat \ {0}
          /\ x = [me EXCEPT !.pc = "start", !.step = i, !.group = one, !.no = one]
      BY <1>2, <2>1, <2>2, <3>1
    <3> HIDE DEF me
    <3>3. x \in WorkerState /\ x.pc = "start" /\ x.task = me.task /\ x.step = i
          /\ x.group = one
      BY <3>2 DEF WorkerState, PCs
    <3>4. QED  BY <3>1, <3>3
  <2>5. worker' = [worker EXCEPT ![w] = x]
    BY <1>11, <2>1 DEF RunnerSound, WorkersSound
  <2>6. ASSUME Warranted(me) PROVE Warranted(x)'
    <3>1. PICK t, i : t = me.task /\ i = me.step /\ Succeeded(t, i)'
      BY <1>9, <1>11
    <3>2. \A j \in Steps : j < i => Succeeded(t, j)
      BY <1>1, <2>6, <3>1 DEF Warranted, InPolicy
    <3>3. \A j \in Steps : j < i + 1 => j < i \/ j = i
      BY <1>3, <3>1 DEF Steps
    <3>4. \A j \in Steps : j < x.step => Succeeded(x.task, j)'
      BY <1>8, <2>4, <3>1, <3>2, <3>3, Monotone
    <3>5. QED  BY <2>4, <3>4 DEF Warranted
  <2>7. QED  BY <1>1, <1>8, <2>3, <2>4, <2>5, <2>6, LadderMove DEF InPolicy, WellFormed
<1>12. ASSUME NEW pc \in {"skipping", "exhausted"}, Goto(w, pc) PROVE WorkerMoved(w)
  <2>1. PICK x : x = [me EXCEPT !.pc = pc]
    OBVIOUS
  <2>2. WellFormed(x) /\ x.pc = pc /\ x.task = me.task /\ worker' = [worker EXCEPT ![w] = x]
    <3>1. pc \in PCs /\ WorkersSound
      BY DEF RunnerSound, PCs
    <3>2. QED  BY <1>12, <2>1, <3>1, GotoFormed
  <2>3. x.step = me.step /\ x.group = me.group
    BY <1>2, <2>1 DEF WorkerState
  <2>4. Warranted(me) => Warranted(x)'
    BY <1>1, <1>8, <1>12, <2>2, <2>3, Monotone DEF Warranted, InPolicy
  <2>5. session'[w] = Closed /\ Stays(x.task)
    BY <1>1, <2>2, TaskStays DEF RunnerSound, Holds, InRun
  <2>6. Moves(w, x)
    BY <2>2, <2>5 DEF Moves
  <2>7. QED  BY <1>1, <1>8, <2>4, <2>6 DEF WorkerMoved
<1>13. CASE worker' = [worker EXCEPT ![w].pc = "start", ![w].no = @ + 1]
  <2>1. PICK x : x = [me EXCEPT !.pc = "start", !.no = @ + 1]
    OBVIOUS
  <2>2. x \in WorkerState /\ x.pc = "start" /\ x.task = me.task /\ x.step = me.step
        /\ x.group = me.group
    <3>1. me.no + 1 \in Nat \ {0}
      BY <1>3
    <3> HIDE DEF me
    <3>2. QED  BY <1>2, <2>1, <3>1 DEF WorkerState, PCs
  <2>3. worker' = [worker EXCEPT ![w] = x]
    BY <1>13, <2>1 DEF RunnerSound, WorkersSound
  <2>4. Warranted(me) => Warranted(x)'
    BY <1>1, <1>8, <2>2, Monotone DEF Warranted, InPolicy
  <2>5. QED  BY <1>1, <1>2, <1>8, <2>2, <2>3, <2>4, LadderMove DEF InPolicy, WellFormed
<1>14. me.result \in {"ok", "fail", "skip"}
  BY <1>2 DEF WorkerState
<1>15. QED
  BY <1>10, <1>11, <1>12, <1>13, <1>14 DEF FinishAttempt, NextStep

LEMMA Raised ==
  ASSUME NEW t, NEW kind, NEW level, NEW rung, RaiseFlag(t, kind, level, rung)
  PROVE  \E f \in flags' : f.task = t /\ f.kind = kind /\ f.rung = rung
<1>1. PICK f : f = [task |-> t, kind |-> kind, level |-> level, rung |-> rung, open |-> TRUE]
  OBVIOUS
<1>2. f \in flags'
  BY <1>1 DEF RaiseFlag
<1>3. QED  BY <1>1, <1>2

(* The exhausted groups, the skip and the runner error: each raises its     *)
(* flag first.                                                              *)
LEMMA FlagMoves ==
  ASSUME RunnerSound, NEW w \in Workers, [Next]_ledgerVars,
         GroupExhausted(w) \/ StepSkipped(w) \/ RunnerError(w)
  PROVE  WorkerMoved(w)
<1> DEFINE me == worker[w]
<1>1. me \in WorkerState /\ me.group \in DOMAIN Groups(me.step)
  BY DEF RunnerSound, WorkersSound
<1>2. /\ me.pc \in {"exhausted", "skipping", "failing"}
      /\ flags \subseteq flags' /\ UNCHANGED <<session, attempts, binding, crashes>>
  BY DEF GroupExhausted, StepSkipped, RunnerError, RaiseFlag
<1>3. EvidenceKept /\ attempts' \subseteq Attempt
  BY <1>2 DEF EvidenceKept, RunnerSound
<1>4. me.task \in TaskIds /\ me.step \in Steps
  BY <1>1, <1>2 DEF RunnerSound, Holds, InRun, WorkerState
<1>5. {"flagged", "skipped", "failed"} \subseteq Targets
  BY DEF Targets, Statuses
<1>6. CASE GroupExhausted(w)
  <2>1. me.pc = "exhausted"
    BY <1>6 DEF GroupExhausted
  <2>2. PICK t, i, g, level : t = me.task /\ i = me.step /\ g = me.group
                              /\ RaiseFlag(t, "task_failure", level, g)
    BY <1>6 DEF GroupExhausted
  <2>3. RungFlag(t, g)'
    BY <2>2, Raised DEF RungFlag
  <2>4. ASSUME Warranted(me), NEW h \in Nat \ {0}, h <= g PROVE RungFlag(t, h)'
    <3>1. h < g \/ h = g
      BY <1>1, <2>2, <2>4 DEF WorkerState
    <3>2. h < g => RungFlag(t, h)
      BY <2>1, <2>2, <2>4 DEF Warranted, InPolicy
    <3>3. QED  BY <1>3, <2>3, <3>1, <3>2, Monotone
  <2>5. CASE me.group < Len(Groups(me.step))
             /\ worker' = [worker EXCEPT ![w] = [@ EXCEPT !.pc = "start",
                                                          !.group = me.group + 1, !.no = 1]]
    <3>1. PICK x, k, one : /\ one = 1 /\ k = me.group + 1
                           /\ x = [me EXCEPT !.pc = "start", !.group = k, !.no = one]
      OBVIOUS
    <3>2. k \in Nat \ {0} /\ one \in Nat \ {0} /\ k \in DOMAIN Groups(me.step)
      BY <1>1, <1>4, <2>5, <3>1, GroupFacts DEF WorkerState
    <3>3. x \in WorkerState /\ x.pc = "start" /\ x.task = me.task /\ x.step = me.step
          /\ x.group = k
      <4>1. x = [me EXCEPT !.pc = "start", !.group = k, !.no = one]
        BY <3>1
      <4> HIDE DEF me
      <4>2. QED  BY <1>1, <3>2, <4>1 DEF WorkerState, PCs
    <3>4. worker' = [worker EXCEPT ![w] = x]
      BY <2>5, <3>1 DEF RunnerSound, WorkersSound
    <3>5. ASSUME Warranted(me) PROVE Warranted(x)'
      <4>1. \A j \in Steps : j < x.step => Succeeded(x.task, j)'
        BY <1>3, <2>1, <3>3, <3>5, Monotone DEF Warranted, InPolicy
      <4>2. \A h \in Nat \ {0} : h < x.group => h <= g
        BY <1>1, <2>2, <3>1, <3>3 DEF WorkerState
      <4>3. \A h \in Nat \ {0} : h < x.group => RungFlag(x.task, h)'
        BY <2>2, <2>4, <3>3, <3>5, <4>2
      <4>4. QED  BY <3>3, <4>1, <4>3 DEF Warranted
    <3>6. QED
      BY <1>2, <1>3, <2>1, <3>2, <3>3, <3>4, <3>5, LadderMove DEF InPolicy, WellFormed
  <2>6. CASE me.group = Len(Groups(me.step))
             /\ SettleAs(w, IF Policy(me.step).then = "mark_failed" THEN "flagged" ELSE "skipped")
    <3>0. PICK target : target = IF Policy(me.step).then = "mark_failed"
                                THEN "flagged" ELSE "skipped"
      OBVIOUS
    <3>1. ASSUME Warranted(me) PROVE \E u : u = me.task /\ Justified(u, target)'
      <4>1. \A h \in DOMAIN Groups(i) : h \in Nat \ {0} /\ h <= g
        BY <1>1, <1>4, <2>2, <2>6, GroupFacts
      <4>2. \A h \in DOMAIN Groups(i) : RungFlag(t, h)'
        BY <2>4, <3>1, <4>1
      <4>3. Policy(i).then = "mark_failed" => Climbed(t, i)'
        BY <4>2 DEF Climbed
      <4>4. target = "flagged" => Policy(i).then = "mark_failed"
        BY <2>2, <3>0
      <4>5. target # "done" /\ target # "failed" /\ i \in Steps
        BY <1>4, <2>2, <3>0
      <4>6. Justified(t, target)'
        BY <4>3, <4>4, <4>5 DEF Justified
      <4>7. QED  BY <2>2, <4>6
    <3>2. target \in Targets
      BY <1>5, <3>0
    <3>3. SettleAs(w, target)
      BY <2>6, <3>0
    <3>4. QED  BY <1>2, <1>3, <2>1, <3>1, <3>2, <3>3, SettleMove DEF InRun
  <2>7. me.group = Len(Groups(me.step)) \/ me.group < Len(Groups(me.step))
    BY <1>1, <1>4, GroupFacts
  <2>8. QED  BY <1>6, <2>5, <2>6, <2>7 DEF GroupExhausted, LastGroup
<1>7. CASE StepSkipped(w)
  <2>1. me.pc = "skipping" /\ SettleAs(w, "skipped")
    BY <1>7 DEF StepSkipped
  <2>2. \E t : t = me.task /\ Justified(t, "skipped")'
    BY DEF Justified
  <2>3. QED  BY <1>2, <1>3, <1>5, <2>1, <2>2, SettleMove DEF InRun
<1>8. CASE RunnerError(w)
  <2>1. PICK t : t = me.task /\ RaiseFlag(t, "runner_error", 1, 0) /\ me.pc = "failing"
    BY <1>8 DEF RunnerError
  <2>2. ErrorFlag(t)'
    BY <2>1, Raised DEF ErrorFlag
  <2>3. PICK x : x = [me EXCEPT !.pc = "settle", !.target = "failed", !.handling = TRUE]
    OBVIOUS
  <2>4. x \in WorkerState /\ x.pc = "settle" /\ x.task = me.task /\ x.step = me.step
        /\ x.group = me.group /\ x.target = "failed"
    <3> HIDE DEF me
    <3>1. QED  BY <1>1, <1>5, <2>3 DEF WorkerState, PCs
  <2>5. worker' = [worker EXCEPT ![w] = x]
    BY <1>8, <2>3 DEF RunnerError, RunnerSound, WorkersSound
  <2>6. session'[w] = Closed /\ Stays(x.task)
    BY <1>2, <2>1, <2>4, TaskStays DEF RunnerSound, Holds, InRun
  <2>7. Moves(w, x)
    BY <1>1, <2>4, <2>5, <2>6 DEF Moves, WellFormed
  <2>8. Warranted(x)'
    BY <2>1, <2>2, <2>4 DEF Warranted, InPolicy, Justified
  <2>9. QED  BY <1>2, <1>3, <2>7, <2>8 DEF WorkerMoved
<1>9. QED  BY <1>6, <1>7, <1>8

(* The transition, its commit and the final task.json. *)
LEMMA SettlingMoves ==
  ASSUME RunnerSound, NEW w \in Workers, [Next]_ledgerVars,
         Settle(w) \/ SettleCommit(w) \/ Finalize(w)
  PROVE  WorkerMoved(w)
<1>1. w \in Clients /\ session \in [Clients -> Session]
  BY RunnerAssumption DEF RunnerSound, Sound, TypeOK
<1>2. CASE Settle(w)
  <2>1. worker[w].pc = "settle" /\ UNCHANGED <<attempts, crashes>>
    BY <1>2 DEF Settle
  <2>2. CASE Raise(w) /\ UNCHANGED ledgerVars
    BY <2>1, <2>2, RaiseMove DEF InRun, ledgerVars
  <2>3. ASSUME NEW error, BeginTransition(w, worker[w].task, worker[w].target, error),
               Goto(w, "commit")
        PROVE  WorkerMoved(w)
    <3>1. UNCHANGED <<flags, binding>> /\ \A c \in Clients \ {w} : session'[c] = session[c]
      BY <1>1, <2>3 DEF BeginTransition
    <3>2. QED  BY <2>1, <2>3, <3>1, GotoMove DEF PCs, InRun, InPolicy
  <2>4. QED  BY <1>2, <2>2, <2>3 DEF Settle
<1>3. CASE SettleCommit(w)
  <2>1. /\ worker[w].pc = "commit" /\ Goto(w, "finalize")
        /\ UNCHANGED <<attempts, binding, crashes>>
        /\ session'[w] = Closed /\ flags \subseteq flags'
        /\ \A c \in Clients \ {w} : session'[c] = session[c]
    BY <1>1, <1>3 DEF SettleCommit, Commit
  <2>2. QED  BY <2>1, GotoMove DEF PCs, InRun, InPolicy
<1>4. CASE Finalize(w)
  <2>1. worker[w].pc = "finalize" /\ UNCHANGED <<flags, session, attempts, binding, crashes>>
    BY <1>4 DEF Finalize, ledgerVars
  <2>2. CASE Raise(w)
    BY <2>1, <2>2, RaiseMove DEF InRun
  <2>3. CASE worker' = [worker EXCEPT ![w] = AtLoop]
    <3>1. AtLoop.pc = "idle" /\ WellFormed(AtLoop)
      BY LoopFormed DEF AtLoop, Down
    <3>2. session'[w] = Closed
      BY <2>1 DEF RunnerSound, Holds
    <3>3. Moves(w, AtLoop)
      BY <2>3, <3>1, <3>2 DEF Moves, InRun
    <3>4. QED  BY <2>1, <3>1, <3>3, PlainMove DEF InPolicy
  <2>4. QED  BY <1>4, <2>2, <2>3 DEF Finalize
<1>5. QED  BY <1>2, <1>3, <1>4

LEMMA WorkerMovesSoundly ==
  ASSUME RunnerSound, NEW w \in Workers, WorkerStep(w)
  PROVE  WorkerMoved(w)
  BY WorkerIsClient, LoopMoves, AttemptMoves, FinishMoves, FlagMoves, SettlingMoves
     DEF WorkerStep

-----------------------------------------------------------------------------
(* The inductive invariant *)

LEMMA ClosedUpdate ==
  /\ Closed.rows = {} /\ Closed.target = "pending" /\ Closed.flag = FALSE
  /\ Closed.error = "keep"
  BY DEF Closed

LEMMA InitRunnerSound == RunnerInit => RunnerSound
<1> SUFFICES ASSUME RunnerInit PROVE RunnerSound
  OBVIOUS
<1>1. Sound
  BY InitSound DEF RunnerInit
<1>2. WorkersSound
  BY LoopFormed DEF RunnerInit, WorkersSound, WellFormed
<1>3. Holds
  <2>1. Down.pc = "down" /\ Trigger \in Clients /\ Workers \subseteq Clients
    BY RunnerAssumption DEF Down
  <2>2. QED  BY <2>1 DEF RunnerInit, Init, Holds, InRun
<1>4. QED  BY <1>1, <1>2, <1>3, RunnerAssumption DEF RunnerSound, RunnerInit

(* What a step that is not the worker's does to the workers. *)
LEMMA SurroundingStep ==
  ASSUME RunnerSound, [RunnerNext]_runnerVars, ~\E w \in Workers : WorkerStep(w)
  PROVE  /\ flags \subseteq flags' /\ UNCHANGED attempts
         /\ \A w \in Workers : worker'[w] \in {worker[w], Down}
         /\ RunnerSound'
<1>0. /\ Workers \subseteq Clients /\ Users \subseteq Clients /\ Workers \cap Users = {}
      /\ Trigger \in Clients \ (Workers \cup Users)
      /\ session \in [Clients -> Session] /\ worker \in [Workers -> WorkerState]
      /\ binding \in [Clients -> (Ordinals \X Names) \cup {NoBinding}]
  BY RunnerAssumption DEF RunnerSound, Sound, TypeOK, WorkersSound
<1>1. [Next]_ledgerVars
  BY LedgerStep
<1>2. Sound' /\ \A t \in TaskIds : Exists(t) => Stays(t)
  BY <1>1, SoundStep, RowsStay DEF RunnerSound
<1>3. ASSUME UNCHANGED <<attempts, binding>>, crashes' \in 0..MaxCrashes,
             session'[Trigger] = Closed,
             \A w \in Workers : \/ worker'[w] = worker[w] /\ session'[w] = session[w]
                                \/ worker'[w] = Down /\ session'[w] = Closed,
             worker' \in [Workers -> WorkerState]
      PROVE  RunnerSound'
  <2>1. WorkersSound'
    BY <1>3, LoopFormed DEF RunnerSound, WorkersSound, WellFormed
  <2>2. Down.pc = "down"
    BY DEF Down
  <2>3. Holds'
    BY <1>2, <1>3, <2>2 DEF RunnerSound, Holds, InRun, Stays, Exists
  <2>4. QED  BY <1>2, <1>3, <2>1, <2>3 DEF RunnerSound
<1>4. ASSUME NEW w \in Workers, Crash(w)
      PROVE  /\ flags \subseteq flags' /\ UNCHANGED attempts /\ RunnerSound'
             /\ \A v \in Workers : worker'[v] \in {worker[v], Down}
  <2>1. /\ worker' = [worker EXCEPT ![w] = Down] /\ session' = [session EXCEPT ![w] = Closed]
        /\ UNCHANGED <<attempts, binding, flags>>
    BY <1>4 DEF Crash
  <2>2. crashes' \in 0..MaxCrashes
    BY <1>4, RunnerAssumption DEF Crash, RunnerSound
  <2>3. Down \in WorkerState /\ session[Trigger] = Closed /\ w # Trigger
    BY <1>0, LoopFormed DEF WellFormed, RunnerSound, Holds
  <2>4. session'[Trigger] = Closed
    BY <1>0, <2>1, <2>3
  <2>5. worker' \in [Workers -> WorkerState]
    BY <1>0, <2>1, <2>3
  <2>6. \A v \in Workers : \/ worker'[v] = worker[v] /\ session'[v] = session[v]
                           \/ worker'[v] = Down /\ session'[v] = Closed
    BY <1>0, <2>1
  <2>7. QED  BY <1>3, <2>1, <2>2, <2>4, <2>5, <2>6
<1>5. ASSUME NEW u \in Users, UserStep(u)
      PROVE  /\ flags \subseteq flags' /\ UNCHANGED <<attempts, worker>> /\ RunnerSound'
  <2>1. /\ flags \subseteq flags' /\ UNCHANGED <<attempts, worker, crashes>>
        /\ \A c \in Clients : c # u => session'[c] = session[c]
    BY <1>0, <1>5 DEF UserStep, BeginTransition, Commit, Abort
  <2>2. binding' = binding
    <3>1. CASE Abort(u)
      BY <1>0, <3>1 DEF Abort, RunnerSound, Holds
    <3>2. QED  BY <1>5, <3>1 DEF UserStep, BeginTransition, Commit
  <2>3. \A w \in Workers : w # u /\ session'[w] = session[w]
    BY <1>0, <2>1
  <2>4. session'[Trigger] = Closed
    BY <1>0, <2>1 DEF RunnerSound, Holds
  <2>5. crashes' \in 0..MaxCrashes
    BY <2>1 DEF RunnerSound
  <2>6. QED  BY <1>0, <1>3, <2>1, <2>2, <2>3, <2>4, <2>5
<1>6. ASSUME Admit \/ TimePasses \/ UNCHANGED runnerVars
      PROVE  /\ UNCHANGED <<flags, attempts, worker>> /\ RunnerSound'
  <2>1. UNCHANGED <<flags, session, binding, attempts, worker, crashes>>
    BY <1>6 DEF Admit, CreateTask, TimePasses, Tick, runnerVars
  <2>2. crashes' \in 0..MaxCrashes /\ session'[Trigger] = Closed
    BY <2>1 DEF RunnerSound, Holds
  <2>3. QED  BY <1>0, <1>3, <2>1, <2>2
<1>7. QED  BY <1>4, <1>5, <1>6 DEF RunnerNext

LEMMA RunnerSoundStep == RunnerSound /\ [RunnerNext]_runnerVars => RunnerSound'
<1> SUFFICES ASSUME RunnerSound, [RunnerNext]_runnerVars PROVE RunnerSound'
  OBVIOUS
<1>1. CASE ~\E w \in Workers : WorkerStep(w)
  BY <1>1, SurroundingStep
<1>2. ASSUME NEW w \in Workers, WorkerStep(w) PROVE RunnerSound'
  <2>1. /\ Workers \subseteq Clients /\ Trigger \in Clients \ Workers
        /\ worker \in [Workers -> WorkerState]
    BY RunnerAssumption DEF RunnerSound, WorkersSound
  <2>2. [Next]_ledgerVars
    BY <1>2, WorkerIsClient
  <2>3. Sound' /\ \A t \in TaskIds : Exists(t) => Stays(t)
    BY <2>2, SoundStep, RowsStay DEF RunnerSound
  <2>4. WorkerMoved(w)
    BY <1>2, WorkerMovesSoundly
  <2>5. PICK x : Moves(w, x)
    BY <2>4 DEF WorkerMoved
  <2>6. /\ worker' \in [Workers -> WorkerState] /\ worker'[w] = x
        /\ \A v \in Workers : v # w => worker'[v] = worker[v] /\ session'[v] = session[v]
    BY <2>1, <2>4, <2>5 DEF Moves, WellFormed, WorkerMoved
  <2>7. WorkersSound'
    BY <2>5, <2>6 DEF Moves, WellFormed, WorkersSound, RunnerSound
  <2>8. /\ session'[Trigger] = Closed /\ binding' = binding /\ crashes' = crashes
        /\ attempts' \subseteq Attempt
    BY <2>1, <2>4 DEF WorkerMoved, RunnerSound, Holds
  <2>9. Holds'
    BY <2>3, <2>5, <2>6, <2>8 DEF Moves, Holds, RunnerSound, InRun, Stays, Exists
  <2>10. QED  BY <2>3, <2>7, <2>8, <2>9 DEF RunnerSound
<1>3. QED  BY <1>1, <1>2

LEMMA AlwaysRunnerSound == RunnerSpec => []RunnerSound
  BY InitRunnerSound, RunnerSoundStep, PTL DEF RunnerSpec

(* The rows, the attempts and the worker's variables have their types,      *)
(* whatever the playbook.                                                   *)
THEOREM RunnerTypeCorrect == RunnerSpec => []RunnerTypeOK
<1>1. RunnerSound => RunnerTypeOK
  BY DEF RunnerSound, Sound, WorkersSound, RunnerTypeOK
<1>2. QED  BY <1>1, AlwaysRunnerSound, PTL

-----------------------------------------------------------------------------
(* Every end status rests on evidence in the tables: the status of each     *)
(* row, the target each worker is about to set, the target of each open     *)
(* update.  Only reconcile brings its evidence, the flag, with the commit.  *)
Evidenced ==
  /\ \A t \in TaskIds : Justified(t, task[t].status)
  /\ \A w \in Workers : Warranted(worker[w])
  /\ \A c \in Clients : \A t \in session[c].rows :
       \/ Justified(t, session[c].target)
       \/ session[c].flag /\ session[c].target = "failed"

LEMMA NeedsNone ==
  \A t : /\ Justified(t, "pending") /\ Justified(t, "processing")
         /\ Justified(t, "skipped") /\ Justified(t, "absent")
  BY DEF Justified

LEMMA InitEvidenced == RunnerInit => Evidenced
<1> SUFFICES ASSUME RunnerInit PROVE Evidenced
  OBVIOUS
<1>1. \A t \in TaskIds : task[t].status = "absent"
  BY DEF RunnerInit, Init, Blank
<1>2. Down.pc = "down"
  BY DEF Down
<1>3. \A w \in Workers : Warranted(worker[w])
  BY <1>2 DEF RunnerInit, Warranted, InPolicy
<1>4. QED  BY <1>1, <1>3, NeedsNone, ClosedUpdate DEF RunnerInit, Init, Evidenced

LEMMA EvidenceStays ==
  ASSUME RunnerSound, [RunnerNext]_runnerVars
  PROVE  EvidenceKept
<1>1. CASE \E w \in Workers : WorkerStep(w)
  BY <1>1, WorkerMovesSoundly DEF WorkerMoved
<1>2. CASE ~\E w \in Workers : WorkerStep(w)
  BY <1>2, SurroundingStep DEF EvidenceKept
<1>3. QED  BY <1>1, <1>2

(* A status changes by an admission, a claim, or the commit of an update. *)
LEMMA StatusStep ==
  ASSUME Sound, [Next]_ledgerVars, NEW t \in TaskIds
  PROVE  \/ task'[t].status \in {task[t].status, "pending", "processing"}
         \/ \E c \in Clients : /\ Commit(c) /\ t \in session[c].rows
                               /\ task'[t].status = session[c].target
<1>1. TypeOK
  BY DEF Sound
<1>2. CASE Admission
  <2>1. PICK source \in {"scan", "arrival", "manifest"}, key \in Keys \cup {NoKey},
              ordinal \in Ordinals \cup {0} : Insert(source, key, ordinal)
    BY <1>1, <1>2, AdmissionStep
  <2>2. QED  BY <1>1, <2>1, Inserted
<1>3. ASSUME NEW u \in TaskIds, ClaimNext(u)
      PROVE  task'[t].status \in {task[t].status, "processing"}
  BY <1>1, <1>3 DEF ClaimNext, TypeOK, Row
<1>4. ASSUME NEW u \in TaskIds, Touch(u)
      PROVE  task'[t].status = task[t].status
  BY <1>1, <1>4 DEF Touch, TypeOK, Row
<1>5. ASSUME NEW c \in Clients, Commit(c)
      PROVE  \/ task'[t].status = task[t].status
             \/ t \in session[c].rows /\ task'[t].status = session[c].target
  <2>1. session[c] \in Session /\ task[t] \in Row
    BY <1>1 DEF TypeOK
  <2>2. session[c].target \in Targets
    BY <2>1 DEF Session
  <2>3. QED  BY <1>5, <2>1, <2>2, WrittenIdentity DEF Commit
<1>6. CASE UNCHANGED task
  BY <1>6
<1>7. QED
  BY <1>2, <1>3, <1>4, <1>5, <1>6
     DEF Next, ClientStep, SingleStatement, RaiseFlag, ResolveFlag, BeginTransition,
         BeginReconcile, Abort, BeginReserve, CommitReserve, Tick, ledgerVars

(* An update is decided on by the worker, with its evidence, by a user, who *)
(* needs none, or by recovery.                                              *)
LEMMA DecidedStep ==
  ASSUME RunnerSound, Evidenced, [RunnerNext]_runnerVars,
         NEW c \in Clients, NEW t \in session'[c].rows
  PROVE  \/ session'[c] = session[c]
         \/ \E s : s = session'[c].target /\ Justified(t, s)
         \/ session'[c].flag /\ session'[c].target = "failed"
<1>0. session \in [Clients -> Session]
  BY DEF RunnerSound, Sound, TypeOK
<1>1. ASSUME NEW d \in Clients, NEW u, NEW target, NEW error,
             BeginTransition(d, u, target, error), Justified(u, target)
      PROVE  session'[c] = session[c] \/ \E s : s = session'[c].target /\ Justified(t, s)
  <2>1. d # c => session'[c] = session[c]
    BY <1>0, <1>1 DEF BeginTransition
  <2>2. d = c => session'[c].rows = {u} /\ session'[c].target = target
    BY <1>0, <1>1 DEF BeginTransition
  <2>3. QED  BY <1>1, <2>1, <2>2
<1>2. ASSUME NEW w \in Workers, Settle(w)
      PROVE  session'[c] = session[c] \/ \E s : s = session'[c].target /\ Justified(t, s)
  <2>1. Justified(worker[w].task, worker[w].target)
    BY <1>2 DEF Settle, Evidenced, Warranted
  <2>2. w \in Clients
    BY RunnerAssumption
  <2>3. QED  BY <1>1, <1>2, <2>1, <2>2 DEF Settle, ledgerVars
<1>3. ASSUME NEW u \in Users, UserStep(u)
      PROVE  session'[c] = session[c] \/ \E s : s = session'[c].target /\ Justified(t, s)
  <2>1. u \in Clients
    BY RunnerAssumption
  <2>2. CASE Commit(u) \/ Abort(u)
    BY <1>0, <2>1, <2>2, ClosedUpdate, NeedsNone DEF Commit, Abort
  <2>3. CASE \E v \in TaskIds, target \in UserTargets : BeginTransition(u, v, target, "none")
    BY <1>1, <2>1, <2>3, NeedsNone, RunnerAssumption
  <2>4. QED  BY <1>3, <2>2, <2>3 DEF UserStep
<1>4. ASSUME NEW w \in Workers, Start(w)
      PROVE  \/ session'[c] = session[c]
             \/ \E s : s = session'[c].target /\ Justified(t, s)
             \/ session'[c].flag /\ session'[c].target = "failed"
  <2>1. CASE UNCHANGED ledgerVars
    BY <2>1 DEF ledgerVars
  <2>2. CASE BeginReconcile(w, ReconcilePolicy)
    <3>1. ReconcilePolicy \in {"retry", "fail"} /\ w \in Clients
      BY RunnerAssumption
    <3>2. \/ session'[c] = session[c]
          \/ session'[c].target = "pending"
          \/ session'[c].flag = TRUE /\ session'[c].target = "failed"
      BY <1>0, <2>2, <3>1 DEF BeginReconcile
    <3>3. QED  BY <3>2, NeedsNone
  <2>3. QED  BY <1>4, <2>1, <2>2 DEF Start
<1>5. ASSUME NEW w \in Workers, Reconciled(w) \/ SettleCommit(w) \/ Crash(w)
      PROVE  session'[c] = session[c]
  <2>1. w \in Clients /\ session' = [session EXCEPT ![w] = Closed]
    BY <1>5, RunnerAssumption DEF Reconciled, SettleCommit, Commit, Crash
  <2>2. QED  BY <1>0, <2>1, ClosedUpdate
<1>6. ASSUME NEW w \in Workers, WorkerStep(w),
             ~Settle(w), ~Start(w), ~Reconciled(w), ~SettleCommit(w)
      PROVE  session' = session
  BY <1>6 DEF WorkerStep, Claim, ClaimNext, Exit, Setup, Touch, StartAttempt, Execute,
              FinishAttempt, GroupExhausted, StepSkipped, RunnerError,
              RaiseFlag, Finalize, ledgerVars
<1>7. ASSUME Admit \/ TimePasses \/ UNCHANGED runnerVars PROVE session' = session
  BY <1>7 DEF Admit, CreateTask, TimePasses, Tick, runnerVars
<1>8. QED  BY <1>2, <1>3, <1>4, <1>5, <1>6, <1>7 DEF RunnerNext

(* A row keeps its status, enters the queue or the worker, which need no    *)
(* evidence, or takes the target of an update that has its evidence.        *)
LEMMA StatusEvidenced ==
  ASSUME RunnerSound, Evidenced, [RunnerNext]_runnerVars, NEW t \in TaskIds
  PROVE  Justified(t, task[t].status)'
<1>1. Sound /\ [Next]_ledgerVars
  BY LedgerStep DEF RunnerSound
<1>2. \A u, s : Justified(u, s) => Justified(u, s)'
  BY EvidenceStays, Monotone
<1>3. PICK s : s = task'[t].status
  OBVIOUS
<1>4. CASE s \in {task[t].status, "pending", "processing"}
  <2>1. Justified(t, s)
    BY <1>4, NeedsNone DEF Evidenced
  <2>2. Justified(t, s)'
    BY <1>2, <2>1
  <2>3. QED  BY <1>3, <2>2 DEF Justified
<1>5. ASSUME NEW c \in Clients, Commit(c), t \in session[c].rows, s = session[c].target
      PROVE  Justified(t, task[t].status)'
  <2>1. CASE Justified(t, s)
    <3>1. Justified(t, s)'
      BY <1>2, <2>1
    <3>2. QED  BY <1>3, <3>1 DEF Justified
  <2>2. CASE session[c].flag /\ s = "failed"
    <3>1. StaleFlag(t) \in flags'
      BY <1>5, <2>2 DEF Commit
    <3>2. ErrorFlag(t)'
      BY <3>1 DEF ErrorFlag, StaleFlag
    <3>3. QED  BY <1>3, <2>2, <3>2 DEF Justified
  <2>3. QED  BY <1>5, <2>1, <2>2 DEF Evidenced
<1>6. QED  BY <1>1, <1>3, <1>4, <1>5, StatusStep

(* A worker that moves takes its evidence along; a crashed one needs none.  *)
LEMMA WorkersEvidenced ==
  ASSUME RunnerSound, Evidenced, [RunnerNext]_runnerVars, NEW v \in Workers
  PROVE  \E y : y = worker'[v] /\ Warranted(y)'
<1>1. \A x : Warranted(x) => Warranted(x)'
  BY EvidenceStays, Monotone
<1>2. PICK z : z = worker[v]
  OBVIOUS
<1>3. Warranted(z) /\ Warranted(z)'
  BY <1>1, <1>2 DEF Evidenced
<1>4. ASSUME NEW w \in Workers, WorkerStep(w)
      PROVE  \E y : y = worker'[v] /\ Warranted(y)'
  <2>1. WorkerMoved(w) /\ worker \in [Workers -> WorkerState]
    BY <1>4, WorkerMovesSoundly DEF RunnerSound, WorkersSound
  <2>2. PICK x : Moves(w, x) /\ (Warranted(worker[w]) => Warranted(x)')
    BY <2>1 DEF WorkerMoved
  <2>3. worker'[w] = x /\ (v # w => worker'[v] = z)
    BY <1>2, <2>1, <2>2 DEF Moves
  <2>4. CASE v = w
    BY <1>3, <1>2, <2>2, <2>3, <2>4
  <2>5. CASE v # w
    BY <1>3, <2>3, <2>5
  <2>6. QED  BY <2>4, <2>5
<1>5. CASE ~\E w \in Workers : WorkerStep(w)
  <2>1. worker'[v] \in {z, Down}
    BY <1>2, <1>5, SurroundingStep
  <2>2. Warranted(Down)'
    BY DEF Warranted, Down, InPolicy
  <2>3. PICK d : d = Down
    OBVIOUS
  <2>4. Warranted(d)'
    BY <2>2, <2>3 DEF Warranted, Down
  <2>5. QED  BY <1>3, <2>1, <2>3, <2>4
<1>6. QED  BY <1>4, <1>5

LEMMA EvidencedStep == RunnerSound /\ Evidenced /\ [RunnerNext]_runnerVars => Evidenced'
<1> SUFFICES ASSUME RunnerSound, Evidenced, [RunnerNext]_runnerVars PROVE Evidenced'
  OBVIOUS
<1>1. \A t \in TaskIds : Justified(t, task[t].status)'
  BY StatusEvidenced
<1>2. \A v \in Workers : Warranted(worker[v])'
  <2> SUFFICES ASSUME NEW v \in Workers PROVE Warranted(worker[v])'
    OBVIOUS
  <2>1. PICK y : y = worker'[v] /\ Warranted(y)'
    BY WorkersEvidenced
  <2>2. QED  BY <2>1 DEF Warranted, Justified
<1>3. ASSUME NEW c \in Clients, NEW t \in session'[c].rows
      PROVE  \/ Justified(t, session[c].target)'
             \/ session'[c].flag /\ session'[c].target = "failed"
  <2>1. \A u, s : Justified(u, s) => Justified(u, s)'
    BY EvidenceStays, Monotone
  <2>2. PICK s : s = session'[c].target
    OBVIOUS
  <2>3. Justified(t, s) => Justified(t, session[c].target)'
    BY <2>1, <2>2 DEF Justified
  <2>4. CASE session'[c] = session[c]
    BY <2>2, <2>3, <2>4 DEF Evidenced
  <2>5. QED  BY <2>2, <2>3, <2>4, DecidedStep
<1>4. QED  BY <1>1, <1>2, <1>3 DEF Evidenced

LEMMA AlwaysEvidenced == RunnerSpec => []Evidenced
  BY InitEvidenced, EvidencedStep, AlwaysRunnerSound, PTL DEF RunnerSpec

(* done is earned: every playbook step has a successful attempt of its own  *)
(* ladder, whatever was retried, cancelled or replayed.                     *)
THEOREM DoneEarned == RunnerSpec => []DoneIsEarned
<1>1. Evidenced => DoneIsEarned
  BY DEF Evidenced, Justified, DoneIsEarned
<1>2. QED  BY <1>1, AlwaysEvidenced, PTL

(* A flagged task has a flag for every rung of a ladder that ends in        *)
(* mark_failed.                                                             *)
THEOREM FlaggedClimbed == RunnerSpec => []FlaggedClimbedLadder
<1>1. Evidenced => FlaggedClimbedLadder
  BY DEF Evidenced, Justified, Climbed, RungFlag, FlaggedClimbedLadder
<1>2. QED  BY <1>1, AlwaysEvidenced, PTL

(* A failed task carries the flag of the runner error or of the recovery    *)
(* that gave it up.                                                         *)
THEOREM FailedFlagged == RunnerSpec => []FailedIsFlagged
<1>1. Evidenced => FailedIsFlagged
  BY DEF Evidenced, Justified, ErrorFlag, FailedIsFlagged
<1>2. QED  BY <1>1, AlwaysEvidenced, PTL
=============================================================================
