----------------------------- MODULE LabProofs -----------------------------
(***************************************************************************)
(* Theorems of Lab, for every set of versions, any number of samples,      *)
(* sessions and ends of the server.  The invariant is about where an open  *)
(* session is (in the store, or in the hands of the one handler at work)   *)
(* and about the step that handler tries; a second one, on top of it, is   *)
(* about the artifacts of the tasks and the rungs a run has tried.         *)
(***************************************************************************)
EXTENDS Lab, TLAPS

(* The values that sessions, their tasks and handlers at work take.         *)
Paths == {NoPath, Sample} \cup {<<"step", i>> : i \in Nat} \cup {<<"branch", b>> : b \in STRING}
Statuses == {"pending", "running", "paused", "done", "skipped", "failed"}
Entries == [status : {"ok", "replayed", "skip", "fail"}, output : Paths, kept : BOOLEAN]
Tasks == [pointer : Nat, status : Statuses, input : Paths, states : Seq(Entries)]
Opened == [version : DOMAIN Books, owner : {"lab", "cli"}, open : {TRUE}, tasks : Seq(Tasks)]
(* point, the number of steps a resume replays, needs no type: it is only   *)
(* compared.                                                                *)
IsCall(c) ==
  /\ c = [op |-> c.op, sid |-> c.sid, task |-> c.task, last |-> c.last, at |-> c.at,
          group |-> c.group, attempt |-> c.attempt, old |-> c.old, point |-> c.point]
  /\ c.op \in {"once", "branches", "run", "replay"}
  /\ c.at \in {"task", "attempt", "replayed"}
  /\ c.sid \in Nat /\ c.task \in Nat \ {0} /\ c.last \in Nat

TypeOK ==
  /\ sessions \in Seq(Opened \cup {Over})
  /\ byId \subseteq Sids /\ asked \subseteq Sids
  /\ byPipeline \in [Pipelines -> Nat]
  /\ call = Idle \/ IsCall(call)
  /\ samples \in Nat

(* The session kept for a pipeline is one of that pipeline; an open session *)
(* is in the store or in the hands of the handler at work.                  *)
Keyed == \A p \in Pipelines : byPipeline[p] # None => PipelineOf(byPipeline[p]) = p
Accounted ==
  /\ \A s \in Sids : sessions[s].open => s \in byId \/ (call # Idle /\ s = call.sid)
  /\ \A s \in byId : sessions[s].owner = "lab"
Stored == OneRehearsal /\ Keyed /\ Accounted

(* The attempt in hand is of a step that has not passed, in a task that is  *)
(* not over, and its group is one the step has.                             *)
Tryable ==
  /\ call.task <= call.last
  /\ Here.pointer < Len(StepsOf(call.sid))
  /\ Here.status \notin Terminal
  /\ call.op # "branches" => Here.status # "paused"
  /\ call.op = "branches" => Len(Here.states) = Here.pointer + 1
  /\ call.group \in 0..Len(Branches)

(* A resume goes through tasks that have done nothing but pass.             *)
Fresh == \A t \in DOMAIN sessions[call.sid].tasks : Task(call.sid, t).status \in {"pending", "done"}

(* What the handler at work holds: an open session, which is in the store   *)
(* unless it is a resume's or the command's.                                *)
Held ==
  call # Idle =>
    /\ call.sid \in Sids /\ sessions[call.sid].open /\ call.sid \in sandboxes
    /\ call.last <= Len(sessions[call.sid].tasks)
    /\ call.sid \in byId <=> call.op # "replay" /\ sessions[call.sid].owner = "lab"
    /\ call.op # "run" => sessions[call.sid].owner = "lab"
    /\ call.at = "task" => call.op \in {"run", "replay"}
    /\ call.at = "attempt" => Tryable
    /\ call.at = "replayed" => call.op = "replay"
    /\ call.op = "replay" =>
         /\ call.old \in byId /\ PipelineOf(call.old) = PipelineOf(call.sid)
         /\ call.at # "replayed" => Fresh

(* PointerIsProgress, and the pointer within the steps.                     *)
Progress ==
  /\ PointerIsProgress
  /\ \A s \in Sids : \A t \in DOMAIN sessions[s].tasks : Task(s, t).pointer <= Len(StepsOf(s))

IInv == TypeOK /\ Stored /\ Held /\ Progress

---------------------------------------------------------------------------
(* Sequences and sessions.                                                  *)
LEMMA Edited ==
  ASSUME NEW S, NEW f \in Seq(S), NEW i \in DOMAIN f, NEW e \in S
  PROVE  /\ [f EXCEPT ![i] = e] \in Seq(S)
         /\ DOMAIN [f EXCEPT ![i] = e] = DOMAIN f
         /\ Len([f EXCEPT ![i] = e]) = Len(f)
  OBVIOUS

LEMMA Extended ==
  ASSUME NEW S, NEW f \in Seq(S), NEW e \in S
  PROVE  /\ Append(f, e) \in Seq(S)
         /\ Len(Append(f, e)) = Len(f) + 1
         /\ DOMAIN Append(f, e) = 1..Len(f) + 1 /\ DOMAIN f = 1..Len(f)
         /\ Append(f, e)[Len(f) + 1] = e
         /\ \A i \in DOMAIN f : Append(f, e)[i] = f[i]
  OBVIOUS

LEMMA Closed ==
  ASSUME NEW ss \in Seq(Opened \cup {Over}), NEW sids
  PROVE  /\ CloseIn(ss, sids) \in Seq(Opened \cup {Over})
         /\ DOMAIN CloseIn(ss, sids) = DOMAIN ss
         /\ \A s \in DOMAIN ss :
              CloseIn(ss, sids)[s] = IF s \in sids THEN Over ELSE ss[s]
  <1> HIDE DEF Opened, Over
  <1> QED  BY DEF CloseIn

(* An open session has its fields, a closed one no task.                    *)
LEMMA OpenOrOver ==
  ASSUME TypeOK, NEW s \in Sids
  PROVE  /\ sessions[s].open => sessions[s] \in Opened
         /\ ~sessions[s].open => sessions[s] = Over
         /\ sessions[s].open \in BOOLEAN
<1>1. sessions[s] \in Opened \cup {Over}
  BY DEF TypeOK, Sids
<1>2. Over.open = FALSE
  BY DEF Over
<1>3. \A x \in Opened : x.open = TRUE
  BY DEF Opened
<1>4. QED  BY <1>1, <1>2, <1>3, Zenon

LEMMA StepsTyped ==
  ASSUME TypeOK, NEW s \in Sids, sessions[s].open
  PROVE  /\ sessions[s].version \in DOMAIN Books
         /\ PipelineOf(s) \in Pipelines
         /\ StepsOf(s) \in Seq([retries : Nat, branches : Seq([name : STRING, retries : Nat]),
                               then : {"mark_failed", "skip"}])
         /\ Len(StepsOf(s)) \in Nat \ {0}
<1>1. sessions[s].version \in DOMAIN Books
  BY OpenOrOver DEF Opened
<1>2. QED  BY <1>1, LabAssumption DEF PipelineOf, StepsOf

(* A step that gives one task of an open session another state.             *)
LEMMA TaskEdited ==
  ASSUME TypeOK, NEW s \in Sids, sessions[s].open, NEW t \in DOMAIN sessions[s].tasks,
         NEW k \in Tasks, sessions' = WithTask(s, t, k)
  PROVE  /\ sessions' \in Seq(Opened \cup {Over}) /\ Sids' = Sids
         /\ sessions'[s] \in Opened
         /\ \A x \in Sids \ {s} : sessions'[x] = sessions[x]
         /\ sessions'[s].version = sessions[s].version
         /\ sessions'[s].owner = sessions[s].owner
         /\ DOMAIN sessions'[s].tasks = DOMAIN sessions[s].tasks
         /\ Len(sessions'[s].tasks) = Len(sessions[s].tasks)
         /\ sessions'[s].tasks[t] = k
         /\ \A u \in DOMAIN sessions[s].tasks \ {t} :
              sessions'[s].tasks[u] = sessions[s].tasks[u]
<1> DEFINE o  == sessions[s]
           ts == [o.tasks EXCEPT ![t] = k]
<1>1. o \in Opened /\ o.tasks \in Seq(Tasks) /\ t \in DOMAIN o.tasks
  BY OpenOrOver DEF Opened
<1>2. /\ ts \in Seq(Tasks) /\ DOMAIN ts = DOMAIN o.tasks /\ Len(ts) = Len(o.tasks)
      /\ ts[t] = k /\ \A u \in DOMAIN o.tasks \ {t} : ts[u] = o.tasks[u]
  <2> HIDE DEF Tasks, o
  <2> QED  BY <1>1
<1>3. sessions' = [sessions EXCEPT ![s] = [o EXCEPT !.tasks = ts]]
  BY DEF WithTask
<1> HIDE DEF ts
<1>4. /\ [o EXCEPT !.tasks = ts] \in Opened
      /\ [o EXCEPT !.tasks = ts].version = o.version
      /\ [o EXCEPT !.tasks = ts].owner = o.owner
      /\ [o EXCEPT !.tasks = ts].tasks = ts
  BY <1>1, <1>2 DEF Opened
<1> HIDE DEF o
<1>5. /\ sessions' \in Seq(Opened \cup {Over}) /\ DOMAIN sessions' = DOMAIN sessions
      /\ sessions'[s] = [o EXCEPT !.tasks = ts]
      /\ \A x \in Sids \ {s} : sessions'[x] = sessions[x]
  <2> HIDE DEF Opened, Over
  <2> QED  BY <1>3, <1>4 DEF TypeOK, Sids
<1>6. QED  BY <1>2, <1>4, <1>5 DEF Sids, o

(* What a step leaves that gives a task another state.                      *)
SameSessions ==
  /\ sessions' \in Seq(Opened \cup {Over}) /\ Sids' = Sids
  /\ \A x \in Sids : /\ sessions'[x].open = sessions[x].open
                     /\ Len(sessions'[x].tasks) = Len(sessions[x].tasks)
                     /\ StepsOf(x)' = StepsOf(x) /\ PipelineOf(x)' = PipelineOf(x)
                     /\ sessions'[x].owner = sessions[x].owner

(* It leaves the store as it is, and no task stands elsewhere than at its   *)
(* progress if the one it changes does not.                                 *)
LEMMA EditKeeps ==
  ASSUME IInv, NEW s \in Sids, sessions[s].open, NEW t \in DOMAIN sessions[s].tasks,
         NEW k \in Tasks, sessions' = WithTask(s, t, k), UNCHANGED <<store, sandboxes>>,
         StandsAtProgress(k, Len(StepsOf(s))), k.pointer <= Len(StepsOf(s))
  PROVE  OneRehearsal' /\ Keyed' /\ Progress' /\ SameSessions /\ Task(s, t)' = k
<1> USE DEF IInv
<1>1. TypeOK
  OBVIOUS
<1>2. /\ sessions' \in Seq(Opened \cup {Over}) /\ Sids' = Sids
      /\ sessions'[s].open = sessions[s].open
      /\ \A x \in Sids \ {s} : sessions'[x] = sessions[x]
      /\ sessions'[s].version = sessions[s].version
      /\ sessions'[s].owner = sessions[s].owner
      /\ DOMAIN sessions'[s].tasks = DOMAIN sessions[s].tasks
      /\ Len(sessions'[s].tasks) = Len(sessions[s].tasks)
      /\ sessions'[s].tasks[t] = k
      /\ \A u \in DOMAIN sessions[s].tasks \ {t} :
           sessions'[s].tasks[u] = sessions[s].tasks[u]
  <2>1. sessions'[s].open = TRUE /\ sessions[s].open = TRUE
    BY <1>1, TaskEdited, OpenOrOver DEF Opened
  <2>2. QED  BY <1>1, <2>1, TaskEdited
<1>3. \A x \in Sids : /\ sessions'[x].open = sessions[x].open
                      /\ Len(sessions'[x].tasks) = Len(sessions[x].tasks)
                      /\ StepsOf(x)' = StepsOf(x) /\ PipelineOf(x)' = PipelineOf(x)
                      /\ sessions'[x].owner = sessions[x].owner
  BY <1>2 DEF StepsOf, PipelineOf
<1>4. OneRehearsal' /\ Keyed'
  <2>1. byId \subseteq Sids
    BY DEF TypeOK
  <2>2. \A p \in Pipelines : byPipeline[p] # None => byPipeline[p] \in Sids
    BY <2>1 DEF Stored, OneRehearsal
  <2>3. QED  BY <1>2, <1>3, <2>1, <2>2 DEF Stored, OneRehearsal, Keyed, store
<1>5. Progress'
  <2> SUFFICES ASSUME NEW x \in Sids, NEW u \in DOMAIN sessions'[x].tasks
      PROVE  /\ StandsAtProgress(Task(x, u)', Len(StepsOf(x)'))
             /\ Task(x, u)'.pointer <= Len(StepsOf(x)')
    BY <1>2 DEF Progress, PointerIsProgress, StandsAtProgress, Task
  <2>1. CASE x = s /\ u = t
    BY <1>2, <1>3, <2>1 DEF Task
  <2>2. CASE ~(x = s /\ u = t)
    <3>1. u \in DOMAIN sessions[x].tasks /\ Task(x, u)' = Task(x, u)
      BY <1>2, <2>2 DEF Task
    <3>2. QED  BY <1>3, <3>1 DEF Progress, PointerIsProgress
  <2>3. QED  BY <2>1, <2>2
<1>6. QED  BY <1>2, <1>3, <1>4, <1>5 DEF Task, SameSessions

LEMMA RestKeeps ==
  ASSUME IInv, UNCHANGED <<sessions, store, sandboxes>>
  PROVE  OneRehearsal' /\ Keyed' /\ Progress' /\ SameSessions
<1>1. OneRehearsal' /\ Keyed'
  BY DEF IInv, Stored, OneRehearsal, Keyed, store, PipelineOf
<1>2. Progress'
  BY DEF IInv, Progress, PointerIsProgress, StandsAtProgress, Task, StepsOf, Sids
<1>3. SameSessions
  BY DEF SameSessions, Sids, IInv, TypeOK, StepsOf, PipelineOf
<1>4. QED  BY <1>1, <1>2, <1>3

(* What an open session's task looks like.                                  *)
LEMMA TaskTyped ==
  ASSUME IInv, NEW s \in Sids, sessions[s].open, NEW t \in DOMAIN sessions[s].tasks
  PROVE  /\ Task(s, t) \in Tasks
         /\ StandsAtProgress(Task(s, t), Len(StepsOf(s)))
         /\ Task(s, t).pointer <= Len(StepsOf(s))
         /\ Len(StepsOf(s)) \in Nat
         /\ DOMAIN sessions[s].tasks = 1..Len(sessions[s].tasks)
<1>1. sessions[s].tasks \in Seq(Tasks)
  BY OpenOrOver DEF IInv, Opened
<1>2. Task(s, t) \in Tasks /\ DOMAIN sessions[s].tasks = 1..Len(sessions[s].tasks)
  <2> HIDE DEF Tasks
  <2> QED  BY <1>1 DEF Task
<1>3. QED  BY <1>2, StepsTyped DEF IInv, Progress, PointerIsProgress

LEMMA CallsDiffer == \A c : IsCall(c) => c # Idle /\ c.op # "idle"
  BY DEF IsCall, Idle

LEMMA GroupsTyped ==
  ASSUME TypeOK, NEW s \in Sids, sessions[s].open, NEW n \in Nat, n < Len(StepsOf(s))
  PROVE  /\ Len(StepsOf(s)[n + 1].branches) \in Nat
         /\ StepsOf(s)[n + 1].branches = <<>> \/ Len(StepsOf(s)[n + 1].branches) >= 1
         /\ StepsOf(s)[n + 1].branches \in Seq([name : STRING, retries : Nat])
<1>1. n + 1 \in DOMAIN StepsOf(s)
  BY StepsTyped
<1> DEFINE Step == [retries : Nat, branches : Seq([name : STRING, retries : Nat]),
                    then : {"mark_failed", "skip"}]
<1>2. StepsOf(s)[n + 1] \in Step
  <2>1. StepsOf(s) \in Seq(Step)
    BY StepsTyped
  <2> HIDE DEF Step
  <2>2. QED  BY <1>1, <2>1
<1>3. StepsOf(s)[n + 1].branches \in Seq([name : STRING, retries : Nat])
  BY <1>2
<1>4. QED  BY <1>3

(* Another status for a task that is not over.                              *)
LEMMA StatusKeeps ==
  ASSUME NEW k \in Tasks, NEW n \in Nat, NEW st \in {"running", "paused", k.status},
         StandsAtProgress(k, n), k.pointer # n, st = "paused" => k.status = "paused"
  PROVE  /\ [k EXCEPT !.status = st] \in Tasks
         /\ StandsAtProgress([k EXCEPT !.status = st], n)
         /\ [k EXCEPT !.status = st].pointer = k.pointer
         /\ [k EXCEPT !.status = st].states = k.states
         /\ [k EXCEPT !.status = st].status = st
<1> DEFINE m == [k EXCEPT !.status = st]
<1>1. /\ m \in Tasks /\ m.pointer = k.pointer /\ m.states = k.states /\ m.status = st
  <2>1. k.status \in Statuses
    BY DEF Tasks
  <2>2. st \in Statuses
    BY <2>1 DEF Statuses
  <2> HIDE DEF m
  <2>3. m = [pointer |-> k.pointer, status |-> st, input |-> k.input, states |-> k.states]
    BY DEF m, Tasks
  <2>4. QED  BY <2>2, <2>3 DEF Tasks
<1> HIDE DEF m
<1>2. StandsAtProgress(m, n)
  BY <1>1 DEF StandsAtProgress
<1>3. QED  BY <1>1, <1>2 DEF m

LEMMA CallTrying ==
  ASSUME NEW op, NEW s, NEW t, NEW g
  PROVE  Trying(Call(op, s, t, t), g) =
           [op |-> op, sid |-> s, task |-> t, last |-> t, at |-> "attempt",
            group |-> g, attempt |-> 1, old |-> None, point |-> 0]
<1> DEFINE c == [op |-> op, sid |-> s, task |-> t, last |-> t, at |-> "task",
                 group |-> 0, attempt |-> 1, old |-> None, point |-> 0]
           d == [c EXCEPT !.at = "attempt"]
           e == [d EXCEPT !.group = g]
<1>1. d = [op |-> op, sid |-> s, task |-> t, last |-> t, at |-> "attempt",
           group |-> 0, attempt |-> 1, old |-> None, point |-> 0]
  OBVIOUS
<1>2. e = [op |-> op, sid |-> s, task |-> t, last |-> t, at |-> "attempt",
           group |-> g, attempt |-> 1, old |-> None, point |-> 0]
  <2> HIDE DEF d
  <2> QED  BY <1>1
<1>3. [e EXCEPT !.attempt = 1] = e
  <2> HIDE DEF e
  <2> QED  BY <1>2
<1>4. Trying(Call(op, s, t, t), g) = [e EXCEPT !.attempt = 1]
  <2>1. Call(op, s, t, t) = c
    BY DEF Call
  <2> HIDE DEF c
  <2>2. QED  BY <2>1 DEF Trying
<1>5. QED  BY <1>2, <1>3, <1>4

(* A handler that begins with an attempt.                                   *)
LEMMA BeginStep ==
  ASSUME IInv, NEW s \in byId, NEW t \in DOMAIN sessions[s].tasks, Handler(s, t),
         NEW op \in {"once", "branches"}, NEW g \in Nat, NEW st \in {"running", "paused"},
         Begin(Trying(Call(op, s, t, t), g), st),
         Task(s, t).status \in {"pending", "running", "paused"},
         op = "once" => st = "running" /\ g = 0,
         op = "branches" => /\ st = "paused" /\ Task(s, t).status = "paused"
                            /\ StepsOf(s)[Task(s, t).pointer + 1].branches # <<>> /\ g = 1
  PROVE  IInv'
<1> DEFINE k == Task(s, t)
           m == [k EXCEPT !.status = st]
           c == Trying(Call(op, s, t, t), g)
<1>1. /\ TypeOK /\ s \in Sids /\ sessions[s].open /\ s \in sandboxes /\ call = Idle
      /\ sessions[s].owner = "lab" /\ t \in 1..Len(sessions[s].tasks)
      /\ Len(sessions[s].tasks) \in Nat
  BY TaskTyped, OpenOrOver DEF IInv, TypeOK, Stored, OneRehearsal, Accounted, Handler, Opened
<1>2. /\ k \in Tasks /\ StandsAtProgress(k, Len(StepsOf(s))) /\ Len(StepsOf(s)) \in Nat
      /\ k.pointer <= Len(StepsOf(s)) /\ k.pointer # Len(StepsOf(s)) /\ k.pointer \in Nat
  BY <1>1, TaskTyped DEF StandsAtProgress, Tasks
<1>3. /\ m \in Tasks /\ StandsAtProgress(m, Len(StepsOf(s)))
      /\ m.pointer = k.pointer /\ m.states = k.states /\ m.status = st
  <2> HIDE DEF k
  <2>1. st = "paused" => k.status = "paused"
    BY DEF k
  <2>2. QED  BY <1>2, <2>1, StatusKeeps
<1>4. c = [op |-> op, sid |-> s, task |-> t, last |-> t, at |-> "attempt",
           group |-> g, attempt |-> 1, old |-> None, point |-> 0]
  BY CallTrying
<1>5. /\ c.sid = s /\ c.task = t /\ c.op = op /\ c.at = "attempt" /\ c.group = g
      /\ c.last = t /\ IsCall(c) /\ c # Idle
  <2>1. s \in Nat /\ t \in Nat \ {0}
    <3>1. DOMAIN sessions = 1..Len(sessions) /\ Len(sessions) \in Nat
      <4> HIDE DEF Opened, Over
      <4> QED  BY <1>1 DEF TypeOK
    <3>2. QED  BY <1>1, <3>1 DEF Sids
  <2> HIDE DEF c
  <2>2. /\ c.sid = s /\ c.task = t /\ c.op = op /\ c.at = "attempt" /\ c.group = g /\ c.last = t
    BY <1>4
  <2>3. IsCall(c)
    BY <1>4, <2>1 DEF IsCall, None
  <2>4. QED  BY <2>2, <2>3, CallsDiffer
<1>6. /\ call' = c /\ sessions' = WithTask(s, t, m)
      /\ UNCHANGED <<store, sandboxes, asked, samples>>
  BY <1>5 DEF Begin, WithTask, c, Task
<1> HIDE DEF k, m, c
<1>7. OneRehearsal' /\ Keyed' /\ Progress' /\ SameSessions /\ Task(s, t)' = m
  BY <1>1, <1>2, <1>3, <1>6, EditKeeps
<1>8. TypeOK'
  BY <1>1, <1>5, <1>6, <1>7 DEF TypeOK, store, SameSessions
<1>9. Stored'
  BY <1>1, <1>6, <1>7 DEF IInv, Stored, Accounted, store, OneRehearsal, TypeOK, SameSessions
<1>10. Held'
  <2>1. g \in 0..Len(StepsOf(s)[k.pointer + 1].branches)
    BY <1>1, <1>2, GroupsTyped DEF k
  <2>2. op = "branches" => Len(m.states) = m.pointer + 1
    BY <1>3 DEF StandsAtProgress
  <2>3. /\ Here' = m /\ Branches' = StepsOf(s)[k.pointer + 1].branches
        /\ StepsOf(call.sid)' = StepsOf(s)
    BY <1>1, <1>3, <1>5, <1>6, <1>7 DEF Here, Branches, Task, StepsOf, SameSessions
  <2>4. Tryable'
    BY <1>1, <1>2, <1>3, <1>5, <1>6, <2>1, <2>2, <2>3 DEF Tryable, Terminal
  <2>5. QED
    BY <1>1, <1>5, <1>6, <1>7, <2>4 DEF Held, store, SameSessions
<1>11. QED  BY <1>7, <1>8, <1>9, <1>10 DEF IInv

(* A step of the handler at work that keeps hold of its session or, when    *)
(* the session is in the store, lets go of it.                              *)
GoesOn ==
  \/ call' = Idle /\ call.op \in {"once", "branches"}
  \/ /\ IsCall(call')
     /\ call'.op = call.op /\ call'.sid = call.sid
     /\ call'.last = call.last /\ call'.old = call.old
     /\ call'.at = "task" => call.op \in {"run", "replay"}
     /\ call'.at = "replayed" => call.op = "replay"
     /\ call'.at = "attempt" => Tryable'
     /\ call.op = "replay" /\ call'.at # "replayed" => Fresh'

LEMMA CallGoesOn ==
  ASSUME IInv, call # Idle, OneRehearsal', Keyed', Progress', SameSessions,
         UNCHANGED <<store, sandboxes, asked, samples>>, GoesOn
  PROVE  IInv'
<1>1. TypeOK /\ Held /\ Accounted /\ IsCall(call) /\ OneRehearsal
  BY DEF IInv, TypeOK, Stored
<1>2. TypeOK'
  BY <1>1 DEF TypeOK, SameSessions, GoesOn, store
<1>3. CASE call' = Idle /\ call.op \in {"once", "branches"}
  <2>1. call.sid \in byId
    BY <1>1, <1>3 DEF Held
  <2>2. Accounted'
    BY <1>1, <1>3, <2>1 DEF Accounted, SameSessions, store, TypeOK
  <2>3. QED  BY <1>2, <1>3, <2>2 DEF IInv, Stored, Held
<1>4. CASE ~(call' = Idle /\ call.op \in {"once", "branches"})
  <2>1. call' # Idle /\ IsCall(call')
    BY <1>4, CallsDiffer DEF GoesOn
  <2>2. Accounted'
    BY <1>1, <1>4, <2>1 DEF Accounted, SameSessions, store, TypeOK, GoesOn
  <2>3. Held'
    BY <1>1, <1>4, <2>1 DEF Held, SameSessions, store, TypeOK, GoesOn
  <2>4. QED  BY <1>2, <2>2, <2>3 DEF IInv, Stored
<1>5. QED  BY <1>3, <1>4

(* What the handler at work stands on.                                      *)
LEMMA AtWork ==
  ASSUME IInv, call # Idle
  PROVE  /\ TypeOK /\ Held /\ IsCall(call)
         /\ call.sid \in Sids /\ sessions[call.sid].open
         /\ DOMAIN sessions[call.sid].tasks = 1..Len(sessions[call.sid].tasks)
         /\ Len(sessions[call.sid].tasks) \in Nat
         /\ call.last <= Len(sessions[call.sid].tasks)
<1>1. /\ TypeOK /\ Held /\ IsCall(call)
      /\ call.sid \in Sids /\ sessions[call.sid].open
  BY DEF IInv, TypeOK, Held
<1>2. sessions[call.sid].tasks \in Seq(Tasks)
  BY <1>1, OpenOrOver DEF Opened
<1>3. QED
  <2> HIDE DEF Tasks
  <2> QED  BY <1>1, <1>2 DEF Held

---------------------------------------------------------------------------
(* What an attempt leaves of a task.                                        *)
LEMMA EntryTyped ==
  ASSUME NEW status \in {"ok", "replayed", "skip", "fail"}, NEW out \in Paths
  PROVE  Entry(status, out) \in Entries /\ Entry(status, out).status = status
<1> HIDE DEF Paths
<1> QED  BY DEF Entry, Entries

LEMMA Recorded ==
  ASSUME NEW k \in Tasks, NEW n \in Nat, StandsAtProgress(k, n), NEW e \in Entries
  PROVE  /\ AppendStepState(k, e) \in Seq(Entries)
         /\ Len(AppendStepState(k, e)) = k.pointer + 1
         /\ AppendStepState(k, e)[k.pointer + 1] = e
         /\ \A i \in 1..k.pointer : AppendStepState(k, e)[i] = k.states[i]
<1>1. /\ k.states \in Seq(Entries) /\ k.pointer \in Nat
      /\ Len(k.states) \in {k.pointer, k.pointer + 1}
  BY DEF Tasks, StandsAtProgress
<1> HIDE DEF Entries
<1>2. CASE k.pointer < Len(k.states)
  <2>1. k.pointer + 1 \in DOMAIN k.states
    BY <1>1, <1>2
  <2>2. QED  BY <1>1, <1>2, <2>1, Edited DEF AppendStepState
<1>3. CASE ~(k.pointer < Len(k.states))
  <2>1. Len(k.states) = k.pointer
    BY <1>1, <1>3
  <2>2. QED  BY <1>1, <1>3, <2>1, Extended DEF AppendStepState
<1>4. QED  BY <1>2, <1>3

(* It stops at its step, with the failure on its page.                      *)
LEMMA Stopped ==
  ASSUME NEW k \in Tasks, NEW n \in Nat, StandsAtProgress(k, n), k.pointer # n,
         NEW st \in {"paused", "failed", "skipped"},
         NEW e \in Entries, e.status \in {"fail", "skip"}
  PROVE  LET m == [k EXCEPT !.status = st, !.states = AppendStepState(k, e)]
         IN  m \in Tasks /\ StandsAtProgress(m, n) /\ m.pointer = k.pointer
<1> DEFINE ss == AppendStepState(k, e)
           m  == [k EXCEPT !.status = st, !.states = ss]
<1>1. /\ ss \in Seq(Entries) /\ Len(ss) = k.pointer + 1 /\ ss[k.pointer + 1] = e
      /\ \A i \in 1..k.pointer : ss[i] = k.states[i]
  BY Recorded
<1> HIDE DEF ss, Entries
<1> DEFINE a == [k EXCEPT !.status = st]
<1>2. m = [pointer |-> k.pointer, status |-> st, input |-> k.input, states |-> ss]
  <2>1. a = [pointer |-> k.pointer, status |-> st, input |-> k.input, states |-> k.states]
    BY DEF Tasks
  <2>2. m = [a EXCEPT !.states = ss]
    OBVIOUS
  <2> HIDE DEF a
  <2>3. QED  BY <2>1, <2>2
<1>3. m \in Tasks /\ k.pointer \in Nat
  BY <1>1, <1>2 DEF Tasks, Statuses
<1>4. m.pointer = k.pointer /\ m.status = st /\ m.states = ss
  BY <1>2
<1> HIDE DEF m
<1>5. StandsAtProgress(m, n)
  BY <1>1, <1>3, <1>4 DEF StandsAtProgress
<1>6. QED  BY <1>3, <1>4, <1>5 DEF m, ss

(* It passes its step.                                                      *)
LEMMA MovesOn ==
  ASSUME NEW k \in Tasks, NEW n \in Nat, StandsAtProgress(k, n), k.pointer < n,
         NEW in \in Paths, NEW e \in Entries, e.status \in Passed
  PROVE  LET m == [pointer |-> k.pointer + 1,
                   status  |-> IF k.pointer + 1 = n THEN "done" ELSE "pending",
                   input   |-> in,
                   states  |-> AppendStepState(k, e)]
         IN  /\ m \in Tasks /\ StandsAtProgress(m, n) /\ m.pointer <= n
<1> DEFINE ss == AppendStepState(k, e)
           st == IF k.pointer + 1 = n THEN "done" ELSE "pending"
           m  == [pointer |-> k.pointer + 1, status |-> st, input |-> in, states |-> ss]
<1>1. /\ ss \in Seq(Entries) /\ Len(ss) = k.pointer + 1 /\ ss[k.pointer + 1] = e
      /\ \A i \in 1..k.pointer : ss[i] = k.states[i]
  BY Recorded
<1>2. k.pointer \in Nat
  BY DEF Tasks
<1> HIDE DEF ss, Entries, Paths
<1>3. m \in Tasks
  BY <1>1, <1>2 DEF Tasks, Statuses
<1>4. m.pointer = k.pointer + 1 /\ m.status = st /\ m.states = ss
  OBVIOUS
<1> HIDE DEF m
<1>5. StandsAtProgress(m, n)
  BY <1>1, <1>2, <1>3, <1>4 DEF StandsAtProgress
<1>6. QED  BY <1>2, <1>3, <1>4, <1>5 DEF m, ss, st

(* What the attempt writes changes no more than what artifacts hold.        *)
LEMMA WrittenKeeps ==
  ASSUME NEW k \in Tasks, NEW n \in Nat, StandsAtProgress(k, n), NEW r
  PROVE  /\ Written(k, r) \in Tasks /\ StandsAtProgress(Written(k, r), n)
         /\ Written(k, r).pointer = k.pointer /\ Written(k, r).status = k.status
         /\ Len(Written(k, r).states) = Len(k.states)
         /\ Written(k, r).input = k.input
<1> DEFINE path == StepDir(k.pointer + 1, call.group)
           ss   == Overwritten(k.states, path)
           m    == [k EXCEPT !.states = ss]
<1>1. k.states \in Seq(Entries)
  BY DEF Tasks
<1>2. \A e \in Entries : [e EXCEPT !.kept = FALSE] \in Entries /\ [e EXCEPT !.kept = FALSE].status = e.status
  <2> HIDE DEF Paths
  <2> QED  BY DEF Entries
<1> HIDE DEF path
<1>3. /\ ss \in Seq(Entries) /\ Len(ss) = Len(k.states) /\ DOMAIN ss = DOMAIN k.states
      /\ \A i \in DOMAIN k.states : ss[i].status = k.states[i].status
      /\ DOMAIN k.states = 1..Len(k.states) /\ Len(k.states) \in Nat
  <2> HIDE DEF Entries
  <2> QED  BY <1>1, <1>2 DEF Overwritten
<1> HIDE DEF ss, Entries
<1>4. m = [pointer |-> k.pointer, status |-> k.status, input |-> k.input, states |-> ss]
  BY DEF Tasks
<1>5. m \in Tasks /\ k.pointer \in Nat
  BY <1>3, <1>4 DEF Tasks
<1>6. m.pointer = k.pointer /\ m.status = k.status /\ m.states = ss /\ m.input = k.input
  BY <1>4
<1> HIDE DEF m
<1>7. StandsAtProgress(m, n)
  <2>1. Len(ss) \in {k.pointer, k.pointer + 1}
    BY <1>3 DEF StandsAtProgress
  <2>2. \A i \in 1..k.pointer : ss[i].status \in Passed
    BY <1>3, <1>5, <2>1 DEF StandsAtProgress
  <2>3. Len(ss) > k.pointer => ss[k.pointer + 1].status \in {"fail", "skip"}
    BY <1>3, <1>5, <2>1 DEF StandsAtProgress
  <2>4. QED  BY <1>3, <1>6, <2>1, <2>2, <2>3 DEF StandsAtProgress
<1>8. Written(k, r) = m \/ Written(k, r) = k
  BY DEF Written, m, ss, path
<1>9. QED  BY <1>3, <1>5, <1>6, <1>7, <1>8

---------------------------------------------------------------------------
(* The handlers that begin.                                                 *)
LEMMA InStore ==
  ASSUME IInv, NEW s \in byId
  PROVE  /\ s \in Sids /\ s \in Nat /\ sessions[s].open /\ sessions[s].owner = "lab" /\ s \in sandboxes
         /\ DOMAIN sessions[s].tasks = 1..Len(sessions[s].tasks) /\ Len(sessions[s].tasks) \in Nat
<1>1. s \in Sids /\ sessions[s].open /\ sessions[s].owner = "lab" /\ s \in sandboxes /\ TypeOK
  BY DEF IInv, TypeOK, Stored, OneRehearsal, Accounted
<1>2. sessions[s].tasks \in Seq(Tasks)
  BY <1>1, OpenOrOver DEF Opened
<1>3. DOMAIN sessions = 1..Len(sessions) /\ Len(sessions) \in Nat
  <2> HIDE DEF Opened, Over
  <2> QED  BY <1>1 DEF TypeOK
<1>4. QED
  <2> HIDE DEF Tasks
  <2> QED  BY <1>1, <1>2, <1>3 DEF Sids

LEMMA AttemptBegins ==
  ASSUME IInv, NEW s \in byId, NEW t \in DOMAIN sessions[s].tasks,
         RunNextStep(s, t) \/ RetryStep(s, t) \/ RunBranches(s, t)
  PROVE  IInv'
<1>1. CASE RunNextStep(s, t) \/ RetryStep(s, t)
  BY <1>1, BeginStep DEF RunNextStep, RetryStep
<1>2. CASE RunBranches(s, t) /\ StepsOf(s)[Task(s, t).pointer + 1].branches # <<>>
  BY <1>2, BeginStep DEF RunBranches
<1>3. CASE RunBranches(s, t) /\ StepsOf(s)[Task(s, t).pointer + 1].branches = <<>>
  <2> DEFINE k  == Task(s, t)
             e  == Entry("fail", NoPath)
             ss == AppendStepState(k, e)
             m  == [k EXCEPT !.states = ss]
  <2>1. /\ Handler(s, t) /\ k.status = "paused" /\ sessions' = WithTask(s, t, m)
        /\ UNCHANGED <<store, sandboxes, asked, call, samples>>
    BY <1>3 DEF RunBranches
  <2>2. /\ k \in Tasks /\ StandsAtProgress(k, Len(StepsOf(s))) /\ k.pointer <= Len(StepsOf(s))
        /\ Len(StepsOf(s)) \in Nat /\ s \in Sids /\ sessions[s].open /\ call = Idle
    BY <2>1, InStore, TaskTyped DEF Handler
  <2>3. k.pointer # Len(StepsOf(s))
    BY <2>1, <2>2 DEF StandsAtProgress
  <2>4. e \in Entries /\ e.status \in {"fail", "skip"}
    BY EntryTyped DEF Paths
  <2>5. [k EXCEPT !.status = "paused", !.states = ss] = m
    <3> DEFINE a == [k EXCEPT !.status = "paused"]
    <3>1. a = k
      BY <2>1, <2>2 DEF Tasks
    <3>2. [k EXCEPT !.status = "paused", !.states = ss] = [a EXCEPT !.states = ss]
      OBVIOUS
    <3> HIDE DEF a, ss, k
    <3>3. QED  BY <3>1, <3>2
  <2> HIDE DEF k, e
  <2>6. m \in Tasks /\ StandsAtProgress(m, Len(StepsOf(s))) /\ m.pointer = k.pointer
    BY <2>2, <2>3, <2>4, <2>5, Stopped
  <2> HIDE DEF m
  <2>7. OneRehearsal' /\ Keyed' /\ Progress' /\ SameSessions
    BY <2>1, <2>2, <2>6, EditKeeps
  <2>8. TypeOK' /\ Stored' /\ Held'
    BY <2>1, <2>2, <2>7 DEF IInv, TypeOK, Stored, Accounted, Held, SameSessions, store
  <2>9. QED  BY <2>7, <2>8 DEF IInv
<1>4. QED  BY <1>1, <1>2, <1>3

LEMMA CallRuns ==
  ASSUME NEW op \in {"run", "replay"}, NEW s \in Nat, NEW t \in Nat \ {0}, NEW last \in Nat
  PROVE  /\ IsCall(Call(op, s, t, last))
         /\ Call(op, s, t, last).op = op /\ Call(op, s, t, last).sid = s
         /\ Call(op, s, t, last).task = t /\ Call(op, s, t, last).last = last
         /\ Call(op, s, t, last).at = "task"
  BY DEF Call, IsCall, None

LEMMA RunBegins ==
  ASSUME IInv, NEW s \in byId, NEW t \in DOMAIN sessions[s].tasks, RunToEnd(s, t) \/ RunAll(s)
  PROVE  IInv'
<1>1. /\ s \in Sids /\ s \in Nat /\ sessions[s].open /\ sessions[s].owner = "lab" /\ s \in sandboxes
      /\ DOMAIN sessions[s].tasks = 1..Len(sessions[s].tasks) /\ Len(sessions[s].tasks) \in Nat
  BY InStore
<1>2. PICK u \in {1, t}, last \in {t, Len(sessions[s].tasks)} :
         call' = Call("run", s, u, last)
  BY DEF RunToEnd, RunAll
<1>3. /\ IsCall(call') /\ call'.op = "run" /\ call'.sid = s /\ call'.last = last /\ call'.at = "task"
      /\ last <= Len(sessions[s].tasks)
  <2>1. u \in Nat \ {0} /\ last \in Nat /\ last <= Len(sessions[s].tasks)
    BY <1>1
  <2>2. QED  BY ONLY <1>1, <1>2, <2>1, CallRuns
<1>4. UNCHANGED <<sessions, store, sandboxes, asked, samples>> /\ call = Idle
  BY DEF RunToEnd, RunAll, Handler
<1>5. OneRehearsal' /\ Keyed' /\ Progress' /\ SameSessions
  BY <1>4, RestKeeps
<1>6. call' # Idle
  BY <1>3, CallsDiffer
<1>7. TypeOK' /\ Stored' /\ Held'
  BY <1>1, <1>3, <1>4, <1>5, <1>6
     DEF IInv, TypeOK, Stored, Accounted, Held, SameSessions, store
<1>8. QED  BY <1>5, <1>7 DEF IInv

---------------------------------------------------------------------------
(* The handler at work.                                                     *)
SameHandler(c, d) == IsCall(d) /\ d.op = c.op /\ d.sid = c.sid /\ d.last = c.last /\ d.old = c.old

LEMMA PlaceTyped ==
  ASSUME NEW c, IsCall(c), NEW at \in {"task", "attempt", "replayed"}
  PROVE  /\ SameHandler(c, [c EXCEPT !.at = at])
         /\ [c EXCEPT !.at = at].at = at /\ [c EXCEPT !.at = at].task = c.task
  BY DEF IsCall, SameHandler

LEMMA NextTaskTyped ==
  ASSUME NEW c, IsCall(c)
  PROVE  SameHandler(c, NextTask(c)) /\ NextTask(c).at = "task"
<1> DEFINE d == [c EXCEPT !.at = "task"]
<1>1. NextTask(c) = [d EXCEPT !.task = @ + 1]
  BY DEF NextTask, IsCall
<1>2. SameHandler(c, d) /\ d.at = "task"
  BY PlaceTyped
<1> HIDE DEF d
<1>3. QED  BY <1>1, <1>2 DEF IsCall, SameHandler

LEMMA AgainTyped ==
  ASSUME NEW c, IsCall(c)
  PROVE  LET d == [c EXCEPT !.attempt = @ + 1]
         IN  SameHandler(c, d) /\ d.at = c.at /\ d.group = c.group /\ d.task = c.task
  BY DEF IsCall, SameHandler

LEMMA TryingTyped ==
  ASSUME NEW c, IsCall(c), NEW g \in Nat
  PROVE  /\ SameHandler(c, Trying(c, g)) /\ Trying(c, g).at = "attempt"
         /\ Trying(c, g).group = g /\ Trying(c, g).task = c.task
<1> DEFINE d == [c EXCEPT !.at = "attempt"]
           e == [d EXCEPT !.group = g]
<1>1. Trying(c, g) = [e EXCEPT !.attempt = 1]
  BY DEF Trying
<1>2. SameHandler(c, d) /\ d.at = "attempt" /\ d.task = c.task
  BY PlaceTyped
<1> HIDE DEF d
<1>3. SameHandler(c, e) /\ e.at = "attempt" /\ e.task = c.task /\ e.group = g
  BY <1>2 DEF IsCall, SameHandler
<1> HIDE DEF e
<1>4. QED  BY <1>1, <1>3 DEF IsCall, SameHandler

(* A step that gives the task at work the state m and goes on with it, with *)
(* the next task or not at all.                                             *)
LEMMA WorkEdits ==
  ASSUME IInv, call # Idle, NEW s, s = call.sid, NEW t \in DOMAIN sessions[s].tasks,
         NEW m \in Tasks, sessions' = WithTask(s, t, m),
         StandsAtProgress(m, Len(StepsOf(s))), m.pointer <= Len(StepsOf(s)),
         UNCHANGED <<store, sandboxes, asked, samples>>,
         \/ call' = Idle /\ call.op \in {"once", "branches"}
         \/ /\ SameHandler(call, call')
            /\ call'.at = "task" => call.op \in {"run", "replay"}
            /\ call'.at = "replayed" => call.op = "replay"
            /\ call.op = "replay" /\ call'.at # "replayed" =>
                 call.at # "replayed" /\ m.status \in {"pending", "done"}
            /\ call'.at = "attempt" =>
                 /\ call'.task = t /\ t <= call.last
                 /\ m.pointer < Len(StepsOf(s)) /\ m.status \notin Terminal
                 /\ call.op # "branches" => m.status # "paused"
                 /\ call.op = "branches" => Len(m.states) = m.pointer + 1
                 /\ call'.group \in 0..Len(StepsOf(s)[m.pointer + 1].branches)
  PROVE  IInv'
<1>1. s \in Sids /\ sessions[s].open
  BY AtWork
<1>2. OneRehearsal' /\ Keyed' /\ Progress' /\ SameSessions /\ Task(s, t)' = m
  BY <1>1, EditKeeps
<1>3. StepsOf(s)' = StepsOf(s)
  BY <1>1, <1>2 DEF SameSessions
<1>4. ASSUME IsCall(call'), call'.sid = s, call'.task = t
      PROVE  Here' = m /\ Branches' = StepsOf(s)[m.pointer + 1].branches /\ StepsOf(call.sid)' = StepsOf(s)
  <2>1. StepsOf(call.sid)' = StepsOf(s)
    BY <1>3, <1>4 DEF StepsOf
  <2>2. Task(call.sid, call.task)' = m
    BY <1>2, <1>4 DEF Task
  <2>3. QED  BY <2>1, <2>2 DEF Here, Branches
<1>5. ASSUME call.op = "replay", call.at # "replayed", call' # Idle, call'.sid = s,
             m.status \in {"pending", "done"}
      PROVE  Fresh'
  <2>1. Fresh
    BY <1>5 DEF IInv, Held
  <2>2. /\ DOMAIN sessions'[s].tasks = DOMAIN sessions[s].tasks /\ sessions'[s].tasks[t] = m
        /\ \A u \in DOMAIN sessions[s].tasks \ {t} : sessions'[s].tasks[u] = sessions[s].tasks[u]
    BY <1>1, TaskEdited DEF IInv
  <2>3. QED  BY <1>5, <2>1, <2>2 DEF Fresh, Task
<1>6. GoesOn
  BY <1>4, <1>5, CallsDiffer DEF GoesOn, Tryable, SameHandler
<1>7. QED  BY <1>2, <1>6, CallGoesOn

(* The task at work.                                                        *)
LEMMA TaskAtWork ==
  ASSUME IInv, call # Idle, call.at = "attempt" \/ call.task <= call.last
  PROVE  \E s, t :
           /\ s \in Sids /\ t \in DOMAIN sessions[s].tasks
           /\ s = call.sid /\ t = call.task /\ t \in Nat \ {0}
           /\ sessions[s].open /\ Here = Task(s, t) /\ Branches = StepsOf(s)[Task(s, t).pointer + 1].branches
           /\ Task(s, t) \in Tasks /\ StandsAtProgress(Task(s, t), Len(StepsOf(s)))
           /\ Task(s, t).pointer <= Len(StepsOf(s)) /\ Len(StepsOf(s)) \in Nat
           /\ Task(s, t).pointer \in Nat
<1>1. call.task <= call.last
  BY AtWork DEF Held, Tryable
<1>2. call.task \in Nat \ {0} /\ call.last \in Nat
  BY AtWork DEF IsCall
<1>3. call.task \in DOMAIN sessions[call.sid].tasks
  BY <1>1, <1>2, AtWork
<1>4. PICK s \in Sids : s = call.sid
  BY AtWork
<1>5. PICK t \in DOMAIN sessions[s].tasks : t = call.task
  BY <1>3, <1>4
<1>6. sessions[s].open
  BY <1>4, AtWork
<1>7. /\ Task(s, t) \in Tasks /\ StandsAtProgress(Task(s, t), Len(StepsOf(s)))
      /\ Task(s, t).pointer <= Len(StepsOf(s)) /\ Len(StepsOf(s)) \in Nat
  BY <1>6, TaskTyped
<1>8. Task(s, t).pointer \in Nat
  BY <1>7 DEF Tasks
<1>9. QED  BY <1>2, <1>4, <1>5, <1>6, <1>7, <1>8 DEF Here, Branches

LEMMA TakeStep ==
  ASSUME IInv, TakeTask
  PROVE  IInv'
<1>1. /\ call # Idle /\ call.op = "run" /\ call.at = "task" /\ call.task <= call.last
      /\ UNCHANGED <<store, sandboxes, asked, samples>> /\ IsCall(call)
  BY AtWork DEF TakeTask
<1>2. PICK s, t :
         /\ s \in Sids /\ t \in DOMAIN sessions[s].tasks
         /\ s = call.sid /\ t = call.task /\ t \in Nat \ {0}
         /\ sessions[s].open /\ Here = Task(s, t)
         /\ Task(s, t) \in Tasks /\ StandsAtProgress(Task(s, t), Len(StepsOf(s)))
         /\ Task(s, t).pointer <= Len(StepsOf(s)) /\ Len(StepsOf(s)) \in Nat
         /\ Task(s, t).pointer \in Nat
  BY <1>1, TaskAtWork
<1>3. CASE call' = NextTask(call) /\ UNCHANGED sessions
  <2>1. OneRehearsal' /\ Keyed' /\ Progress' /\ SameSessions
    BY <1>1, <1>3, RestKeeps
  <2>2. GoesOn
    BY <1>1, <1>3, NextTaskTyped DEF GoesOn, SameHandler
  <2>3. QED  BY <1>1, <2>1, <2>2, CallGoesOn
<1>4. CASE /\ Task(s, t).status \notin Terminal /\ call' = Trying(call, 0)
           /\ sessions' = WithTask(s, t, [Task(s, t) EXCEPT !.status = "running"])
  <2> DEFINE k == Task(s, t)
             m == [k EXCEPT !.status = "running"]
  <2>1. k.pointer < Len(StepsOf(s)) /\ k.pointer \in Nat
    BY <1>2, <1>4 DEF StandsAtProgress, Terminal
  <2>2. /\ m \in Tasks /\ StandsAtProgress(m, Len(StepsOf(s)))
        /\ m.pointer = k.pointer /\ m.status = "running"
    <3> HIDE DEF k
    <3>1. k \in Tasks /\ StandsAtProgress(k, Len(StepsOf(s))) /\ k.pointer # Len(StepsOf(s))
      BY <1>2, <2>1 DEF k
    <3>2. QED  BY <1>2, <3>1, StatusKeeps
  <2>3. 0 \in 0..Len(StepsOf(s)[k.pointer + 1].branches)
    <3>1. Len(StepsOf(s)[k.pointer + 1].branches) \in Nat
      BY <1>2, <2>1, GroupsTyped DEF IInv
    <3>2. QED  BY <3>1
  <2>4. sessions' = WithTask(s, t, m)
    BY <1>4
  <2> HIDE DEF m, k
  <2>5. /\ SameHandler(call, call') /\ call'.at = "attempt"
        /\ call'.task = t /\ call'.group = 0
    BY <1>1, <1>2, <1>4, TryingTyped
  <2>6. m.status \notin Terminal /\ m.status # "paused"
    BY <2>2 DEF Terminal
  <2>7. /\ t <= call.last /\ m.pointer < Len(StepsOf(s)) /\ m.pointer <= Len(StepsOf(s))
        /\ call'.group \in 0..Len(StepsOf(s)[m.pointer + 1].branches)
    BY <1>1, <1>2, <2>1, <2>2, <2>3, <2>5
  <2>8. QED  BY <1>1, <1>2, <2>2, <2>4, <2>5, <2>6, <2>7, WorkEdits
<1>5. QED  BY <1>2, <1>3, <1>4 DEF TakeTask, Here

(* The attempt in hand, and the task it is made for.                        *)
LEMMA AttemptInHand ==
  ASSUME IInv, InHand
  PROVE  \E s, t :
           /\ s \in Sids /\ t \in DOMAIN sessions[s].tasks
           /\ s = call.sid /\ t = call.task /\ t <= call.last /\ t \in Nat
           /\ call # Idle /\ IsCall(call) /\ call.at = "attempt"
           /\ sessions[s].open /\ Here = Task(s, t) /\ Branches = StepsOf(s)[Task(s, t).pointer + 1].branches
           /\ Task(s, t) \in Tasks /\ StandsAtProgress(Task(s, t), Len(StepsOf(s)))
           /\ Len(StepsOf(s)) \in Nat /\ Task(s, t).pointer \in Nat
           /\ Task(s, t).pointer < Len(StepsOf(s)) /\ Task(s, t).status \notin Terminal
           /\ call.op # "branches" => Task(s, t).status # "paused"
           /\ call.op = "branches" => Len(Task(s, t).states) = Task(s, t).pointer + 1
           /\ call.group \in 0..Len(Branches) /\ Len(Branches) \in Nat
           /\ \A i \in 1..Len(Branches) : Branches[i].name \in STRING
<1>1. call # Idle /\ IsCall(call) /\ call.at = "attempt" /\ Tryable
  BY AtWork DEF InHand, Held
<1>2. PICK s, t :
         /\ s \in Sids /\ t \in DOMAIN sessions[s].tasks
         /\ s = call.sid /\ t = call.task /\ t \in Nat \ {0}
         /\ sessions[s].open /\ Here = Task(s, t) /\ Branches = StepsOf(s)[Task(s, t).pointer + 1].branches
         /\ Task(s, t) \in Tasks /\ StandsAtProgress(Task(s, t), Len(StepsOf(s)))
         /\ Task(s, t).pointer <= Len(StepsOf(s)) /\ Len(StepsOf(s)) \in Nat
         /\ Task(s, t).pointer \in Nat
  BY <1>1, TaskAtWork
<1>3. Task(s, t).pointer < Len(StepsOf(s))
  BY <1>1, <1>2 DEF Tryable
<1>4. Len(Branches) \in Nat /\ Branches \in Seq([name : STRING, retries : Nat])
  BY <1>2, <1>3, GroupsTyped DEF IInv
<1>5. \A i \in 1..Len(Branches) : Branches[i].name \in STRING
  <2> DEFINE B == [name : STRING, retries : Nat]
  <2>1. \A i \in 1..Len(Branches) : Branches[i] \in B
    <3>1. Branches \in Seq(B)
      BY <1>4
    <3> HIDE DEF B
    <3>2. QED  BY <3>1
  <2>2. QED  BY <2>1
<1>6. QED  BY <1>1, <1>2, <1>3, <1>4, <1>5 DEF Tryable

LEMMA DirTyped ==
  ASSUME NEW i \in Nat, call.group \in 0..Len(Branches), Len(Branches) \in Nat,
         \A j \in 1..Len(Branches) : Branches[j].name \in STRING
  PROVE  StepDir(i, call.group) \in Paths
<1> DEFINE g == call.group
<1>1. CASE g = 0
  <2>1. StepDir(i, g) = <<"step", i>>
    BY <1>1 DEF StepDir
  <2>2. QED  BY <2>1 DEF Paths
<1>2. CASE g # 0
  <2>1. StepDir(i, g) = <<"branch", Branches[g].name>>
    BY <1>2 DEF StepDir
  <2>2. g \in 1..Len(Branches)
    BY <1>2
  <2>3. QED  BY <2>1, <2>2 DEF Paths
<1>3. QED  BY <1>1, <1>2

LEMMA PassStep ==
  ASSUME IInv, NEW r, AttemptPasses(r)
  PROVE  IInv'
<1>1. PICK s, t :
         /\ s \in Sids /\ t \in DOMAIN sessions[s].tasks
         /\ s = call.sid /\ t = call.task /\ t <= call.last /\ t \in Nat
         /\ call # Idle /\ IsCall(call) /\ call.at = "attempt"
         /\ sessions[s].open /\ Here = Task(s, t)
         /\ Task(s, t) \in Tasks /\ StandsAtProgress(Task(s, t), Len(StepsOf(s)))
         /\ Len(StepsOf(s)) \in Nat /\ Task(s, t).pointer \in Nat
         /\ Task(s, t).pointer < Len(StepsOf(s))
         /\ call.group \in 0..Len(Branches) /\ Len(Branches) \in Nat
         /\ \A i \in 1..Len(Branches) : Branches[i].name \in STRING
  BY AttemptInHand DEF AttemptPasses
<1> DEFINE k   == Written(Task(s, t), r)
           out == IF r = "ok" THEN StepDir(k.pointer + 1, call.group) ELSE NoPath
           in  == IF out = NoPath THEN k.input ELSE out
           e   == Entry(IF call.op = "replay" THEN "replayed" ELSE "ok", out)
           m   == [pointer |-> k.pointer + 1,
                   status  |-> IF k.pointer + 1 = Len(StepsOf(s)) THEN "done" ELSE "pending",
                   input   |-> in,
                   states  |-> AppendStepState(k, e)]
<1>2. /\ sessions' = WithTask(s, t, m) /\ call' = Continue(call)
      /\ UNCHANGED <<store, sandboxes, asked, samples>>
  BY <1>1 DEF AttemptPasses
<1>3. /\ k \in Tasks /\ StandsAtProgress(k, Len(StepsOf(s))) /\ k.pointer = Task(s, t).pointer
  BY <1>1, WrittenKeeps
<1> HIDE DEF k
<1>4. k.pointer \in Nat /\ k.pointer < Len(StepsOf(s)) /\ k.input \in Paths
  BY <1>1, <1>3 DEF Tasks
<1>5. out \in Paths /\ in \in Paths
  <2>1. StepDir(k.pointer + 1, call.group) \in Paths
    BY <1>1, <1>4, DirTyped
  <2>2. NoPath \in Paths
    BY DEF Paths
  <2>3. QED  BY <1>4, <2>1, <2>2
<1> HIDE DEF out, in
<1>6. e \in Entries /\ e.status \in Passed
  BY <1>5, EntryTyped DEF Passed
<1> HIDE DEF e
<1>7. m \in Tasks /\ StandsAtProgress(m, Len(StepsOf(s))) /\ m.pointer <= Len(StepsOf(s))
  BY <1>1, <1>3, <1>4, <1>5, <1>6, MovesOn
<1> HIDE DEF m
<1>8. CASE call.op \in {"run", "replay"}
  <2>1. SameHandler(call, call') /\ call'.at = "task"
    BY <1>1, <1>2, <1>8, PlaceTyped DEF Continue
  <2>2. m.status \in {"pending", "done"}
    BY DEF m
  <2>3. QED  BY <1>1, <1>2, <1>7, <1>8, <2>1, <2>2, WorkEdits
<1>9. CASE call.op \notin {"run", "replay"}
  <2>1. call' = Idle /\ call.op \in {"once", "branches"}
    BY <1>1, <1>2, <1>9 DEF Continue, IsCall
  <2>2. QED  BY <1>1, <1>2, <1>7, <2>1, WorkEdits
<1>10. QED  BY <1>8, <1>9

LEMMA HaltStep ==
  ASSUME IInv, InHand, NEW s, s = call.sid, NEW t \in DOMAIN sessions[s].tasks, t = call.task,
         NEW k \in Tasks, StandsAtProgress(k, Len(StepsOf(s))), k.pointer < Len(StepsOf(s)),
         NEW st \in {"paused", "failed", "skipped"}, NEW en \in {"fail", "skip"},
         sessions' = Halt(k, st, en), call' = Halted(call),
         UNCHANGED <<store, sandboxes, asked, samples>>
  PROVE  IInv'
<1> DEFINE e == Entry(en, NoPath)
           m == [k EXCEPT !.status = st, !.states = AppendStepState(k, e)]
<1>1. /\ call # Idle /\ IsCall(call) /\ s \in Sids /\ sessions[s].open
      /\ Len(StepsOf(s)) \in Nat /\ k.pointer \in Nat
  BY AtWork, TaskTyped DEF InHand, Tasks
<1>2. e \in Entries /\ e.status \in {"fail", "skip"}
  BY EntryTyped DEF Paths
<1> HIDE DEF e
<1>3. m \in Tasks /\ StandsAtProgress(m, Len(StepsOf(s))) /\ m.pointer <= Len(StepsOf(s))
  <2>1. k.pointer # Len(StepsOf(s))
    BY <1>1
  <2>2. m \in Tasks /\ StandsAtProgress(m, Len(StepsOf(s))) /\ m.pointer = k.pointer
    <3> DEFINE n == Len(StepsOf(s))
    <3>1. n \in Nat /\ StandsAtProgress(k, n) /\ k.pointer # n
      BY <1>1, <2>1
    <3> HIDE DEF n
    <3>2. m \in Tasks /\ StandsAtProgress(m, n) /\ m.pointer = k.pointer
      BY ONLY k \in Tasks, st \in {"paused", "failed", "skipped"}, <1>2, <3>1, Stopped
    <3>3. QED  BY <3>2 DEF n
  <2> HIDE DEF m
  <2>3. QED  BY <1>1, <2>2
<1>4. sessions' = WithTask(s, t, m)
  BY DEF Halt, e
<1> HIDE DEF m
<1>5. CASE call.op = "run"
  <2>1. SameHandler(call, call') /\ call'.at = "task"
    BY <1>1, <1>5, NextTaskTyped DEF Halted
  <2>2. QED  BY <1>1, <1>3, <1>4, <1>5, <2>1, WorkEdits
<1>6. CASE call.op = "replay"
  <2>1. SameHandler(call, call') /\ call'.at = "replayed"
    BY <1>1, <1>6, PlaceTyped DEF Halted
  <2>2. QED  BY <1>1, <1>3, <1>4, <1>6, <2>1, WorkEdits
<1>7. CASE call.op \notin {"run", "replay"}
  <2>1. call' = Idle /\ call.op \in {"once", "branches"}
    BY <1>1, <1>7 DEF Halted, IsCall
  <2>2. QED  BY <1>1, <1>3, <1>4, <2>1, WorkEdits
<1>8. QED  BY <1>5, <1>6, <1>7

LEMMA SkipStep ==
  ASSUME IInv, AttemptSkips
  PROVE  IInv'
<1>1. PICK s, t :
         /\ s \in Sids /\ t \in DOMAIN sessions[s].tasks
         /\ s = call.sid /\ t = call.task /\ t <= call.last /\ t \in Nat
         /\ call # Idle /\ IsCall(call) /\ call.at = "attempt"
         /\ sessions[s].open /\ Here = Task(s, t) /\ Branches = StepsOf(s)[Task(s, t).pointer + 1].branches
         /\ Task(s, t) \in Tasks /\ StandsAtProgress(Task(s, t), Len(StepsOf(s)))
         /\ Len(StepsOf(s)) \in Nat /\ Task(s, t).pointer \in Nat
         /\ Task(s, t).pointer < Len(StepsOf(s)) /\ Task(s, t).status \notin Terminal
         /\ call.op # "branches" => Task(s, t).status # "paused"
         /\ call.op = "branches" => Len(Task(s, t).states) = Task(s, t).pointer + 1
         /\ call.group \in 0..Len(Branches) /\ Len(Branches) \in Nat
  BY AttemptInHand DEF AttemptSkips
<1>2. QED  BY <1>1, HaltStep DEF AttemptSkips

LEMMA FailStep ==
  ASSUME IInv, NEW r, AttemptFails(r)
  PROVE  IInv'
<1>1. PICK s, t :
         /\ s \in Sids /\ t \in DOMAIN sessions[s].tasks
         /\ s = call.sid /\ t = call.task /\ t <= call.last /\ t \in Nat
         /\ call # Idle /\ IsCall(call) /\ call.at = "attempt"
         /\ sessions[s].open /\ Here = Task(s, t) /\ Branches = StepsOf(s)[Task(s, t).pointer + 1].branches
         /\ Task(s, t) \in Tasks /\ StandsAtProgress(Task(s, t), Len(StepsOf(s)))
         /\ Len(StepsOf(s)) \in Nat /\ Task(s, t).pointer \in Nat
         /\ Task(s, t).pointer < Len(StepsOf(s)) /\ Task(s, t).status \notin Terminal
         /\ call.op # "branches" => Task(s, t).status # "paused"
         /\ call.op = "branches" => Len(Task(s, t).states) = Task(s, t).pointer + 1
         /\ call.group \in 0..Len(Branches) /\ Len(Branches) \in Nat
  BY AttemptInHand DEF AttemptFails
<1> DEFINE k == Written(Task(s, t), r)
<1>2. /\ k \in Tasks /\ StandsAtProgress(k, Len(StepsOf(s))) /\ k.pointer = Task(s, t).pointer
      /\ k.status = Task(s, t).status /\ Len(k.states) = Len(Task(s, t).states)
  BY <1>1, WrittenKeeps
<1>3. UNCHANGED <<store, sandboxes, asked, samples>> /\ InHand
  BY DEF AttemptFails
<1>4. CASE /\ NextRung # Idle /\ sessions' = WithTask(s, t, k) /\ call' = NextRung
  <2> HIDE DEF k
  <2>1. PICK g \in 0..Len(Branches) :
          SameHandler(call, call') /\ call'.at = "attempt" /\ call'.task = t /\ call'.group = g
    <3>1. CASE call' = [call EXCEPT !.attempt = @ + 1]
      BY <1>1, <3>1, AgainTyped
    <3>2. CASE call' = Trying(call, call.group + 1) /\ call.group < Len(Branches)
      <4>1. call.group + 1 \in 0..Len(Branches) /\ call.group + 1 \in Nat
        BY <1>1, <3>2
      <4>2. QED  BY <1>1, <3>2, <4>1, TryingTyped
    <3>3. QED  BY <1>4, <3>1, <3>2 DEF NextRung
  <2>2. call'.group \in 0..Len(StepsOf(s)[k.pointer + 1].branches)
    BY <1>1, <1>2, <2>1
  <2>3. k.pointer < Len(StepsOf(s)) /\ k.pointer <= Len(StepsOf(s)) /\ k.status \notin Terminal
    BY <1>1, <1>2
  <2>4. /\ call.op # "branches" => k.status # "paused"
        /\ call.op = "branches" => Len(k.states) = k.pointer + 1
    BY <1>1, <1>2
  <2>5. call.op # "replay"
    BY <1>4 DEF NextRung
  <2>6. QED  BY <1>1, <1>2, <1>3, <1>4, <2>1, <2>2, <2>3, <2>4, <2>5, WorkEdits
<1>5. CASE /\ sessions' = Halt(k, IF call.op = "run" THEN "failed" ELSE "paused", "fail")
           /\ call' = Halted(call)
  <2> HIDE DEF k
  <2>1. k.pointer < Len(StepsOf(s))
    BY <1>1, <1>2
  <2>2. QED  BY <1>1, <1>2, <1>3, <1>5, <2>1, HaltStep
<1>6. QED  BY <1>1, <1>4, <1>5 DEF AttemptFails

LEMMA ReplayStep ==
  ASSUME IInv, ReplayNext
  PROVE  IInv'
<1>1. /\ call # Idle /\ IsCall(call) /\ call.op = "replay" /\ call.at = "task" /\ call.task <= call.last
      /\ UNCHANGED <<sessions, store, sandboxes, asked, samples>>
  BY AtWork DEF ReplayNext, Replaying
<1>2. OneRehearsal' /\ Keyed' /\ Progress' /\ SameSessions
  BY <1>1, RestKeeps
<1>3. Fresh
  BY <1>1 DEF IInv, Held
<1>4. CASE call' = NextTask(call)
  <2>1. SameHandler(call, call') /\ call'.at = "task"
    BY <1>1, <1>4, NextTaskTyped
  <2>2. Fresh'
    BY <1>1, <1>3, <2>1 DEF Fresh, Task, SameHandler
  <2>3. QED  BY <1>1, <1>2, <2>1, <2>2, CallGoesOn DEF GoesOn, SameHandler
<1>5. CASE call' = Trying(call, 0) /\ Task(call.sid, call.task).pointer < Len(StepsOf(call.sid))
  <2>1. /\ SameHandler(call, call') /\ call'.at = "attempt" /\ call'.group = 0
        /\ call'.task = call.task
    BY <1>1, <1>5, TryingTyped
  <2>2. Fresh'
    BY <1>1, <1>3, <2>1 DEF Fresh, Task, SameHandler
  <2>3. Tryable'
    <3>1. PICK s, t :
         /\ s \in Sids /\ t \in DOMAIN sessions[s].tasks
         /\ s = call.sid /\ t = call.task /\ t \in Nat \ {0}
         /\ sessions[s].open /\ Here = Task(s, t) /\ Branches = StepsOf(s)[Task(s, t).pointer + 1].branches
         /\ Len(StepsOf(s)) \in Nat /\ Task(s, t).pointer \in Nat
      BY <1>1, TaskAtWork
    <3>2. Task(s, t).status \in {"pending", "done"} /\ Task(s, t).pointer < Len(StepsOf(s))
      BY <1>3, <1>5, <3>1 DEF Fresh
    <3>3. Task(s, t).status \notin Terminal /\ Task(s, t).status # "paused"
      <4>1. Task(s, t).status # "done"
        BY <3>1, <3>2, TaskTyped DEF StandsAtProgress
      <4>2. QED  BY <3>2, <4>1 DEF Terminal
    <3>4. 0 \in 0..Len(Branches)
      <4>1. Len(Branches) \in Nat
        BY <3>1, <3>2, GroupsTyped DEF IInv
      <4>2. QED  BY <4>1
    <3>5. Here' = Here /\ Branches' = Branches /\ StepsOf(call.sid)' = StepsOf(call.sid)
      BY <1>1, <2>1 DEF Here, Branches, Task, StepsOf, SameHandler
    <3>6. QED
      BY <1>1, <2>1, <3>1, <3>2, <3>3, <3>4, <3>5 DEF Tryable, SameHandler
  <2>4. QED  BY <1>1, <1>2, <2>1, <2>2, <2>3, CallGoesOn DEF GoesOn, SameHandler
<1>6. QED
  BY <1>4, <1>5 DEF ReplayNext, Replaying

---------------------------------------------------------------------------
(* Sessions that end.                                                       *)
LEMMA Closing ==
  ASSUME IInv, NEW sids, sessions' = CloseIn(sessions, sids)
  PROVE  /\ sessions' \in Seq(Opened \cup {Over}) /\ Sids' = Sids
         /\ \A s \in Sids \ sids : /\ sessions'[s] = sessions[s]
                                  /\ PipelineOf(s)' = PipelineOf(s)
         /\ \A s \in Sids \cap sids : ~sessions'[s].open
         /\ Progress'
<1>1. /\ sessions' \in Seq(Opened \cup {Over}) /\ Sids' = Sids
      /\ \A s \in Sids : sessions'[s] = IF s \in sids THEN Over ELSE sessions[s]
  <2>1. sessions \in Seq(Opened \cup {Over})
    BY DEF IInv, TypeOK
  <2> HIDE DEF Opened, Over
  <2>2. QED  BY <2>1, Closed DEF Sids
<1>2. ~Over.open /\ DOMAIN Over.tasks = {}
  BY DEF Over
<1>3. Progress'
  <2> SUFFICES ASSUME NEW x \in Sids, NEW u \in DOMAIN sessions'[x].tasks
      PROVE  /\ StandsAtProgress(Task(x, u)', Len(StepsOf(x)'))
             /\ Task(x, u)'.pointer <= Len(StepsOf(x)')
    BY <1>1 DEF Progress, PointerIsProgress, StandsAtProgress, Task
  <2>1. sessions'[x] = sessions[x]
    BY <1>1, <1>2
  <2>2. Task(x, u)' = Task(x, u) /\ StepsOf(x)' = StepsOf(x) /\ u \in DOMAIN sessions[x].tasks
    BY <2>1 DEF Task, StepsOf
  <2>3. QED  BY <2>2 DEF IInv, Progress, PointerIsProgress
<1>4. QED  BY <1>1, <1>2, <1>3 DEF PipelineOf

LEMMA CloseAllStep ==
  ASSUME IInv, NEW sids, CloseAll(sids), call' = Idle, asked' \subseteq asked, samples' \in Nat,
         call # Idle => call.sid \in sids \cup byId
  PROVE  IInv'
<1>1. /\ sessions' = CloseIn(sessions, sids) /\ byId' = byId \ sids /\ sandboxes' = sandboxes \ sids
      /\ byPipeline' = [p \in Pipelines |-> IF byPipeline[p] \in sids THEN None ELSE byPipeline[p]]
  BY DEF CloseAll
<1>2. /\ sessions' \in Seq(Opened \cup {Over}) /\ Sids' = Sids
      /\ \A s \in Sids \ sids : /\ sessions'[s] = sessions[s]
                               /\ PipelineOf(s)' = PipelineOf(s)
      /\ \A s \in Sids \cap sids : ~sessions'[s].open
      /\ Progress'
  BY <1>1, Closing
<1>3. TypeOK /\ byId \subseteq Sids /\ OneRehearsal /\ Keyed /\ Accounted
  BY DEF IInv, TypeOK, Stored
<1>4. TypeOK'
  BY <1>1, <1>2, <1>3 DEF TypeOK, None
<1>5. OneRehearsal'
  <2>1. \A s \in byId' : /\ sessions'[s].open /\ s \in sandboxes'
                         /\ byPipeline'[PipelineOf(s)'] = s
    BY <1>1, <1>2, <1>3, StepsTyped DEF OneRehearsal
  <2>2. \A p \in Pipelines : byPipeline'[p] # None => byPipeline'[p] \in byId'
    BY <1>1, <1>3 DEF OneRehearsal, None
  <2>3. QED  BY <2>1, <2>2 DEF OneRehearsal, PipelineOf
<1>6. Keyed'
  <2>1. \A p \in Pipelines : byPipeline'[p] # None =>
          byPipeline[p] # None /\ byPipeline'[p] = byPipeline[p] /\ byPipeline[p] \in Sids \ sids
    BY <1>1, <1>3 DEF OneRehearsal, None
  <2>2. QED  BY <1>2, <1>3, <2>1 DEF Keyed, PipelineOf
<1>7. Accounted'
  BY <1>1, <1>2, <1>3 DEF Accounted
<1>8. QED  BY <1>2, <1>4, <1>5, <1>6, <1>7 DEF IInv, Stored, Held

(* The session of a resume that fails is closed and in no store.            *)
LEMMA LeftToNobody ==
  ASSUME IInv, call # Idle, call.op = "replay", sessions' = CloseIn(sessions, {call.sid}),
         UNCHANGED <<store, sandboxes, asked, samples>>, call' = Idle
  PROVE  IInv'
<1>1. PICK c \in Sids : c = call.sid
  BY AtWork
<1>2. c \notin byId
  BY <1>1 DEF IInv, Held
<1>3. /\ sessions' \in Seq(Opened \cup {Over}) /\ Sids' = Sids
      /\ \A s \in Sids \ {c} : /\ sessions'[s] = sessions[s]
                              /\ PipelineOf(s)' = PipelineOf(s)
      /\ \A s \in Sids \cap {c} : ~sessions'[s].open
      /\ Progress'
  BY <1>1, Closing
<1>4. TypeOK /\ byId \subseteq Sids /\ OneRehearsal /\ Keyed /\ Accounted
  BY DEF IInv, TypeOK, Stored
<1>5. TypeOK'
  BY <1>3, <1>4 DEF TypeOK, store
<1>6. OneRehearsal' /\ Keyed'
  <2>1. byId \subseteq Sids \ {c}
    BY <1>2, <1>4
  <2>2. \A p \in Pipelines : byPipeline[p] # None => byPipeline[p] \in byId
    BY <1>4 DEF OneRehearsal
  <2>3. \A s \in byId : sessions'[s] = sessions[s] /\ PipelineOf(s)' = PipelineOf(s)
    BY <1>3, <2>1
  <2>4. byId' = byId /\ byPipeline' = byPipeline /\ sandboxes' = sandboxes
    BY DEF store
  <2>5. OneRehearsal'
    BY <1>4, <2>2, <2>3, <2>4 DEF OneRehearsal, PipelineOf
  <2>6. Keyed'
    BY <1>4, <2>2, <2>3, <2>4 DEF Keyed, PipelineOf
  <2>7. QED  BY <2>5, <2>6
<1>7. Accounted'
  BY <1>1, <1>2, <1>3, <1>4 DEF Accounted, store
<1>8. QED  BY <1>3, <1>5, <1>6, <1>7 DEF IInv, Stored, Held

(* A handler that lets go of a session in the store.                        *)
LEMMA LetGo ==
  ASSUME IInv, call # Idle, call.op # "replay", sessions[call.sid].owner = "lab", call' = Idle,
         UNCHANGED <<sessions, store, sandboxes, asked, samples>>
  PROVE  IInv'
<1>1. call.sid \in byId
  BY DEF IInv, Held
<1>2. OneRehearsal' /\ Keyed' /\ Progress' /\ SameSessions
  BY RestKeeps
<1>3. TypeOK' /\ Accounted'
  BY <1>1, <1>2 DEF IInv, TypeOK, Stored, Accounted, SameSessions, store
<1>4. QED  BY <1>2, <1>3 DEF IInv, Stored, Held

LEMMA OwnersTyped ==
  ASSUME IInv, call # Idle
  PROVE  sessions[call.sid].owner \in {"lab", "cli"}
  BY AtWork, OpenOrOver DEF Opened

LEMMA HandlerEndsStep ==
  ASSUME IInv, HandlerEnds
  PROVE  IInv'
<1>1. /\ call # Idle /\ call.op = "run" /\ call' = Idle /\ UNCHANGED <<asked, samples>> /\ samples \in Nat
  BY DEF HandlerEnds, IInv, TypeOK
<1>2. CASE sessions[call.sid].owner = "cli"
  <2>1. CloseAll({call.sid})
    BY <1>2 DEF HandlerEnds
  <2>2. QED  BY <1>1, <2>1, CloseAllStep
<1>3. CASE sessions[call.sid].owner # "cli"
  <2>1. sessions[call.sid].owner = "lab" /\ UNCHANGED <<sessions, store, sandboxes>>
    BY <1>1, <1>3, OwnersTyped DEF HandlerEnds
  <2>2. QED  BY <1>1, <2>1, LetGo
<1>4. QED  BY <1>2, <1>3

LEMMA RaiseStep ==
  ASSUME IInv, AttemptRaises
  PROVE  IInv'
<1>1. /\ call # Idle /\ call' = Idle /\ UNCHANGED <<asked, samples>> /\ samples \in Nat
  BY DEF AttemptRaises, InHand, IInv, TypeOK
<1>2. CASE sessions[call.sid].owner = "cli"
  <2>1. CloseAll({call.sid})
    BY <1>2 DEF AttemptRaises
  <2>2. QED  BY <1>1, <2>1, CloseAllStep
<1>3. CASE sessions[call.sid].owner # "cli" /\ call.op = "replay"
  <2>1. sessions' = CloseIn(sessions, {call.sid}) /\ UNCHANGED <<store, sandboxes>>
    BY <1>3 DEF AttemptRaises
  <2>2. QED  BY <1>1, <1>3, <2>1, LeftToNobody
<1>4. CASE sessions[call.sid].owner # "cli" /\ call.op # "replay"
  <2>1. sessions[call.sid].owner = "lab" /\ UNCHANGED <<sessions, store, sandboxes>>
    BY <1>1, <1>4, OwnersTyped DEF AttemptRaises
  <2>2. QED  BY <1>1, <1>4, <2>1, LetGo
<1>5. QED  BY <1>2, <1>3, <1>4

LEMMA OverrunStep ==
  ASSUME IInv, ReplayOverruns
  PROVE  IInv'
  BY LeftToNobody DEF ReplayOverruns, Replaying

LEMMA EndStep ==
  ASSUME IInv, Shutdown \/ Crash \/ \E s \in byId : LabClose(s)
  PROVE  IInv'
<1>1. CASE \E s \in byId : LabClose(s)
  <2>1. PICK s \in byId : LabClose(s)
    BY <1>1
  <2>2. samples' \in Nat /\ asked' \subseteq asked /\ call = Idle /\ call' = Idle /\ CloseAll({s})
    BY <2>1 DEF LabClose, IInv, TypeOK
  <2>3. QED  BY <2>2, CloseAllStep
<1>2. CASE Shutdown
  <2>1. PICK ids : ids = byId
    OBVIOUS
  <2>2. /\ samples' \in Nat /\ asked' \subseteq asked /\ call = Idle /\ call' = Idle /\ CloseAll(ids)
    BY <1>2, <2>1 DEF Shutdown, IInv, TypeOK
  <2>3. QED  BY <2>2, CloseAllStep
<1>3. CASE Crash
  <2>1. PICK all : all = Sids
    OBVIOUS
  <2>2. /\ sessions' = CloseIn(sessions, all) /\ byId' = {} /\ asked' = {} /\ call' = Idle
        /\ byPipeline' = [p \in Pipelines |-> None] /\ samples' = samples
    BY <1>3, <2>1 DEF Crash
  <2>3. /\ sessions' \in Seq(Opened \cup {Over}) /\ Sids' = Sids
        /\ \A s \in Sids : ~sessions'[s].open
        /\ Progress'
    BY <2>1, <2>2, Closing
  <2>4. TypeOK' /\ Stored' /\ Held'
    BY <2>2, <2>3
       DEF IInv, TypeOK, Stored, OneRehearsal, Keyed, Accounted, Held, None
  <2>5. QED  BY <2>3, <2>4 DEF IInv
<1>4. QED  BY <1>1, <1>2, <1>3

---------------------------------------------------------------------------
(* Sessions that begin.                                                     *)
LEMMA NewTyped ==
  ASSUME TypeOK, NEW v \in DOMAIN Books, NEW n \in Nat, NEW owner \in {"lab", "cli"}
  PROVE  /\ Session(v, n, owner) \in Opened
         /\ Session(v, n, owner).version = v /\ Session(v, n, owner).owner = owner
         /\ Session(v, n, owner).open
         /\ Len(Session(v, n, owner).tasks) = n
         /\ \A t \in DOMAIN Session(v, n, owner).tasks :
              /\ Session(v, n, owner).tasks[t].status = "pending"
              /\ StandsAtProgress(Session(v, n, owner).tasks[t], Len(Books[v].steps))
              /\ Session(v, n, owner).tasks[t].pointer <= Len(Books[v].steps)
<1>1. NewTask \in Tasks /\ NewTask.pointer = 0 /\ NewTask.status = "pending" /\ NewTask.states = <<>>
  BY DEF NewTask, Tasks, Paths, Statuses
<1>2. Len(Books[v].steps) \in Nat /\ Len(Books[v].steps) > 0
  BY LabAssumption
<1>3. StandsAtProgress(NewTask, Len(Books[v].steps))
  BY <1>1, <1>2 DEF StandsAtProgress
<1> DEFINE ts == [t \in 1..n |-> NewTask]
<1>4. ts \in Seq(Tasks) /\ Len(ts) = n /\ DOMAIN ts = 1..n /\ \A t \in 1..n : ts[t] = NewTask
  <2> HIDE DEF Tasks, NewTask
  <2> QED  BY <1>1
<1> HIDE DEF ts
<1>5. Session(v, n, owner) = [version |-> v, owner |-> owner, open |-> TRUE, tasks |-> ts]
  BY DEF Session, ts
<1>6. /\ Session(v, n, owner) \in Opened
      /\ Session(v, n, owner).version = v /\ Session(v, n, owner).owner = owner
      /\ Session(v, n, owner).open /\ Session(v, n, owner).tasks = ts
  <2> HIDE DEF Tasks
  <2> QED  BY <1>4, <1>5 DEF Opened
<1>7. QED  BY <1>1, <1>2, <1>3, <1>4, <1>6 DEF ts

(* One more session at the end, open or over.                               *)
LEMMA Added ==
  ASSUME IInv, NEW o \in Opened \cup {Over}
  PROVE  LET ss == Append(sessions, o)
         IN  /\ ss \in Seq(Opened \cup {Over}) /\ DOMAIN ss = Sids \cup {NewSid}
             /\ NewSid \notin Sids /\ NewSid \in Nat \ {0} /\ Sids \subseteq Nat \ {0}
             /\ ss[NewSid] = o /\ \A x \in Sids : ss[x] = sessions[x]
<1>1. sessions \in Seq(Opened \cup {Over})
  BY DEF IInv, TypeOK
<1> HIDE DEF Opened, Over
<1>2. QED  BY <1>1, Extended DEF NewSid, Sids

LEMMA ProgressIn ==
  ASSUME NEW D, Sids' = D,
         \A x \in D : \A u \in DOMAIN sessions'[x].tasks :
           /\ StandsAtProgress(Task(x, u)', Len(StepsOf(x)'))
           /\ Task(x, u)'.pointer <= Len(StepsOf(x)')
  PROVE  Progress'
  BY DEF Progress, PointerIsProgress, StandsAtProgress, Task

LEMMA AddedKeeps ==
  ASSUME IInv, NEW o \in Opened \cup {Over}, sessions' = Append(sessions, o),
         UNCHANGED store, sandboxes' = sandboxes \cup {NewSid},
         \A t \in DOMAIN o.tasks : /\ StandsAtProgress(o.tasks[t], Len(Books[o.version].steps))
                                  /\ o.tasks[t].pointer <= Len(Books[o.version].steps)
  PROVE  /\ sessions' \in Seq(Opened \cup {Over}) /\ Sids' = Sids \cup {NewSid}
         /\ OneRehearsal' /\ Keyed' /\ Progress'
         /\ byId' = byId /\ byId \subseteq Sids
         /\ \A x \in Sids : sessions'[x] = sessions[x] /\ PipelineOf(x)' = PipelineOf(x)
<1>1. PICK n : n = NewSid
  OBVIOUS
<1>2. /\ sessions' \in Seq(Opened \cup {Over}) /\ Sids' = Sids \cup {n}
      /\ n \notin Sids /\ sessions'[n] = o
      /\ \A x \in Sids : sessions'[x] = sessions[x] /\ PipelineOf(x)' = PipelineOf(x)
  <2>1. /\ sessions' \in Seq(Opened \cup {Over}) /\ DOMAIN sessions' = Sids \cup {n}
        /\ n \notin Sids /\ sessions'[n] = o
        /\ \A x \in Sids : sessions'[x] = sessions[x]
    BY <1>1, Added
  <2>2. QED  BY <2>1 DEF Sids, PipelineOf
<1>3. byId \subseteq Sids /\ \A p \in Pipelines : byPipeline[p] # None => byPipeline[p] \in Sids
  BY DEF IInv, TypeOK, Stored, OneRehearsal
<1>4. byId' = byId /\ byPipeline' = byPipeline
  BY DEF store
<1>5. OneRehearsal' /\ Keyed'
  <2>1. OneRehearsal'
    BY <1>2, <1>3, <1>4 DEF IInv, Stored, OneRehearsal, PipelineOf
  <2>2. Keyed'
    BY <1>2, <1>3, <1>4 DEF IInv, Stored, Keyed, PipelineOf
  <2>3. QED  BY <2>1, <2>2
<1>6. Progress'
  <2> SUFFICES ASSUME NEW x \in Sids \cup {n}, NEW u \in DOMAIN sessions'[x].tasks
      PROVE  /\ StandsAtProgress(Task(x, u)', Len(StepsOf(x)'))
             /\ Task(x, u)'.pointer <= Len(StepsOf(x)')
    BY <1>2, ProgressIn
  <2>1. CASE x \in Sids
    <3>1. Task(x, u)' = Task(x, u) /\ StepsOf(x)' = StepsOf(x) /\ u \in DOMAIN sessions[x].tasks
      BY <1>2, <2>1 DEF Task, StepsOf
    <3>2. QED  BY <2>1, <3>1 DEF IInv, Progress, PointerIsProgress
  <2>2. CASE x = n
    BY <1>2, <2>2 DEF Task, StepsOf
  <2>3. QED  BY <1>2, <2>1, <2>2
<1>7. QED  BY <1>1, <1>2, <1>3, <1>4, <1>5, <1>6

LEMMA NoSamplesStep ==
  ASSUME IInv, NoSamples, call = Idle, UNCHANGED <<call, store, samples>>, asked' \subseteq asked
  PROVE  IInv'
<1>1. Over \in Opened \cup {Over} /\ DOMAIN Over.tasks = {} /\ ~Over.open
  BY DEF Over
<1>2. /\ sessions' = Append(sessions, Over) /\ sandboxes' = sandboxes \cup {NewSid}
  BY DEF NoSamples
<1>3. /\ sessions' \in Seq(Opened \cup {Over}) /\ Sids' = Sids \cup {NewSid}
      /\ OneRehearsal' /\ Keyed' /\ Progress'
      /\ byId' = byId /\ byId \subseteq Sids
      /\ \A x \in Sids : sessions'[x] = sessions[x] /\ PipelineOf(x)' = PipelineOf(x)
  BY <1>1, <1>2, AddedKeeps
<1>4. sessions'[NewSid] = Over
  BY <1>1, <1>2, Added
<1>5. TypeOK'
  BY <1>3 DEF IInv, TypeOK, store
<1>6. Accounted'
  <2>1. PICK n : n = NewSid
    OBVIOUS
  <2>2. sessions'[n] = Over /\ Sids' = Sids \cup {n}
    BY <1>3, <1>4, <2>1
  <2>3. QED  BY <1>1, <1>3, <2>2 DEF IInv, Stored, Accounted
<1>7. QED  BY <1>3, <1>5, <1>6 DEF IInv, Stored, Held

(* put: the session s of the pipeline p, which is in no store yet, goes into *)
(* it, and what the pipeline had and a resume has left are closed.          *)
LEMMA PutStep ==
  ASSUME IInv, NEW ss \in Seq(Opened \cup {Over}), NEW s \in DOMAIN ss, DOMAIN ss = Sids \cup {s},
         s \notin byId, s \in Nat \ {0}, ss[s] \in Opened, ss[s].owner = "lab",
         \A x \in Sids \ {s} : ss[x] = sessions[x],
         \A x \in DOMAIN ss : \A t \in DOMAIN ss[x].tasks :
           /\ StandsAtProgress(ss[x].tasks[t], Len(Books[ss[x].version].steps))
           /\ ss[x].tasks[t].pointer <= Len(Books[ss[x].version].steps),
         NEW gone, \A g \in gone : g \in byId /\ PipelineOf(g) = Books[ss[s].version].pipeline,
         Put(s, ss, gone), call' = Idle, call # Idle => call.sid \in byId \cup {s},
         asked' \subseteq asked, samples' \in Nat
  PROVE  IInv'
<1> DEFINE p   == Books[ss[s].version].pipeline
           out == gone \cup ({byPipeline[p]} \ {None})
<1>1. /\ TypeOK /\ OneRehearsal /\ Keyed /\ Accounted /\ byId \subseteq Sids
      /\ Sids \subseteq Nat \ {0} /\ p \in Pipelines
  <2>1. TypeOK /\ OneRehearsal /\ Keyed /\ Accounted /\ byId \subseteq Sids
    BY DEF IInv, TypeOK, Stored
  <2>2. Sids \subseteq Nat \ {0}
    BY Added
  <2>3. ss[s].version \in DOMAIN Books
    BY DEF Opened
  <2>4. QED  BY <2>1, <2>2, <2>3, LabAssumption
<1>2. /\ byId' = (byId \ out) \cup {s} /\ byPipeline' = [byPipeline EXCEPT ![p] = s]
      /\ sessions' = CloseIn(ss, out) /\ sandboxes' = (sandboxes \cup {s}) \ out
  BY DEF Put
<1>3. out \subseteq byId /\ s \notin out /\ \A g \in out : PipelineOf(g) = p
  <2>1. byPipeline[p] # None => byPipeline[p] \in byId /\ PipelineOf(byPipeline[p]) = p
    BY <1>1 DEF OneRehearsal, Keyed
  <2>2. QED  BY <2>1
<1> HIDE DEF out
<1>4. /\ sessions' \in Seq(Opened \cup {Over}) /\ DOMAIN sessions' = DOMAIN ss
      /\ \A x \in DOMAIN ss : sessions'[x] = IF x \in out THEN Over ELSE ss[x]
  <2> HIDE DEF Opened, Over
  <2> QED  BY <1>2, Closed
<1>5. /\ Sids' = Sids \cup {s} /\ sessions'[s] = ss[s] /\ PipelineOf(s)' = p
      /\ \A x \in Sids \ (out \cup {s}) : sessions'[x] = sessions[x] /\ PipelineOf(x)' = PipelineOf(x)
      /\ \A x \in out : ~sessions'[x].open
  <2>1. ~Over.open
    BY DEF Over
  <2>2. QED  BY <1>1, <1>3, <1>4, <2>1 DEF Sids, PipelineOf
<1>6. /\ sessions'[s].open /\ sessions'[s].owner = "lab"
  BY <1>5 DEF Opened
<1>7. TypeOK'
  BY <1>1, <1>2, <1>4, <1>5 DEF TypeOK
<1>8. \A x \in byId \ out : x \in Sids \ (out \cup {s}) /\ PipelineOf(x) # p
  <2> SUFFICES ASSUME NEW x \in byId \ out, PipelineOf(x) = p PROVE FALSE
    BY <1>1
  <2>1. byPipeline[p] = x /\ x # None
    BY <1>1 DEF OneRehearsal, None
  <2>2. QED  BY <2>1 DEF out
<1>9. \A q \in Pipelines \ {p} : byPipeline[q] # None => byPipeline[q] \in byId \ out
  BY <1>1, <1>3 DEF OneRehearsal, Keyed
<1> HIDE DEF p
<1>10. OneRehearsal'
  <2>1. \A x \in byId' : /\ sessions'[x].open /\ x \in sandboxes'
                         /\ byPipeline'[PipelineOf(x)'] = x
    <3> SUFFICES ASSUME NEW x \in byId'
        PROVE  sessions'[x].open /\ x \in sandboxes' /\ byPipeline'[PipelineOf(x)'] = x
      OBVIOUS
    <3>1. CASE x = s
      BY <1>1, <1>2, <1>3, <1>5, <1>6, <3>1 DEF TypeOK
    <3>2. CASE x \in byId \ out
      <4>1. sessions[x].open /\ x \in sandboxes /\ byPipeline[PipelineOf(x)] = x
        BY <1>1, <3>2 DEF OneRehearsal
      <4>2. PipelineOf(x)' = PipelineOf(x) /\ sessions'[x] = sessions[x] /\ PipelineOf(x) # p
        BY <1>5, <1>8, <3>2
      <4>3. byPipeline'[PipelineOf(x)] = byPipeline[PipelineOf(x)]
        <5>1. PipelineOf(x) \in Pipelines
          BY <1>1, <3>2, <4>1, StepsTyped
        <5>2. QED  BY <1>1, <1>2, <4>2, <5>1 DEF TypeOK
      <4>4. QED  BY <1>2, <3>2, <4>1, <4>2, <4>3
    <3>3. QED  BY <1>2, <3>1, <3>2
  <2>2. \A q \in Pipelines : byPipeline'[q] # None => byPipeline'[q] \in byId'
    BY <1>1, <1>2, <1>9 DEF TypeOK
  <2>3. QED  BY <2>1, <2>2 DEF OneRehearsal, PipelineOf
<1>11. Keyed'
  <2>1. \A q \in Pipelines : byPipeline'[q] # None => Books[sessions'[byPipeline'[q]].version].pipeline = q
    <3> SUFFICES ASSUME NEW q \in Pipelines, byPipeline'[q] # None
        PROVE  Books[sessions'[byPipeline'[q]].version].pipeline = q
      OBVIOUS
    <3>1. CASE q = p
      <4>1. byPipeline'[q] = s
        BY <1>1, <1>2, <3>1 DEF TypeOK
      <4>2. QED  BY <1>5, <3>1, <4>1 DEF PipelineOf
    <3>2. CASE q # p
      <4>1. byPipeline'[q] = byPipeline[q]
        BY <1>1, <1>2, <3>2 DEF TypeOK
      <4>2. byPipeline[q] \in Sids \ (out \cup {s}) /\ PipelineOf(byPipeline[q]) = q
        BY <1>1, <1>8, <1>9, <3>2, <4>1 DEF Keyed
      <4>3. QED  BY <1>5, <4>1, <4>2 DEF PipelineOf
    <3>3. QED  BY <3>1, <3>2
  <2>2. QED  BY <2>1 DEF Keyed, PipelineOf
<1>12. Accounted'
  <2>1. ASSUME NEW x \in Sids \cup {s}, sessions'[x].open
        PROVE  x \in byId'
    <3>1. CASE x = s
      BY <1>2, <3>1
    <3>2. CASE x # s
      <4>1. x \in Sids \ (out \cup {s}) /\ sessions[x].open
        BY <1>5, <2>1, <3>2
      <4>2. x \in byId
        BY <1>1, <3>2, <4>1 DEF Accounted
      <4>3. QED  BY <1>2, <4>1, <4>2
    <3>3. QED  BY <3>1, <3>2
  <2>2. \A x \in byId' : sessions'[x].owner = "lab"
    <3>1. \A x \in byId \ out : sessions'[x] = sessions[x]
      BY <1>5, <1>8
    <3>2. QED  BY <1>1, <1>2, <1>6, <3>1 DEF Accounted
  <2>3. QED  BY <1>5, <2>1, <2>2 DEF Accounted
<1>13. Progress'
  <2> SUFFICES ASSUME NEW x \in Sids \cup {s}, NEW u \in DOMAIN sessions'[x].tasks
      PROVE  /\ StandsAtProgress(Task(x, u)', Len(StepsOf(x)'))
             /\ Task(x, u)'.pointer <= Len(StepsOf(x)')
    BY <1>5 DEF Progress, PointerIsProgress, StandsAtProgress, Task
  <2>1. DOMAIN Over.tasks = {}
    BY DEF Over
  <2>2. sessions'[x] = ss[x]
    BY <1>4, <2>1
  <2>3. QED  BY <2>2 DEF Task, StepsOf
<1>14. QED  BY <1>7, <1>10, <1>11, <1>12, <1>13 DEF IInv, Stored, Held

LEMMA MinTyped ==
  ASSUME NEW a \in Nat, NEW b \in Nat
  PROVE  Min(a, b) \in Nat /\ Min(a, b) <= a /\ Min(a, b) <= b /\ (a > 0 /\ b > 0 => Min(a, b) > 0)
  BY DEF Min

LEMMA CreateStep ==
  ASSUME IInv, NEW v \in DOMAIN Books, LabCreate(v)
  PROVE  IInv'
<1>1. /\ call = Idle /\ call' = Idle /\ UNCHANGED <<asked, samples>> /\ samples \in Nat /\ TypeOK
      /\ MaxSamples \in Nat
  BY LabAssumption DEF LabCreate, Ready, IInv, TypeOK
<1>2. CASE NoSamples /\ UNCHANGED store
  BY <1>1, <1>2, NoSamplesStep
<1>3. CASE samples > 0 /\ Put(NewSid, Append(sessions, Session(v, Min(samples, MaxSamples), "lab")), {})
  <2>n. PICK n \in Nat : n = Min(samples, MaxSamples)
    BY <1>1, MinTyped
  <2> DEFINE o  == Session(v, n, "lab")
             ss == Append(sessions, o)
  <2>1. /\ o \in Opened /\ o.version = v /\ o.owner = "lab" /\ o.open
        /\ \A t \in DOMAIN o.tasks : /\ StandsAtProgress(o.tasks[t], Len(Books[v].steps))
                                     /\ o.tasks[t].pointer <= Len(Books[v].steps)
    BY ONLY <1>1, v \in DOMAIN Books, n \in Nat, NewTyped
  <2> HIDE DEF o
  <2>2. PICK s : s = NewSid
    OBVIOUS
  <2>3. /\ ss \in Seq(Opened \cup {Over}) /\ DOMAIN ss = Sids \cup {s}
        /\ s \notin Sids /\ s \in Nat \ {0} /\ ss[s] = o
        /\ \A x \in Sids : ss[x] = sessions[x]
    BY <2>1, <2>2, Added
  <2>4. Put(s, ss, {})
    BY <1>3, <2>n, <2>2 DEF o
  <2> HIDE DEF ss
  <2>5. \A x \in DOMAIN ss : \A t \in DOMAIN ss[x].tasks :
          /\ StandsAtProgress(ss[x].tasks[t], Len(Books[ss[x].version].steps))
          /\ ss[x].tasks[t].pointer <= Len(Books[ss[x].version].steps)
    <3>1. \A x \in Sids : \A t \in DOMAIN ss[x].tasks :
            /\ StandsAtProgress(ss[x].tasks[t], Len(Books[ss[x].version].steps))
            /\ ss[x].tasks[t].pointer <= Len(Books[ss[x].version].steps)
      BY <2>3 DEF IInv, Progress, PointerIsProgress, Task, StepsOf
    <3>2. QED  BY <2>1, <2>3, <3>1
  <2>6. s \notin byId /\ \A x \in Sids \ {s} : ss[x] = sessions[x]
    BY <1>1, <2>3 DEF TypeOK
  <2>7. QED  BY <1>1, <2>1, <2>3, <2>4, <2>5, <2>6, PutStep
<1>4. QED  BY <1>2, <1>3 DEF LabCreate

(* What a new session in the hands of the handler that has made it leaves.  *)
LEMMA InHandsStep ==
  ASSUME IInv, call = Idle, NEW v \in DOMAIN Books, NEW n \in Nat, NEW owner \in {"lab", "cli"},
         sessions' = Append(sessions, Session(v, n, owner)), sandboxes' = sandboxes \cup {NewSid},
         UNCHANGED <<store, samples>>, asked' \subseteq asked,
         IsCall(call'), call'.sid = NewSid, call'.last <= n, call'.at = "task",
         \/ call'.op = "run" /\ owner = "cli"
         \/ call'.op = "replay" /\ owner = "lab" /\ call'.old \in byId /\ PipelineOf(call'.old) = Books[v].pipeline
  PROVE  IInv'
<1> DEFINE o == Session(v, n, owner)
<1>1. /\ o \in Opened /\ o.version = v /\ o.owner = owner /\ o.open /\ Len(o.tasks) = n
      /\ \A t \in DOMAIN o.tasks : /\ StandsAtProgress(o.tasks[t], Len(Books[v].steps))
                                   /\ o.tasks[t].pointer <= Len(Books[v].steps)
                                   /\ o.tasks[t].status = "pending"
  <2>1. TypeOK
    BY DEF IInv
  <2>2. QED  BY ONLY <2>1, v \in DOMAIN Books, n \in Nat, owner \in {"lab", "cli"}, NewTyped
<1> HIDE DEF o
<1>2. PICK s : s = NewSid
  OBVIOUS
<1>3. /\ sessions' \in Seq(Opened \cup {Over}) /\ Sids' = Sids \cup {s}
      /\ OneRehearsal' /\ Keyed' /\ Progress'
      /\ byId' = byId /\ byId \subseteq Sids
      /\ \A x \in Sids : sessions'[x] = sessions[x] /\ PipelineOf(x)' = PipelineOf(x)
  BY <1>1, <1>2, AddedKeeps DEF o
<1>4. sessions'[s] = o /\ s \notin Sids
  BY <1>1, <1>2, Added DEF o
<1>5. call' # Idle /\ call'.sid = s
  BY <1>2, CallsDiffer
<1>6. TypeOK'
  BY <1>3 DEF IInv, TypeOK, store
<1>7. Accounted'
  BY <1>3, <1>4, <1>5 DEF IInv, Stored, Accounted
<1>8. Held'
  <2>1. call'.op = "replay" => Fresh' /\ PipelineOf(call.sid)' = PipelineOf(call.old)'
    <3>1. Fresh'
      BY <1>1, <1>4, <1>5 DEF Fresh, Task
    <3>2. PipelineOf(call.sid)' = Books[v].pipeline
      BY <1>1, <1>4, <1>5 DEF PipelineOf
    <3>3. ASSUME call'.op = "replay" PROVE PipelineOf(call.old)' = Books[v].pipeline
      <4>1. PICK old \in Sids : old = call'.old /\ PipelineOf(old) = Books[v].pipeline
        BY <1>3, <3>3
      <4>2. QED  BY <1>3, <4>1 DEF PipelineOf
    <3>4. QED  BY <3>1, <3>2, <3>3
  <2>2. s \in sandboxes' /\ s \notin byId'
    BY <1>2, <1>3, <1>4
  <2>3. QED
    BY <1>1, <1>3, <1>4, <1>5, <2>1, <2>2 DEF Held
<1>9. QED  BY <1>3, <1>6, <1>7, <1>8 DEF IInv, Stored

LEMMA DryRunStep ==
  ASSUME IInv, NEW v \in DOMAIN Books, DryRun(v)
  PROVE  IInv'
<1>1. /\ call = Idle /\ UNCHANGED <<store, asked, samples>> /\ samples \in Nat /\ MaxSamples \in Nat
  BY LabAssumption DEF DryRun, Ready, IInv, TypeOK
<1>2. CASE NoSamples /\ UNCHANGED call
  BY <1>1, <1>2, NoSamplesStep
<1>3. CASE ~(NoSamples /\ UNCHANGED call)
  <2>1. PICK n \in Nat : n = Min(samples, MaxSamples)
    BY <1>1, MinTyped
  <2>2. /\ sessions' = Append(sessions, Session(v, n, "cli")) /\ sandboxes' = sandboxes \cup {NewSid}
        /\ call' = Call("run", NewSid, 1, n)
    BY <1>3, <2>1 DEF DryRun
  <2>3. PICK s \in Nat : s = NewSid
    BY Added
  <2>4. /\ IsCall(call') /\ call'.op = "run" /\ call'.sid = s /\ call'.last = n /\ call'.at = "task"
    BY <2>2, <2>3, CallRuns
  <2>5. QED  BY <1>1, <2>2, <2>3, <2>4, InHandsStep
<1>4. QED  BY <1>2, <1>3

LEMMA ResumeStep ==
  ASSUME IInv, NEW s \in asked, NEW v \in DOMAIN Books, Resume(s, v)
  PROVE  IInv'
<1>1. /\ call = Idle /\ UNCHANGED <<store, samples>> /\ samples \in Nat /\ asked' \subseteq asked
      /\ s \in Sids /\ sessions[s].open /\ s \in byId /\ Books[v].pipeline = PipelineOf(s)
  BY DEF Resume, Ready, IInv, TypeOK, Stored, Accounted
<1>2. CASE NoSamples /\ UNCHANGED call
  BY <1>1, <1>2, NoSamplesStep
<1>3. CASE ~(NoSamples /\ UNCHANGED call)
  <2>1. PICK n \in Nat : n = Min(samples, Len(sessions[s].tasks))
    BY <1>1, InStore, MinTyped
  <2>2. PICK new \in Nat : new = NewSid
    BY Added
  <2>3. PICK point : point = ResumePoint(s)
    OBVIOUS
  <2> DEFINE c == Call("replay", new, 1, n)
             d == [c EXCEPT !.old = s]
  <2>4. /\ sessions' = Append(sessions, Session(v, n, "lab")) /\ sandboxes' = sandboxes \cup {NewSid}
        /\ call' = [c EXCEPT !.old = s, !.point = point]
    BY <1>3, <2>1, <2>2, <2>3 DEF Resume
  <2>5. IsCall(c) /\ c.op = "replay" /\ c.sid = new /\ c.last = n /\ c.at = "task"
    BY CallRuns
  <2> HIDE DEF c
  <2>6. call' = [d EXCEPT !.point = point]
    BY <2>4
  <2>7. IsCall(d) /\ d.op = "replay" /\ d.sid = new /\ d.last = n /\ d.at = "task" /\ d.old = s
    BY <2>5 DEF IsCall
  <2> HIDE DEF d
  <2>8. /\ IsCall(call') /\ call'.op = "replay" /\ call'.sid = new /\ call'.last = n
        /\ call'.at = "task" /\ call'.old = s
    BY <2>6, <2>7 DEF IsCall
  <2>9. call'.sid = NewSid /\ call'.last <= n
    BY <2>2, <2>8
  <2>10. call'.old \in byId /\ PipelineOf(call'.old) = Books[v].pipeline
    BY <1>1, <2>8
  <2>11. QED  BY <1>1, <2>4, <2>8, <2>9, <2>10, InHandsStep
<1>4. QED  BY <1>2, <1>3

LEMMA ResumedStep ==
  ASSUME IInv, Resumed
  PROVE  IInv'
<1>1. /\ call # Idle /\ call.op = "replay" /\ call' = Idle /\ UNCHANGED <<asked, samples>>
      /\ samples \in Nat /\ Put(call.sid, sessions, {call.old})
  BY DEF Resumed, Replaying, IInv, TypeOK, Held
<1>2. PICK s \in Sids : s = call.sid
  BY <1>1, AtWork
<1>3. PICK old \in byId : old = call.old /\ PipelineOf(old) = PipelineOf(s)
  BY <1>1, <1>2 DEF IInv, Held
<1>4. s \notin byId /\ sessions[s].open /\ sessions[s].owner = "lab"
  BY <1>1, <1>2 DEF IInv, Held
<1>5. /\ sessions \in Seq(Opened \cup {Over}) /\ sessions[s] \in Opened /\ DOMAIN sessions = Sids
      /\ s \in Nat \ {0}
  BY <1>4, OpenOrOver, Added DEF IInv, TypeOK, Sids
<1>6. Put(s, sessions, {old})
  BY <1>1, <1>2, <1>3
<1>7. \A x \in DOMAIN sessions : \A t \in DOMAIN sessions[x].tasks :
        /\ StandsAtProgress(sessions[x].tasks[t], Len(Books[sessions[x].version].steps))
        /\ sessions[x].tasks[t].pointer <= Len(Books[sessions[x].version].steps)
  BY <1>5 DEF IInv, Progress, PointerIsProgress, Task, StepsOf
<1>8. \A g \in {old} : g \in byId /\ PipelineOf(g) = Books[sessions[s].version].pipeline
  BY <1>3 DEF PipelineOf
<1>9. DOMAIN sessions = Sids \cup {s} /\ \A x \in Sids \ {s} : sessions[x] = sessions[x]
  BY <1>5
<1>10. QED  BY <1>1, <1>2, <1>4, <1>5, <1>6, <1>7, <1>8, <1>9, PutStep

(* The steps that change no session.                                        *)
LEMMA AsideStep ==
  ASSUME IInv,
         \/ \E s \in byId : LabResume(s)
         \/ \E s \in asked : ResumeRefused(s)
         \/ \E n \in 0..MaxSamples : ChangeSamples(n)
         \/ UNCHANGED vars
  PROVE  IInv'
<1>1. UNCHANGED <<sessions, store, sandboxes, call>> /\ asked' \subseteq asked \cup byId /\ samples' \in Nat
  BY LabAssumption DEF LabResume, ResumeRefused, ChangeSamples, vars, IInv, TypeOK
<1>2. OneRehearsal' /\ Keyed' /\ Progress' /\ SameSessions
  BY <1>1, RestKeeps
<1>3. TypeOK' /\ Accounted'
  BY <1>1, <1>2 DEF IInv, TypeOK, Stored, Accounted, SameSessions, store
<1>4. Held'
  BY <1>1 DEF IInv, Held, Tryable, Fresh, Here, Branches, Task, StepsOf, PipelineOf, Sids, store
<1>5. QED  BY <1>2, <1>3, <1>4 DEF IInv, Stored

LEMMA Inductive ==
  ASSUME IInv, [Next]_vars
  PROVE  IInv'
<1>1. CASE \E v \in DOMAIN Books : LabCreate(v) \/ DryRun(v)
  BY <1>1, CreateStep, DryRunStep
<1>2. CASE \E s \in byId : \E t \in DOMAIN sessions[s].tasks :
             RunNextStep(s, t) \/ RetryStep(s, t) \/ RunBranches(s, t) \/ RunToEnd(s, t)
  BY <1>2, AttemptBegins, RunBegins
<1>3. CASE \E s \in byId : RunAll(s)
  <2>1. PICK s \in byId : RunAll(s)
    BY <1>3
  <2>2. 1 \in DOMAIN sessions[s].tasks
    BY <2>1 DEF RunAll, Handler
  <2>3. QED  BY <2>1, <2>2, RunBegins
<1>4. CASE \E s \in asked : \E v \in DOMAIN Books : Resume(s, v)
  BY <1>4, ResumeStep
<1>5. CASE TakeTask \/ HandlerEnds \/ ReplayNext \/ ReplayOverruns \/ Resumed
  BY <1>5, TakeStep, HandlerEndsStep, ReplayStep, OverrunStep, ResumedStep
<1>6. CASE \/ \E r \in Results : AttemptPasses(r) \/ AttemptFails(r)
           \/ AttemptSkips \/ AttemptRaises
  BY <1>6, PassStep, FailStep, SkipStep, RaiseStep
<1>7. CASE Shutdown \/ Crash \/ \E s \in byId : LabClose(s)
  BY <1>7, EndStep
<1>8. CASE \/ \E s \in byId : LabResume(s)
           \/ \E s \in asked : ResumeRefused(s)
           \/ \E n \in 0..MaxSamples : ChangeSamples(n)
           \/ UNCHANGED vars
  BY <1>8, AsideStep
<1>9. QED
  BY <1>1, <1>2, <1>3, <1>4, <1>5, <1>6, <1>7, <1>8 DEF Next, Work

LEMMA InitSound == Init => IInv
<1> SUFFICES ASSUME Init PROVE IInv
  OBVIOUS
<1>1. TypeOK
  BY LabAssumption DEF Init, TypeOK, Sids, None
<1>2. Stored /\ Held /\ Progress
  BY DEF Init, Stored, OneRehearsal, Keyed, Accounted, Held, Progress, PointerIsProgress, Sids, None
<1>3. QED  BY <1>1, <1>2 DEF IInv

---------------------------------------------------------------------------
(* A pipeline has one rehearsal at most, open and with its sandbox, however *)
(* many samples, versions and sessions there are and whatever a resume      *)
(* looked up before its form came (LabSessionStore).                        *)
THEOREM StoreKeepsOne == Spec => []OneRehearsal
<1>1. IInv => OneRehearsal
  BY DEF IInv, Stored
<1>2. QED  BY <1>1, InitSound, Inductive, PTL DEF Spec

(* In every task of every session the pointer stands after the steps that   *)
(* have passed, for every playbook and every sequence of next, retry,       *)
(* branches, run to end and resume.                                         *)
THEOREM PointersTellProgress == Spec => []PointerIsProgress
<1>1. IInv => PointerIsProgress
  BY DEF IInv, Progress
<1>2. QED  BY <1>1, InitSound, Inductive, PTL DEF Spec

---------------------------------------------------------------------------
(* The artifacts.  A step's output is in the step's own directory or in     *)
(* that of one of its branches; an attempt at a later step writes to        *)
(* another path, unless both fall back on a branch of one name.             *)
BranchDirs(steps, i) == {<<"branch", steps[i].branches[b].name>> : b \in DOMAIN steps[i].branches}
Kept(k, steps) ==
  \A i \in DOMAIN k.states :
    LET e == k.states[i]
    IN  /\ e.output \in {NoPath, <<"step", i>>} \cup BranchDirs(steps, i)
        /\ e.status \notin Passed => e.output = NoPath
        /\ e.kept \/ \E j \in i + 1..Len(steps) : e.output \in BranchDirs(steps, j)
Fed(k) ==
  /\ k.input # Sample => \E i \in Feeds(k) : k.input = k.states[i].output
  /\ k.input = Sample => Feeds(k) = {}
Artifacts ==
  \A s \in Sids : \A t \in DOMAIN sessions[s].tasks :
    Kept(Task(s, t), StepsOf(s)) /\ Fed(Task(s, t))

(* The rungs a run has tried at its step, and the one it is at.             *)
Rungs == [group : Nat, attempt : Nat, result : {"ok", "pass", "fail", "torn", "skip", "raise"}]
Follows(pol, a, g, n) ==
  /\ a.result \in {"fail", "torn"}
  /\ \/ g = a.group /\ n = a.attempt + 1
     \/ g = a.group + 1 /\ n = 1 /\ a.attempt = More(pol, a.group) + 1
Chain(pol, s) ==
  /\ s # <<>> => s[1].group = 0 /\ s[1].attempt = 1
  /\ \A i \in 1..Len(s) - 1 : Follows(pol, s[i], s[i + 1].group, s[i + 1].attempt)
Policy == StepsOf(call.sid)[Here.pointer + 1]
Climbs ==
  call # Idle /\ call.op = "run" /\ call.at = "attempt" =>
    /\ tried \in Seq(Rungs) /\ Chain(Policy, tried)
    /\ call.attempt \in 1..More(Policy, call.group) + 1
    /\ tried = <<>> => call.group = 0 /\ call.attempt = 1
    /\ tried # <<>> => Follows(Policy, tried[Len(tried)], call.group, call.attempt)

---------------------------------------------------------------------------
(* What an attempt does to the artifacts of a task.                         *)
LEMMA WrittenStates ==
  ASSUME NEW k \in Tasks, NEW r
  PROVE  LET ss == Written(k, r).states
         IN  /\ DOMAIN ss = DOMAIN k.states
             /\ \A i \in DOMAIN ss :
                  /\ ss[i].output = k.states[i].output /\ ss[i].status = k.states[i].status
                  /\ \/ ss[i] = k.states[i]
                     \/ ss[i].output = StepDir(k.pointer + 1, call.group)
<1> DEFINE path == StepDir(k.pointer + 1, call.group)
           ss   == Overwritten(k.states, path)
<1>1. k.states \in Seq(Entries)
  BY DEF Tasks
<1>2. \A e \in Entries : /\ [e EXCEPT !.kept = FALSE].output = e.output
                         /\ [e EXCEPT !.kept = FALSE].status = e.status
  <2> HIDE DEF Paths
  <2> QED  BY DEF Entries
<1> HIDE DEF path
<1>3. /\ DOMAIN ss = DOMAIN k.states
      /\ \A i \in DOMAIN k.states :
           /\ ss[i].output = k.states[i].output /\ ss[i].status = k.states[i].status
           /\ ss[i] = k.states[i] \/ ss[i].output = path
  <2> HIDE DEF Entries
  <2>1. \A i \in DOMAIN k.states : k.states[i] \in Entries
    BY <1>1
  <2>2. QED  BY <1>2, <2>1 DEF Overwritten
<1>4. [k EXCEPT !.states = ss].states = ss
  <2> HIDE DEF ss, Entries
  <2> QED  BY DEF Tasks
<1>5. Written(k, r).states = ss \/ Written(k, r).states = k.states
  BY <1>4 DEF Written, path
<1> HIDE DEF ss
<1>6. QED  BY <1>3, <1>5 DEF path

(* The directory an attempt at step i writes to is that of a branch of it,  *)
(* or the step's own, which no earlier step has.                            *)
LEMMA DirOfAttempt ==
  ASSUME NEW i \in Nat, NEW steps, Branches = steps[i].branches,
         DOMAIN Branches = 1..Len(Branches), Len(Branches) \in Nat,
         call.group \in 0..Len(Branches)
  PROVE  StepDir(i, call.group) \in {<<"step", i>>} \cup BranchDirs(steps, i)
<1>1. CASE call.group = 0
  BY <1>1 DEF StepDir
<1>2. CASE call.group # 0
  <2>1. call.group \in DOMAIN Branches
    BY <1>2
  <2>2. StepDir(i, call.group) = <<"branch", Branches[call.group].name>>
    BY <1>2 DEF StepDir
  <2>3. QED  BY <2>1, <2>2 DEF BranchDirs
<1>3. QED  BY <1>1, <1>2

(* What the next attempt reads depends on the outputs of what has passed.  *)
LEMMA FeedsAgree ==
  ASSUME NEW k, NEW m, NEW p \in Nat, k.pointer = p, m.pointer = p,
         \A i \in 1..p : m.states[i].output = k.states[i].output
  PROVE  Feeds(m) = Feeds(k)
<1>1. \A i \in 1..p : \A j \in i + 1..p : j \in 1..p
  OBVIOUS
<1>2. ASSUME NEW i \in 1..p PROVE i \in Feeds(m) <=> i \in Feeds(k)
  <2>1. \A j \in i + 1..p : m.states[j].output = k.states[j].output
    BY <1>1
  <2>2. QED  BY <2>1 DEF Feeds
<1>3. Feeds(m) \subseteq 1..p /\ Feeds(k) \subseteq 1..p
  BY DEF Feeds
<1>4. QED  BY <1>2, <1>3

LEMMA WrittenSpares ==
  ASSUME NEW k \in Tasks, NEW steps, Len(steps) \in Nat, NEW r,
         StandsAtProgress(k, Len(steps)), k.pointer < Len(steps),
         Branches = steps[k.pointer + 1].branches,
         DOMAIN Branches = 1..Len(Branches), Len(Branches) \in Nat,
         call.group \in 0..Len(Branches), Kept(k, steps), Fed(k)
  PROVE  Kept(Written(k, r), steps) /\ Fed(Written(k, r))
<1> DEFINE m == Written(k, r)
           n == k.pointer + 1
<1>1. /\ m.pointer = k.pointer /\ m.input = k.input /\ k.pointer \in Nat
  BY WrittenKeeps DEF Tasks
<1>2. /\ DOMAIN m.states = DOMAIN k.states
      /\ \A i \in DOMAIN m.states :
           /\ m.states[i].output = k.states[i].output /\ m.states[i].status = k.states[i].status
           /\ m.states[i] = k.states[i] \/ m.states[i].output = StepDir(n, call.group)
  BY WrittenStates
<1>3. StepDir(n, call.group) \in {<<"step", n>>} \cup BranchDirs(steps, n)
  BY <1>1, DirOfAttempt
<1>4. /\ DOMAIN k.states = 1..Len(k.states) /\ Len(k.states) \in {k.pointer, n}
      /\ Len(k.states) > k.pointer => k.states[n].status \notin Passed
  <2>1. k.states \in Seq(Entries)
    BY DEF Tasks
  <2>2. DOMAIN k.states = 1..Len(k.states)
    <3> HIDE DEF Entries
    <3> QED  BY <2>1
  <2>3. QED  BY <2>2 DEF StandsAtProgress, Passed
<1> HIDE DEF m
<1>5. Kept(m, steps)
  <2> SUFFICES ASSUME NEW i \in DOMAIN k.states
      PROVE  LET e == m.states[i]
             IN  /\ e.output \in {NoPath, <<"step", i>>} \cup BranchDirs(steps, i)
                 /\ e.status \notin Passed => e.output = NoPath
                 /\ e.kept \/ \E j \in i + 1..Len(steps) : e.output \in BranchDirs(steps, j)
    BY <1>2 DEF Kept
  <2>1. CASE m.states[i] = k.states[i]
    BY <2>1 DEF Kept
  <2>2. CASE m.states[i].output = StepDir(n, call.group)
    <3>1. /\ m.states[i].output \in {NoPath, <<"step", i>>} \cup BranchDirs(steps, i)
          /\ m.states[i].status \notin Passed => m.states[i].output = NoPath
      BY <1>2 DEF Kept
    <3>2. i \in 1..k.pointer
      <4> SUFFICES ASSUME i \notin 1..k.pointer PROVE FALSE
        OBVIOUS
      <4>1. i = n /\ k.states[n].status \notin Passed
        BY <1>1, <1>4
      <4>2. m.states[i].output = NoPath
        BY <1>2, <3>1, <4>1
      <4>3. <<"step", n>> # NoPath /\ \A b : <<"branch", b>> # NoPath
        BY DEF NoPath
      <4>4. QED  BY <1>3, <2>2, <4>2, <4>3 DEF BranchDirs
    <3>3. StepDir(n, call.group) # <<"step", n>>
      <4>1. \A b : <<"branch", b>> # <<"step", n>>
        OBVIOUS
      <4>2. <<"step", i>> # <<"step", n>> /\ NoPath # <<"step", n>>
        BY <1>1, <3>2 DEF NoPath
      <4>3. QED  BY <2>2, <3>1, <4>1, <4>2 DEF BranchDirs
    <3>4. n \in i + 1..Len(steps) /\ m.states[i].output \in BranchDirs(steps, n)
      BY <1>1, <1>3, <2>2, <3>2, <3>3
    <3>5. QED  BY <3>1, <3>4
  <2>3. QED  BY <1>2, <2>1, <2>2
<1>6. Fed(m)
  <2>1. 1..k.pointer \subseteq DOMAIN k.states
    BY <1>1, <1>4
  <2>2. Feeds(m) = Feeds(k)
    BY <1>1, <1>2, <2>1, FeedsAgree
  <2>3. Feeds(k) \subseteq DOMAIN k.states
    BY <2>1 DEF Feeds
  <2>4. QED  BY <1>1, <1>2, <2>2, <2>3 DEF Fed
<1>7. QED  BY <1>5, <1>6 DEF m

(* A failure recorded at the step has no output.                            *)
LEMMA StoppedSpares ==
  ASSUME NEW k \in Tasks, NEW n \in Nat, StandsAtProgress(k, n), NEW steps,
         Kept(k, steps), Fed(k), NEW e \in Entries, e.output = NoPath, e.kept,
         NEW m, m.pointer = k.pointer, m.input = k.input, m.states = AppendStepState(k, e)
  PROVE  Kept(m, steps) /\ Fed(m)
<1>1. /\ Len(m.states) = k.pointer + 1 /\ m.states[k.pointer + 1] = e
      /\ \A i \in 1..k.pointer : m.states[i] = k.states[i]
      /\ m.states \in Seq(Entries) /\ k.states \in Seq(Entries) /\ k.pointer \in Nat
  BY Recorded DEF Tasks
<1>2. DOMAIN m.states = 1..k.pointer + 1 /\ 1..k.pointer \subseteq DOMAIN k.states
  <2> HIDE DEF Entries
  <2>1. DOMAIN m.states = 1..k.pointer + 1
    BY <1>1
  <2>2. DOMAIN k.states = 1..Len(k.states) /\ Len(k.states) >= k.pointer
    BY <1>1 DEF StandsAtProgress
  <2>3. QED  BY <1>1, <2>1, <2>2
<1>3. Kept(m, steps)
  BY <1>1, <1>2 DEF Kept
<1>4. Fed(m)
  <2>1. Feeds(m) = Feeds(k)
    BY <1>1, FeedsAgree
  <2>2. Feeds(k) \subseteq 1..k.pointer
    BY DEF Feeds
  <2>3. QED  BY <1>1, <2>1, <2>2 DEF Fed
<1>5. QED  BY <1>3, <1>4

(* The output of the step that passes is what the next attempt reads.       *)
LEMMA PassedSpares ==
  ASSUME NEW k \in Tasks, NEW n \in Nat, StandsAtProgress(k, n), NEW steps,
         Kept(k, steps), Fed(k), NEW e \in Entries, e.status \in Passed, e.kept,
         e.output \in {NoPath, <<"step", k.pointer + 1>>} \cup BranchDirs(steps, k.pointer + 1),
         NEW m, m.pointer = k.pointer + 1, m.states = AppendStepState(k, e),
         m.input = IF e.output = NoPath THEN k.input ELSE e.output
  PROVE  Kept(m, steps) /\ Fed(m)
<1>1. /\ Len(m.states) = k.pointer + 1 /\ m.states[k.pointer + 1] = e
      /\ \A i \in 1..k.pointer : m.states[i] = k.states[i]
      /\ m.states \in Seq(Entries) /\ k.states \in Seq(Entries) /\ k.pointer \in Nat
  BY Recorded DEF Tasks
<1>2. DOMAIN m.states = 1..k.pointer + 1 /\ 1..k.pointer \subseteq DOMAIN k.states
  <2> HIDE DEF Entries
  <2>1. DOMAIN m.states = 1..k.pointer + 1
    BY <1>1
  <2>2. DOMAIN k.states = 1..Len(k.states) /\ Len(k.states) >= k.pointer
    BY <1>1 DEF StandsAtProgress
  <2>3. QED  BY <1>1, <2>1, <2>2
<1>3. Kept(m, steps)
  BY <1>1, <1>2 DEF Kept
<1>4. Feeds(m) = IF e.output = NoPath THEN Feeds(k) ELSE {k.pointer + 1}
  <2>1. 1..m.pointer = 1..k.pointer \cup {k.pointer + 1}
    BY <1>1
  <2>2. \A i \in 1..k.pointer : /\ k.pointer + 1 \in i + 1..m.pointer
                                /\ i + 1..m.pointer = (i + 1..k.pointer) \cup {k.pointer + 1}
    BY <1>1
  <2>3. k.pointer + 1 + 1..m.pointer = {}
    BY <1>1
  <2>4. \A i \in 1..k.pointer : \A j \in i + 1..k.pointer : j \in 1..k.pointer
    BY <1>1
  <2>5. ASSUME NEW i \in 1..k.pointer
        PROVE  i \in Feeds(m) <=> i \in Feeds(k) /\ e.output = NoPath
    <3>1. \A j \in i + 1..k.pointer : m.states[j].output = k.states[j].output
      BY <1>1, <2>4
    <3>2. (\A j \in i + 1..m.pointer : m.states[j].output = NoPath)
            <=> (\A j \in i + 1..k.pointer : k.states[j].output = NoPath) /\ e.output = NoPath
      <4>1. i + 1..m.pointer = (i + 1..k.pointer) \cup {k.pointer + 1}
        BY <2>2
      <4>2. m.states[k.pointer + 1].output = e.output
        BY <1>1
      <4>3. QED  BY <3>1, <4>1, <4>2
    <3>3. i \in 1..m.pointer /\ m.states[i] = k.states[i]
      BY <1>1, <2>1
    <3>4. QED  BY <3>2, <3>3 DEF Feeds
  <2>6. k.pointer + 1 \in Feeds(m) <=> e.output # NoPath
    BY <1>1, <2>1, <2>3 DEF Feeds
  <2>7. Feeds(m) \subseteq 1..m.pointer /\ Feeds(k) \subseteq 1..k.pointer
    BY DEF Feeds
  <2>8. QED  BY <2>1, <2>5, <2>6, <2>7
<1>5. Fed(m)
  <2>1. CASE e.output = NoPath
    <3>1. Feeds(k) \subseteq 1..k.pointer
      BY DEF Feeds
    <3>2. QED  BY <1>1, <1>4, <2>1, <3>1 DEF Fed
  <2>2. CASE e.output # NoPath
    <3>1. \A b : <<"branch", b>> # Sample /\ <<"step", k.pointer + 1>> # Sample
      BY DEF Sample
    <3>2. m.input # Sample
      BY <2>2, <3>1 DEF BranchDirs
    <3>3. QED  BY <1>1, <1>4, <2>2, <3>2 DEF Fed
  <2>3. QED  BY <2>1, <2>2
<1>6. QED  BY <1>3, <1>5
---------------------------------------------------------------------------
(* The steps of the sessions.                                               *)
LEMMA ArtifactsIn ==
  ASSUME NEW D, Sids' = D,
         \A x \in D : \A u \in DOMAIN sessions'[x].tasks :
           Kept(Task(x, u)', StepsOf(x)') /\ Fed(Task(x, u)')
  PROVE  Artifacts'
  BY DEF Artifacts, Kept, Fed, Feeds, BranchDirs, Task

(* What is over or has not changed keeps its artifacts.                     *)
LEMMA OthersSpare ==
  ASSUME Artifacts, NEW x, DOMAIN sessions'[x].tasks # {} => x \in Sids /\ sessions'[x] = sessions[x]
  PROVE  \A u \in DOMAIN sessions'[x].tasks : Kept(Task(x, u)', StepsOf(x)') /\ Fed(Task(x, u)')
<1> SUFFICES ASSUME NEW u \in DOMAIN sessions'[x].tasks
    PROVE  Kept(Task(x, u)', StepsOf(x)') /\ Fed(Task(x, u)')
  OBVIOUS
<1>1. x \in Sids /\ sessions'[x] = sessions[x]
  OBVIOUS
<1>2. Task(x, u)' = Task(x, u) /\ StepsOf(x)' = StepsOf(x) /\ u \in DOMAIN sessions[x].tasks
  BY <1>1 DEF Task, StepsOf
<1>3. QED  BY <1>1, <1>2 DEF Artifacts

LEMMA EditSpares ==
  ASSUME IInv, Artifacts, NEW s \in Sids, sessions[s].open, NEW t \in DOMAIN sessions[s].tasks,
         NEW m \in Tasks, sessions' = WithTask(s, t, m), Kept(m, StepsOf(s)), Fed(m)
  PROVE  Artifacts'
<1>1. /\ Sids' = Sids
      /\ \A x \in Sids \ {s} : sessions'[x] = sessions[x]
      /\ sessions'[s].version = sessions[s].version
      /\ DOMAIN sessions'[s].tasks = DOMAIN sessions[s].tasks
      /\ sessions'[s].tasks[t] = m
      /\ \A u \in DOMAIN sessions[s].tasks \ {t} :
           sessions'[s].tasks[u] = sessions[s].tasks[u]
  BY TaskEdited DEF IInv
<1> SUFFICES ASSUME NEW x \in Sids, NEW u \in DOMAIN sessions'[x].tasks
    PROVE  Kept(Task(x, u)', StepsOf(x)') /\ Fed(Task(x, u)')
  BY <1>1, ArtifactsIn
<1>2. CASE x # s
  BY <1>1, <1>2, OthersSpare
<1>3. CASE x = s /\ u = t
  BY <1>1, <1>3 DEF Task, StepsOf
<1>4. CASE x = s /\ u # t
  <2>1. Task(x, u)' = Task(x, u) /\ StepsOf(x)' = StepsOf(x) /\ u \in DOMAIN sessions[x].tasks
    BY <1>1, <1>4 DEF Task, StepsOf
  <2>2. QED  BY <2>1 DEF Artifacts
<1>5. QED  BY <1>2, <1>3, <1>4

LEMMA RestSpares ==
  ASSUME Artifacts, UNCHANGED sessions
  PROVE  Artifacts'
  BY OthersSpare, ArtifactsIn DEF Sids

LEMMA ClosingSpares ==
  ASSUME IInv, Artifacts, NEW sids, sessions' = CloseIn(sessions, sids)
  PROVE  Artifacts'
<1>1. /\ Sids' = Sids
      /\ \A s \in Sids : sessions'[s] = IF s \in sids THEN Over ELSE sessions[s]
  <2>1. sessions \in Seq(Opened \cup {Over})
    BY DEF IInv, TypeOK
  <2> HIDE DEF Opened, Over
  <2>2. QED  BY <2>1, Closed DEF Sids
<1>2. DOMAIN Over.tasks = {}
  BY DEF Over
<1>3. QED  BY <1>1, <1>2, OthersSpare, ArtifactsIn

LEMMA NewSpares ==
  ASSUME NEW v \in DOMAIN Books, NEW n \in Nat, NEW owner, NEW t \in DOMAIN Session(v, n, owner).tasks
  PROVE  Kept(Session(v, n, owner).tasks[t], Books[v].steps) /\ Fed(Session(v, n, owner).tasks[t])
<1>1. Session(v, n, owner).tasks[t] = NewTask
  BY DEF Session
<1>2. Kept(NewTask, Books[v].steps)
  BY DEF Kept, NewTask
<1>3. Fed(NewTask)
  BY DEF Fed, Feeds, NewTask
<1>4. QED  BY <1>1, <1>2, <1>3

(* One more session, and some closed.                                       *)
LEMMA AddedSpares ==
  ASSUME IInv, Artifacts, NEW o \in Opened \cup {Over}, NEW sids,
         sessions' = Append(sessions, o) \/ sessions' = CloseIn(Append(sessions, o), sids),
         \A t \in DOMAIN o.tasks : Kept(o.tasks[t], Books[o.version].steps) /\ Fed(o.tasks[t])
  PROVE  Artifacts'
<1> DEFINE ss == Append(sessions, o)
<1>1. PICK n : n = NewSid
  OBVIOUS
<1>2. /\ ss \in Seq(Opened \cup {Over}) /\ DOMAIN ss = Sids \cup {n}
      /\ n \notin Sids /\ ss[n] = o
      /\ \A x \in Sids : ss[x] = sessions[x]
  BY <1>1, Added
<1> HIDE DEF ss
<1>3. /\ DOMAIN sessions' = DOMAIN ss
      /\ \A x \in DOMAIN ss : sessions'[x] = ss[x] \/ sessions'[x] = Over
  <2>1. CASE sessions' = ss
    BY <2>1
  <2>2. CASE sessions' = CloseIn(ss, sids)
    <3> HIDE DEF Opened, Over
    <3>1. QED  BY <1>2, <2>2, Closed
  <2>3. QED  BY <2>1, <2>2 DEF ss
<1>4. DOMAIN Over.tasks = {}
  BY DEF Over
<1>5. \A u \in DOMAIN sessions'[n].tasks : Kept(Task(n, u)', StepsOf(n)') /\ Fed(Task(n, u)')
  BY <1>2, <1>3, <1>4 DEF Task, StepsOf
<1>6. \A x \in Sids : \A u \in DOMAIN sessions'[x].tasks :
        Kept(Task(x, u)', StepsOf(x)') /\ Fed(Task(x, u)')
  BY <1>2, <1>3, <1>4, OthersSpare
<1>7. Sids' = Sids \cup {n}
  BY <1>2, <1>3 DEF Sids
<1>8. QED  BY <1>5, <1>6, <1>7, ArtifactsIn
(* Only the status of a task changes.                                       *)
LEMMA StatusSpares ==
  ASSUME IInv, Artifacts, NEW s \in Sids, sessions[s].open, NEW t \in DOMAIN sessions[s].tasks,
         NEW st \in {"running", "paused"}, sessions' = WithTask(s, t, [Task(s, t) EXCEPT !.status = st])
  PROVE  Artifacts'
<1> DEFINE k == Task(s, t)
           m == [k EXCEPT !.status = st]
<1>1. k \in Tasks /\ Kept(k, StepsOf(s)) /\ Fed(k)
  BY TaskTyped DEF Artifacts
<1> HIDE DEF k
<1>2. /\ m \in Tasks /\ m.pointer = k.pointer /\ m.input = k.input /\ m.states = k.states
  <2>1. m = [pointer |-> k.pointer, status |-> st, input |-> k.input, states |-> k.states]
    BY <1>1 DEF Tasks
  <2>2. k.pointer \in Nat /\ k.input \in Paths /\ k.states \in Seq(Entries) /\ st \in Statuses
    BY <1>1 DEF Tasks, Statuses
  <2> HIDE DEF m
  <2>3. QED  BY <2>1, <2>2 DEF Tasks
<1>3. sessions' = WithTask(s, t, m)
  BY DEF k
<1> HIDE DEF m
<1>4. Kept(m, StepsOf(s)) /\ Fed(m)
  <2>1. Feeds(m) = Feeds(k)
    BY <1>2 DEF Feeds
  <2>2. QED  BY <1>1, <1>2, <2>1 DEF Kept, Fed
<1>5. QED  BY <1>2, <1>3, <1>4, EditSpares

LEMMA EntryHolds ==
  ASSUME NEW status, NEW out
  PROVE  /\ Entry(status, out).status = status /\ Entry(status, out).output = out
         /\ Entry(status, out).kept
  BY DEF Entry

(* A task stops at its step.                                                *)
LEMMA HaltSpares ==
  ASSUME IInv, Artifacts, NEW s \in Sids, sessions[s].open, NEW t \in DOMAIN sessions[s].tasks,
         NEW k \in Tasks, StandsAtProgress(k, Len(StepsOf(s))), k.pointer # Len(StepsOf(s)),
         Kept(k, StepsOf(s)), Fed(k),
         NEW st \in {"paused", "failed", "skipped"}, NEW en \in {"fail", "skip"},
         sessions' = WithTask(s, t, [k EXCEPT !.status = st, !.states = AppendStepState(k, Entry(en, NoPath))])
  PROVE  Artifacts'
<1> DEFINE e  == Entry(en, NoPath)
           ss == AppendStepState(k, e)
           a  == [k EXCEPT !.status = st]
           m  == [k EXCEPT !.status = st, !.states = ss]
<1>1. e \in Entries /\ e.status = en /\ e.output = NoPath /\ e.kept
  BY EntryTyped, EntryHolds DEF Paths
<1>2. Len(StepsOf(s)) \in Nat
  BY TaskTyped
<1> HIDE DEF e
<1>3. m \in Tasks
  BY <1>1, <1>2, Stopped
<1>4. m.pointer = k.pointer /\ m.input = k.input /\ m.states = ss
  <2> HIDE DEF ss
  <2>1. a = [pointer |-> k.pointer, status |-> st, input |-> k.input, states |-> k.states]
    BY DEF Tasks
  <2>2. m = [a EXCEPT !.states = ss]
    OBVIOUS
  <2> HIDE DEF a, m
  <2>3. QED  BY <2>1, <2>2
<1>5. sessions' = WithTask(s, t, m)
  BY DEF e
<1> HIDE DEF m
<1>6. Kept(m, StepsOf(s)) /\ Fed(m)
  BY <1>1, <1>2, <1>4, StoppedSpares
<1>7. QED  BY <1>3, <1>5, <1>6, EditSpares

(* What the task in hand holds once the attempt has written.                *)
LEMMA WrittenHere ==
  ASSUME IInv, Artifacts, InHand, NEW r,
         NEW s \in Sids, s = call.sid, NEW t \in DOMAIN sessions[s].tasks, t = call.task
  PROVE  LET k == Written(Task(s, t), r)
         IN  /\ k \in Tasks /\ StandsAtProgress(k, Len(StepsOf(s))) /\ k.pointer = Task(s, t).pointer
             /\ k.pointer < Len(StepsOf(s)) /\ Len(StepsOf(s)) \in Nat /\ k.pointer \in Nat
             /\ Kept(k, StepsOf(s)) /\ Fed(k)
             /\ StepDir(k.pointer + 1, call.group)
                  \in {<<"step", k.pointer + 1>>} \cup BranchDirs(StepsOf(s), k.pointer + 1)
             /\ StepDir(k.pointer + 1, call.group) \in Paths
<1> DEFINE n == Task(s, t).pointer
<1>1. /\ sessions[s].open /\ Branches = StepsOf(s)[n + 1].branches
      /\ Task(s, t) \in Tasks /\ StandsAtProgress(Task(s, t), Len(StepsOf(s)))
      /\ Len(StepsOf(s)) \in Nat /\ n \in Nat /\ n < Len(StepsOf(s))
      /\ call.group \in 0..Len(Branches) /\ Len(Branches) \in Nat
      /\ \A i \in 1..Len(Branches) : Branches[i].name \in STRING
  BY AttemptInHand
<1>2. DOMAIN Branches = 1..Len(Branches)
  <2>1. Branches \in Seq([name : STRING, retries : Nat])
    BY <1>1, GroupsTyped DEF IInv
  <2>2. QED  BY <2>1
<1>3. Kept(Task(s, t), StepsOf(s)) /\ Fed(Task(s, t))
  BY DEF Artifacts
<1> DEFINE k == Written(Task(s, t), r)
<1>4. k \in Tasks /\ StandsAtProgress(k, Len(StepsOf(s))) /\ k.pointer = n
  BY <1>1, WrittenKeeps
<1>5. Kept(k, StepsOf(s)) /\ Fed(k)
  BY <1>1, <1>2, <1>3, WrittenSpares
<1>6. StepDir(n + 1, call.group) \in {<<"step", n + 1>>} \cup BranchDirs(StepsOf(s), n + 1)
  BY <1>1, <1>2, DirOfAttempt
<1>7. StepDir(n + 1, call.group) \in Paths
  BY <1>1, DirTyped
<1>8. QED  BY <1>1, <1>4, <1>5, <1>6, <1>7

LEMMA PassSpares ==
  ASSUME IInv, Artifacts, NEW r, AttemptPasses(r)
  PROVE  Artifacts'
<1>1. PICK s, t :
         /\ s \in Sids /\ t \in DOMAIN sessions[s].tasks
         /\ s = call.sid /\ t = call.task /\ sessions[s].open /\ Here = Task(s, t)
  BY AttemptInHand DEF AttemptPasses
<1> DEFINE k   == Written(Task(s, t), r)
           out == IF r = "ok" THEN StepDir(k.pointer + 1, call.group) ELSE NoPath
           e   == Entry(IF call.op = "replay" THEN "replayed" ELSE "ok", out)
           in  == IF out = NoPath THEN k.input ELSE out
           m   == [pointer |-> k.pointer + 1,
                   status  |-> IF k.pointer + 1 = Len(StepsOf(s)) THEN "done" ELSE "pending",
                   input   |-> in,
                   states  |-> AppendStepState(k, e)]
<1>2. sessions' = WithTask(s, t, m)
  BY <1>1 DEF AttemptPasses
<1>3. /\ k \in Tasks /\ StandsAtProgress(k, Len(StepsOf(s)))
      /\ k.pointer < Len(StepsOf(s)) /\ Len(StepsOf(s)) \in Nat /\ k.pointer \in Nat
      /\ Kept(k, StepsOf(s)) /\ Fed(k)
      /\ StepDir(k.pointer + 1, call.group)
           \in {<<"step", k.pointer + 1>>} \cup BranchDirs(StepsOf(s), k.pointer + 1)
      /\ StepDir(k.pointer + 1, call.group) \in Paths
  BY <1>1, WrittenHere DEF AttemptPasses
<1> HIDE DEF k
<1>4. out \in Paths /\ out \in {NoPath, <<"step", k.pointer + 1>>} \cup BranchDirs(StepsOf(s), k.pointer + 1)
  BY <1>3 DEF Paths
<1> HIDE DEF out
<1>5. e \in Entries /\ e.status \in Passed /\ e.output = out /\ e.kept
  BY <1>4, EntryTyped, EntryHolds DEF Passed
<1>6. in \in Paths
  BY <1>3, <1>4 DEF Tasks
<1> HIDE DEF e
<1>7. m \in Tasks
  BY <1>3, <1>5, <1>6, MovesOn
<1>8. Kept(m, StepsOf(s)) /\ Fed(m)
  <2>1. m.pointer = k.pointer + 1 /\ m.states = AppendStepState(k, e) /\ m.input = IF e.output = NoPath THEN k.input ELSE e.output
    BY <1>5
  <2> HIDE DEF m
  <2>2. QED  BY <1>3, <1>4, <1>5, <2>1, PassedSpares
<1> HIDE DEF m
<1>9. QED  BY <1>1, <1>2, <1>7, <1>8, EditSpares

LEMMA FailSpares ==
  ASSUME IInv, Artifacts, NEW r, AttemptFails(r)
  PROVE  Artifacts'
<1>1. PICK s, t :
         /\ s \in Sids /\ t \in DOMAIN sessions[s].tasks
         /\ s = call.sid /\ t = call.task /\ sessions[s].open /\ Here = Task(s, t)
  BY AttemptInHand DEF AttemptFails
<1> DEFINE k == Written(Task(s, t), r)
<1>2. /\ k \in Tasks /\ StandsAtProgress(k, Len(StepsOf(s)))
      /\ k.pointer < Len(StepsOf(s)) /\ Len(StepsOf(s)) \in Nat /\ k.pointer \in Nat
      /\ Kept(k, StepsOf(s)) /\ Fed(k)
  BY <1>1, WrittenHere DEF AttemptFails
<1> HIDE DEF k
<1>3. CASE sessions' = WithTask(s, t, k)
  BY <1>1, <1>2, <1>3, EditSpares
<1>4. CASE sessions' = Halt(k, IF call.op = "run" THEN "failed" ELSE "paused", "fail")
  <2>1. PICK st \in {"paused", "failed", "skipped"} :
          sessions' = WithTask(s, t, [k EXCEPT !.status = st, !.states = AppendStepState(k, Entry("fail", NoPath))])
    BY <1>1, <1>4 DEF Halt
  <2>2. k.pointer # Len(StepsOf(s)) /\ "fail" \in {"fail", "skip"}
    BY <1>2
  <2>3. QED  BY ONLY IInv, Artifacts, <1>1, <1>2, <2>1, <2>2, HaltSpares
<1>5. QED  BY <1>1, <1>3, <1>4 DEF AttemptFails, k

LEMMA SkipSpares ==
  ASSUME IInv, Artifacts, AttemptSkips
  PROVE  Artifacts'
<1>1. PICK s, t :
         /\ s \in Sids /\ t \in DOMAIN sessions[s].tasks
         /\ s = call.sid /\ t = call.task /\ sessions[s].open /\ Here = Task(s, t)
         /\ Task(s, t) \in Tasks /\ StandsAtProgress(Task(s, t), Len(StepsOf(s)))
         /\ Len(StepsOf(s)) \in Nat /\ Task(s, t).pointer < Len(StepsOf(s)) /\ Task(s, t).pointer \in Nat
  BY AttemptInHand DEF AttemptSkips
<1> DEFINE k == Task(s, t)
<1>2. PICK st \in {"paused", "failed", "skipped"} :
        sessions' = WithTask(s, t, [k EXCEPT !.status = st, !.states = AppendStepState(k, Entry("skip", NoPath))])
  BY <1>1 DEF AttemptSkips, Halt
<1>3. Kept(k, StepsOf(s)) /\ Fed(k)
  BY <1>1 DEF Artifacts
<1>4. k.pointer # Len(StepsOf(s)) /\ k \in Tasks /\ StandsAtProgress(k, Len(StepsOf(s)))
  BY <1>1
<1> HIDE DEF k
<1>5. "skip" \in {"fail", "skip"}
  OBVIOUS
<1>6. QED  BY ONLY IInv, Artifacts, <1>1, <1>2, <1>3, <1>4, <1>5, HaltSpares

LEMMA BeginSpares ==
  ASSUME IInv, Artifacts, NEW s \in byId, NEW t \in DOMAIN sessions[s].tasks,
         RunNextStep(s, t) \/ RetryStep(s, t) \/ RunBranches(s, t)
  PROVE  Artifacts'
<1>1. s \in Sids /\ sessions[s].open /\ call = Idle
  BY InStore DEF RunNextStep, RetryStep, RunBranches, Handler
<1>2. ASSUME NEW op, NEW g, NEW st \in {"running", "paused"}, Begin(Trying(Call(op, s, t, t), g), st)
      PROVE  Artifacts'
  <2>1. Trying(Call(op, s, t, t), g).sid = s /\ Trying(Call(op, s, t, t), g).task = t
    BY CallTrying
  <2>2. sessions' = WithTask(s, t, [Task(s, t) EXCEPT !.status = st])
    BY <1>2, <2>1 DEF Begin, WithTask, Task
  <2>3. QED  BY <1>1, <2>2, StatusSpares
<1>3. CASE RunNextStep(s, t) \/ RetryStep(s, t)
  BY <1>2, <1>3 DEF RunNextStep, RetryStep
<1>4. CASE RunBranches(s, t) /\ StepsOf(s)[Task(s, t).pointer + 1].branches # <<>>
  BY <1>2, <1>4 DEF RunBranches
<1>5. CASE RunBranches(s, t) /\ StepsOf(s)[Task(s, t).pointer + 1].branches = <<>>
  <2> DEFINE k  == Task(s, t)
             ss == AppendStepState(k, Entry("fail", NoPath))
  <2>1. k.status = "paused" /\ sessions' = WithTask(s, t, [k EXCEPT !.states = ss])
    BY <1>5 DEF RunBranches
  <2>2. /\ k \in Tasks /\ StandsAtProgress(k, Len(StepsOf(s))) /\ Kept(k, StepsOf(s)) /\ Fed(k)
    BY <1>1, TaskTyped DEF Artifacts
  <2>3. k.pointer # Len(StepsOf(s))
    BY <2>1, <2>2 DEF StandsAtProgress
  <2>4. [k EXCEPT !.status = "paused", !.states = ss] = [k EXCEPT !.states = ss]
    <3> DEFINE a == [k EXCEPT !.status = "paused"]
    <3>1. a = k
      BY <2>1, <2>2 DEF Tasks
    <3>2. [k EXCEPT !.status = "paused", !.states = ss] = [a EXCEPT !.states = ss]
      OBVIOUS
    <3> HIDE DEF a, ss, k
    <3>3. QED  BY <3>1, <3>2
  <2>5. sessions' = WithTask(s, t, [k EXCEPT !.status = "paused", !.states = ss])
    BY <2>1, <2>4
  <2> HIDE DEF k
  <2>6. QED  BY <1>1, <2>2, <2>3, <2>5, HaltSpares
<1>6. QED  BY <1>3, <1>4, <1>5
LEMMA CreateSpares ==
  ASSUME IInv, Artifacts, NEW v \in DOMAIN Books,
         \/ LabCreate(v) \/ DryRun(v)
         \/ \E s \in asked : Resume(s, v)
  PROVE  Artifacts'
<1>1. CASE NoSamples
  <2>1. Over \in Opened \cup {Over} /\ DOMAIN Over.tasks = {} /\ sessions' = Append(sessions, Over)
    BY <1>1 DEF Over, NoSamples
  <2>2. QED  BY <2>1, AddedSpares
<1>2. CASE ~NoSamples
  <2>1. PICK n, owner, sids :
          /\ n \in Nat /\ owner \in {"lab", "cli"}
          /\ \/ sessions' = Append(sessions, Session(v, n, owner))
             \/ sessions' = CloseIn(Append(sessions, Session(v, n, owner)), sids)
    <3>1. samples \in Nat /\ MaxSamples \in Nat
      BY LabAssumption DEF IInv, TypeOK
    <3>2. CASE LabCreate(v)
      <4>1. Min(samples, MaxSamples) \in Nat
        BY <3>1, MinTyped
      <4>2. \E sids : sessions' = CloseIn(Append(sessions, Session(v, Min(samples, MaxSamples), "lab")), sids)
        BY <1>2, <3>2 DEF LabCreate, Put
      <4>3. QED  BY <4>1, <4>2
    <3>3. CASE DryRun(v)
      <4>1. Min(samples, MaxSamples) \in Nat
        BY <3>1, MinTyped
      <4>2. sessions' = Append(sessions, Session(v, Min(samples, MaxSamples), "cli"))
        BY <1>2, <3>3 DEF DryRun
      <4>3. QED  BY <4>1, <4>2
    <3>4. CASE \E s \in asked : Resume(s, v)
      <4>1. PICK s \in asked : Resume(s, v)
        BY <3>4
      <4>2. s \in byId
        BY <4>1 DEF Resume, Ready, IInv, TypeOK, Stored, Accounted
      <4>3. Min(samples, Len(sessions[s].tasks)) \in Nat
        BY <3>1, <4>2, InStore, MinTyped
      <4>4. sessions' = Append(sessions, Session(v, Min(samples, Len(sessions[s].tasks)), "lab"))
        BY <1>2, <4>1 DEF Resume
      <4>5. QED  BY <4>3, <4>4
    <3>5. QED  BY <3>2, <3>3, <3>4
  <2> DEFINE o == Session(v, n, owner)
  <2>2. o \in Opened /\ o.version = v
    BY <2>1, NewTyped DEF IInv
  <2>3. \A t \in DOMAIN o.tasks : Kept(o.tasks[t], Books[o.version].steps) /\ Fed(o.tasks[t])
    BY <2>1, <2>2, NewSpares
  <2>4. sessions' = Append(sessions, o) \/ sessions' = CloseIn(Append(sessions, o), sids)
    BY <2>1
  <2> HIDE DEF o
  <2>5. QED  BY <2>2, <2>3, <2>4, AddedSpares
<1>3. QED  BY <1>1, <1>2

LEMMA WorkSpares ==
  ASSUME IInv, Artifacts, TakeTask \/ HandlerEnds \/ ReplayNext \/ ReplayOverruns \/ Resumed \/ AttemptRaises
  PROVE  Artifacts'
<1>1. CASE UNCHANGED sessions
  BY <1>1, RestSpares
<1>2. CASE \E sids : sessions' = CloseIn(sessions, sids)
  BY <1>2, ClosingSpares
<1>3. CASE TakeTask /\ ~UNCHANGED sessions
  <2>1. PICK s, t :
         /\ s \in Sids /\ t \in DOMAIN sessions[s].tasks
         /\ s = call.sid /\ t = call.task /\ sessions[s].open
    BY <1>3, TaskAtWork DEF TakeTask
  <2>2. sessions' = WithTask(s, t, [Task(s, t) EXCEPT !.status = "running"])
    BY <1>3, <2>1 DEF TakeTask
  <2>3. QED  BY <2>1, <2>2, StatusSpares
<1>4. QED
  BY <1>1, <1>2, <1>3 DEF HandlerEnds, ReplayNext, ReplayOverruns, Resumed, AttemptRaises, CloseAll, Put

LEMMA ArtifactsStep ==
  ASSUME IInv, Artifacts, [Next]_vars
  PROVE  Artifacts'
<1>1. CASE \/ \E v \in DOMAIN Books : LabCreate(v) \/ DryRun(v)
           \/ \E s \in asked : \E v \in DOMAIN Books : Resume(s, v)
  BY <1>1, CreateSpares
<1>2. CASE \E s \in byId : \E t \in DOMAIN sessions[s].tasks :
             RunNextStep(s, t) \/ RetryStep(s, t) \/ RunBranches(s, t)
  BY <1>2, BeginSpares
<1>3. CASE TakeTask \/ HandlerEnds \/ ReplayNext \/ ReplayOverruns \/ Resumed \/ AttemptRaises
  BY <1>3, WorkSpares
<1>4. CASE (\E r \in Results : AttemptPasses(r) \/ AttemptFails(r)) \/ AttemptSkips
  BY <1>4, PassSpares, FailSpares, SkipSpares
<1>5. CASE Shutdown \/ Crash \/ \E s \in byId : LabClose(s)
  BY <1>5, ClosingSpares DEF Shutdown, Crash, LabClose, CloseAll
<1>6. CASE \/ \E s \in byId : \E t \in DOMAIN sessions[s].tasks : RunToEnd(s, t)
           \/ \E s \in byId : RunAll(s) \/ LabResume(s)
           \/ \E s \in asked : ResumeRefused(s)
           \/ \E n \in 0..MaxSamples : ChangeSamples(n)
           \/ UNCHANGED vars
  BY <1>6, RestSpares DEF RunToEnd, RunAll, LabResume, ResumeRefused, ChangeSamples, vars
<1>7. QED
  BY <1>1, <1>2, <1>3, <1>4, <1>5, <1>6 DEF Next, Work

LEMMA KeptAsStated ==
  ASSUME Artifacts
  PROVE  ArtifactsKept
  BY DEF Artifacts, ArtifactsKept, Kept, Fed, SharedLater, BranchDirs

---------------------------------------------------------------------------
(* The rungs.                                                               *)
LEMMA NoRung ==
  ASSUME ~(call' # Idle /\ call'.op = "run" /\ call'.at = "attempt")
  PROVE  Climbs'
  BY DEF Climbs

LEMMA PolicyTyped ==
  ASSUME IInv, InHand
  PROVE  /\ Policy.retries \in Nat /\ Branches = Policy.branches
         /\ \A g \in 1..Len(Branches) : Branches[g].retries \in Nat
         /\ call.group \in 0..Len(Branches) /\ Len(Branches) \in Nat
         /\ \A g \in 0..Len(Branches) : More(Policy, g) \in Nat /\ Retries(g) = More(Policy, g)
<1>1. PICK s, t :
         /\ s \in Sids /\ s = call.sid /\ t = call.task
         /\ sessions[s].open /\ Here = Task(s, t) /\ Branches = StepsOf(s)[Task(s, t).pointer + 1].branches
         /\ Len(StepsOf(s)) \in Nat /\ Task(s, t).pointer \in Nat
         /\ Task(s, t).pointer < Len(StepsOf(s))
         /\ call.group \in 0..Len(Branches) /\ Len(Branches) \in Nat
  BY AttemptInHand
<1> DEFINE B == [name : STRING, retries : Nat]
           P == [retries : Nat, branches : Seq(B), then : {"mark_failed", "skip"}]
<1>2. StepsOf(s) \in Seq(P) /\ Here.pointer + 1 \in DOMAIN StepsOf(s)
  BY <1>1, StepsTyped DEF IInv
<1>3. Policy \in P
  <2> HIDE DEF P
  <2> QED  BY <1>1, <1>2 DEF Policy
<1>4. Policy.retries \in Nat /\ Policy.branches \in Seq(B) /\ Branches = Policy.branches
  BY <1>1, <1>3 DEF Branches, Policy, Here
<1>5. \A g \in 1..Len(Branches) : Branches[g].retries \in Nat
  <2>1. \A g \in 1..Len(Branches) : Branches[g] \in B
    <3> HIDE DEF B
    <3> QED  BY <1>4
  <2>2. QED  BY <2>1
<1>6. StepsOf(call.sid)[Task(call.sid, call.task).pointer + 1] = Policy
  BY DEF Policy, Here
<1>7. QED  BY <1>1, <1>4, <1>5, <1>6 DEF More, Retries

(* One attempt more in the chain.                                           *)
LEMMA ChainGrows ==
  ASSUME IInv, Climbs, InHand, call.op = "run", NEW r \in Results, Tried(r)
  PROVE  LET a == [group |-> call.group, attempt |-> call.attempt, result |-> r]
         IN  /\ tried' \in Seq(Rungs) /\ Chain(Policy, tried') /\ tried' # <<>>
             /\ tried'[Len(tried')] = a
<1> DEFINE a == [group |-> call.group, attempt |-> call.attempt, result |-> r]
<1>1. /\ tried \in Seq(Rungs) /\ Chain(Policy, tried)
      /\ call.attempt \in 1..More(Policy, call.group) + 1
      /\ tried = <<>> => call.group = 0 /\ call.attempt = 1
      /\ tried # <<>> => Follows(Policy, tried[Len(tried)], call.group, call.attempt)
  BY DEF Climbs, InHand
<1>2. call.group \in Nat /\ call.attempt \in Nat
  BY <1>1, PolicyTyped
<1>3. a \in Rungs /\ a.group = call.group /\ a.attempt = call.attempt
  BY <1>2, LabAssumption DEF Rungs
<1>4. tried' = Append(tried, a)
  BY DEF Tried
<1> HIDE DEF a, Rungs
<1>5. /\ tried' \in Seq(Rungs) /\ Len(tried') = Len(tried) + 1 /\ tried'[Len(tried) + 1] = a
      /\ \A i \in 1..Len(tried) : tried'[i] = tried[i]
      /\ Len(tried) \in Nat /\ (tried = <<>> <=> Len(tried) = 0)
  BY <1>1, <1>3, <1>4
<1>6. tried'[1].group = 0 /\ tried'[1].attempt = 1
  <2>1. CASE tried = <<>>
    BY <1>1, <1>3, <1>5, <2>1
  <2>2. CASE tried # <<>>
    BY <1>1, <1>5, <2>2 DEF Chain
  <2>3. QED  BY <2>1, <2>2
<1>7. ASSUME NEW i \in 1..Len(tried') - 1
      PROVE  Follows(Policy, tried'[i], tried'[i + 1].group, tried'[i + 1].attempt)
  <2>1. CASE i < Len(tried)
    <3>1. i \in 1..Len(tried) - 1 /\ tried'[i] = tried[i] /\ tried'[i + 1] = tried[i + 1]
      BY <1>5, <2>1
    <3>2. QED  BY <1>1, <3>1 DEF Chain
  <2>2. CASE i = Len(tried)
    BY <1>1, <1>3, <1>5, <2>2
  <2>3. QED  BY <1>5, <2>1, <2>2
<1>8. QED  BY <1>5, <1>6, <1>7 DEF Chain, a
(* The next rung is one more attempt of the group, or the first of the      *)
(* next group once this one is used up; there is none after the last.       *)
LEMMA NextRungIs ==
  ASSUME IInv, Climbs, InHand, call.op = "run"
  PROVE  /\ NextRung # Idle =>
              /\ NextRung.op = "run" /\ NextRung.sid = call.sid /\ NextRung.task = call.task
              /\ NextRung.attempt \in 1..More(Policy, NextRung.group) + 1
              /\ \/ NextRung.group = call.group /\ NextRung.attempt = call.attempt + 1
                 \/ /\ NextRung.group = call.group + 1 /\ NextRung.attempt = 1
                    /\ call.attempt = More(Policy, call.group) + 1
         /\ NextRung = Idle <=> /\ call.group = Len(Policy.branches)
                              /\ call.attempt = More(Policy, call.group) + 1
<1>1. /\ IsCall(call) /\ call.attempt \in 1..More(Policy, call.group) + 1
      /\ call.group \in 0..Len(Branches) /\ Len(Branches) \in Nat /\ Branches = Policy.branches
      /\ \A g \in 0..Len(Branches) : More(Policy, g) \in Nat /\ Retries(g) = More(Policy, g)
  BY PolicyTyped, AtWork DEF Climbs, InHand
<1>2. CASE call.attempt < Retries(call.group) + 1
  <2> DEFINE c == [call EXCEPT !.attempt = @ + 1]
  <2>1. NextRung = c
    BY <1>2 DEF NextRung
  <2>2. c # Idle /\ c.op = "run" /\ c.sid = call.sid /\ c.task = call.task /\ c.group = call.group
    BY <1>1, AgainTyped, CallsDiffer DEF SameHandler
  <2>3. c.attempt = call.attempt + 1
    BY <1>1 DEF IsCall
  <2> HIDE DEF c
  <2>4. QED  BY <1>1, <1>2, <2>1, <2>2, <2>3
<1>3. CASE ~(call.attempt < Retries(call.group) + 1) /\ call.group < Len(Branches)
  <2> DEFINE c == Trying(call, call.group + 1)
  <2>1. NextRung = c
    BY <1>3 DEF NextRung
  <2>2. call.group + 1 \in Nat /\ call.group + 1 \in 0..Len(Branches)
    BY <1>1, <1>3
  <2>3. c # Idle /\ c.op = "run" /\ c.sid = call.sid /\ c.task = call.task /\ c.group = call.group + 1
    BY <1>1, <2>2, TryingTyped, CallsDiffer DEF SameHandler
  <2>4. c.attempt = 1
    <3> DEFINE d == [call EXCEPT !.at = "attempt", !.group = call.group + 1]
    <3>1. c = [d EXCEPT !.attempt = 1]
      BY DEF Trying
    <3>2. "attempt" \in DOMAIN d
      BY <1>1 DEF IsCall
    <3> HIDE DEF d
    <3>3. QED  BY <3>1, <3>2
  <2> HIDE DEF c
  <2>5. call.attempt = More(Policy, call.group) + 1
    BY <1>1, <1>3
  <2>6. QED  BY <1>1, <1>3, <2>1, <2>2, <2>3, <2>4, <2>5
<1>4. CASE ~(call.attempt < Retries(call.group) + 1) /\ ~(call.group < Len(Branches))
  <2>1. NextRung = Idle
    BY <1>4 DEF NextRung
  <2>2. QED  BY <1>1, <1>4, <2>1
<1>5. QED  BY <1>2, <1>3, <1>4

LEMMA FailClimbs ==
  ASSUME IInv, Climbs, NEW r \in Results, AttemptFails(r)
  PROVE  Climbs'
<1>1. PICK s, t :
         /\ s \in Sids /\ t \in DOMAIN sessions[s].tasks
         /\ s = call.sid /\ t = call.task /\ call # Idle /\ IsCall(call) /\ InHand
         /\ sessions[s].open /\ Here = Task(s, t)
         /\ Task(s, t) \in Tasks /\ StandsAtProgress(Task(s, t), Len(StepsOf(s)))
         /\ Len(StepsOf(s)) \in Nat
  BY AttemptInHand DEF AttemptFails
<1>2. CASE call.op = "run" /\ NextRung # Idle
  <2> DEFINE k == Written(Task(s, t), r)
             a == [group |-> call.group, attempt |-> call.attempt, result |-> r]
  <2>1. call' = NextRung /\ sessions' = WithTask(s, t, k) /\ Tried(r) /\ r \in {"fail", "torn"}
    BY <1>1, <1>2 DEF AttemptFails, Failures
  <2>2. k \in Tasks /\ k.pointer = Task(s, t).pointer
    BY <1>1, WrittenKeeps
  <2> HIDE DEF k
  <2>3. call'.op = "run" /\ call'.sid = s /\ call'.task = t
    BY <1>1, <1>2, <2>1, NextRungIs
  <2>4. Policy' = Policy
    <3>1. sessions'[s].version = sessions[s].version /\ sessions'[s].tasks[t] = k
      BY <1>1, <2>1, <2>2, TaskEdited DEF IInv
    <3>2. QED  BY <1>1, <2>2, <2>3, <3>1 DEF Policy, Here, Task, StepsOf
  <2>5. /\ tried' \in Seq(Rungs) /\ Chain(Policy, tried') /\ tried' # <<>>
        /\ tried'[Len(tried')] = a
    BY <1>1, <1>2, <2>1, ChainGrows
  <2>6. Follows(Policy, a, call'.group, call'.attempt)
    BY <1>1, <1>2, <2>1, NextRungIs DEF Follows
  <2>7. call'.attempt \in 1..More(Policy, call'.group) + 1
    BY <1>1, <1>2, <2>1, NextRungIs
  <2>8. QED  BY <2>4, <2>5, <2>6, <2>7 DEF Climbs
<1>3. CASE ~(call.op = "run" /\ NextRung # Idle)
  <2>1. CASE call' = Halted(call) /\ call.op = "run"
    BY <1>1, <2>1, NextTaskTyped, NoRung DEF Halted
  <2>2. CASE call' = Halted(call) /\ call.op # "run"
    <3>1. CASE call.op = "replay"
      BY <1>1, <3>1, <2>2, PlaceTyped, NoRung DEF Halted
    <3>2. CASE call.op # "replay"
      BY <1>1, <3>2, <2>2, NoRung DEF Halted
    <3>3. QED  BY <3>1, <3>2
  <2>3. CASE NextRung # Idle /\ call.op # "run" /\ call' = NextRung
    <3>1. call'.op = call.op
      <4>1. CASE call' = [call EXCEPT !.attempt = @ + 1]
        BY <1>1, <4>1, AgainTyped DEF SameHandler
      <4>2. CASE call' = Trying(call, call.group + 1)
        <5>1. call.group + 1 \in Nat
          BY <1>1, PolicyTyped
        <5>2. QED  BY <1>1, <4>2, <5>1, TryingTyped DEF SameHandler
      <4>3. QED  BY <2>3, <4>1, <4>2 DEF NextRung
    <3>2. QED  BY <2>3, <3>1, NoRung
  <2>4. QED  BY <1>3, <2>1, <2>2, <2>3 DEF AttemptFails
<1>4. QED  BY <1>2, <1>3

LEMMA TakeClimbs ==
  ASSUME IInv, TakeTask
  PROVE  Climbs'
<1>1. PICK s, t :
         /\ s \in Sids /\ t \in DOMAIN sessions[s].tasks
         /\ s = call.sid /\ t = call.task /\ sessions[s].open /\ IsCall(call)
         /\ Task(s, t) \in Tasks /\ StandsAtProgress(Task(s, t), Len(StepsOf(s)))
         /\ Task(s, t).pointer <= Len(StepsOf(s)) /\ Len(StepsOf(s)) \in Nat
         /\ Task(s, t).pointer \in Nat
  BY TaskAtWork, AtWork DEF TakeTask
<1>2. CASE call' = NextTask(call)
  BY <1>1, <1>2, NextTaskTyped, NoRung
<1>3. CASE call' # NextTask(call)
  <2> DEFINE k == Task(s, t)
             m == [k EXCEPT !.status = "running"]
  <2>1. /\ k.status \notin Terminal /\ call' = Trying(call, 0) /\ tried' = <<>>
        /\ sessions' = WithTask(s, t, m)
    BY <1>1, <1>3 DEF TakeTask
  <2>2. k.pointer < Len(StepsOf(s)) /\ k.pointer # Len(StepsOf(s))
    BY <1>1, <2>1 DEF StandsAtProgress, Terminal
  <2>3. m \in Tasks /\ m.pointer = k.pointer
    <3>1. k \in Tasks /\ StandsAtProgress(k, Len(StepsOf(s)))
      BY <1>1
    <3> HIDE DEF k
    <3>2. QED  BY <1>1, <2>2, <3>1, StatusKeeps
  <2>4. call'.sid = s /\ call'.task = t /\ call'.group = 0
    BY <1>1, <2>1, TryingTyped DEF SameHandler
  <2>5. call'.attempt = 1
    <3> DEFINE d == [call EXCEPT !.at = "attempt", !.group = 0]
    <3>1. call' = [d EXCEPT !.attempt = 1] /\ "attempt" \in DOMAIN d
      BY <1>1, <2>1 DEF Trying, IsCall
    <3> HIDE DEF d
    <3>2. QED  BY <3>1
  <2> HIDE DEF m
  <2>6. Policy' = StepsOf(s)[k.pointer + 1]
    <3>1. sessions'[s].version = sessions[s].version /\ sessions'[s].tasks[t] = m
      BY <1>1, <2>1, <2>3, TaskEdited DEF IInv
    <3>2. QED  BY <2>3, <2>4, <3>1 DEF Policy, Here, Task, StepsOf
  <2>7. Policy'.retries \in Nat
    <3> DEFINE P == [retries : Nat, branches : Seq([name : STRING, retries : Nat]),
                     then : {"mark_failed", "skip"}]
    <3>1. StepsOf(s) \in Seq(P) /\ k.pointer + 1 \in DOMAIN StepsOf(s)
      BY <1>1, <2>2, StepsTyped DEF IInv
    <3>2. Policy' \in P
      <4> HIDE DEF P
      <4> QED  BY <2>6, <3>1
    <3>3. QED  BY <3>2
  <2>8. 1 \in 1..More(Policy', 0) + 1
    BY <2>7 DEF More
  <2>9. tried' \in Seq(Rungs) /\ Chain(Policy', tried')
    <3> HIDE DEF Rungs
    <3> QED  BY <2>1 DEF Chain
  <2>10. QED  BY <2>1, <2>4, <2>5, <2>8, <2>9 DEF Climbs
<1>4. QED  BY <1>2, <1>3

LEMMA ClimbsStep ==
  ASSUME IInv, Climbs, [Next]_vars
  PROVE  Climbs'
<1>1. CASE TakeTask
  BY <1>1, TakeClimbs
<1>2. CASE \E r \in Results : AttemptFails(r)
  BY <1>2, FailClimbs
<1>3. CASE (\E r \in Results : AttemptPasses(r)) \/ AttemptSkips \/ AttemptRaises
  <2>1. call # Idle /\ IsCall(call)
    BY <1>3, AtWork DEF AttemptPasses, AttemptSkips, AttemptRaises, InHand
  <2>2. CASE call' = Idle
    BY <2>2, NoRung
  <2>3. CASE call' = [call EXCEPT !.at = "task"] \/ call' = [call EXCEPT !.at = "replayed"]
    BY <2>1, <2>3, PlaceTyped, NoRung
  <2>4. CASE call' = NextTask(call)
    BY <2>1, <2>4, NextTaskTyped, NoRung
  <2>5. QED
    BY <1>3, <2>2, <2>3, <2>4 DEF AttemptPasses, AttemptSkips, AttemptRaises, Continue, Halted
<1>4. CASE ReplayNext
  <2>1. call # Idle /\ IsCall(call) /\ call.op = "replay"
    BY <1>4, AtWork DEF ReplayNext, Replaying
  <2>2. call'.op = "replay"
    BY <1>4, <2>1, NextTaskTyped, TryingTyped DEF ReplayNext, SameHandler
  <2>3. QED  BY <2>2, NoRung
<1>5. CASE \E s \in byId : \E t \in DOMAIN sessions[s].tasks :
             RunNextStep(s, t) \/ RetryStep(s, t) \/ RunBranches(s, t)
  <2>1. PICK s, t : /\ s \in byId /\ t \in DOMAIN sessions[s].tasks
                    /\ RunNextStep(s, t) \/ RetryStep(s, t) \/ RunBranches(s, t)
    BY <1>5
  <2>2. call = Idle
    BY <2>1 DEF RunNextStep, RetryStep, RunBranches, Handler
  <2>3. \/ call' = call
        \/ \E op \in {"once", "branches"} : \E g : call' = Trying(Call(op, s, t, t), g)
    BY <2>1 DEF RunNextStep, RetryStep, RunBranches, Begin
  <2>4. QED  BY <2>2, <2>3, CallTrying, NoRung
<1>6. CASE \/ \E s \in byId : \E t \in DOMAIN sessions[s].tasks : RunToEnd(s, t)
           \/ \E s \in byId : RunAll(s)
           \/ \E v \in DOMAIN Books : DryRun(v)
           \/ \E s \in asked : \E v \in DOMAIN Books : Resume(s, v)
  <2>1. \A op, s, t, n : Call(op, s, t, n).at = "task"
    BY DEF Call
  <2>2. ASSUME NEW s, NEW t, NEW n, NEW old, NEW point,
               call' = [Call("replay", s, t, n) EXCEPT !.old = old, !.point = point]
        PROVE  call'.op = "replay"
    <3> DEFINE d == [Call("replay", s, t, n) EXCEPT !.old = old]
    <3>1. "op" \in DOMAIN d /\ d.op = "replay"
      BY DEF Call
    <3>2. call' = [d EXCEPT !.point = point]
      BY <2>2
    <3> HIDE DEF d
    <3>3. QED  BY <3>1, <3>2
  <2>3. CASE \/ \E s \in byId : \E t \in DOMAIN sessions[s].tasks : RunToEnd(s, t)
             \/ \E s \in byId : RunAll(s)
    BY <2>1, <2>3, NoRung DEF RunToEnd, RunAll
  <2>4. CASE \E v \in DOMAIN Books : DryRun(v)
    BY <2>1, <2>4, NoRung DEF DryRun, Ready
  <2>5. CASE \E s \in asked : \E v \in DOMAIN Books : Resume(s, v)
    <3>1. PICK s \in asked, v \in DOMAIN Books : Resume(s, v)
      BY <2>5
    <3>2. CASE call' = call
      BY <3>1, <3>2, NoRung DEF Resume, Ready
    <3>3. CASE call' # call
      <4> DEFINE n == Min(samples, Len(sessions[s].tasks))
      <4>1. call' = [Call("replay", NewSid, 1, n) EXCEPT !.old = s, !.point = ResumePoint(s)]
        BY <3>1, <3>3 DEF Resume
      <4> HIDE DEF n
      <4>2. call'.op = "replay"
        BY <2>2, <4>1
      <4>3. QED  BY <4>2, NoRung
    <3>4. QED  BY <3>2, <3>3
  <2>6. QED  BY <1>6, <2>3, <2>4, <2>5
<1>7. CASE \/ HandlerEnds \/ ReplayOverruns \/ Resumed \/ Shutdown \/ Crash
           \/ \E v \in DOMAIN Books : LabCreate(v)
           \/ \E s \in byId : LabResume(s) \/ LabClose(s)
           \/ \E s \in asked : ResumeRefused(s)
           \/ \E n \in 0..MaxSamples : ChangeSamples(n)
  BY <1>7, NoRung DEF HandlerEnds, ReplayOverruns, Resumed, Shutdown, Crash, LabCreate, LabResume,
                      LabClose, ResumeRefused, ChangeSamples, Ready
<1>8. CASE UNCHANGED vars
  <2>1. sessions' = sessions /\ call' = call /\ tried' = tried
    BY <1>8 DEF vars
  <2>2. Policy' = Policy
    BY <2>1 DEF Policy, Here, Task, StepsOf
  <2>3. QED  BY <2>1, <2>2 DEF Climbs
<1>9. QED
  BY <1>1, <1>2, <1>3, <1>4, <1>5, <1>6, <1>7, <1>8 DEF Next, Work
---------------------------------------------------------------------------
(* What a step that is tried makes of its task.                             *)
Outcome(pol, k, after, last) ==
  /\ last.result \in {"ok", "pass"} <=> after.pointer = k.pointer + 1
  /\ last.result = "skip" <=> after.status = "skipped"
  /\ after.status = "failed" <=> Exhausts(pol, last)

LEMMA EditSeen ==
  ASSUME TypeOK, NEW s \in Sids, sessions[s].open, NEW t \in DOMAIN sessions[s].tasks,
         NEW m, sessions' = WithTask(s, t, m)
  PROVE  sessions'[s].tasks[t] = m
<1> DEFINE o  == sessions[s]
           ts == [o.tasks EXCEPT ![t] = m]
<1>1. ts[t] = m
  OBVIOUS
<1>2. o \in Opened
  BY OpenOrOver
<1>3. sessions' = [sessions EXCEPT ![s] = [o EXCEPT !.tasks = ts]]
  BY DEF WithTask
<1> HIDE DEF ts
<1>4. [o EXCEPT !.tasks = ts].tasks = ts
  BY <1>2 DEF Opened
<1>5. s \in DOMAIN sessions
  BY DEF Sids
<1> HIDE DEF o
<1>6. sessions'[s] = [o EXCEPT !.tasks = ts]
  BY <1>3, <1>5
<1>7. QED  BY <1>1, <1>4, <1>6

LEMMA RungTried ==
  ASSUME IInv, Climbs, call # Idle, call.op = "run",
         (\E r \in Results : AttemptPasses(r) \/ AttemptFails(r)) \/ AttemptSkips
  PROVE  /\ tried' # <<>> /\ Chain(Policy, tried')
         /\ Outcome(Policy, Here, sessions'[call.sid].tasks[call.task], tried'[Len(tried')])
<1> DEFINE after == sessions'[call.sid].tasks[call.task]
<1>1. PICK s, t :
         /\ s \in Sids /\ t \in DOMAIN sessions[s].tasks
         /\ s = call.sid /\ t = call.task /\ IsCall(call) /\ InHand
         /\ sessions[s].open /\ Here = Task(s, t)
         /\ Task(s, t) \in Tasks /\ StandsAtProgress(Task(s, t), Len(StepsOf(s)))
         /\ Len(StepsOf(s)) \in Nat /\ Task(s, t).pointer \in Nat
         /\ Task(s, t).pointer < Len(StepsOf(s)) /\ Task(s, t).status \notin Terminal
  BY AttemptInHand DEF AttemptPasses, AttemptFails, AttemptSkips
<1>2. PICK r \in Results : Tried(r) /\ (AttemptPasses(r) \/ AttemptFails(r) \/ (AttemptSkips /\ r = "skip"))
  BY DEF AttemptPasses, AttemptFails, AttemptSkips
<1> DEFINE a == [group |-> call.group, attempt |-> call.attempt, result |-> r]
<1>3. Chain(Policy, tried') /\ tried' # <<>> /\ tried'[Len(tried')] = a
  BY <1>1, <1>2, ChainGrows
<1>4. ASSUME NEW m, sessions' = WithTask(s, t, m) PROVE after = m
  BY <1>1, <1>4, EditSeen DEF IInv
<1>5. CASE AttemptPasses(r)
  <2>1. r \in {"ok", "pass"}
    BY <1>5 DEF AttemptPasses
  <2>2. after.pointer = Here.pointer + 1 /\ after.status \in {"done", "pending"}
    <3> DEFINE k   == Written(Task(s, t), r)
               out == IF r = "ok" THEN StepDir(k.pointer + 1, call.group) ELSE NoPath
               m   == [pointer |-> k.pointer + 1,
                       status  |-> IF k.pointer + 1 = Len(StepsOf(s)) THEN "done" ELSE "pending",
                       input   |-> IF out = NoPath THEN k.input ELSE out,
                       states  |-> AppendStepState(k, Entry("ok", out))]
    <3>1. sessions' = WithTask(s, t, m)
      BY <1>1, <1>5 DEF AttemptPasses
    <3>2. k.pointer = Here.pointer
      BY <1>1, WrittenKeeps
    <3> HIDE DEF k, out
    <3>3. m.pointer = Here.pointer + 1 /\ m.status \in {"done", "pending"}
      BY <3>2
    <3> HIDE DEF m
    <3>4. after = m
      BY <1>4, <3>1
    <3>5. QED  BY <3>3, <3>4
  <2>3. Outcome(Policy, Here, after, a)
    BY <2>1, <2>2 DEF Outcome, Exhausts
  <2>4. QED  BY <1>3, <2>3
<1>6. CASE AttemptSkips /\ r = "skip"
  <2> DEFINE k == Task(s, t)
             m == [k EXCEPT !.status = "skipped", !.states = AppendStepState(k, Entry("skip", NoPath))]
  <2>1. sessions' = WithTask(s, t, m)
    BY <1>1, <1>6 DEF AttemptSkips, Halt
  <2>2. m.pointer = k.pointer /\ m.status = "skipped"
    BY <1>1 DEF Tasks
  <2> HIDE DEF m
  <2>3. after = m
    BY <1>4, <2>1
  <2>4. Outcome(Policy, Here, after, a)
    BY <1>1, <1>6, <2>2, <2>3 DEF Outcome, Exhausts
  <2>5. QED  BY <1>3, <2>4
<1>7. CASE AttemptFails(r)
  <2>1. r \in {"fail", "torn"}
    BY <1>7 DEF AttemptFails, Failures
  <2> DEFINE k == Written(Task(s, t), r)
             f == [k EXCEPT !.status = "failed", !.states = AppendStepState(k, Entry("fail", NoPath))]
  <2>2. k \in Tasks /\ k.pointer = Here.pointer /\ k.status = Here.status
    BY <1>1, WrittenKeeps
  <2>3. \/ NextRung # Idle /\ sessions' = WithTask(s, t, k)
        \/ NextRung = Idle /\ sessions' = WithTask(s, t, f)
    BY <1>1, <1>7 DEF AttemptFails, Halt
  <2> HIDE DEF k
  <2>4. CASE NextRung # Idle /\ sessions' = WithTask(s, t, k)
    <3>1. after = k
      BY <1>4, <2>2, <2>4
    <3>2. after.pointer = Here.pointer /\ after.status \notin {"failed", "skipped"}
      BY <1>1, <2>2, <3>1 DEF Terminal
    <3>3. ~(a.group = Len(Policy.branches) /\ a.attempt = More(Policy, a.group) + 1)
      BY <1>1, <2>4, NextRungIs
    <3>4. Outcome(Policy, Here, after, a)
      BY <1>1, <2>1, <3>2, <3>3 DEF Outcome, Exhausts
    <3>5. QED  BY <1>3, <3>4
  <2>5. CASE NextRung = Idle /\ sessions' = WithTask(s, t, f)
    <3>1. f.pointer = Here.pointer /\ f.status = "failed"
      BY <2>2 DEF Tasks
    <3> HIDE DEF f
    <3>2. after = f
      BY <1>4, <2>5
    <3>3. a.group = Len(Policy.branches) /\ a.attempt = More(Policy, a.group) + 1
      BY <1>1, <2>5, NextRungIs
    <3>4. Outcome(Policy, Here, after, a)
      BY <1>1, <2>1, <3>1, <3>2, <3>3 DEF Outcome, Exhausts
    <3>5. QED  BY <1>3, <3>4
  <2>6. QED  BY <2>3, <2>4, <2>5
<1>8. QED  BY <1>2, <1>5, <1>6, <1>7

(* No other step of a run leaves anything tried.                            *)
LEMMA OnlyAttemptsTry ==
  ASSUME [Next]_vars, call # Idle, call.op = "run", tried' # tried, tried' # <<>>
  PROVE  (\E r \in Results : AttemptPasses(r) \/ AttemptFails(r)) \/ AttemptSkips
  BY DEF Next, Work, vars, LabCreate, DryRun, RunNextStep, RetryStep, RunBranches, RunToEnd, RunAll,
         LabResume, LabClose, ResumeRefused, Resume, Shutdown, Crash, ChangeSamples, TakeTask,
         HandlerEnds, ReplayNext, ReplayOverruns, Resumed, AttemptRaises, Begin, Ready, Handler

---------------------------------------------------------------------------
(* The output a step's page shows is what that step made, and the next      *)
(* attempt reads the last output there is, in every task of every session,  *)
(* unless a later step falls back on a branch of the same name.             *)
THEOREM ArtifactsAreKept == Spec => []ArtifactsKept
<1>1. Init => Artifacts
  BY DEF Init, Artifacts, Sids
<1>2. Artifacts => ArtifactsKept
  BY KeptAsStated
<1>3. QED  BY <1>1, <1>2, InitSound, Inductive, ArtifactsStep, PTL DEF Spec

(* The verdicts that follow from an outcome.                                *)
LEMMA VerdictOf ==
  ASSUME NEW pol, NEW k, NEW after, NEW last, Outcome(pol, k, after, last)
  PROVE  IF Exhausts(pol, last) /\ pol.then = "skip" THEN LabVerdict(k, after) = "failed"
         ELSE LabVerdict(k, after) = RunnerVerdict(pol, last)
<1>1. CASE last.result \in {"ok", "pass"}
  BY <1>1 DEF Outcome, Exhausts, LabVerdict, RunnerVerdict
<1>2. CASE last.result = "skip"
  BY <1>2 DEF Outcome, Exhausts, LabVerdict, RunnerVerdict
<1>3. CASE last.result \notin {"ok", "pass", "skip"}
  <2>1. after.pointer # k.pointer + 1 /\ after.status # "skipped"
    BY <1>3 DEF Outcome
  <2>2. CASE Exhausts(pol, last)
    BY <1>3, <2>1, <2>2 DEF Outcome, LabVerdict, RunnerVerdict
  <2>3. CASE ~Exhausts(pol, last)
    BY <1>3, <2>1, <2>3 DEF Outcome, LabVerdict, RunnerVerdict
  <2>4. QED  BY <2>2, <2>3
<1>4. QED  BY <1>1, <1>2, <1>3

(* run-to-end climbs the policy's rungs as the runner does, for every       *)
(* policy with any number of branches and retries, and takes its verdict    *)
(* unless the policy skips what is used up: that is a failure here.         *)
THEOREM RunsClimb == Spec => RunsLikeTheRunner
<1>1. Init => Climbs
  BY DEF Init, Climbs
<1> DEFINE Rung ==
      (call # Idle /\ call.op = "run" /\ tried' # tried /\ tried' # <<>>) =>
       LET k    == Task(call.sid, call.task)
           pol  == StepsOf(call.sid)[k.pointer + 1]
           last == tried'[Len(tried')]
           lab  == LabVerdict(k, sessions'[call.sid].tasks[call.task])
       IN  /\ tried'[1].group = 0 /\ tried'[1].attempt = 1
           /\ \A n \in 1..Len(tried') - 1 :
                LET a == tried'[n] b == tried'[n + 1]
                IN  /\ a.result \in {"fail", "torn"}
                    /\ \/ b.group = a.group /\ b.attempt = a.attempt + 1
                       \/ /\ b.group = a.group + 1 /\ b.attempt = 1
                          /\ a.attempt = More(pol, a.group) + 1
           /\ IF Exhausts(pol, last) /\ pol.then = "skip" THEN lab = "failed"
              ELSE lab = RunnerVerdict(pol, last)
<1>2. IInv /\ Climbs /\ [Next]_vars => [Rung]_vars
  <2> SUFFICES ASSUME IInv, Climbs, [Next]_vars,
                      call # Idle, call.op = "run", tried' # tried, tried' # <<>>
      PROVE  Rung
    OBVIOUS
  <2> DEFINE after == sessions'[call.sid].tasks[call.task]
             last == tried'[Len(tried')]
  <2>1. (\E r \in Results : AttemptPasses(r) \/ AttemptFails(r)) \/ AttemptSkips
    BY OnlyAttemptsTry
  <2>2. Chain(Policy, tried') /\ Outcome(Policy, Here, after, last)
    BY <2>1, RungTried
  <2> HIDE DEF after, last
  <2>3. IF Exhausts(Policy, last) /\ Policy.then = "skip" THEN LabVerdict(Here, after) = "failed"
        ELSE LabVerdict(Here, after) = RunnerVerdict(Policy, last)
    BY <2>2, VerdictOf
  <2>4. QED  BY <2>2, <2>3 DEF Chain, Follows, Policy, Here, after, last
<1>3. QED
  BY <1>1, <1>2, InitSound, Inductive, ClimbsStep, PTL DEF Spec, RunsLikeTheRunner

=============================================================================
