------------------------------- MODULE Ledger -------------------------------
(***************************************************************************)
(* The SQLite ledger of one registered pipeline (core/ledger.py): the      *)
(* tasks, name_reservations and flags tables and every operation on them.  *)
(*                                                                         *)
(* Atomicity is that of the code.  claim_next and the three create_        *)
(* operations run under BEGIN IMMEDIATE or as one INSERT and are one step. *)
(* transition, reconcile and reserve_name use a plain session: they SELECT *)
(* outside any transaction, decide on what they read, and write at commit, *)
(* so each is a Begin step and a Commit step and other clients run in      *)
(* between.  The unit of work writes only the columns whose value differs  *)
(* from the loaded one; Written says which columns that is.  Columns that  *)
(* no other operation of the ledger decides on (workdir, current_branch,   *)
(* the timestamps but updated_at) are left out.                            *)
(*                                                                         *)
(* Next is the most general client: every thread or process that holds a   *)
(* Ledger may call any operation at any time.  The worker that calls them  *)
(* in its own order is in Runner.                                          *)
(***************************************************************************)
EXTENDS Integers

CONSTANTS
  TaskIds,      \* primary keys of the tasks table
  Keys,         \* dedup keys
  NoKey,        \* a NULL dedup key, which the unique index never compares
  Ordinals,     \* ordinals a source or a manifest may name
  Names,        \* export names
  NoName,       \* no reservation for the ordinal
  Clients,      \* threads and processes that share the database
  Levels,       \* levels, and rungs of a policy's ladder, that flags are raised at
  StaleAfter,   \* stale_after of reconcile, in ticks
  MaxTime,      \* bound on the clock
  MaxClaims     \* bound on tasks.attempts

ASSUME LedgerAssumption ==
  /\ TaskIds \subseteq Nat \ {0}
  /\ Ordinals \subseteq Nat \ {0}
  /\ Levels \subseteq Nat
  /\ NoKey \notin Keys
  /\ NoName \notin Names
  /\ StaleAfter \in Nat
  /\ MaxTime \in Nat
  /\ MaxClaims \in Nat

VARIABLES
  task,         \* the tasks table; the status of a row not yet inserted is "absent"
  reserved,     \* name_reservations: ordinal -> name
  flags,        \* the flags table
  session,      \* per client: the update it has decided on and not committed
  binding,      \* per client: the reservation it has decided on and not committed
  now           \* the wall clock

ledgerVars == <<task, reserved, flags, session, binding, now>>

Statuses == {"pending", "processing", "done", "skipped", "failed", "flagged"}

ValidTransitions ==
  [pending    |-> {"processing", "skipped"},
   processing |-> {"done", "skipped", "failed", "flagged", "pending"},
   done       |-> {},
   skipped    |-> {},
   failed     |-> {"pending"},
   flagged    |-> {"pending"},
   absent     |-> {}]

TerminalFinished == {"done", "skipped", "failed", "flagged"}

(* The targets transition is called with; only claim_next enters processing. *)
Targets == Statuses \ {"processing"}

Errors == {"none", "runner error", "stale processing"}

(* The kind a step may give its own result stands with task_skipped or      *)
(* task_failure.                                                            *)
FlagKinds == {"stale_processing", "runner_error", "task_skipped", "task_failure"}

(* One row of tasks.  source tells which create_ operation inserted it;     *)
(* ordinal 0 is NULL.                                                       *)
Row == [status   : Statuses \cup {"absent"},
        source   : {"scan", "arrival", "manifest"},
        key      : Keys \cup {NoKey},
        ordinal  : Ordinals \cup {0},
        attempts : 0..MaxClaims,
        error    : Errors,
        updated  : 0..MaxTime]

(* rung is the number of the policy group a task_failure flag is raised for,*)
(* 0 for the other kinds.                                                   *)
Flag == [task : TaskIds, kind : FlagKinds, level : Nat, rung : Nat, open : BOOLEAN]

(* An update that was decided on: the rows it names, their error column as  *)
(* it was loaded, and what it will write.                                   *)
Session == [rows   : SUBSET TaskIds,
            loaded : [TaskIds -> Errors],
            target : Targets,
            error  : Errors \cup {"keep"},
            flag   : BOOLEAN]

Blank == [status |-> "absent", source |-> "scan", key |-> NoKey, ordinal |-> 0,
          attempts |-> 0, error |-> "none", updated |-> 0]

ErrorsOf(rows) == [t \in TaskIds |-> IF t \in rows THEN task[t].error ELSE "none"]

Closed == [rows |-> {}, loaded |-> [t \in TaskIds |-> "none"],
           target |-> "pending", error |-> "keep", flag |-> FALSE]

NoBinding == <<0, NoName>>

Init ==
  /\ task = [t \in TaskIds |-> Blank]
  /\ reserved = [o \in Ordinals |-> NoName]
  /\ flags = {}
  /\ session = [c \in Clients |-> Closed]
  /\ binding = [c \in Clients |-> NoBinding]
  /\ now = 0

Exists(t) == task[t].status # "absent"
Idle(c) == session[c] = Closed /\ binding[c] = NoBinding

-----------------------------------------------------------------------------
(* Admission *)

(* mistake: the key is compared with open tasks only (AdmittedOnce). *)
AdmissibleToQueue(key) ==
  \A t \in TaskIds : task[t].status = "pending" => task[t].key = NoKey \/ task[t].key # key

(* The unique index on (pipeline_id, dedup_key). *)
Admissible(key) == \A t \in TaskIds : Exists(t) => task[t].key = NoKey \/ task[t].key # key

NextId(t) == ~Exists(t) /\ \A u \in TaskIds : u < t => Exists(u)

NewRow(source, key, ordinal) ==
  [Blank EXCEPT !.status = "pending", !.source = source, !.key = key,
                !.ordinal = ordinal, !.updated = now]

Insert(source, key, ordinal) ==
  /\ Admissible(key)
  /\ \E t \in TaskIds :
        NextId(t) /\ task' = [task EXCEPT ![t] = NewRow(source, key, ordinal)]

(* A folder or manual trigger found a candidate; its ordinal may be NULL. *)
CreateTask(key, ordinal) ==
  /\ Insert("scan", key, ordinal)
  /\ UNCHANGED <<reserved, flags, session, binding, now>>

(* mistake: numbered after the last arrival, not the last row (ArrivalOrder). *)
ArrivalAfterArrivals(key) ==
  /\ \E top \in {0} \cup {task[t].ordinal : t \in {u \in TaskIds : task[u].source = "arrival"}} :
        /\ \A t \in TaskIds : task[t].source = "arrival" => task[t].ordinal <= top
        /\ top + 1 \in Ordinals
        /\ Insert("arrival", key, top + 1)
  /\ UNCHANGED <<reserved, flags, session, binding, now>>

(* max(ordinal) + 1 and the INSERT under one BEGIN IMMEDIATE. *)
CreateTaskArrival(key) ==
  /\ \E top \in {task[t].ordinal : t \in TaskIds} :
        /\ \A t \in TaskIds : task[t].ordinal <= top
        /\ top + 1 \in Ordinals
        /\ Insert("arrival", key, top + 1)
  /\ UNCHANGED <<reserved, flags, session, binding, now>>

(* The row and the name of its ordinal in one transaction; the first name wins. *)
CreateManifestTask(key, ordinal, name) ==
  /\ Insert("manifest", key, ordinal)
  /\ reserved' = [reserved EXCEPT ![ordinal] = IF @ = NoName THEN name ELSE @]
  /\ UNCHANGED <<flags, session, binding, now>>

-----------------------------------------------------------------------------
(* Claiming *)

(* mistake: the queue is ordered by the last update (QueueSpec). *)
LongestPending(t) ==
  /\ task[t].status = "pending"
  /\ \A u \in TaskIds :
       task[u].status = "pending" =>
         \/ task[t].updated < task[u].updated
         \/ task[t].updated = task[u].updated /\ t <= u

(* mistake: a task under way is claimed again (RunsAlone). *)
OldestUnfinished(t) ==
  /\ task[t].status \in {"pending", "processing"}
  /\ \A u \in TaskIds : u < t => task[u].status \notin {"pending", "processing"}

OldestPending(t) ==
  /\ task[t].status = "pending"
  /\ \A u \in TaskIds : u < t => task[u].status # "pending"

ClaimNext(t) ==
  /\ OldestPending(t)
  /\ task[t].attempts < MaxClaims
  /\ task' = [task EXCEPT ![t].status = "processing",
                          ![t].attempts = @ + 1,
                          ![t].updated = now]
  /\ UNCHANGED <<reserved, flags, session, binding, now>>

-----------------------------------------------------------------------------
(* Status changes through a plain session *)

Legal(t, target) == target \in ValidTransitions[task[t].status]

(* transition: the SELECT and the VALID_TRANSITIONS check. *)
BeginTransition(c, t, target, error) ==
  /\ Idle(c)
  /\ Exists(t)
  /\ Legal(t, target)
  /\ session' = [session EXCEPT ![c] =
       [rows |-> {t}, loaded |-> ErrorsOf({t}),
        target |-> target, error |-> error, flag |-> FALSE]]
  /\ UNCHANGED <<task, reserved, flags, binding, now>>

Stale == {t \in TaskIds : task[t].status = "processing" /\ task[t].updated < now - StaleAfter}

(* reconcile: the SELECT of the stale rows.  retry keeps the error column. *)
BeginReconcile(c, policy) ==
  /\ Idle(c)
  /\ Stale # {}
  /\ session' = [session EXCEPT ![c] =
       [rows |-> Stale, loaded |-> ErrorsOf(Stale),
        target |-> IF policy = "retry" THEN "pending" ELSE "failed",
        error |-> IF policy = "retry" THEN "keep" ELSE "stale processing",
        flag |-> policy = "fail"]]
  /\ UNCHANGED <<task, reserved, flags, binding, now>>

(* mistake: no error given is written as one (TypeOK). *)
WrittenAsGiven(row, loaded, target, error) ==
  [row EXCEPT !.status = target, !.error = error, !.updated = now]

(* The row after the UPDATE: status always differs from the loaded one, the *)
(* error column is named only if the new error does.                        *)
Written(row, loaded, target, error) ==
  [row EXCEPT !.status = target,
              !.error = IF error \in {"keep", loaded} THEN @ ELSE error,
              !.updated = now]

StaleFlag(t) == [task |-> t, kind |-> "stale_processing", level |-> 1, rung |-> 0,
                 open |-> TRUE]

(* mistake: the flag is not part of the transaction (GivenUpIsFlagged). *)
CommitRowsOnly(c) ==
  LET s == session[c] IN
  /\ s.rows # {}
  /\ task' = [t \in TaskIds |->
                IF t \in s.rows THEN Written(task[t], s.loaded[t], s.target, s.error)
                ELSE task[t]]
  /\ session' = [session EXCEPT ![c] = Closed]
  /\ UNCHANGED <<reserved, flags, binding, now>>

Commit(c) ==
  LET s == session[c] IN
  /\ s.rows # {}
  /\ task' = [t \in TaskIds |->
                IF t \in s.rows THEN Written(task[t], s.loaded[t], s.target, s.error)
                ELSE task[t]]
  /\ flags' = IF s.flag THEN flags \cup {StaleFlag(t) : t \in s.rows} ELSE flags
  /\ session' = [session EXCEPT ![c] = Closed]
  /\ UNCHANGED <<reserved, binding, now>>

(* The client dies, or its commit raises and rolls back. *)
Abort(c) ==
  /\ ~Idle(c)
  /\ session' = [session EXCEPT ![c] = Closed]
  /\ binding' = [binding EXCEPT ![c] = NoBinding]
  /\ UNCHANGED <<task, reserved, flags, now>>

-----------------------------------------------------------------------------
(* Names, work directories, flags *)

(* reserve_name: the SELECT that found no reservation. *)
BeginReserve(c, ordinal, name) ==
  /\ Idle(c)
  /\ reserved[ordinal] = NoName
  /\ binding' = [binding EXCEPT ![c] = <<ordinal, name>>]
  /\ UNCHANGED <<task, reserved, flags, session, now>>

(* mistake: an upsert in place of the INSERT (FirstNameWins). *)
UpsertReserve(c) ==
  /\ binding[c] # NoBinding
  /\ reserved' = [reserved EXCEPT ![binding[c][1]] = binding[c][2]]
  /\ binding' = [binding EXCEPT ![c] = NoBinding]
  /\ UNCHANGED <<task, flags, session, now>>

(* The INSERT; the unique index on (pipeline_id, ordinal) refuses a second  *)
(* row and the caller gets IntegrityError, which is Abort.                  *)
CommitReserve(c) ==
  LET ordinal == binding[c][1] IN
  /\ binding[c] # NoBinding
  /\ reserved[ordinal] = NoName
  /\ reserved' = [reserved EXCEPT ![ordinal] = binding[c][2]]
  /\ binding' = [binding EXCEPT ![c] = NoBinding]
  /\ UNCHANGED <<task, flags, session, now>>

(* set_workdir, clear_workdir and set_current_branch: they refresh          *)
(* updated_at, and none looks at the status.                                *)
Touch(t) ==
  /\ Exists(t)
  /\ task' = [task EXCEPT ![t].updated = now]
  /\ UNCHANGED <<reserved, flags, session, binding, now>>

(* Rows equal in every column are one row. *)
RaiseFlag(t, kind, level, rung) ==
  /\ flags' = flags \cup {[task |-> t, kind |-> kind, level |-> level, rung |-> rung,
                            open |-> TRUE]}
  /\ UNCHANGED <<task, reserved, session, binding, now>>

ResolveFlag(f) ==
  /\ f \in flags
  /\ flags' = (flags \ {f}) \cup {[f EXCEPT !.open = FALSE]}
  /\ UNCHANGED <<task, reserved, session, binding, now>>

(* Time passes; MaxTime bounds the run. *)
Tick ==
  /\ now < MaxTime
  /\ now' = now + 1
  /\ UNCHANGED <<task, reserved, flags, session, binding>>

-----------------------------------------------------------------------------
Admission ==
  \E key \in Keys \cup {NoKey} :
    \/ \E ordinal \in Ordinals \cup {0} : CreateTask(key, ordinal)
    \/ CreateTaskArrival(key)
    \/ \E ordinal \in Ordinals, name \in Names :
          key # NoKey /\ CreateManifestTask(key, ordinal, name)

ClientStep(c) ==
  \/ \E t \in TaskIds, target \in Targets :
        BeginTransition(c, t, target, IF target = "failed" THEN "runner error" ELSE "none")
  \/ \E policy \in {"retry", "fail"} : BeginReconcile(c, policy)
  \/ \E ordinal \in Ordinals, name \in Names : BeginReserve(c, ordinal, name)
  \/ Commit(c)
  \/ CommitReserve(c)
  \/ Abort(c)

SingleStatement(c) ==
  /\ Idle(c)
  /\ \/ Admission
     \/ \E t \in TaskIds : ClaimNext(t) \/ Touch(t)
     \/ \E t \in TaskIds, level \in Levels :
          \/ \E rung \in Levels : RaiseFlag(t, "task_failure", level, rung)
          \/ \E kind \in {"runner_error", "task_skipped"} : RaiseFlag(t, kind, level, 0)
     \/ \E f \in flags : ResolveFlag(f)

Next ==
  \/ \E c \in Clients : ClientStep(c) \/ SingleStatement(c)
  \/ Tick

Spec == Init /\ [][Next]_ledgerVars

-----------------------------------------------------------------------------
TypeOK ==
  /\ task \in [TaskIds -> Row]
  /\ reserved \in [Ordinals -> Names \cup {NoName}]
  /\ flags \subseteq Flag
  /\ session \in [Clients -> Session]
  /\ binding \in [Clients -> (Ordinals \X Names) \cup {NoBinding}]
  /\ now \in 0..MaxTime

(* At-most-once admission (docs/ledger.md, invariant 1): whichever create_  *)
(* operation a trigger uses and whatever became of the first task, a dedup  *)
(* key is in the table once.                                                *)
AdmittedOnce ==
  \A t, u \in TaskIds :
    Exists(t) /\ Exists(u) /\ task[t].key = task[u].key /\ task[t].key # NoKey => t = u

(* create_manifest_task writes two tables.  A manifest row whose ordinal    *)
(* has no name would make the rename step skip it: no client may ever see   *)
(* one.                                                                     *)
ManifestTaskNamed ==
  \A t \in TaskIds :
    Exists(t) /\ task[t].source = "manifest" => reserved[task[t].ordinal] # NoName

(* create_task_arrival numbers by arrival: its ordinal is above that of     *)
(* every row inserted before it, explicit ordinals included.                *)
ArrivalOrder ==
  \A t, u \in TaskIds :
    Exists(t) /\ Exists(u) /\ u < t /\ task[t].source = "arrival" =>
      task[u].ordinal < task[t].ordinal

(* The first name wins (docs/ledger.md, invariant 4): two clients that both *)
(* found the ordinal free, or a manifest row and a step that bind it at     *)
(* once, never replace a name an export may already carry.                  *)
FirstNameWins ==
  [][\A o \in Ordinals : reserved[o] # NoName => reserved'[o] = reserved[o]]_ledgerVars

(* Single claim (docs/ledger.md, invariant 2): a task enters processing by  *)
(* a claim that counts it, and only out of the queue, whatever updates      *)
(* other clients have decided on meanwhile.                                 *)
ClaimsAreCounted ==
  [][\A t \in TaskIds :
       /\ task'[t].attempts # task[t].attempts =>
            task[t].status = "pending" /\ task'[t].status = "processing"
       /\ task'[t].attempts >= task[t].attempts]_ledgerVars

(* A task that recovery gave up on never ends unseen: the failed status and *)
(* the flag are one transaction.                                            *)
GivenUpIsFlagged ==
  \A t \in TaskIds :
    task[t].error = "stale processing" =>
      \E f \in flags : f.task = t /\ f.kind = "stale_processing"

(* For any number of clients, the tables are an admission queue: whatever   *)
(* updates were decided on meanwhile, no commit takes a task out of the     *)
(* table or changes its key, its number or the name of a number, and every  *)
(* claim takes the oldest task in the queue and is counted (docs/ledger.md, *)
(* invariants 1, 2 and 4).                                                  *)
Queue == INSTANCE AdmissionQueue WITH
  admitted <- [t \in TaskIds |->
                 IF Exists(t)
                 THEN [source |-> task[t].source, key |-> task[t].key,
                       ordinal |-> task[t].ordinal]
                 ELSE [source |-> "none", key |-> NoKey, ordinal |-> 0]],
  queue <- {t \in TaskIds : task[t].status = "pending"},
  claims <- [t \in TaskIds |-> task[t].attempts],
  names <- reserved

QueueSpec == Queue!Spec

-----------------------------------------------------------------------------
(* What the documentation says and the code does not do *)

(* docs/ledger.md, State machine and invariant 3: a task moves along the    *)
(* arrows of the life of a task alone.  transition checks the status it has *)
(* read, and writes over the one that another client has committed since.   *)
Lifecycle == INSTANCE TaskLifecycle WITH status <- [t \in TaskIds |-> task[t].status]

LifecycleSpec == Lifecycle!Spec
=============================================================================
