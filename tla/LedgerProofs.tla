---------------------------- MODULE LedgerProofs ----------------------------
(***************************************************************************)
(* What holds of the ledger for every number of tasks, clients, keys,      *)
(* ordinals and names, however clients interleave between the SELECT and   *)
(* the UPDATE of a plain session; and that the tables are, for all of them *)
(* at once, the queue of AdmissionQueue.                                   *)
(***************************************************************************)
EXTENDS Ledger, TLAPS

(* Row arithmetic: an UPDATE decided on earlier yields a row of the table. *)
LEMMA WrittenType ==
  ASSUME NEW row \in Row, NEW loaded \in Errors, NEW target \in Targets,
         NEW error \in Errors \cup {"keep"}, now \in 0..MaxTime
  PROVE  Written(row, loaded, target, error) \in Row
<1>1. (IF error \in {"keep", loaded} THEN row.error ELSE error) \in Errors
  BY DEF Row
<1>2. target \in Statuses \cup {"absent"}
  BY DEF Targets
<1>3. QED  BY <1>1, <1>2 DEF Written, Row

LEMMA BlankType == Blank \in Row
  BY LedgerAssumption DEF Blank, Row, Errors

(* Every insertion is one new row at a free id. *)
LEMMA InsertType ==
  ASSUME TypeOK, NEW source \in {"scan", "arrival", "manifest"},
         NEW key \in Keys \cup {NoKey}, NEW ordinal \in Ordinals \cup {0},
         Insert(source, key, ordinal)
  PROVE  task' \in [TaskIds -> Row]
<1>1. now \in 0..MaxTime
  BY DEF TypeOK
<1>2. "pending" \in Statuses
  BY DEF Statuses
<1>3. NewRow(source, key, ordinal) \in Row
  BY <1>1, <1>2, BlankType DEF NewRow, Row
<1>4. QED  BY <1>3 DEF TypeOK, Insert

(* A client holding an update holds one of the Session type. *)
LEMMA SessionType ==
  ASSUME TypeOK, NEW rows \in SUBSET TaskIds, NEW target \in Targets,
         NEW error \in Errors \cup {"keep"}, NEW flag \in BOOLEAN
  PROVE  [rows |-> rows, loaded |-> ErrorsOf(rows),
          target |-> target, error |-> error, flag |-> flag] \in Session
<1>1. \A t \in TaskIds : task[t].error \in Errors
  BY DEF TypeOK, Row
<1>2. ErrorsOf(rows) \in [TaskIds -> Errors]
  BY <1>1 DEF ErrorsOf, Errors
<1>3. QED  BY <1>2 DEF Session

LEMMA ClosedType == Closed \in Session
  BY DEF Closed, Session, Errors, Targets, Statuses

(* The initial table is empty and every client idle. *)
LEMMA InitType == Init => TypeOK
  BY LedgerAssumption, BlankType, ClosedType DEF Init, TypeOK, NoBinding

(* One step of the table, action by action. *)
LEMMA StepType == TypeOK /\ [Next]_ledgerVars => TypeOK'
<1> SUFFICES ASSUME TypeOK, [Next]_ledgerVars PROVE TypeOK'
  OBVIOUS
<1>1. ASSUME Admission PROVE TypeOK'
  <2>1. ASSUME NEW key \in Keys \cup {NoKey}, NEW ordinal \in Ordinals \cup {0},
               CreateTask(key, ordinal)
        PROVE  TypeOK'
    BY <2>1, InsertType DEF CreateTask, TypeOK
  <2>2. ASSUME NEW key \in Keys \cup {NoKey}, CreateTaskArrival(key)
        PROVE  TypeOK'
    <3>1. PICK ordinal \in Ordinals : Insert("arrival", key, ordinal)
      BY <2>2 DEF CreateTaskArrival
    <3>2. task' \in [TaskIds -> Row]
      BY <3>1, InsertType
    <3>3. QED  BY <2>2, <3>2 DEF CreateTaskArrival, TypeOK
  <2>3. ASSUME NEW key \in Keys \cup {NoKey}, NEW ordinal \in Ordinals, NEW name \in Names,
               CreateManifestTask(key, ordinal, name)
        PROVE  TypeOK'
    <3>1. task' \in [TaskIds -> Row]
      BY <2>3, InsertType DEF CreateManifestTask
    <3>2. reserved' \in [Ordinals -> Names \cup {NoName}]
      BY <2>3 DEF CreateManifestTask, TypeOK
    <3>3. QED  BY <2>3, <3>1, <3>2 DEF CreateManifestTask, TypeOK
  <2>4. QED  BY <1>1, <2>1, <2>2, <2>3 DEF Admission
<1>2. ASSUME NEW t \in TaskIds, ClaimNext(t) PROVE TypeOK'
  <2>1. task[t].attempts + 1 \in 0..MaxClaims
    BY <1>2, LedgerAssumption DEF ClaimNext, TypeOK, Row
  <2>2. task' \in [TaskIds -> Row]
    BY <1>2, <2>1 DEF ClaimNext, TypeOK, Row, Statuses
  <2>3. QED  BY <1>2, <2>2 DEF ClaimNext, TypeOK
<1>3. ASSUME NEW t \in TaskIds, Touch(t) PROVE TypeOK'
  <2>1. task' \in [TaskIds -> Row]
    BY <1>3 DEF Touch, TypeOK, Row
  <2>2. QED  BY <1>3, <2>1 DEF Touch, TypeOK
<1>4. ASSUME NEW f \in flags, ResolveFlag(f) PROVE TypeOK'
  <2>1. f \in Flag
    BY DEF TypeOK
  <2>2. [f EXCEPT !.open = FALSE] \in Flag
    BY <2>1 DEF Flag
  <2>3. QED  BY <1>4, <2>2 DEF ResolveFlag, TypeOK
<1>5. ASSUME NEW c \in Clients, NEW t \in TaskIds, NEW target \in Targets,
             NEW error \in Errors, BeginTransition(c, t, target, error)
      PROVE  TypeOK'
  <2>1. session' \in [Clients -> Session]
    BY <1>5, SessionType DEF BeginTransition, TypeOK
  <2>2. QED  BY <1>5, <2>1 DEF BeginTransition, TypeOK
<1>6. ASSUME NEW c \in Clients, NEW policy \in {"retry", "fail"}, BeginReconcile(c, policy)
      PROVE  TypeOK'
  <2>1. Stale \in SUBSET TaskIds
    BY DEF Stale
  <2>2. {"pending", "failed"} \subseteq Targets /\ "stale processing" \in Errors
    BY DEF Targets, Statuses, Errors
  <2>3. session' \in [Clients -> Session]
    BY <1>6, <2>1, <2>2, SessionType DEF BeginReconcile, TypeOK
  <2>4. QED  BY <1>6, <2>3 DEF BeginReconcile, TypeOK
<1>7. ASSUME NEW c \in Clients, Commit(c) PROVE TypeOK'
  <2> DEFINE s == session[c]
  <2>1. s \in Session
    BY DEF TypeOK
  <2>2. \A t \in s.rows : Written(task[t], s.loaded[t], s.target, s.error) \in Row
    BY <2>1, WrittenType DEF TypeOK, Session
  <2>3. task' \in [TaskIds -> Row]
    BY <1>7, <2>2 DEF Commit, TypeOK
  <2>4. \A t \in s.rows : StaleFlag(t) \in Flag
    BY <2>1 DEF StaleFlag, Flag, FlagKinds, Session
  <2>5. flags' \subseteq Flag
    BY <1>7, <2>4 DEF Commit, TypeOK
  <2>6. QED  BY <1>7, <2>3, <2>5, ClosedType DEF Commit, TypeOK
<1>8. ASSUME NEW c \in Clients, Abort(c) PROVE TypeOK'
  BY <1>8, ClosedType DEF Abort, TypeOK
<1>9. ASSUME NEW c \in Clients, NEW ordinal \in Ordinals, NEW name \in Names,
             BeginReserve(c, ordinal, name)
      PROVE  TypeOK'
  BY <1>9 DEF BeginReserve, TypeOK
<1>10. ASSUME NEW c \in Clients, CommitReserve(c) PROVE TypeOK'
  <2>1. binding[c] \in Ordinals \X Names
    BY <1>10 DEF CommitReserve, TypeOK
  <2>2. QED  BY <1>10, <2>1 DEF CommitReserve, TypeOK
<1>11. ASSUME Tick PROVE TypeOK'
  BY <1>11, LedgerAssumption DEF Tick, TypeOK
<1>12. CASE UNCHANGED ledgerVars
  BY <1>12 DEF ledgerVars, TypeOK
<1>13. {"none", "runner error"} \subseteq Errors
  BY DEF Errors
<1>14. ASSUME NEW t \in TaskIds, NEW kind \in FlagKinds, NEW level \in Nat, NEW rung \in Nat,
              RaiseFlag(t, kind, level, rung)
       PROVE  TypeOK'
  <2>1. [task |-> t, kind |-> kind, level |-> level, rung |-> rung, open |-> TRUE] \in Flag
    BY DEF Flag
  <2>2. QED  BY <1>14, <2>1 DEF RaiseFlag, TypeOK
<1>15. ASSUME NEW c \in Clients, SingleStatement(c) PROVE TypeOK'
  <2>1. Levels \subseteq Nat /\ {"task_failure", "runner_error", "task_skipped"} \subseteq FlagKinds
    BY LedgerAssumption DEF FlagKinds
  <2>2. CASE \E t \in TaskIds, level \in Levels :
               \/ \E rung \in Levels : RaiseFlag(t, "task_failure", level, rung)
               \/ \E kind \in {"runner_error", "task_skipped"} : RaiseFlag(t, kind, level, 0)
    BY <2>1, <2>2, <1>14
  <2>3. QED  BY <1>1, <1>2, <1>3, <1>4, <1>15, <2>2 DEF SingleStatement
<1>16. QED
  BY <1>5, <1>6, <1>7, <1>8, <1>9, <1>10, <1>11, <1>12, <1>13, <1>15 DEF Next, ClientStep

(* Every row, flag and open update of the database has its type. *)
THEOREM TypeCorrect == Spec => []TypeOK
  BY InitType, StepType, PTL DEF Spec

-----------------------------------------------------------------------------
(* What the plain sessions and the free ids must satisfy for the table to   *)
(* keep its promises: an update is decided on for rows that exist, only an  *)
(* update that raises the flag writes the stale error, and an id that was   *)
(* not given out has no columns.                                            *)
SessionsSound ==
  \A c \in Clients :
    /\ \A t \in session[c].rows : Exists(t)
    /\ session[c].error = "stale processing" => session[c].flag

AbsentIsBlank == \A t \in TaskIds : ~Exists(t) => task[t] = Blank

Sound == TypeOK /\ SessionsSound /\ AbsentIsBlank

(* The columns that identify a row are written by its INSERT alone. *)
SameIdentity ==
  \A t \in TaskIds :
    /\ Exists(t)' <=> Exists(t)
    /\ task'[t].key = task[t].key
    /\ task'[t].source = task[t].source
    /\ task'[t].ordinal = task[t].ordinal

NamesKept == \A o \in Ordinals : reserved[o] # NoName => reserved'[o] = reserved[o]

LEMMA WrittenIdentity ==
  ASSUME NEW row \in Row, NEW loaded, NEW target \in Targets, NEW error
  PROVE  /\ Written(row, loaded, target, error).status = target
         /\ Written(row, loaded, target, error).key = row.key
         /\ Written(row, loaded, target, error).source = row.source
         /\ Written(row, loaded, target, error).ordinal = row.ordinal
         /\ Written(row, loaded, target, error).attempts = row.attempts
  BY DEF Written, Row

LEMMA OrdinalsAreNat == \A o \in Ordinals \cup {0} : o \in Nat
  BY LedgerAssumption

LEMMA NextIsAbove == \A m, n \in Nat : m <= n => m < n + 1
  OBVIOUS

LEMMA RowFacts ==
  ASSUME TypeOK, NEW t \in TaskIds
  PROVE  task[t] \in Row /\ task[t].ordinal \in Nat /\ task[t].attempts \in Nat
<1>1. task[t] \in Row
  BY DEF TypeOK
<1>2. task[t].ordinal \in Ordinals \cup {0} /\ task[t].attempts \in 0..MaxClaims
  BY <1>1 DEF Row
<1>3. task[t].ordinal \in Nat
  BY <1>2, OrdinalsAreNat
<1>4. task[t].attempts \in Nat
  BY <1>2, LedgerAssumption
<1>5. QED  BY <1>1, <1>3, <1>4

LEMMA WrittenError ==
  ASSUME NEW row \in Row, NEW loaded, NEW target \in Targets, NEW error
  PROVE  Written(row, loaded, target, error).error \in {row.error, error}
  BY DEF Written, Row

(* A manifest row binds its number, the other rows none. *)
NamesBound(source, ordinal) ==
  IF source = "manifest"
  THEN \E n \in Names :
         reserved' = [reserved EXCEPT ![ordinal] = IF @ = NoName THEN n ELSE @]
  ELSE UNCHANGED reserved

(* What one admission does, whichever create_ operation it is. *)
LEMMA AdmissionStep ==
  ASSUME TypeOK, Admission
  PROVE  /\ \E source \in {"scan", "arrival", "manifest"}, key \in Keys \cup {NoKey},
               ordinal \in Ordinals \cup {0} :
              /\ Insert(source, key, ordinal)
              /\ NamesBound(source, ordinal)
              /\ source = "manifest" => ordinal \in Ordinals /\ reserved'[ordinal] # NoName
              /\ source = "arrival" => \A t \in TaskIds : task[t].ordinal < ordinal
         /\ NamesKept
         /\ UNCHANGED <<flags, session>>
<1>1. CASE \E key \in Keys \cup {NoKey}, ordinal \in Ordinals \cup {0} : CreateTask(key, ordinal)
  BY <1>1 DEF CreateTask, NamesKept, NamesBound
<1>2. CASE \E key \in Keys \cup {NoKey} : CreateTaskArrival(key)
  <2>1. PICK key \in Keys \cup {NoKey} : CreateTaskArrival(key)
    BY <1>2
  <2>2. PICK top \in {task[t].ordinal : t \in TaskIds} :
          /\ \A t \in TaskIds : task[t].ordinal <= top
          /\ top + 1 \in Ordinals
          /\ Insert("arrival", key, top + 1)
    BY <2>1 DEF CreateTaskArrival
  <2>3. /\ \A t \in TaskIds : task[t].ordinal \in Nat
        /\ top \in Nat
    BY <2>2, RowFacts
  <2>4. \A t \in TaskIds : task[t].ordinal < top + 1
    BY <2>2, <2>3, NextIsAbove
  <2>5. NamesKept /\ NamesBound("arrival", top + 1) /\ UNCHANGED <<flags, session>>
    BY <2>1 DEF CreateTaskArrival, NamesKept, NamesBound
  <2>6. QED  BY <2>2, <2>4, <2>5
<1>3. CASE \E key \in Keys \cup {NoKey}, ordinal \in Ordinals, name \in Names :
             CreateManifestTask(key, ordinal, name)
  <2>1. PICK key \in Keys \cup {NoKey}, ordinal \in Ordinals, name \in Names :
          CreateManifestTask(key, ordinal, name)
    BY <1>3
  <2>2. reserved'[ordinal] # NoName /\ NamesKept
    BY <2>1, LedgerAssumption DEF CreateManifestTask, NamesKept, TypeOK
  <2>3. NamesBound("manifest", ordinal)
    BY <2>1 DEF CreateManifestTask, NamesBound
  <2>4. QED  BY <2>1, <2>2, <2>3 DEF CreateManifestTask
<1>4. QED  BY <1>1, <1>2, <1>3 DEF Admission

(* Every other step leaves identities, names and raised flags alone and     *)
(* counts what it claims.                                                   *)
FlagsKept == \A f \in flags : \E g \in flags' : g.task = f.task /\ g.kind = f.kind

ClaimCounted ==
  \A t \in TaskIds :
    /\ task'[t].attempts # task[t].attempts =>
         task[t].status = "pending" /\ task'[t].status = "processing"
    /\ task'[t].attempts >= task[t].attempts

StaleErrorFlagged ==
  \A t \in TaskIds :
    task'[t].error = "stale processing" =>
      \/ task[t].error = "stale processing"
      \/ \E f \in flags' : f.task = t /\ f.kind = "stale_processing"

AbsentKept == \A t \in TaskIds : ~Exists(t) => task'[t] = task[t]

Update ==
  /\ SameIdentity /\ AbsentKept /\ ClaimCounted
  /\ NamesKept
  /\ FlagsKept /\ StaleErrorFlagged

LEMMA TasksUntouched ==
  ASSUME TypeOK, UNCHANGED task
  PROVE  SameIdentity /\ AbsentKept /\ ClaimCounted /\ StaleErrorFlagged
<1>1. \A t \in TaskIds : task[t].attempts \in Nat
  BY RowFacts
<1>2. SameIdentity /\ AbsentKept
  BY DEF SameIdentity, AbsentKept, Exists
<1>3. StaleErrorFlagged
  BY DEF StaleErrorFlagged
<1>4. ClaimCounted
  BY <1>1 DEF ClaimCounted
<1>5. QED  BY <1>2, <1>3, <1>4

LEMMA TableUntouched ==
  ASSUME TypeOK, UNCHANGED <<task, reserved, flags>>
  PROVE  Update
<1>1. NamesKept /\ FlagsKept
  BY DEF NamesKept, FlagsKept
<1>2. QED  BY <1>1, TasksUntouched DEF Update

(* A step that rewrites one existing row, keeping its identity and its      *)
(* error.                                                                   *)
LEMMA RowRewritten ==
  ASSUME TypeOK, NEW t \in TaskIds, NEW row,
         task' = [task EXCEPT ![t] = row], UNCHANGED <<reserved, flags>>,
         Exists(t), row.status # "absent",
         row.key = task[t].key, row.source = task[t].source,
         row.ordinal = task[t].ordinal, row.error = task[t].error,
         \/ row.attempts = task[t].attempts
         \/ /\ row.attempts = task[t].attempts + 1
            /\ task[t].status = "pending" /\ row.status = "processing"
  PROVE  Update
<1>1. \A u \in TaskIds : task[u].attempts \in Nat /\ task'[u] = IF u = t THEN row ELSE task[u]
  BY RowFacts DEF TypeOK
<1>2. SameIdentity /\ AbsentKept
  BY <1>1 DEF SameIdentity, AbsentKept, Exists
<1>3. NamesKept /\ FlagsKept /\ StaleErrorFlagged
  BY <1>1 DEF NamesKept, FlagsKept, StaleErrorFlagged
<1>4. ClaimCounted
  BY <1>1 DEF ClaimCounted
<1>5. QED  BY <1>2, <1>3, <1>4 DEF Update

(* The rows an open update names keep existing. *)
LEMMA SessionsKept ==
  ASSUME TypeOK, SessionsSound, SameIdentity, UNCHANGED session
  PROVE  SessionsSound'
<1>1. \A c \in Clients : session[c].rows \subseteq TaskIds
  BY DEF TypeOK, Session
<1>2. QED  BY <1>1 DEF SessionsSound, SameIdentity

LEMMA CommitStep ==
  ASSUME Sound, NEW c \in Clients, Commit(c)
  PROVE  Update /\ SessionsSound'
<1> DEFINE s == session[c]
           w(t) == Written(task[t], s.loaded[t], s.target, s.error)
<1>1. s \in Session /\ TypeOK /\ SessionsSound
  BY DEF Sound, TypeOK
<1>2. /\ \A t \in TaskIds : task'[t] = IF t \in s.rows THEN w(t) ELSE task[t]
      /\ flags' = IF s.flag THEN flags \cup {StaleFlag(t) : t \in s.rows} ELSE flags
      /\ session' = [session EXCEPT ![c] = Closed]
      /\ UNCHANGED reserved
  BY DEF Commit
<1>3. \A t \in s.rows : t \in TaskIds /\ task[t].status # "absent"
  BY <1>1 DEF Session, SessionsSound, Exists
<1>4. s.target \in Targets /\ s.target # "absent"
  BY <1>1 DEF Session, Targets, Statuses
<1>5. ASSUME NEW t \in s.rows
      PROVE  /\ w(t).status # "absent"
             /\ w(t).key = task[t].key /\ w(t).source = task[t].source
             /\ w(t).ordinal = task[t].ordinal /\ w(t).attempts = task[t].attempts
             /\ w(t).error \in {task[t].error, s.error}
  <2>1. task[t] \in Row
    BY <1>1, <1>3, RowFacts
  <2>2. /\ w(t).status = s.target
        /\ w(t).key = task[t].key /\ w(t).source = task[t].source
        /\ w(t).ordinal = task[t].ordinal /\ w(t).attempts = task[t].attempts
    BY <1>4, <2>1, WrittenIdentity
  <2>3. w(t).error \in {task[t].error, s.error}
    BY <1>4, <2>1, WrittenError
  <2>4. QED  BY <1>4, <2>2, <2>3
<1> HIDE DEF w
<1>7. SameIdentity /\ AbsentKept
  BY <1>2, <1>3, <1>5 DEF SameIdentity, AbsentKept, Exists
<1>8. ClaimCounted
  <2>1. \A t \in TaskIds : task[t].attempts \in Nat
    BY <1>1, RowFacts
  <2>2. QED  BY <1>2, <1>5, <2>1 DEF ClaimCounted
<1>9. NamesKept /\ FlagsKept
  BY <1>2 DEF NamesKept, FlagsKept
<1>10. StaleErrorFlagged
  <2> SUFFICES ASSUME NEW t \in TaskIds, task'[t].error = "stale processing",
                      task[t].error # "stale processing"
               PROVE  \E f \in flags' : f.task = t /\ f.kind = "stale_processing"
    BY DEF StaleErrorFlagged
  <2>1. t \in s.rows /\ s.error = "stale processing"
    BY <1>2, <1>5
  <2>2. s.flag
    BY <1>1, <2>1 DEF SessionsSound
  <2>3. StaleFlag(t) \in flags'
    BY <1>2, <2>1, <2>2
  <2>4. QED  BY <2>3 DEF StaleFlag
<1>11. SessionsSound'
  <2>1. \A d \in Clients : session[d].rows \subseteq TaskIds
    BY <1>1 DEF TypeOK, Session
  <2>2. \A d \in Clients : session'[d] = IF d = c THEN Closed ELSE session[d]
    BY <1>1, <1>2 DEF TypeOK
  <2>3. Closed.rows = {} /\ Closed.error # "stale processing"
    BY DEF Closed
  <2>4. QED  BY <1>1, <1>7, <2>1, <2>2, <2>3 DEF SessionsSound, SameIdentity
<1>12. QED  BY <1>7, <1>8, <1>9, <1>10, <1>11 DEF Update

LEMMA UpdateStep == Sound /\ [Next]_ledgerVars => Admission \/ (Update /\ SessionsSound')
<1> SUFFICES ASSUME Sound, [Next]_ledgerVars, ~Admission PROVE Update /\ SessionsSound'
  OBVIOUS
<1>0. TypeOK /\ SessionsSound
  BY DEF Sound
<1>1. ASSUME NEW t \in TaskIds, ClaimNext(t) PROVE Update /\ SessionsSound'
  <2> DEFINE row == [task[t] EXCEPT !.status = "processing", !.attempts = @ + 1, !.updated = now]
  <2>1. task[t] \in Row
    BY <1>0, RowFacts
  <2>2. task' = [task EXCEPT ![t] = row] /\ UNCHANGED <<reserved, flags, session>>
    BY <1>1 DEF ClaimNext
  <2>3. /\ row.status = "processing" /\ row.attempts = task[t].attempts + 1
        /\ row.key = task[t].key /\ row.source = task[t].source
        /\ row.ordinal = task[t].ordinal /\ row.error = task[t].error
    BY <2>1 DEF Row
  <2>4. Exists(t) /\ task[t].status = "pending"
    BY <1>1 DEF ClaimNext, OldestPending, Exists
  <2> HIDE DEF row
  <2>5. Update
    BY <1>0, <2>2, <2>3, <2>4, RowRewritten
  <2>6. QED  BY <1>0, <2>2, <2>5, SessionsKept DEF Update
<1>2. ASSUME NEW t \in TaskIds, Touch(t) PROVE Update /\ SessionsSound'
  <2> DEFINE row == [task[t] EXCEPT !.updated = now]
  <2>1. task[t] \in Row
    BY <1>0, RowFacts
  <2>2. /\ row.status = task[t].status /\ row.attempts = task[t].attempts
        /\ row.key = task[t].key /\ row.source = task[t].source
        /\ row.ordinal = task[t].ordinal /\ row.error = task[t].error
    BY <2>1 DEF Row
  <2>3. /\ Exists(t) /\ UNCHANGED <<reserved, flags, session>>
        /\ task' = [task EXCEPT ![t] = row]
    BY <1>2 DEF Touch
  <2>4. row.status # "absent"
    BY <2>2, <2>3 DEF Exists
  <2> HIDE DEF row
  <2>5. Update
    BY <1>0, <2>2, <2>3, <2>4, RowRewritten
  <2>6. QED  BY <1>0, <2>3, <2>5, SessionsKept DEF Update
<1>3. ASSUME NEW f \in flags, ResolveFlag(f) PROVE Update /\ SessionsSound'
  <2>1. UNCHANGED <<task, reserved, session>>
    BY <1>3 DEF ResolveFlag
  <2>2. f \in Flag
    BY <1>0 DEF TypeOK
  <2>3. [f EXCEPT !.open = FALSE].task = f.task /\ [f EXCEPT !.open = FALSE].kind = f.kind
    BY <2>2 DEF Flag
  <2>4. FlagsKept
    BY <1>3, <2>3 DEF ResolveFlag, FlagsKept
  <2>5. NamesKept
    BY <2>1 DEF NamesKept
  <2>6. QED  BY <1>0, <2>1, <2>4, <2>5, TasksUntouched, SessionsKept DEF Update
<1>4. ASSUME NEW c \in Clients, NEW t \in TaskIds, NEW target \in Targets,
             BeginTransition(c, t, target, IF target = "failed" THEN "runner error" ELSE "none")
      PROVE  Update /\ SessionsSound'
  <2>1. Update
    BY <1>0, <1>4, TableUntouched DEF BeginTransition
  <2>2. \A d \in Clients :
          \/ session'[d] = session[d]
          \/ session'[d].rows = {t} /\ session'[d].error # "stale processing"
    BY <1>0, <1>4 DEF BeginTransition, TypeOK
  <2>3. Exists(t) /\ task' = task
    BY <1>4 DEF BeginTransition
  <2>4. QED  BY <1>0, <2>1, <2>2, <2>3 DEF SessionsSound, Exists
<1>5. ASSUME NEW c \in Clients, NEW policy \in {"retry", "fail"}, BeginReconcile(c, policy)
      PROVE  Update /\ SessionsSound'
  <2>1. Update
    BY <1>0, <1>5, TableUntouched DEF BeginReconcile
  <2>2. \A d \in Clients :
          \/ session'[d] = session[d]
          \/ /\ session'[d].rows = Stale
             /\ session'[d].error = "stale processing" => session'[d].flag
    BY <1>0, <1>5 DEF BeginReconcile, TypeOK
  <2>3. task' = task /\ \A t \in Stale : Exists(t)
    BY <1>5 DEF BeginReconcile, Stale, Exists
  <2>4. QED  BY <1>0, <2>1, <2>2, <2>3 DEF SessionsSound, Exists
<1>6. ASSUME NEW c \in Clients, Commit(c) PROVE Update /\ SessionsSound'
  BY <1>6, CommitStep
<1>7. ASSUME NEW c \in Clients, Abort(c) PROVE Update /\ SessionsSound'
  <2>1. Update
    BY <1>0, <1>7, TableUntouched DEF Abort
  <2>2. \A d \in Clients : session'[d] \in {session[d], Closed}
    BY <1>0, <1>7 DEF Abort, TypeOK
  <2>3. Closed.rows = {} /\ Closed.error # "stale processing" /\ task' = task
    BY <1>7 DEF Closed, Abort
  <2>4. QED  BY <1>0, <2>1, <2>2, <2>3 DEF SessionsSound, Exists
<1>8. ASSUME NEW c \in Clients, NEW ordinal \in Ordinals, NEW name \in Names,
             BeginReserve(c, ordinal, name)
      PROVE  Update /\ SessionsSound'
  BY <1>0, <1>8, TableUntouched, SessionsKept DEF BeginReserve, Update
<1>9. ASSUME NEW c \in Clients, CommitReserve(c) PROVE Update /\ SessionsSound'
  <2>1. UNCHANGED <<task, flags, session>>
    BY <1>9 DEF CommitReserve
  <2>2. NamesKept
    BY <1>0, <1>9 DEF CommitReserve, NamesKept, TypeOK
  <2>3. FlagsKept
    BY <2>1 DEF FlagsKept
  <2>4. QED  BY <1>0, <2>1, <2>2, <2>3, TasksUntouched, SessionsKept DEF Update
<1>10. CASE Tick
  BY <1>0, <1>10, TableUntouched, SessionsKept DEF Tick, Update
<1>11. CASE UNCHANGED ledgerVars
  BY <1>0, <1>11, TableUntouched, SessionsKept DEF ledgerVars, Update
<1>12. ASSUME NEW t \in TaskIds, NEW kind, NEW level, NEW rung, RaiseFlag(t, kind, level, rung)
       PROVE  Update /\ SessionsSound'
  <2>1. UNCHANGED <<task, reserved, session>> /\ flags \subseteq flags'
    BY <1>12 DEF RaiseFlag
  <2>2. NamesKept /\ FlagsKept
    BY <2>1 DEF NamesKept, FlagsKept
  <2>3. QED  BY <1>0, <2>1, <2>2, TasksUntouched, SessionsKept DEF Update
<1>13. ASSUME NEW c \in Clients, SingleStatement(c) PROVE Update /\ SessionsSound'
  BY <1>1, <1>2, <1>3, <1>12, <1>13 DEF SingleStatement
<1>14. QED
  BY <1>4, <1>5, <1>6, <1>7, <1>8, <1>9, <1>10, <1>11, <1>13 DEF Next, ClientStep

(* Sound is inductive. *)
LEMMA SoundStep == Sound /\ [Next]_ledgerVars => Sound'
<1> SUFFICES ASSUME Sound, [Next]_ledgerVars PROVE Sound'
  OBVIOUS
<1>1. TypeOK /\ TypeOK'
  BY StepType DEF Sound
<1>2. CASE Admission
  <2>1. PICK source \in {"scan", "arrival", "manifest"}, key \in Keys \cup {NoKey},
              ordinal \in Ordinals \cup {0} : Insert(source, key, ordinal)
    BY <1>1, <1>2, AdmissionStep
  <2>2. PICK t \in TaskIds :
          ~Exists(t) /\ task' = [task EXCEPT ![t] = NewRow(source, key, ordinal)]
    BY <2>1 DEF Insert, NextId
  <2>3. NewRow(source, key, ordinal).status # "absent"
    BY DEF NewRow, Blank
  <2>4. \A u \in TaskIds : u # t => task'[u] = task[u]
    BY <1>1, <2>2 DEF TypeOK
  <2>5. task'[t].status # "absent"
    BY <1>1, <2>2, <2>3 DEF TypeOK
  <2>6. AbsentIsBlank'
    BY <2>4, <2>5 DEF Sound, AbsentIsBlank, Exists
  <2>7. \A c \in Clients : session'[c] = session[c] /\ session[c].rows \subseteq TaskIds
    BY <1>1, <1>2, AdmissionStep DEF TypeOK, Session
  <2>8. SessionsSound'
    BY <2>4, <2>5, <2>7 DEF Sound, SessionsSound, Exists
  <2>9. QED  BY <1>1, <2>6, <2>8 DEF Sound
<1>3. CASE Update /\ SessionsSound'
  <2>1. AbsentIsBlank'
    BY <1>3 DEF Sound, AbsentIsBlank, Update, SameIdentity, AbsentKept
  <2>2. QED  BY <1>1, <1>3, <2>1 DEF Sound
<1>4. QED  BY <1>2, <1>3, UpdateStep

LEMMA InitSound == Init => Sound
<1>1. Init => TypeOK
  BY InitType
<1>2. Init => SessionsSound
  <2>1. Closed.rows = {} /\ Closed.error # "stale processing"
    BY DEF Closed
  <2>2. QED  BY <2>1 DEF Init, SessionsSound
<1>3. Init => AbsentIsBlank
  BY DEF Init, AbsentIsBlank
<1>4. QED  BY <1>1, <1>2, <1>3 DEF Sound

LEMMA AlwaysSound == Spec => []Sound
  BY InitSound, SoundStep, PTL DEF Spec

-----------------------------------------------------------------------------
(* The invariants the runs check *)

LEMMA Inserted ==
  ASSUME TypeOK, NEW source, NEW key, NEW ordinal, Insert(source, key, ordinal)
  PROVE  /\ Admissible(key)
         /\ \E t \in TaskIds :
              /\ NextId(t)
              /\ \A u \in TaskIds : u # t => task'[u] = task[u]
              /\ task'[t].key = key /\ task'[t].source = source
              /\ task'[t].ordinal = ordinal /\ task'[t].status = "pending"
              /\ task'[t].error = "none" /\ task'[t].attempts = 0
<1>1. PICK t \in TaskIds : NextId(t) /\ task' = [task EXCEPT ![t] = NewRow(source, key, ordinal)]
  BY DEF Insert
<1>2. /\ \A u \in TaskIds : u # t => task'[u] = task[u]
      /\ task'[t] = NewRow(source, key, ordinal)
  BY <1>1 DEF TypeOK
<1>3. /\ task'[t].key = key /\ task'[t].source = source
      /\ task'[t].ordinal = ordinal /\ task'[t].status = "pending"
      /\ task'[t].error = "none" /\ task'[t].attempts = 0
  BY <1>2 DEF NewRow, Blank
<1>4. Admissible(key)
  BY DEF Insert
<1>5. QED  BY <1>1, <1>2, <1>3, <1>4

(* At-most-once admission holds whatever operations insert rows and         *)
(* whatever became of the first row with the key.                           *)
THEOREM AtMostOnceAdmission == Spec => []AdmittedOnce
<1>1. Init => AdmittedOnce
  BY DEF Init, AdmittedOnce, Exists, Blank
<1>2. Sound /\ AdmittedOnce /\ [Next]_ledgerVars => AdmittedOnce'
  <2> SUFFICES ASSUME Sound, AdmittedOnce, [Next]_ledgerVars PROVE AdmittedOnce'
    OBVIOUS
  <2>0. TypeOK
    BY DEF Sound
  <2>1. CASE Admission
    <3>1. PICK source \in {"scan", "arrival", "manifest"}, key \in Keys \cup {NoKey},
                ordinal \in Ordinals \cup {0} : Insert(source, key, ordinal)
      BY <2>0, <2>1, AdmissionStep
    <3>2. /\ Admissible(key)
          /\ \E t \in TaskIds :
               /\ NextId(t)
               /\ \A u \in TaskIds : u # t => task'[u] = task[u]
               /\ task'[t].key = key
      BY <2>0, <3>1, Inserted
    <3>3. QED  BY <3>2 DEF AdmittedOnce, Admissible, NextId, Exists
  <2>2. CASE Update
    BY <2>2 DEF Update, SameIdentity, AdmittedOnce, Exists
  <2>3. QED  BY <2>1, <2>2, UpdateStep
<1>3. QED  BY <1>1, <1>2, AlwaysSound, PTL DEF Spec

(* The ordinal of a manifest row is one the reservations table can hold.    *)
ManifestOrdinals ==
  \A t \in TaskIds : Exists(t) /\ task[t].source = "manifest" => task[t].ordinal \in Ordinals

(* A manifest row is never visible without the name of its ordinal.         *)
THEOREM ManifestRowsNamed == Spec => []ManifestTaskNamed
<1> DEFINE Named == ManifestTaskNamed /\ ManifestOrdinals
<1>1. Init => Named
  BY DEF Init, ManifestTaskNamed, ManifestOrdinals, Exists, Blank
<1>2. Sound /\ Named /\ [Next]_ledgerVars => Named'
  <2> SUFFICES ASSUME Sound, Named, [Next]_ledgerVars PROVE Named'
    OBVIOUS
  <2>0. TypeOK
    BY DEF Sound
  <2>1. CASE Admission
    <3>1. PICK source \in {"scan", "arrival", "manifest"}, key \in Keys \cup {NoKey},
                ordinal \in Ordinals \cup {0} :
            /\ Insert(source, key, ordinal)
            /\ source = "manifest" => ordinal \in Ordinals /\ reserved'[ordinal] # NoName
      BY <2>0, <2>1, AdmissionStep
    <3>2. NamesKept
      BY <2>0, <2>1, AdmissionStep
    <3>3. PICK t \in TaskIds :
            /\ \A u \in TaskIds : u # t => task'[u] = task[u]
            /\ task'[t].source = source /\ task'[t].ordinal = ordinal
      BY <2>0, <3>1, Inserted
    <3>4. QED
      BY <3>1, <3>2, <3>3 DEF ManifestTaskNamed, ManifestOrdinals, NamesKept, Exists
  <2>2. CASE Update
    BY <2>2 DEF Update, SameIdentity, NamesKept, ManifestTaskNamed, ManifestOrdinals, Exists
  <2>3. QED  BY <2>1, <2>2, UpdateStep
<1>3. QED  BY <1>1, <1>2, AlwaysSound, PTL DEF Spec

(* Ids are given out in order. *)
IdsInOrder == \A t, u \in TaskIds : u < t /\ Exists(t) => Exists(u)

LEMMA IdsStep == Sound /\ IdsInOrder /\ [Next]_ledgerVars => IdsInOrder'
<1> SUFFICES ASSUME Sound, IdsInOrder, [Next]_ledgerVars PROVE IdsInOrder'
  OBVIOUS
<1>0. TypeOK
  BY DEF Sound
<1>1. CASE Admission
  <2>1. PICK source \in {"scan", "arrival", "manifest"}, key \in Keys \cup {NoKey},
              ordinal \in Ordinals \cup {0} : Insert(source, key, ordinal)
    BY <1>0, <1>1, AdmissionStep
  <2>2. PICK t \in TaskIds :
          /\ NextId(t)
          /\ \A u \in TaskIds : u # t => task'[u] = task[u]
          /\ task'[t].status = "pending"
    BY <1>0, <2>1, Inserted
  <2>3. \A u \in TaskIds : Exists(u)' <=> Exists(u) \/ u = t
    BY <2>2 DEF Exists, NextId
  <2>4. \A u \in TaskIds : u < t => Exists(u)
    BY <2>2 DEF NextId
  <2>5. QED  BY <2>3, <2>4 DEF IdsInOrder
<1>2. CASE Update
  BY <1>2 DEF Update, SameIdentity, IdsInOrder
<1>3. QED  BY <1>1, <1>2, UpdateStep

(* Arrival numbers grow with arrival, above every ordinal already given.    *)
THEOREM ArrivalsInOrder == Spec => []ArrivalOrder
<1>1. Init => ArrivalOrder /\ IdsInOrder
  BY DEF Init, ArrivalOrder, IdsInOrder, Exists, Blank
<1>2. Sound /\ IdsInOrder /\ ArrivalOrder /\ [Next]_ledgerVars => ArrivalOrder'
  <2> SUFFICES ASSUME Sound, IdsInOrder, ArrivalOrder, [Next]_ledgerVars PROVE ArrivalOrder'
    OBVIOUS
  <2>0. TypeOK
    BY DEF Sound
  <2>1. CASE Admission
    <3>1. PICK source \in {"scan", "arrival", "manifest"}, key \in Keys \cup {NoKey},
                ordinal \in Ordinals \cup {0} :
            /\ Insert(source, key, ordinal)
            /\ source = "arrival" => \A t \in TaskIds : task[t].ordinal < ordinal
      BY <2>0, <2>1, AdmissionStep
    <3>2. PICK t \in TaskIds :
            /\ NextId(t)
            /\ \A u \in TaskIds : u # t => task'[u] = task[u]
            /\ task'[t].source = source /\ task'[t].ordinal = ordinal
      BY <2>0, <3>1, Inserted
    <3>3. \A u, v \in TaskIds : u < v => u # v /\ ~(v < u)
      BY LedgerAssumption
    <3>4. \A u \in TaskIds : t < u => ~Exists(u)'
      <4>1. \A u \in TaskIds : t < u => ~Exists(u)
        BY <3>2 DEF IdsInOrder, NextId
      <4>2. QED  BY <3>2, <3>3, <4>1 DEF Exists
    <3>5. QED
      BY <3>1, <3>2, <3>3, <3>4 DEF ArrivalOrder, Exists
  <2>2. CASE Update
    BY <2>2 DEF Update, SameIdentity, ArrivalOrder, Exists
  <2>3. QED  BY <2>1, <2>2, UpdateStep
<1>3. QED  BY <1>1, <1>2, IdsStep, AlwaysSound, PTL DEF Spec

(* Recovery never gives a task up without a flag for it.                    *)
THEOREM GivenUpFlagged == Spec => []GivenUpIsFlagged
<1>1. Init => GivenUpIsFlagged
  <2>1. Blank.error # "stale processing"
    BY DEF Blank
  <2>2. QED  BY <2>1 DEF Init, GivenUpIsFlagged
<1>2. Sound /\ GivenUpIsFlagged /\ [Next]_ledgerVars => GivenUpIsFlagged'
  <2> SUFFICES ASSUME Sound, GivenUpIsFlagged, [Next]_ledgerVars PROVE GivenUpIsFlagged'
    OBVIOUS
  <2>0. TypeOK
    BY DEF Sound
  <2>1. CASE Admission
    <3>1. PICK source \in {"scan", "arrival", "manifest"}, key \in Keys \cup {NoKey},
                ordinal \in Ordinals \cup {0} : Insert(source, key, ordinal)
      BY <2>0, <2>1, AdmissionStep
    <3>2. UNCHANGED flags
      BY <2>0, <2>1, AdmissionStep
    <3>3. PICK t \in TaskIds :
            /\ \A u \in TaskIds : u # t => task'[u] = task[u]
            /\ task'[t].error = "none"
      BY <2>0, <3>1, Inserted
    <3>4. QED  BY <3>2, <3>3 DEF GivenUpIsFlagged
  <2>2. CASE Update
    <3> SUFFICES ASSUME NEW t \in TaskIds, task'[t].error = "stale processing"
                 PROVE  \E f \in flags' : f.task = t /\ f.kind = "stale_processing"
      BY DEF GivenUpIsFlagged
    <3>1. CASE task[t].error = "stale processing"
      <4>1. PICK f \in flags : f.task = t /\ f.kind = "stale_processing"
        BY <3>1 DEF GivenUpIsFlagged
      <4>2. PICK g \in flags' : g.task = f.task /\ g.kind = f.kind
        BY <2>2 DEF Update, FlagsKept
      <4>3. QED  BY <4>1, <4>2
    <3>2. CASE task[t].error # "stale processing"
      BY <2>2, <3>2 DEF Update, StaleErrorFlagged
    <3>3. QED  BY <3>1, <3>2
  <2>3. QED  BY <2>1, <2>2, UpdateStep
<1>3. QED  BY <1>1, <1>2, AlwaysSound, PTL DEF Spec

(* No interleaving of manifest rows, rename steps and their open            *)
(* reservations replaces a name.                                            *)
THEOREM FirstNameKept == Spec => FirstNameWins
<1>1. Sound /\ [Next]_ledgerVars => NamesKept
  <2> SUFFICES ASSUME Sound, [Next]_ledgerVars PROVE NamesKept
    OBVIOUS
  <2>1. TypeOK
    BY DEF Sound
  <2>2. QED  BY <2>1, AdmissionStep, UpdateStep DEF Update
<1>2. QED  BY <1>1, AlwaysSound, PTL DEF Spec, FirstNameWins, NamesKept

(* The attempts column counts the claims, and a claim takes a pending row.  *)
THEOREM ClaimsCounted == Spec => ClaimsAreCounted
<1>1. Sound /\ [Next]_ledgerVars => ClaimCounted
  <2> SUFFICES ASSUME Sound, [Next]_ledgerVars PROVE ClaimCounted
    OBVIOUS
  <2>0. TypeOK
    BY DEF Sound
  <2>1. CASE Admission
    <3>1. PICK source \in {"scan", "arrival", "manifest"}, key \in Keys \cup {NoKey},
                ordinal \in Ordinals \cup {0} : Insert(source, key, ordinal)
      BY <2>0, <2>1, AdmissionStep
    <3>2. PICK t \in TaskIds :
            /\ NextId(t)
            /\ \A u \in TaskIds : u # t => task'[u] = task[u]
            /\ task'[t].attempts = 0
      BY <2>0, <3>1, Inserted
    <3>3. task[t].attempts = 0
      BY <3>2 DEF Sound, AbsentIsBlank, NextId, Blank
    <3>4. \A u \in TaskIds : task'[u].attempts = task[u].attempts
      BY <3>2, <3>3
    <3>5. \A u \in TaskIds : task[u].attempts \in Nat
      BY <2>0, RowFacts
    <3>6. QED  BY <3>4, <3>5 DEF ClaimCounted
  <2>2. CASE Update
    BY <2>2 DEF Update
  <2>3. QED  BY <2>1, <2>2, UpdateStep
<1>2. QED  BY <1>1, AlwaysSound, PTL DEF Spec, ClaimsAreCounted, ClaimCounted

-----------------------------------------------------------------------------
(* The tables are an admission queue, for any number of clients: what the   *)
(* three tables say is mapped to the state of AdmissionQueue, and every     *)
(* step of every client to one of its actions or to none.                   *)
Nothing == [source |-> "none", key |-> NoKey, ordinal |-> 0]

AdmittedAs == [t \in TaskIds |->
                 IF Exists(t)
                 THEN [source |-> task[t].source, key |-> task[t].key,
                       ordinal |-> task[t].ordinal]
                 ELSE Nothing]

Waiting == {t \in TaskIds : task[t].status = "pending"}

ClaimsOf == [t \in TaskIds |-> task[t].attempts]

LEMMA InIsExists ==
  ASSUME TypeOK
  PROVE  \A t \in TaskIds : AdmittedAs[t] # Nothing <=> Exists(t)
<1>1. \A t \in TaskIds : task[t].source # "none"
  BY DEF TypeOK, Row
<1>2. QED  BY <1>1 DEF AdmittedAs, Nothing

LEMMA AdmissionAdmits ==
  ASSUME Sound, Admission
  PROVE  Queue!Next
<1>1. TypeOK /\ AbsentIsBlank
  BY DEF Sound
<1>2. PICK source \in {"scan", "arrival", "manifest"}, key \in Keys \cup {NoKey},
           ordinal \in Ordinals \cup {0} :
        /\ Insert(source, key, ordinal)
        /\ NamesBound(source, ordinal)
        /\ source = "manifest" => ordinal \in Ordinals
        /\ source = "arrival" => \A u \in TaskIds : task[u].ordinal < ordinal
  BY <1>1, AdmissionStep
<1>3. Admissible(key)
  BY <1>2 DEF Insert
<1>4. PICK t \in TaskIds :
        /\ NextId(t)
        /\ \A u \in TaskIds : u # t => task'[u] = task[u]
        /\ task'[t].key = key /\ task'[t].source = source
        /\ task'[t].ordinal = ordinal /\ task'[t].status = "pending"
        /\ task'[t].attempts = 0
  BY <1>1, <1>2, Inserted
<1>5. ~Exists(t) /\ \A u \in TaskIds : u < t => Exists(u)
  BY <1>4 DEF NextId
<1>6. AdmittedAs' = [AdmittedAs EXCEPT ![t] = [source |-> source, key |-> key,
                                               ordinal |-> ordinal]]
  BY <1>4 DEF AdmittedAs, Exists
<1>7. Waiting' = Waiting \cup {t}
  BY <1>4 DEF Waiting
<1>8. ClaimsOf' = ClaimsOf
  <2>1. task[t].attempts = 0
    BY <1>1, <1>5 DEF AbsentIsBlank, Blank
  <2>2. \A u \in TaskIds : task'[u].attempts = task[u].attempts
    BY <1>4, <2>1
  <2>3. QED  BY <2>2 DEF ClaimsOf
<1>9. \A u \in TaskIds : Exists(u) => AdmittedAs[u].key = NoKey \/ AdmittedAs[u].key # key
  BY <1>3 DEF Admissible, AdmittedAs
<1>10. source = "arrival" => \A u \in TaskIds : AdmittedAs[u].ordinal < ordinal
  <2> SUFFICES ASSUME source = "arrival", NEW u \in TaskIds
               PROVE  AdmittedAs[u].ordinal < ordinal
    OBVIOUS
  <2>1. AdmittedAs[u].ordinal = task[u].ordinal
    BY <1>1 DEF AdmittedAs, Nothing, AbsentIsBlank, Blank
  <2>2. QED  BY <1>2, <2>1
<1>11. Queue!Admit(t, source, key, ordinal)
  <2>1. \A u \in TaskIds : AdmittedAs[u] # Nothing <=> Exists(u)
    BY <1>1, InIsExists
  <2>2. IF source = "manifest"
        THEN \E n \in Names : reserved' = [reserved EXCEPT ![ordinal] = IF @ = NoName THEN n ELSE @]
        ELSE UNCHANGED reserved
    BY <1>2 DEF NamesBound
  <2>3. QED
    BY <1>5, <1>6, <1>7, <1>8, <1>9, <1>10, <2>1, <2>2
       DEF Queue!Admit, Queue!In, Queue!Nobody, AdmittedAs, Waiting, ClaimsOf, Nothing
<1>12. QED  BY <1>2, <1>11 DEF Queue!Next

(* A step that keeps the identity of every row keeps what was admitted. *)
LEMMA IdentityKept == SameIdentity => AdmittedAs' = AdmittedAs
  BY DEF SameIdentity, AdmittedAs, Nothing

LEMMA ClaimClaims ==
  ASSUME Sound, NEW t \in TaskIds, ClaimNext(t)
  PROVE  Queue!Claim(t)
<1>1. TypeOK
  BY DEF Sound
<1>2. /\ \A u \in TaskIds : u # t => task'[u] = task[u]
      /\ task'[t].status = "processing" /\ task'[t].attempts = task[t].attempts + 1
      /\ task'[t].key = task[t].key /\ task'[t].source = task[t].source
      /\ task'[t].ordinal = task[t].ordinal
      /\ UNCHANGED reserved
  BY <1>1 DEF ClaimNext, TypeOK, Row
<1>3. task[t].status = "pending" /\ \A u \in TaskIds : u < t => task[u].status # "pending"
  BY DEF ClaimNext, OldestPending
<1>4. AdmittedAs' = AdmittedAs
  BY <1>2, <1>3, IdentityKept DEF SameIdentity, Exists
<1>5. Waiting' = Waiting \ {t}
  BY <1>2 DEF Waiting
<1>6. ClaimsOf' = [ClaimsOf EXCEPT ![t] = @ + 1]
  BY <1>2 DEF ClaimsOf
<1>7. t \in Waiting /\ \A u \in Waiting : t <= u
  BY <1>3, LedgerAssumption DEF Waiting
<1>8. QED
  BY <1>2, <1>4, <1>5, <1>6, <1>7 DEF Queue!Claim, AdmittedAs, Waiting, ClaimsOf, Nothing

LEMMA CommitMoves ==
  ASSUME Sound, NEW c \in Clients, Commit(c)
  PROVE  Queue!Next
<1> DEFINE rows == session[c].rows
           target == session[c].target
<1>1. TypeOK /\ SessionsSound /\ session[c] \in Session
  BY DEF Sound, TypeOK
<1>2. rows \in SUBSET TaskIds /\ target \in Targets /\ \A t \in rows : Exists(t)
  BY <1>1 DEF Session, SessionsSound
<1>3. UNCHANGED reserved /\ SameIdentity
  BY CommitStep DEF Commit, Update
<1>4. ASSUME NEW t \in TaskIds
      PROVE  /\ t \in rows => task'[t].status = target
             /\ t \notin rows => task'[t].status = task[t].status
             /\ task'[t].attempts = task[t].attempts
  <2>1. task'[t] = IF t \in rows
                   THEN Written(task[t], session[c].loaded[t], target, session[c].error)
                   ELSE task[t]
    BY DEF Commit
  <2>2. task[t] \in Row
    BY <1>1, RowFacts
  <2>3. QED  BY <1>2, <2>1, <2>2, WrittenIdentity
<1> HIDE DEF rows, target
<1>5. AdmittedAs' = AdmittedAs
  BY <1>3, IdentityKept
<1>6. ClaimsOf' = ClaimsOf
  BY <1>4 DEF ClaimsOf
<1>7. Waiting' \in {Waiting \cup rows, Waiting \ rows}
  <2>1. CASE target = "pending"
    <3>1. Waiting' = Waiting \cup rows
      BY <1>2, <1>4, <2>1 DEF Waiting
    <3>2. QED  BY <3>1
  <2>2. CASE target # "pending"
    <3>1. Waiting' = Waiting \ rows
      BY <1>2, <1>4, <2>2 DEF Waiting
    <3>2. QED  BY <3>1
  <2>3. QED  BY <2>1, <2>2
<1>8. \A t \in rows : AdmittedAs[t] # Nothing
  BY <1>1, <1>2, InIsExists
<1>9. PICK S \in SUBSET TaskIds : S = rows
  BY <1>2
<1>10. Queue!Move(S)
  BY <1>3, <1>5, <1>6, <1>7, <1>8, <1>9
     DEF Queue!Move, Queue!In, Queue!Nobody, AdmittedAs, Waiting, ClaimsOf, Nothing
<1>11. QED  BY <1>10 DEF Queue!Next

LEMMA ReserveBinds ==
  ASSUME Sound, NEW c \in Clients, CommitReserve(c)
  PROVE  Queue!Next
<1>1. PICK o \in Ordinals, n \in Names : binding[c] = <<o, n>>
  BY DEF Sound, TypeOK, CommitReserve
<1>2. reserved[o] = NoName /\ reserved' = [reserved EXCEPT ![o] = n] /\ UNCHANGED task
  BY <1>1 DEF CommitReserve
<1>3. AdmittedAs' = AdmittedAs /\ Waiting' = Waiting /\ ClaimsOf' = ClaimsOf
  BY <1>2 DEF AdmittedAs, Waiting, ClaimsOf, Exists
<1>4. Queue!Bind(o)
  BY <1>2, <1>3 DEF Queue!Bind, AdmittedAs, Waiting, ClaimsOf, Nothing
<1>5. QED  BY <1>4 DEF Queue!Next

(* The operations that move no task and bind no name. *)
LEMMA TouchStutters ==
  ASSUME Sound, NEW t \in TaskIds, Touch(t)
  PROVE  AdmittedAs' = AdmittedAs /\ Waiting' = Waiting /\ ClaimsOf' = ClaimsOf
<1>1. /\ \A u \in TaskIds : /\ task'[u].status = task[u].status
                           /\ task'[u].attempts = task[u].attempts
                           /\ task'[u].key = task[u].key
                           /\ task'[u].source = task[u].source
                           /\ task'[u].ordinal = task[u].ordinal
  BY DEF Sound, TypeOK, Touch, Row
<1>2. QED  BY <1>1 DEF AdmittedAs, Waiting, ClaimsOf, Exists, Nothing

(* Whatever updates any number of clients have decided on, no commit of     *)
(* theirs takes a task out of the table, changes what it was admitted as,   *)
(* its claims or the name of a number, and no claim passes an older task.   *)
THEOREM ImplementsQueue == Spec => QueueSpec
<1> DEFINE bar == <<AdmittedAs, Waiting, ClaimsOf, reserved>>
<1>1. Init => Queue!Init
  <2> SUFFICES ASSUME Init PROVE Queue!Init
    OBVIOUS
  <2>1. \A t \in TaskIds : task[t].status = "absent" /\ task[t].attempts = 0
    BY DEF Init, Blank
  <2>2. reserved = [o \in Ordinals |-> NoName]
    BY DEF Init
  <2>3. QED  BY <2>1, <2>2 DEF Queue!Init, Queue!Nobody, Exists
<1>2. Sound /\ [Next]_ledgerVars => [Queue!Next]_bar
  <2> SUFFICES ASSUME Sound, [Next]_ledgerVars PROVE Queue!Next \/ UNCHANGED bar
    OBVIOUS
  <2>1. CASE Admission
    BY <2>1, AdmissionAdmits
  <2>2. ASSUME NEW t \in TaskIds, ClaimNext(t) PROVE Queue!Next
    BY <2>2, ClaimClaims DEF Queue!Next
  <2>3. ASSUME NEW t \in TaskIds, Touch(t) PROVE UNCHANGED bar
    BY <2>3, TouchStutters DEF Touch
  <2>4. ASSUME NEW c \in Clients, Commit(c) PROVE Queue!Next
    BY <2>4, CommitMoves
  <2>5. ASSUME NEW c \in Clients, CommitReserve(c) PROVE Queue!Next
    BY <2>5, ReserveBinds
  <2>6. CASE UNCHANGED <<task, reserved>>
    BY <2>6 DEF AdmittedAs, Waiting, ClaimsOf, Exists
  <2>7. QED
    BY <2>1, <2>2, <2>3, <2>4, <2>5, <2>6
       DEF Next, ClientStep, SingleStatement, RaiseFlag, ResolveFlag, BeginTransition,
           BeginReconcile, Abort, BeginReserve, Tick, ledgerVars
<1>3. [Queue!Next]_bar => [Queue!Next]_(Queue!queueVars)
  BY DEF Queue!queueVars, AdmittedAs, Waiting, ClaimsOf, Nothing
<1>4. QED  BY <1>1, <1>2, <1>3, AlwaysSound, PTL DEF Spec, QueueSpec, Queue!Spec
=============================================================================
