--------------------------- MODULE TaskLifecycle ---------------------------
(***************************************************************************)
(* The life of a task as docs/ledger.md draws it (State machine), and      *)
(* nothing of how the ledger keeps it: a task is admitted once, claimed    *)
(* oldest first, and moves only along the arrows.  done and skipped have   *)
(* no way out, and a task under way goes back to the queue by recovery     *)
(* alone, not by a user.  Recovery may put several tasks back at once,     *)
(* which is why Recover takes a set.                                       *)
(***************************************************************************)
EXTENDS Naturals

CONSTANT TaskIds        \* primary keys of the tasks table, in insertion order

VARIABLE status         \* status[t], "absent" before t is admitted

Statuses == {"pending", "processing", "done", "skipped", "failed", "flagged"}

Init == status = [t \in TaskIds |-> "absent"]

(* Admission gives the task the next id. *)
Admit(t) ==
  /\ status[t] = "absent"
  /\ \A u \in TaskIds : u < t => status[u] # "absent"
  /\ status' = [status EXCEPT ![t] = "pending"]

(* A worker takes the oldest pending task. *)
Claim(t) ==
  /\ status[t] = "pending"
  /\ \A u \in TaskIds : u < t => status[u] # "pending"
  /\ status' = [status EXCEPT ![t] = "processing"]

(* The run of a task ends in one of the four end states. *)
Settle(t) ==
  /\ status[t] = "processing"
  /\ \E s \in {"done", "skipped", "failed", "flagged"} :
        status' = [status EXCEPT ![t] = s]

(* A user cancels a task nobody has started. *)
Cancel(t) ==
  /\ status[t] = "pending"
  /\ status' = [status EXCEPT ![t] = "skipped"]

(* A user puts a task back that ended without success. *)
Retry(t) ==
  /\ status[t] \in {"failed", "flagged"}
  /\ status' = [status EXCEPT ![t] = "pending"]

(* Crash recovery puts back, or fails, a set of tasks in one transaction. *)
Recover(S) ==
  /\ \A t \in S : status[t] = "processing"
  /\ \E s \in {"pending", "failed"} :
        status' = [t \in TaskIds |-> IF t \in S THEN s ELSE status[t]]

Next ==
  \/ \E t \in TaskIds :
        Admit(t) \/ Claim(t) \/ Settle(t) \/ Cancel(t) \/ Retry(t)
  \/ \E S \in SUBSET TaskIds : Recover(S)

Spec == Init /\ [][Next]_status

=============================================================================
