--------------------------- MODULE AdmissionQueue ---------------------------
(***************************************************************************)
(* What the ledger promises to any number of threads and processes that    *)
(* use it at once (docs/ledger.md, invariants 1, 2 and 4), and nothing of  *)
(* transactions or columns: what was admitted stays admitted under its key *)
(* and its number, a claim takes the oldest task that waits and is counted *)
(* for good, and a number keeps its first name.                            *)
(*                                                                         *)
(* Nothing is said of how a task comes to wait again, or ceases to: that   *)
(* is the life of one task, in TaskLifecycle.                              *)
(***************************************************************************)
EXTENDS Integers

CONSTANTS
  TaskIds,      \* in the order of admission
  Keys,
  NoKey,        \* the key of a task that is never compared
  Ordinals,
  Names,
  NoName

VARIABLES
  admitted,     \* admitted[t]: what t was admitted as, Nobody before
  queue,        \* the tasks that wait for a worker
  claims,       \* how often t was claimed
  names         \* the name of each ordinal

queueVars == <<admitted, queue, claims, names>>

Nobody == [source |-> "none", key |-> NoKey, ordinal |-> 0]

Init ==
  /\ admitted = [t \in TaskIds |-> Nobody]
  /\ queue = {}
  /\ claims = [t \in TaskIds |-> 0]
  /\ names = [o \in Ordinals |-> NoName]

In(t) == admitted[t] # Nobody

(* A new task waits.  An arrival is numbered after everything before it, a  *)
(* manifest row comes with the name of its number; the number is free for   *)
(* other sources to choose.                                                 *)
Admit(t, source, key, ordinal) ==
  /\ ~In(t)
  /\ \A u \in TaskIds : u < t => In(u)
  /\ \A u \in TaskIds : In(u) => admitted[u].key = NoKey \/ admitted[u].key # key
  /\ source = "arrival" => \A u \in TaskIds : admitted[u].ordinal < ordinal
  /\ admitted' = [admitted EXCEPT ![t] = [source |-> source, key |-> key, ordinal |-> ordinal]]
  /\ queue' = queue \cup {t}
  /\ IF source = "manifest"
     THEN \E n \in Names :
            names' = [names EXCEPT ![ordinal] = IF @ = NoName THEN n ELSE @]
     ELSE UNCHANGED names
  /\ UNCHANGED claims

Claim(t) ==
  /\ t \in queue
  /\ \A u \in queue : t <= u
  /\ queue' = queue \ {t}
  /\ claims' = [claims EXCEPT ![t] = @ + 1]
  /\ UNCHANGED <<admitted, names>>

(* A user or recovery puts tasks back, or takes them out. *)
Move(S) ==
  /\ \A t \in S : In(t)
  /\ queue' \in {queue \cup S, queue \ S}
  /\ UNCHANGED <<admitted, claims, names>>

Bind(o) ==
  /\ names[o] = NoName
  /\ \E n \in Names : names' = [names EXCEPT ![o] = n]
  /\ UNCHANGED <<admitted, queue, claims>>

Next ==
  \/ \E t \in TaskIds, key \in Keys \cup {NoKey} :
        \/ \E source \in {"scan", "arrival"}, ordinal \in Ordinals \cup {0} :
              Admit(t, source, key, ordinal)
        \/ \E ordinal \in Ordinals : Admit(t, "manifest", key, ordinal)
  \/ \E t \in TaskIds : Claim(t)
  \/ \E S \in SUBSET TaskIds : Move(S)
  \/ \E o \in Ordinals : Bind(o)

Spec == Init /\ [][Next]_queueVars
=============================================================================
