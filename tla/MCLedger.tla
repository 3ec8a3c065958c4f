------------------------------ MODULE MCLedger ------------------------------
(* Small instances of Ledger: keys, names and clients are interchangeable. *)
EXTENDS Ledger, FiniteSets, TLC

CONSTANT MaxEvents      \* bound on what one behaviour holds at once

Symmetry == Permutations(Keys) \cup Permutations(Names) \cup Permutations(Clients)

(* Claims, the clock, numbered tasks, names and reservations under way are  *)
(* mixed in every way, but only so many of them in one behaviour.           *)
FewEvents ==
  Cardinality({t \in TaskIds : task[t].attempts > 0}) + now
    + Cardinality({t \in TaskIds : task[t].ordinal # 0})
    + Cardinality({o \in Ordinals : reserved[o] # NoName})
    + Cardinality({c \in Clients : binding[c] # NoBinding}) <= MaxEvents
=============================================================================
