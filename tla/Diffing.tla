------------------------------ MODULE Diffing ------------------------------
(***************************************************************************)
(* The change summary and the side-by-side table of web/diffing.py, the    *)
(* texts compared by web/routes/editor.py and the version tree.            *)
(*                                                                         *)
(* The summary is a set of items: wording and order are left out.  A line  *)
(* of a canonical text is the part of the document that prints it.         *)
(***************************************************************************)
EXTENDS Integers, Sequences, FiniteSets, FiniteSetsExt, SequencesExt, TLC, Playbooks

---------------------------------------------------------------------------
(* difflib.SequenceMatcher: the longest common block, the leftmost of      *)
(* several, then the same on both sides of it; as the set of pairs of      *)
(* positions it matches.                                                   *)

Windows(s, t) == (1..Len(s) + 1) \X (0..Len(s)) \X (1..Len(t) + 1) \X (0..Len(t))
CommonBlocks(s, t, w) ==     \* what a window of s and one of t have in common
  {b \in (w[1]..w[2]) \X (w[3]..w[4]) \X (1..w[2] - w[1] + 1) :
     /\ b[1] + b[3] - 1 <= w[2] /\ b[2] + b[3] - 1 <= w[4]
     /\ \A k \in 0..b[3] - 1 : s[b[1] + k] = t[b[2] + k]}
LongestBlock(blocks) ==
  CHOOSE b \in blocks : \A c \in blocks :
    b[3] > c[3] \/ (b[3] = c[3] /\ (b[1] < c[1] \/ (b[1] = c[1] /\ b[2] <= c[2])))
Matched(s, t) ==
  LET within[w \in Windows(s, t)] ==
        LET blocks == CommonBlocks(s, t, w)
            b == LongestBlock(blocks)
        IN  IF blocks = {} THEN {}
            ELSE {<<b[1] + k, b[2] + k>> : k \in 0..b[3] - 1}
                   \cup within[<<w[1], b[1] - 1, w[3], b[2] - 1>>]
                   \cup within[<<b[1] + b[3], w[2], b[2] + b[3], w[4]>>]
  IN  within[<<1, Len(s), 1, Len(t)>>]

---------------------------------------------------------------------------
(* The summary.                                                            *)

Item(kind, scope, where) == {[kind |-> kind, scope |-> scope, where |-> where]}

CompareParams(old, new, where) ==
  UNION {IF k \notin DOMAIN old THEN Item("added", "params", Append(where, k))
         ELSE IF k \notin DOMAIN new THEN Item("removed", "params", Append(where, k))
         ELSE IF old[k] # new[k] THEN Item("changed", "params", Append(where, k)) ELSE {}
         : k \in DOMAIN old \cup DOMAIN new}

\* Steps are aligned by id; what the alignment leaves over was removed or
\* added, and what it matches is compared.
AlignedSteps(old, new) == LET id(s) == s.id IN Matched(Each(id, old), Each(id, new))
UnalignedSteps(old, new, where) ==
  LET pairs   == AlignedSteps(old, new)
      removed == DOMAIN old \ {p[1] : p \in pairs}
      added   == DOMAIN new \ {p[2] : p \in pairs}
  IN  (UNION {Item("removed", "step", Append(where, ToString(i))) : i \in removed})
      \cup (UNION {Item("added", "step", Append(where, ToString(j))) : j \in added})

CompareBranchSteps(old, new, where) ==
  UnalignedSteps(old, new, where)
  \cup (UNION {CompareParams(old[p[1]].params, new[p[2]].params, Append(where, ToString(p[2]))) :
                p \in AlignedSteps(old, new)})

CompareBranches(old, new, where) ==
  LET named(s, n) == CHOOSE i \in DOMAIN s : s[i].name = n
      before == {old[i].name : i \in DOMAIN old}
      after  == {new[i].name : i \in DOMAIN new}
      both(n) == LET o == old[named(old, n)] m == new[named(new, n)]
                 IN  (IF o.retries # m.retries THEN Item("changed", "branch", Append(where, n)) ELSE {})
                     \cup CompareBranchSteps(o.steps, m.steps, Append(where, n))
  IN  (UNION {Item("removed", "branch", Append(where, n)) : n \in before \ after})
      \cup (UNION {Item("added", "branch", Append(where, n)) : n \in after \ before})
      \cup (UNION {both(n) : n \in before \cap after})

\* A policy is given as an optional; None and the default policy are alike.
\* An added or removed policy is an item of its own only when its branches
\* are not.
CompareFailurePolicy(old, new, where) ==
  LET eff(p) == IF p = <<>> THEN DefaultPolicy ELSE p[1]
      o == eff(old) n == eff(new)
      had == o # DefaultPolicy has == n # DefaultPolicy
  IN  (IF ~had /\ has /\ n.branches = <<>> THEN Item("added", "policy", where) ELSE {})
      \cup (IF had /\ ~has /\ o.branches = <<>> THEN Item("removed", "policy", where) ELSE {})
      \cup (IF had /\ has /\ o.retries # n.retries
            THEN Item("changed", "policy", Append(where, "retries")) ELSE {})
      \cup (IF had /\ has /\ o.then # n.then
            THEN Item("changed", "policy", Append(where, "then")) ELSE {})
      \cup (IF had \/ has THEN CompareBranches(o.branches, n.branches, where) ELSE {})

CompareStepParams(old, new, where) ==          \* forgets the step's own policy
  CompareParams(old.params, new.params, where)
CompareStep(old, new, where) ==
  CompareParams(old.params, new.params, where) \cup CompareFailurePolicy(old.own, new.own, where)

CompareSteps(old, new, where) ==
  UnalignedSteps(old, new, where)
  \cup (UNION {CompareStep(old[p[1]], new[p[2]], Append(where, ToString(p[2]))) :
                p \in AlignedSteps(old, new)})

CompareTrigger(old, new) ==
  UNION {IF (k \in DOMAIN old \cap DOMAIN new) /\ old[k] = new[k] THEN {}
         ELSE Item("changed", "trigger", <<k>>) : k \in DOMAIN old \cup DOMAIN new}

SummarizeChanges(old, new) ==
  (UNION {IF old[k] # new[k] THEN Item("changed", "pipeline", <<k>>) ELSE {}
          : k \in {"name", "description", "engine", "dedup"}})
  \cup CompareTrigger(old.trigger, new.trigger)
  \cup CompareSteps(old.steps, new.steps, <<"steps">>)
  \cup CompareFailurePolicy(<<old.on_failure>>, <<new.on_failure>>, <<"on_failure">>)

---------------------------------------------------------------------------
(* The diff page: both texts are parsed and dumped again, a text that does *)
(* not load is shown as it is, no text at all is empty.                    *)

CanonicalForDiff(d) == IF d # <<>> /\ Loads(d) THEN DumpBook(LoadBook(d)) ELSE d
ParsesForDiff(d) == d = <<>> \/ Loads(d)
TextLines(d) ==              \* one line per key but the steps, one per step
  LET keys == SetToSeq(DOMAIN d \ {"steps"})
      line(k) == [key |-> k, holds |-> <<d[k]>>]
      step(s) == [key |-> "steps", holds |-> <<s>>]
  IN  Each(line, keys) \o (IF "steps" \in DOMAIN d THEN Each(step, d.steps) ELSE <<>>)

\* What the page of one version against another says: a summary, that only
\* metadata changed, nothing but the raw texts, or a server error.
DiffPage(old, new) ==
  LET says(what, items) == [says |-> what, items |-> items]
  IN  IF CanonicalForDiff(old) = CanonicalForDiff(new) THEN says("metadata only", {})
      ELSE IF ~(ParsesForDiff(old) /\ ParsesForDiff(new)) THEN says("raw texts", {})
      ELSE IF ~(Loads(old) /\ Loads(new)) THEN says("error", {})
      ELSE says("summary", SummarizeChanges(LoadBook(old), LoadBook(new)))

\* The table: matched lines side by side; between two matches, what was
\* deleted and what was inserted, paired off from the top when there is both.
Row(i, j, kind) == [old |-> i, new |-> j, kind |-> kind]
SideBySideShort(s, t) ==     \* pairs off the shorter chunk only
  [p \in 1..Min({Len(s), Len(t)}) |-> Row(p, p, IF s[p] = t[p] THEN "equal" ELSE "replace")]
Chunk(s, t, i, j, o, n) ==   \* o lines from i on against n lines from j on
  [k \in 1..Max({o, n}) |->
     IF k <= o /\ k <= n
     THEN Row(i + k - 1, j + k - 1, IF s[i + k - 1] = t[j + k - 1] THEN "equal" ELSE "replace")
     ELSE IF k <= o THEN Row(i + k - 1, 0, "delete")
     ELSE Row(0, j + k - 1, "add")]
SideBySide(s, t) ==
  LET pairs == Matched(s, t)
      rows[at \in (1..Len(s) + 1) \X (1..Len(t) + 1)] ==
        LET next == {p \in pairs : p[1] >= at[1] /\ p[2] >= at[2]}
            m == CHOOSE p \in next : \A q \in next : p[1] <= q[1]
            upTo(i, j) == Chunk(s, t, at[1], at[2], i - at[1], j - at[2])
        IN  IF next = {} THEN upTo(Len(s) + 1, Len(t) + 1)
            ELSE Append(upTo(m[1], m[2]), Row(m[1], m[2], "equal")) \o rows[<<m[1] + 1, m[2] + 1>>]
  IN  rows[<<1, 1>>]

---------------------------------------------------------------------------
(* The version tree: children under their parent, oldest first; a version  *)
(* without a parent, or whose parent is not in the list, is a root.        *)
(* versions maps ids, which grow with time, to their parents (0: none).    *)

TreeUnder(versions, roots) ==
  LET deepest == Cardinality(DOMAIN versions)      \* no version is as deep as that
      subtree[at \in (DOMAIN versions) \X (0..deepest)] ==
        LET under == IF at[2] = deepest THEN <<>>
                     ELSE Ascending({w \in DOMAIN versions : versions[w] = at[1]})
        IN  <<[version |-> at[1], depth |-> at[2]]>>
              \o FlattenSeq([k \in DOMAIN under |-> subtree[<<under[k], at[2] + 1>>]])
      top == Ascending(roots)
  IN  FlattenSeq([k \in DOMAIN top |-> subtree[<<top[k], 0>>]])
VersionTreeOfFirsts(versions) ==       \* takes parentless versions for the only roots
  TreeUnder(versions, {v \in DOMAIN versions : versions[v] = 0})
VersionTreeRows(versions) ==
  TreeUnder(versions, {v \in DOMAIN versions : versions[v] \notin DOMAIN versions})
=============================================================================
