----------------------------- MODULE Playbooks -----------------------------
(***************************************************************************)
(* The playbook contract of core/playbook.py, the step registry's check of *)
(* core/registry.py and the grafting of llm/features/branches.py, as       *)
(* operators.                                                              *)
(*                                                                         *)
(* A DOCUMENT is what a YAML text parses to: a function from the keys that *)
(* are written to what they hold, so two texts with one document differ in *)
(* layout and comments only.  A BOOK is the validated model, with every    *)
(* default filled in.  An optional value is a sequence of at most one      *)
(* element (None is <<>>).                                                 *)
(***************************************************************************)
EXTENDS Naturals, Sequences, FiniteSets, SequencesExt, TLC

CONSTANT Steps       \* the registered steps: [id -> [engines, keys]], where
                     \* keys are the parameters its Params model knows

NoParams == <<>>
DefaultPolicy == [retries |-> 0, branches |-> <<>>, then |-> "mark_failed"]
BookDefaults == [description |-> <<>>, dedup |-> "content_hash", engine |-> "headless",
                 on_failure |-> DefaultPolicy, meta |-> <<>>]
TriggerDefaults ==
  [manual       |-> [glob |-> "*", ordinal_regex |-> <<>>, arrival_order_ordinals |-> FALSE],
   folder_watch |-> [glob |-> "*", ordinal_regex |-> <<>>, arrival_order_ordinals |-> FALSE,
                     settle_seconds |-> 2],
   manifest     |-> [poll_seconds |-> 30]]

Fill(r, defaults) ==         \* r, and for the fields it leaves out their defaults
  [k \in DOMAIN r \cup DOMAIN defaults |-> IF k \in DOMAIN r THEN r[k] ELSE defaults[k]]
Keep(r, keys) == [k \in DOMAIN r \cap keys |-> r[k]]
Omit(r, defaults) ==         \* r without the fields that hold their default
  Keep(r, {k \in DOMAIN r : k \in DOMAIN defaults => r[k] # defaults[k]})
Each(F(_), s) == [i \in DOMAIN s |-> F(s[i])]
Ascending(idx) ==            \* a set of numbers in increasing order, each by its rank
  [n \in 1..Cardinality(idx) |-> CHOOSE i \in idx : Cardinality({j \in idx : j <= i}) = n]
Distinct(s) == \A i, j \in DOMAIN s : s[i] = s[j] => i = j

---------------------------------------------------------------------------
(* Loading.  A step is written as its id, as a pair {id: params} or as a   *)
(* mapping of fields; all three come to the mapping.                       *)

TextStep(id)         == [form |-> "text", id |-> id]
PairStep(id, params) == [form |-> "pair", id |-> id, params |-> params]
LongStep(fields)     == [form |-> "long", fields |-> fields]

NormalizeStep(d) ==
  IF d.form = "text" THEN [id |-> d.id]
  ELSE IF d.form = "pair" THEN [id |-> d.id, params |-> d.params]
  ELSE d.fields

\* A policy inside a branch step is never read: its presence is the error.
LoadBranchStep(d) ==
  LET n == Fill(NormalizeStep(d), [params |-> NoParams])
  IN  [id |-> n.id, params |-> n.params,
       own |-> IF "on_failure" \in DOMAIN n THEN <<DefaultPolicy>> ELSE <<>>]
LoadBranch(d) ==
  LET n == Fill(d, [retries |-> 0]) IN [n EXCEPT !.steps = Each(LoadBranchStep, @)]
LoadPolicy(d) ==
  LET n == Fill(d, DefaultPolicy) IN [n EXCEPT !.branches = Each(LoadBranch, @)]
LoadStep(d) ==
  LET n == NormalizeStep(d)
      s == LoadBranchStep(d)
  IN  IF s.own = <<>> THEN s ELSE [s EXCEPT !.own = <<LoadPolicy(n.on_failure)>>]
LoadTrigger(d) == Fill(d, TriggerDefaults[d.type])
LoadBook(d) ==
  LET n == Fill(d, BookDefaults)
  IN  [n EXCEPT !.steps = Each(LoadStep, @), !.trigger = LoadTrigger(@),
                !.on_failure = LoadPolicy(@)]

\* The policies a book holds: its own, at place 0, and those of its steps.
Scopes(b) == {0} \cup {i \in DOMAIN b.steps : b.steps[i].own # <<>>}
PolicyIn(b, k) == IF k = 0 THEN b.on_failure ELSE b.steps[k].own[1]
BranchesOf(b) ==
  UNION {{PolicyIn(b, k).branches[i] : i \in DOMAIN PolicyIn(b, k).branches} : k \in Scopes(b)}
BranchNamesOf(b) == {r.name : r \in BranchesOf(b)}

\* Of the patterns of ids and names only that the empty text has none.
Mapping(r) == r = [k \in DOMAIN r |-> r[k]]
ValidSteps(steps) == steps \in Seq(ToSet(steps)) /\ steps # <<>>
                     /\ \A i \in DOMAIN steps : steps[i].id # "" /\ Mapping(steps[i].params)
ValidBranch(r) ==
  /\ DOMAIN r = {"name", "retries", "steps"} /\ r.name # "" /\ ValidSteps(r.steps)
  /\ \A j \in DOMAIN r.steps : r.steps[j].own = <<>>
ValidPolicy(p) ==
  /\ DOMAIN p = DOMAIN DefaultPolicy /\ p.branches \in Seq(ToSet(p.branches))
  /\ Distinct([i \in DOMAIN p.branches |-> p.branches[i].name])
  /\ \A i \in DOMAIN p.branches : ValidBranch(p.branches[i])
ValidTrigger(t) ==
  /\ t.type \in DOMAIN TriggerDefaults
  /\ DOMAIN t = {"type", "path"} \cup DOMAIN TriggerDefaults[t.type]
  /\ t.type # "manifest" => ~(t.ordinal_regex # <<>> /\ t.arrival_order_ordinals)
UniqueBranchNames(b) ==
  \A k, l \in Scopes(b) :
    \A i \in DOMAIN PolicyIn(b, k).branches, j \in DOMAIN PolicyIn(b, l).branches :
      PolicyIn(b, k).branches[i].name = PolicyIn(b, l).branches[j].name => k = l /\ i = j
ValidBook(b) ==
  /\ DOMAIN b = {"name", "trigger", "steps"} \cup DOMAIN BookDefaults /\ b.name # ""
  /\ ValidSteps(b.steps)
  /\ ValidTrigger(b.trigger)
  /\ \A k \in Scopes(b) : ValidPolicy(PolicyIn(b, k))
  /\ UniqueBranchNames(b)

Loads(d) == d # <<>> /\ "steps" \in DOMAIN d /\ ValidBook(LoadBook(d))

---------------------------------------------------------------------------
(* Dumping: defaults are left out, a step takes its shortest form.         *)

DumpBranchStep(s) == IF s.params = NoParams THEN TextStep(s.id) ELSE PairStep(s.id, s.params)
DumpBranch(r) == Omit([r EXCEPT !.steps = Each(DumpBranchStep, @)], [retries |-> 0])
DumpPolicy(p) == Omit([p EXCEPT !.branches = Each(DumpBranch, @)], DefaultPolicy)
DumpStepForgets(s) ==        \* a step with a policy of its own loses its parameters
  IF s.own = <<>> THEN DumpBranchStep(s)
  ELSE LongStep([id |-> s.id, on_failure |-> DumpPolicy(s.own[1])])
DumpStep(s) ==
  IF s.own = <<>> THEN DumpBranchStep(s)
  ELSE LongStep(Omit([id |-> s.id, params |-> s.params, on_failure |-> DumpPolicy(s.own[1])],
                     [params |-> NoParams]))
DumpTrigger(t) == Omit(t, TriggerDefaults[t.type])
DumpBook(b) ==
  Omit([b EXCEPT !.steps = Each(DumpStep, @), !.trigger = DumpTrigger(@),
                 !.on_failure = IF @ = DefaultPolicy THEN @ ELSE DumpPolicy(@)], BookDefaults)

---------------------------------------------------------------------------
(* What the registry knows beyond the schema: step ids, their parameters   *)
(* and their engines, in the steps and in the branches of every policy.    *)

CheckStepList(steps, engine) ==
  {s \in ToSet(steps) : \/ s.id \notin DOMAIN Steps
                        \/ ~(DOMAIN s.params \subseteq Steps[s.id].keys)
                        \/ engine \notin Steps[s.id].engines}
CheckPlaybook(b) ==
  CheckStepList(b.steps, b.engine)
    \cup UNION {CheckStepList(r.steps, b.engine) : r \in BranchesOf(b)}

StepIds(b) == {s.id : s \in ToSet(b.steps)}
  \cup UNION {{s.id : s \in ToSet(r.steps)} : r \in BranchesOf(b)}
ContainsShellRun(b) == "shell.run" \in StepIds(b)

---------------------------------------------------------------------------
(* Grafting a suggested branch onto a step.  A step without a policy of    *)
(* its own first takes a copy of the playbook's, branches included.        *)

EffectivePolicy(s, b) == IF s.own # <<>> THEN s.own[1] ELSE b.on_failure

UniqueBranchName(b, desired) ==
  LET taken   == BranchNamesOf(b)
      with(k) == desired \o "-" \o ToString(k)
  IN  IF desired \notin taken THEN desired
      ELSE with(CHOOSE k \in 2..Cardinality(taken) + 2 :
                  with(k) \notin taken /\ \A j \in 2..k - 1 : with(j) \in taken)

GraftBranch(b, i, branch) ==
  LET own == EffectivePolicy(b.steps[i], b)
      m   == [b EXCEPT !.steps[i].own = <<own>>]
      new == [branch EXCEPT !.name = UniqueBranchName(m, @)]
  IN  [m EXCEPT !.steps[i].own[1].branches = Append(@, new)]
=============================================================================
