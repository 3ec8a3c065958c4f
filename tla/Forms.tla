------------------------------- MODULE Forms -------------------------------
(***************************************************************************)
(* The editor's form of web/forms.py and the row routes of                 *)
(* web/routes/editor.py.  The form is a flat dictionary whose field names  *)
(* carry row indices ("steps-2-onfail-branches-0-name"); here it is the    *)
(* same data by index: functions from the indices in use, which have gaps  *)
(* once rows were removed.  The scope of a failure policy is the index of  *)
(* its step, or Pipeline for the playbook's own.                           *)
(***************************************************************************)
EXTENDS Integers, Sequences, FiniteSets, FiniteSetsExt, SequencesExt, Playbooks

CONSTANT Stripped    \* what strip() leaves of the texts that have space around them

Pipeline == -1
NoRows == <<>>
Blank == ""

NoPolicyFields == [enabled |-> FALSE, retries |-> 0, then |-> "mark_failed", branches |-> NoRows]
Rows(s, F(_)) == [i \in 0..Len(s) - 1 |-> F(s[i + 1])]
NextIndex(rows) == IF DOMAIN rows = {} THEN 0 ELSE Max(DOMAIN rows) + 1
Without(rows, i) == [k \in DOMAIN rows \ {i} |-> rows[k]]

---------------------------------------------------------------------------
(* From a playbook to the fields, when a version is opened.  A field that  *)
(* is not there shows as an empty one does.                                *)

StepFields(s) == [id |-> s.id, params |-> s.params]
BranchFields(r) == [name |-> r.name, retries |-> r.retries, steps |-> Rows(r.steps, StepFields)]
PolicyFields(p) ==           \* a default policy leaves no field
  IF p = DefaultPolicy THEN NoPolicyFields
  ELSE [enabled |-> TRUE, retries |-> p.retries, then |-> p.then,
        branches |-> Rows(p.branches, BranchFields)]
OwnFieldsNoThen(s) ==        \* forgets what happens when recovery is exhausted
  IF s.own = <<>> THEN NoPolicyFields ELSE [PolicyFields(s.own[1]) EXCEPT !.then = "mark_failed"]
OwnFields(s) == IF s.own = <<>> THEN NoPolicyFields ELSE PolicyFields(s.own[1])

PlaybookToForm(b) ==
  [name |-> b.name, description |-> b.description, engine |-> b.engine, dedup |-> b.dedup,
   trigger |-> b.trigger,
   steps |-> Rows(b.steps, StepFields),
   onfail |-> [i \in {Pipeline} \cup (0..Len(b.steps) - 1) |->
                IF i = Pipeline THEN PolicyFields(b.on_failure) ELSE OwnFields(b.steps[i + 1])]]

---------------------------------------------------------------------------
(* Texts are read without the space around them; where nothing is left, a  *)
(* description or an ordinal regex is none and a word is its default.  A   *)
(* row has an id, whether it is one of the form or a step of a playbook;   *)
(* a branch has a name, and a policy branches.                             *)

Strip(x) == IF x \in DOMAIN Stripped THEN Stripped[x] ELSE x
Word(x, default) == IF Strip(x) = Blank THEN default ELSE Strip(x)
Filled(o) == IF o = <<>> \/ Strip(o[1]) = Blank THEN <<>> ELSE <<Strip(o[1])>>

TidyRow(r) == [r EXCEPT !.id = Strip(@)]
TidyBranch(r) == [r EXCEPT !.name = Strip(@), !.steps = Each(TidyRow, @)]
TidyPolicy(p) == [p EXCEPT !.branches = Each(TidyBranch, @)]
TidyTrigger(t) ==
  [k \in DOMAIN t |-> IF k = "path" THEN Strip(t[k])
                      ELSE IF k = "glob" THEN Word(t[k], "*")
                      ELSE IF k = "ordinal_regex" THEN Filled(t[k])
                      ELSE t[k]]
TidyForm(f) ==
  [f EXCEPT !.name = Strip(@), !.description = Filled(@), !.engine = Word(@, "headless"),
            !.dedup = Word(@, "content_hash"), !.trigger = TidyTrigger(@),
            !.steps = Each(TidyRow, @), !.onfail = Each(TidyPolicy, @)]

---------------------------------------------------------------------------
(* From the fields, once tidy, to a document.  Rows count in the order of  *)
(* their indices; a row without id, a branch without name and a branch     *)
(* left without steps are skipped.                                         *)

InOrder(rows, filled) ==
  LET idx == Ascending(filled) IN [n \in DOMAIN idx |-> rows[idx[n]]]
HasId(row) == row.id # Blank
StepDoc(row) == LongStep([id |-> row.id, params |-> row.params])
WithId(rows) == {i \in DOMAIN rows : HasId(rows[i])}
StepDocs(rows) == Each(StepDoc, InOrder(rows, WithId(rows)))
BranchDocs(rows) ==
  LET named    == {i \in DOMAIN rows : rows[i].name # Blank /\ StepDocs(rows[i].steps) # <<>>}
      doc(row) == [name |-> row.name, retries |-> row.retries, steps |-> StepDocs(row.steps)]
  IN  Each(doc, InOrder(rows, named))
PolicyDoc(p) == [retries |-> p.retries, branches |-> BranchDocs(p.branches), then |-> p.then]

\* The trigger's fields that the chosen type's part of the form reads.
TriggerDoc(t) ==
  LET unread == (IF t.type = "folder_watch" THEN {} ELSE {"settle_seconds"})
                  \cup (IF t.type = "manifest" THEN {} ELSE {"poll_seconds"})
  IN  Omit(Keep(t, DOMAIN t \ unread),
           [glob |-> "*", ordinal_regex |-> <<>>, arrival_order_ordinals |-> FALSE])

StepsOfForm(f) ==
  LET doc(i) == LET row == f.steps[i]
                IN  IF f.onfail[i].enabled
                    THEN LongStep([id |-> row.id, params |-> row.params,
                                   on_failure |-> PolicyDoc(f.onfail[i])])
                    ELSE StepDoc(row)
  IN  Each(doc, Ascending(WithId(f.steps)))

FormComplete(f) == f.name # Blank /\ StepsOfForm(f) # <<>>
FieldsToDoc(f) ==
  LET given == [name |-> f.name, trigger |-> TriggerDoc(f.trigger), steps |-> StepsOfForm(f)]
      rest  == Omit([description |-> f.description, engine |-> f.engine, dedup |-> f.dedup],
                    BookDefaults)
      own   == IF f.onfail[Pipeline].enabled
               THEN [on_failure |-> PolicyDoc(f.onfail[Pipeline])] ELSE NoRows
  IN  Fill(given, Fill(rest, own))
FormToDoc(f) == FieldsToDoc(TidyForm(f))

\* Either tab's content, validated: whether it is a playbook, which one, and
\* whether the registry accepts it.
FormLoads(f) == FormComplete(TidyForm(f)) /\ Loads(FormToDoc(f))
FormBook(f) == LoadBook(FormToDoc(f))

---------------------------------------------------------------------------
(* The row routes: a new row takes the index after the highest in use, a   *)
(* removed row takes every field under its index with it.                  *)

BlankStep == [id |-> Blank, params |-> NoParams]
BlankBranch == [name |-> Blank, retries |-> 0, steps |-> NoRows]
At(rows, i, row) == [k \in DOMAIN rows \cup {i} |-> IF k = i THEN row ELSE rows[k]]

AddStep(f) ==
  LET i == NextIndex(f.steps)
  IN  [f EXCEPT !.steps = At(@, i, BlankStep), !.onfail = At(@, i, NoPolicyFields)]
RemoveStep(f, i) == [f EXCEPT !.steps = Without(@, i), !.onfail = Without(@, i)]
AddBranch(f, scope) ==
  [f EXCEPT !.onfail[scope].enabled = TRUE,
            !.onfail[scope].branches = At(@, NextIndex(@), BlankBranch)]
RemoveBranch(f, scope, i) == [f EXCEPT !.onfail[scope].branches = Without(@, i)]
AddBranchStep(f, scope, i) ==
  [f EXCEPT !.onfail[scope].branches[i].steps = At(@, NextIndex(@), BlankStep)]
RemoveBranchStep(f, scope, i, j) ==
  [f EXCEPT !.onfail[scope].branches[i].steps = Without(@, j)]
=============================================================================
