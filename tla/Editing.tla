------------------------------ MODULE Editing ------------------------------
(***************************************************************************)
(* Playbook versions and everything that writes them: the editor pages of  *)
(* web/routes/editor.py, the registration form and the AI branch flow of   *)
(* web/routes, and the commands run and approve-branch of cli/main.py,     *)
(* over the version half of core/ledger.py.                                *)
(*                                                                         *)
(* Web handlers run one at a time, but each is several transactions, and   *)
(* approve-branch is another process that takes no lock: a handler first   *)
(* reads (Begin...), and the registration it asks for is a step of its own *)
(* (Register).  The commands run and serve exclude each other by the       *)
(* writer lock.  Browser tabs are pages that outlive what they show.       *)
(***************************************************************************)
EXTENDS Integers, Sequences, FiniteSets, TLC, Playbooks, Forms, Diffing

CONSTANTS
  Names,          \* pipeline names
  Tabs,           \* browser tabs
  Starter,        \* the book a new pipeline starts from
  First,          \* the document registered before the model begins
  Texts,          \* documents a user may paste or keep in a playbook file
  Advice,         \* branches the language model may suggest
  Typed,          \* what a user may type: [names, ids, params, branches]
  MaxVersions,    \* bound: rows in playbook_versions
  MaxInputs,      \* bound: changes made to open pages, suggestions made by the model
  MaxStops        \* bound: stops of the server

\* A registration is of a text that loads.
ASSUME EditingAssumption == Loads(First)

VARIABLES
  versions,       \* playbook_versions: [pipeline, parent, doc], by id; parent 0 is none
  current,        \* [Names -> id], 0 for none
  tabs,           \* [Tabs -> page]
  pending,        \* the task's entry in BranchSuggestionStore, at most one
  calls,          \* [Callers -> registration asked for, at most one]
  lock,           \* who holds the writer lock
  inputs, stops   \* counters for the bounds

vars == <<versions, current, tabs, pending, calls, lock, inputs, stops>>
store == <<versions, current>>
counts == <<inputs, stops>>

Callers == {"web", "run", "approve"}
New == ""                    \* the page of a pipeline not yet registered
Ids == DOMAIN versions
Of(p) == {v \in Ids : versions[v].pipeline = p}
Doc(v) == versions[v].doc
CurrentDoc(p) == Doc(current[p])

Closed == [tab |-> "closed"]
Open(t) == tabs[t].tab # "closed"
\* "shows" and "advised" are no fields of the page: the version its content
\* comes from, and whether it was filled with a suggestion.
Page(tab, p, base, form, doc, lab, shows) ==
  [tab |-> tab, pipeline |-> p, base |-> base, form |-> form, doc |-> doc,
   lab |-> lab, shows |-> shows, advised |-> FALSE]

---------------------------------------------------------------------------
(* The ledger's transaction.                                               *)

ParentOf(book, parent) ==
  IF parent # 0 THEN parent
  ELSE IF book.meta # <<>> THEN book.meta[1]
  ELSE current[book.name]

RegisterPipeline(book, doc, parent, promote) ==
  LET v == Len(versions) + 1
  IN  /\ versions' = Append(versions, [pipeline |-> book.name, doc |-> doc,
                                       parent |-> ParentOf(book, parent)])
      /\ current' = IF promote THEN [current EXCEPT ![book.name] = v] ELSE current

SetCurrentVersion(p, v) ==
  /\ v \in Of(p)
  /\ current' = [current EXCEPT ![p] = v]
  /\ UNCHANGED versions

---------------------------------------------------------------------------
(* Pages.                                                                  *)

\* A version opens when it belongs to the pipeline of the address, loads, and
\* the pipeline has a current version; else the answer is an error.
Opens(vs, cur, p, v) == vs[v].pipeline = p /\ Loads(vs[v].doc) /\ cur[p] # 0
EditorPage(vs, p, v, lab) ==
  Page("form", p, v, PlaybookToForm(LoadBook(vs[v].doc)), vs[v].doc, lab, v)

ContentLoads(g) == IF g.tab = "form" THEN FormLoads(g.form) ELSE Loads(g.doc)
ContentBook(g) == IF g.tab = "form" THEN FormBook(g.form) ELSE LoadBook(g.doc)
Accepted(g) == ContentLoads(g) /\ CheckPlaybook(ContentBook(g)) = {}

Web == lock = "serve" /\ calls["web"] = <<>>
Show(t, g) == tabs' = [tabs EXCEPT ![t] = g] /\ UNCHANGED <<store, pending, calls, lock>>

EditorNew(t) ==
  /\ Web
  /\ Show(t, Page("form", New, 0, PlaybookToForm(Starter), DumpBook(Starter), FALSE, 0))
  /\ UNCHANGED counts

EditorEdit(t, v, lab) ==
  /\ Web
  /\ LET p == versions[v].pipeline
     IN  Opens(versions, current, p, v) /\ Show(t, EditorPage(versions, p, v, lab))
  /\ UNCHANGED counts

OpenSuggestion(t) ==         \* the current version's page with the suggested text in it
  /\ Web /\ pending # <<>>
  /\ LET p == pending[1].pipeline
     IN  /\ Opens(versions, current, p, current[p])
         /\ Show(t, [EditorPage(versions, p, current[p], FALSE) EXCEPT
                       !.tab = "yaml", !.doc = pending[1].doc, !.advised = TRUE])
  /\ UNCHANGED counts

\* The pages rendered again by validate, to-yaml and to-form take over every
\* field of the form but from_lab.  The text that comes with a page in the form
\* tab is not kept up: nothing reads it before the page turns to YAML again,
\* which sets it.
EditorValidate(t) ==
  LET g == tabs[t]
  IN  /\ Web /\ Open(t)
      /\ Show(t, [g EXCEPT !.lab = FALSE,
                           !.doc = IF Accepted(g) THEN DumpBook(ContentBook(g)) ELSE @])
      /\ UNCHANGED counts

EditorToYaml(t) ==
  LET g == [tabs[t] EXCEPT !.lab = FALSE]
  IN  /\ Web /\ Open(t) /\ g.tab = "form"
      /\ Show(t, IF Accepted(g) THEN [g EXCEPT !.tab = "yaml", !.doc = DumpBook(FormBook(g.form))]
                 ELSE g)
      /\ UNCHANGED counts

EditorToFormRebased(t) ==    \* loses base_version on the way
  LET g == [tabs[t] EXCEPT !.lab = FALSE]
  IN  /\ Web /\ Open(t) /\ g.tab = "yaml" /\ Accepted(g)
      /\ Show(t, [g EXCEPT !.tab = "form", !.form = PlaybookToForm(LoadBook(g.doc)), !.base = 0])
      /\ UNCHANGED counts

EditorToForm(t) ==
  LET g == [tabs[t] EXCEPT !.lab = FALSE]
      b == LoadBook(g.doc)
  IN  /\ Web /\ Open(t) /\ g.tab = "yaml"
      /\ Show(t, IF Accepted(g) THEN [g EXCEPT !.tab = "form", !.form = PlaybookToForm(b),
                                               !.doc = DumpBook(b)]
                 ELSE g)
      /\ UNCHANGED counts

\* The row routes.
RowRoutes(f) ==
  {AddStep(f)} \cup {RemoveStep(f, i) : i \in DOMAIN f.steps}
  \cup UNION {
    {AddBranch(f, s)}
    \cup {RemoveBranch(f, s, i) : i \in DOMAIN f.onfail[s].branches}
    \cup {AddBranchStep(f, s, i) : i \in DOMAIN f.onfail[s].branches}
    \cup UNION {{RemoveBranchStep(f, s, i, j) : j \in DOMAIN f.onfail[s].branches[i].steps}
                : i \in DOMAIN f.onfail[s].branches}
    : s \in DOMAIN f.onfail}

EditorRows(t) ==
  /\ Web /\ Open(t) /\ tabs[t].tab = "form" /\ inputs < MaxInputs
  /\ \E f \in RowRoutes(tabs[t].form) : Show(t, [tabs[t] EXCEPT !.form = f])
  /\ inputs' = inputs + 1 /\ UNCHANGED stops

\* What a user types into one field, or over the whole text.
TypedForms(f) ==
  {[f EXCEPT !.name = n] : n \in Typed.names}
  \cup {[f EXCEPT !.steps[i].id = x] : i \in DOMAIN f.steps, x \in Typed.ids}
  \cup {[f EXCEPT !.steps[i].params = q] : i \in DOMAIN f.steps, q \in Typed.params}
  \cup {[f EXCEPT !.onfail[s].enabled = TRUE, !.onfail[s].then = "skip"] : s \in DOMAIN f.onfail}
  \cup UNION {UNION {
    {[f EXCEPT !.onfail[s].branches[i].name = n] : n \in Typed.branches}
    \cup {[f EXCEPT !.onfail[s].branches[i].steps[j].id = x] :
            j \in DOMAIN f.onfail[s].branches[i].steps, x \in Typed.ids}
    : i \in DOMAIN f.onfail[s].branches} : s \in DOMAIN f.onfail}

Type(t) ==
  /\ Open(t) /\ inputs < MaxInputs
  /\ \/ tabs[t].tab = "form" /\ \E f \in TypedForms(tabs[t].form) :
          tabs' = [tabs EXCEPT ![t].form = f]
     \/ tabs[t].tab = "yaml" /\ \E d \in Texts : tabs' = [tabs EXCEPT ![t].doc = d]
  /\ inputs' = inputs + 1
  /\ UNCHANGED <<store, pending, calls, lock, stops>>

---------------------------------------------------------------------------
(* Handlers that store a version: what each reads and asks for.            *)

Call(op, from, read, book, doc, parent, promote) ==     \* from: the tab, if any
  [op |-> op, from |-> from, read |-> read, book |-> book, doc |-> doc,
   parent |-> parent, promote |-> promote]
Ask(caller, c) ==
  /\ calls' = [calls EXCEPT ![caller] = <<c>>]
  /\ UNCHANGED <<store, tabs, counts>>

\* A save moves the pipeline on only from its current version, and never from
\* a page the lab opened.
BeginSave(t) ==
  LET g    == tabs[t]
      read == current[g.pipeline]
      base == IF g.base # 0 THEN g.base ELSE read
  IN  /\ Web /\ Open(t) /\ g.pipeline # New /\ Accepted(g)
      /\ Ask("web", Call("save", {t}, read, ContentBook(g), DumpBook(ContentBook(g)), base,
                         base = read /\ ~g.lab))
      /\ UNCHANGED <<pending, lock>>

BeginSaveNew(t) ==
  LET g == tabs[t]
  IN  /\ Web /\ Open(t) /\ g.pipeline = New /\ Accepted(g)
      /\ Of(ContentBook(g).name) = {}
      /\ Ask("web", Call("new", {t}, 0, ContentBook(g), DumpBook(ContentBook(g)), 0, TRUE))
      /\ UNCHANGED <<pending, lock>>

\* The dashboard's form, with the shell.run callout confirmed.
BeginPaste(d) ==
  LET b == LoadBook(d)
  IN  /\ Web /\ Loads(d) /\ CheckPlaybook(b) = {}
      /\ Of(b.name) # {} => current[b.name] # 0 /\ CurrentDoc(b.name) # DumpBook(b)
      /\ Ask("web", Call("paste", {}, current[b.name], b, DumpBook(b), 0, TRUE))
      /\ UNCHANGED <<pending, lock>>

MakeCurrent(p, v) ==
  /\ Web
  /\ SetCurrentVersion(p, v)
  /\ UNCHANGED <<tabs, pending, calls, lock, counts>>

BeginRevert(p, v) ==
  /\ Web /\ current[p] # 0 /\ v \in Of(p) /\ Loads(Doc(v))
  /\ Ask("web", Call("revert", {}, current[p], LoadBook(Doc(v)), Doc(v), current[p], TRUE))
  /\ UNCHANGED <<pending, lock>>

---------------------------------------------------------------------------
(* AI recovery branches.  The branch is grafted onto the current version's *)
(* failing step when it is suggested, and approved whenever the user does. *)

Suggestion(p, branch, i) ==
  LET b == GraftBranch(LoadBook(CurrentDoc(p)), i, branch)
  IN  [pipeline |-> p, doc |-> DumpBook(b),
       book |-> IF CheckPlaybook(b) = {} THEN <<b>> ELSE <<>>]
Suggestible(p) == current[p] # 0 /\ Loads(CurrentDoc(p))
Suggestions == UNION {{Suggestion(p, r, i) : r \in Advice,
                       i \in DOMAIN LoadBook(CurrentDoc(p)).steps} : p \in {q \in Names : Suggestible(q)}}

SuggestBranch ==
  /\ Web /\ inputs < MaxInputs
  /\ \E s \in Suggestions : pending' = <<s>>
  /\ inputs' = inputs + 1
  /\ UNCHANGED <<store, tabs, calls, lock, stops>>
DiscardBranch ==
  /\ Web /\ pending # <<>>
  /\ pending' = <<>>
  /\ UNCHANGED <<store, tabs, calls, lock, counts>>

ApproveCall(s) ==            \* the parent is the version current now
  Call("approve", {}, current[s.pipeline], s.book[1], DumpBook(s.book[1]),
       current[s.pipeline], TRUE)
BeginApprove ==
  /\ Web /\ pending # <<>> /\ pending[1].book # <<>>
  /\ Ask("web", ApproveCall(pending[1]))
  /\ UNCHANGED <<pending, lock>>

\* approve-branch --apply: the suggestion is made, then the parent is read.
CliSuggest ==
  /\ calls["approve"] = <<>> /\ inputs < MaxInputs
  /\ \E s \in Suggestions :
       s.book # <<>> /\ calls' = [calls EXCEPT !["approve"] = <<[op |-> "suggested", suggestion |-> s]>>]
  /\ inputs' = inputs + 1
  /\ UNCHANGED <<store, tabs, pending, lock, stops>>
CliBeginApprove ==
  /\ calls["approve"] # <<>> /\ calls["approve"][1].op = "suggested"
  /\ Ask("approve", ApproveCall(calls["approve"][1].suggestion))
  /\ UNCHANGED <<pending, lock>>

---------------------------------------------------------------------------
(* The command run registers its file, unless the current version has the  *)
(* same text, and holds the writer lock until it ends.                     *)

CliRun(d) ==
  LET b == LoadBook(d)
      same == current[b.name] # 0 /\ CurrentDoc(b.name) = d
  IN  /\ lock = "none" /\ Loads(d) /\ CheckPlaybook(b) = {}
      /\ lock' = "run"
      /\ calls' = IF same THEN calls
                  ELSE [calls EXCEPT !["run"] = <<Call("run", {}, current[b.name], b, d, 0, TRUE)>>]
      /\ UNCHANGED <<store, tabs, pending, counts>>
CliRunEnds ==
  /\ lock = "run" /\ calls["run"] = <<>>
  /\ lock' = "none"
  /\ UNCHANGED <<store, tabs, pending, calls, counts>>

---------------------------------------------------------------------------
(* The registration itself and the answer to who asked for it.             *)

Answer(c, t, v) ==           \* the page the tab is left with
  LET p == IF c.op = "new" THEN c.book.name ELSE tabs[t].pipeline
      lab == c.op = "save" /\ ~c.promote /\ tabs[t].lab
  IN  IF Opens(versions', current', p, v) THEN EditorPage(versions', p, v, lab) ELSE Closed

Register(caller) ==
  /\ calls[caller] # <<>> /\ calls[caller][1].op # "suggested"
  /\ Len(versions) < MaxVersions
  /\ LET c == calls[caller][1]
     IN  /\ RegisterPipeline(c.book, c.doc, c.parent, c.promote)
         /\ tabs' = [t \in Tabs |-> IF t \in c.from THEN Answer(c, t, Len(versions) + 1)
                                   ELSE tabs[t]]
         /\ pending' = IF caller = "web" /\ c.op = "approve" THEN <<>> ELSE pending
  /\ calls' = [calls EXCEPT ![caller] = <<>>]
  /\ UNCHANGED <<lock, counts>>

---------------------------------------------------------------------------
(* The server stops or dies: a handler between two transactions is gone,   *)
(* and so are the suggestions, which live in its memory.                   *)

Stop ==
  /\ lock = "serve" /\ stops < MaxStops
  /\ stops' = stops + 1
  /\ lock' = "none"
  /\ calls' = [calls EXCEPT !["web"] = <<>>]
  /\ pending' = <<>>
  /\ UNCHANGED <<store, tabs, inputs>>
Serve ==
  /\ lock = "none"
  /\ lock' = "serve"
  /\ UNCHANGED <<store, tabs, pending, calls, counts>>

Init ==
  /\ versions = <<[pipeline |-> First.name, parent |-> 0, doc |-> First]>>
  /\ current = [p \in Names |-> IF p = First.name THEN 1 ELSE 0]
  /\ tabs = [t \in Tabs |-> Closed]
  /\ pending = <<>>
  /\ calls = [c \in Callers |-> <<>>]
  /\ lock = "serve"
  /\ inputs = 0 /\ stops = 0

Next ==
  \/ \E t \in Tabs : \/ EditorNew(t) \/ OpenSuggestion(t)
                     \/ \E v \in Ids, lab \in BOOLEAN : EditorEdit(t, v, lab)
                     \/ EditorValidate(t) \/ EditorToYaml(t) \/ EditorToForm(t)
                     \/ EditorRows(t) \/ Type(t) \/ BeginSave(t) \/ BeginSaveNew(t)
  \/ \E d \in Texts : BeginPaste(d) \/ CliRun(d)
  \/ \E p \in Names, v \in Ids : MakeCurrent(p, v) \/ BeginRevert(p, v)
  \/ SuggestBranch \/ DiscardBranch \/ BeginApprove \/ CliSuggest \/ CliBeginApprove
  \/ CliRunEnds \/ Stop \/ Serve
  \/ \E c \in Callers : Register(c)

Spec == Init /\ [][Next]_vars

---------------------------------------------------------------------------
(* Properties.                                                             *)

\* Every version of a pipeline is on its history page exactly once and, unless
\* it starts a tree, below its parent and one level deeper: also a version
\* whose parent belongs to the pipeline its playbook was renamed from
\* (_version_tree_rows, save_version).  Excepted are versions whose ancestors
\* come round in a circle, which a playbook's metadata can make by naming a
\* parent that does not exist yet (register_pipeline).
Circular(p) == UNION {S \in SUBSET Of(p) : \A v \in S : versions[v].parent \in S}
TreeShowsAll ==
  \A p \in Names :
    LET rows == VersionTreeRows([v \in Of(p) |-> versions[v].parent])
        at(v) == {i \in DOMAIN rows : rows[i].version = v}
    IN  \A v \in Of(p) \ Circular(p) :
          /\ Cardinality(at(v)) = 1
          /\ \A u \in Of(p) : u = versions[v].parent =>
               \A i \in at(u), j \in at(v) : i < j /\ rows[j].depth = rows[i].depth + 1

\* A save from one tab never takes a change of another tab off the current
\* version: when a save replaces the current version of a pipeline, the page
\* it saved was opened from that version, through every change of tab and
\* validation on the way (save_version).  Excepted are pages filled with a
\* suggestion, a change another process made between the two transactions of
\* the save, and a page on which the playbook got the name of another
\* pipeline: register_pipeline goes by the name, and the save replaces the
\* current version of a pipeline that the page never showed.
Renamed(c, t) == c.book.name # tabs[t].pipeline
NoLostUpdate ==
  [][\A c \in ToSet(calls["web"]) : \A t \in c.from :
       LET p == c.book.name
       IN  calls'["web"] = <<>> /\ c.op = "save" /\ current'[p] # current[p]
             => \/ tabs[t].shows = current[p]
                \/ tabs[t].advised \/ c.read # current[p] \/ Renamed(c, t)]_vars

\* Versions are never changed, so what is said of documents is checked when
\* one is stored, against every version there is.
Stored(ok(_, _)) ==
  versions' # versions =>
    LET new == versions'[Len(versions')].doc
    IN  \A v \in DOMAIN versions' : ok(versions'[v].doc, new)

\* dump_playbook's guarantee: what is dumped loads as the same playbook.
DumpKeeps(old, new) ==
  Loads(new) => LET b == LoadBook(new) IN Loads(DumpBook(b)) /\ LoadBook(DumpBook(b)) = b
RoundTrip == [][Stored(DumpKeeps)]_vars

\* What the form and the summary take for the same playbook: an explicit
\* default policy is no policy, metadata is left out.
SameStep(s) == IF s.own = <<DefaultPolicy>> THEN [s EXCEPT !.own = <<>>] ELSE s
Same(b) == [b EXCEPT !.meta = <<>>, !.steps = Each(SameStep, @)]

\* Opening a version in the form and saving it untouched stores the same
\* playbook, with every rung, step and parameter, but for the space around its
\* texts (playbook_to_form, form_to_dict; docs/editor.md: recovery branches,
\* steps and params are preserved).  A playbook that is none without that
\* space, as when two branches get the same name, the form may refuse.
TidyStep(s) == [s EXCEPT !.id = Strip(@), !.own = Each(TidyPolicy, @)]
Tidied(b) ==
  [b EXCEPT !.name = Strip(@), !.description = Filled(@), !.engine = Word(@, "headless"),
            !.dedup = Word(@, "content_hash"), !.trigger = TidyTrigger(@),
            !.steps = Each(TidyStep, @), !.on_failure = TidyPolicy(@)]
FormKeeps(old, new) ==
  Loads(new) => LET b == LoadBook(new) f == PlaybookToForm(b)
                IN  ValidBook(Tidied(b)) => FormLoads(f) /\ Same(FormBook(f)) = Same(Tidied(b))
FormKeepsBook == [][Stored(FormKeeps)]_vars

\* The change summary of the diff page is empty only for versions that differ
\* in the order of branches at most, and says nothing of versions that do not
\* differ at all (summarize_playbook_changes).
Unordered(b) ==
  LET policy(p) == [p EXCEPT !.branches = ToSet(@)]
      step(s)   == [s EXCEPT !.own = Each(policy, @)]
  IN  [Same(b) EXCEPT !.steps = Each(step, @), !.on_failure = policy(@)]
Tells(old, new) ==
  LET page == DiffPage(old, new)
  IN  page.says = "summary" =>
        (page.items = {} <=> Unordered(LoadBook(old)) = Unordered(LoadBook(new)))
SummaryTellsAll == [][Stored(Tells)]_vars

\* The side-by-side table shows every line of both texts once and in order
\* (side_by_side_rows).
Column(rows, side, lines) ==
  /\ {rows[k][side] : k \in DOMAIN rows} \ {0} = DOMAIN lines
  /\ \A k, l \in DOMAIN rows : k < l /\ rows[k][side] # 0 /\ rows[l][side] # 0 =>
       rows[k][side] < rows[l][side]
Shows(old, new) ==
  LET s == TextLines(CanonicalForDiff(old))
      t == TextLines(CanonicalForDiff(new))
      rows == SideBySide(s, t)
  IN  Column(rows, "old", s) /\ Column(rows, "new", t)
NothingHidden == [][Stored(Shows)]_vars

\* Every model output is validated as a full playbook before it is shown, so
\* the current version of a pipeline always loads (docs/ai-features.md).
CurrentLoads == \A p \in Names : current[p] # 0 => Loads(CurrentDoc(p))
=============================================================================
