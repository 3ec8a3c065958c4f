---------------------------- MODULE EditingProofs ----------------------------
(***************************************************************************)
(* Theorems about the playbooks' texts, the editor's form and its saves.   *)
(*                                                                         *)
(* DumpsRoundTrip and TheFormKeeps are said of every document that loads,  *)
(* whatever its size: a dump or a form is undone level by level, first a   *)
(* branch's steps, then branches, policies, steps with policies, and last  *)
(* the book.  What a level needs to know of the one below is that it was   *)
(* loaded (PlainStep, BranchLoaded, PolicyLoaded, StepLoaded, BookLoaded): *)
(* a function with exactly the fields of its kind.  The form strips its    *)
(* texts first; that commutes with filling the form, level by level        *)
(* (TidyPlain, TidyBranchLoaded, ... TidiedLoaded), and what is left is    *)
(* loaded again if it is a playbook at all.                                *)
(*                                                                         *)
(* NothingIsLost rests on SaveInv: a page of a pipeline names the version  *)
(* it was opened from and shows it, and a save that waits for its          *)
(* transaction still has that page and will only move the pipeline on if   *)
(* the version it read was the page's.                                     *)
(*                                                                         *)
(* NothingIsHidden and TreesShowAll are about the recursive functions of   *)
(* Diffing. Each is restated as the function its equation chooses          *)
(* (MatchIn, TableOf, FlatOf, TreeOf) and shown to satisfy that equation   *)
(* by induction on what shrinks: the size of a window, what is left of the *)
(* texts, the number of lists, the levels left below a version. The        *)
(* induction itself is Least and Induction, facts about sets of numbers.   *)
(* The table's rows from a place on cover the texts from there on          *)
(* (Covers), and PrintInv says that what is stored or waits to be stored   *)
(* can be printed. The rows of the history page form a Forest, which lists *)
(* every version but those whose ancestors come round in a circle.         *)
(*                                                                         *)
(* TheSummaryTells goes down the book with the summary: at every level     *)
(* what is compared is the same if and only if there is nothing to say.    *)
(* Steps need the matcher once more: pairs that go down both lists         *)
(* (Downward) and leave nothing out pair every place with itself           *)
(* (AllPaired).                                                            *)
(***************************************************************************)
EXTENDS Editing, TLAPS, FiniteSetTheorems, FunctionTheorems, WellFoundedInduction

-----------------------------------------------------------------------------
(* Loading and dumping, a level of the playbook at a time.                 *)

(* What is left out comes back.                                            *)
LEMMA OmitFill ==
  ASSUME NEW r, Mapping(r), NEW D, DOMAIN D \subseteq DOMAIN r
  PROVE  Fill(Omit(r, D), D) = r
  BY DEF Mapping, Fill, Omit, Keep

LEMMA KeptField ==
  ASSUME NEW r, NEW D, NEW k \in DOMAIN r, k \notin DOMAIN D
  PROVE  k \in DOMAIN Omit(r, D) /\ Omit(r, D)[k] = r[k]
  BY DEF Omit, Keep

(* A step without a policy, as it is loaded.                                *)
Plain(s) == s = [id |-> s.id, params |-> s.params, own |-> <<>>]

LEMMA PlainStep ==
  ASSUME NEW s, Plain(s)
  PROVE  LoadBranchStep(DumpBranchStep(s)) = s
<1>1. CASE s.params = NoParams
  <2>1. DumpBranchStep(s) = [form |-> "text", id |-> s.id]
    BY <1>1 DEF DumpBranchStep, TextStep
  <2>2. NormalizeStep(DumpBranchStep(s)) = [id |-> s.id]
    BY <2>1 DEF NormalizeStep
  <2>3. Fill([id |-> s.id], [params |-> NoParams]) = [id |-> s.id, params |-> NoParams]
    BY DEF Fill
  <2>4. QED  BY <1>1, <2>2, <2>3 DEF LoadBranchStep, Plain
<1>2. CASE s.params # NoParams
  <2>1. DumpBranchStep(s) = [form |-> "pair", id |-> s.id, params |-> s.params]
    BY <1>2 DEF DumpBranchStep, PairStep
  <2>2. NormalizeStep(DumpBranchStep(s)) = [id |-> s.id, params |-> s.params]
    BY <2>1 DEF NormalizeStep
  <2>3. Fill([id |-> s.id, params |-> s.params], [params |-> NoParams])
          = [id |-> s.id, params |-> s.params]
    BY DEF Fill
  <2>4. QED  BY <2>2, <2>3 DEF LoadBranchStep, Plain
<1>3. QED  BY <1>1, <1>2

BranchLoaded(r) ==
  /\ Mapping(r) /\ DOMAIN r = {"name", "retries", "steps"}
  /\ Mapping(r.steps) /\ \A i \in DOMAIN r.steps : Plain(r.steps[i])

LEMMA LoadedBranch ==
  ASSUME NEW d, ValidBranch(LoadBranch(d))
  PROVE  BranchLoaded(LoadBranch(d))
<1> DEFINE n == Fill(d, [retries |-> 0])
           r == LoadBranch(d)
<1>1. r = [n EXCEPT !.steps = Each(LoadBranchStep, @)] /\ Mapping(n)
  BY DEF LoadBranch, Fill, Mapping
<1>2. DOMAIN r = {"name", "retries", "steps"} /\ \A j \in DOMAIN r.steps : r.steps[j].own = <<>>
  BY DEF ValidBranch
<1> HIDE DEF n, r
<1>3. DOMAIN n = DOMAIN r /\ Mapping(r)
  BY <1>1 DEF Mapping
<1>4. r.steps = Each(LoadBranchStep, n.steps)
  BY <1>1, <1>2, <1>3
<1>5. /\ Mapping(r.steps)
      /\ \A i \in DOMAIN r.steps : r.steps[i] = LoadBranchStep(n.steps[i])
  BY <1>4 DEF Each, Mapping
<1>6. ASSUME NEW i \in DOMAIN r.steps PROVE Plain(r.steps[i])
  BY <1>2, <1>5 DEF LoadBranchStep, Plain
<1>7. QED  BY <1>2, <1>3, <1>5, <1>6 DEF BranchLoaded, r

LEMMA BranchBack ==
  ASSUME NEW r, BranchLoaded(r)
  PROVE  LoadBranch(DumpBranch(r)) = r
<1> DEFINE e == [r EXCEPT !.steps = Each(DumpBranchStep, @)]
           D == [retries |-> 0]
<1>1. Mapping(e) /\ DOMAIN e = DOMAIN r /\ DOMAIN D \subseteq DOMAIN e
  BY DEF BranchLoaded, Mapping
<1>2. DumpBranch(r) = Omit(e, D)
  BY DEF DumpBranch
<1>3. e.steps = Each(DumpBranchStep, r.steps) /\ \A k \in DOMAIN r : k # "steps" => e[k] = r[k]
  BY DEF BranchLoaded, Mapping
<1> HIDE DEF e, D
<1>4. Fill(DumpBranch(r), D) = e
  BY <1>1, <1>2, OmitFill
<1>5. LoadBranch(DumpBranch(r)) = [e EXCEPT !.steps = Each(LoadBranchStep, @)]
  BY <1>4 DEF LoadBranch, D
<1>6. Each(LoadBranchStep, e.steps) = r.steps
  <2>1. DOMAIN e.steps = DOMAIN r.steps
        /\ \A i \in DOMAIN r.steps : e.steps[i] = DumpBranchStep(r.steps[i])
    BY <1>3 DEF Each
  <2>2. \A i \in DOMAIN r.steps : LoadBranchStep(e.steps[i]) = r.steps[i]
    BY <2>1, PlainStep DEF BranchLoaded
  <2>3. QED  BY <2>1, <2>2 DEF Each, BranchLoaded, Mapping
<1>7. QED  BY <1>1, <1>3, <1>5, <1>6 DEF BranchLoaded, Mapping

PolicyLoaded(p) ==
  /\ Mapping(p) /\ DOMAIN p = DOMAIN DefaultPolicy
  /\ Mapping(p.branches) /\ \A i \in DOMAIN p.branches : BranchLoaded(p.branches[i])

LEMMA PolicyFieldNames == DOMAIN DefaultPolicy = {"retries", "branches", "then"}
  BY DEF DefaultPolicy

LEMMA LoadedPolicy ==
  ASSUME NEW d, ValidPolicy(LoadPolicy(d))
  PROVE  PolicyLoaded(LoadPolicy(d))
<1> DEFINE n == Fill(d, DefaultPolicy)
           p == LoadPolicy(d)
<1>1. p = [n EXCEPT !.branches = Each(LoadBranch, @)] /\ Mapping(n)
  BY DEF LoadPolicy, Fill, Mapping
<1>2. DOMAIN p = DOMAIN DefaultPolicy /\ \A i \in DOMAIN p.branches : ValidBranch(p.branches[i])
  BY DEF ValidPolicy
<1> HIDE DEF n, p
<1>3. DOMAIN n = DOMAIN p /\ Mapping(p)
  BY <1>1 DEF Mapping
<1>4. p.branches = Each(LoadBranch, n.branches)
  BY <1>1, <1>2, <1>3, PolicyFieldNames
<1>5. /\ Mapping(p.branches)
      /\ \A i \in DOMAIN p.branches : p.branches[i] = LoadBranch(n.branches[i])
  BY <1>4 DEF Each, Mapping
<1>6. \A i \in DOMAIN p.branches : BranchLoaded(p.branches[i])
  BY <1>2, <1>5, LoadedBranch
<1>7. QED  BY <1>2, <1>3, <1>5, <1>6 DEF PolicyLoaded, p

LEMMA PolicyBack ==
  ASSUME NEW p, PolicyLoaded(p)
  PROVE  LoadPolicy(DumpPolicy(p)) = p
<1> DEFINE e == [p EXCEPT !.branches = Each(DumpBranch, @)]
<1>1. Mapping(e) /\ DOMAIN e = DOMAIN p /\ DOMAIN DefaultPolicy \subseteq DOMAIN e
  BY DEF PolicyLoaded, Mapping
<1>2. DumpPolicy(p) = Omit(e, DefaultPolicy)
  BY DEF DumpPolicy
<1>3. e.branches = Each(DumpBranch, p.branches)
      /\ \A k \in DOMAIN p : k # "branches" => e[k] = p[k]
  BY PolicyFieldNames DEF PolicyLoaded, Mapping
<1> HIDE DEF e
<1>4. Fill(DumpPolicy(p), DefaultPolicy) = e
  BY <1>1, <1>2, OmitFill
<1>5. LoadPolicy(DumpPolicy(p)) = [e EXCEPT !.branches = Each(LoadBranch, @)]
  BY <1>4 DEF LoadPolicy
<1>6. Each(LoadBranch, e.branches) = p.branches
  <2>1. DOMAIN e.branches = DOMAIN p.branches
        /\ \A i \in DOMAIN p.branches : e.branches[i] = DumpBranch(p.branches[i])
    BY <1>3 DEF Each
  <2>2. \A i \in DOMAIN p.branches : LoadBranch(e.branches[i]) = p.branches[i]
    BY <2>1, BranchBack DEF PolicyLoaded
  <2>3. QED  BY <2>1, <2>2 DEF Each, PolicyLoaded, Mapping
<1>7. QED  BY <1>1, <1>3, <1>5, <1>6, PolicyFieldNames DEF PolicyLoaded, Mapping

LEMMA DefaultLoads == LoadPolicy(DefaultPolicy) = DefaultPolicy
<1>1. Fill(DefaultPolicy, DefaultPolicy) = DefaultPolicy
  BY DEF Fill, DefaultPolicy
<1>2. Each(LoadBranch, <<>>) = <<>>
  BY DEF Each
<1>3. QED  BY <1>1, <1>2 DEF LoadPolicy, DefaultPolicy

StepLoaded(s) ==
  \/ Plain(s)
  \/ /\ s = [id |-> s.id, params |-> s.params, own |-> <<s.own[1]>>]
     /\ PolicyLoaded(s.own[1])

LEMMA LoadedStep ==
  ASSUME NEW d, LoadStep(d).own # <<>> => ValidPolicy(LoadStep(d).own[1])
  PROVE  StepLoaded(LoadStep(d))
<1> DEFINE n == NormalizeStep(d)
           s == LoadBranchStep(d)
<1>1. s = [id |-> s.id, params |-> s.params, own |-> s.own]
  BY DEF LoadBranchStep
<1>2. CASE s.own = <<>>
  BY <1>1, <1>2 DEF LoadStep, StepLoaded, Plain
<1>3. CASE s.own # <<>>
  <2> DEFINE p == LoadPolicy(n.on_failure)
  <2>1. LoadStep(d) = [s EXCEPT !.own = <<p>>]
    BY <1>3 DEF LoadStep
  <2> HIDE DEF s, p
  <2>2. LoadStep(d) = [id |-> s.id, params |-> s.params, own |-> <<p>>]
    BY <1>1, <2>1
  <2>3. LoadStep(d).own # <<>> /\ LoadStep(d).own[1] = p
    BY <2>2
  <2>4. PolicyLoaded(p)
    BY <2>3, LoadedPolicy DEF p
  <2>5. QED  BY <2>2, <2>3, <2>4 DEF StepLoaded
<1>4. QED  BY <1>2, <1>3

LEMMA StepBack ==
  ASSUME NEW s, StepLoaded(s)
  PROVE  LoadStep(DumpStep(s)) = s
<1>1. CASE Plain(s)
  <2>1. s.own = <<>>
    BY <1>1 DEF Plain
  <2>2. LoadBranchStep(DumpStep(s)) = s
    BY <1>1, <2>1, PlainStep DEF DumpStep
  <2>3. QED  BY <2>1, <2>2 DEF LoadStep
<1>2. CASE /\ s = [id |-> s.id, params |-> s.params, own |-> <<s.own[1]>>]
           /\ PolicyLoaded(s.own[1])
  <2> DEFINE p == s.own[1]
             D == [params |-> NoParams]
             e == [id |-> s.id, params |-> s.params, on_failure |-> DumpPolicy(p)]
  <2>1. Mapping(e) /\ DOMAIN D \subseteq DOMAIN e /\ "on_failure" \in DOMAIN e /\ "on_failure" \notin DOMAIN D
    BY DEF Mapping
  <2>2. s.own # <<>>
    BY <1>2
  <2>3. DumpStep(s) = [form |-> "long", fields |-> Omit(e, D)]
    BY <2>2 DEF DumpStep, LongStep
  <2>4. e.id = s.id /\ e.params = s.params /\ e.on_failure = DumpPolicy(p)
    OBVIOUS
  <2> HIDE DEF p, D, e
  <2>5. NormalizeStep(DumpStep(s)) = Omit(e, D)
    BY <2>3 DEF NormalizeStep
  <2>6. Fill(Omit(e, D), D) = e
    BY <2>1, OmitFill
  <2>7. Omit(e, D).on_failure = DumpPolicy(p)
    BY <2>1, <2>4, KeptField
  <2>8. LoadBranchStep(DumpStep(s)) = [id |-> s.id, params |-> s.params, own |-> <<DefaultPolicy>>]
    BY <2>1, <2>4, <2>5, <2>6 DEF LoadBranchStep, D
  <2>9. LoadStep(DumpStep(s)) = [id |-> s.id, params |-> s.params, own |-> <<LoadPolicy(DumpPolicy(p))>>]
    BY <2>5, <2>7, <2>8 DEF LoadStep
  <2>10. LoadPolicy(DumpPolicy(p)) = p
    BY <1>2, PolicyBack DEF p
  <2>11. QED  BY <1>2, <2>9, <2>10 DEF p
<1>3. QED  BY <1>1, <1>2 DEF StepLoaded

TriggerLoaded(t) ==
  Mapping(t) /\ "type" \in DOMAIN t /\ DOMAIN TriggerDefaults[t.type] \subseteq DOMAIN t
  /\ t.type \in DOMAIN TriggerDefaults

LEMMA NoDefaultType ==
  ASSUME NEW x \in DOMAIN TriggerDefaults
  PROVE  "type" \notin DOMAIN TriggerDefaults[x]
  BY DEF TriggerDefaults

LEMMA LoadedTrigger ==
  ASSUME NEW d, ValidTrigger(LoadTrigger(d))
  PROVE  TriggerLoaded(LoadTrigger(d))
  BY DEF ValidTrigger, TriggerLoaded, LoadTrigger, Fill, Mapping

LEMMA TriggerBack ==
  ASSUME NEW t, TriggerLoaded(t)
  PROVE  LoadTrigger(DumpTrigger(t)) = t
<1>1. "type" \in DOMAIN t /\ "type" \notin DOMAIN TriggerDefaults[t.type]
  BY NoDefaultType DEF TriggerLoaded
<1>2. DumpTrigger(t).type = t.type
  BY <1>1, KeptField DEF DumpTrigger
<1>3. QED  BY <1>2, OmitFill DEF LoadTrigger, DumpTrigger, TriggerLoaded

BookLoaded(b) ==
  /\ Mapping(b) /\ DOMAIN b = {"name", "trigger", "steps"} \cup DOMAIN BookDefaults
  /\ Mapping(b.steps) /\ \A i \in DOMAIN b.steps : StepLoaded(b.steps[i])
  /\ TriggerLoaded(b.trigger)
  /\ PolicyLoaded(b.on_failure)

LEMMA BookFieldNames ==
  DOMAIN BookDefaults = {"description", "dedup", "engine", "on_failure", "meta"}
  BY DEF BookDefaults

LEMMA LoadedBook ==
  ASSUME NEW d, ValidBook(LoadBook(d))
  PROVE  BookLoaded(LoadBook(d))
<1> DEFINE n == Fill(d, BookDefaults)
           b == LoadBook(d)
<1>1. b = [n EXCEPT !.steps = Each(LoadStep, @), !.trigger = LoadTrigger(@),
                    !.on_failure = LoadPolicy(@)]
      /\ Mapping(n)
  BY DEF LoadBook, Fill, Mapping
<1>2. /\ DOMAIN b = {"name", "trigger", "steps"} \cup DOMAIN BookDefaults
      /\ ValidTrigger(b.trigger)
      /\ \A k \in Scopes(b) : ValidPolicy(PolicyIn(b, k))
  BY DEF ValidBook
<1> HIDE DEF n, b
<1>3. DOMAIN n = DOMAIN b /\ Mapping(b)
  BY <1>1 DEF Mapping
<1>4. /\ b.steps = Each(LoadStep, n.steps) /\ b.trigger = LoadTrigger(n.trigger)
      /\ b.on_failure = LoadPolicy(n.on_failure)
  BY <1>1, <1>2, <1>3, BookFieldNames
<1>5. /\ Mapping(b.steps)
      /\ \A i \in DOMAIN b.steps : b.steps[i] = LoadStep(n.steps[i])
  BY <1>4 DEF Each, Mapping
<1>6. ValidPolicy(b.on_failure)
  BY <1>2 DEF Scopes, PolicyIn
<1>7. ASSUME NEW i \in DOMAIN b.steps PROVE StepLoaded(b.steps[i])
  <2>1. CASE i # 0
    <3>1. b.steps[i].own # <<>> => ValidPolicy(b.steps[i].own[1])
      BY <1>2, <2>1 DEF Scopes, PolicyIn
    <3>2. QED  BY <1>5, <3>1, LoadedStep
  <2>2. CASE i = 0
    <3>1. b.steps \in Seq(ToSet(b.steps))
      BY DEF ValidBook, ValidSteps, b
    <3>2. 0 \notin DOMAIN b.steps
      BY <3>1
    <3>3. QED  BY <2>2, <3>2
  <2>3. QED  BY <2>1, <2>2
<1>8. QED  BY <1>2, <1>3, <1>4, <1>5, <1>6, <1>7, LoadedTrigger, LoadedPolicy DEF BookLoaded, b

LEMMA BookBack ==
  ASSUME NEW b, BookLoaded(b)
  PROVE  LoadBook(DumpBook(b)) = b /\ "steps" \in DOMAIN DumpBook(b)
<1> DEFINE failure == IF b.on_failure = DefaultPolicy THEN b.on_failure ELSE DumpPolicy(b.on_failure)
           e == [b EXCEPT !.steps = Each(DumpStep, @), !.trigger = DumpTrigger(@),
                          !.on_failure = IF @ = DefaultPolicy THEN @ ELSE DumpPolicy(@)]
<1>1. Mapping(e) /\ DOMAIN e = DOMAIN b /\ DOMAIN BookDefaults \subseteq DOMAIN e
  BY DEF BookLoaded, Mapping
<1>2. DumpBook(b) = Omit(e, BookDefaults)
  BY DEF DumpBook
<1>3. /\ e.steps = Each(DumpStep, b.steps) /\ e.trigger = DumpTrigger(b.trigger)
      /\ e.on_failure = failure
      /\ \A k \in DOMAIN b : k \notin {"steps", "trigger", "on_failure"} => e[k] = b[k]
  BY BookFieldNames DEF BookLoaded, Mapping
<1> HIDE DEF e
<1>4. Fill(DumpBook(b), BookDefaults) = e
  BY <1>1, <1>2, OmitFill
<1>5. LoadBook(DumpBook(b)) = [e EXCEPT !.steps = Each(LoadStep, @), !.trigger = LoadTrigger(@),
                                        !.on_failure = LoadPolicy(@)]
  BY <1>4 DEF LoadBook
<1>6. Each(LoadStep, e.steps) = b.steps
  <2>1. DOMAIN e.steps = DOMAIN b.steps
        /\ \A i \in DOMAIN b.steps : e.steps[i] = DumpStep(b.steps[i])
    BY <1>3 DEF Each
  <2>2. \A i \in DOMAIN b.steps : LoadStep(e.steps[i]) = b.steps[i]
    BY <2>1, StepBack DEF BookLoaded
  <2>3. QED  BY <2>1, <2>2 DEF Each, BookLoaded, Mapping
<1>7. LoadTrigger(e.trigger) = b.trigger
  BY <1>3, TriggerBack DEF BookLoaded
<1>8. LoadPolicy(e.on_failure) = b.on_failure
  BY <1>3, PolicyBack, DefaultLoads DEF BookLoaded
<1>9. LoadBook(DumpBook(b)) = b
  <2> DEFINE c == [e EXCEPT !.steps = Each(LoadStep, @), !.trigger = LoadTrigger(@),
                            !.on_failure = LoadPolicy(@)]
  <2>1. Mapping(c) /\ DOMAIN c = DOMAIN b
    BY <1>1 DEF Mapping
  <2>2. c.steps = b.steps /\ c.trigger = b.trigger /\ c.on_failure = b.on_failure
    BY <1>1, <1>6, <1>7, <1>8, BookFieldNames DEF BookLoaded, Mapping
  <2>3. \A k \in DOMAIN b : k \notin {"steps", "trigger", "on_failure"} => c[k] = b[k]
    BY <1>1, <1>3 DEF Mapping
  <2> HIDE DEF c
  <2>4. \A k \in DOMAIN b : c[k] = b[k]
    BY <2>2, <2>3
  <2>5. c = b
    BY <2>1, <2>4 DEF BookLoaded, Mapping
  <2>6. QED  BY <1>5, <2>5 DEF c
<1>10. "steps" \in DOMAIN DumpBook(b)
  BY <1>1, <1>2, KeptField, BookFieldNames DEF BookLoaded
<1>11. QED  BY <1>9, <1>10

LEMMA DumpLoads ==
  ASSUME NEW d, Loads(d)
  PROVE  Loads(DumpBook(LoadBook(d))) /\ LoadBook(DumpBook(LoadBook(d))) = LoadBook(d)
<1>1. LoadBook(DumpBook(LoadBook(d))) = LoadBook(d) /\ "steps" \in DOMAIN DumpBook(LoadBook(d))
  BY LoadedBook, BookBack DEF Loads
<1>2. DOMAIN <<>> = {}
  OBVIOUS
<1>3. QED  BY <1>1, <1>2 DEF Loads

(* What is dumped loads as the same playbook, for every playbook text: the  *)
(* guarantee of dump_playbook that saving, validating and approving rest    *)
(* on.                                                                      *)
THEOREM DumpsRoundTrip == Spec => RoundTrip
<1>1. \A old, new : DumpKeeps(old, new)
  BY DumpLoads DEF DumpKeeps
<1>2. Stored(DumpKeeps)
  BY <1>1 DEF Stored
<1>3. QED  BY <1>2, PTL DEF RoundTrip, Spec

-----------------------------------------------------------------------------
(* From the playbook to the form and back, a level at a time.               *)

(* Rows without gaps come in the order of the sequence they were made from. *)
LEMMA AscendingRows ==
  ASSUME NEW n \in Nat
  PROVE  Ascending(0..n - 1) = [k \in 1..n |-> k - 1]
<1> DEFINE rank(i) == Cardinality({j \in 0..n - 1 : j <= i})
<1>1. Cardinality(0..n - 1) = n
  BY FS_Interval
<1>2. ASSUME NEW i \in 0..n - 1 PROVE rank(i) = i + 1
  <2>1. {j \in 0..n - 1 : j <= i} = 0..i
    OBVIOUS
  <2>2. Cardinality(0..i) = i + 1
    BY FS_Interval
  <2>3. QED  BY <2>1, <2>2
<1>3. ASSUME NEW k \in 1..n PROVE (CHOOSE i \in 0..n - 1 : rank(i) = k) = k - 1
  <2>1. k - 1 \in 0..n - 1 /\ rank(k - 1) = k
    BY <1>2
  <2>2. \A i \in 0..n - 1 : rank(i) = k => i = k - 1
    BY <1>2
  <2> HIDE DEF rank
  <2>3. QED  BY <2>1, <2>2
<1>4. Ascending(0..n - 1) = [k \in 1..n |-> CHOOSE i \in 0..n - 1 : rank(i) = k]
  BY <1>1 DEF Ascending
<1> HIDE DEF rank
<1>5. QED  BY <1>3, <1>4

LEMMA RowsInOrder ==
  ASSUME NEW n \in Nat, NEW rows, DOMAIN rows = 0..n - 1
  PROVE  InOrder(rows, DOMAIN rows) = [k \in 1..n |-> rows[k - 1]]
<1>1. Ascending(DOMAIN rows) = [k \in 1..n |-> k - 1]
  BY AscendingRows
<1>2. QED  BY <1>1 DEF InOrder

LEMMA SeqFacts ==
  ASSUME NEW s, s \in Seq(ToSet(s))
  PROVE  /\ Len(s) \in Nat /\ DOMAIN s = 1..Len(s) /\ (s # <<>> => Len(s) # 0)
         /\ \A rows : DOMAIN rows = 0..Len(s) - 1 =>
              /\ \A i \in DOMAIN rows : i + 1 \in DOMAIN s
              /\ \A k \in 1..Len(s) : k - 1 \in DOMAIN rows /\ k - 1 + 1 = k
<1> DEFINE S == ToSet(s)
<1>1. s \in Seq(S)  OBVIOUS
<1> HIDE DEF S
<1>2. Len(s) \in Nat /\ DOMAIN s = 1..Len(s) /\ (s # <<>> => Len(s) # 0)
  BY <1>1
<1>3. QED  BY <1>2

LEMMA StepRows ==
  ASSUME NEW s, ValidSteps(s)
  PROVE  LET rows == Rows(s, StepFields)
         IN  /\ DOMAIN rows = 0..Len(s) - 1 /\ WithId(rows) = DOMAIN rows
             /\ StepDocs(rows) = [k \in 1..Len(s) |-> StepDoc(StepFields(s[k]))]
             /\ StepDocs(rows) # <<>>
<1> DEFINE rows == Rows(s, StepFields)
           n == Len(s)
<1>0. s \in Seq(ToSet(s)) /\ s # <<>> /\ \A i \in DOMAIN s : s[i].id # ""
  BY DEF ValidSteps
<1>2. DOMAIN rows = 0..n - 1 /\ \A i \in DOMAIN rows : rows[i] = StepFields(s[i + 1])
  BY DEF Rows
<1>1. /\ n \in Nat /\ n # 0 /\ DOMAIN s = 1..n
      /\ \A i \in DOMAIN rows : i + 1 \in DOMAIN s
      /\ \A k \in 1..n : k - 1 \in DOMAIN rows /\ k - 1 + 1 = k
  BY <1>0, <1>2, SeqFacts
<1> HIDE DEF rows, n
<1>3. ASSUME NEW i \in DOMAIN rows PROVE HasId(rows[i])
  <2>1. i + 1 \in DOMAIN s
    BY <1>1, <1>2
  <2>2. rows[i].id = s[i + 1].id
    BY <1>2 DEF StepFields
  <2>3. QED  BY <1>0, <2>1, <2>2 DEF HasId, Blank
<1>4. WithId(rows) = DOMAIN rows
  BY <1>3 DEF WithId
<1>5. InOrder(rows, DOMAIN rows) = [k \in 1..n |-> rows[k - 1]]
  BY <1>1, <1>2, RowsInOrder
<1>6. InOrder(rows, DOMAIN rows) = [k \in 1..n |-> StepFields(s[k])]
  <2>1. \A k \in 1..n : k - 1 \in DOMAIN rows /\ rows[k - 1] = StepFields(s[k])
    BY <1>1, <1>2
  <2>2. QED  BY <1>5, <2>1
<1>7. StepDocs(rows) = [k \in 1..n |-> StepDoc(StepFields(s[k]))]
  BY <1>4, <1>6 DEF StepDocs, Each
<1>8. StepDocs(rows) # <<>>
  <2>1. 1 \in DOMAIN StepDocs(rows)
    BY <1>1, <1>7
  <2>2. QED  BY <2>1
<1>9. QED  BY <1>2, <1>4, <1>7, <1>8 DEF rows, n

LEMMA StepFormBack ==
  ASSUME NEW s, Plain(s)
  PROVE  LoadBranchStep(StepDoc(StepFields(s))) = s
<1>1. NormalizeStep(StepDoc(StepFields(s))) = [id |-> s.id, params |-> s.params]
  BY DEF NormalizeStep, StepDoc, StepFields, LongStep
<1>2. Fill([id |-> s.id, params |-> s.params], [params |-> NoParams])
        = [id |-> s.id, params |-> s.params]
  BY DEF Fill
<1>3. QED  BY <1>1, <1>2 DEF LoadBranchStep, Plain

BranchDoc(row) == [name |-> row.name, retries |-> row.retries, steps |-> StepDocs(row.steps)]

LEMMA BranchFormBack ==
  ASSUME NEW r, BranchLoaded(r), ValidBranch(r)
  PROVE  LoadBranch(BranchDoc(BranchFields(r))) = r
<1> DEFINE docs == [k \in 1..Len(r.steps) |-> StepDoc(StepFields(r.steps[k]))]
           d == [name |-> r.name, retries |-> r.retries, steps |-> docs]
<1>1. BranchDoc(BranchFields(r)) = d
  BY StepRows DEF BranchDoc, BranchFields, ValidBranch
<1>2. DOMAIN r.steps = 1..Len(r.steps)
  BY SeqFacts DEF ValidBranch, ValidSteps
<1>3. Each(LoadBranchStep, docs) = r.steps
  <2>1. \A k \in DOMAIN r.steps : LoadBranchStep(StepDoc(StepFields(r.steps[k]))) = r.steps[k]
    BY StepFormBack DEF BranchLoaded
  <2>2. QED  BY <1>2, <2>1 DEF Each, BranchLoaded, Mapping
<1> HIDE DEF docs
<1>4. Fill(d, [retries |-> 0]) = d
  BY DEF Fill
<1>5. LoadBranch(d) = [name |-> r.name, retries |-> r.retries, steps |-> r.steps]
  BY <1>3, <1>4 DEF LoadBranch
<1>6. QED  BY <1>1, <1>5 DEF BranchLoaded, Mapping

LEMMA BranchRows ==
  ASSUME NEW p, ValidPolicy(p)
  PROVE  BranchDocs(Rows(p.branches, BranchFields))
           = [k \in 1..Len(p.branches) |-> BranchDoc(BranchFields(p.branches[k]))]
<1> DEFINE s == p.branches
           rows == Rows(s, BranchFields)
           named == {i \in DOMAIN rows : rows[i].name # Blank /\ StepDocs(rows[i].steps) # <<>>}
           n == Len(s)
<1>0. s \in Seq(ToSet(s)) /\ \A i \in DOMAIN s : ValidBranch(s[i])
  BY DEF ValidPolicy
<1>2. DOMAIN rows = 0..n - 1 /\ \A i \in DOMAIN rows : rows[i] = BranchFields(s[i + 1])
  BY DEF Rows
<1>3. BranchDocs(rows) = Each(BranchDoc, InOrder(rows, named))
  BY DEF BranchDocs, BranchDoc
<1>1. /\ n \in Nat
      /\ \A i \in DOMAIN rows : i + 1 \in DOMAIN s
      /\ \A k \in 1..n : k - 1 \in DOMAIN rows /\ k - 1 + 1 = k
  BY <1>0, <1>2, SeqFacts
<1> HIDE DEF rows, s, n
<1>4. ASSUME NEW i \in DOMAIN rows PROVE rows[i].name # Blank /\ StepDocs(rows[i].steps) # <<>>
  <2>1. ValidBranch(s[i + 1])
    BY <1>0, <1>1
  <2>2. rows[i].name = s[i + 1].name /\ rows[i].steps = Rows(s[i + 1].steps, StepFields)
    BY <1>2 DEF BranchFields
  <2>3. StepDocs(Rows(s[i + 1].steps, StepFields)) # <<>>
    BY <2>1, StepRows DEF ValidBranch
  <2>4. QED  BY <2>1, <2>2, <2>3 DEF ValidBranch, Blank
<1>5. named = DOMAIN rows
  BY <1>4
<1>6. InOrder(rows, DOMAIN rows) = [k \in 1..n |-> rows[k - 1]]
  BY <1>1, <1>2, RowsInOrder
<1>7. InOrder(rows, DOMAIN rows) = [k \in 1..n |-> BranchFields(s[k])]
  <2>1. \A k \in 1..n : k - 1 \in DOMAIN rows /\ rows[k - 1] = BranchFields(s[k])
    BY <1>1, <1>2
  <2>2. QED  BY <1>6, <2>1
<1>8. QED  BY <1>3, <1>5, <1>7 DEF Each, rows, s, n

LEMMA PolicyFormBack ==
  ASSUME NEW p, PolicyLoaded(p), ValidPolicy(p), p # DefaultPolicy
  PROVE  PolicyFields(p).enabled /\ LoadPolicy(PolicyDoc(PolicyFields(p))) = p
<1> DEFINE docs == [k \in 1..Len(p.branches) |-> BranchDoc(BranchFields(p.branches[k]))]
           d == [retries |-> p.retries, branches |-> docs, then |-> p.then]
<1>1. PolicyFields(p) = [enabled |-> TRUE, retries |-> p.retries, then |-> p.then,
                         branches |-> Rows(p.branches, BranchFields)]
  BY DEF PolicyFields
<1>2. PolicyFields(p).enabled /\ PolicyDoc(PolicyFields(p)) = d
  <2>1. BranchDocs(Rows(p.branches, BranchFields)) = docs
    BY BranchRows
  <2> HIDE DEF docs
  <2>2. QED  BY <1>1, <2>1 DEF PolicyDoc
<1>3. DOMAIN p.branches = 1..Len(p.branches) /\ \A i \in DOMAIN p.branches : ValidBranch(p.branches[i])
  BY SeqFacts DEF ValidPolicy
<1>4. Each(LoadBranch, docs) = p.branches
  <2>1. \A k \in DOMAIN p.branches : LoadBranch(BranchDoc(BranchFields(p.branches[k]))) = p.branches[k]
    BY <1>3, BranchFormBack DEF PolicyLoaded
  <2>2. QED  BY <1>3, <2>1 DEF Each, PolicyLoaded, Mapping
<1> HIDE DEF docs
<1>5. Fill(d, DefaultPolicy) = d
  BY DEF Fill, DefaultPolicy
<1>6. LoadPolicy(d) = [retries |-> p.retries, branches |-> p.branches, then |-> p.then]
  BY <1>4, <1>5 DEF LoadPolicy
<1>7. QED  BY <1>2, <1>6, PolicyFieldNames DEF PolicyLoaded, Mapping

LEMMA TriggerFormBack ==
  ASSUME NEW t, TriggerLoaded(t), ValidTrigger(t)
  PROVE  LoadTrigger(TriggerDoc(t)) = t
<1> DEFINE unread == (IF t.type = "folder_watch" THEN {} ELSE {"settle_seconds"})
                       \cup (IF t.type = "manifest" THEN {} ELSE {"poll_seconds"})
           C == [glob |-> "*", ordinal_regex |-> <<>>, arrival_order_ordinals |-> FALSE]
           D == TriggerDefaults[t.type]
<1>1. /\ t.type \in {"manual", "folder_watch", "manifest"}
      /\ DOMAIN t = {"type", "path"} \cup DOMAIN D
  BY DEF ValidTrigger, TriggerDefaults
<1>2. unread \cap DOMAIN t = {}
  BY <1>1 DEF TriggerDefaults
<1>3. \A k \in DOMAIN C \cap DOMAIN t : k \in DOMAIN D /\ D[k] = C[k]
  <2>1. CASE t.type = "manual"
    <3>1. D = [glob |-> "*", ordinal_regex |-> <<>>, arrival_order_ordinals |-> FALSE]
      BY <2>1 DEF TriggerDefaults
    <3>2. QED  BY <3>1
  <2>2. CASE t.type = "folder_watch"
    <3>1. D = [glob |-> "*", ordinal_regex |-> <<>>, arrival_order_ordinals |-> FALSE,
               settle_seconds |-> 2]
      BY <2>2 DEF TriggerDefaults
    <3> HIDE DEF D
    <3>2. DOMAIN D = DOMAIN C \cup {"settle_seconds"}
      BY <3>1
    <3>3. D.glob = C.glob /\ D.ordinal_regex = C.ordinal_regex
          /\ D.arrival_order_ordinals = C.arrival_order_ordinals
      BY <3>1
    <3>4. DOMAIN C = {"glob", "ordinal_regex", "arrival_order_ordinals"}
      OBVIOUS
    <3> HIDE DEF C
    <3>5. QED  BY <3>2, <3>3, <3>4
  <2>3. CASE t.type = "manifest"
    <3>1. D = [poll_seconds |-> 30]
      BY <2>3 DEF TriggerDefaults
    <3>2. DOMAIN t = {"type", "path", "poll_seconds"}
      BY <1>1, <3>1
    <3>3. QED  BY <3>2
  <2>4. QED  BY <1>1, <2>1, <2>2, <2>3
<1> HIDE DEF unread
<1>4. Keep(t, DOMAIN t \ unread) = t
  BY <1>2 DEF Keep, TriggerLoaded, Mapping
<1>5. TriggerDoc(t) = Omit(t, C)
  BY <1>4 DEF TriggerDoc, unread
<1>6. "type" \in DOMAIN t /\ "type" \notin DOMAIN C
  BY <1>1
<1> HIDE DEF C
<1>7. TriggerDoc(t).type = t.type
  BY <1>5, <1>6, KeptField
<1>8. Fill(Omit(t, C), D) = t
  BY <1>1, <1>3 DEF Fill, Omit, Keep, TriggerLoaded, Mapping
<1>9. QED  BY <1>5, <1>7, <1>8 DEF LoadTrigger

(* A step's own policy, as the form keeps it: the default policy is none.   *)
StepFormDoc(s) ==
  IF OwnFields(s).enabled
  THEN LongStep([id |-> s.id, params |-> s.params, on_failure |-> PolicyDoc(OwnFields(s))])
  ELSE StepDoc(StepFields(s))

LEMMA OwnStepFormBack ==
  ASSUME NEW s, StepLoaded(s), s.own # <<>> => ValidPolicy(s.own[1])
  PROVE  LoadStep(StepFormDoc(s)) = SameStep(s)
<1>1. CASE Plain(s)
  <2>1. s.own = <<>>
    BY <1>1 DEF Plain
  <2>2. StepFormDoc(s) = StepDoc(StepFields(s))
    BY <2>1 DEF StepFormDoc, OwnFields, NoPolicyFields
  <2>3. LoadStep(StepFormDoc(s)) = s
    BY <1>1, <2>1, <2>2, StepFormBack DEF LoadStep
  <2>4. <<>> # <<DefaultPolicy>>
    OBVIOUS
  <2>5. QED  BY <2>1, <2>3, <2>4 DEF SameStep
<1>2. CASE /\ s = [id |-> s.id, params |-> s.params, own |-> <<s.own[1]>>]
           /\ PolicyLoaded(s.own[1])
  <2> DEFINE p == s.own[1]
  <2>1. s.own = <<p>> /\ s.own # <<>> /\ s = [id |-> s.id, params |-> s.params, own |-> <<p>>]
    BY <1>2
  <2>2. CASE p = DefaultPolicy
    <3>1. StepFormDoc(s) = StepDoc(StepFields(s))
      BY <2>1, <2>2 DEF StepFormDoc, OwnFields, PolicyFields, NoPolicyFields
    <3> DEFINE q == [id |-> s.id, params |-> s.params, own |-> <<>>]
    <3>2. Plain(q) /\ StepFields(q) = StepFields(s)
      BY DEF Plain, StepFields
    <3>3. LoadBranchStep(StepFormDoc(s)) = q
      BY <3>1, <3>2, StepFormBack
    <3>4. SameStep(s) = q
      BY <2>1, <2>2 DEF SameStep
    <3>5. q.own = <<>>
      OBVIOUS
    <3> HIDE DEF q
    <3>6. QED  BY <3>3, <3>4, <3>5 DEF LoadStep
  <2>3. CASE p # DefaultPolicy
    <3>1. OwnFields(s) = PolicyFields(p) /\ ValidPolicy(p) /\ PolicyLoaded(p)
      BY <1>2, <2>1 DEF OwnFields
    <3>2. OwnFields(s).enabled /\ LoadPolicy(PolicyDoc(OwnFields(s))) = p
      BY <2>3, <3>1, PolicyFormBack
    <3> DEFINE d == PolicyDoc(OwnFields(s))
               e == [id |-> s.id, params |-> s.params, on_failure |-> d]
    <3>3. StepFormDoc(s) = [form |-> "long", fields |-> e]
      BY <3>2 DEF StepFormDoc, LongStep
    <3> HIDE DEF d
    <3>4. Fill(e, [params |-> NoParams]) = e
      BY DEF Fill
    <3>5. "on_failure" \in DOMAIN e /\ e.id = s.id /\ e.params = s.params /\ e.on_failure = d
      OBVIOUS
    <3> HIDE DEF e
    <3>6. NormalizeStep(StepFormDoc(s)) = e
      BY <3>3 DEF NormalizeStep
    <3>7. LoadBranchStep(StepFormDoc(s)) = [id |-> s.id, params |-> s.params, own |-> <<DefaultPolicy>>]
      BY <3>4, <3>5, <3>6 DEF LoadBranchStep
    <3>8. LoadStep(StepFormDoc(s)) = [id |-> s.id, params |-> s.params, own |-> <<LoadPolicy(d)>>]
      BY <3>5, <3>6, <3>7 DEF LoadStep
    <3>9. SameStep(s) = s
      <4>1. <<p>> # <<DefaultPolicy>>
        BY <2>3
      <4>2. QED  BY <2>1, <4>1 DEF SameStep
    <3>10. QED  BY <2>1, <3>2, <3>8, <3>9 DEF d
  <2>4. QED  BY <2>2, <2>3
<1>3. QED  BY <1>1, <1>2 DEF StepLoaded

LEMMA StepsOfFormBack ==
  ASSUME NEW b, BookLoaded(b), ValidBook(b)
  PROVE  LET docs == StepsOfForm(PlaybookToForm(b))
         IN  docs = [k \in 1..Len(b.steps) |-> StepFormDoc(b.steps[k])] /\ docs # <<>>
<1> DEFINE s == b.steps
           n == Len(s)
           f == PlaybookToForm(b)
           rows == Rows(s, StepFields)
<1>1. s \in Seq(ToSet(s)) /\ s # <<>> /\ ValidSteps(s)
  BY DEF ValidBook, ValidSteps
<1>2. n \in Nat /\ n # 0 /\ DOMAIN s = 1..n
  BY <1>1, SeqFacts
<1>3. DOMAIN rows = 0..n - 1 /\ WithId(rows) = 0..n - 1
  BY <1>1, StepRows
<1>4. f.steps = rows
      /\ f.onfail = [i \in {Pipeline} \cup (0..n - 1) |->
                       IF i = Pipeline THEN PolicyFields(b.on_failure) ELSE OwnFields(s[i + 1])]
  BY DEF PlaybookToForm
<1>5. Ascending(WithId(f.steps)) = [k \in 1..n |-> k - 1]
  BY <1>2, <1>3, <1>4, AscendingRows
<1>6. \A i \in 0..n - 1 : rows[i] = StepFields(s[i + 1])
  BY DEF Rows
<1> HIDE DEF s, n, f, rows
<1>7. ASSUME NEW k \in 1..n
      PROVE  f.steps[k - 1] = StepFields(s[k]) /\ f.onfail[k - 1] = OwnFields(s[k])
  <2>1. k - 1 \in 0..n - 1 /\ k - 1 # -1 /\ k - 1 + 1 = k
    BY <1>2
  <2>2. QED  BY <1>4, <1>6, <2>1 DEF Pipeline
<1> DEFINE doc(i) == LET row == f.steps[i]
                     IN  IF f.onfail[i].enabled
                         THEN LongStep([id |-> row.id, params |-> row.params,
                                        on_failure |-> PolicyDoc(f.onfail[i])])
                         ELSE StepDoc(row)
<1>8. \A k \in 1..n : doc(k - 1) = StepFormDoc(s[k])
  BY <1>7 DEF StepFormDoc, StepFields
<1>9. StepsOfForm(f) = Each(doc, Ascending(WithId(f.steps)))
  BY DEF StepsOfForm
<1> HIDE DEF doc
<1>10. StepsOfForm(f) = [k \in 1..n |-> doc(k - 1)]
  BY <1>5, <1>9 DEF Each
<1>11. StepsOfForm(f) = [k \in 1..n |-> StepFormDoc(s[k])]
  BY <1>8, <1>10
<1>12. StepsOfForm(f) # <<>>
  <2>1. 1 \in DOMAIN StepsOfForm(f)
    BY <1>2, <1>11
  <2>2. QED  BY <2>1
<1>13. QED  BY <1>11, <1>12 DEF s, n, f

(* The whole form, reloaded.                                                *)
LEMMA FormBack ==
  ASSUME NEW b, BookLoaded(b), ValidBook(b)
  PROVE  LET f == PlaybookToForm(b)
         IN  /\ FormComplete(f) /\ LoadBook(FieldsToDoc(f)) = Same(b)
             /\ "steps" \in DOMAIN FieldsToDoc(f)
<1> DEFINE f == PlaybookToForm(b)
           docs == StepsOfForm(f)
           P == PolicyFields(b.on_failure)
           td == TriggerDoc(b.trigger)
           given == [name |-> b.name, trigger |-> td, steps |-> docs]
           info == [description |-> b.description, engine |-> b.engine, dedup |-> b.dedup]
           rest == Omit(info, BookDefaults)
           own == IF P.enabled THEN [on_failure |-> PolicyDoc(P)] ELSE NoRows
           d == Fill(given, Fill(rest, own))
           n == Fill(d, BookDefaults)
<1>1. docs = [k \in 1..Len(b.steps) |-> StepFormDoc(b.steps[k])] /\ docs # <<>>
  BY StepsOfFormBack
<1>2. /\ f.name = b.name /\ f.description = b.description /\ f.engine = b.engine
      /\ f.dedup = b.dedup /\ f.trigger = b.trigger /\ f.onfail[Pipeline] = P
  BY DEF PlaybookToForm, Pipeline
<1>3. FormComplete(f)
  BY <1>1, <1>2 DEF FormComplete, Blank, ValidBook
<1> HIDE DEF f, docs, P, td
<1>4. FieldsToDoc(f) = d
  BY <1>2 DEF FieldsToDoc, docs, td, P
<1>5. DOMAIN rest \subseteq {"description", "engine", "dedup"}
      /\ \A k \in {"description", "engine", "dedup"} :
           IF k \in DOMAIN rest THEN rest[k] = b[k] ELSE BookDefaults[k] = b[k]
  BY DEF Omit, Keep, BookDefaults
<1>6. DOMAIN own \subseteq {"on_failure"}
      /\ (P.enabled => "on_failure" \in DOMAIN own /\ own.on_failure = PolicyDoc(P))
      /\ (~P.enabled => DOMAIN own = {})
  BY DEF NoRows
<1> HIDE DEF rest, own
<1>7. DOMAIN n = {"name", "trigger", "steps"} \cup DOMAIN BookDefaults /\ Mapping(n)
      /\ "steps" \in DOMAIN d
  BY <1>5, <1>6, BookFieldNames DEF Fill, Mapping
<1>8. n.name = b.name /\ n.trigger = td /\ n.steps = docs
  BY BookFieldNames DEF Fill
<1>9. n.description = b.description /\ n.engine = b.engine /\ n.dedup = b.dedup
  BY <1>5, <1>6, BookFieldNames DEF Fill
<1>10. n.meta = <<>>
  BY <1>5, <1>6, BookFieldNames DEF Fill, BookDefaults
<1>11. n.on_failure = IF P.enabled THEN PolicyDoc(P) ELSE DefaultPolicy
  BY <1>5, <1>6, BookFieldNames DEF Fill, BookDefaults
<1> HIDE DEF n, d
<1>12. LoadPolicy(n.on_failure) = b.on_failure
  <2>1. ValidPolicy(b.on_failure) /\ PolicyLoaded(b.on_failure)
    BY DEF ValidBook, Scopes, PolicyIn, BookLoaded
  <2>2. CASE b.on_failure = DefaultPolicy
    <3>1. ~P.enabled
      BY <2>2 DEF P, PolicyFields, NoPolicyFields
    <3>2. QED  BY <2>2, <3>1, <1>11, DefaultLoads
  <2>3. CASE b.on_failure # DefaultPolicy
    BY <2>1, <2>3, <1>11, PolicyFormBack DEF P
  <2>4. QED  BY <2>2, <2>3
<1>13. LoadTrigger(n.trigger) = b.trigger
  BY <1>8, TriggerFormBack DEF td, BookLoaded, ValidBook
<1>14. Each(LoadStep, n.steps) = Each(SameStep, b.steps)
  <2>1. b.steps \in Seq(ToSet(b.steps))
    BY DEF ValidBook, ValidSteps
  <2>2. DOMAIN b.steps = 1..Len(b.steps) /\ 0 \notin DOMAIN b.steps
    BY <2>1, SeqFacts
  <2>3. ASSUME NEW k \in DOMAIN b.steps PROVE LoadStep(StepFormDoc(b.steps[k])) = SameStep(b.steps[k])
    <3>1. b.steps[k].own # <<>> => ValidPolicy(b.steps[k].own[1])
      BY <2>2 DEF ValidBook, Scopes, PolicyIn
    <3>2. QED  BY <3>1, OwnStepFormBack DEF BookLoaded
  <2>4. QED  BY <1>1, <1>8, <2>2, <2>3 DEF Each
<1>15. LoadBook(FieldsToDoc(f)) = Same(b)
  <2> DEFINE l == [n EXCEPT !.steps = Each(LoadStep, @), !.trigger = LoadTrigger(@),
                            !.on_failure = LoadPolicy(@)]
             e == [b EXCEPT !.meta = <<>>, !.steps = Each(SameStep, @)]
  <2>1. LoadBook(FieldsToDoc(f)) = l /\ Same(b) = e
    BY <1>4 DEF LoadBook, n, Same
  <2>2. Mapping(l) /\ DOMAIN l = DOMAIN n /\ Mapping(e) /\ DOMAIN e = DOMAIN b
    BY <1>7 DEF Mapping, BookLoaded
  <2>3. DOMAIN l = DOMAIN e
    BY <1>7, <2>2 DEF BookLoaded
  <2>4. l.steps = Each(SameStep, b.steps) /\ l.trigger = b.trigger /\ l.on_failure = b.on_failure
        /\ \A k \in DOMAIN n : k \notin {"steps", "trigger", "on_failure"} => l[k] = n[k]
    BY <1>7, <1>12, <1>13, <1>14, BookFieldNames DEF Mapping
  <2>5. e.steps = Each(SameStep, b.steps) /\ e.meta = <<>>
        /\ \A k \in DOMAIN b : k \notin {"steps", "meta"} => e[k] = b[k]
    BY BookFieldNames DEF Mapping, BookLoaded
  <2>6. DOMAIN b = {"name", "trigger", "steps", "description", "dedup", "engine", "on_failure", "meta"}
        /\ DOMAIN n = DOMAIN b
    BY <1>7, BookFieldNames DEF BookLoaded
  <2> HIDE DEF l, e
  <2>7. \A k \in DOMAIN b : l[k] = e[k]
    BY <1>8, <1>9, <1>10, <2>4, <2>5, <2>6
  <2>8. QED  BY <2>1, <2>2, <2>3, <2>7 DEF Mapping
<1>16. QED  BY <1>3, <1>4, <1>7, <1>15 DEF f

(* The reloaded book is valid: it has the steps, trigger and policies of    *)
(* the one it was made from, but for default policies of steps.             *)
LEMMA SameValid ==
  ASSUME NEW b, BookLoaded(b), ValidBook(b)
  PROVE  ValidBook(Same(b)) /\ Same(Same(b)) = Same(b)
<1> DEFINE s == Each(SameStep, b.steps)
           c == Same(b)
<1>1. /\ DOMAIN c = DOMAIN b /\ c.steps = s /\ c.meta = <<>> /\ Mapping(c)
      /\ c.name = b.name /\ c.trigger = b.trigger /\ c.on_failure = b.on_failure
  BY BookFieldNames DEF Same, BookLoaded, Mapping
<1>2. /\ DOMAIN s = DOMAIN b.steps /\ Mapping(s)
      /\ \A i \in DOMAIN b.steps : s[i] = SameStep(b.steps[i])
  BY DEF Each, Mapping
<1>3. /\ b.steps \in Seq(ToSet(b.steps)) /\ b.steps # <<>>
      /\ \A i \in DOMAIN b.steps : b.steps[i].id # "" /\ Mapping(b.steps[i].params)
  BY DEF ValidBook, ValidSteps
<1>4. Len(b.steps) \in Nat /\ DOMAIN b.steps = 1..Len(b.steps) /\ Len(b.steps) # 0
  BY <1>3, SeqFacts
<1> HIDE DEF s, c
<1>5. ASSUME NEW i \in DOMAIN b.steps
      PROVE  /\ s[i].id = b.steps[i].id /\ s[i].params = b.steps[i].params
             /\ s[i].own = <<>> \/ (s[i] = b.steps[i] /\ s[i].own # <<DefaultPolicy>>)
             /\ SameStep(s[i]) = s[i]
  <2>1. DOMAIN b.steps[i] = {"id", "params", "own"}
    <3>1. StepLoaded(b.steps[i])
      BY DEF BookLoaded
    <3>2. QED  BY <3>1 DEF StepLoaded, Plain
  <2>2. CASE b.steps[i].own = <<DefaultPolicy>>
    <3>1. s[i] = [b.steps[i] EXCEPT !.own = <<>>]
      BY <1>2, <2>2 DEF SameStep
    <3>2. s[i].id = b.steps[i].id /\ s[i].params = b.steps[i].params /\ s[i].own = <<>>
      BY <2>1, <3>1
    <3>3. <<>> # <<DefaultPolicy>>
      OBVIOUS
    <3>4. QED  BY <3>2, <3>3 DEF SameStep
  <2>3. CASE b.steps[i].own # <<DefaultPolicy>>
    BY <1>2, <2>3 DEF SameStep
  <2>4. QED  BY <2>2, <2>3
<1>6. ValidSteps(s)
  <2>1. s = [i \in 1..Len(b.steps) |-> s[i]]
    BY <1>2, <1>4 DEF Mapping
  <2>2. \A i \in 1..Len(b.steps) : s[i] \in ToSet(s)
    BY <1>2, <1>4 DEF ToSet
  <2>3. s \in Seq(ToSet(s))
    <3> DEFINE T == ToSet(s)
    <3>1. \A i \in 1..Len(b.steps) : s[i] \in T
      BY <2>2
    <3> HIDE DEF T
    <3>2. s \in Seq(T)
      BY <1>4, <2>1, <3>1
    <3>3. QED  BY <3>2 DEF T
  <2>4. s # <<>>
    <3>1. 1 \in DOMAIN s
      BY <1>2, <1>4
    <3>2. QED  BY <3>1
  <2>5. QED  BY <1>2, <1>3, <1>5, <2>3, <2>4 DEF ValidSteps
<1>7. Scopes(c) \subseteq Scopes(b) /\ \A k \in Scopes(c) : PolicyIn(c, k) = PolicyIn(b, k)
  <2>1. ASSUME NEW k \in DOMAIN s, s[k].own # <<>> PROVE k \in DOMAIN b.steps /\ s[k] = b.steps[k]
    BY <1>2, <1>5, <2>1
  <2>2. QED  BY <1>1, <2>1 DEF Scopes, PolicyIn
<1>8. (\A k \in Scopes(c) : ValidPolicy(PolicyIn(c, k))) /\ UniqueBranchNames(c)
  BY <1>7 DEF ValidBook, UniqueBranchNames
<1>9. ValidBook(c)
  BY <1>1, <1>6, <1>8 DEF ValidBook
<1>10. Same(c) = c
  <2>1. Each(SameStep, s) = s
    BY <1>2, <1>5 DEF Each, Mapping
  <2>2. QED  BY <1>1, <2>1 DEF Same, Mapping
<1>11. QED  BY <1>9, <1>10 DEF c

(* The space around texts, a level at a time: what is loaded is still as    *)
(* loaded without it, and the form drops it in the same places.             *)
LEMMA TidyStepFields ==
  ASSUME NEW s, NEW own, s = [id |-> s.id, params |-> s.params, own |-> own]
  PROVE  TidyStep(s) = [id |-> Strip(s.id), params |-> s.params, own |-> Each(TidyPolicy, own)]
<1>1. s.own = own
  OBVIOUS
<1> DEFINE z == Each(TidyPolicy, s.own)
           n == Strip(s.id)
<1>2. TidyStep(s) = [s EXCEPT !.id = n, !.own = z]
  BY DEF TidyStep
<1>3. z = Each(TidyPolicy, own)
  BY <1>1 DEF Each
<1> HIDE DEF z, n
<1>4. TidyStep(s) = [id |-> n, params |-> s.params, own |-> z]
  BY <1>2
<1>5. QED  BY <1>3, <1>4 DEF n

LEMMA TidyFormFields ==
  ASSUME NEW f, NEW nm, NEW ds, NEW en, NEW dd, NEW tr, NEW rows, NEW onfail,
         f = [name |-> nm, description |-> ds, engine |-> en, dedup |-> dd, trigger |-> tr,
              steps |-> rows, onfail |-> onfail]
  PROVE  TidyForm(f) = [name |-> Strip(nm), description |-> Filled(ds),
                        engine |-> Word(en, "headless"), dedup |-> Word(dd, "content_hash"),
                        trigger |-> TidyTrigger(tr), steps |-> Each(TidyRow, rows),
                        onfail |-> Each(TidyPolicy, onfail)]
<1>1. /\ f.name = nm /\ f.description = ds /\ f.engine = en /\ f.dedup = dd /\ f.trigger = tr
      /\ f.steps = rows /\ f.onfail = onfail
  OBVIOUS
<1> DEFINE y == Each(TidyRow, f.steps)
           z == Each(TidyPolicy, f.onfail)
           a == Strip(f.name)
           b == Filled(f.description)
           c == Word(f.engine, "headless")
           d == Word(f.dedup, "content_hash")
           t == TidyTrigger(f.trigger)
<1>2. TidyForm(f) = [f EXCEPT !.name = a, !.description = b, !.engine = c, !.dedup = d,
                              !.trigger = t, !.steps = y, !.onfail = z]
  BY DEF TidyForm
<1>3. y = Each(TidyRow, rows) /\ z = Each(TidyPolicy, onfail)
  BY <1>1 DEF Each
<1>4. /\ a = Strip(nm) /\ b = Filled(ds) /\ c = Word(en, "headless")
      /\ d = Word(dd, "content_hash") /\ t = TidyTrigger(tr)
  BY <1>1
<1> HIDE DEF y, z, a, b, c, d, t
<1>5. TidyForm(f) = [name |-> a, description |-> b, engine |-> c, dedup |-> d, trigger |-> t,
                     steps |-> y, onfail |-> z]
  BY <1>2
<1>6. QED  BY <1>3, <1>4, <1>5

LEMMA NoPolicyTidied == TidyPolicy(NoPolicyFields) = NoPolicyFields
<1> DEFINE f == NoPolicyFields
<1>1. f = [enabled |-> FALSE, retries |-> 0, then |-> "mark_failed", branches |-> <<>>]
  BY DEF NoPolicyFields, NoRows
<1>2. Each(TidyBranch, <<>>) = <<>>
  BY DEF Each
<1> HIDE DEF f
<1>3. f.branches = <<>>
  BY <1>1
<1> DEFINE z == Each(TidyBranch, f.branches)
<1>4. TidyPolicy(f) = [f EXCEPT !.branches = z]
  BY DEF TidyPolicy
<1>5. z = <<>>
  BY <1>2, <1>3
<1> HIDE DEF z
<1>6. QED  BY <1>1, <1>4, <1>5 DEF f

LEMMA NothingIn ==
  ASSUME NEW x, Mapping(x), DOMAIN x = {}
  PROVE  x = <<>>
<1>1. <<>> = [i \in {} |-> {}]
  OBVIOUS
<1>2. x = [i \in {} |-> x[i]]
  BY DEF Mapping
<1>3. QED  BY <1>1, <1>2

LEMMA TidyPlain ==
  ASSUME NEW s, Plain(s)
  PROVE  Plain(TidyRow(s)) /\ StepFields(TidyRow(s)) = TidyRow(StepFields(s))
<1>1. TidyRow(s) = [id |-> Strip(s.id), params |-> s.params, own |-> <<>>]
  BY DEF Plain, TidyRow
<1>2. QED  BY <1>1 DEF Plain, StepFields, TidyRow

LEMMA RowsOfTidied ==
  ASSUME NEW s, s \in Seq(ToSet(s)), \A i \in DOMAIN s : Plain(s[i])
  PROVE  Rows(Each(TidyRow, s), StepFields) = Each(TidyRow, Rows(s, StepFields))
<1> DEFINE n == Len(s)
           rows == Rows(s, StepFields)
<1>1. DOMAIN rows = 0..n - 1 /\ \A i \in 0..n - 1 : rows[i] = StepFields(s[i + 1])
  BY DEF Rows
<1>2. n \in Nat /\ DOMAIN s = 1..n /\ \A i \in 0..n - 1 : i + 1 \in DOMAIN s
  BY <1>1, SeqFacts
<1>3. Len(Each(TidyRow, s)) = n
  BY <1>2 DEF Each
<1> HIDE DEF n, rows
<1>4. ASSUME NEW i \in 0..n - 1 PROVE StepFields(Each(TidyRow, s)[i + 1]) = TidyRow(rows[i])
  <2>1. Each(TidyRow, s)[i + 1] = TidyRow(s[i + 1]) /\ Plain(s[i + 1])
    BY <1>2 DEF Each
  <2>2. QED  BY <1>1, <2>1, TidyPlain
<1>5. Rows(Each(TidyRow, s), StepFields) = [i \in 0..n - 1 |-> TidyRow(rows[i])]
  BY <1>3, <1>4 DEF Rows
<1>6. QED  BY <1>1, <1>5 DEF Each, rows

LEMMA TidyBranchLoaded ==
  ASSUME NEW r, BranchLoaded(r), ValidBranch(r)
  PROVE  BranchLoaded(TidyBranch(r)) /\ BranchFields(TidyBranch(r)) = TidyBranch(BranchFields(r))
<1> DEFINE s == Each(TidyRow, r.steps)
           c == TidyBranch(r)
<1>1. /\ DOMAIN c = {"name", "retries", "steps"} /\ Mapping(c)
      /\ c.name = Strip(r.name) /\ c.retries = r.retries /\ c.steps = s
  BY DEF TidyBranch, BranchLoaded, Mapping
<1>2. Mapping(s) /\ DOMAIN s = DOMAIN r.steps /\ \A i \in DOMAIN s : Plain(s[i])
  BY TidyPlain DEF Each, Mapping, BranchLoaded
<1>3. BranchLoaded(c)
  BY <1>1, <1>2 DEF BranchLoaded
<1>4. Rows(s, StepFields) = Each(TidyRow, Rows(r.steps, StepFields))
  BY RowsOfTidied DEF BranchLoaded, ValidBranch, ValidSteps
<1> HIDE DEF s, c
<1>5. BranchFields(c) = [name |-> Strip(r.name), retries |-> r.retries,
                         steps |-> Each(TidyRow, Rows(r.steps, StepFields))]
  BY <1>1, <1>4 DEF BranchFields
<1>6. TidyBranch(BranchFields(r)) = [name |-> Strip(r.name), retries |-> r.retries,
                                     steps |-> Each(TidyRow, Rows(r.steps, StepFields))]
  <2> DEFINE f == BranchFields(r)
             R == Rows(r.steps, StepFields)
  <2>1. f = [name |-> r.name, retries |-> r.retries, steps |-> R]
    BY DEF BranchFields
  <2> HIDE DEF f, R
  <2>2. f.name = r.name /\ f.steps = R
    BY <2>1
  <2> DEFINE z == Each(TidyRow, f.steps)
             n == Strip(f.name)
  <2>3. TidyBranch(f) = [f EXCEPT !.name = n, !.steps = z]
    BY DEF TidyBranch
  <2>4. z = Each(TidyRow, R) /\ n = Strip(r.name)
    BY <2>2 DEF Each
  <2> HIDE DEF z, n
  <2>5. TidyBranch(f) = [name |-> n, retries |-> r.retries, steps |-> z]
    BY <2>1, <2>3
  <2>6. QED  BY <2>4, <2>5 DEF f, R
<1>7. QED  BY <1>3, <1>5, <1>6 DEF c

LEMMA TidyPolicyLoaded ==
  ASSUME NEW p, PolicyLoaded(p), ValidPolicy(p)
  PROVE  PolicyLoaded(TidyPolicy(p)) /\ PolicyFields(TidyPolicy(p)) = TidyPolicy(PolicyFields(p))
<1> DEFINE s == p.branches
           e == Each(TidyBranch, s)
           c == TidyPolicy(p)
           n == Len(s)
           rows == Rows(s, BranchFields)
<1>1. /\ DOMAIN c = DOMAIN DefaultPolicy /\ Mapping(c)
      /\ c.retries = p.retries /\ c.then = p.then /\ c.branches = e
  BY PolicyFieldNames DEF TidyPolicy, PolicyLoaded, Mapping
<1>2. /\ DOMAIN rows = 0..n - 1 /\ \A i \in 0..n - 1 : rows[i] = BranchFields(s[i + 1])
  BY DEF Rows
<1>3. /\ n \in Nat /\ DOMAIN s = 1..n /\ \A i \in 0..n - 1 : i + 1 \in DOMAIN s
      /\ \A i \in DOMAIN s : BranchLoaded(s[i]) /\ ValidBranch(s[i])
  BY <1>2, SeqFacts DEF ValidPolicy, PolicyLoaded
<1>4. Mapping(e) /\ DOMAIN e = DOMAIN s /\ (\A i \in DOMAIN s : e[i] = TidyBranch(s[i])) /\ Len(e) = n
  BY <1>3 DEF Each, Mapping
<1>5. Mapping(s)
  BY DEF PolicyLoaded
<1> HIDE DEF s, e, n, rows, c
<1>6. PolicyLoaded(c)
  BY <1>1, <1>3, <1>4, TidyBranchLoaded DEF PolicyLoaded
<1>7. ASSUME NEW i \in 0..n - 1 PROVE BranchFields(e[i + 1]) = TidyBranch(rows[i])
  BY <1>2, <1>3, <1>4, TidyBranchLoaded
<1>8. Rows(e, BranchFields) = Each(TidyBranch, rows)
  <2>1. Rows(e, BranchFields) = [i \in 0..n - 1 |-> TidyBranch(rows[i])]
    BY <1>4, <1>7 DEF Rows
  <2>2. QED  BY <1>2, <2>1 DEF Each
<1>9. c = DefaultPolicy <=> p = DefaultPolicy
  <2>1. e = <<>> <=> s = <<>>
    <3>1. DOMAIN <<>> = {}
      OBVIOUS
    <3>2. QED  BY <1>4, <1>5, <3>1, NothingIn
  <2>2. /\ c = DefaultPolicy <=> c.retries = 0 /\ c.branches = <<>> /\ c.then = "mark_failed"
        /\ p = DefaultPolicy <=> p.retries = 0 /\ p.branches = <<>> /\ p.then = "mark_failed"
    BY <1>1 DEF DefaultPolicy, PolicyLoaded, Mapping
  <2>3. QED  BY <1>1, <2>1, <2>2 DEF s
<1>10. CASE p = DefaultPolicy
  <2>1. PolicyFields(c) = NoPolicyFields /\ PolicyFields(p) = NoPolicyFields
    BY <1>9, <1>10 DEF PolicyFields
  <2>2. QED  BY <1>6, <2>1, NoPolicyTidied DEF c
<1>11. CASE p # DefaultPolicy
  <2>1. PolicyFields(c) = [enabled |-> TRUE, retries |-> p.retries, then |-> p.then,
                           branches |-> Each(TidyBranch, rows)]
    BY <1>1, <1>8, <1>9, <1>11 DEF PolicyFields
  <2>2. TidyPolicy(PolicyFields(p)) = [enabled |-> TRUE, retries |-> p.retries, then |-> p.then,
                                       branches |-> Each(TidyBranch, rows)]
    <3> DEFINE P == PolicyFields(p)
    <3>1. P = [enabled |-> TRUE, retries |-> p.retries, then |-> p.then, branches |-> rows]
      BY <1>11 DEF PolicyFields, rows, s
    <3> HIDE DEF P
    <3>2. P.branches = rows
      BY <3>1
    <3> DEFINE z == Each(TidyBranch, P.branches)
    <3>3. TidyPolicy(P) = [P EXCEPT !.branches = z]
      BY DEF TidyPolicy
    <3>4. z = Each(TidyBranch, rows)
      BY <3>2 DEF Each
    <3> HIDE DEF z
    <3>5. TidyPolicy(P) = [enabled |-> TRUE, retries |-> p.retries, then |-> p.then, branches |-> z]
      BY <3>1, <3>3
    <3>6. QED  BY <3>4, <3>5 DEF P
  <2>3. QED  BY <1>6, <2>1, <2>2 DEF c
<1>12. QED  BY <1>10, <1>11

LEMMA TidyStepLoaded ==
  ASSUME NEW s, StepLoaded(s), s.own # <<>> => ValidPolicy(s.own[1])
  PROVE  /\ StepLoaded(TidyStep(s))
         /\ StepFields(TidyStep(s)) = TidyRow(StepFields(s))
         /\ OwnFields(TidyStep(s)) = TidyPolicy(OwnFields(s))
<1>1. CASE Plain(s)
  <2>1. s.own = <<>> /\ s = [id |-> s.id, params |-> s.params, own |-> <<>>]
    BY <1>1 DEF Plain
  <2>2. Each(TidyPolicy, <<>>) = <<>>
    BY DEF Each
  <2>3. TidyStep(s) = [id |-> Strip(s.id), params |-> s.params, own |-> <<>>]
    BY <2>1, <2>2, TidyStepFields
  <2>4. OwnFields(TidyStep(s)) = NoPolicyFields /\ OwnFields(s) = NoPolicyFields
    BY <2>1, <2>3 DEF OwnFields
  <2>5. QED  BY <2>3, <2>4, NoPolicyTidied DEF StepLoaded, Plain, StepFields, TidyRow
<1>2. CASE /\ s = [id |-> s.id, params |-> s.params, own |-> <<s.own[1]>>]
           /\ PolicyLoaded(s.own[1])
  <2> DEFINE p == s.own[1]
             q == TidyPolicy(p)
             c == TidyStep(s)
  <2>1. s.own = <<p>> /\ s.own # <<>> /\ s = [id |-> s.id, params |-> s.params, own |-> <<p>>]
    BY <1>2
  <2>2. Each(TidyPolicy, <<p>>) = <<q>>
    BY DEF Each
  <2> HIDE DEF p, q
  <2>3. c = [id |-> Strip(s.id), params |-> s.params, own |-> <<q>>]
    BY <2>1, <2>2, TidyStepFields
  <2>4. PolicyLoaded(q) /\ PolicyFields(q) = TidyPolicy(PolicyFields(p))
    BY <1>2, <2>1, TidyPolicyLoaded DEF p, q
  <2> HIDE DEF c
  <2>5. c.own = <<q>> /\ c.own # <<>> /\ c.own[1] = q /\ c.id = Strip(s.id) /\ c.params = s.params
    BY <2>3
  <2>6. OwnFields(c) = PolicyFields(q) /\ OwnFields(s) = PolicyFields(p)
    BY <2>1, <2>5 DEF OwnFields
  <2>7. StepLoaded(c)
    BY <2>3, <2>4, <2>5 DEF StepLoaded
  <2>8. StepFields(c) = TidyRow(StepFields(s))
    BY <2>5 DEF StepFields, TidyRow
  <2>9. QED  BY <2>4, <2>6, <2>7, <2>8 DEF c
<1>3. QED  BY <1>1, <1>2 DEF StepLoaded

LEMMA TidyTriggerLoaded ==
  ASSUME NEW t, TriggerLoaded(t)
  PROVE  TriggerLoaded(TidyTrigger(t))
<1> DEFINE c == TidyTrigger(t)
<1>1. Mapping(c) /\ DOMAIN c = DOMAIN t
  BY DEF TidyTrigger, Mapping
<1>2. c.type = t.type
  BY DEF TidyTrigger, TriggerLoaded
<1>3. QED  BY <1>1, <1>2 DEF TriggerLoaded

(* A playbook that is loaded and valid.                                     *)
Sound(b) == BookLoaded(b) /\ ValidBook(b)

LEMMA SoundSteps ==
  ASSUME NEW b, Sound(b)
  PROVE  /\ b.steps \in Seq(ToSet(b.steps)) /\ Len(b.steps) \in Nat /\ DOMAIN b.steps = 1..Len(b.steps)
         /\ \A i \in DOMAIN b.steps :
              StepLoaded(b.steps[i]) /\ (b.steps[i].own # <<>> => ValidPolicy(b.steps[i].own[1]))
<1>1. b.steps \in Seq(ToSet(b.steps))
  BY DEF Sound, ValidBook, ValidSteps
<1>2. Len(b.steps) \in Nat /\ DOMAIN b.steps = 1..Len(b.steps)
  BY <1>1, SeqFacts
<1>3. ASSUME NEW i \in DOMAIN b.steps
      PROVE  StepLoaded(b.steps[i]) /\ (b.steps[i].own # <<>> => ValidPolicy(b.steps[i].own[1]))
  <2>1. i # 0
    BY <1>2
  <2>2. QED  BY <2>1 DEF Sound, BookLoaded, ValidBook, Scopes, PolicyIn
<1>4. QED  BY <1>1, <1>2, <1>3

LEMMA TidiedLoaded ==
  ASSUME NEW b, Sound(b)
  PROVE  /\ BookLoaded(Tidied(b))
         /\ PlaybookToForm(Tidied(b)) = TidyForm(PlaybookToForm(b))
<1> DEFINE c == Tidied(b)
           s == b.steps
           e == Each(TidyStep, s)
           n == Len(s)
           rows == Rows(s, StepFields)
           onfail == [i \in {Pipeline} \cup (0..n - 1) |->
                        IF i = Pipeline THEN PolicyFields(b.on_failure) ELSE OwnFields(s[i + 1])]
<1>1. /\ Mapping(c) /\ DOMAIN c = DOMAIN b
      /\ c.name = Strip(b.name) /\ c.description = Filled(b.description)
      /\ c.engine = Word(b.engine, "headless") /\ c.dedup = Word(b.dedup, "content_hash")
      /\ c.trigger = TidyTrigger(b.trigger) /\ c.steps = e
      /\ c.on_failure = TidyPolicy(b.on_failure)
  BY BookFieldNames DEF Tidied, Sound, BookLoaded, Mapping
<1>2. /\ n \in Nat /\ DOMAIN s = 1..n /\ Mapping(s)
      /\ \A i \in DOMAIN s : StepLoaded(s[i]) /\ (s[i].own # <<>> => ValidPolicy(s[i].own[1]))
  BY SoundSteps DEF Sound, BookLoaded
<1>3. Mapping(e) /\ DOMAIN e = DOMAIN s /\ (\A i \in DOMAIN s : e[i] = TidyStep(s[i])) /\ Len(e) = n
  BY <1>2 DEF Each, Mapping
<1>4. PolicyLoaded(b.on_failure) /\ ValidPolicy(b.on_failure) /\ TriggerLoaded(b.trigger)
      /\ DOMAIN b = {"name", "trigger", "steps"} \cup DOMAIN BookDefaults
  BY DEF Sound, BookLoaded, ValidBook, Scopes, PolicyIn
<1>5. /\ DOMAIN rows = 0..n - 1 /\ \A i \in 0..n - 1 : rows[i] = StepFields(s[i + 1])
  BY DEF Rows
<1>6. PlaybookToForm(b) = [name |-> b.name, description |-> b.description, engine |-> b.engine,
                           dedup |-> b.dedup, trigger |-> b.trigger, steps |-> rows,
                           onfail |-> onfail]
  BY DEF PlaybookToForm
<1> HIDE DEF c, s, e, n, rows
<1>7. \A i \in DOMAIN e : StepLoaded(e[i])
  BY <1>2, <1>3, TidyStepLoaded
<1>8. BookLoaded(c)
  BY <1>1, <1>3, <1>4, <1>7, TidyTriggerLoaded, TidyPolicyLoaded DEF BookLoaded
<1>9. ASSUME NEW i \in 0..n - 1
      PROVE  /\ StepFields(e[i + 1]) = TidyRow(rows[i])
             /\ OwnFields(e[i + 1]) = TidyPolicy(OwnFields(s[i + 1]))
  <2>1. i + 1 \in DOMAIN s
    BY <1>2
  <2>2. QED  BY <1>2, <1>3, <1>5, <2>1, TidyStepLoaded
<1>10. Rows(e, StepFields) = Each(TidyRow, rows)
  <2>1. Rows(e, StepFields) = [i \in 0..n - 1 |-> TidyRow(rows[i])]
    BY <1>3, <1>9 DEF Rows
  <2>2. QED  BY <1>5, <2>1 DEF Each
<1>11. [i \in {Pipeline} \cup (0..n - 1) |->
          IF i = Pipeline THEN PolicyFields(c.on_failure) ELSE OwnFields(e[i + 1])]
       = Each(TidyPolicy, onfail)
  <2>1. ASSUME NEW i \in {Pipeline} \cup (0..n - 1)
        PROVE  (IF i = Pipeline THEN PolicyFields(c.on_failure) ELSE OwnFields(e[i + 1]))
                 = TidyPolicy(onfail[i])
    <3>1. CASE i = Pipeline
      BY <1>1, <1>4, <3>1, TidyPolicyLoaded
    <3>2. CASE i # Pipeline
      BY <1>9, <3>2
    <3>3. QED  BY <3>1, <3>2
  <2>2. QED  BY <2>1 DEF Each
<1>12. PlaybookToForm(c)
         = [name |-> Strip(b.name), description |-> Filled(b.description),
            engine |-> Word(b.engine, "headless"), dedup |-> Word(b.dedup, "content_hash"),
            trigger |-> TidyTrigger(b.trigger), steps |-> Each(TidyRow, rows),
            onfail |-> Each(TidyPolicy, onfail)]
  <2>1. PlaybookToForm(c)
          = [name |-> c.name, description |-> c.description, engine |-> c.engine,
             dedup |-> c.dedup, trigger |-> c.trigger, steps |-> Rows(c.steps, StepFields),
             onfail |-> [i \in {Pipeline} \cup (0..Len(c.steps) - 1) |->
                           IF i = Pipeline THEN PolicyFields(c.on_failure)
                           ELSE OwnFields(c.steps[i + 1])]]
    BY DEF PlaybookToForm
  <2> HIDE DEF onfail
  <2>2. QED  BY <1>1, <1>3, <1>10, <1>11, <2>1
<1> HIDE DEF onfail
<1>13. TidyForm(PlaybookToForm(b)) = PlaybookToForm(c)
  <2> DEFINE f == PlaybookToForm(b)
  <2>1. f = [name |-> b.name, description |-> b.description, engine |-> b.engine, dedup |-> b.dedup,
             trigger |-> b.trigger, steps |-> rows, onfail |-> onfail]
    BY <1>6
  <2> HIDE DEF f
  <2>2. TidyForm(f) = [name |-> Strip(b.name), description |-> Filled(b.description),
                       engine |-> Word(b.engine, "headless"),
                       dedup |-> Word(b.dedup, "content_hash"),
                       trigger |-> TidyTrigger(b.trigger), steps |-> Each(TidyRow, rows),
                       onfail |-> Each(TidyPolicy, onfail)]
    BY <2>1, TidyFormFields
  <2>3. QED  BY <1>12, <2>2 DEF f
<1>14. QED  BY <1>8, <1>13 DEF c

LEMMA FormReloads ==
  ASSUME NEW d, Loads(d), ValidBook(Tidied(LoadBook(d)))
  PROVE  LET b == LoadBook(d) f == PlaybookToForm(b)
         IN  FormLoads(f) /\ Same(FormBook(f)) = Same(Tidied(b))
<1> DEFINE b == LoadBook(d)
           c == Tidied(b)
           f == PlaybookToForm(b)
           g == PlaybookToForm(c)
<1>1. Sound(b) /\ ValidBook(c)
  BY LoadedBook DEF Loads, Sound
<1> HIDE DEF b
<1>2. BookLoaded(c) /\ TidyForm(f) = g
  BY <1>1, TidiedLoaded
<1> HIDE DEF c, f
<1>3. FormComplete(g) /\ LoadBook(FieldsToDoc(g)) = Same(c) /\ "steps" \in DOMAIN FieldsToDoc(g)
  BY <1>1, <1>2, FormBack
<1> HIDE DEF g
<1>4. FormToDoc(f) = FieldsToDoc(g)
  BY <1>2 DEF FormToDoc
<1>5. ValidBook(FormBook(f)) /\ Same(FormBook(f)) = Same(c)
  BY <1>1, <1>2, <1>3, <1>4, SameValid DEF FormBook
<1>6. DOMAIN <<>> = {}
  OBVIOUS
<1>7. QED  BY <1>2, <1>3, <1>4, <1>5, <1>6 DEF FormLoads, Loads, FormBook, b, c, f

(* Opening a version in the form and saving it untouched keeps the          *)
(* playbook but for the space around its texts, for every playbook text.    *)
THEOREM TheFormKeeps == Spec => FormKeepsBook
<1>1. \A old, new : FormKeeps(old, new)
  BY FormReloads DEF FormKeeps
<1>2. Stored(FormKeeps)
  BY <1>1 DEF Stored
<1>3. QED  BY <1>2, PTL DEF FormKeepsBook, Spec

-----------------------------------------------------------------------------
(* What a save has read and where its page comes from.                      *)

IsSeq(s) == s \in Seq(ToSet(s))

LEMMA Appended ==
  ASSUME NEW s, IsSeq(s), NEW e
  PROVE  IsSeq(Append(s, e)) /\ Len(s) \in Nat /\ DOMAIN s = 1..Len(s)
<1>1. s \in Seq(ToSet(s) \cup {e}) /\ Len(s) \in Nat /\ DOMAIN s = 1..Len(s)
  BY DEF IsSeq
<1>2. Append(s, e) \in Seq(ToSet(s) \cup {e})
  BY <1>1
<1>3. ToSet(s) \cup {e} \subseteq ToSet(Append(s, e))
  <2>1. \A i \in 1..Len(s) : i \in DOMAIN Append(s, e) /\ Append(s, e)[i] = s[i]
    BY <1>1
  <2>2. Len(s) + 1 \in DOMAIN Append(s, e) /\ Append(s, e)[Len(s) + 1] = e
    BY <1>1
  <2>3. QED  BY <1>1, <2>1, <2>2 DEF ToSet
<1>4. QED  BY <1>1, <1>2, <1>3 DEF IsSeq

PageFields == {"tab", "pipeline", "base", "form", "doc", "lab", "shows", "advised"}

(* An open page of a pipeline that exists names the version it was opened   *)
(* from, and shows it unless it shows a suggestion.                         *)
Rooted(g) ==
  /\ DOMAIN g = PageFields /\ g.tab # "closed"
  /\ g.pipeline # New => g.base # 0 /\ (g.advised \/ g.shows = g.base)
PagesRooted ==
  /\ tabs = [t \in Tabs |-> tabs[t]]
  /\ \A t \in Tabs : tabs[t] = Closed \/ Rooted(tabs[t])

(* A save that will move the pipeline on read the version its page was      *)
(* opened from, and the page is still there; no other process has a page.   *)
SaveRead ==
  \A c \in ToSet(calls["web"]) : c.op = "save" =>
    \E t \in Tabs :
      /\ c.from = {t} /\ Rooted(tabs[t]) /\ tabs[t].pipeline # New
      /\ c.promote => tabs[t].base = c.read
NoPages ==
  \A k \in Callers \ {"web"} : \A c \in ToSet(calls[k]) : c.op # "suggested" => c.from = {}

OneCall ==
  DOMAIN calls = Callers /\ \A k \in Callers : calls[k] = <<>> \/ calls[k] = <<calls[k][1]>>

SaveInv == IsSeq(versions) /\ OneCall /\ PagesRooted /\ SaveRead /\ NoPages

LEMMA One == ASSUME NEW x PROVE ToSet(<<x>>) = {x} /\ ToSet(<<>>) = {}
  BY DEF ToSet

LEMMA Pages ==
  ASSUME NEW vs, NEW p, NEW v, v # 0, NEW lab
  PROVE  /\ Rooted(EditorPage(vs, p, v, lab))
         /\ EditorPage(vs, p, v, lab).base = v /\ DOMAIN EditorPage(vs, p, v, lab) = PageFields
  BY DEF Rooted, EditorPage, Page, PageFields

(* A handler that shows a page and asks for nothing.                        *)
LEMMA ShowKeeps ==
  ASSUME SaveInv, NEW t \in Tabs, NEW g, Rooted(g), Web, Show(t, g)
  PROVE  SaveInv'
<1>1. PagesRooted'
  BY DEF SaveInv, PagesRooted, Show
<1>2. SaveRead'
  BY One DEF SaveRead, Web, Show
<1>3. QED  BY <1>1, <1>2 DEF SaveInv, OneCall, NoPages, Show, store

(* An open page changed in fields that say nothing of its origin.           *)
LEMMA SamePage ==
  ASSUME SaveInv, NEW t \in Tabs, Open(t), NEW g, DOMAIN g = PageFields, g.tab # "closed",
         g.pipeline = tabs[t].pipeline, g.base = tabs[t].base,
         g.advised = tabs[t].advised, g.shows = tabs[t].shows
  PROVE  Rooted(tabs[t]) /\ Rooted(g)
<1>1. tabs[t] # Closed
  BY DEF Open, Closed
<1>2. QED  BY <1>1 DEF SaveInv, PagesRooted, Rooted

LEMMA ValidateKeeps == ASSUME SaveInv, NEW t \in Tabs, EditorValidate(t) PROVE SaveInv'
<1> DEFINE g == tabs[t]
           h == [g EXCEPT !.lab = FALSE,
                          !.doc = IF Accepted(g) THEN DumpBook(ContentBook(g)) ELSE @]
<1>1. Web /\ Open(t) /\ Show(t, h)
  BY DEF EditorValidate
<1>2. Rooted(g)
  BY <1>1 DEF SaveInv, PagesRooted, Open, Closed
<1>3. /\ DOMAIN h = PageFields /\ h.tab = g.tab /\ h.pipeline = g.pipeline /\ h.base = g.base
      /\ h.advised = g.advised /\ h.shows = g.shows
  BY <1>2 DEF Rooted, PageFields
<1> HIDE DEF h
<1>4. Rooted(h)
  BY <1>1, <1>3, SamePage DEF Open
<1>5. QED  BY <1>1, <1>4, ShowKeeps

LEMMA ToYamlKeeps == ASSUME SaveInv, NEW t \in Tabs, EditorToYaml(t) PROVE SaveInv'
<1> DEFINE g == [tabs[t] EXCEPT !.lab = FALSE]
           h == IF Accepted(g) THEN [g EXCEPT !.tab = "yaml", !.doc = DumpBook(FormBook(g.form))]
                ELSE g
<1>1. Web /\ Open(t) /\ Show(t, h)
  BY DEF EditorToYaml
<1>2. Rooted(tabs[t])
  BY <1>1 DEF SaveInv, PagesRooted, Open, Closed
<1>3. /\ DOMAIN g = PageFields /\ g.tab # "closed" /\ g.pipeline = tabs[t].pipeline
      /\ g.base = tabs[t].base /\ g.advised = tabs[t].advised /\ g.shows = tabs[t].shows
  BY <1>2 DEF Rooted, PageFields
<1> HIDE DEF g
<1>4. /\ DOMAIN h = PageFields /\ h.tab # "closed" /\ h.pipeline = tabs[t].pipeline
      /\ h.base = tabs[t].base /\ h.advised = tabs[t].advised /\ h.shows = tabs[t].shows
  <2>1. CASE Accepted(g)  BY <2>1, <1>3 DEF PageFields
  <2>2. CASE ~Accepted(g) BY <2>2, <1>3
  <2>3. QED  BY <2>1, <2>2
<1> HIDE DEF h
<1>5. Rooted(h)
  BY <1>1, <1>4, SamePage
<1>6. QED  BY <1>1, <1>5, ShowKeeps

LEMMA ToFormKeeps == ASSUME SaveInv, NEW t \in Tabs, EditorToForm(t) PROVE SaveInv'
<1> DEFINE g == [tabs[t] EXCEPT !.lab = FALSE]
           b == LoadBook(g.doc)
           h == IF Accepted(g) THEN [g EXCEPT !.tab = "form", !.form = PlaybookToForm(b),
                                              !.doc = DumpBook(b)]
                ELSE g
<1>1. Web /\ Open(t) /\ Show(t, h)
  BY DEF EditorToForm
<1>2. Rooted(tabs[t])
  BY <1>1 DEF SaveInv, PagesRooted, Open, Closed
<1> HIDE DEF b
<1>3. /\ DOMAIN g = PageFields /\ g.tab # "closed" /\ g.pipeline = tabs[t].pipeline
      /\ g.base = tabs[t].base /\ g.advised = tabs[t].advised /\ g.shows = tabs[t].shows
  BY <1>2 DEF Rooted, PageFields
<1> HIDE DEF g
<1>4. /\ DOMAIN h = PageFields /\ h.tab # "closed" /\ h.pipeline = tabs[t].pipeline
      /\ h.base = tabs[t].base /\ h.advised = tabs[t].advised /\ h.shows = tabs[t].shows
  <2>1. CASE Accepted(g)  BY <2>1, <1>3 DEF PageFields
  <2>2. CASE ~Accepted(g) BY <2>2, <1>3
  <2>3. QED  BY <2>1, <2>2
<1> HIDE DEF h
<1>5. Rooted(h)
  BY <1>1, <1>4, SamePage
<1>6. QED  BY <1>1, <1>5, ShowKeeps

(* Typing goes on while a save waits: neither the page nor the call changes *)
(* where it comes from.                                                     *)
LEMMA FieldChanged ==
  ASSUME SaveInv, NEW t \in Tabs, Open(t), NEW k \in {"form", "doc"}, NEW x,
         tabs' = [tabs EXCEPT ![t][k] = x], UNCHANGED <<store, calls>>
  PROVE  SaveInv'
<1> DEFINE h == [tabs[t] EXCEPT ![k] = x]
<1>1. Rooted(tabs[t])
  BY DEF SaveInv, PagesRooted, Open, Closed
<1>2. /\ DOMAIN h = PageFields /\ h.tab = tabs[t].tab /\ h.pipeline = tabs[t].pipeline
      /\ h.base = tabs[t].base /\ h.advised = tabs[t].advised /\ h.shows = tabs[t].shows
  BY <1>1 DEF Rooted, PageFields
<1>3. tabs' = [tabs EXCEPT ![t] = h]
  OBVIOUS
<1> HIDE DEF h
<1>4. Rooted(h)
  BY <1>1, <1>2, SamePage DEF Rooted
<1>5. tabs'[t] = h /\ \A u \in Tabs : u # t => tabs'[u] = tabs[u]
  BY <1>3 DEF SaveInv, PagesRooted
<1>6. PagesRooted'
  BY <1>3, <1>4, <1>5 DEF SaveInv, PagesRooted
<1>7. SaveRead'
  <2>1. ASSUME NEW c \in ToSet(calls["web"]), c.op = "save"
        PROVE  \E u \in Tabs : /\ c.from = {u} /\ Rooted(tabs'[u]) /\ tabs'[u].pipeline # New
                               /\ c.promote => tabs'[u].base = c.read
    <3>1. PICK u \in Tabs : /\ c.from = {u} /\ Rooted(tabs[u]) /\ tabs[u].pipeline # New
                            /\ c.promote => tabs[u].base = c.read
      BY <2>1 DEF SaveInv, SaveRead
    <3>2. QED  BY <1>2, <1>4, <1>5, <3>1
  <2>2. QED  BY <2>1 DEF SaveRead
<1>8. QED  BY <1>6, <1>7 DEF SaveInv, OneCall, NoPages, store

LEMMA TypeKeeps == ASSUME SaveInv, NEW t \in Tabs, Type(t) PROVE SaveInv'
<1>1. Open(t) /\ UNCHANGED <<store, calls>>
  BY DEF Type
<1>2. CASE \E f \in TypedForms(tabs[t].form) : tabs' = [tabs EXCEPT ![t].form = f]
  BY <1>1, <1>2, FieldChanged
<1>3. CASE \E d \in Texts : tabs' = [tabs EXCEPT ![t].doc = d]
  BY <1>1, <1>3, FieldChanged
<1>4. QED  BY <1>2, <1>3 DEF Type

LEMMA RowsKeeps == ASSUME SaveInv, NEW t \in Tabs, EditorRows(t) PROVE SaveInv'
<1>1. PICK f \in RowRoutes(tabs[t].form) : Show(t, [tabs[t] EXCEPT !.form = f])
  BY DEF EditorRows
<1>2. Open(t) /\ tabs' = [tabs EXCEPT ![t].form = f] /\ UNCHANGED <<store, calls>>
  BY <1>1 DEF EditorRows, Show
<1>3. QED  BY <1>2, FieldChanged

LEMMA OpeningKeeps ==
  ASSUME SaveInv, NEW t \in Tabs,
         \/ EditorNew(t) \/ OpenSuggestion(t)
         \/ \E v \in Ids, lab \in BOOLEAN : EditorEdit(t, v, lab)
  PROVE  SaveInv'
<1>1. CASE EditorNew(t)
  <2> DEFINE g == Page("form", New, 0, PlaybookToForm(Starter), DumpBook(Starter), FALSE, 0)
  <2>1. Rooted(g)
    BY DEF Rooted, Page, PageFields
  <2>2. Web /\ Show(t, g)
    BY <1>1 DEF EditorNew
  <2> HIDE DEF g
  <2>3. QED  BY <2>1, <2>2, ShowKeeps
<1>2. CASE OpenSuggestion(t)
  <2> DEFINE p == pending[1].pipeline
             e == EditorPage(versions, p, current[p], FALSE)
             g == [e EXCEPT !.tab = "yaml", !.doc = pending[1].doc, !.advised = TRUE]
  <2>1. Web /\ Opens(versions, current, p, current[p]) /\ Show(t, g)
    BY <1>2 DEF OpenSuggestion
  <2>2. current[p] # 0
    BY <2>1 DEF Opens
  <2>3. Rooted(e) /\ e.base = current[p]
    BY <2>2 DEF Rooted, EditorPage, Page, PageFields
  <2> HIDE DEF p, e
  <2>4. Rooted(g)
    BY <2>2, <2>3 DEF Rooted, PageFields
  <2> HIDE DEF g
  <2>5. QED  BY <2>1, <2>4, ShowKeeps
<1>3. CASE \E v \in Ids, lab \in BOOLEAN : EditorEdit(t, v, lab)
  <2>1. PICK v \in Ids, lab \in BOOLEAN : EditorEdit(t, v, lab)
    BY <1>3
  <2>2. v # 0
    BY Appended DEF SaveInv, Ids
  <2> DEFINE g == EditorPage(versions, versions[v].pipeline, v, lab)
  <2>3. Web /\ Show(t, g)
    BY <2>1 DEF EditorEdit
  <2>4. Rooted(g)
    BY <2>2, Pages
  <2> HIDE DEF g
  <2>5. QED  BY <2>3, <2>4, ShowKeeps
<1>4. QED  BY <1>1, <1>2, <1>3

LEMMA SaveKeeps == ASSUME SaveInv, NEW t \in Tabs, BeginSave(t) PROVE SaveInv'
<1> DEFINE g    == tabs[t]
           read == current[g.pipeline]
           base == IF g.base # 0 THEN g.base ELSE read
           c    == Call("save", {t}, read, ContentBook(g), DumpBook(ContentBook(g)), base,
                        base = read /\ ~g.lab)
<1>1. Open(t) /\ g.pipeline # New /\ Ask("web", c)
  BY DEF BeginSave
<1>2. Rooted(g) /\ g.base # 0
  BY <1>1 DEF SaveInv, PagesRooted, Open, Closed, Rooted
<1>3. c.from = {t} /\ c.read = read /\ (c.promote => g.base = c.read)
  BY <1>2 DEF Call
<1> HIDE DEF c
<1>4. calls' = [calls EXCEPT !["web"] = <<c>>] /\ UNCHANGED <<store, tabs>>
  BY <1>1 DEF Ask
<1>5. ToSet(calls'["web"]) = {c} /\ \A k \in Callers \ {"web"} : calls'[k] = calls[k]
  BY <1>4, One DEF SaveInv, OneCall, Callers
<1>6. SaveRead'
  BY <1>1, <1>2, <1>3, <1>4, <1>5 DEF SaveRead
<1>7. NoPages'
  BY <1>5 DEF SaveInv, NoPages
<1>8. OneCall'
  BY <1>4, <1>5 DEF SaveInv, OneCall, Callers
<1>9. QED  BY <1>4, <1>6, <1>7, <1>8 DEF SaveInv, PagesRooted, store

(* Any other call: no save, and from no tab unless the web asks.            *)
LEMMA AskKeeps ==
  ASSUME SaveInv, NEW k \in Callers, NEW c, Ask(k, c),
         c.op # "save", k # "web" => c.from = {}
  PROVE  SaveInv'
<1>1. calls' = [calls EXCEPT ![k] = <<c>>] /\ UNCHANGED <<store, tabs>>
  BY DEF Ask
<1>2. ToSet(calls'[k]) = {c} /\ \A j \in Callers : j # k => calls'[j] = calls[j]
  BY <1>1, One DEF SaveInv, OneCall
<1>3. SaveRead'
  BY <1>1, <1>2 DEF SaveInv, SaveRead, Callers
<1>4. NoPages'
  BY <1>2 DEF SaveInv, NoPages
<1>5. OneCall'
  BY <1>1, <1>2 DEF SaveInv, OneCall
<1>6. QED  BY <1>1, <1>3, <1>4, <1>5 DEF SaveInv, PagesRooted, store

LEMMA AskingKeeps ==
  ASSUME SaveInv,
         \/ \E t \in Tabs : BeginSaveNew(t)
         \/ \E d \in Texts : BeginPaste(d)
         \/ \E p \in Names, v \in Ids : BeginRevert(p, v)
         \/ BeginApprove \/ CliBeginApprove
  PROVE  SaveInv'
<1>0. "web" \in Callers /\ "approve" \in Callers
  BY DEF Callers
<1>1. CASE \E t \in Tabs : BeginSaveNew(t)
  <2>1. PICK t \in Tabs : BeginSaveNew(t)  BY <1>1
  <2>2. PICK c : Ask("web", c) /\ c.op = "new"
    BY <2>1 DEF BeginSaveNew, Call
  <2>3. QED  BY <1>0, <2>2, AskKeeps
<1>2. CASE \E d \in Texts : BeginPaste(d)
  <2>1. PICK d \in Texts : BeginPaste(d)  BY <1>2
  <2>2. PICK c : Ask("web", c) /\ c.op = "paste"
    BY <2>1 DEF BeginPaste, Call
  <2>3. QED  BY <1>0, <2>2, AskKeeps
<1>3. CASE \E p \in Names, v \in Ids : BeginRevert(p, v)
  <2>1. PICK c : Ask("web", c) /\ c.op = "revert"
    BY <1>3 DEF BeginRevert, Call
  <2>2. QED  BY <1>0, <2>1, AskKeeps
<1>4. CASE BeginApprove
  <2>1. PICK c : Ask("web", c) /\ c.op = "approve"
    BY <1>4 DEF BeginApprove, ApproveCall, Call
  <2>2. QED  BY <1>0, <2>1, AskKeeps
<1>5. CASE CliBeginApprove
  <2>1. PICK c : Ask("approve", c) /\ c.op = "approve" /\ c.from = {}
    BY <1>5 DEF CliBeginApprove, ApproveCall, Call
  <2>2. QED  BY <1>0, <2>1, AskKeeps
<1>6. QED  BY <1>1, <1>2, <1>3, <1>4, <1>5

LEMMA RegisterKeeps == ASSUME SaveInv, NEW k \in Callers, Register(k) PROVE SaveInv'
<1> DEFINE c == calls[k][1]
           v == Len(versions) + 1
<1>1. /\ RegisterPipeline(c.book, c.doc, c.parent, c.promote)
      /\ tabs' = [t \in Tabs |-> IF t \in c.from THEN Answer(c, t, v) ELSE tabs[t]]
      /\ calls[k] # <<>> /\ c.op # "suggested"
      /\ calls' = [calls EXCEPT ![k] = <<>>]
  BY DEF Register
<1>2. v # 0 /\ IsSeq(versions')
  <2>1. PICK row : versions' = Append(versions, row)
    BY <1>1 DEF RegisterPipeline
  <2>2. QED  BY <2>1, Appended DEF SaveInv
<1>3. ASSUME NEW t PROVE Answer(c, t, v) = Closed \/ Rooted(Answer(c, t, v))
  BY <1>2, Pages DEF Answer
<1>4. ToSet(calls'[k]) = {} /\ OneCall'
      /\ \A j \in Callers : j # k => calls'[j] = calls[j]
  BY <1>1, One DEF SaveInv, OneCall
<1>5. PagesRooted'
  BY <1>1, <1>3 DEF SaveInv, PagesRooted
<1>6. SaveRead'
  <2>1. CASE k = "web"
    BY <2>1, <1>4 DEF SaveRead
  <2>2. CASE k # "web"
    <3>0. c \in ToSet(calls[k])
      BY <1>1, One DEF SaveInv, OneCall
    <3>1. c.from = {}
      BY <2>2, <3>0, <1>1 DEF SaveInv, NoPages
    <3>2. tabs' = tabs
      BY <1>1, <3>1 DEF SaveInv, PagesRooted
    <3>3. calls'["web"] = calls["web"]
      BY <2>2, <1>4 DEF Callers
    <3>4. QED  BY <3>2, <3>3 DEF SaveInv, SaveRead
  <2>3. QED  BY <2>1, <2>2
<1>7. NoPages'
  BY <1>4 DEF SaveInv, NoPages
<1>8. QED  BY <1>2, <1>4, <1>5, <1>6, <1>7 DEF SaveInv

(* The steps that touch neither pages nor the calls of the web.             *)
LEMMA OthersKeep ==
  ASSUME SaveInv, tabs' = tabs, IsSeq(versions'), OneCall',
         \A c \in ToSet(calls'["web"]) : c \in ToSet(calls["web"]),
         \A k \in Callers \ {"web"} : \A c \in ToSet(calls'[k]) :
           c \in ToSet(calls[k]) \/ c.op = "suggested" \/ c.from = {}
  PROVE  SaveInv'
  BY DEF SaveInv, PagesRooted, SaveRead, NoPages

LEMMA RestKeeps ==
  ASSUME SaveInv,
         \/ \E p \in Names, v \in Ids : MakeCurrent(p, v)
         \/ \E d \in Texts : CliRun(d)
         \/ SuggestBranch \/ DiscardBranch \/ CliSuggest \/ CliRunEnds \/ Stop \/ Serve
         \/ UNCHANGED vars
  PROVE  SaveInv'
<1>1. CASE UNCHANGED calls /\ UNCHANGED <<versions, tabs>>
  BY <1>1, OthersKeep DEF SaveInv, OneCall
<1>2. CASE \E d \in Texts : CliRun(d) /\ ~UNCHANGED calls
  <2>0. PICK d \in Texts : CliRun(d) /\ ~UNCHANGED calls
    BY <1>2
  <2> DEFINE b == LoadBook(d)
             c == Call("run", {}, current[b.name], b, d, 0, TRUE)
  <2>1. calls' = [calls EXCEPT !["run"] = <<c>>] /\ UNCHANGED <<versions, tabs>>
    BY <2>0 DEF CliRun, store
  <2>2. c.from = {}
    BY DEF Call
  <2> HIDE DEF c
  <2>3. OneCall' /\ ToSet(calls'["run"]) = {c}
        /\ \A k \in Callers : k # "run" => calls'[k] = calls[k]
    BY <2>1, One DEF SaveInv, OneCall, Callers
  <2>4. QED  BY <2>1, <2>2, <2>3, OthersKeep DEF SaveInv, Callers
<1>3. CASE CliSuggest
  <2>1. PICK s : calls' = [calls EXCEPT !["approve"] = <<[op |-> "suggested", suggestion |-> s]>>]
    BY <1>3 DEF CliSuggest
  <2>2. UNCHANGED <<versions, tabs>>
    BY <1>3 DEF CliSuggest, store
  <2> DEFINE c == [op |-> "suggested", suggestion |-> s]
  <2>3. c.op = "suggested" /\ calls' = [calls EXCEPT !["approve"] = <<c>>]
    BY <2>1
  <2> HIDE DEF c
  <2>4. OneCall' /\ ToSet(calls'["approve"]) = {c}
        /\ \A k \in Callers : k # "approve" => calls'[k] = calls[k]
    BY <2>3, One DEF SaveInv, OneCall, Callers
  <2>5. QED  BY <2>2, <2>3, <2>4, OthersKeep DEF SaveInv, Callers
<1>4. CASE Stop
  <2>1. calls' = [calls EXCEPT !["web"] = <<>>] /\ UNCHANGED <<versions, tabs>>
    BY <1>4 DEF Stop, store
  <2>2. OneCall' /\ ToSet(calls'["web"]) = {}
        /\ \A k \in Callers : k # "web" => calls'[k] = calls[k]
    BY <2>1, One DEF SaveInv, OneCall, Callers
  <2>3. QED  BY <2>1, <2>2, OthersKeep DEF SaveInv
<1>5. QED
  BY <1>1, <1>2, <1>3, <1>4
     DEF MakeCurrent, SetCurrentVersion, CliRun, SuggestBranch, DiscardBranch, CliRunEnds, Serve,
         store, vars

LEMMA SaveInit == Init => SaveInv
<1> SUFFICES ASSUME Init PROVE SaveInv  OBVIOUS
<1>1. IsSeq(versions)
  <2>1. PICK row : versions = <<row>>
    BY DEF Init
  <2>2. QED  BY <2>1, One DEF IsSeq
<1>2. QED  BY <1>1, One DEF Init, SaveInv, OneCall, PagesRooted, SaveRead, NoPages, Callers

LEMMA SaveNext == SaveInv /\ [Next]_vars => SaveInv'
<1> SUFFICES ASSUME SaveInv, [Next]_vars PROVE SaveInv'  OBVIOUS
<1>1. CASE \E t \in Tabs : \/ EditorNew(t) \/ OpenSuggestion(t)
                           \/ \E v \in Ids, lab \in BOOLEAN : EditorEdit(t, v, lab)
  BY <1>1, OpeningKeeps
<1>2. CASE \E t \in Tabs : \/ EditorValidate(t) \/ EditorToYaml(t) \/ EditorToForm(t)
                           \/ EditorRows(t) \/ Type(t) \/ BeginSave(t) \/ BeginSaveNew(t)
  BY <1>2, ValidateKeeps, ToYamlKeeps, ToFormKeeps, RowsKeeps, TypeKeeps, SaveKeeps, AskingKeeps
<1>3. CASE \E d \in Texts : BeginPaste(d) \/ CliRun(d)
  BY <1>3, AskingKeeps, RestKeeps
<1>4. CASE \E p \in Names, v \in Ids : MakeCurrent(p, v) \/ BeginRevert(p, v)
  BY <1>4, AskingKeeps, RestKeeps
<1>5. CASE \/ SuggestBranch \/ DiscardBranch \/ BeginApprove \/ CliSuggest \/ CliBeginApprove
           \/ CliRunEnds \/ Stop \/ Serve \/ UNCHANGED vars
  BY <1>5, AskingKeeps, RestKeeps
<1>6. CASE \E c \in Callers : Register(c)
  BY <1>6, RegisterKeeps
<1>7. QED  BY <1>1, <1>2, <1>3, <1>4, <1>5, <1>6 DEF Next

(* No save takes another tab's change off the current version, for any      *)
(* number of tabs, pipelines and processes: only the registration of the    *)
(* save itself ends its call and moves a pipeline on, and then the page was *)
(* opened from the version the save read, which is the current one unless   *)
(* another process moved it or the playbook got another pipeline's name.    *)
THEOREM NothingIsLost == Spec => NoLostUpdate
<1> DEFINE Kept == \A c \in ToSet(calls["web"]) : \A t \in c.from :
       LET p == c.book.name
       IN  calls'["web"] = <<>> /\ c.op = "save" /\ current'[p] # current[p]
             => \/ tabs[t].shows = current[p]
                \/ tabs[t].advised \/ c.read # current[p] \/ Renamed(c, t)
<1>1. SaveInv /\ [Next]_vars => Kept
  <2> SUFFICES ASSUME SaveInv, [Next]_vars,
                      NEW c \in ToSet(calls["web"]), NEW t \in c.from,
                      calls'["web"] = <<>>, c.op = "save",
                      current'[c.book.name] # current[c.book.name],
                      c.read = current[c.book.name]
               PROVE  tabs[t].advised \/ tabs[t].shows = current[c.book.name]
    OBVIOUS
  <2>1. calls["web"] = <<c>>
    <3>1. calls["web"] = <<>> \/ calls["web"] = <<calls["web"][1]>>
      BY DEF SaveInv, OneCall, Callers
    <3>2. CASE calls["web"] = <<>>
      BY <3>2, One
    <3>3. ASSUME NEW x, calls["web"] = <<x>> PROVE calls["web"] = <<c>>
      <4>1. ToSet(calls["web"]) = {x}
        BY <3>3, One
      <4>2. QED  BY <3>3, <4>1
    <3>4. QED  BY <3>1, <3>2, <3>3
  <2>2. /\ c.from = {t} /\ Rooted(tabs[t]) /\ tabs[t].pipeline # New
        /\ c.promote => tabs[t].base = c.read
    BY DEF SaveInv, SaveRead
  <2>3. ~UNCHANGED current
    OBVIOUS
  <2>4. PICK k \in Callers : Register(k)
    <3>1. calls' # calls
      <4>1. calls'["web"] # calls["web"]
        BY <2>1
      <4>2. QED  BY <4>1
    <3>2. ~(\E q \in Names, v \in Ids : MakeCurrent(q, v))
      BY <3>1 DEF MakeCurrent
    <3>3. QED
      BY <2>3, <3>1, <3>2
         DEF Next, vars, store, counts, Show, Ask, EditorNew, OpenSuggestion, EditorEdit, EditorValidate,
             EditorToYaml, EditorToForm, EditorRows, Type, BeginSave, BeginSaveNew, BeginPaste, CliRun,
             BeginRevert, SuggestBranch, DiscardBranch, BeginApprove, CliSuggest, CliBeginApprove,
             CliRunEnds, Stop, Serve
  <2>5. k = "web"
    <3>1. k # "web" => calls'["web"] = calls["web"]
      BY <2>4 DEF Register, SaveInv, OneCall, Callers
    <3>2. QED  BY <2>1, <3>1
  <2>6. c.promote
    BY <2>1, <2>3, <2>4, <2>5 DEF Register, RegisterPipeline
  <2>7. QED  BY <2>2, <2>6 DEF Rooted
<1>2. QED  BY <1>1, SaveInit, SaveNext, PTL DEF Spec, NoLostUpdate

-----------------------------------------------------------------------------
(* Induction, for sets of numbers: what holds of 0 and passes on from n to  *)
(* n + 1 holds of every number.                                             *)

LEMMA Least ==
  ASSUME NEW T \in SUBSET Nat, T # {}
  PROVE  \E x \in T : \A y \in T : x <= y
<1> DEFINE R == OpToRel(<, Nat)
<1>1. IsWellFoundedOn(R, Nat)
  BY NatLessThanWellFounded
<1>2. \A y, x \in Nat : y < x => <<y, x>> \in R
  BY DEF OpToRel
<1> HIDE DEF R
<1>3. PICK x \in T : \A y \in T : ~(<<y, x>> \in R)
  BY <1>1, WFMin
<1>4. \A y \in T : ~(y < x)
  BY <1>2, <1>3
<1>5. \A y \in T : x <= y
  BY <1>4
<1>6. QED  BY <1>5

LEMMA Induction ==
  ASSUME NEW T, 0 \in T, \A n \in Nat : n \in T => n + 1 \in T
  PROVE  Nat \subseteq T
<1> DEFINE B == Nat \ T
<1> SUFFICES ASSUME B # {} PROVE FALSE
  OBVIOUS
<1>1. PICK x \in B : \A y \in B : x <= y
  BY Least
<1>2. x # 0 /\ x - 1 \in Nat
  BY <1>1
<1>3. x - 1 \in T
  BY <1>1, <1>2
<1>4. x - 1 + 1 = x
  BY <1>1
<1>5. QED  BY <1>2, <1>3, <1>4

-----------------------------------------------------------------------------
(* The matcher: what it pairs lies in both texts.                           *)

LEMMA LongestFound ==
  ASSUME NEW N \in Nat, NEW blocks \in SUBSET (Nat \X Nat \X (0..N)), blocks # {}
  PROVE  LongestBlock(blocks) \in blocks
<1> DEFINE A == {N - b[3] : b \in blocks}
<1>1. PICK x \in A : \A y \in A : x <= y
  <2>1. A \in SUBSET Nat /\ A # {}
    OBVIOUS
  <2> HIDE DEF A
  <2>2. QED  BY <2>1, Least
<1>2. PICK a \in blocks : x = N - a[3]
  BY <1>1
<1>3. \A c \in blocks : a[3] >= c[3]
  <2> TAKE c \in blocks
  <2>1. a[3] \in 0..N /\ c[3] \in 0..N
    OBVIOUS
  <2>2. N - c[3] \in A
    OBVIOUS
  <2>3. x <= N - c[3]
    BY <1>1, <2>2
  <2>4. QED  BY <1>2, <2>1, <2>3
<1> DEFINE L == {b \in blocks : b[3] = a[3]}
           F == {b[1] : b \in L}
<1>4. PICK y \in F : \A z \in F : y <= z
  <2>1. F \in SUBSET Nat /\ F # {}
    BY <1>2
  <2> HIDE DEF F
  <2>2. QED  BY <2>1, Least
<1>5. PICK d \in L : y = d[1]
  BY <1>4
<1>6. \A c \in L : d[1] <= c[1]
  BY <1>4, <1>5
<1> DEFINE K == {b \in L : b[1] = d[1]}
           G == {b[2] : b \in K}
<1>7. PICK v \in G : \A z \in G : v <= z
  <2>1. G \in SUBSET Nat /\ G # {}
    BY <1>5
  <2> HIDE DEF G
  <2>2. QED  BY <2>1, Least
<1>8. PICK e \in K : v = e[2]
  BY <1>7
<1>9. \A c \in K : e[2] <= c[2]
  BY <1>7, <1>8
<1>10. \A c \in blocks :
         \/ e[3] > c[3]
         \/ e[3] = c[3] /\ (e[1] < c[1] \/ (e[1] = c[1] /\ e[2] <= c[2]))
  <2> TAKE c \in blocks
  <2>1. e \in blocks /\ e[3] = a[3] /\ e[1] = d[1]
    BY <1>8
  <2>2. e[3] \in Nat /\ c[3] \in Nat /\ e[1] \in Nat /\ c[1] \in Nat /\ e[2] \in Nat /\ c[2] \in Nat
    BY <2>1
  <2>3. CASE c[3] # a[3]
    BY <1>3, <2>1, <2>2, <2>3
  <2>4. CASE c[3] = a[3] /\ c[1] # d[1]
    <3>1. d[1] <= c[1]
      BY <1>6, <2>4
    <3>2. QED  BY <2>1, <2>2, <2>4, <3>1
  <2>5. CASE c[3] = a[3] /\ c[1] = d[1]
    <3>1. e[2] <= c[2]
      BY <1>9, <2>5
    <3>2. QED  BY <2>1, <2>2, <2>5, <3>1
  <2>6. QED  BY <2>3, <2>4, <2>5
<1>11. e \in blocks
  BY <1>8
<1>12. QED  BY <1>10, <1>11 DEF LongestBlock

(* One step of the matcher, given what it says of smaller windows.          *)
MatchStep(s, t, within, w) ==
  LET blocks == CommonBlocks(s, t, w)
      b == LongestBlock(blocks)
  IN  IF blocks = {} THEN {}
      ELSE {<<b[1] + k, b[2] + k>> : k \in 0..b[3] - 1}
             \cup within[<<w[1], b[1] - 1, w[3], b[2] - 1>>]
             \cup within[<<b[1] + b[3], w[2], b[2] + b[3], w[4]>>]
MatchIn(s, t) == CHOOSE within : within = [w \in Windows(s, t) |-> MatchStep(s, t, within, w)]

LEMMA MatchedByParts ==
  ASSUME NEW s, NEW t
  PROVE  Matched(s, t) = MatchIn(s, t)[<<1, Len(s), 1, Len(t)>>]
  BY DEF Matched, MatchIn, MatchStep

Texts2(s, t) == Len(s) \in Nat /\ Len(t) \in Nat
Size(w) == w[2] - w[1]

(* The blocks of a window lie in it, and what is left on both sides of one  *)
(* are smaller windows.                                                     *)
LEMMA SmallerWindows ==
  ASSUME NEW s, NEW t, Texts2(s, t), NEW w \in Windows(s, t), CommonBlocks(s, t, w) # {}
  PROVE  LET b == LongestBlock(CommonBlocks(s, t, w))
             l == <<w[1], b[1] - 1, w[3], b[2] - 1>>
             r == <<b[1] + b[3], w[2], b[2] + b[3], w[4]>>
         IN  /\ b \in CommonBlocks(s, t, w)
             /\ b[1] \in w[1]..w[2] /\ b[2] \in w[3]..w[4] /\ b[3] \in Nat \ {0}
             /\ b[1] + b[3] - 1 <= w[2] /\ b[2] + b[3] - 1 <= w[4]
             /\ l \in Windows(s, t) /\ Size(l) < Size(w) /\ Size(l) \in Int
             /\ r \in Windows(s, t) /\ Size(r) < Size(w) /\ Size(r) \in Int
             /\ Size(w) \in Nat
<1> DEFINE blocks == CommonBlocks(s, t, w)
           b == LongestBlock(blocks)
           l == <<w[1], b[1] - 1, w[3], b[2] - 1>>
           r == <<b[1] + b[3], w[2], b[2] + b[3], w[4]>>
           n == Len(s)
           m == Len(t)
<1>1. n \in Nat /\ m \in Nat
  BY DEF Texts2
<1>2. PICK w1 \in 1..n + 1, w2 \in 0..n, w3 \in 1..m + 1, w4 \in 0..m : w = <<w1, w2, w3, w4>>
  BY DEF Windows
<1> HIDE DEF n, m
<1>3. b \in blocks /\ b \in (w1..w2) \X (w3..w4) \X (1..w2 - w1 + 1)
      /\ b[1] + b[3] - 1 <= w2 /\ b[2] + b[3] - 1 <= w4
  <2>1. blocks \subseteq (w1..w2) \X (w3..w4) \X (1..w2 - w1 + 1)
        /\ \A c \in blocks : c[1] + c[3] - 1 <= w2 /\ c[2] + c[3] - 1 <= w4
    BY <1>2 DEF CommonBlocks
  <2>2. w1..w2 \subseteq Nat /\ w3..w4 \subseteq Nat /\ 1..w2 - w1 + 1 \subseteq 0..n + 1 /\ n + 1 \in Nat
    BY <1>1
  <2> HIDE DEF blocks
  <2>3. blocks \in SUBSET (Nat \X Nat \X (0..n + 1)) /\ blocks # {}
    BY <2>1, <2>2 DEF blocks
  <2>4. b \in blocks
    BY <2>2, <2>3, LongestFound
  <2>5. QED  BY <2>1, <2>4
<1> HIDE DEF b, blocks
<1>4. PICK b1 \in w1..w2, b2 \in w3..w4, b3 \in 1..w2 - w1 + 1 : b = <<b1, b2, b3>>
  BY <1>3
<1>5. b1 + b3 - 1 <= w2 /\ b2 + b3 - 1 <= w4
  BY <1>3, <1>4
<1>6. l = <<w1, b1 - 1, w3, b2 - 1>> /\ r = <<b1 + b3, w2, b2 + b3, w4>>
  BY <1>2, <1>4
<1> HIDE DEF l, r
<1>7. /\ b1 - 1 \in 0..n /\ b2 - 1 \in 0..m /\ b1 + b3 \in 1..n + 1 /\ b2 + b3 \in 1..m + 1
      /\ b1 - 1 - w1 < w2 - w1 /\ b1 - 1 - w1 \in Int /\ w2 - w1 \in Nat
      /\ w2 - (b1 + b3) < w2 - w1 /\ w2 - (b1 + b3) \in Int /\ b3 \in Nat \ {0}
  BY <1>1, <1>5
<1>8. l \in Windows(s, t) /\ r \in Windows(s, t)
  BY <1>6, <1>7 DEF Windows, n, m
<1>9. Size(l) = b1 - 1 - w1 /\ Size(r) = w2 - (b1 + b3) /\ Size(w) = w2 - w1
  BY <1>2, <1>6 DEF Size
<1>10. /\ b[1] = b1 /\ b[2] = b2 /\ b[3] = b3
       /\ w[1] = w1 /\ w[2] = w2 /\ w[3] = w3 /\ w[4] = w4
  BY <1>2, <1>4
<1>11. QED  BY <1>3, <1>5, <1>7, <1>8, <1>9, <1>10 DEF b, blocks, l, r

(* The matcher is well defined: by induction on the size of the windows.    *)
LEMMA MatchDefined ==
  ASSUME NEW s, NEW t, Texts2(s, t)
  PROVE  MatchIn(s, t) = [w \in Windows(s, t) |-> MatchStep(s, t, MatchIn(s, t), w)]
<1> DEFINE W == Windows(s, t)
           step(g) == [w \in W |-> MatchStep(s, t, g, w)]
           good(g, k) == g = [w \in W |-> g[w]] /\ \A w \in W : Size(w) < k => g[w] = MatchStep(s, t, g, w)
           T == {k \in Nat : \E g : good(g, k)}
<1>1. 0 \in T
  <2> DEFINE g == [w \in W |-> {}]
  <2>1. ASSUME NEW w \in W, Size(w) < 0 PROVE MatchStep(s, t, g, w) = {}
    <3>1. CommonBlocks(s, t, w) = {}
      <4>1. CommonBlocks(s, t, w) # {} => Size(w) \in Nat
        BY SmallerWindows
      <4>2. QED  BY <2>1, <4>1
    <3>2. QED  BY <3>1 DEF MatchStep
  <2>2. good(g, 0)
    BY <2>1
  <2>3. QED  BY <2>2
<1>2. ASSUME NEW k \in Nat, k \in T PROVE k + 1 \in T
  <2>1. PICK g : good(g, k)
    BY <1>2
  <2> DEFINE h == step(g)
  <2>2. ASSUME NEW w \in W, Size(w) < k + 1 PROVE MatchStep(s, t, g, w) = MatchStep(s, t, h, w)
    <3>1. CASE CommonBlocks(s, t, w) = {}
      BY <3>1 DEF MatchStep
    <3>2. CASE CommonBlocks(s, t, w) # {}
      <4> DEFINE b == LongestBlock(CommonBlocks(s, t, w))
                 l == <<w[1], b[1] - 1, w[3], b[2] - 1>>
                 r == <<b[1] + b[3], w[2], b[2] + b[3], w[4]>>
      <4>1. /\ l \in W /\ Size(l) < Size(w) /\ Size(l) \in Int
            /\ r \in W /\ Size(r) < Size(w) /\ Size(r) \in Int /\ Size(w) \in Nat
        BY <3>2, SmallerWindows
      <4> HIDE DEF W, l, r
      <4>2. Size(l) < k /\ Size(r) < k
        BY <2>2, <4>1
      <4>3. g[l] = h[l] /\ g[r] = h[r]
        BY <2>1, <4>1, <4>2
      <4>4. QED  BY <3>2, <4>3 DEF MatchStep, l, r
    <3>3. QED  BY <3>1, <3>2
  <2>3. \E f : good(f, k + 1)
    <3>1. good(h, k + 1)
      BY <2>2
    <3> HIDE DEF good, h
    <3>2. QED  BY <3>1
  <2>4. k + 1 \in Nat
    OBVIOUS
  <2> HIDE DEF good
  <2>5. QED  BY <2>3, <2>4
<1>3. Len(s) + 1 \in T
  <2>1. Nat \subseteq T
    <3> HIDE DEF T
    <3>1. QED  BY <1>1, <1>2, Induction
  <2> HIDE DEF T
  <2>2. QED  BY <2>1 DEF Texts2
<1>4. PICK g : good(g, Len(s) + 1)
  BY <1>3
<1>5. ASSUME NEW w \in W PROVE Size(w) < Len(s) + 1
  <2>1. PICK w1 \in 1..Len(s) + 1, w2 \in 0..Len(s) : w[1] = w1 /\ w[2] = w2
    BY DEF Windows
  <2>2. QED  BY <2>1 DEF Texts2, Size
<1>6. g = [w \in W |-> MatchStep(s, t, g, w)]
  <2> HIDE DEF W
  <2>1. QED  BY <1>4, <1>5
<1> HIDE DEF W
<1>7. QED  BY <1>6 DEF MatchIn, W

-----------------------------------------------------------------------------
(* The pairs of the matcher are of equal lines, and go down both texts      *)
(* together.                                                                *)
Downward(P) == \A p, q \in P : (p[1] < q[1] <=> p[2] < q[2]) /\ (p[1] = q[1] <=> p[2] = q[2])
Pairs(s, t, P) == Downward(P) /\ \A p \in P : s[p[1]] = t[p[2]]
Box(i, k, j, l) == (i..k) \X (j..l)
Diagonal(i, j, n) == {<<i + k, j + k>> : k \in 0..n - 1}

\* A block at b1, b2 of length n in a window, and what is paired on both sides of it.
Sides(w1, w2, w3, w4, b1, b2, n, L, R) ==
  /\ w1 \in Nat /\ w2 \in Nat /\ w3 \in Nat /\ w4 \in Nat
  /\ b1 \in w1..w2 /\ b2 \in w3..w4 /\ n \in Nat \ {0} /\ b1 + n - 1 <= w2 /\ b2 + n - 1 <= w4
  /\ L \subseteq Box(w1, b1 - 1, w3, b2 - 1) /\ R \subseteq Box(b1 + n, w2, b2 + n, w4)
  /\ Downward(L) /\ Downward(R)

LEMMA DownwardJoin ==
  ASSUME NEW w1, NEW w2, NEW w3, NEW w4, NEW b1, NEW b2, NEW b3, NEW L, NEW R,
         Sides(w1, w2, w3, w4, b1, b2, b3, L, R)
  PROVE  /\ Diagonal(b1, b2, b3) \cup L \cup R \subseteq Box(w1, w2, w3, w4)
         /\ Downward(Diagonal(b1, b2, b3) \cup L \cup R)
<1>0. /\ w1 \in Nat /\ w2 \in Nat /\ w3 \in Nat /\ w4 \in Nat
      /\ b1 \in w1..w2 /\ b2 \in w3..w4 /\ b3 \in Nat \ {0} /\ b1 + b3 - 1 <= w2 /\ b2 + b3 - 1 <= w4
      /\ L \subseteq Box(w1, b1 - 1, w3, b2 - 1) /\ R \subseteq Box(b1 + b3, w2, b2 + b3, w4)
      /\ Downward(L) /\ Downward(R)
  BY DEF Sides
<1> DEFINE D == Diagonal(b1, b2, b3)
           P == D \cup L \cup R
<1>1. \A p \in D : /\ p = <<p[1], p[2]>> /\ p[1] \in Nat /\ p[2] \in Nat /\ p[1] - b1 = p[2] - b2
                   /\ b1 <= p[1] /\ p[1] < b1 + b3 /\ b2 <= p[2] /\ p[2] < b2 + b3
  <2>1. ASSUME NEW k \in 0..b3 - 1
        PROVE  /\ b1 + k \in Nat /\ b2 + k \in Nat /\ (b1 + k) - b1 = (b2 + k) - b2
               /\ b1 <= b1 + k /\ b1 + k < b1 + b3 /\ b2 <= b2 + k /\ b2 + k < b2 + b3
    BY <1>0
  <2>2. QED  BY <2>1 DEF Diagonal
<1>2. \A p \in L : /\ p = <<p[1], p[2]>> /\ p[1] \in Nat /\ p[2] \in Nat
                   /\ w1 <= p[1] /\ p[1] < b1 /\ w3 <= p[2] /\ p[2] < b2
  <2>1. ASSUME NEW x \in w1..b1 - 1, NEW y \in w3..b2 - 1
        PROVE  x \in Nat /\ y \in Nat /\ w1 <= x /\ x < b1 /\ w3 <= y /\ y < b2
    BY <1>0
  <2>2. QED  BY <1>0, <2>1 DEF Box
<1>3. \A p \in R : /\ p = <<p[1], p[2]>> /\ p[1] \in Nat /\ p[2] \in Nat
                   /\ b1 + b3 <= p[1] /\ p[1] <= w2 /\ b2 + b3 <= p[2] /\ p[2] <= w4
  <2>1. ASSUME NEW x \in b1 + b3..w2, NEW y \in b2 + b3..w4
        PROVE  x \in Nat /\ y \in Nat /\ b1 + b3 <= x /\ x <= w2 /\ b2 + b3 <= y /\ y <= w4
    BY <1>0
  <2>2. QED  BY <1>0, <2>1 DEF Box
<1> DEFINE ok(p, q) == (p[1] < q[1] <=> p[2] < q[2]) /\ (p[1] = q[1] <=> p[2] = q[2])
<1> HIDE DEF D
<1>4. \A p, q \in D : ok(p, q)
  <2> TAKE p, q \in D
  <2>1. PICK i \in Nat, j \in Nat, k \in Nat, l \in Nat :
          p[1] = i /\ p[2] = j /\ q[1] = k /\ q[2] = l
    BY <1>1
  <2>2. i - b1 = j - b2 /\ k - b1 = l - b2
    BY <1>1, <2>1
  <2>3. b1 \in Nat /\ b2 \in Nat
    BY <1>0
  <2>4. (i < k <=> j < l) /\ (i = k <=> j = l)
    BY <2>2, <2>3
  <2>5. QED  BY <2>1, <2>4
<1>5. \A p, q \in L : ok(p, q)
  BY <1>0 DEF Downward
<1>6. \A p, q \in R : ok(p, q)
  BY <1>0 DEF Downward
<1>7. \A p \in L, q \in D : ok(p, q) /\ ok(q, p)
  BY <1>0, <1>1, <1>2
<1>8. \A p \in D, q \in R : ok(p, q) /\ ok(q, p)
  BY <1>0, <1>1, <1>3
<1>9. \A p \in L, q \in R : ok(p, q) /\ ok(q, p)
  BY <1>0, <1>2, <1>3
<1>10. \A p, q \in P : ok(p, q)
  <2> HIDE DEF ok
  <2>1. QED  BY <1>4, <1>5, <1>6, <1>7, <1>8, <1>9
<1>11. P \subseteq Box(w1, w2, w3, w4)
  <2>1. ASSUME NEW x \in Nat, NEW y \in Nat, w1 <= x, x <= w2, w3 <= y, y <= w4
        PROVE  <<x, y>> \in Box(w1, w2, w3, w4)
    BY <2>1 DEF Box
  <2>2. \A p \in D : w1 <= p[1] /\ p[1] <= w2 /\ w3 <= p[2] /\ p[2] <= w4
    BY <1>0, <1>1
  <2>3. \A p \in L : w1 <= p[1] /\ p[1] <= w2 /\ w3 <= p[2] /\ p[2] <= w4
    BY <1>0, <1>2
  <2>4. \A p \in R : w1 <= p[1] /\ p[1] <= w2 /\ w3 <= p[2] /\ p[2] <= w4
    BY <1>0, <1>3
  <2>5. \A p \in P : /\ p = <<p[1], p[2]>> /\ p[1] \in Nat /\ p[2] \in Nat
                     /\ w1 <= p[1] /\ p[1] <= w2 /\ w3 <= p[2] /\ p[2] <= w4
    BY <1>1, <1>2, <1>3, <2>2, <2>3, <2>4
  <2> HIDE DEF P
  <2>6. QED  BY <2>1, <2>5
<1>12. QED  BY <1>10, <1>11 DEF Downward, D

LEMMA MatchedPairs ==
  ASSUME NEW s, NEW t, Texts2(s, t)
  PROVE  Matched(s, t) \subseteq (1..Len(s)) \X (1..Len(t)) /\ Pairs(s, t, Matched(s, t))
<1> DEFINE W == Windows(s, t)
           f == MatchIn(s, t)
           inside(w) == Box(w[1], w[2], w[3], w[4])
           fits(w) == f[w] \subseteq inside(w) /\ Pairs(s, t, f[w])
           T == {k \in Nat : \A w \in W : Size(w) < k => fits(w)}
<1>1. \A w \in W : f[w] = MatchStep(s, t, f, w)
  <2>1. f = [w \in W |-> MatchStep(s, t, f, w)]
    BY MatchDefined
  <2> HIDE DEF f, W
  <2>2. QED  BY <2>1
<1>0. ASSUME NEW w, f[w] = {} PROVE fits(w)
  BY <1>0 DEF Pairs, Downward
<1>2. ASSUME NEW k \in Nat, NEW w \in W, Size(w) < k + 1, \A v \in W : Size(v) < k => fits(v)
      PROVE  fits(w)
  <2>1. CASE CommonBlocks(s, t, w) = {}
    <3>1. f[w] = {}
      BY <1>1, <2>1 DEF MatchStep
    <3>2. QED  BY <1>0, <3>1
  <2>2. CASE CommonBlocks(s, t, w) # {}
    <3> DEFINE b == LongestBlock(CommonBlocks(s, t, w))
               l == <<w[1], b[1] - 1, w[3], b[2] - 1>>
               r == <<b[1] + b[3], w[2], b[2] + b[3], w[4]>>
    <3>1. PICK w1 \in Nat, w2 \in Nat, w3 \in Nat, w4 \in Nat : w = <<w1, w2, w3, w4>>
      BY DEF Windows, Texts2
    <3>2. /\ b \in CommonBlocks(s, t, w)
          /\ b[1] \in w1..w2 /\ b[2] \in w3..w4 /\ b[3] \in Nat \ {0}
          /\ b[1] + b[3] - 1 <= w2 /\ b[2] + b[3] - 1 <= w4
          /\ l \in W /\ Size(l) < Size(w) /\ Size(l) \in Int
          /\ r \in W /\ Size(r) < Size(w) /\ Size(r) \in Int /\ Size(w) \in Nat
      BY <2>2, <3>1, SmallerWindows
    <3>3. f[w] = {<<b[1] + k1, b[2] + k1>> : k1 \in 0..b[3] - 1} \cup f[l] \cup f[r]
      BY <1>1, <2>2 DEF MatchStep
    <3>4. \A k1 \in 0..b[3] - 1 : s[b[1] + k1] = t[b[2] + k1]
      BY <3>2 DEF CommonBlocks
    <3> HIDE DEF b, f, W
    <3>5. PICK b1 \in w1..w2, b2 \in w3..w4, b3 \in Nat \ {0} : b[1] = b1 /\ b[2] = b2 /\ b[3] = b3
      BY <3>2
    <3>6. fits(l) /\ fits(r)
      <4>1. Size(l) < k /\ Size(r) < k
        <5> HIDE DEF l, r
        <5>1. QED  BY <1>2, <3>2
      <4>2. QED  BY <1>2, <3>2, <4>1
    <3>7. inside(l) = Box(w1, b1 - 1, w3, b2 - 1) /\ inside(r) = Box(b1 + b3, w2, b2 + b3, w4)
          /\ inside(w) = Box(w1, w2, w3, w4)
      BY <3>1, <3>5
    <3> DEFINE D == Diagonal(b1, b2, b3)
               L == f[l]
               R == f[r]
    <3>8. L \subseteq Box(w1, b1 - 1, w3, b2 - 1) /\ R \subseteq Box(b1 + b3, w2, b2 + b3, w4)
          /\ Downward(L) /\ Downward(R) /\ \A p \in L \cup R : s[p[1]] = t[p[2]]
      BY <3>6, <3>7 DEF Pairs
    <3>9. f[w] = D \cup L \cup R
      BY <3>3, <3>5 DEF Diagonal
    <3>10. \A p \in D : s[p[1]] = t[p[2]]
      BY <3>4, <3>5 DEF Diagonal
    <3>11. Sides(w1, w2, w3, w4, b1, b2, b3, L, R)
      BY <3>2, <3>5, <3>8 DEF Sides
    <3> HIDE DEF L, R, l, r
    <3>12. D \cup L \cup R \subseteq Box(w1, w2, w3, w4) /\ Downward(D \cup L \cup R)
      BY <3>11, DownwardJoin
    <3> HIDE DEF D, inside
    <3>13. QED  BY <3>7, <3>8, <3>9, <3>10, <3>12 DEF Pairs
  <2>3. QED  BY <2>1, <2>2
<1>3. 0 \in T
  <2>1. ASSUME NEW w \in W, Size(w) < 0 PROVE fits(w)
    <3>1. CommonBlocks(s, t, w) = {}
      <4>1. CommonBlocks(s, t, w) # {} => Size(w) \in Nat
        BY SmallerWindows
      <4>2. QED  BY <2>1, <4>1
    <3>2. f[w] = {}
      BY <1>1, <3>1 DEF MatchStep
    <3>3. QED  BY <1>0, <3>2
  <2> HIDE DEF fits, W
  <2>2. QED  BY <2>1
<1>4. ASSUME NEW k \in Nat, k \in T PROVE k + 1 \in T
  <2> HIDE DEF fits, W
  <2>1. \A v \in W : Size(v) < k => fits(v)
    BY <1>4
  <2>2. QED  BY <1>2, <2>1
<1>5. Nat \subseteq T
  <2> HIDE DEF T
  <2>1. QED  BY <1>3, <1>4, Induction
<1> DEFINE all == <<1, Len(s), 1, Len(t)>>
<1>6. all \in W /\ Size(all) < Len(s) + 1 /\ Len(s) + 1 \in Nat
  BY DEF Windows, Texts2, Size
<1>7. inside(all) = (1..Len(s)) \X (1..Len(t))
  BY DEF Box
<1>8. Matched(s, t) = f[all]
  BY MatchedByParts
<1>9. fits(all)
  <2> HIDE DEF fits, W, all
  <2>1. QED  BY <1>5, <1>6
<1> HIDE DEF f, inside, all
<1>10. QED  BY <1>7, <1>8, <1>9

-----------------------------------------------------------------------------
(* The side-by-side table.                                                  *)

TableRows == [old: Nat, new: Nat, kind: {"equal", "replace", "delete", "add"}]

(* The entries of a column of some rows, up to zeros, are a to b in order.  *)
Covers(rows, col, a, b) ==
  /\ \A k \in 1..Len(rows) : rows[k][col] = 0 \/ rows[k][col] \in a..b
  /\ \A x \in a..b : \E k \in 1..Len(rows) : rows[k][col] = x
  /\ \A k, l \in 1..Len(rows) : k < l /\ rows[k][col] # 0 /\ rows[l][col] # 0 =>
       rows[k][col] < rows[l][col]

LEMMA CoversOn ==
  ASSUME NEW R, NEW p \in Seq(R), NEW q \in Seq(R), NEW col,
         NEW a \in Nat \ {0}, NEW b \in Nat, NEW c \in Nat, a <= b + 1, b <= c,
         Covers(p, col, a, b), Covers(q, col, b + 1, c)
  PROVE  Covers(p \o q, col, a, c) /\ p \o q \in Seq(R)
<1> DEFINE r == p \o q
           n == Len(p)
           m == Len(q)
<1>1. r \in Seq(R) /\ Len(r) = n + m /\ n \in Nat /\ m \in Nat
      /\ (\A k \in 1..n : r[k] = p[k]) /\ (\A k \in n + 1..n + m : r[k] = q[k - n] /\ k - n \in 1..m)
  OBVIOUS
<1>2. /\ \A k \in 1..n : p[k][col] = 0 \/ p[k][col] \in a..b
      /\ \A x \in a..b : \E k \in 1..n : p[k][col] = x
      /\ \A k, l \in 1..n : k < l /\ p[k][col] # 0 /\ p[l][col] # 0 => p[k][col] < p[l][col]
      /\ \A k \in 1..m : q[k][col] = 0 \/ q[k][col] \in b + 1..c
      /\ \A x \in b + 1..c : \E k \in 1..m : q[k][col] = x
      /\ \A k, l \in 1..m : k < l /\ q[k][col] # 0 /\ q[l][col] # 0 => q[k][col] < q[l][col]
  BY DEF Covers
<1> HIDE DEF r, n, m
<1>3. ASSUME NEW k \in 1..n + m PROVE r[k][col] = 0 \/ r[k][col] \in a..c
  <2>1. CASE k \in 1..n
    BY <1>1, <1>2, <2>1
  <2>2. CASE k \in n + 1..n + m
    BY <1>1, <1>2, <2>2
  <2>3. QED  BY <1>1, <2>1, <2>2
<1>4. ASSUME NEW x \in a..c PROVE \E k \in 1..n + m : r[k][col] = x
  <2>1. CASE x \in a..b
    <3>1. PICK k \in 1..n : p[k][col] = x
      BY <1>2, <2>1
    <3>2. k \in 1..n + m /\ r[k] = p[k]
      BY <1>1
    <3>3. QED  BY <3>1, <3>2
  <2>2. CASE x \in b + 1..c
    <3>1. PICK k \in 1..m : q[k][col] = x
      BY <1>2, <2>2
    <3>2. k + n \in n + 1..n + m /\ k + n - n = k
      BY <1>1
    <3>3. k + n \in 1..n + m /\ r[k + n] = q[k]
      BY <1>1, <3>2
    <3>4. QED  BY <3>1, <3>3
  <2>3. QED  BY <2>1, <2>2
<1>5. ASSUME NEW k \in 1..n + m, NEW l \in 1..n + m, k < l, r[k][col] # 0, r[l][col] # 0
      PROVE  r[k][col] < r[l][col]
  <2>1. CASE l \in 1..n
    <3>1. k \in 1..n
      BY <1>1, <1>5, <2>1
    <3>2. QED  BY <1>1, <1>2, <1>5, <2>1, <3>1
  <2>2. CASE k \in n + 1..n + m
    <3>1. l \in n + 1..n + m /\ k - n < l - n
      BY <1>1, <1>5, <2>2
    <3>2. k - n \in 1..m /\ l - n \in 1..m /\ r[k] = q[k - n] /\ r[l] = q[l - n]
      BY <1>1, <2>2, <3>1
    <3>3. QED  BY <1>2, <1>5, <3>1, <3>2
  <2>3. CASE k \in 1..n /\ l \in n + 1..n + m
    <3>1. r[k][col] \in a..b
      BY <1>1, <1>2, <1>5, <2>3
    <3>2. r[l] = q[l - n] /\ l - n \in 1..m
      BY <1>1, <2>3
    <3>3. r[l][col] \in b + 1..c
      BY <1>2, <1>5, <3>2
    <3>4. QED  BY <3>1, <3>3
  <2>4. QED  BY <1>1, <1>5, <2>1, <2>2, <2>3
<1>6. QED  BY <1>1, <1>3, <1>4, <1>5 DEF Covers, r

LEMMA CountCovers ==
  ASSUME NEW rows, NEW col, NEW i \in Nat \ {0}, NEW o \in Nat, NEW x \in Nat, Len(rows) = x, o <= x,
         \A k \in 1..x : rows[k][col] = IF k <= o THEN i + k - 1 ELSE 0
  PROVE  Covers(rows, col, i, i + o - 1)
<1>1. \A k \in 1..x : rows[k][col] = 0 \/ rows[k][col] \in i..i + o - 1
  OBVIOUS
<1>2. ASSUME NEW y \in i..i + o - 1 PROVE \E k \in 1..x : rows[k][col] = y
  <2>1. PICK k \in 1..x : k = y - i + 1 /\ k <= o
    OBVIOUS
  <2>2. i + k - 1 = y
    BY <2>1
  <2>3. QED  BY <2>1, <2>2
<1>3. \A k, l \in 1..x : k < l /\ rows[k][col] # 0 /\ rows[l][col] # 0 => rows[k][col] < rows[l][col]
  OBVIOUS
<1>4. QED  BY <1>1, <1>2, <1>3 DEF Covers

LEMMA ChunkCovers ==
  ASSUME NEW s, NEW t, NEW i \in Nat \ {0}, NEW j \in Nat \ {0}, NEW o \in Nat, NEW n \in Nat
  PROVE  LET rows == Chunk(s, t, i, j, o, n)
         IN  rows \in Seq(TableRows) /\ Covers(rows, "old", i, i + o - 1)
             /\ Covers(rows, "new", j, j + n - 1)
<1> DEFINE rows == Chunk(s, t, i, j, o, n)
<1>1. PICK x \in Nat : x = Max({o, n}) /\ o <= x /\ n <= x /\ (x = o \/ x = n)
  <2>1. o <= n => Max({o, n}) = n
    BY DEF Max
  <2>2. n <= o => Max({o, n}) = o
    BY DEF Max
  <2>3. QED  BY <2>1, <2>2
<1>2. rows = [k \in 1..x |->
         IF k <= o /\ k <= n
         THEN Row(i + k - 1, j + k - 1, IF s[i + k - 1] = t[j + k - 1] THEN "equal" ELSE "replace")
         ELSE IF k <= o THEN Row(i + k - 1, 0, "delete")
         ELSE Row(0, j + k - 1, "add")]
  BY <1>1 DEF Chunk
<1> HIDE DEF rows
<1>3. rows \in Seq(TableRows) /\ Len(rows) = x
  <2>1. \A k \in 1..x : rows[k] \in TableRows
    BY <1>1, <1>2 DEF Row, TableRows
  <2>2. DOMAIN rows = 1..x /\ rows = [k \in 1..x |-> rows[k]]
    BY <1>2
  <2>3. QED  BY <2>1, <2>2
<1>4. \A k \in 1..x : /\ rows[k]["old"] = IF k <= o THEN i + k - 1 ELSE 0
                      /\ rows[k]["new"] = IF k <= n THEN j + k - 1 ELSE 0
  BY <1>1, <1>2 DEF Row
<1>5. Covers(rows, "old", i, i + o - 1) /\ Covers(rows, "new", j, j + n - 1)
  BY <1>1, <1>3, <1>4, CountCovers
<1>6. QED  BY <1>3, <1>5 DEF rows

-----------------------------------------------------------------------------
Places(s, t) == (1..Len(s) + 1) \X (1..Len(t) + 1)
Later(pairs, at) == {p \in pairs : p[1] >= at[1] /\ p[2] >= at[2]}
Nearest(next) == CHOOSE p \in next : \A q \in next : p[1] <= q[1]
TableStep(s, t, pairs, rows, at) ==
  LET next == Later(pairs, at)
      m == Nearest(next)
      upTo(i, j) == Chunk(s, t, at[1], at[2], i - at[1], j - at[2])
  IN  IF next = {} THEN upTo(Len(s) + 1, Len(t) + 1)
      ELSE Append(upTo(m[1], m[2]), Row(m[1], m[2], "equal")) \o rows[<<m[1] + 1, m[2] + 1>>]
TableOf(s, t, pairs) ==
  CHOOSE rows : rows = [at \in Places(s, t) |-> TableStep(s, t, pairs, rows, at)]

LEMMA TableByParts ==
  ASSUME NEW s, NEW t
  PROVE  SideBySide(s, t) = TableOf(s, t, Matched(s, t))[<<1, 1>>]
  BY DEF SideBySide, TableOf, TableStep, Places, Later, Nearest

LEMMA NearestLater ==
  ASSUME NEW s, NEW t, Texts2(s, t), NEW pairs \in SUBSET ((1..Len(s)) \X (1..Len(t))),
         NEW i \in 1..Len(s) + 1, NEW j \in 1..Len(t) + 1, Later(pairs, <<i, j>>) # {}
  PROVE  \E m1 \in i..Len(s), m2 \in j..Len(t) : Nearest(Later(pairs, <<i, j>>)) = <<m1, m2>>
<1> DEFINE next == Later(pairs, <<i, j>>)
           A == {p[1] : p \in next}
<1>1. next \subseteq (i..Len(s)) \X (j..Len(t))
  BY DEF Later, Texts2
<1>2. A \in SUBSET Nat /\ A # {}
  BY <1>1 DEF Texts2
<1>3. PICK x \in A : \A y \in A : x <= y
  <2> HIDE DEF A
  <2>1. QED  BY <1>2, Least
<1>4. \E p \in next : \A q \in next : p[1] <= q[1]
  BY <1>3
<1> HIDE DEF next
<1>5. Nearest(next) \in next
  BY <1>4 DEF Nearest
<1>6. QED  BY <1>1, <1>5 DEF next

UpToMatch(s, t, at, m) ==
  Append(Chunk(s, t, at[1], at[2], m[1] - at[1], m[2] - at[2]), Row(m[1], m[2], "equal"))
Behind(rows, m) == rows[<<m[1] + 1, m[2] + 1>>]

LEMMA TableStepAt ==
  ASSUME NEW s, NEW t, NEW pairs, NEW rows, NEW at, Later(pairs, at) # {}
  PROVE  LET m == Nearest(Later(pairs, at))
         IN  TableStep(s, t, pairs, rows, at) = UpToMatch(s, t, at, m) \o Behind(rows, m)
  BY DEF TableStep, UpToMatch, Behind

LEMMA TableDefined ==
  ASSUME NEW s, NEW t, Texts2(s, t), NEW pairs \in SUBSET ((1..Len(s)) \X (1..Len(t)))
  PROVE  TableOf(s, t, pairs) = [at \in Places(s, t) |-> TableStep(s, t, pairs, TableOf(s, t, pairs), at)]
<1> DEFINE n == Len(s)
           P == Places(s, t)
           step(g) == [at \in P |-> TableStep(s, t, pairs, g, at)]
           rank(at) == n + 1 - at[1]
           good(g, k) == g = [at \in P |-> g[at]]
                         /\ \A at \in P : rank(at) < k => g[at] = TableStep(s, t, pairs, g, at)
           T == {k \in Nat : \E g : good(g, k)}
<1>1. 0 \in T
  <2> DEFINE g == [at \in P |-> <<>>]
  <2>1. \A at \in P : ~(rank(at) < 0)
    BY DEF Places, Texts2
  <2>2. \E f : good(f, 0)
    <3>1. good(g, 0)
      <4>1. g = [at \in P |-> g[at]]
        OBVIOUS
      <4> HIDE DEF g, P, rank
      <4>2. QED  BY <2>1, <4>1
    <3> HIDE DEF good, g
    <3>2. QED  BY <3>1
  <2> HIDE DEF good
  <2>3. QED  BY <2>2
<1>2. ASSUME NEW k \in Nat, k \in T PROVE k + 1 \in T
  <2>1. PICK g : good(g, k)
    BY <1>2
  <2> DEFINE h == step(g)
  <2>2. ASSUME NEW at \in P, rank(at) < k + 1
        PROVE  TableStep(s, t, pairs, g, at) = TableStep(s, t, pairs, h, at)
    <3>1. PICK i \in 1..n + 1, j \in 1..Len(t) + 1 : at = <<i, j>>
      BY DEF Places
    <3>2. CASE Later(pairs, at) = {}
      BY <3>2 DEF TableStep
    <3>3. CASE Later(pairs, at) # {}
      <4>1. PICK m1 \in i..n, m2 \in j..Len(t) : Nearest(Later(pairs, at)) = <<m1, m2>>
        BY <3>1, <3>3, NearestLater
      <4> DEFINE to == <<m1 + 1, m2 + 1>>
      <4>2. to \in P /\ rank(to) < k
        <5>1. n \in Nat /\ Len(t) \in Nat
          BY DEF Texts2
        <5>2. n + 1 - i < k + 1
          BY <2>2, <3>1
        <5> HIDE DEF n
        <5>3. n + 1 - (m1 + 1) < k /\ m1 + 1 \in 1..n + 1 /\ m2 + 1 \in 1..Len(t) + 1
          BY <5>1, <5>2
        <5>4. QED  BY <5>3 DEF Places, n
      <4> HIDE DEF P, rank
      <4>3. g[to] = h[to]
        <5> HIDE DEF to
        <5>1. QED  BY <2>1, <4>2
      <4>4. QED  BY <3>3, <4>1, <4>3 DEF TableStep
    <3>4. QED  BY <3>2, <3>3
  <2>3. \E f : good(f, k + 1)
    <3>1. good(h, k + 1)
      <4> HIDE DEF P, rank
      <4>1. QED  BY <2>2
    <3> HIDE DEF good, h
    <3>2. QED  BY <3>1
  <2>4. k + 1 \in Nat
    OBVIOUS
  <2> HIDE DEF good
  <2>5. QED  BY <2>3, <2>4
<1>3. n + 1 \in T
  <2>1. Nat \subseteq T
    <3> HIDE DEF T
    <3>1. QED  BY <1>1, <1>2, Induction
  <2> HIDE DEF T
  <2>2. QED  BY <2>1 DEF Texts2
<1>4. PICK g : good(g, n + 1)
  BY <1>3
<1>5. \A at \in P : rank(at) < n + 1
  BY DEF Places, Texts2
<1>6. g = [at \in P |-> TableStep(s, t, pairs, g, at)]
  <2> HIDE DEF P, rank
  <2>1. QED  BY <1>4, <1>5
<1> HIDE DEF P
<1>7. QED  BY <1>6 DEF TableOf, P

LEMMA TableCovers ==
  ASSUME NEW s, NEW t, Texts2(s, t)
  PROVE  LET rows == SideBySide(s, t)
         IN  rows \in Seq(TableRows) /\ Covers(rows, "old", 1, Len(s)) /\ Covers(rows, "new", 1, Len(t))
<1> DEFINE n == Len(s)
           m == Len(t)
           P == Places(s, t)
           pairs == Matched(s, t)
           f == TableOf(s, t, pairs)
           rank(at) == n + 1 - at[1]
           ok(at) == f[at] \in Seq(TableRows) /\ Covers(f[at], "old", at[1], n)
                     /\ Covers(f[at], "new", at[2], m)
           T == {k \in Nat : \A at \in P : rank(at) < k => ok(at)}
<1>1. n \in Nat /\ m \in Nat
  BY DEF Texts2
<1>2. pairs \in SUBSET ((1..n) \X (1..m))
  BY MatchedPairs
<1>3. \A at \in P : f[at] = TableStep(s, t, pairs, f, at)
  <2>1. f = [at \in P |-> TableStep(s, t, pairs, f, at)]
    BY <1>2, TableDefined
  <2> HIDE DEF f, P
  <2>2. QED  BY <2>1
<1> HIDE DEF pairs
<1>4. ASSUME NEW k \in Nat, NEW at \in P, rank(at) < k + 1,
             \A w \in P : rank(w) < k => ok(w)
      PROVE  ok(at)
  <2>1. PICK i \in 1..n + 1, j \in 1..m + 1 : at = <<i, j>>
    BY DEF Places
  <2>2. CASE Later(pairs, at) = {}
    <3> DEFINE rows == Chunk(s, t, i, j, n + 1 - i, m + 1 - j)
    <3>1. f[at] = rows
      <4>1. f[at] = TableStep(s, t, pairs, f, at)
        BY <1>3
      <4> HIDE DEF f, P
      <4>2. QED  BY <2>1, <2>2, <4>1 DEF TableStep
    <3>2. i \in Nat \ {0} /\ j \in Nat \ {0} /\ n + 1 - i \in Nat /\ m + 1 - j \in Nat
          /\ i + (n + 1 - i) - 1 = n /\ j + (m + 1 - j) - 1 = m
      <4> HIDE DEF n, m
      <4>1. QED  BY <1>1
    <3>3. rows \in Seq(TableRows) /\ Covers(rows, "old", i, n) /\ Covers(rows, "new", j, m)
      <4> DEFINE x == n + 1 - i
                 y == m + 1 - j
      <4> HIDE DEF x, y, n, m
      <4>1. Chunk(s, t, i, j, x, y) \in Seq(TableRows) /\ Covers(Chunk(s, t, i, j, x, y), "old", i, i + x - 1)
            /\ Covers(Chunk(s, t, i, j, x, y), "new", j, j + y - 1)
        BY <3>2, ChunkCovers DEF x, y
      <4>2. QED  BY <3>2, <4>1 DEF x, y
    <3> HIDE DEF f, rows
    <3>4. QED  BY <2>1, <3>1, <3>3
  <2>3. CASE Later(pairs, at) # {}
    <3>1. PICK m1 \in i..n, m2 \in j..m : Nearest(Later(pairs, at)) = <<m1, m2>>
      BY <1>2, <2>1, <2>3, NearestLater
    <3> DEFINE to == <<m1 + 1, m2 + 1>>
               rows == Chunk(s, t, i, j, m1 - i, m2 - j)
               line == Row(m1, m2, "equal")
    <3>2. f[at] = Append(rows, line) \o f[to]
      <4>1. f[at] = TableStep(s, t, pairs, f, at)
        BY <1>3
      <4> HIDE DEF f, P
      <4> DEFINE next == Nearest(Later(pairs, at))
      <4>2. f[at] = UpToMatch(s, t, at, next) \o Behind(f, next)
        BY <2>3, <4>1, TableStepAt
      <4>3. at[1] = i /\ at[2] = j /\ next[1] = m1 /\ next[2] = m2
        BY <2>1, <3>1
      <4> HIDE DEF next
      <4>4. UpToMatch(s, t, at, next) = Append(rows, line) /\ Behind(f, next) = f[to]
        BY <4>3 DEF UpToMatch, Behind
      <4>5. QED  BY <4>2, <4>4
    <3>3. /\ i \in Nat \ {0} /\ j \in Nat \ {0} /\ m1 - i \in Nat /\ m2 - j \in Nat
          /\ i + (m1 - i) - 1 = m1 - 1 /\ j + (m2 - j) - 1 = m2 - 1
          /\ m1 \in Nat /\ m2 \in Nat /\ m1 <= n /\ m2 <= m /\ i <= m1 /\ j <= m2
          /\ m1 + 1 \in 1..n + 1 /\ m2 + 1 \in 1..m + 1
          /\ n + 1 - (m1 + 1) < n + 1 - i /\ n + 1 - (m1 + 1) \in Int /\ n + 1 - i \in Int
      <4> HIDE DEF n, m
      <4>1. QED  BY <1>1
    <3>4. to \in P /\ rank(to) < k
      <4>1. n + 1 - i < k + 1
        BY <1>4, <2>1
      <4>2. to \in P
        BY <3>3 DEF Places
      <4> HIDE DEF n, m
      <4>3. n + 1 - (m1 + 1) < k
        BY <3>3, <4>1
      <4>4. QED  BY <4>2, <4>3
    <3>5. rows \in Seq(TableRows) /\ Covers(rows, "old", i, m1 - 1) /\ Covers(rows, "new", j, m2 - 1)
      <4> DEFINE x == m1 - i
                 y == m2 - j
      <4> HIDE DEF x, y, n, m
      <4>1. Chunk(s, t, i, j, x, y) \in Seq(TableRows) /\ Covers(Chunk(s, t, i, j, x, y), "old", i, i + x - 1)
            /\ Covers(Chunk(s, t, i, j, x, y), "new", j, j + y - 1)
        BY <3>3, ChunkCovers DEF x, y
      <4>2. QED  BY <3>3, <4>1 DEF x, y
    <3>6. f[to] \in Seq(TableRows) /\ Covers(f[to], "old", m1 + 1, n) /\ Covers(f[to], "new", m2 + 1, m)
      <4>1. ok(to)
        <5> HIDE DEF ok, rank, to
        <5>1. QED  BY <1>4, <3>4
      <4> HIDE DEF f
      <4>2. QED  BY <4>1
    <3> HIDE DEF f, rows, n, m
    <3>7. <<line>> \in Seq(TableRows) /\ Covers(<<line>>, "old", m1, m1) /\ Covers(<<line>>, "new", m2, m2)
      BY <3>3 DEF Covers, Row, TableRows
    <3>8. m1 - 1 \in Nat /\ m2 - 1 \in Nat /\ (m1 - 1) + 1 = m1 /\ (m2 - 1) + 1 = m2
          /\ i <= (m1 - 1) + 1 /\ j <= (m2 - 1) + 1 /\ m1 - 1 <= m1 /\ m2 - 1 <= m2
          /\ m1 <= n /\ m2 <= m /\ i <= m1 + 1 /\ j <= m2 + 1
      BY <3>3
    <3> HIDE DEF line
    <3>9. LET q == rows \o <<line>>
          IN  q \in Seq(TableRows) /\ Covers(q, "old", i, m1) /\ Covers(q, "new", j, m2)
      BY <3>3, <3>5, <3>7, <3>8, CoversOn
    <3>10. LET q == (rows \o <<line>>) \o f[to]
           IN  q \in Seq(TableRows) /\ Covers(q, "old", i, n) /\ Covers(q, "new", j, m)
      BY <1>1, <3>3, <3>6, <3>8, <3>9, CoversOn
    <3>11. Append(rows, line) = rows \o <<line>>
      BY <3>5
    <3> HIDE DEF to
    <3>12. QED  BY <2>1, <3>2, <3>10, <3>11
  <2>4. QED  BY <2>2, <2>3
<1>5. 0 \in T
  <2>1. \A at \in P : ~(rank(at) < 0)
    BY DEF Places, Texts2
  <2> HIDE DEF P, rank, ok
  <2>2. QED  BY <2>1
<1>6. ASSUME NEW k \in Nat, k \in T PROVE k + 1 \in T
  <2> HIDE DEF P, rank, ok
  <2>1. QED  BY <1>4, <1>6
<1>7. Nat \subseteq T
  <2> HIDE DEF T
  <2>1. QED  BY <1>5, <1>6, Induction
<1> DEFINE first == <<1, 1>>
<1>8. first \in P /\ rank(first) < n + 1 /\ n + 1 \in Nat
  BY <1>1 DEF Places
<1>9. ok(first)
  <2> HIDE DEF P, rank, ok, first
  <2>1. QED  BY <1>7, <1>8
<1>10. SideBySide(s, t) = f[first]
  BY TableByParts DEF pairs
<1> HIDE DEF f
<1>11. QED  BY <1>9, <1>10

-----------------------------------------------------------------------------
(* A document that can be printed: finitely many keys, its steps in a list. *)
Printable(d) == IsFiniteSet(DOMAIN d) /\ ("steps" \in DOMAIN d => IsSeq(d.steps))
Prints(d) == Printable(CanonicalForDiff(d))

LEMMA BookPrints ==
  ASSUME NEW b, IsFiniteSet(DOMAIN b), "steps" \in DOMAIN b, IsSeq(b.steps)
  PROVE  Printable(DumpBook(b))
<1> DEFINE e == [b EXCEPT !.steps = Each(DumpStep, @), !.trigger = DumpTrigger(@),
                          !.on_failure = IF @ = DefaultPolicy THEN @ ELSE DumpPolicy(@)]
           d == DumpBook(b)
<1>1. DOMAIN e = DOMAIN b /\ e.steps = Each(DumpStep, b.steps)
  OBVIOUS
<1>2. d = Omit(e, BookDefaults)
  BY DEF DumpBook
<1> HIDE DEF e, d
<1>3. DOMAIN d \subseteq DOMAIN e /\ ("steps" \in DOMAIN d => d.steps = e.steps)
  BY <1>2 DEF Omit, Keep
<1>4. IsFiniteSet(DOMAIN d)
  BY <1>1, <1>3, FS_Subset
<1>5. IsSeq(e.steps)
  <2>1. DOMAIN b.steps = 1..Len(b.steps) /\ Len(b.steps) \in Nat
    BY DEF IsSeq
  <2>2. DOMAIN e.steps = 1..Len(b.steps) /\ e.steps = [i \in 1..Len(b.steps) |-> e.steps[i]]
    BY <1>1, <2>1 DEF Each
  <2>3. \A i \in 1..Len(b.steps) : e.steps[i] \in ToSet(e.steps)
    BY <2>2 DEF ToSet
  <2> DEFINE S == ToSet(e.steps)
  <2> HIDE DEF S
  <2>4. e.steps \in Seq(S)
    BY <2>1, <2>2, <2>3 DEF S
  <2>5. QED  BY <2>4 DEF IsSeq, S
<1>6. QED  BY <1>3, <1>4, <1>5 DEF Printable, d

LEMMA ValidPrints ==
  ASSUME NEW b, ValidBook(b)
  PROVE  IsFiniteSet(DOMAIN b) /\ "steps" \in DOMAIN b /\ IsSeq(b.steps)
<1>1. DOMAIN b = {"name", "trigger", "steps", "description", "dedup", "engine", "on_failure", "meta"}
  BY BookFieldNames DEF ValidBook
<1>2. IsFiniteSet({"name", "trigger", "steps", "description", "dedup", "engine", "on_failure", "meta"})
  <2>1. IsFiniteSet({"name", "trigger", "steps", "description"} \cup {"dedup", "engine", "on_failure", "meta"})
    <3>1. IsFiniteSet({"name"} \cup {"trigger"} \cup {"steps"} \cup {"description"})
      BY FS_Singleton, FS_Union
    <3>2. IsFiniteSet({"dedup"} \cup {"engine"} \cup {"on_failure"} \cup {"meta"})
      BY FS_Singleton, FS_Union
    <3>3. {"name", "trigger", "steps", "description"} = {"name"} \cup {"trigger"} \cup {"steps"} \cup {"description"}
          /\ {"dedup", "engine", "on_failure", "meta"} = {"dedup"} \cup {"engine"} \cup {"on_failure"} \cup {"meta"}
      OBVIOUS
    <3>4. QED  BY <3>1, <3>2, <3>3, FS_Union
  <2>2. QED  BY <2>1
<1>3. QED  BY <1>1, <1>2 DEF ValidBook, ValidSteps, IsSeq

LEMMA LoadsPrints ==
  ASSUME NEW d, Loads(d)
  PROVE  Prints(d)
<1>1. CanonicalForDiff(d) = DumpBook(LoadBook(d)) /\ ValidBook(LoadBook(d))
  BY DEF Loads, CanonicalForDiff
<1>2. QED  BY <1>1, ValidPrints, BookPrints DEF Prints

LEMMA DumpPrints ==
  ASSUME NEW b, IsFiniteSet(DOMAIN b), "steps" \in DOMAIN b, IsSeq(b.steps)
  PROVE  Prints(DumpBook(b))
<1>1. Printable(DumpBook(b))
  BY BookPrints
<1> DEFINE d == DumpBook(b)
<1>2. CASE Loads(d)
  BY <1>2, LoadsPrints
<1>3. CASE ~Loads(d)
  BY <1>1, <1>3 DEF Prints, CanonicalForDiff
<1>4. QED  BY <1>2, <1>3

LEMMA List ==
  ASSUME NEW f, NEW n \in Nat, f = [i \in 1..n |-> f[i]]
  PROVE  \E S : f \in Seq(S)
<1> DEFINE S == {f[i] : i \in 1..n}
<1>1. \A i \in 1..n : f[i] \in S
  OBVIOUS
<1> HIDE DEF S
<1>2. f \in Seq(S)
  BY <1>1
<1>3. QED  BY <1>2

LEMMA LinesAreList ==
  ASSUME NEW d, Printable(d)
  PROVE  Len(TextLines(d)) \in Nat /\ DOMAIN TextLines(d) = 1..Len(TextLines(d))
<1> DEFINE K == DOMAIN d \ {"steps"}
           keys == SetToSeq(K)
           line(k) == [key |-> k, holds |-> <<d[k]>>]
           step(s) == [key |-> "steps", holds |-> <<s>>]
           front == Each(line, keys)
           steps == Each(step, d.steps)
           back == IF "steps" \in DOMAIN d THEN steps ELSE <<>>
<1>1. \E S : front \in Seq(S)
  <2>1. IsFiniteSet(K)
    BY FS_Subset DEF Printable
  <2>2. PICK n \in Nat : n = Cardinality(K) /\ ExistsBijection(1..n, K)
    BY <2>1, FS_CardinalityType
  <2>3. \E f \in [1..n -> K] : IsInjective(f)
    BY <2>2 DEF ExistsBijection, Bijection, Injection, IsInjective
  <2> HIDE DEF K
  <2>4. keys \in [1..n -> K]
    BY <2>2, <2>3 DEF SetToSeq
  <2> HIDE DEF keys
  <2>5. front = [i \in 1..n |-> front[i]]
    BY <2>4 DEF Each
  <2> HIDE DEF front
  <2>6. QED  BY <2>5, List
<1>2. \E S : back \in Seq(S)
  <2>1. CASE "steps" \in DOMAIN d
    <3>1. PICK n \in Nat : DOMAIN d.steps = 1..n
      BY <2>1 DEF Printable, IsSeq
    <3>2. steps = [i \in 1..n |-> steps[i]]
      BY <3>1 DEF Each
    <3> HIDE DEF steps
    <3>3. \E S : steps \in Seq(S)
      BY <3>2, List
    <3>4. QED  BY <2>1, <3>3
  <2>2. CASE "steps" \notin DOMAIN d
    <3>1. <<>> \in Seq({})
      OBVIOUS
    <3> HIDE DEF steps
    <3>2. QED  BY <2>2, <3>1
  <2>3. QED  BY <2>1, <2>2
<1>3. TextLines(d) = front \o back
  BY DEF TextLines
<1> HIDE DEF front, back
<1>4. PICK S1, S2 : front \in Seq(S1) /\ back \in Seq(S2)
  BY <1>1, <1>2
<1> DEFINE S == S1 \cup S2
<1>5. front \in Seq(S) /\ back \in Seq(S)
  BY <1>4
<1> HIDE DEF S
<1>6. TextLines(d) \in Seq(S)
  BY <1>3, <1>5
<1>7. QED  BY <1>6

LEMMA Shown ==
  ASSUME NEW old, NEW new, Prints(old), Prints(new)
  PROVE  Shows(old, new)
<1> DEFINE s == TextLines(CanonicalForDiff(old))
           t == TextLines(CanonicalForDiff(new))
           rows == SideBySide(s, t)
<1>1. Len(s) \in Nat /\ DOMAIN s = 1..Len(s) /\ Len(t) \in Nat /\ DOMAIN t = 1..Len(t)
  BY LinesAreList DEF Prints
<1> HIDE DEF s, t
<1>2. rows \in Seq(TableRows) /\ Covers(rows, "old", 1, Len(s)) /\ Covers(rows, "new", 1, Len(t))
  BY <1>1, TableCovers DEF Texts2
<1> HIDE DEF rows
<1>3. Len(rows) \in Nat /\ DOMAIN rows = 1..Len(rows)
  BY <1>2
<1>4. ASSUME NEW col, NEW lines, Len(lines) \in Nat, DOMAIN lines = 1..Len(lines), Covers(rows, col, 1, Len(lines))
      PROVE  Column(rows, col, lines)
  BY <1>3, <1>4 DEF Covers, Column
<1>5. Column(rows, "old", s) /\ Column(rows, "new", t)
  BY <1>1, <1>2, <1>4
<1>6. QED  BY <1>5 DEF Shows, rows, s, t

-----------------------------------------------------------------------------
(* Whatever is stored or waits to be stored can be printed.                 *)
Advised(a) == a.book # <<>> => Prints(DumpBook(a.book[1]))
Storable(c) ==
  IF c.op = "suggested" THEN c.suggestion.book # <<>> /\ Advised(c.suggestion) ELSE Prints(c.doc)
PrintInv ==
  /\ \A v \in DOMAIN versions : Prints(versions[v].doc)
  /\ \A k \in Callers : calls[k] # <<>> => Storable(calls[k][1])
  /\ pending # <<>> => Advised(pending[1])

LEMMA SuggestionPrints == ASSUME NEW s \in Suggestions PROVE Advised(s)
<1>0. PICK p \in Names, r \in Advice : \E i : Suggestible(p) /\ s = Suggestion(p, r, i)
  BY DEF Suggestions
<1>1. PICK i : Suggestible(p) /\ s = Suggestion(p, r, i)
  BY <1>0
<1> DEFINE b == LoadBook(CurrentDoc(p))
           own == EffectivePolicy(b.steps[i], b)
           m == [b EXCEPT !.steps[i].own = <<own>>]
           g == GraftBranch(b, i, r)
<1>2. IsFiniteSet(DOMAIN b) /\ "steps" \in DOMAIN b /\ IsSeq(b.steps)
  BY <1>1, ValidPrints DEF Suggestible, Loads
<1>3. PICK new : g = [m EXCEPT !.steps[i].own[1].branches = Append(@, new)]
  BY DEF GraftBranch
<1> HIDE DEF b
<1>4. /\ DOMAIN g = DOMAIN b /\ DOMAIN g.steps = DOMAIN b.steps
      /\ g.steps = [j \in DOMAIN b.steps |-> g.steps[j]]
  <2> DEFINE ms == [b.steps EXCEPT ![i].own = <<own>>]
             gs == [ms EXCEPT ![i].own[1].branches = Append(@, new)]
  <2>1. DOMAIN m = DOMAIN b /\ m.steps = ms /\ DOMAIN g = DOMAIN m /\ g.steps = gs
    BY <1>2, <1>3
  <2>2. DOMAIN gs = DOMAIN b.steps /\ gs = [j \in DOMAIN b.steps |-> gs[j]]
    OBVIOUS
  <2> HIDE DEF g, m, gs
  <2>3. QED  BY <2>1, <2>2
<1> HIDE DEF g
<1>5. IsSeq(g.steps)
  <2> DEFINE S == ToSet(g.steps)
  <2>1. \A j \in DOMAIN g.steps : g.steps[j] \in S
    BY DEF ToSet
  <2>2. DOMAIN g.steps = 1..Len(b.steps) /\ Len(b.steps) \in Nat
    BY <1>2, <1>4 DEF IsSeq
  <2> HIDE DEF S
  <2>3. g.steps \in Seq(S)
    BY <1>4, <2>1, <2>2
  <2>4. QED  BY <2>3 DEF S, IsSeq
<1>6. s.book # <<>> => s.book[1] = g
  BY <1>1 DEF Suggestion, g, b
<1>7. QED  BY <1>2, <1>4, <1>5, <1>6, DumpPrints DEF Advised

LEMMA AcceptedPrints ==
  ASSUME NEW g, Accepted(g)
  PROVE  Prints(DumpBook(ContentBook(g)))
<1>1. ValidBook(ContentBook(g))
  BY DEF Accepted, ContentLoads, ContentBook, FormLoads, FormBook, Loads
<1>2. QED  BY <1>1, ValidPrints, DumpPrints

LEMMA PrintPut ==
  ASSUME PrintInv, OneCall, NEW k \in Callers, NEW c, calls' = [calls EXCEPT ![k] = <<c>>],
         UNCHANGED <<versions, pending>>, Storable(c)
  PROVE  PrintInv'
<1>1. calls' = [calls EXCEPT ![k] = <<c>>] /\ versions' = versions
  OBVIOUS
<1>2. calls'[k] = <<c>> /\ \A j \in Callers : j # k => calls'[j] = calls[j]
  BY <1>1 DEF OneCall
<1>3. ASSUME NEW j \in Callers, calls'[j] # <<>> PROVE Storable(calls'[j][1])
  <2>1. CASE j = k
    <3>1. calls'[j][1] = c
      BY <1>2, <2>1
    <3>2. QED  BY <3>1
  <2>2. CASE j # k
    BY <1>2, <1>3, <2>2 DEF PrintInv
  <2>3. QED  BY <2>1, <2>2
<1>4. QED  BY <1>1, <1>3 DEF PrintInv

LEMMA PrintAsk ==
  ASSUME PrintInv, OneCall, NEW k \in Callers, NEW c, Ask(k, c), UNCHANGED pending, Storable(c)
  PROVE  PrintInv'
  BY PrintPut DEF Ask, store

(* A step after which each waiting call was there before.                   *)
LEMMA PrintKeeps ==
  ASSUME PrintInv, versions' = versions, pending' = pending \/ pending' = <<>>,
         \A k \in Callers : calls'[k] = calls[k] \/ calls'[k] = <<>>
  PROVE  PrintInv'
  BY DEF PrintInv

LEMMA PrintAsking ==
  ASSUME PrintInv, OneCall,
         \/ \E t \in Tabs : BeginSave(t) \/ BeginSaveNew(t)
         \/ \E d \in Texts : BeginPaste(d)
         \/ \E p \in Names, v \in Ids : BeginRevert(p, v)
         \/ BeginApprove \/ CliBeginApprove
  PROVE  PrintInv'
<1>0. "web" \in Callers /\ "approve" \in Callers
  BY DEF Callers
<1>1. CASE \E t \in Tabs : BeginSave(t) \/ BeginSaveNew(t)
  <2>1. PICK t \in Tabs : BeginSave(t) \/ BeginSaveNew(t)  BY <1>1
  <2>2. Accepted(tabs[t]) /\ UNCHANGED pending
    BY <2>1 DEF BeginSave, BeginSaveNew
  <2>3. PICK c : Ask("web", c) /\ c.op # "suggested" /\ c.doc = DumpBook(ContentBook(tabs[t]))
    BY <2>1 DEF BeginSave, BeginSaveNew, Call
  <2>4. QED  BY <1>0, <2>2, <2>3, AcceptedPrints, PrintAsk DEF Storable
<1>2. CASE \E d \in Texts : BeginPaste(d)
  <2>1. PICK d \in Texts : BeginPaste(d)  BY <1>2
  <2>2. PICK c : Ask("web", c) /\ c.op # "suggested" /\ c.doc = DumpBook(LoadBook(d))
    BY <2>1 DEF BeginPaste, Call
  <2>3. Prints(DumpBook(LoadBook(d))) /\ UNCHANGED pending
    BY <2>1, ValidPrints, DumpPrints DEF BeginPaste, Loads
  <2>4. QED  BY <1>0, <2>2, <2>3, PrintAsk DEF Storable
<1>3. CASE \E p \in Names, v \in Ids : BeginRevert(p, v)
  <2>1. PICK p \in Names, v \in Ids : BeginRevert(p, v)  BY <1>3
  <2>2. PICK c : Ask("web", c) /\ c.op # "suggested" /\ c.doc = Doc(v)
    BY <2>1 DEF BeginRevert, Call
  <2>3. Prints(Doc(v)) /\ UNCHANGED pending
    BY <2>1, LoadsPrints DEF BeginRevert
  <2>4. QED  BY <1>0, <2>2, <2>3, PrintAsk DEF Storable
<1>4. CASE BeginApprove
  <2>1. PICK c : Ask("web", c) /\ c.op # "suggested" /\ c.doc = DumpBook(pending[1].book[1])
    BY <1>4 DEF BeginApprove, ApproveCall, Call
  <2>2. Prints(c.doc) /\ UNCHANGED pending
    BY <1>4, <2>1 DEF BeginApprove, PrintInv, Advised
  <2>3. QED  BY <1>0, <2>1, <2>2, PrintAsk DEF Storable
<1>5. CASE CliBeginApprove
  <2> DEFINE s == calls["approve"][1].suggestion
  <2>1. PICK c : Ask("approve", c) /\ c.op # "suggested" /\ c.doc = DumpBook(s.book[1])
    BY <1>5 DEF CliBeginApprove, ApproveCall, Call
  <2>2. Prints(c.doc) /\ UNCHANGED pending
    BY <1>0, <1>5, <2>1 DEF CliBeginApprove, PrintInv, Storable, Advised
  <2>3. QED  BY <1>0, <2>1, <2>2, PrintAsk DEF Storable
<1>6. QED  BY <1>1, <1>2, <1>3, <1>4, <1>5

LEMMA PrintRest ==
  ASSUME PrintInv, OneCall,
         \/ \E p \in Names, v \in Ids : MakeCurrent(p, v)
         \/ \E d \in Texts : CliRun(d)
         \/ SuggestBranch \/ DiscardBranch \/ CliSuggest \/ CliRunEnds \/ Stop \/ Serve
         \/ UNCHANGED vars
  PROVE  PrintInv'
<1>1. CASE UNCHANGED <<versions, pending, calls>>
  BY <1>1 DEF PrintInv
<1>2. CASE \E d \in Texts : CliRun(d) /\ ~UNCHANGED calls
  <2>1. PICK d \in Texts : CliRun(d) /\ ~UNCHANGED calls
    BY <1>2
  <2> DEFINE b == LoadBook(d)
             c == Call("run", {}, current[b.name], b, d, 0, TRUE)
  <2>2. calls' = [calls EXCEPT !["run"] = <<c>>] /\ UNCHANGED <<versions, pending>> /\ Prints(d)
    BY <2>1, LoadsPrints DEF CliRun, store
  <2>3. Storable(c)
    BY <2>2 DEF Storable, Call
  <2> HIDE DEF c
  <2>4. "run" \in Callers
    BY DEF Callers
  <2>5. QED  BY <2>2, <2>3, <2>4, PrintPut
<1>3. CASE CliSuggest
  <2>1. PICK s \in Suggestions :
          s.book # <<>> /\ calls' = [calls EXCEPT !["approve"] = <<[op |-> "suggested", suggestion |-> s]>>]
    BY <1>3 DEF CliSuggest
  <2>2. UNCHANGED <<versions, pending>>
    BY <1>3 DEF CliSuggest, store
  <2> DEFINE c == [op |-> "suggested", suggestion |-> s]
  <2>3. Storable(c) /\ calls' = [calls EXCEPT !["approve"] = <<c>>]
    BY <2>1, SuggestionPrints DEF Storable
  <2> HIDE DEF c
  <2>4. "approve" \in Callers
    BY DEF Callers
  <2>5. QED  BY <2>2, <2>3, <2>4, PrintPut
<1>4. CASE SuggestBranch
  <2>1. PICK s \in Suggestions : pending' = <<s>>
    BY <1>4 DEF SuggestBranch
  <2>2. UNCHANGED <<versions, calls>>
    BY <1>4 DEF SuggestBranch, store
  <2>3. Advised(pending'[1])
    BY <2>1, SuggestionPrints
  <2>4. QED  BY <2>2, <2>3 DEF PrintInv
<1>5. CASE Stop
  <2>1. calls' = [calls EXCEPT !["web"] = <<>>] /\ versions' = versions /\ pending' = <<>>
    BY <1>5 DEF Stop, store
  <2>2. \A k \in Callers : calls'[k] = calls[k] \/ calls'[k] = <<>>
    BY <2>1 DEF OneCall
  <2>3. QED  BY <2>1, <2>2, PrintKeeps
<1>6. CASE DiscardBranch
  BY <1>6, PrintKeeps DEF DiscardBranch, store
<1>7. QED
  BY <1>1, <1>2, <1>3, <1>4, <1>5, <1>6
     DEF MakeCurrent, SetCurrentVersion, CliRun, CliRunEnds, Serve, store, vars

LEMMA PrintRegister ==
  ASSUME PrintInv, SaveInv, NEW k \in Callers, Register(k)
  PROVE  PrintInv' /\ Len(versions') \in DOMAIN versions'
<1> DEFINE c == calls[k][1]
<1>1. PICK row : versions' = Append(versions, row) /\ row.doc = c.doc
  BY DEF Register, RegisterPipeline
<1>2. Prints(c.doc)
  BY DEF Register, PrintInv, Storable
<1>3. IsSeq(versions)
  BY DEF SaveInv
<1>4. /\ DOMAIN versions = 1..Len(versions) /\ Len(versions) \in Nat
      /\ DOMAIN versions' = 1..Len(versions) + 1 /\ Len(versions') = Len(versions) + 1
      /\ versions'[Len(versions) + 1] = row
      /\ \A v \in 1..Len(versions) : versions'[v] = versions[v]
  BY <1>1, <1>3 DEF IsSeq
<1>5. ASSUME NEW v \in DOMAIN versions' PROVE Prints(versions'[v].doc)
  <2>1. v = Len(versions) + 1 \/ v \in DOMAIN versions
    BY <1>4
  <2>2. CASE v = Len(versions) + 1
    <3>1. versions'[v] = row
      BY <1>4, <2>2
    <3>2. QED  BY <1>1, <1>2, <3>1
  <2>3. CASE v \in DOMAIN versions
    BY <1>4, <2>3 DEF PrintInv
  <2>4. QED  BY <2>1, <2>2, <2>3
<1>6. calls' = [calls EXCEPT ![k] = <<>>] /\ (pending' = pending \/ pending' = <<>>)
  BY DEF Register
<1>7. \A j \in Callers : calls'[j] = calls[j] \/ calls'[j] = <<>>
  BY <1>6 DEF SaveInv, OneCall
<1>8. PrintInv'
  BY <1>5, <1>6, <1>7 DEF PrintInv
<1>9. QED  BY <1>4, <1>8

LEMMA PrintInit == Init => PrintInv
<1> SUFFICES ASSUME Init PROVE PrintInv  OBVIOUS
<1>1. DOMAIN versions = {1} /\ versions[1].doc = First
  BY DEF Init
<1>2. Prints(First)
  BY EditingAssumption, LoadsPrints DEF EditingAssumption
<1>3. (\A k \in Callers : calls[k] = <<>>) /\ pending = <<>>
  BY DEF Init
<1>4. QED  BY <1>1, <1>2, <1>3 DEF PrintInv

LEMMA PrintNext == SaveInv /\ PrintInv /\ [Next]_vars => PrintInv'
<1> SUFFICES ASSUME SaveInv, PrintInv, [Next]_vars PROVE PrintInv'  OBVIOUS
<1>0. OneCall
  BY DEF SaveInv
<1>1. CASE \E t \in Tabs : \/ EditorNew(t) \/ OpenSuggestion(t)
                           \/ \E v \in Ids, lab \in BOOLEAN : EditorEdit(t, v, lab)
                           \/ EditorValidate(t) \/ EditorToYaml(t) \/ EditorToForm(t)
                           \/ EditorRows(t) \/ Type(t)
  <2>1. UNCHANGED <<versions, pending, calls>>
    BY <1>1 DEF EditorNew, OpenSuggestion, EditorEdit, EditorValidate, EditorToYaml, EditorToForm,
                EditorRows, Type, Show, store
  <2>2. QED  BY <2>1 DEF PrintInv
<1>2. CASE \E t \in Tabs : BeginSave(t) \/ BeginSaveNew(t)
  BY <1>0, <1>2, PrintAsking
<1>3. CASE \E d \in Texts : BeginPaste(d) \/ CliRun(d)
  BY <1>0, <1>3, PrintAsking, PrintRest
<1>4. CASE \E p \in Names, v \in Ids : MakeCurrent(p, v) \/ BeginRevert(p, v)
  BY <1>0, <1>4, PrintAsking, PrintRest
<1>5. CASE \/ SuggestBranch \/ DiscardBranch \/ BeginApprove \/ CliSuggest \/ CliBeginApprove
           \/ CliRunEnds \/ Stop \/ Serve \/ UNCHANGED vars
  BY <1>0, <1>5, PrintAsking, PrintRest
<1>6. CASE \E c \in Callers : Register(c)
  BY <1>6, PrintRegister
<1>7. QED  BY <1>1, <1>2, <1>3, <1>4, <1>5, <1>6 DEF Next

(* Only a registration stores a version.                                    *)
LEMMA StoredByRegister ==
  ASSUME [Next]_vars, versions' # versions
  PROVE  \E k \in Callers : Register(k)
  BY DEF Next, vars, store, counts, Show, Ask, EditorNew, OpenSuggestion, EditorEdit, EditorValidate,
         EditorToYaml, EditorToForm, EditorRows, Type, BeginSave, BeginSaveNew, BeginPaste, CliRun,
         BeginRevert, SuggestBranch, DiscardBranch, BeginApprove, CliSuggest, CliBeginApprove,
         CliRunEnds, Stop, Serve, MakeCurrent, SetCurrentVersion

(* The side-by-side table shows every line of both texts, once and in       *)
(* order, whatever the matcher finds in common.                             *)
THEOREM NothingIsHidden == Spec => NothingHidden
<1>1. SaveInv /\ PrintInv /\ [Next]_vars => Stored(Shows)
  <2> SUFFICES ASSUME SaveInv, PrintInv, [Next]_vars, versions' # versions,
                      NEW v \in DOMAIN versions'
               PROVE  Shows(versions'[v].doc, versions'[Len(versions')].doc)
    BY DEF Stored
  <2>1. PrintInv' /\ Len(versions') \in DOMAIN versions'
    BY StoredByRegister, PrintRegister
  <2>2. Prints(versions'[v].doc) /\ Prints(versions'[Len(versions')].doc)
    BY <2>1 DEF PrintInv
  <2>3. QED  BY <2>2, Shown
<1>2. QED  BY <1>1, SaveInit, SaveNext, PrintInit, PrintNext, PTL DEF Spec, NothingHidden

-----------------------------------------------------------------------------
(* A finite set of numbers in increasing order is a list of its members,    *)
(* each once.                                                               *)
LEMMA AscendingList ==
  ASSUME NEW A \in SUBSET Nat, IsFiniteSet(A)
  PROVE  /\ Cardinality(A) \in Nat /\ DOMAIN Ascending(A) = 1..Cardinality(A)
         /\ Ascending(A) \in Seq(A) /\ Len(Ascending(A)) = Cardinality(A)
         /\ \A k, l \in 1..Cardinality(A) : Ascending(A)[k] = Ascending(A)[l] => k = l
         /\ \A a \in A : \E k \in 1..Cardinality(A) : Ascending(A)[k] = a
<1> DEFINE n == Cardinality(A)
           below(i) == {j \in A : j <= i}
           rank(i) == Cardinality(below(i))
           g == [i \in A |-> rank(i)]
           s == Ascending(A)
<1>1. n \in Nat
  BY FS_CardinalityType
<1>2. ASSUME NEW i \in A PROVE IsFiniteSet(below(i)) /\ Cardinality(below(i)) \in 1..n
  <2>1. IsFiniteSet(below(i)) /\ Cardinality(below(i)) <= n
    BY FS_Subset
  <2>2. Cardinality(below(i)) \in Nat
    BY <2>1, FS_CardinalityType
  <2>3. Cardinality(below(i)) # 0
    <3>1. below(i) # {}
      OBVIOUS
    <3> HIDE DEF below
    <3>2. QED  BY <2>1, <3>1, FS_EmptySet
  <2>4. QED  BY <1>1, <2>1, <2>2, <2>3
<1>3. ASSUME NEW i \in A, NEW k \in A, rank(i) = rank(k) PROVE i = k
  <2>1. ASSUME NEW x \in A, NEW y \in A, Cardinality(below(x)) = Cardinality(below(y)), x < y PROVE FALSE
    <3>0. (\A z \in A : z <= x => z <= y) /\ ~(y <= x) /\ y <= y
      BY <2>1
    <3>1. below(x) \subseteq below(y) /\ y \in below(y) /\ y \notin below(x)
      BY <3>0
    <3>2. IsFiniteSet(below(y))
      BY <1>2
    <3> HIDE DEF below
    <3>3. below(x) = below(y)
      BY <2>1, <3>1, <3>2, FS_Subset
    <3>4. QED  BY <3>1, <3>3
  <2>2. ~(i < k) /\ ~(k < i)
    BY <1>3, <2>1
  <2>3. QED  BY <2>2
<1>4. g \in [A -> 1..n]
  <2> HIDE DEF below
  <2>1. QED  BY <1>2
<1>5. \A k \in 1..n : \E a \in A : rank(a) = k
  <2>1. IsFiniteSet(1..n) /\ Cardinality(1..n) = n
    BY <1>1, FS_Interval
  <2> HIDE DEF rank
  <2>2. g \in Injection(A, 1..n)
    BY <1>3, <1>4 DEF Injection, IsInjective
  <2> HIDE DEF n
  <2>3. g \in Surjection(A, 1..n)
    <3> HIDE DEF g
    <3>1. QED  BY <2>1, <2>2, FS_Injection DEF n
  <2>4. QED  BY <2>3 DEF Surjection
<1>6. s = [k \in 1..n |-> CHOOSE i \in A : rank(i) = k]
  BY DEF Ascending
<1> HIDE DEF s, rank
<1>7. ASSUME NEW k \in 1..n PROVE s[k] \in A /\ rank(s[k]) = k
  BY <1>5, <1>6
<1>8. \A a \in A : rank(a) \in 1..n /\ s[rank(a)] = a
  BY <1>3, <1>4, <1>7
<1> HIDE DEF n
<1>9. s \in Seq(A) /\ Len(s) = n /\ DOMAIN s = 1..n
  BY <1>1, <1>6, <1>7
<1>10. \A k, l \in 1..n : s[k] = s[l] => k = l
  BY <1>7
<1>11. QED  BY <1>1, <1>8, <1>9, <1>10 DEF n, s

-----------------------------------------------------------------------------
(* FlattenSeq by its prefixes.                                              *)
FlatStep(seqs, f, i) == IF i = 1 THEN seqs[i] ELSE f[i - 1] \o seqs[i]
FlatOf(seqs) == CHOOSE f : f = [i \in 1..Len(seqs) |-> FlatStep(seqs, f, i)]

LEMMA FlatByParts ==
  ASSUME NEW seqs, Len(seqs) # 0
  PROVE  FlattenSeq(seqs) = FlatOf(seqs)[Len(seqs)]
  BY DEF FlattenSeq, FlatOf, FlatStep

LEMMA FlatDefined ==
  ASSUME NEW seqs, Len(seqs) \in Nat
  PROVE  FlatOf(seqs) = [i \in 1..Len(seqs) |-> FlatStep(seqs, FlatOf(seqs), i)]
<1> DEFINE P == 1..Len(seqs)
           step(g) == [i \in P |-> FlatStep(seqs, g, i)]
           good(g, k) == g = [i \in P |-> g[i]] /\ \A i \in P : i <= k => g[i] = FlatStep(seqs, g, i)
           T == {k \in Nat : \E g : good(g, k)}
<1>1. 0 \in T
  <2> DEFINE g == [i \in P |-> <<>>]
  <2>1. good(g, 0)
    OBVIOUS
  <2> HIDE DEF good, g
  <2>2. QED  BY <2>1
<1>2. ASSUME NEW k \in Nat, k \in T PROVE k + 1 \in T
  <2>1. PICK g : good(g, k)
    BY <1>2
  <2> DEFINE h == step(g)
  <2>2. ASSUME NEW i \in P, i <= k + 1 PROVE FlatStep(seqs, g, i) = FlatStep(seqs, h, i)
    <3>1. CASE i = 1
      BY <3>1 DEF FlatStep
    <3>2. CASE i # 1
      <4>1. i - 1 \in P /\ i - 1 <= k
        BY <2>2, <3>2
      <4>2. g[i - 1] = h[i - 1]
        BY <2>1, <4>1
      <4>3. QED  BY <3>2, <4>2 DEF FlatStep
    <3>3. QED  BY <3>1, <3>2
  <2>3. \E f : good(f, k + 1)
    <3>1. good(h, k + 1)
      <4> HIDE DEF P
      <4>1. QED  BY <2>2
    <3> HIDE DEF good, h
    <3>2. QED  BY <3>1
  <2>4. k + 1 \in Nat
    OBVIOUS
  <2> HIDE DEF good
  <2>5. QED  BY <2>3, <2>4
<1>3. Len(seqs) \in T
  <2>1. Nat \subseteq T
    <3> HIDE DEF T
    <3>1. QED  BY <1>1, <1>2, Induction
  <2> HIDE DEF T
  <2>2. QED  BY <2>1
<1>4. PICK g : good(g, Len(seqs))
  BY <1>3
<1>5. g = [i \in P |-> FlatStep(seqs, g, i)]
  BY <1>4
<1> HIDE DEF P
<1>6. QED  BY <1>5 DEF FlatOf, P

(* What holds of the first of some lists, and of a list of which it holds   *)
(* with the next behind it, holds of all of them in a row.                  *)
LEMMA Flat ==
  ASSUME NEW seqs, Len(seqs) \in Nat \ {0}
  PROVE  \E f : /\ FlattenSeq(seqs) = f[Len(seqs)] /\ f[1] = seqs[1]
                /\ \A i \in 1..Len(seqs) - 1 : f[i + 1] = f[i] \o seqs[i + 1]
<1> DEFINE f == FlatOf(seqs)
<1>1. f = [i \in 1..Len(seqs) |-> FlatStep(seqs, f, i)]
  BY FlatDefined
<1>2. FlattenSeq(seqs) = f[Len(seqs)]
  BY FlatByParts
<1> HIDE DEF f
<1>3. \A i \in 1..Len(seqs) : f[i] = FlatStep(seqs, f, i)
  BY <1>1
<1>4. f[1] = seqs[1]
  BY <1>3 DEF FlatStep
<1>5. ASSUME NEW i \in 1..Len(seqs) - 1 PROVE f[i + 1] = f[i] \o seqs[i + 1]
  <2>1. i + 1 \in 1..Len(seqs) /\ i + 1 # 1 /\ i + 1 - 1 = i
    OBVIOUS
  <2>2. f[i + 1] = FlatStep(seqs, f, i + 1)
    BY <1>3, <2>1
  <2> DEFINE j == i + 1
  <2>3. j # 1 /\ j - 1 = i
    OBVIOUS
  <2> HIDE DEF j
  <2>4. FlatStep(seqs, f, j) = f[i] \o seqs[j]
    BY <2>3 DEF FlatStep
  <2>5. QED  BY <2>2, <2>4 DEF j
<1>6. QED  BY <1>2, <1>4, <1>5

-----------------------------------------------------------------------------
Circle(ps) == UNION {S \in SUBSET DOMAIN ps : \A v \in S : ps[v] \in S}
TreeRows(ps) == [version : DOMAIN ps, depth : Nat]
Listed(rows) == {rows[i].version : i \in 1..Len(rows)}

(* Rows that list trees: each row starts one of them, or its parent is      *)
(* above it and one level up; nothing is listed twice, what starts a tree   *)
(* and what is under a listed version is listed, and nothing comes round    *)
(* in a circle.                                                             *)
Hangs(ps, rows, A, d, i) ==
  \/ rows[i].version \in A /\ rows[i].depth = d
  \/ \E j \in 1..Len(rows) : j < i /\ rows[j].version = ps[rows[i].version]
                             /\ rows[i].depth = rows[j].depth + 1
Forest(ps, rows, A, d) ==
  /\ rows \in Seq(TreeRows(ps))
  /\ \A i \in 1..Len(rows) : Hangs(ps, rows, A, d, i)
  /\ A \subseteq Listed(rows)
  /\ \A i, j \in 1..Len(rows) : rows[i].version = rows[j].version => i = j
  /\ \A i \in 1..Len(rows) : \A w \in DOMAIN ps :
       ps[w] = rows[i].version /\ rows[i].depth < Cardinality(DOMAIN ps) => w \in Listed(rows)
  /\ Listed(rows) \cap Circle(ps) = {}
(* Versions with one parent, or without any.                                *)
Kin(ps, A) ==
  \/ \E v \in (DOMAIN ps) \ Circle(ps) : \A a \in A : ps[a] = v
  \/ \A a \in A : ps[a] \notin DOMAIN ps

LEMMA Circling ==
  ASSUME NEW ps, NEW S \in SUBSET DOMAIN ps, \A v \in S : ps[v] \in S
  PROVE  S \subseteq Circle(ps)
  BY DEF Circle

LEMMA NoCircleUnder ==
  ASSUME NEW ps, NEW w \in DOMAIN ps, w \in Circle(ps)
  PROVE  ps[w] \in Circle(ps)
<1>1. PICK S \in SUBSET DOMAIN ps : w \in S /\ \A v \in S : ps[v] \in S
  BY DEF Circle
<1>2. QED  BY <1>1, Circling

LEMMA ParentsApart ==
  ASSUME NEW ps, NEW rows, NEW A \in SUBSET DOMAIN ps, NEW d, Forest(ps, rows, A, d),
         NEW a \in DOMAIN ps, Kin(ps, A \cup {a})
  PROVE  ps[a] \notin Listed(rows)
<1>1. Listed(rows) \subseteq DOMAIN ps
  <2>1. \A i \in 1..Len(rows) : rows[i] \in TreeRows(ps)
    BY DEF Forest
  <2>2. QED  BY <2>1 DEF Listed, TreeRows
<1>2. CASE \A b \in A \cup {a} : ps[b] \notin DOMAIN ps
  BY <1>1, <1>2
<1>3. CASE \E v \in (DOMAIN ps) \ Circle(ps) : \A b \in A \cup {a} : ps[b] = v
  <2>1. PICK v \in (DOMAIN ps) \ Circle(ps) : \A b \in A \cup {a} : ps[b] = v
    BY <1>3
  <2>2. ASSUME v \in Listed(rows) PROVE FALSE
    <3>1. ASSUME NEW x \in Listed(rows) PROVE ps[x] \in Listed(rows)
      <4>1. PICK i \in 1..Len(rows) : x = rows[i].version
        BY DEF Listed
      <4>2. Hangs(ps, rows, A, d, i)
        BY DEF Forest
      <4>3. QED  BY <2>1, <2>2, <4>1, <4>2 DEF Hangs, Listed
    <3>2. Listed(rows) \subseteq Circle(ps)
      BY <1>1, <3>1, Circling
    <3>3. QED  BY <2>1, <2>2, <3>2
  <2>3. QED  BY <2>1, <2>2
<1>4. QED  BY <1>2, <1>3 DEF Kin

LEMMA EmptyForest ==
  ASSUME NEW ps, NEW d
  PROVE  Forest(ps, <<>>, {}, d)
<1>1. <<>> \in Seq(TreeRows(ps)) /\ Len(<<>>) = 0
  OBVIOUS
<1>2. 1..0 = {}
  OBVIOUS
<1>3. QED  BY <1>1, <1>2 DEF Forest, Listed

LEMMA ForestJoin ==
  ASSUME NEW ps, NEW A1 \in SUBSET DOMAIN ps, NEW A2 \in SUBSET DOMAIN ps, NEW d, NEW p, NEW q,
         Forest(ps, p, A1, d), Forest(ps, q, A2, d), A1 \cap A2 = {}, Kin(ps, A1 \cup A2)
  PROVE  Forest(ps, p \o q, A1 \cup A2, d)
<1> DEFINE r == p \o q
           n == Len(p)
           m == Len(q)
           A == A1 \cup A2
           R == TreeRows(ps)
<1>1. p \in Seq(R) /\ q \in Seq(R)
  BY DEF Forest
<1>2. r \in Seq(R) /\ Len(r) = n + m /\ n \in Nat /\ m \in Nat
      /\ (\A k \in 1..n : k \in 1..n + m /\ r[k] = p[k])
      /\ (\A k \in 1..m : k + n \in 1..n + m /\ r[k + n] = q[k])
      /\ (\A k \in 1..n + m : k \in 1..n \/ \E l \in 1..m : k = l + n)
  <2> HIDE DEF R
  <2>1. r \in Seq(R) /\ Len(r) = n + m /\ n \in Nat /\ m \in Nat
        /\ (\A k \in 1..n : r[k] = p[k]) /\ (\A k \in n + 1..n + m : r[k] = q[k - n])
    BY <1>1
  <2> HIDE DEF r, n, m
  <2>2. \A k \in 1..n : k \in 1..n + m /\ r[k] = p[k]
    BY <2>1
  <2>3. ASSUME NEW k \in 1..m PROVE k + n \in 1..n + m /\ r[k + n] = q[k]
    <3>1. k + n \in n + 1..n + m /\ k + n - n = k
      BY <2>1
    <3>2. QED  BY <2>1, <3>1
  <2>4. ASSUME NEW k \in 1..n + m PROVE k \in 1..n \/ \E l \in 1..m : k = l + n
    <3>1. CASE k \in 1..n
      BY <3>1
    <3>2. CASE k \notin 1..n
      <4>1. k - n \in 1..m /\ k = (k - n) + n
        BY <2>1, <3>2
      <4>2. QED  BY <4>1
    <3>3. QED  BY <3>1, <3>2
  <2>5. QED  BY <2>1, <2>2, <2>3, <2>4
<1>3. Listed(r) = Listed(p) \cup Listed(q)
  <2> HIDE DEF r
  <2>1. Listed(p) \subseteq Listed(r)
    BY <1>2 DEF Listed
  <2>2. Listed(q) \subseteq Listed(r)
    BY <1>2 DEF Listed
  <2>3. Listed(r) \subseteq Listed(p) \cup Listed(q)
    <3>1. ASSUME NEW k \in 1..n + m PROVE r[k].version \in Listed(p) \cup Listed(q)
      <4>1. CASE k \in 1..n
        BY <1>2, <4>1 DEF Listed
      <4>2. CASE \E l \in 1..m : k = l + n
        BY <1>2, <4>2 DEF Listed
      <4>3. QED  BY <1>2, <4>1, <4>2
    <3>2. QED  BY <1>2, <3>1 DEF Listed
  <2>4. QED  BY <2>1, <2>2, <2>3
<1> HIDE DEF r
<1>4. ASSUME NEW k \in 1..n + m PROVE Hangs(ps, r, A, d, k)
  <2>1. CASE k \in 1..n
    <3>1. r[k] = p[k]
      BY <1>2, <2>1
    <3>2. Hangs(ps, p, A1, d, k)
      BY <2>1 DEF Forest
    <3>3. CASE \E j \in 1..n : j < k /\ p[j].version = ps[p[k].version]
                                /\ p[k].depth = p[j].depth + 1
      <4>1. PICK j \in 1..n : j < k /\ p[j].version = ps[p[k].version]
                                /\ p[k].depth = p[j].depth + 1
        BY <3>3
      <4>2. r[j] = p[j] /\ j \in 1..Len(r)
        BY <1>2
      <4>3. QED  BY <3>1, <4>1, <4>2 DEF Hangs
    <3>4. QED  BY <3>1, <3>2, <3>3 DEF Hangs
  <2>2. CASE \E l \in 1..m : k = l + n
    <3>0. PICK l \in 1..m : k = l + n
      BY <2>2
    <3>1. r[k] = q[l]
      BY <1>2, <3>0
    <3>2. Hangs(ps, q, A2, d, l)
      BY DEF Forest
    <3>3. CASE \E j \in 1..m : j < l /\ q[j].version = ps[q[l].version]
                                /\ q[l].depth = q[j].depth + 1
      <4>1. PICK j \in 1..m : j < l /\ q[j].version = ps[q[l].version]
                                /\ q[l].depth = q[j].depth + 1
        BY <3>3
      <4>2. r[j + n] = q[j] /\ j + n \in 1..Len(r) /\ j + n < k
        BY <1>2, <3>0, <4>1
      <4>3. QED  BY <3>1, <4>1, <4>2 DEF Hangs
    <3>4. QED  BY <3>1, <3>2, <3>3 DEF Hangs
  <2>3. QED  BY <1>2, <2>1, <2>2
<1>5. Listed(p) \cap Listed(q) = {}
  <2> DEFINE S == Listed(p) \cap Listed(q)
  <2>1. ASSUME NEW x \in S PROVE ps[x] \in S
    <3>1. PICK i \in 1..n : x = p[i].version
      BY DEF Listed
    <3>2. PICK j \in 1..m : x = q[j].version
      BY DEF Listed
    <3>3. Hangs(ps, p, A1, d, i) /\ Hangs(ps, q, A2, d, j)
      BY DEF Forest
    <3>4. x \in A1 \/ ps[x] \in Listed(p)
      BY <3>1, <3>3 DEF Hangs, Listed
    <3>5. x \in A2 \/ ps[x] \in Listed(q)
      BY <3>2, <3>3 DEF Hangs, Listed
    <3>6. x \notin A1
      <4>1. ASSUME x \in A1 PROVE FALSE
        <5>1. Kin(ps, A2 \cup {x})
          BY <4>1 DEF Kin
        <5>2. ps[x] \notin Listed(q)
          BY <4>1, <5>1, ParentsApart
        <5>3. QED  BY <3>5, <4>1, <5>2
      <4>2. QED  BY <4>1
    <3>7. x \notin A2
      <4>1. ASSUME x \in A2 PROVE FALSE
        <5>1. Kin(ps, A1 \cup {x})
          BY <4>1 DEF Kin
        <5>2. ps[x] \notin Listed(p)
          BY <4>1, <5>1, ParentsApart
        <5>3. QED  BY <3>4, <4>1, <5>2
      <4>2. QED  BY <4>1
    <3>8. QED  BY <3>4, <3>5, <3>6, <3>7
  <2>2. S \subseteq DOMAIN ps
    <3>1. \A i \in 1..n : p[i] \in TreeRows(ps)
      BY <1>1
    <3>2. QED  BY <3>1 DEF Listed, TreeRows
  <2> HIDE DEF S
  <2>3. S \subseteq Circle(ps)
    BY <2>1, <2>2, Circling
  <2>4. Listed(p) \cap Circle(ps) = {}
    BY DEF Forest
  <2>5. QED  BY <2>3, <2>4 DEF S
<1>6. ASSUME NEW i \in 1..n + m, NEW j \in 1..n + m, r[i].version = r[j].version PROVE i = j
  <2>1. \A k, l \in 1..n : p[k].version = p[l].version => k = l
    BY DEF Forest
  <2>2. \A k, l \in 1..m : q[k].version = q[l].version => k = l
    BY DEF Forest
  <2>3. \A k \in 1..n, l \in 1..m : p[k].version # q[l].version
    BY <1>5 DEF Listed
  <2>4. CASE i \in 1..n /\ j \in 1..n
    BY <1>2, <1>6, <2>1, <2>4
  <2>5. CASE i \in 1..n /\ \E l \in 1..m : j = l + n
    BY <1>2, <1>6, <2>3, <2>5
  <2>6. CASE j \in 1..n /\ \E l \in 1..m : i = l + n
    <3>1. PICK l \in 1..m : i = l + n
      BY <2>6
    <3>2. r[j] = p[j] /\ r[i] = q[l]
      BY <1>2, <2>6, <3>1
    <3>3. p[j].version # q[l].version
      BY <2>3, <2>6
    <3>4. QED  BY <1>6, <3>2, <3>3
  <2>7. CASE (\E k \in 1..m : i = k + n) /\ (\E l \in 1..m : j = l + n)
    BY <1>2, <1>6, <2>2, <2>7
  <2>8. QED  BY <1>2, <2>4, <2>5, <2>6, <2>7
<1>7. ASSUME NEW i \in 1..n + m, NEW w \in DOMAIN ps, ps[w] = r[i].version,
             r[i].depth < Cardinality(DOMAIN ps)
      PROVE  w \in Listed(r)
  <2>1. CASE i \in 1..n
    <3>1. r[i] = p[i]
      BY <1>2, <2>1
    <3>2. w \in Listed(p)
      BY <1>7, <2>1, <3>1 DEF Forest
    <3>3. QED  BY <1>3, <3>2
  <2>2. CASE \E l \in 1..m : i = l + n
    <3>1. PICK l \in 1..m : i = l + n
      BY <2>2
    <3>2. r[i] = q[l]
      BY <1>2, <3>1
    <3>3. w \in Listed(q)
      BY <1>7, <3>2 DEF Forest
    <3>4. QED  BY <1>3, <3>3
  <2>3. QED  BY <1>2, <2>1, <2>2
<1>8. A \subseteq Listed(r) /\ Listed(r) \cap Circle(ps) = {}
  BY <1>3 DEF Forest
<1>9. QED  BY <1>2, <1>4, <1>6, <1>7, <1>8 DEF Forest, r

Children(ps, v) == {w \in DOMAIN ps : ps[w] = v}

-----------------------------------------------------------------------------
LEMMA ForestRoot ==
  ASSUME NEW ps, NEW v \in (DOMAIN ps) \ Circle(ps), NEW d \in Nat, NEW A \in SUBSET Children(ps, v),
         NEW p, Forest(ps, p, A, d + 1), A = Children(ps, v) \/ d = Cardinality(DOMAIN ps)
  PROVE  Forest(ps, <<[version |-> v, depth |-> d]>> \o p, {v}, d)
<1> DEFINE x == [version |-> v, depth |-> d]
           r == <<x>> \o p
           n == Len(p)
           R == TreeRows(ps)
<1>1. p \in Seq(R) /\ x \in R
  BY DEF Forest, TreeRows
<1>2. r \in Seq(R) /\ Len(r) = n + 1 /\ n \in Nat /\ r[1] = x
      /\ (\A k \in 1..n : k + 1 \in 1..n + 1 /\ r[k + 1] = p[k])
      /\ (\A k \in 1..n + 1 : k = 1 \/ \E l \in 1..n : k = l + 1)
  <2> HIDE DEF R, x
  <2>1. r \in Seq(R) /\ Len(r) = n + 1 /\ n \in Nat /\ r[1] = x
        /\ (\A k \in 2..n + 1 : r[k] = p[k - 1])
    BY <1>1
  <2> HIDE DEF r, n
  <2>3. ASSUME NEW k \in 1..n PROVE k + 1 \in 1..n + 1 /\ r[k + 1] = p[k]
    <3>1. k + 1 \in 2..n + 1 /\ k + 1 - 1 = k
      BY <2>1
    <3>2. QED  BY <2>1, <3>1
  <2>4. ASSUME NEW k \in 1..n + 1 PROVE k = 1 \/ \E l \in 1..n : k = l + 1
    <3>1. CASE k # 1
      <4>1. k - 1 \in 1..n /\ k = (k - 1) + 1
        BY <2>1, <3>1
      <4>2. QED  BY <4>1
    <3>3. QED  BY <3>1
  <2>5. QED  BY <2>1, <2>3, <2>4
<1> HIDE DEF r
<1>3. x.version = v /\ x.depth = d
  OBVIOUS
<1> HIDE DEF x
<1>4. Listed(r) = {v} \cup Listed(p)
  <2>0. 1 \in 1..n + 1 /\ Len(r) = n + 1
    BY <1>2
  <2>1. v \in Listed(r)
    BY <1>2, <1>3, <2>0 DEF Listed
  <2>2. Listed(p) \subseteq Listed(r)
    <3>1. ASSUME NEW k \in 1..n PROVE p[k].version \in Listed(r)
      <4>1. r[k + 1] = p[k] /\ k + 1 \in 1..Len(r)
        BY <1>2
      <4>2. QED  BY <4>1 DEF Listed
    <3>2. QED  BY <3>1 DEF Listed
  <2>3. ASSUME NEW k \in 1..n + 1 PROVE r[k].version \in {v} \cup Listed(p)
    BY <1>2, <1>3 DEF Listed
  <2>4. QED  BY <2>0, <2>1, <2>2, <2>3 DEF Listed
<1>5. v \notin Listed(p)
  <2> SUFFICES ASSUME v \in Listed(p) PROVE FALSE
    OBVIOUS
  <2>1. ASSUME NEW z \in Listed(p) PROVE ps[z] \in Listed(p)
    <3>1. PICK i \in 1..n : z = p[i].version
      BY DEF Listed
    <3>2. Hangs(ps, p, A, d + 1, i)
      BY DEF Forest
    <3>3. CASE z \in A
      BY <3>3 DEF Children
    <3>4. CASE z \notin A
      BY <3>1, <3>2, <3>4 DEF Hangs, Listed
    <3>5. QED  BY <3>3, <3>4
  <2>2. Listed(p) \subseteq DOMAIN ps
    <3>1. \A i \in 1..n : p[i] \in TreeRows(ps)
      BY <1>1
    <3>2. QED  BY <3>1 DEF Listed, TreeRows
  <2>3. Listed(p) \subseteq Circle(ps)
    BY <2>1, <2>2, Circling
  <2>4. QED  BY <2>3
<1>6. ASSUME NEW k \in 1..n + 1 PROVE Hangs(ps, r, {v}, d, k)
  <2>1. CASE k = 1
    BY <1>2, <1>3, <2>1 DEF Hangs
  <2>2. CASE \E l \in 1..n : k = l + 1
    <3>0. PICK l \in 1..n : k = l + 1
      BY <2>2
    <3>1. r[k] = p[l]
      BY <1>2, <3>0
    <3>2. Hangs(ps, p, A, d + 1, l)
      BY DEF Forest
    <3>3. CASE \E j \in 1..n : j < l /\ p[j].version = ps[p[l].version]
                                /\ p[l].depth = p[j].depth + 1
      <4>1. PICK j \in 1..n : j < l /\ p[j].version = ps[p[l].version]
                                /\ p[l].depth = p[j].depth + 1
        BY <3>3
      <4>2. r[j + 1] = p[j] /\ j + 1 \in 1..Len(r) /\ j + 1 < k
        BY <1>2, <3>0, <4>1
      <4>3. QED  BY <3>1, <4>1, <4>2 DEF Hangs
    <3>4. CASE p[l].version \in A /\ p[l].depth = d + 1
      <4>1. r[1].version = ps[r[k].version] /\ r[k].depth = r[1].depth + 1
        BY <1>2, <1>3, <3>1, <3>4 DEF Children
      <4>2. 1 \in 1..Len(r) /\ 1 < k
        BY <1>2, <3>0
      <4>3. QED  BY <4>1, <4>2 DEF Hangs
    <3>5. QED  BY <3>2, <3>3, <3>4 DEF Hangs
  <2>3. QED  BY <1>2, <2>1, <2>2
<1>7. ASSUME NEW i \in 1..n + 1, NEW j \in 1..n + 1, r[i].version = r[j].version PROVE i = j
  <2>1. \A k, l \in 1..n : p[k].version = p[l].version => k = l
    BY DEF Forest
  <2>2. \A l \in 1..n : p[l].version # v
    BY <1>5 DEF Listed
  <2>3. CASE i = 1 /\ \E l \in 1..n : j = l + 1
    BY <1>2, <1>3, <1>7, <2>2, <2>3
  <2>4. CASE j = 1 /\ \E l \in 1..n : i = l + 1
    BY <1>2, <1>3, <1>7, <2>2, <2>4
  <2>5. CASE (\E k \in 1..n : i = k + 1) /\ (\E l \in 1..n : j = l + 1)
    BY <1>2, <1>7, <2>1, <2>5
  <2>6. QED  BY <1>2, <2>3, <2>4, <2>5
<1>8. ASSUME NEW i \in 1..n + 1, NEW w \in DOMAIN ps, ps[w] = r[i].version,
             r[i].depth < Cardinality(DOMAIN ps)
      PROVE  w \in Listed(r)
  <2>1. CASE i = 1
    <3>1. w \in Children(ps, v)
      BY <1>2, <1>3, <1>8, <2>1 DEF Children
    <3>2. A = Children(ps, v)
      BY <1>2, <1>3, <1>8, <2>1
    <3>3. w \in Listed(p)
      BY <3>1, <3>2 DEF Forest
    <3>4. QED  BY <1>4, <3>3
  <2>2. CASE \E l \in 1..n : i = l + 1
    <3>1. PICK l \in 1..n : i = l + 1
      BY <2>2
    <3>2. r[i] = p[l]
      BY <1>2, <3>1
    <3>3. w \in Listed(p)
      BY <1>8, <3>2 DEF Forest
    <3>4. QED  BY <1>4, <3>3
  <2>3. QED  BY <1>2, <2>1, <2>2
<1>9. {v} \subseteq Listed(r) /\ Listed(r) \cap Circle(ps) = {}
  BY <1>4 DEF Forest
<1>10. QED  BY <1>2, <1>6, <1>7, <1>8, <1>9 DEF Forest, r, x

LEMMA ForestFlat ==
  ASSUME NEW ps, NEW A \in SUBSET DOMAIN ps, A \subseteq Nat, IsFiniteSet(A), Kin(ps, A), NEW d, NEW seqs,
         DOMAIN seqs = 1..Cardinality(A), seqs = [k \in DOMAIN seqs |-> seqs[k]],
         \A k \in 1..Cardinality(A) : Forest(ps, seqs[k], {Ascending(A)[k]}, d)
  PROVE  Forest(ps, FlattenSeq(seqs), A, d)
<1> DEFINE n == Cardinality(A)
           s == Ascending(A)
           top(k) == {s[l] : l \in 1..k}
<1>1. n \in Nat /\ s \in Seq(A) /\ Len(s) = n
      /\ (\A k, l \in 1..n : s[k] = s[l] => k = l) /\ \A a \in A : \E k \in 1..n : s[k] = a
  BY AscendingList
<1>2. Len(seqs) = n
  BY <1>1
<1>3. CASE n = 0
  <2>1. A = {}
    BY <1>3, FS_EmptySet
  <2>2. seqs = <<>>
    BY <1>3
  <2>3. FlattenSeq(seqs) = <<>>
    BY <2>2 DEF FlattenSeq
  <2>4. QED  BY <2>1, <2>3, EmptyForest
<1>4. CASE n # 0
  <2>1. PICK f : FlattenSeq(seqs) = f[n] /\ f[1] = seqs[1]
                 /\ \A i \in 1..n - 1 : f[i + 1] = f[i] \o seqs[i + 1]
    <3>1. Len(seqs) \in Nat \ {0}
      BY <1>1, <1>2, <1>4
    <3>2. \E f : /\ FlattenSeq(seqs) = f[Len(seqs)] /\ f[1] = seqs[1]
                 /\ \A i \in 1..Len(seqs) - 1 : f[i + 1] = f[i] \o seqs[i + 1]
      BY <3>1, Flat
    <3> HIDE DEF n
    <3>3. QED  BY <1>2, <3>2
  <2> DEFINE T == {k \in Nat : k < n => Forest(ps, f[k + 1], top(k + 1), d)}
  <2>2. 0 \in T
    <3>1. top(1) = {s[1]} /\ 1 \in 1..n
      BY <1>1, <1>4
    <3> HIDE DEF top, s, n
    <3>2. Forest(ps, f[1], top(1), d)
      BY <2>1, <3>1 DEF n, s
    <3>3. 0 + 1 = 1 /\ 0 \in Nat
      OBVIOUS
    <3>4. QED  BY <3>2, <3>3
  <2>3. ASSUME NEW k \in Nat, k \in T PROVE k + 1 \in T
    <3>1. ASSUME k + 1 < n PROVE Forest(ps, f[k + 1 + 1], top(k + 1 + 1), d)
      <4> DEFINE j == k + 1
      <4>1. j \in 1..n - 1 /\ j + 1 \in 1..n /\ j \in 1..n /\ k < n /\ j \in Nat
        BY <1>1, <3>1
      <4>2. Forest(ps, f[j], top(j), d)
        BY <2>3, <4>1
      <4> HIDE DEF j
      <4>3. top(j + 1) = top(j) \cup {s[j + 1]}
        <5>1. \A l \in 1..j : l \in 1..j + 1
          BY <4>1
        <5>2. \A l \in 1..j + 1 : l \in 1..j \/ l = j + 1
          BY <4>1
        <5>3. j + 1 \in 1..j + 1
          BY <4>1
        <5> HIDE DEF s
        <5>4. QED  BY <5>1, <5>2, <5>3
      <4>4. top(j) \cap {s[j + 1]} = {}
        <5>1. ASSUME NEW l \in 1..j PROVE s[l] # s[j + 1]
          <6>1. l \in 1..n /\ l # j + 1
            BY <1>1, <4>1
          <6>2. QED  BY <1>1, <4>1, <6>1
        <5> HIDE DEF s
        <5>2. QED  BY <5>1
      <4>5. top(j) \subseteq A /\ {s[j + 1]} \subseteq A
        <5>1. \A l \in 1..n : s[l] \in A
          BY <1>1
        <5>2. \A l \in 1..j : l \in 1..n
          BY <1>1, <4>1
        <5> HIDE DEF s
        <5>3. QED  BY <4>1, <5>1, <5>2
      <4>6. Forest(ps, seqs[j + 1], {s[j + 1]}, d)
        BY <4>1
      <4> HIDE DEF top, s, n
      <4>7. Kin(ps, top(j) \cup {s[j + 1]})
        BY <4>5 DEF Kin
      <4> DEFINE B == top(j)
                 C == {s[j + 1]}
      <4>8. B \in SUBSET DOMAIN ps /\ C \in SUBSET DOMAIN ps /\ B \cap C = {} /\ Kin(ps, B \cup C)
            /\ Forest(ps, f[j], B, d) /\ Forest(ps, seqs[j + 1], C, d)
        BY <4>2, <4>4, <4>5, <4>6, <4>7
      <4> HIDE DEF B, C
      <4>9. Forest(ps, f[j] \o seqs[j + 1], B \cup C, d)
        BY <4>8, ForestJoin
      <4>10. f[j + 1] = f[j] \o seqs[j + 1]
        BY <2>1, <4>1
      <4>11. Forest(ps, f[j + 1], top(j + 1), d)
        BY <4>3, <4>9, <4>10 DEF B, C
      <4>12. QED  BY <4>11 DEF j
    <3> HIDE DEF top, s, n
    <3>2. QED  BY <3>1
  <2>4. n - 1 \in T
    <3>1. Nat \subseteq T
      <4> HIDE DEF T
      <4>1. QED  BY <2>2, <2>3, Induction
    <3>2. n - 1 \in Nat
      BY <1>1, <1>4
    <3> HIDE DEF T, n
    <3>3. QED  BY <3>1, <3>2
  <2>5. Forest(ps, f[n], top(n), d)
    <3>1. n - 1 < n /\ n - 1 + 1 = n
      BY <1>1
    <3> DEFINE k == n - 1
    <3> HIDE DEF top
    <3>2. k < n /\ k + 1 = n /\ k \in T
      BY <2>4, <3>1
    <3> HIDE DEF k, n
    <3>3. QED  BY <3>2
  <2>6. top(n) = A
    BY <1>1
  <2>7. QED  BY <2>1, <2>5, <2>6
<1>5. QED  BY <1>3, <1>4

-----------------------------------------------------------------------------
(* The rows under a version, as far down as rows go.                        *)
Under(ps, v, d) == IF d = Cardinality(DOMAIN ps) THEN {} ELSE Children(ps, v)
TreeSpots(ps) == (DOMAIN ps) \X (0..Cardinality(DOMAIN ps))
TreeStep(ps, f, at) ==
  LET under == IF at[2] = Cardinality(DOMAIN ps) THEN <<>>
               ELSE Ascending({w \in DOMAIN ps : ps[w] = at[1]})
  IN  <<[version |-> at[1], depth |-> at[2]]>>
        \o FlattenSeq([k \in DOMAIN under |-> f[<<under[k], at[2] + 1>>]])
TreeOf(ps) == CHOOSE f : f = [at \in TreeSpots(ps) |-> TreeStep(ps, f, at)]
Branches(ps, f, A, d) == [k \in 1..Cardinality(A) |-> f[<<Ascending(A)[k], d>>]]

LEMMA TreeByParts ==
  ASSUME NEW ps, NEW roots
  PROVE  TreeUnder(ps, roots) = FlattenSeq(Branches(ps, TreeOf(ps), roots, 0))
<1>1. DOMAIN Ascending(roots) = 1..Cardinality(roots)
  BY DEF Ascending
<1>2. QED  BY <1>1 DEF TreeUnder, TreeOf, TreeStep, TreeSpots, Branches

LEMMA TreeStepAt ==
  ASSUME NEW ps, NEW f, NEW v, NEW d, DOMAIN ps \subseteq Nat, IsFiniteSet(DOMAIN ps)
  PROVE  TreeStep(ps, f, <<v, d>>)
           = <<[version |-> v, depth |-> d]>> \o FlattenSeq(Branches(ps, f, Under(ps, v, d), d + 1))
<1> DEFINE A == Children(ps, v)
           at == <<v, d>>
<1>1. at[1] = v /\ at[2] = d
  OBVIOUS
<1>2. DOMAIN Ascending(A) = 1..Cardinality(A)
  BY DEF Ascending
<1>3. CASE d = Cardinality(DOMAIN ps)
  <2>1. DOMAIN <<>> = {} /\ Cardinality({}) = 0 /\ 1..0 = {}
    BY FS_EmptySet
  <2>2. QED  BY <1>1, <1>3, <2>1 DEF TreeStep, Branches, Under
<1>4. CASE d # Cardinality(DOMAIN ps)
  BY <1>1, <1>2, <1>4 DEF TreeStep, Branches, Under, Children
<1>5. QED  BY <1>3, <1>4

LEMMA TreeDefined ==
  ASSUME NEW ps, DOMAIN ps \subseteq Nat, IsFiniteSet(DOMAIN ps)
  PROVE  \A v \in DOMAIN ps : \A d \in 0..Cardinality(DOMAIN ps) :
           TreeOf(ps)[<<v, d>>]
             = <<[version |-> v, depth |-> d]>>
                 \o FlattenSeq(Branches(ps, TreeOf(ps), Under(ps, v, d), d + 1))
<1> DEFINE deepest == Cardinality(DOMAIN ps)
           P == TreeSpots(ps)
           step(g) == [at \in P |-> TreeStep(ps, g, at)]
           good(g, k) == g = [at \in P |-> g[at]]
                         /\ \A v \in DOMAIN ps : \A d \in 0..deepest :
                              d + k > deepest => g[<<v, d>>] = TreeStep(ps, g, <<v, d>>)
           T == {k \in Nat : \E g : good(g, k)}
<1>0. deepest \in Nat
  BY FS_CardinalityType
<1>1. 0 \in T
  <2> DEFINE g == [at \in P |-> <<>>]
  <2>1. good(g, 0)
    <3> HIDE DEF P, deepest
    <3>1. QED  BY <1>0
  <2> HIDE DEF good, g
  <2>2. QED  BY <2>1
<1>2. ASSUME NEW k \in Nat, k \in T PROVE k + 1 \in T
  <2>1. PICK g : good(g, k)
    BY <1>2
  <2> DEFINE h == step(g)
  <2>2. ASSUME NEW v \in DOMAIN ps, NEW d \in 0..deepest, d + (k + 1) > deepest
        PROVE  h[<<v, d>>] = TreeStep(ps, h, <<v, d>>)
    <3> DEFINE A == Under(ps, v, d)
    <3>1. h[<<v, d>>] = TreeStep(ps, g, <<v, d>>)
      BY DEF TreeSpots
    <3>2. ASSUME NEW n \in 1..Cardinality(A)
          PROVE  g[<<Ascending(A)[n], d + 1>>] = h[<<Ascending(A)[n], d + 1>>]
      <4>1. A \subseteq DOMAIN ps
        BY DEF Under, Children
      <4>2. IsFiniteSet(A) /\ A \in SUBSET Nat
        BY <4>1, FS_Subset
      <4>3. Ascending(A) \in Seq(A) /\ Len(Ascending(A)) = Cardinality(A) /\ Cardinality(A) \in Nat
        BY <4>2, AscendingList
      <4>4. Ascending(A)[n] \in A
        BY <4>3
      <4>5. d # deepest
        BY <4>4 DEF Under
      <4> DEFINE w == Ascending(A)[n]
      <4>6. w \in DOMAIN ps
        BY <4>1, <4>4
      <4> HIDE DEF w, A, deepest
      <4>7. d + 1 \in 0..deepest /\ (d + 1) + k > deepest
        BY <1>0, <2>2, <4>5
      <4> DEFINE e == d + 1
      <4> HIDE DEF e, P
      <4>8. e \in 0..deepest /\ e + k > deepest
        BY <4>7 DEF e
      <4>9. g[<<w, e>>] = TreeStep(ps, g, <<w, e>>)
        BY <2>1, <4>6, <4>8
      <4>10. h[<<w, e>>] = TreeStep(ps, g, <<w, e>>)
        BY <4>6, <4>8 DEF P, TreeSpots, deepest
      <4>11. QED  BY <4>9, <4>10 DEF w, e
    <3> HIDE DEF h
    <3>3. Branches(ps, g, A, d + 1) = Branches(ps, h, A, d + 1)
      BY <3>2 DEF Branches
    <3>4. QED  BY <3>1, <3>3, TreeStepAt
  <2>3. \E f : good(f, k + 1)
    <3>1. good(h, k + 1)
      <4>1. h = [at \in P |-> h[at]]
        OBVIOUS
      <4> HIDE DEF h, P, deepest
      <4>2. QED  BY <2>2, <4>1
    <3> HIDE DEF good, h
    <3>2. QED  BY <3>1
  <2>4. k + 1 \in Nat
    OBVIOUS
  <2> HIDE DEF good
  <2>5. QED  BY <2>3, <2>4
<1>3. deepest + 1 \in T
  <2>1. Nat \subseteq T
    <3> HIDE DEF T
    <3>1. QED  BY <1>1, <1>2, Induction
  <2>2. deepest + 1 \in Nat
    BY <1>0
  <2> HIDE DEF T
  <2>3. QED  BY <2>1, <2>2
<1>4. PICK g : good(g, deepest + 1)
  BY <1>3
<1>5. g = step(g)
  <2>1. ASSUME NEW at \in P PROVE g[at] = TreeStep(ps, g, at)
    <3>1. PICK v \in DOMAIN ps, d \in 0..deepest : at = <<v, d>>
      BY DEF TreeSpots
    <3>2. d + (deepest + 1) > deepest
      BY <1>0
    <3> HIDE DEF P, deepest
    <3>3. QED  BY <1>4, <3>1, <3>2
  <2> HIDE DEF P, deepest
  <2>2. QED  BY <1>4, <2>1
<1> DEFINE f == TreeOf(ps)
<1>6. f = [at \in P |-> TreeStep(ps, f, at)]
  <2> HIDE DEF P
  <2>1. QED  BY <1>5 DEF TreeOf, P
<1> HIDE DEF f
<1>7. ASSUME NEW v \in DOMAIN ps, NEW d \in 0..deepest
      PROVE  f[<<v, d>>] = TreeStep(ps, f, <<v, d>>)
  BY <1>6 DEF TreeSpots
<1>8. QED  BY <1>7, TreeStepAt DEF f

(* What is listed under a version is a tree.                                *)
LEMMA TreeIsForest ==
  ASSUME NEW ps, DOMAIN ps \subseteq Nat, IsFiniteSet(DOMAIN ps)
  PROVE  \A v \in (DOMAIN ps) \ Circle(ps) : Forest(ps, TreeOf(ps)[<<v, 0>>], {v}, 0)
<1> DEFINE deepest == Cardinality(DOMAIN ps)
           f == TreeOf(ps)
           T == {k \in Nat : \A v \in (DOMAIN ps) \ Circle(ps) : \A d \in 0..deepest :
                   d + k > deepest => Forest(ps, f[<<v, d>>], {v}, d)}
<1>0. deepest \in Nat
  BY FS_CardinalityType
<1>1. 0 \in T
  <2> HIDE DEF deepest
  <2>1. QED  BY <1>0
<1>2. ASSUME NEW k \in Nat, k \in T PROVE k + 1 \in T
  <2>1. ASSUME NEW v \in (DOMAIN ps) \ Circle(ps), NEW d \in 0..deepest, d + (k + 1) > deepest
        PROVE  Forest(ps, f[<<v, d>>], {v}, d)
    <3> DEFINE A == Under(ps, v, d)
               p == FlattenSeq(Branches(ps, f, A, d + 1))
    <3>1. f[<<v, d>>] = <<[version |-> v, depth |-> d]>> \o p
      BY TreeDefined
    <3>2. A \subseteq DOMAIN ps /\ A \subseteq Children(ps, v)
      BY DEF Under, Children
    <3>3. IsFiniteSet(A) /\ A \in SUBSET Nat
      BY <3>2, FS_Subset
    <3>4. A \cap Circle(ps) = {}
      <4>1. ASSUME NEW w \in A, w \in Circle(ps) PROVE FALSE
        <5>1. ps[w] = v /\ w \in DOMAIN ps
          BY <3>2 DEF Children
        <5>2. ps[w] \in Circle(ps)
          BY <4>1, <5>1, NoCircleUnder
        <5>3. QED  BY <5>1, <5>2
      <4>2. QED  BY <4>1
    <3>5. ASSUME NEW n \in 1..Cardinality(A)
          PROVE  Forest(ps, f[<<Ascending(A)[n], d + 1>>], {Ascending(A)[n]}, d + 1)
      <4>1. Ascending(A) \in Seq(A) /\ Len(Ascending(A)) = Cardinality(A) /\ Cardinality(A) \in Nat
        BY <3>3, AscendingList
      <4>2. Ascending(A)[n] \in A
        BY <4>1
      <4>3. d # deepest
        BY <4>2 DEF Under
      <4> DEFINE w == Ascending(A)[n]
                 e == d + 1
      <4>4. w \in (DOMAIN ps) \ Circle(ps)
        BY <3>2, <3>4, <4>2
      <4> HIDE DEF w, A, deepest, f
      <4>5. e \in 0..deepest /\ e + k > deepest
        BY <1>0, <2>1, <4>3
      <4> HIDE DEF e
      <4>6. Forest(ps, f[<<w, e>>], {w}, e)
        BY <1>2, <4>4, <4>5
      <4>7. QED  BY <4>6 DEF w, e
    <3>6. Kin(ps, A)
      <4>1. \A a \in A : ps[a] = v
        BY <3>2 DEF Children
      <4>2. QED  BY <4>1 DEF Kin
    <3> DEFINE seqs == Branches(ps, f, A, d + 1)
               e == d + 1
    <3>7. DOMAIN seqs = 1..Cardinality(A) /\ seqs = [n \in DOMAIN seqs |-> seqs[n]]
          /\ \A n \in 1..Cardinality(A) : Forest(ps, seqs[n], {Ascending(A)[n]}, e)
      <4> HIDE DEF A, f
      <4>1. QED  BY <3>5 DEF Branches
    <3>8. Forest(ps, FlattenSeq(seqs), A, e)
      <4> HIDE DEF A, f, seqs, e
      <4>1. QED  BY <3>2, <3>3, <3>6, <3>7, ForestFlat
    <3>9. A = Children(ps, v) \/ d = Cardinality(DOMAIN ps)
      BY DEF Under
    <3>10. d \in Nat /\ A \in SUBSET Children(ps, v) /\ Forest(ps, p, A, d + 1)
      BY <1>0, <3>2, <3>8
    <3> HIDE DEF A, f, p, deepest
    <3>11. Forest(ps, <<[version |-> v, depth |-> d]>> \o p, {v}, d)
      BY <3>9, <3>10, ForestRoot
    <3>12. QED  BY <3>1, <3>11
  <2> HIDE DEF deepest, f
  <2>2. QED  BY <2>1
<1>3. deepest + 1 \in T
  <2>1. Nat \subseteq T
    <3> HIDE DEF T
    <3>1. QED  BY <1>1, <1>2, Induction
  <2>2. deepest + 1 \in Nat
    BY <1>0
  <2> HIDE DEF T
  <2>3. QED  BY <2>1, <2>2
<1>4. 0 \in 0..deepest /\ 0 + (deepest + 1) > deepest
  BY <1>0
<1> HIDE DEF deepest, f
<1>5. QED  BY <1>3, <1>4 DEF f

LEMMA RowsAreForest ==
  ASSUME NEW ps, DOMAIN ps \subseteq Nat, IsFiniteSet(DOMAIN ps)
  PROVE  Forest(ps, VersionTreeRows(ps), {v \in DOMAIN ps : ps[v] \notin DOMAIN ps}, 0)
<1> DEFINE A == {v \in DOMAIN ps : ps[v] \notin DOMAIN ps}
           seqs == Branches(ps, TreeOf(ps), A, 0)
<1>1. VersionTreeRows(ps) = FlattenSeq(seqs)
  BY TreeByParts DEF VersionTreeRows
<1>2. A \in SUBSET DOMAIN ps /\ A \subseteq Nat /\ IsFiniteSet(A) /\ Kin(ps, A)
  BY FS_Subset DEF Kin
<1>3. A \cap Circle(ps) = {}
  <2>1. ASSUME NEW w \in A, w \in Circle(ps) PROVE FALSE
    <3>1. ps[w] \in Circle(ps) /\ ps[w] \notin DOMAIN ps
      BY <2>1, NoCircleUnder
    <3>2. Circle(ps) \subseteq DOMAIN ps
      BY DEF Circle
    <3>3. QED  BY <3>1, <3>2
  <2>2. QED  BY <2>1
<1>4. ASSUME NEW n \in 1..Cardinality(A)
      PROVE  Forest(ps, TreeOf(ps)[<<Ascending(A)[n], 0>>], {Ascending(A)[n]}, 0)
  <2>1. Ascending(A) \in Seq(A) /\ Len(Ascending(A)) = Cardinality(A) /\ Cardinality(A) \in Nat
    BY <1>2, AscendingList
  <2>2. Ascending(A)[n] \in A
    BY <2>1
  <2>3. Ascending(A)[n] \in (DOMAIN ps) \ Circle(ps)
    BY <1>2, <1>3, <2>2
  <2>4. QED  BY <2>3, TreeIsForest
<1> HIDE DEF A
<1>5. DOMAIN seqs = 1..Cardinality(A) /\ seqs = [n \in DOMAIN seqs |-> seqs[n]]
      /\ \A n \in 1..Cardinality(A) : Forest(ps, seqs[n], {Ascending(A)[n]}, 0)
  BY <1>4 DEF Branches
<1> HIDE DEF seqs
<1>6. Forest(ps, FlattenSeq(seqs), A, 0)
  BY <1>2, <1>5, ForestFlat
<1>7. QED  BY <1>1, <1>6 DEF A

-----------------------------------------------------------------------------
(* No row is deeper than there are rows above it.                           *)
LEMMA NoDeeperThanAbove ==
  ASSUME NEW ps, NEW rows, NEW A, Forest(ps, rows, A, 0)
  PROVE  \A i \in 1..Len(rows) : rows[i].depth < i
<1> DEFINE n == Len(rows)
           B == {i \in 1..n : ~(rows[i].depth < i)}
<1> SUFFICES ASSUME B # {} PROVE FALSE
  OBVIOUS
<1>1. n \in Nat /\ \A i \in 1..n : rows[i].depth \in Nat
  <2>1. rows \in Seq(TreeRows(ps))
    BY DEF Forest
  <2>2. \A i \in 1..n : rows[i] \in TreeRows(ps)
    BY <2>1
  <2>3. QED  BY <2>1, <2>2 DEF TreeRows
<1>2. PICK x \in B : \A y \in B : x <= y
  <2>1. B \in SUBSET Nat
    BY <1>1
  <2> HIDE DEF B
  <2>2. QED  BY <2>1, Least
<1>3. x \in 1..n /\ ~(rows[x].depth < x)
  BY <1>2
<1>4. Hangs(ps, rows, A, 0, x)
  BY <1>3 DEF Forest
<1>5. rows[x].depth # 0
  BY <1>1, <1>3
<1>6. PICK j \in 1..n : j < x /\ rows[x].depth = rows[j].depth + 1
  BY <1>4, <1>5 DEF Hangs
<1>7. j \notin B
  <2> HIDE DEF B, n
  <2>1. ~(x <= j)
    BY <1>1, <1>3, <1>6
  <2>2. QED  BY <1>2, <2>1
<1>8. rows[j].depth < j
  BY <1>7
<1>9. rows[j].depth \in Nat /\ rows[x].depth \in Nat
  BY <1>1, <1>3
<1> HIDE DEF B
<1>10. QED  BY <1>1, <1>3, <1>6, <1>8, <1>9

LEMMA NoMoreThanVersions ==
  ASSUME NEW ps, IsFiniteSet(DOMAIN ps), NEW rows, NEW A, Forest(ps, rows, A, 0)
  PROVE  Len(rows) <= Cardinality(DOMAIN ps)
<1> DEFINE n == Len(rows)
           f == [i \in 1..n |-> rows[i].version]
<1>1. n \in Nat /\ \A i \in 1..n : rows[i].version \in DOMAIN ps
  <2>1. rows \in Seq(TreeRows(ps))
    BY DEF Forest
  <2>2. \A i \in 1..n : rows[i] \in TreeRows(ps)
    BY <2>1
  <2>3. QED  BY <2>1, <2>2 DEF TreeRows
<1>2. \A i, j \in 1..n : rows[i].version = rows[j].version => i = j
  BY DEF Forest
<1>3. f \in Injection(1..n, DOMAIN ps)
  BY <1>1, <1>2 DEF Injection, IsInjective
<1>4. Cardinality(1..n) <= Cardinality(DOMAIN ps)
  <2> HIDE DEF f, n
  <2>1. QED  BY <1>3, FS_Injection
<1>5. Cardinality(1..n) = n
  <2> HIDE DEF n
  <2>1. Cardinality(1..n) = IF 1 > n THEN 0 ELSE n - 1 + 1
    BY <1>1, FS_Interval
  <2>2. QED  BY <1>1, <2>1
<1>6. QED  BY <1>4, <1>5

(* Every version that does not come round in a circle is in a row.          *)
LEMMA AllListed ==
  ASSUME NEW ps, DOMAIN ps \subseteq Nat, IsFiniteSet(DOMAIN ps)
  PROVE  (DOMAIN ps) \ Circle(ps) \subseteq Listed(VersionTreeRows(ps))
<1> DEFINE rows == VersionTreeRows(ps)
           roots == {v \in DOMAIN ps : ps[v] \notin DOMAIN ps}
           rest == ((DOMAIN ps) \ Circle(ps)) \ Listed(rows)
           S == rest \cup Circle(ps)
<1>1. Forest(ps, rows, roots, 0)
  BY RowsAreForest
<1> HIDE DEF rows
<1>2. \A i \in 1..Len(rows) : rows[i].depth < Cardinality(DOMAIN ps)
  <2>1. \A i \in 1..Len(rows) : rows[i].depth < i /\ rows[i].depth \in Nat
    <3>1. rows \in Seq(TreeRows(ps))
      BY <1>1 DEF Forest
    <3>2. \A i \in 1..Len(rows) : rows[i] \in TreeRows(ps)
      BY <3>1
    <3> HIDE DEF roots
    <3>3. QED  BY <1>1, <3>2, NoDeeperThanAbove DEF TreeRows
  <2>2. Len(rows) <= Cardinality(DOMAIN ps) /\ Len(rows) \in Nat /\ Cardinality(DOMAIN ps) \in Nat
    <3>1. rows \in Seq(TreeRows(ps))
      BY <1>1 DEF Forest
    <3> HIDE DEF roots
    <3>2. QED  BY <1>1, <3>1, NoMoreThanVersions, FS_CardinalityType
  <2>3. QED  BY <2>1, <2>2
<1>3. ASSUME NEW v \in rest PROVE ps[v] \in S
  <2>1. v \in DOMAIN ps /\ v \notin Listed(rows)
    OBVIOUS
  <2>2. ps[v] \in DOMAIN ps
    BY <1>1, <2>1 DEF Forest
  <2>3. ps[v] \notin Listed(rows)
    <3>1. ASSUME NEW i \in 1..Len(rows), ps[v] = rows[i].version PROVE FALSE
      BY <1>1, <1>2, <2>1, <3>1 DEF Forest
    <3>2. QED  BY <3>1 DEF Listed
  <2>4. QED  BY <2>2, <2>3
<1>4. ASSUME NEW v \in Circle(ps) PROVE ps[v] \in S
  <2>1. v \in DOMAIN ps
    BY DEF Circle
  <2>2. QED  BY <2>1, NoCircleUnder
<1>5. S \subseteq DOMAIN ps
  BY DEF Circle
<1>6. S \subseteq Circle(ps)
  <2>1. \A v \in S : ps[v] \in S
    BY <1>3, <1>4
  <2> HIDE DEF S
  <2>2. QED  BY <1>5, <2>1, Circling
<1>7. QED  BY <1>6 DEF rows

LEMMA TreeShows ==
  ASSUME NEW ps, DOMAIN ps \subseteq Nat, IsFiniteSet(DOMAIN ps), NEW v \in (DOMAIN ps) \ Circle(ps)
  PROVE  LET rows == VersionTreeRows(ps)
             at(w) == {i \in DOMAIN rows : rows[i].version = w}
         IN  /\ Cardinality(at(v)) = 1
             /\ \A u \in DOMAIN ps : u = ps[v] =>
                  \A i \in at(u), j \in at(v) : i < j /\ rows[j].depth = rows[i].depth + 1
<1> DEFINE rows == VersionTreeRows(ps)
           at(w) == {i \in DOMAIN rows : rows[i].version = w}
           roots == {w \in DOMAIN ps : ps[w] \notin DOMAIN ps}
<1>1. Forest(ps, rows, roots, 0)
  BY RowsAreForest
<1>2. v \in Listed(rows)
  BY AllListed
<1> HIDE DEF rows
<1>3. DOMAIN rows = 1..Len(rows)
  <2>1. rows \in Seq(TreeRows(ps))
    BY <1>1 DEF Forest
  <2>2. QED  BY <2>1
<1>4. \A i, j \in 1..Len(rows) : rows[i].version = rows[j].version => i = j
  BY <1>1 DEF Forest
<1>5. PICK k \in 1..Len(rows) : rows[k].version = v
  BY <1>2 DEF Listed
<1>6. at(v) = {k}
  BY <1>3, <1>4, <1>5
<1>7. Cardinality(at(v)) = 1
  <2> HIDE DEF at
  <2>1. QED  BY <1>6, FS_Singleton
<1>8. ASSUME NEW u \in DOMAIN ps, u = ps[v], NEW i \in at(u), NEW j \in at(v)
      PROVE  i < j /\ rows[j].depth = rows[i].depth + 1
  <2>1. i \in 1..Len(rows) /\ rows[i].version = u /\ j \in 1..Len(rows) /\ rows[j].version = v
    BY <1>3, <1>8
  <2>2. Hangs(ps, rows, roots, 0, j)
    BY <1>1, <2>1 DEF Forest
  <2>3. v \notin roots
    BY <1>8
  <2>4. PICK l \in 1..Len(rows) : l < j /\ rows[l].version = ps[v] /\ rows[j].depth = rows[l].depth + 1
    BY <2>1, <2>2, <2>3 DEF Hangs
  <2>5. l = i
    BY <1>4, <1>8, <2>1, <2>4
  <2>6. QED  BY <2>4, <2>5
<1>9. QED  BY <1>7, <1>8 DEF rows

(* The history page of every pipeline shows every version once and below    *)
(* its parent, except those whose ancestors come round in a circle.         *)
THEOREM TreesShowAll == Spec => []TreeShowsAll
<1>1. SaveInv => TreeShowsAll
  <2> SUFFICES ASSUME SaveInv, NEW p \in Names, NEW v \in Of(p) \ Circular(p)
               PROVE  LET rows == VersionTreeRows([w \in Of(p) |-> versions[w].parent])
                          at(w) == {i \in DOMAIN rows : rows[i].version = w}
                      IN  /\ Cardinality(at(v)) = 1
                          /\ \A u \in Of(p) : u = versions[v].parent =>
                               \A i \in at(u), j \in at(v) :
                                 i < j /\ rows[j].depth = rows[i].depth + 1
    BY DEF TreeShowsAll
  <2> DEFINE ps == [w \in Of(p) |-> versions[w].parent]
  <2>1. IsSeq(versions)
    BY DEF SaveInv
  <2>2. DOMAIN versions = 1..Len(versions) /\ Len(versions) \in Nat
    BY <2>1 DEF IsSeq
  <2>3. IsFiniteSet(1..Len(versions))
    BY <2>2, FS_Interval
  <2>4. DOMAIN ps = Of(p) /\ Of(p) \subseteq 1..Len(versions)
    BY <2>2 DEF Of, Ids
  <2>5. IsFiniteSet(DOMAIN ps) /\ DOMAIN ps \subseteq Nat
    BY <2>3, <2>4, FS_Subset
  <2>6. ps[v] = versions[v].parent
    OBVIOUS
  <2>7. Circle(ps) = Circular(p)
    BY <2>4 DEF Circle, Circular
  <2> HIDE DEF ps
  <2>8. v \in (DOMAIN ps) \ Circle(ps)
    BY <2>4, <2>7
  <2>9. LET rows == VersionTreeRows(ps)
            at(w) == {i \in DOMAIN rows : rows[i].version = w}
        IN  /\ Cardinality(at(v)) = 1
            /\ \A u \in DOMAIN ps : u = ps[v] =>
                 \A i \in at(u), j \in at(v) : i < j /\ rows[j].depth = rows[i].depth + 1
    BY <2>5, <2>8, TreeShows
  <2>10. QED  BY <2>4, <2>6, <2>9 DEF ps
<1>2. QED  BY <1>1, SaveInit, SaveNext, PTL DEF Spec

-----------------------------------------------------------------------------
(* Pairs that go down both texts and leave no line out are of lines at the  *)
(* same place.                                                              *)
Complete(n, m, P) ==
  /\ P \subseteq (1..n) \X (1..m) /\ Downward(P)
  /\ (\A i \in 1..n : \E p \in P : p[1] = i) /\ \A j \in 1..m : \E p \in P : p[2] = j

LEMMA AllPaired ==
  ASSUME NEW n \in Nat, NEW m \in Nat, NEW P, Complete(n, m, P)
  PROVE  n = m /\ P = {<<k, k>> : k \in 1..n}
<1>0. /\ \A p \in P : p[1] \in 1..n /\ p[2] \in 1..m /\ p = <<p[1], p[2]>>
      /\ Downward(P)
      /\ (\A i \in 1..n : \E p \in P : p[1] = i) /\ \A j \in 1..m : \E p \in P : p[2] = j
  BY DEF Complete
<1> DEFINE B == {p[1] : p \in {q \in P : q[1] # q[2]}}
<1>1. B = {}
  <2> SUFFICES ASSUME B # {} PROVE FALSE
    OBVIOUS
  <2>1. PICK x \in B : \A y \in B : x <= y
    <3>1. B \in SUBSET Nat
      BY <1>0
    <3> HIDE DEF B
    <3>2. QED  BY <3>1, Least
  <2>2. PICK p \in P : p[1] = x /\ p[1] # p[2]
    BY <2>1
  <2>3. x \in 1..n /\ p[2] \in 1..m
    BY <1>0, <2>2
  <2> HIDE DEF B
  <2>4. CASE x < p[2]
    <3>1. x \in 1..m
      BY <2>3, <2>4
    <3>2. PICK q \in P : q[2] = x
      BY <1>0, <3>1
    <3>3. q[1] < x /\ q[1] \in Nat
      BY <1>0, <2>2, <2>4, <3>2 DEF Downward
    <3>4. q[1] \in B
      BY <2>3, <3>2, <3>3 DEF B
    <3>5. x <= q[1]
      BY <2>1, <3>4
    <3>6. QED  BY <2>3, <3>3, <3>5
  <2>5. CASE p[2] < x
    <3>1. p[2] \in 1..n
      BY <2>3, <2>5
    <3>2. PICK q \in P : q[1] = p[2]
      BY <1>0, <3>1
    <3>3. q[2] < q[1]
      BY <1>0, <2>2, <2>5, <3>2 DEF Downward
    <3>4. q[1] \in B
      BY <1>0, <3>3 DEF B
    <3>5. x <= q[1]
      BY <2>1, <3>4
    <3>6. QED  BY <2>3, <2>5, <3>2, <3>5
  <2>6. PICK y \in 1..m : y = p[2]
    BY <2>3
  <2>7. x < y \/ y < x
    BY <2>2, <2>3, <2>6
  <2>8. QED  BY <2>4, <2>5, <2>6, <2>7
<1>2. \A p \in P : p[1] = p[2]
  BY <1>1
<1>3. \A i \in 1..n : i \in 1..m /\ <<i, i>> \in P
  BY <1>0, <1>2
<1>4. \A j \in 1..m : j \in 1..n
  BY <1>0, <1>2
<1>5. n = m
  <2>1. n = 0 \/ n \in 1..m
    <3>1. n = 0 \/ n \in 1..n
      OBVIOUS
    <3>2. QED  BY <1>3, <3>1
  <2>2. m = 0 \/ m \in 1..n
    <3>1. m = 0 \/ m \in 1..m
      OBVIOUS
    <3>2. QED  BY <1>4, <3>1
  <2>3. QED  BY <2>1, <2>2
<1>6. QED  BY <1>0, <1>2, <1>3, <1>5

(* A text is matched with itself line by line.                              *)
LEMMA MatchedSame ==
  ASSUME NEW s, Len(s) \in Nat
  PROVE  Matched(s, s) = {<<k, k>> : k \in 1..Len(s)}
<1> DEFINE n == Len(s)
           f == MatchIn(s, s)
           W == Windows(s, s)
           all == <<1, n, 1, n>>
           blocks == CommonBlocks(s, s, all)
           b == LongestBlock(blocks)
<1>0. Texts2(s, s) /\ n \in Nat
  BY DEF Texts2
<1>1. \A w \in W : f[w] = MatchStep(s, s, f, w)
  <2>1. f = [w \in W |-> MatchStep(s, s, f, w)]
    BY <1>0, MatchDefined
  <2> HIDE DEF f, W
  <2>2. QED  BY <2>1
<1>2. all \in W /\ Matched(s, s) = f[all]
  BY MatchedByParts DEF Windows
<1>3. blocks = {c \in (1..n) \X (1..n) \X (1..n) :
                  /\ c[1] + c[3] - 1 <= n /\ c[2] + c[3] - 1 <= n
                  /\ \A k \in 0..c[3] - 1 : s[c[1] + k] = s[c[2] + k]}
  <2>1. n - 1 + 1 = n /\ all[1] = 1 /\ all[2] = n /\ all[3] = 1 /\ all[4] = n
    BY <1>0
  <2> HIDE DEF n, all
  <2>2. QED  BY <2>1 DEF CommonBlocks
<1>4. CASE n = 0
  <2>1. 1..n = {}
    BY <1>4
  <2> HIDE DEF n
  <2>2. blocks = {}
    BY <1>3, <2>1
  <2>3. f[all] = {}
    BY <1>1, <1>2, <2>2 DEF MatchStep
  <2>4. QED  BY <1>2, <2>1, <2>3 DEF n
<1>5. CASE n # 0
  <2> HIDE DEF n, f, W
  <2>1. <<1, 1, n>> \in blocks
    BY <1>0, <1>3, <1>5
  <2>2. b \in blocks /\ b[3] >= n
    <3>1. blocks \in SUBSET (Nat \X Nat \X (0..n)) /\ blocks # {}
      BY <1>3, <2>1
    <3>2. \E c \in blocks : \A d \in blocks :
            c[3] > d[3] \/ (c[3] = d[3] /\ (c[1] < d[1] \/ (c[1] = d[1] /\ c[2] <= d[2])))
      <4> DEFINE c == <<1, 1, n>>
      <4>1. ASSUME NEW d \in blocks
            PROVE c[3] > d[3] \/ (c[3] = d[3] /\ (c[1] < d[1] \/ (c[1] = d[1] /\ c[2] <= d[2])))
        <5>1. d[3] \in 1..n /\ d[1] \in 1..n /\ d[2] \in 1..n
          BY <1>3
        <5>2. QED  BY <1>0, <5>1
      <4>2. QED  BY <2>1, <4>1
    <3> HIDE DEF blocks
    <3>3. b \in blocks /\ \A d \in blocks :
            b[3] > d[3] \/ (b[3] = d[3] /\ (b[1] < d[1] \/ (b[1] = d[1] /\ b[2] <= d[2])))
      BY <3>2 DEF LongestBlock
    <3> HIDE DEF b
    <3> DEFINE c == <<1, 1, n>>
    <3>4. b[3] > c[3] \/ b[3] = c[3]
      BY <2>1, <3>3
    <3>5. b[3] \in Nat
      BY <3>1, <3>3
    <3>6. QED  BY <1>0, <3>3, <3>4, <3>5
  <2>3. b[1] = 1 /\ b[2] = 1 /\ b[3] = n
    <3>1. b[1] \in 1..n /\ b[2] \in 1..n /\ b[3] \in 1..n /\ b[1] + b[3] - 1 <= n /\ b[2] + b[3] - 1 <= n
      BY <1>3, <2>2
    <3> HIDE DEF b
    <3>2. QED  BY <1>0, <2>2, <3>1
  <2> DEFINE l == <<1, 0, 1, 0>>
             r == <<n + 1, n, n + 1, n>>
  <2>4. f[all] = {<<1 + k, 1 + k>> : k \in 0..n - 1} \cup f[l] \cup f[r]
    <3> HIDE DEF b, blocks
    <3>1. MatchStep(s, s, f, all) = {<<b[1] + k, b[2] + k>> : k \in 0..b[3] - 1}
             \cup f[<<1, b[1] - 1, 1, b[2] - 1>>] \cup f[<<b[1] + b[3], n, b[2] + b[3], n>>]
      BY <2>1 DEF MatchStep, b, blocks
    <3>2. 1 + n = n + 1 /\ 1 - 1 = 0
      BY <1>0
    <3>3. QED  BY <1>1, <1>2, <2>3, <3>1, <3>2
  <2>5. f[l] = {} /\ f[r] = {}
    <3>1. l \in W /\ r \in W
      BY <1>0 DEF W, Windows, n
    <3>2. CommonBlocks(s, s, l) = {} /\ CommonBlocks(s, s, r) = {}
      <4>1. 1..0 = {} /\ n + 1..n = {}
        BY <1>0
      <4>2. QED  BY <4>1 DEF CommonBlocks
    <3> HIDE DEF l, r
    <3>3. QED  BY <1>1, <3>1, <3>2 DEF MatchStep
  <2>6. {<<1 + k, 1 + k>> : k \in 0..n - 1} = {<<k, k>> : k \in 1..n}
    <3>1. \A k \in 0..n - 1 : 1 + k \in 1..n
      BY <1>0
    <3>2. \A k \in 1..n : k - 1 \in 0..n - 1 /\ 1 + (k - 1) = k
      BY <1>0
    <3>3. QED  BY <3>1, <3>2
  <2>7. QED  BY <1>2, <2>4, <2>5, <2>6 DEF n
<1>6. QED  BY <1>4, <1>5

-----------------------------------------------------------------------------
(* The summary, a level at a time: what it compares is the same exactly if  *)
(* it has nothing to say.                                                   *)
Listed2(s) == Len(s) \in Nat /\ DOMAIN s = 1..Len(s)

LEMMA Ids2 ==
  ASSUME NEW s, Listed2(s)
  PROVE  LET id(x) == x.id
         IN  /\ Each(id, s) = [k \in 1..Len(s) |-> s[k].id] /\ Len(Each(id, s)) = Len(s)
<1> DEFINE f == [k \in 1..Len(s) |-> s[k].id]
           n == Len(s)
<1>1. n \in Nat /\ f = [k \in 1..n |-> f[k]]
  BY DEF Listed2
<1>2. PICK S : f \in Seq(S)
  <2> HIDE DEF f, n
  <2>1. QED  BY <1>1, List
<1>3. DOMAIN f = 1..n
  OBVIOUS
<1>4. Len(f) = n
  <2> HIDE DEF f, n
  <2>1. DOMAIN f = 1..Len(f) /\ Len(f) \in Nat
    BY <1>2
  <2>2. QED  BY <1>1, <1>3, <2>1
<1>5. QED  BY <1>4 DEF Each, Listed2

LEMMA StepsAligned ==
  ASSUME NEW old, NEW new, Listed2(old), Listed2(new), NEW where
  PROVE  /\ UnalignedSteps(old, new, where) = {}
              <=> Len(old) = Len(new) /\ \A k \in 1..Len(old) : old[k].id = new[k].id
         /\ UnalignedSteps(old, new, where) = {}
              => AlignedSteps(old, new) = {<<k, k>> : k \in 1..Len(old)}
<1> DEFINE s == [k \in 1..Len(old) |-> old[k].id]
           t == [k \in 1..Len(new) |-> new[k].id]
           n == Len(old)
           m == Len(new)
           P == Matched(s, t)
           left == UnalignedSteps(old, new, where)
<1>1. /\ Len(s) = n /\ Len(t) = m /\ n \in Nat /\ m \in Nat /\ AlignedSteps(old, new) = P
      /\ DOMAIN old = 1..n /\ DOMAIN new = 1..m
  BY Ids2 DEF AlignedSteps, Listed2
<1>2. left = {} <=> (1..n) \ {p[1] : p \in P} = {} /\ (1..m) \ {p[2] : p \in P} = {}
  <2> DEFINE I == (1..n) \ {p[1] : p \in P}
             J == (1..m) \ {p[2] : p \in P}
             out(i) == Item("removed", "step", Append(where, ToString(i)))
             in(j) == Item("added", "step", Append(where, ToString(j)))
             A == UNION {out(i) : i \in I}
             B == UNION {in(j) : j \in J}
  <2>1. left = A \cup B
    BY <1>1 DEF UnalignedSteps
  <2>2. (\A i : out(i) # {}) /\ \A j : in(j) # {}
    BY DEF Item
  <2> HIDE DEF I, J, out, in, left
  <2>3. left = {} <=> I = {} /\ J = {}
    <3>1. A = {} <=> I = {}
      BY <2>2
    <3>2. B = {} <=> J = {}
      BY <2>2
    <3> HIDE DEF A, B
    <3>3. QED  BY <2>1, <3>1, <3>2
  <2>4. QED  BY <2>3 DEF I, J
<1>3. P \subseteq (1..n) \X (1..m) /\ Downward(P) /\ \A p \in P : s[p[1]] = t[p[2]]
  <2> HIDE DEF s, t
  <2>1. Texts2(s, t)
    BY <1>1 DEF Texts2
  <2>2. QED  BY <1>1, <2>1, MatchedPairs DEF Pairs
<1>4. ASSUME left = {} PROVE n = m /\ P = {<<k, k>> : k \in 1..n}
  <2>1. (\A i \in 1..n : \E p \in P : p[1] = i) /\ \A j \in 1..m : \E p \in P : p[2] = j
    BY <1>2, <1>4
  <2>2. Complete(n, m, P)
    BY <1>3, <2>1 DEF Complete
  <2> HIDE DEF P, n, m
  <2>3. QED  BY <1>1, <2>2, AllPaired
<1>5. ASSUME left = {} PROVE \A k \in 1..n : old[k].id = new[k].id
  <2>1. n = m /\ P = {<<k, k>> : k \in 1..n}
    BY <1>4, <1>5
  <2> HIDE DEF P, n, m
  <2>2. ASSUME NEW k \in 1..n PROVE s[k] = t[k]
    <3> DEFINE p == <<k, k>>
    <3>1. p \in P /\ p[1] = k /\ p[2] = k
      BY <2>1
    <3> HIDE DEF p, s, t
    <3>2. s[p[1]] = t[p[2]]
      BY <1>3, <3>1
    <3>3. QED  BY <3>1, <3>2
  <2>3. QED  BY <2>1, <2>2 DEF n, m
<1>6. ASSUME n = m, \A k \in 1..n : old[k].id = new[k].id PROVE left = {}
  <2>1. s = t
    BY <1>6
  <2>2. P = {<<k, k>> : k \in 1..n}
    <3> HIDE DEF s, t
    <3>1. QED  BY <1>1, <2>1, MatchedSame
  <2>3. {p[1] : p \in P} = 1..n /\ {p[2] : p \in P} = 1..n
    <3> HIDE DEF P, n
    <3>1. ASSUME NEW k \in 1..n PROVE k \in {p[1] : p \in P} /\ k \in {p[2] : p \in P}
      <4> DEFINE p == <<k, k>>
      <4>1. p \in P /\ p[1] = k /\ p[2] = k
        BY <2>2
      <4> HIDE DEF p
      <4>2. QED  BY <4>1
    <3>2. ASSUME NEW p \in P PROVE p[1] \in 1..n /\ p[2] \in 1..n
      BY <2>2
    <3>3. QED  BY <3>1, <3>2
  <2> HIDE DEF P
  <2>4. QED  BY <1>2, <1>6, <2>3
<1>7. QED  BY <1>1, <1>4, <1>5, <1>6

LEMMA ParamsSame ==
  ASSUME NEW p, NEW q, Mapping(p), Mapping(q), NEW where
  PROVE  CompareParams(p, q, where) = {} <=> p = q
<1>1. \A kind, scope, w : Item(kind, scope, w) # {}
  BY DEF Item
<1>2. CompareParams(p, q, where) = {}
        <=> \A k \in DOMAIN p \cup DOMAIN q : k \in DOMAIN p /\ k \in DOMAIN q /\ p[k] = q[k]
  BY <1>1 DEF CompareParams
<1>3. QED  BY <1>2 DEF Mapping

\* Steps as a branch has them.
BranchSteps(s) == ValidSteps(s) /\ Mapping(s) /\ \A i \in DOMAIN s : Plain(s[i])

LEMMA BranchStepsSame ==
  ASSUME NEW old, NEW new, BranchSteps(old), BranchSteps(new), NEW where
  PROVE  CompareBranchSteps(old, new, where) = {} <=> old = new
<1>1. Listed2(old) /\ Listed2(new)
  BY SeqFacts DEF BranchSteps, ValidSteps, Listed2
<1>2. ASSUME NEW k \in DOMAIN old, k \in DOMAIN new, NEW w
      PROVE  CompareParams(old[k].params, new[k].params, w) = {} <=> old[k].params = new[k].params
  <2>1. Mapping(old[k].params) /\ Mapping(new[k].params)
    BY <1>2 DEF BranchSteps, ValidSteps
  <2>2. QED  BY <2>1, ParamsSame
<1> DEFINE n == Len(old)
           w(k) == Append(where, ToString(k))
           diff(k) == CompareParams(old[k].params, new[k].params, w(k))
<1>3. DOMAIN old = 1..n /\ DOMAIN new = 1..Len(new)
  BY <1>1 DEF Listed2
<1>4. ASSUME UnalignedSteps(old, new, where) = {}
      PROVE  /\ CompareBranchSteps(old, new, where) = {} <=> \A k \in 1..n : diff(k) = {}
             /\ n = Len(new) /\ \A k \in 1..n : old[k].id = new[k].id
  <2> DEFINE Q == AlignedSteps(old, new)
             both(p) == CompareParams(old[p[1]].params, new[p[2]].params, Append(where, ToString(p[2])))
  <2>1. Q = {<<k, k>> : k \in 1..n} /\ n = Len(new) /\ \A k \in 1..n : old[k].id = new[k].id
    BY <1>1, <1>4, StepsAligned
  <2>2. CompareBranchSteps(old, new, where) = UNION {both(p) : p \in Q}
    BY <1>4 DEF CompareBranchSteps
  <2>3. \A k : both(<<k, k>>) = diff(k)
    OBVIOUS
  <2> HIDE DEF Q, both, diff, n
  <2>4. UNION {both(p) : p \in Q} = {} <=> \A p \in Q : both(p) = {}
    OBVIOUS
  <2>5. (\A p \in Q : both(p) = {}) <=> \A k \in 1..n : diff(k) = {}
    <3>1. ASSUME \A p \in Q : both(p) = {}, NEW k \in 1..n PROVE diff(k) = {}
      BY <2>1, <2>3, <3>1
    <3>2. ASSUME \A k \in 1..n : diff(k) = {}, NEW p \in Q PROVE both(p) = {}
      BY <2>1, <2>3, <3>2
    <3>3. QED  BY <3>1, <3>2
  <2>6. QED  BY <2>1, <2>2, <2>4, <2>5
<1>5. ASSUME CompareBranchSteps(old, new, where) = {} PROVE old = new
  <2>1. UnalignedSteps(old, new, where) = {}
    BY <1>5 DEF CompareBranchSteps
  <2>2. /\ \A k \in 1..n : diff(k) = {}
        /\ n = Len(new) /\ \A k \in 1..n : old[k].id = new[k].id
    BY <1>4, <1>5, <2>1
  <2>3. \A k \in 1..n : old[k].params = new[k].params
    <3> HIDE DEF n, w
    <3>1. QED  BY <1>2, <1>3, <2>2
  <2> HIDE DEF n
  <2>4. \A k \in 1..n : old[k] = new[k]
    <3>1. \A k \in 1..n : Plain(old[k]) /\ Plain(new[k])
      BY <1>3, <2>2 DEF BranchSteps
    <3>2. QED  BY <2>2, <2>3, <3>1 DEF Plain
  <2>5. QED  BY <1>3, <2>2, <2>4 DEF BranchSteps, Mapping
<1>6. ASSUME old = new PROVE CompareBranchSteps(old, new, where) = {}
  <2>1. UnalignedSteps(old, new, where) = {}
    BY <1>1, <1>6, StepsAligned
  <2>2. \A k \in 1..n : diff(k) = {}
    <3> HIDE DEF n, w
    <3>1. QED  BY <1>2, <1>3, <1>6
  <2> HIDE DEF n, diff
  <2>3. QED  BY <1>4, <2>1, <2>2
<1>7. QED  BY <1>5, <1>6

\* Branches of one policy.
Branches2(bs) ==
  /\ Listed2(bs) /\ \A i, j \in DOMAIN bs : bs[i].name = bs[j].name => i = j
  /\ \A i \in DOMAIN bs : BranchLoaded(bs[i]) /\ BranchSteps(bs[i].steps)

LEMMA BranchesSame ==
  ASSUME NEW old, NEW new, Branches2(old), Branches2(new), NEW where
  PROVE  CompareBranches(old, new, where) = {} <=> ToSet(old) = ToSet(new)
<1> DEFINE named(s, n) == CHOOSE i \in DOMAIN s : s[i].name = n
           before == {old[i].name : i \in DOMAIN old}
           after  == {new[i].name : i \in DOMAIN new}
           both(n) == LET o == old[named(old, n)] m == new[named(new, n)]
                      IN  (IF o.retries # m.retries THEN Item("changed", "branch", Append(where, n)) ELSE {})
                          \cup CompareBranchSteps(o.steps, m.steps, Append(where, n))
<1>1. \A kind, scope, w : Item(kind, scope, w) # {}
  BY DEF Item
<1>2. CompareBranches(old, new, where) = {}
        <=> before = after /\ \A n \in before : both(n) = {}
  <2>1. CompareBranches(old, new, where)
          = (UNION {Item("removed", "branch", Append(where, n)) : n \in before \ after})
              \cup (UNION {Item("added", "branch", Append(where, n)) : n \in after \ before})
              \cup (UNION {both(n) : n \in before \cap after})
    BY DEF CompareBranches
  <2> DEFINE all == CompareBranches(old, new, where)
             out(n) == Item("removed", "branch", Append(where, n))
             in(n) == Item("added", "branch", Append(where, n))
             I == before \ after
             J == after \ before
             K == before \cap after
             A == UNION {out(n) : n \in I}
             B == UNION {in(n) : n \in J}
             C == UNION {both(n) : n \in K}
  <2>2. (\A n : out(n) # {}) /\ \A n : in(n) # {}
    BY <1>1
  <2>3. all = A \cup B \cup C
    BY <2>1
  <2> HIDE DEF before, after, both, all, out, in
  <2>4. (A = {} <=> I = {}) /\ (B = {} <=> J = {}) /\ (C = {} <=> \A n \in K : both(n) = {})
    <3> HIDE DEF I, J, K
    <3>1. A = {} <=> I = {}
      BY <2>2
    <3>2. B = {} <=> J = {}
      BY <2>2
    <3>3. C = {} <=> \A n \in K : both(n) = {}
      OBVIOUS
    <3>4. QED  BY <3>1, <3>2, <3>3
  <2> HIDE DEF A, B, C
  <2>5. QED  BY <2>3, <2>4 DEF all
<1>3. (\A i \in DOMAIN old : named(old, old[i].name) = i)
      /\ (\A i \in DOMAIN new : named(new, new[i].name) = i)
  BY DEF Branches2
<1>4. ASSUME NEW i \in DOMAIN old, NEW j \in DOMAIN new, old[i].name = new[j].name
      PROVE  both(old[i].name) = {} <=> old[i] = new[j]
  <2> DEFINE n == old[i].name
             w == Append(where, n)
  <2>1. named(old, n) = i /\ named(new, n) = j
    BY <1>3, <1>4
  <2> HIDE DEF named
  <2>2. both(n) = (IF old[i].retries # new[j].retries THEN Item("changed", "branch", w) ELSE {})
                    \cup CompareBranchSteps(old[i].steps, new[j].steps, w)
    BY <2>1
  <2> HIDE DEF both, n, w
  <2>3. CompareBranchSteps(old[i].steps, new[j].steps, w) = {} <=> old[i].steps = new[j].steps
    BY BranchStepsSame DEF Branches2
  <2>4. both(n) = {} <=> old[i].retries = new[j].retries /\ old[i].steps = new[j].steps
    BY <1>1, <2>2, <2>3
  <2>5. /\ Mapping(old[i]) /\ DOMAIN old[i] = {"name", "retries", "steps"}
        /\ Mapping(new[j]) /\ DOMAIN new[j] = {"name", "retries", "steps"}
    BY DEF Branches2, BranchLoaded
  <2>6. QED  BY <1>4, <2>4, <2>5 DEF Mapping, n
<1> HIDE DEF both, named
<1>5. ASSUME before = after, \A n \in before : both(n) = {} PROVE ToSet(old) = ToSet(new)
  <2>1. ASSUME NEW i \in DOMAIN old PROVE \E j \in DOMAIN new : new[j] = old[i]
    <3>1. PICK j \in DOMAIN new : new[j].name = old[i].name
      BY <1>5
    <3>2. QED  BY <1>4, <1>5, <3>1
  <2>2. ASSUME NEW j \in DOMAIN new PROVE \E i \in DOMAIN old : new[j] = old[i]
    <3>1. PICK i \in DOMAIN old : new[j].name = old[i].name
      BY <1>5
    <3>2. QED  BY <1>4, <1>5, <3>1
  <2>3. QED  BY <2>1, <2>2 DEF ToSet
<1>6. ASSUME ToSet(old) = ToSet(new) PROVE before = after /\ \A n \in before : both(n) = {}
  <2>1. \A i \in DOMAIN old : \E j \in DOMAIN new : new[j] = old[i]
    BY <1>6 DEF ToSet
  <2>2. \A j \in DOMAIN new : \E i \in DOMAIN old : new[j] = old[i]
    BY <1>6 DEF ToSet
  <2>3. before = after
    BY <2>1, <2>2
  <2>4. ASSUME NEW i \in DOMAIN old PROVE both(old[i].name) = {}
    <3>1. PICK j \in DOMAIN new : new[j] = old[i]
      BY <2>1
    <3>2. old[i].name = new[j].name
      BY <3>1
    <3>3. QED  BY <1>4, <3>1, <3>2
  <2>5. QED  BY <2>3, <2>4
<1>7. QED  BY <1>2, <1>5, <1>6

-----------------------------------------------------------------------------
\* A policy as it is loaded, and what the summary tells apart in it.
Policy2(p) == PolicyLoaded(p) /\ Branches2(p.branches)
Told(p) == [p EXCEPT !.branches = ToSet(@)]

LEMMA GoodPolicy ==
  ASSUME NEW p, PolicyLoaded(p), ValidPolicy(p)
  PROVE  Policy2(p)
<1>1. Listed2(p.branches)
  BY SeqFacts DEF ValidPolicy, Listed2
<1>2. \A i, j \in DOMAIN p.branches : p.branches[i].name = p.branches[j].name => i = j
  BY DEF ValidPolicy, Distinct
<1>3. ASSUME NEW i \in DOMAIN p.branches
      PROVE  BranchLoaded(p.branches[i]) /\ BranchSteps(p.branches[i].steps)
  BY DEF PolicyLoaded, BranchLoaded, ValidPolicy, ValidBranch, BranchSteps
<1>4. QED  BY <1>1, <1>2, <1>3 DEF Policy2, Branches2

LEMMA DefaultIsGood == Policy2(DefaultPolicy)
<1>1. DefaultPolicy.branches = <<>> /\ Len(<<>>) = 0 /\ DOMAIN <<>> = 1..0 /\ 1..0 = {}
  BY DEF DefaultPolicy
<1>2. Mapping(DefaultPolicy) /\ Mapping(<<>>)
  BY DEF DefaultPolicy, Mapping
<1>3. QED  BY <1>1, <1>2 DEF Policy2, PolicyLoaded, Branches2, Listed2

LEMMA ToldFields ==
  ASSUME NEW p, NEW q, Policy2(p), Policy2(q)
  PROVE  /\ Told(p) = Told(q) <=> /\ p.retries = q.retries /\ p.then = q.then
                                  /\ ToSet(p.branches) = ToSet(q.branches)
         /\ p = q <=> p.retries = q.retries /\ p.then = q.then /\ p.branches = q.branches
         /\ ToSet(p.branches) = {} <=> p.branches = <<>>
<1>1. /\ Mapping(p) /\ DOMAIN p = {"retries", "branches", "then"}
      /\ Mapping(q) /\ DOMAIN q = {"retries", "branches", "then"}
  BY PolicyFieldNames DEF Policy2, PolicyLoaded
<1>2. Told(p) = Told(q) <=> /\ p.retries = q.retries /\ p.then = q.then
                            /\ ToSet(p.branches) = ToSet(q.branches)
  <2>1. /\ Told(p) = [k \in {"retries", "branches", "then"} |-> IF k = "branches" THEN ToSet(p.branches) ELSE p[k]]
        /\ Told(q) = [k \in {"retries", "branches", "then"} |-> IF k = "branches" THEN ToSet(q.branches) ELSE q[k]]
    BY <1>1 DEF Told
  <2>2. QED  BY <2>1
<1>3. p = q <=> p.retries = q.retries /\ p.then = q.then /\ p.branches = q.branches
  BY <1>1 DEF Mapping
<1>4. ToSet(p.branches) = {} <=> p.branches = <<>>
  <2>1. Mapping(p.branches) /\ DOMAIN p.branches = 1..Len(p.branches) /\ Len(p.branches) \in Nat
    BY DEF Policy2, PolicyLoaded, Branches2, Listed2
  <2>2. ToSet(p.branches) = {} => DOMAIN p.branches = {}
    BY DEF ToSet
  <2>3. p.branches = <<>> => ToSet(p.branches) = {}
    BY DEF ToSet
  <2>4. DOMAIN p.branches = {} => p.branches = <<>>
    <3>1. Mapping(<<>>) /\ DOMAIN <<>> = {}
      BY DEF Mapping
    <3>2. QED  BY <2>1, <3>1 DEF Mapping
  <2>5. QED  BY <2>2, <2>3, <2>4
<1>5. QED  BY <1>2, <1>3, <1>4

(* No policy but the default one is told to be the default.                 *)
LEMMA ToldDefault ==
  ASSUME NEW p, Policy2(p), Told(p) = Told(DefaultPolicy)
  PROVE  p = DefaultPolicy
<1>1. ToSet(DefaultPolicy.branches) = {}
  BY DEF DefaultPolicy, ToSet
<1>2. DefaultPolicy.branches = <<>>
  BY DEF DefaultPolicy
<1>3. QED  BY <1>1, <1>2, DefaultIsGood, ToldFields

\* An optional policy.
Own2(o) == o = <<>> \/ (o = <<o[1]>> /\ Policy2(o[1]))
Effective(o) == IF o = <<>> THEN DefaultPolicy ELSE o[1]

LEMMA PolicySame ==
  ASSUME NEW old, NEW new, Own2(old), Own2(new), NEW where
  PROVE  CompareFailurePolicy(old, new, where) = {} <=> Told(Effective(old)) = Told(Effective(new))
<1> DEFINE o == Effective(old)
           n == Effective(new)
           D == DefaultPolicy
           diff == CompareBranches(o.branches, n.branches, where)
           all == CompareFailurePolicy(old, new, where)
<1>1. Policy2(o) /\ Policy2(n)
  BY DefaultIsGood DEF Effective, Own2
<1>2. \A kind, scope, w : Item(kind, scope, w) # {}
  BY DEF Item
<1>3. all = {} <=> /\ ~(o = D /\ n # D /\ n.branches = <<>>)
                   /\ ~(o # D /\ n = D /\ o.branches = <<>>)
                   /\ ~(o # D /\ n # D /\ o.retries # n.retries)
                   /\ ~(o # D /\ n # D /\ o.then # n.then)
                   /\ (o # D \/ n # D) => diff = {}
  <2> HIDE DEF D
  <2>1. all = (IF ~(o # D) /\ n # D /\ n.branches = <<>> THEN Item("added", "policy", where) ELSE {})
      \cup (IF o # D /\ ~(n # D) /\ o.branches = <<>> THEN Item("removed", "policy", where) ELSE {})
      \cup (IF o # D /\ n # D /\ o.retries # n.retries
            THEN Item("changed", "policy", Append(where, "retries")) ELSE {})
      \cup (IF o # D /\ n # D /\ o.then # n.then
            THEN Item("changed", "policy", Append(where, "then")) ELSE {})
      \cup (IF o # D \/ n # D THEN diff ELSE {})
    BY DEF CompareFailurePolicy, Effective, D
  <2> HIDE DEF o, n, diff, all
  <2>2. QED  BY <1>2, <2>1
<1>4. diff = {} <=> ToSet(o.branches) = ToSet(n.branches)
  <2> HIDE DEF o, n
  <2>1. QED  BY <1>1, BranchesSame DEF Policy2
<1>5. D.branches = <<>> /\ ToSet(<<>>) = {} /\ Policy2(D)
  BY DefaultIsGood DEF DefaultPolicy, ToSet
<1> HIDE DEF o, n, diff, all, D
<1>6. all = {} <=> Told(o) = Told(n)
  <2>1. CASE o = D /\ n = D
    BY <1>3, <2>1
  <2>2. CASE o = D /\ n # D
    <3>1. Told(o) # Told(n)
      BY <1>1, <2>2, ToldDefault DEF D
    <3>2. all # {}
      <4>1. ToSet(n.branches) = {} <=> n.branches = <<>>
        BY <1>1, <1>5, ToldFields
      <4>2. QED  BY <1>3, <1>4, <1>5, <2>2, <4>1
    <3>3. QED  BY <3>1, <3>2
  <2>3. CASE o # D /\ n = D
    <3>1. Told(o) # Told(n)
      BY <1>1, <2>3, ToldDefault DEF D
    <3>2. all # {}
      <4>1. ToSet(o.branches) = {} <=> o.branches = <<>>
        BY <1>1, <1>5, ToldFields
      <4>2. QED  BY <1>3, <1>4, <1>5, <2>3, <4>1
    <3>3. QED  BY <3>1, <3>2
  <2>4. CASE o # D /\ n # D
    BY <1>1, <1>3, <1>4, <2>4, ToldFields
  <2>5. QED  BY <2>1, <2>2, <2>3, <2>4
<1>7. QED  BY <1>6 DEF all, o, n

-----------------------------------------------------------------------------
\* A step as it is loaded, and what the summary tells apart in it.
Step2(s) == s = [id |-> s.id, params |-> s.params, own |-> s.own] /\ Own2(s.own) /\ Mapping(s.params)
ToldStep(s) == [SameStep(s) EXCEPT !.own = Each(Told, @)]

LEMMA StepTold ==
  ASSUME NEW s, Step2(s)
  PROVE  ToldStep(s) = [id |-> s.id, params |-> s.params,
                        own |-> IF Effective(s.own) = DefaultPolicy THEN <<>>
                                ELSE <<Told(Effective(s.own))>>]
<1>1. DOMAIN s = {"id", "params", "own"}
  BY DEF Step2
<1>2. Each(Told, <<>>) = <<>>
  BY DEF Each
<1>3. \A p : Each(Told, <<p>>) = <<Told(p)>>
  <2> TAKE p
  <2>1. DOMAIN <<p>> = {1} /\ <<p>>[1] = p
    OBVIOUS
  <2>2. QED  BY <2>1 DEF Each
<1>4. CASE s.own = <<>>
  <2>1. SameStep(s) = s
    <3>1. <<>> # <<DefaultPolicy>>
      OBVIOUS
    <3>2. QED  BY <1>4, <3>1 DEF SameStep
  <2>2. ToldStep(s) = [s EXCEPT !.own = <<>>]
    BY <1>2, <1>4, <2>1 DEF ToldStep
  <2>3. Effective(s.own) = DefaultPolicy
    BY <1>4 DEF Effective
  <2>4. QED  BY <1>1, <2>2, <2>3
<1>5. CASE s.own # <<>>
  <2>1. s.own = <<s.own[1]>> /\ Effective(s.own) = s.own[1]
    BY <1>5 DEF Step2, Own2, Effective
  <2>2. CASE s.own[1] = DefaultPolicy
    <3>1. SameStep(s) = [s EXCEPT !.own = <<>>]
      BY <2>1, <2>2 DEF SameStep
    <3>2. SameStep(s).own = <<>> /\ DOMAIN SameStep(s) = {"id", "params", "own"}
          /\ SameStep(s).id = s.id /\ SameStep(s).params = s.params
      BY <1>1, <3>1
    <3> DEFINE t == SameStep(s)
    <3> HIDE DEF t
    <3>3. ToldStep(s) = [t EXCEPT !.own = <<>>]
      BY <1>2, <3>2 DEF ToldStep, t
    <3>4. QED  BY <2>1, <2>2, <3>2, <3>3 DEF t
  <2>3. CASE s.own[1] # DefaultPolicy
    <3>1. s.own # <<DefaultPolicy>>
      <4>1. <<DefaultPolicy>>[1] = DefaultPolicy
        OBVIOUS
      <4>2. QED  BY <2>3, <4>1
    <3>2. SameStep(s) = s
      BY <3>1 DEF SameStep
    <3>3. Each(Told, s.own) = <<Told(s.own[1])>>
      BY <1>3, <2>1
    <3>4. ToldStep(s) = [s EXCEPT !.own = <<Told(s.own[1])>>]
      BY <3>2, <3>3 DEF ToldStep
    <3>5. QED  BY <1>1, <2>1, <2>3, <3>4
  <2>4. QED  BY <2>2, <2>3
<1>6. QED  BY <1>4, <1>5

LEMMA StepSame ==
  ASSUME NEW s, NEW t, Step2(s), Step2(t), s.id = t.id, NEW where
  PROVE  CompareStep(s, t, where) = {} <=> ToldStep(s) = ToldStep(t)
<1> DEFINE o == Effective(s.own)
           n == Effective(t.own)
           told(p) == IF p = DefaultPolicy THEN <<>> ELSE <<Told(p)>>
<1>1. CompareParams(s.params, t.params, where) = {} <=> s.params = t.params
  BY ParamsSame DEF Step2
<1>2. CompareFailurePolicy(s.own, t.own, where) = {} <=> Told(o) = Told(n)
  BY PolicySame DEF Step2
<1>3. Policy2(o) /\ Policy2(n)
  BY DefaultIsGood DEF Step2, Own2, Effective
<1> HIDE DEF o, n
<1>4. told(o) = told(n) <=> Told(o) = Told(n)
  <2>1. \A x : <<x>> # <<>> /\ <<x>>[1] = x
    OBVIOUS
  <2>2. CASE o = DefaultPolicy
    <3>1. n = DefaultPolicy <=> Told(o) = Told(n)
      BY <1>3, <2>2, ToldDefault
    <3>2. QED  BY <2>1, <2>2, <3>1
  <2>3. CASE n = DefaultPolicy
    <3>1. o = DefaultPolicy <=> Told(o) = Told(n)
      BY <1>3, <2>3, ToldDefault
    <3>2. QED  BY <2>1, <2>3, <3>1
  <2>4. CASE o # DefaultPolicy /\ n # DefaultPolicy
    BY <2>1, <2>4
  <2>5. QED  BY <2>2, <2>3, <2>4
<1>5. /\ ToldStep(s) = [id |-> s.id, params |-> s.params, own |-> told(o)]
      /\ ToldStep(t) = [id |-> t.id, params |-> t.params, own |-> told(n)]
  BY StepTold DEF o, n
<1> HIDE DEF told
<1>6. ToldStep(s) = ToldStep(t) <=> s.params = t.params /\ told(o) = told(n)
  BY <1>5
<1>7. QED  BY <1>1, <1>2, <1>4, <1>6 DEF CompareStep

-----------------------------------------------------------------------------
Steps2(s) == Listed2(s) /\ Mapping(s) /\ \A k \in DOMAIN s : Step2(s[k])

LEMMA StepsSame ==
  ASSUME NEW old, NEW new, Steps2(old), Steps2(new), NEW where
  PROVE  CompareSteps(old, new, where) = {} <=> Each(ToldStep, old) = Each(ToldStep, new)
<1> DEFINE n == Len(old)
           w(k) == Append(where, ToString(k))
           diff(k) == CompareStep(old[k], new[k], w(k))
<1>1. Listed2(old) /\ Listed2(new) /\ DOMAIN old = 1..n /\ DOMAIN new = 1..Len(new)
  BY DEF Steps2, Listed2
<1>2. ASSUME NEW k \in DOMAIN old, k \in DOMAIN new, old[k].id = new[k].id
      PROVE  diff(k) = {} <=> ToldStep(old[k]) = ToldStep(new[k])
  <2> DEFINE at == w(k)
  <2> HIDE DEF at
  <2>1. CompareStep(old[k], new[k], at) = {} <=> ToldStep(old[k]) = ToldStep(new[k])
    BY <1>2, StepSame DEF Steps2
  <2>2. QED  BY <2>1 DEF at
<1>3. ASSUME NEW k \in DOMAIN old, k \in DOMAIN new, ToldStep(old[k]) = ToldStep(new[k])
      PROVE  old[k].id = new[k].id
  <2>1. ToldStep(old[k]).id = old[k].id /\ ToldStep(new[k]).id = new[k].id
    BY <1>3, StepTold DEF Steps2
  <2>2. QED  BY <1>3, <2>1
<1>4. ASSUME UnalignedSteps(old, new, where) = {}
      PROVE  /\ CompareSteps(old, new, where) = {} <=> \A k \in 1..n : diff(k) = {}
             /\ n = Len(new) /\ \A k \in 1..n : old[k].id = new[k].id
  <2> DEFINE Q == AlignedSteps(old, new)
  <2>1. Q = {<<k, k>> : k \in 1..n} /\ n = Len(new) /\ \A k \in 1..n : old[k].id = new[k].id
    <3>1. /\ AlignedSteps(old, new) = {<<k, k>> : k \in 1..Len(old)}
          /\ Len(old) = Len(new) /\ \A k \in 1..Len(old) : old[k].id = new[k].id
      <4>1. Listed2(old) /\ Listed2(new)
        BY <1>1
      <4> DEFINE left == UnalignedSteps(old, new, where)
      <4>2. /\ left = {} => Len(old) = Len(new) /\ \A k \in 1..Len(old) : old[k].id = new[k].id
            /\ left = {} => AlignedSteps(old, new) = {<<k, k>> : k \in 1..Len(old)}
        BY <4>1, StepsAligned
      <4>3. left = {}
        BY <1>4
      <4> HIDE DEF left
      <4>4. QED  BY <4>2, <4>3
    <3>2. QED  BY <3>1
  <2> DEFINE both(p) == CompareStep(old[p[1]], new[p[2]], Append(where, ToString(p[2])))
  <2>2. CompareSteps(old, new, where) = UNION {both(p) : p \in Q}
    BY <1>4 DEF CompareSteps
  <2>3. \A k : both(<<k, k>>) = diff(k)
    OBVIOUS
  <2> HIDE DEF Q, both, diff, n
  <2>4. UNION {both(p) : p \in Q} = {} <=> \A p \in Q : both(p) = {}
    OBVIOUS
  <2>5. (\A p \in Q : both(p) = {}) <=> \A k \in 1..n : diff(k) = {}
    <3>1. ASSUME \A p \in Q : both(p) = {}, NEW k \in 1..n PROVE diff(k) = {}
      BY <2>1, <2>3, <3>1
    <3>2. ASSUME \A k \in 1..n : diff(k) = {}, NEW p \in Q PROVE both(p) = {}
      BY <2>1, <2>3, <3>2
    <3>3. QED  BY <3>1, <3>2
  <2>6. QED  BY <2>1, <2>2, <2>4, <2>5
<1>5. /\ Each(ToldStep, old) = [k \in 1..n |-> ToldStep(old[k])]
      /\ Each(ToldStep, new) = [k \in 1..Len(new) |-> ToldStep(new[k])]
  BY <1>1 DEF Each
<1> HIDE DEF diff, n, w
<1>6. ASSUME CompareSteps(old, new, where) = {} PROVE Each(ToldStep, old) = Each(ToldStep, new)
  <2>1. UnalignedSteps(old, new, where) = {}
    BY <1>6 DEF CompareSteps
  <2>2. /\ \A k \in 1..n : diff(k) = {}
        /\ n = Len(new) /\ \A k \in 1..n : old[k].id = new[k].id
    BY <1>4, <1>6, <2>1
  <2>3. \A k \in 1..n : ToldStep(old[k]) = ToldStep(new[k])
    BY <1>1, <1>2, <2>2
  <2>4. QED  BY <1>5, <2>2, <2>3
<1>7. ASSUME Each(ToldStep, old) = Each(ToldStep, new) PROVE CompareSteps(old, new, where) = {}
  <2> DEFINE f == Each(ToldStep, old)
             g == Each(ToldStep, new)
  <2>1. DOMAIN f = 1..n /\ DOMAIN g = 1..Len(new) /\ n \in Nat /\ Len(new) \in Nat
        /\ (\A k \in 1..n : f[k] = ToldStep(old[k])) /\ \A k \in 1..Len(new) : g[k] = ToldStep(new[k])
    BY <1>1, <1>5 DEF Listed2, n
  <2>2. n = Len(new)
    <3>1. 1..n = 1..Len(new)
      BY <1>7, <2>1
    <3>2. QED  BY <2>1, <3>1
  <2>3. \A k \in 1..n : ToldStep(old[k]) = ToldStep(new[k])
    <3> HIDE DEF f, g
    <3>1. f = g
      BY <1>7 DEF f, g
    <3>2. QED  BY <2>1, <2>2, <3>1
  <2>4. \A k \in 1..n : old[k].id = new[k].id
    BY <1>1, <1>3, <2>2, <2>3
  <2>5. UnalignedSteps(old, new, where) = {}
    BY <1>1, <2>2, <2>4, StepsAligned DEF n
  <2>6. \A k \in 1..n : diff(k) = {}
    BY <1>1, <1>2, <2>2, <2>3, <2>4
  <2>7. QED  BY <1>4, <2>5, <2>6
<1>8. QED  BY <1>6, <1>7

LEMMA TriggerSame ==
  ASSUME NEW o, NEW n, Mapping(o), Mapping(n)
  PROVE  CompareTrigger(o, n) = {} <=> o = n
<1>1. \A k : Item("changed", "trigger", <<k>>) # {}
  BY DEF Item
<1>2. CompareTrigger(o, n) = {}
        <=> \A k \in DOMAIN o \cup DOMAIN n : k \in DOMAIN o \cap DOMAIN n /\ o[k] = n[k]
  BY <1>1 DEF CompareTrigger
<1>3. QED  BY <1>2 DEF Mapping

-----------------------------------------------------------------------------
(* A book as the summary sees it.                                           *)
Book2(b) ==
  /\ Mapping(b)
  /\ DOMAIN b = {"name", "trigger", "steps", "description", "dedup", "engine", "on_failure", "meta"}
  /\ Steps2(b.steps) /\ Mapping(b.trigger) /\ Policy2(b.on_failure)

LEMMA GoodBook ==
  ASSUME NEW d, Loads(d)
  PROVE  Book2(LoadBook(d))
<1> DEFINE b == LoadBook(d)
<1>1. ValidBook(b) /\ BookLoaded(b)
  BY LoadedBook DEF Loads
<1> HIDE DEF b
<1>2. Listed2(b.steps) /\ \A k \in DOMAIN b.steps : k # 0
  <2>1. b.steps \in Seq(ToSet(b.steps))
    BY <1>1 DEF ValidBook, ValidSteps
  <2> DEFINE S == ToSet(b.steps)
  <2> HIDE DEF S
  <2>2. b.steps \in Seq(S)
    BY <2>1 DEF S
  <2>3. Len(b.steps) \in Nat /\ DOMAIN b.steps = 1..Len(b.steps)
    BY <2>2
  <2>4. QED  BY <2>3 DEF Listed2
<1>3. ASSUME NEW k \in DOMAIN b.steps PROVE Step2(b.steps[k])
  <2> DEFINE s == b.steps[k]
  <2>1. StepLoaded(s) /\ Mapping(s.params)
    BY <1>1 DEF BookLoaded, ValidBook, ValidSteps
  <2>2. s.own # <<>> => ValidPolicy(s.own[1])
    BY <1>1, <1>2 DEF ValidBook, Scopes, PolicyIn
  <2> HIDE DEF s
  <2>3. Step2(s)
    <3>1. CASE Plain(s)
      BY <2>1, <3>1 DEF Plain, Step2, Own2
    <3>2. CASE s = [id |-> s.id, params |-> s.params, own |-> <<s.own[1]>>] /\ PolicyLoaded(s.own[1])
      <4>1. s.own = <<s.own[1]>>
        BY <3>2
      <4>2. s.own # <<>>
        BY <4>1
      <4>3. Policy2(s.own[1])
        BY <2>2, <3>2, <4>2, GoodPolicy
      <4>4. s = [id |-> s.id, params |-> s.params, own |-> s.own]
        BY <3>2
      <4>5. QED  BY <2>1, <4>1, <4>3, <4>4 DEF Step2, Own2
    <3>3. QED  BY <2>1, <3>1, <3>2 DEF StepLoaded
  <2>4. QED  BY <2>3 DEF s
<1>4. Policy2(b.on_failure)
  <2>1. ValidPolicy(b.on_failure) /\ PolicyLoaded(b.on_failure)
    BY <1>1 DEF ValidBook, BookLoaded, Scopes, PolicyIn
  <2>2. QED  BY <2>1, GoodPolicy
<1>5. QED  BY <1>1, <1>2, <1>3, <1>4, BookFieldNames
      DEF Book2, BookLoaded, Steps2, TriggerLoaded, b

LEMMA BookTold ==
  ASSUME NEW b, Book2(b)
  PROVE  Unordered(b) = [name |-> b.name, trigger |-> b.trigger, steps |-> Each(ToldStep, b.steps),
                         description |-> b.description, dedup |-> b.dedup, engine |-> b.engine,
                         on_failure |-> Told(b.on_failure), meta |-> <<>>]
<1> DEFINE step(s) == [s EXCEPT !.own = Each(Told, @)]
           c == Same(b)
           F == {"name", "trigger", "steps", "description", "dedup", "engine", "on_failure", "meta"}
<1>1. /\ Mapping(c) /\ DOMAIN c = F /\ c.steps = Each(SameStep, b.steps) /\ c.meta = <<>>
      /\ \A k \in F \ {"steps", "meta"} : c[k] = b[k]
  BY DEF Same, Book2, Mapping
<1>2. Unordered(b) = [c EXCEPT !.steps = Each(step, @), !.on_failure = Told(@)]
  BY DEF Unordered, Told
<1>3. Each(step, Each(SameStep, b.steps)) = Each(ToldStep, b.steps)
  BY DEF Each, ToldStep
<1> HIDE DEF c, step
<1>4. QED  BY <1>1, <1>2, <1>3

LEMMA BookSame ==
  ASSUME NEW b, NEW c, Book2(b), Book2(c)
  PROVE  SummarizeChanges(b, c) = {} <=> Unordered(b) = Unordered(c)
<1> DEFINE keys == {"name", "description", "engine", "dedup"}
           K == UNION {IF b[k] # c[k] THEN Item("changed", "pipeline", <<k>>) ELSE {} : k \in keys}
           T == CompareTrigger(b.trigger, c.trigger)
           S == CompareSteps(b.steps, c.steps, <<"steps">>)
           P == CompareFailurePolicy(<<b.on_failure>>, <<c.on_failure>>, <<"on_failure">>)
<1>1. SummarizeChanges(b, c) = K \cup T \cup S \cup P
  BY DEF SummarizeChanges
<1>2. K = {} <=> \A k \in keys : b[k] = c[k]
  <2>1. \A k : Item("changed", "pipeline", <<k>>) # {}
    BY DEF Item
  <2>2. QED  BY <2>1
<1>3. T = {} <=> b.trigger = c.trigger
  BY TriggerSame DEF Book2
<1>4. S = {} <=> Each(ToldStep, b.steps) = Each(ToldStep, c.steps)
  <2> DEFINE where == <<"steps">>
  <2> HIDE DEF where
  <2>1. CompareSteps(b.steps, c.steps, where) = {}
          <=> Each(ToldStep, b.steps) = Each(ToldStep, c.steps)
    BY StepsSame DEF Book2
  <2>2. QED  BY <2>1 DEF where
<1>5. P = {} <=> Told(b.on_failure) = Told(c.on_failure)
  <2> DEFINE o == <<b.on_failure>>
             n == <<c.on_failure>>
             where == <<"on_failure">>
  <2>1. o # <<>> /\ o[1] = b.on_failure /\ n # <<>> /\ n[1] = c.on_failure
    OBVIOUS
  <2>2. Own2(o) /\ Own2(n)
    BY DEF Own2, Book2
  <2>3. Effective(o) = b.on_failure /\ Effective(n) = c.on_failure
    BY <2>1 DEF Effective
  <2> HIDE DEF o, n, where
  <2>4. CompareFailurePolicy(o, n, where) = {} <=> Told(Effective(o)) = Told(Effective(n))
    BY <2>2, PolicySame
  <2>5. QED  BY <2>3, <2>4 DEF o, n, where
<1> HIDE DEF K, T, S, P
<1>6. SummarizeChanges(b, c) = {} <=> K = {} /\ T = {} /\ S = {} /\ P = {}
  BY <1>1
<1> DEFINE u == Each(ToldStep, b.steps)
           v == Each(ToldStep, c.steps)
           p == Told(b.on_failure)
           q == Told(c.on_failure)
<1>7. /\ Unordered(b) = [name |-> b.name, trigger |-> b.trigger, steps |-> u,
                         description |-> b.description, dedup |-> b.dedup, engine |-> b.engine,
                         on_failure |-> p, meta |-> <<>>]
      /\ Unordered(c) = [name |-> c.name, trigger |-> c.trigger, steps |-> v,
                         description |-> c.description, dedup |-> c.dedup, engine |-> c.engine,
                         on_failure |-> q, meta |-> <<>>]
  BY BookTold
<1> HIDE DEF u, v, p, q
<1>8. Unordered(b) = Unordered(c)
        <=> (\A k \in keys : b[k] = c[k]) /\ b.trigger = c.trigger /\ u = v /\ p = q
  BY <1>7
<1>9. QED  BY <1>2, <1>3, <1>4, <1>5, <1>6, <1>8 DEF u, v, p, q

LEMMA PageTells == ASSUME NEW old, NEW new PROVE Tells(old, new)
<1>1. SUFFICES ASSUME DiffPage(old, new).says = "summary"
               PROVE  DiffPage(old, new).items = {} <=> Unordered(LoadBook(old)) = Unordered(LoadBook(new))
  BY DEF Tells
<1>2. /\ Loads(old) /\ Loads(new)
      /\ DiffPage(old, new).items = SummarizeChanges(LoadBook(old), LoadBook(new))
  BY <1>1 DEF DiffPage
<1>3. Book2(LoadBook(old)) /\ Book2(LoadBook(new))
  BY <1>2, GoodBook
<1>4. QED  BY <1>2, <1>3, BookSame

(* The change summary of the diff page is empty exactly if two versions     *)
(* differ in nothing but the order of branches within a policy, for every   *)
(* pair of playbook texts that load, whatever their size.                   *)
THEOREM TheSummaryTells == Spec => SummaryTellsAll
<1>1. \A old, new : Tells(old, new)
  BY PageTells
<1>2. Stored(Tells)
  BY <1>1 DEF Stored
<1>3. QED  BY <1>2, PTL DEF SummaryTellsAll, Spec
=============================================================================
