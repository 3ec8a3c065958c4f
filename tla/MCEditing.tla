----------------------------- MODULE MCEditing -----------------------------
EXTENDS Editing

OnlyHeadless == {"headless"}
TheSteps == [x \in {"noop", "export", "shell.run"} |-> [engines |-> OnlyHeadless, keys |-> {"to"}]]

Noop == TextStep("noop")
Manual == [type |-> "manual", path |-> "in"]
TheStripped == ("in " :> "in") @@ (" " :> "") @@ ("note " :> "note")
Fallback == [name |-> "b", steps |-> <<Noop>>]

\* A pipeline whose own policy has a recovery branch, and one step without.
TheFirst == [name |-> "p", trigger |-> Manual, steps |-> <<PairStep("export", [to |-> 1])>>,
             on_failure |-> [branches |-> <<Fallback>>]]
\* The same playbook written out in full; one whose step has its own policy and
\* whose metadata names the second version as its parent, even if it is that one.
InFull == [TheFirst EXCEPT !.steps = <<LongStep([id |-> "export", params |-> [to |-> 1]])>>]
OwnPolicy == [name |-> "p", description |-> <<"note ">>,
              trigger |-> [type |-> "folder_watch", path |-> "in ", glob |-> " ", settle_seconds |-> 5],
              steps |-> <<Noop, LongStep([id |-> "export", params |-> [to |-> 2],
                                          on_failure |-> [retries |-> 1, then |-> "skip"]])>>,
              meta |-> <<2>>]
TheTexts == {InFull, OwnPolicy}
TheStarter == LoadBook([name |-> "q", trigger |-> Manual, steps |-> <<Noop>>])
TheAdvice == {LoadBranch(Fallback)}
TheTyped == [names |-> {"q"}, ids |-> {"noop"}, params |-> {[to |-> 2]}, branches |-> {"b"}]
=============================================================================
