------------------------------ MODULE MCRunner ------------------------------
(* Playbooks for the instances of Runner. *)
EXTENDS Runner, TLC

(* Two steps with different ids: the first has a policy and a branch of its *)
(* own, the second the playbook's default, which skips.                     *)
TwoSteps ==
  [steps |-> <<[id |-> "convert", on_failure |->
                  [retries |-> 1, branches |-> <<[branch |-> "headless", retries |-> 0]>>,
                   then |-> "mark_failed"]],
               [id |-> "export", on_failure |-> NoPolicy]>>,
   on_failure |-> [retries |-> 0, branches |-> <<[branch |-> "fallback", retries |-> 0]>>,
                   then |-> "skip"]]

(* A step that retries and has a branch, and one that is skipped at once. *)
RetryAndSkip ==
  [steps |-> <<[id |-> "convert", on_failure |->
                  [retries |-> 1, branches |-> <<[branch |-> "headless", retries |-> 0]>>,
                   then |-> "mark_failed"]],
               [id |-> "export", on_failure |-> NoPolicy]>>,
   on_failure |-> [retries |-> 0, branches |-> <<>>, then |-> "skip"]]

(* One step with one branch. *)
OneStep ==
  [steps |-> <<[id |-> "convert", on_failure |-> NoPolicy]>>,
   on_failure |-> [retries |-> 0, branches |-> <<[branch |-> "fallback", retries |-> 0]>>,
                   then |-> "mark_failed"]]
=============================================================================
