------------------------------- MODULE MCLab -------------------------------
(* Two versions of one playbook: in the first two steps fall back on the    *)
(* playbook's branch, in the second is one step with a retry and none, and  *)
(* what is used up is skipped.                                              *)
EXTENDS Lab

Step(retries, branches, then) == [retries |-> retries, branches |-> branches, then |-> then]
Common == Step(1, <<[name |-> "common", retries |-> 0]>>, "mark_failed")
Own == Step(1, <<>>, "skip")

TwoVersions ==
  [v \in {"v1", "v2"} |->
     [pipeline |-> "p", steps |-> IF v = "v1" THEN <<Common, Common>> ELSE <<Own>>]]
=============================================================================
