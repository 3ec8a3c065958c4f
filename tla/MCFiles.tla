------------------------------ MODULE MCFiles ------------------------------
(* Two tasks whose playbooks publish under one name.                        *)
EXTENDS Files

Job(kind, mode, direct) == [kind |-> kind, mode |-> mode, direct |-> direct]
Move == Job("move", "suffix", TRUE)
Export == Job("export", "fail", FALSE)
Renew == Job("move", "replace", FALSE)
Pairs == {<<Move, Move>>, <<Export, Renew>>}
=============================================================================
