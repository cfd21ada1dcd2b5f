------------------------------ MODULE MCDeploy ------------------------------
(***************************************************************************)
(* Small instances of Deploy for TLC.                                      *)
(***************************************************************************)
EXTENDS Deploy, TLC

CONSTANTS r1, r2, r3

NoOthers == {}
Other(k, s) == [kind |-> k, commit |-> 0, signed |-> s]
MCOthers == {Other("branch", TRUE), Other("ping", TRUE), Other("ping", FALSE),
             Other("garbled", TRUE)}

(* Runs are interchangeable unless an operator starts one of them.         *)
Symmetry == Permutations(Runs \ DirectRuns)
=============================================================================
