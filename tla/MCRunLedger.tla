---------------------------- MODULE MCRunLedger -----------------------------
(* Small instances of the run ledger: one or two nodes, of which the first *)
(* or both are entries.  The processes are interchangeable.                *)
EXTENDS RunLedger, TLC

OneNode == {1}
TwoNodes == {1, 2}

ProcSymmetry == Permutations(Procs)
=============================================================================
