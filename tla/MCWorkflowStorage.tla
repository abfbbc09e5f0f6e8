-------------------------- MODULE MCWorkflowStorage --------------------------
(* WorkflowStorage with the constants of its cfg files.                    *)
EXTENDS WorkflowStorage, TLC

LOCAL INSTANCE SequencesExt

CONSTANTS w1, w2, w3, p1, p2

MCWorkflow == {w1, w2}
ThreeWorkflows == {w1, w2, w3}
Both == {p1, p2}
Only1 == {p1}
Only2 == {p2}

WorkflowSymmetry == Permutations(MCWorkflow)

\* LRem is SequencesExt's Remove.
ASSUME LRemIsRemove ==
  \A list \in UNION {[1..n -> 0..2] : n \in 0..5} :
    \A x \in 0..2 : LRem(list, x) = Remove(list, x)
=============================================================================
