--------------------------- MODULE MCWorkflowTasks ---------------------------
(* Small instances of WorkflowTasks for TLC. *)
EXTENDS WorkflowTasks, TLC

\* Workers, people and keys are interchangeable, and so are tasks.
Symmetric ==
    Permutations(Tasks) \union Permutations(Workers)
        \union Permutations(Keys) \union Permutations(Humans)
=============================================================================
