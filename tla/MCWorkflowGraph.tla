-------------------------- MODULE MCWorkflowGraph --------------------------
EXTENDS WorkflowGraph

MCIds == 1 .. 4
MCSubmittedIds == {1, 2, 3}
MCGenerated == [i \in 1 .. MaxItems |-> i + 1]
=============================================================================
