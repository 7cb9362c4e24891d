---------------------------- MODULE MCWorkflowRun ----------------------------
(* WorkflowRun for TLC: a step that depends on another. *)
EXTENDS WorkflowRun

CONSTANTS a, b, p1, p2

MCDeps == [s \in Steps |-> IF s = b THEN {a} ELSE {}]
=============================================================================
