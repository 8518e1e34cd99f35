------------------------------ MODULE MCEngine ------------------------------
(***************************************************************************)
(* Instances of WorkflowEngine for TLC: who makes which call.              *)
(***************************************************************************)
EXTENDS WorkflowEngine

CONSTANTS run1, run2, cancel1, cancel2, resume1, resume2, recover1, recover2,
          register1, w1, w2

\* The calls of run2, recover2, cancel2 and register1 are those of w2 when there
\* is such an engine.
MCEngineOf == [c \in Calls |->
    IF w2 \in Workers /\ c \in {run2, recover2, cancel2} THEN w2 ELSE w1]

MCKind == [c \in Calls |->
    CASE c \in {run1, run2} -> "run"
      [] c \in {cancel1, cancel2} -> "cancel"
      [] c \in {resume1, resume2} -> "resume"
      [] c \in {recover1, recover2} -> "recover"
      [] OTHER -> "register"]

\* Both resumes name the first step.
MCTarget == [c \in Calls |-> 0]

AllSteps == Steps
NoTimeout == {}
=============================================================================
