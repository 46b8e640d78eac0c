-------------------------- MODULE MCBearerWitness --------------------------
(* Instances of the witness.  For its counters: a connect with two racing    *)
(* dials, a connect with one dial, and a question.  For its runs: one         *)
(* question, which can be asked again and again.                             *)
EXTENDS BearerWitness, TLC

CONSTANTS d1, d2, d3, q1

MCPaths == {1}
TallySerial == d1 :> 1 @@ d2 :> 1 @@ d3 :> 2 @@ q1 :> 0
QuestionSerial == q1 :> 0
============================================================================
