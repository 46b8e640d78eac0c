--------------------------- MODULE MCDefaultPath ---------------------------
(* One physical path that comes and goes, and one question asked again and   *)
(* again.                                                                    *)
EXTENDS DefaultPath, TLC

CONSTANT q1

MCPaths == {1}
QuestionSerial == q1 :> 0
============================================================================
