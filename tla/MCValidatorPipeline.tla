-------------------------- MODULE MCValidatorPipeline --------------------------
(***************************************************************************)
(* Messages of which the first two carry the same transaction.             *)
(***************************************************************************)
EXTENDS ValidatorPipelineProperties

CONSTANTS q1, q2, q3, q4, t1, t2, t3

MCTxOf == [r \in Request |-> CASE r = q3 -> t2 [] r = q4 -> t3 [] OTHER -> t1]
=============================================================================
