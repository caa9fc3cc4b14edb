------------------------------ MODULE MCHGraph ------------------------------
(* HGraph on small instances, one configuration for each question.           *)
EXTENDS HGraph

CONSTANT v1
=============================================================================
