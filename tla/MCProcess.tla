------------------------------ MODULE MCProcess ------------------------------
(***************************************************************************)
(* Process with a readiness probe and one gRPC request.                    *)
(***************************************************************************)
EXTENDS Process

CONSTANTS probe, g1
=============================================================================
