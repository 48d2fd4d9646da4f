----------------------------- MODULE MCFrpcClient -----------------------------
(* An instance of FrpcClient for TLC: more calls than packet ids.             *)
EXTENDS FrpcClient
=============================================================================
