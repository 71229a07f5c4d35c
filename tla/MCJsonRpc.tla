----------------------------- MODULE MCJsonRpc ------------------------------
(* Small instances of JsonRpc.                                              *)
EXTENDS JsonRpc

=============================================================================
