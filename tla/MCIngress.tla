----------------------------- MODULE MCIngress -----------------------------
(* Small instances of the ingress. *)
EXTENDS Ingress

CONSTANTS k1, k2
=============================================================================
