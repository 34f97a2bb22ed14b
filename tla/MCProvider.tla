----------------------------- MODULE MCProvider -----------------------------
(* A small instance of the provider adapters. *)
EXTENDS Provider
=============================================================================
