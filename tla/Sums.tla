-------------------------------- MODULE Sums --------------------------------
(***************************************************************************)
(* The sum of the first n values of a function on 1..n, and the sequences  *)
(* that are its first n values joined.  Written as recursive functions so  *)
(* that the modules that use them can be proved about; SumsProofs holds    *)
(* the facts the proofs need.                                              *)
(***************************************************************************)
EXTENDS Integers, Sequences

SumTo(f, n) ==
    LET prefix[i \in 0..n] == IF i = 0 THEN 0 ELSE prefix[i-1] + f[i]
    IN  prefix[n]

JoinTo(f, n) ==
    LET prefix[i \in 0..n] == IF i = 0 THEN <<>> ELSE prefix[i-1] \o f[i]
    IN  prefix[n]
=============================================================================
