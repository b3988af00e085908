----------------------------- MODULE MCRateLimit -----------------------------
(* A user and an address, each a client of its own, and three threads that *)
(* are interchangeable.                                                    *)
EXTENDS RateLimit, TLC

CONSTANTS ann, nat, th1, th2, th3

Symmetry == Permutations(Threads)
=============================================================================
