---------------------------- MODULE MCResolver ----------------------------
(* Small instances of Resolver: the callers are interchangeable.           *)
EXTENDS Resolver, TLC

CallerSymmetry == Permutations(Callers)
=============================================================================
