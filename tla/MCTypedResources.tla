-------------------------- MODULE MCTypedResources --------------------------
(***************************************************************************)
(* Two contexts; two allocations, so that copies cross contexts; an event  *)
(* and a stream; a module with a function.                                 *)
(***************************************************************************)
EXTENDS TypedResources, FiniteSets, TLC

CONSTANTS c1, c2, m1, m2, e1, s1, mod, fun

MCKind == [r \in Resources |-> CASE r \in {m1, m2} -> "memory"
                                 [] r = e1 -> "event"
                                 [] r = s1 -> "stream"
                                 [] r = mod -> "module"
                                 [] r = fun -> "function"]
MCSizes == 0..2

\* Bound: objects leaked at once.  Each of the five may be, in either context.
MaxLeaked == 2
FewLeaked == Cardinality({r \in Resources : ~Held(r) /\ alive[r] # NoContext}) <= MaxLeaked

Symmetry == Permutations({c1, c2}) \cup Permutations({m1, m2})
=============================================================================
