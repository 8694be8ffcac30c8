------------------------------- MODULE Totals -------------------------------
(* What amounts add up to, by counting their units.  A sum by recursion    *)
(* could be evaluated, but nothing could be proved about it.               *)
EXTENDS Integers, FiniteSets

\* Every unit of the amounts f, told apart by its owner and its number.
Units(f) == UNION {{x} \X (1 .. f[x]) : x \in DOMAIN f}

\* n is the sum of the amounts f, of which finitely many are not zero.
IsTotal(n, f) == IsFiniteSet(Units(f)) /\ n = Cardinality(Units(f))
=============================================================================
