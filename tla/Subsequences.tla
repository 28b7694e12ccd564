------------------------------ MODULE Subsequences ------------------------------
(***************************************************************************)
(* Lists that a loop builds from another list by passing over entries.     *)
(***************************************************************************)
EXTENDS Integers, Sequences, FiniteSets

(* The entries of a list at some of its positions, in their order: the only  *)
(* member of this set.                                                       *)
EntriesAt(list, positions) ==
  {[n \in DOMAIN pick |-> list[pick[n]]] :
     pick \in {p \in [1 .. Cardinality(positions) -> positions] :
       /\ \A m, n \in DOMAIN p : m < n => p[m] < p[n]
       /\ \A k \in positions : \E n \in DOMAIN p : p[n] = k}}
=================================================================================
