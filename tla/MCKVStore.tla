------------------------------ MODULE MCKVStore ------------------------------
(* Model-checking instance of KVStore: two keys, two values, a log of a    *)
(* few records; which threads, operations, write outcomes and crashes are  *)
(* present is chosen per run in the .cfg.                                  *)
EXTENDS KVStore

MCKeys == {1, 2}

\* Readers and writers are interchangeable model values; values are only
\* compared for equality.
MCSymmetry == Permutations(Readers) \cup Permutations(Writers) \cup Permutations(Vals)
==============================================================================
