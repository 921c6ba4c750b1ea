------------------------------ MODULE MCMonoFS ------------------------------
(* Model-checking instance of MonoFS; the requests a run admits, and the   *)
(* bounds, are chosen in its .cfg.                                         *)
EXTENDS MonoFS

\* Threads, names and handles are interchangeable model values.
MCSymmetry == Permutations(Threads) \cup Permutations(Names) \cup Permutations(Files)
==============================================================================
