------------------------------ MODULE MCSessions ------------------------------
(* Sessions with a few goroutines and sessions.                             *)
EXTENDS Sessions, TLC

\* Goroutines are interchangeable, and so are the keys that logins make.
ProcKeySymmetry == Permutations(Procs) \cup Permutations(Keys)

=============================================================================
