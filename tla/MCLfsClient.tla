---------------------------- MODULE MCLfsClient ----------------------------
EXTENDS LfsClient, TLC

\* The calling goroutines are interchangeable.
MCSymmetry == Permutations(Procs)
====
