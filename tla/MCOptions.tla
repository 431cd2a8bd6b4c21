---------------------------- MODULE MCOptions ----------------------------
EXTENDS Options, TLC

\* a file and a subdirectory, which StatDir(dir, true) lists as "sub/"
MCFileOrder == <<"a", "sub/">>

\* Callers are interchangeable goroutines.
MCSymmetry == Permutations(Callers)
====
