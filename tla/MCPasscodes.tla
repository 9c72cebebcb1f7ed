----------------------------- MODULE MCPasscodes -----------------------------
\* Small instances of Passcodes for TLC.
EXTENDS Passcodes, TLC

Symmetry == Permutations(Requests)
=============================================================================
