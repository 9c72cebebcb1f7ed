------------------------------ MODULE MCQrLogin ------------------------------
\* Small instances of QrLogin for TLC.
EXTENDS QrLogin, TLC

Symmetry == Permutations(Codes) \cup Permutations(Requests)
=============================================================================
