--------------------------- MODULE MCOtpChallenges ---------------------------
\* Small instances of OtpChallenges for TLC.
EXTENDS OtpChallenges, TLC

Symmetry == Permutations(Rows) \cup Permutations(Codes) \cup Permutations(Requests)
=============================================================================
