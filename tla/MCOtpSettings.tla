---------------------------- MODULE MCOtpSettings ----------------------------
\* Small instances of OtpSettings for TLC.
EXTENDS OtpSettings, TLC

Symmetry == Permutations(Requests)
=============================================================================
