---------------------------- MODULE MCStoredFiles ----------------------------
\* The attempts are those of the code.
EXTENDS StoredFiles, TLC

MCMaxAttempts == 3

Symmetry == Permutations(Uploads)
=============================================================================
