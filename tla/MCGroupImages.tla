---------------------------- MODULE MCGroupImages ----------------------------
\* The attempts are those of the code.
EXTENDS GroupImages

MCMaxAttempts == 3
=============================================================================
