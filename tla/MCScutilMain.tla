---------------------------- MODULE MCScutilMain ----------------------------
EXTENDS ScutilMain

\* atoi() of a number and of a word that is not one.
MCTimeoutArgs == {30, 0}

=============================================================================
