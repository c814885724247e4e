--------------------------- MODULE MCConnectionSM ---------------------------
\* Instances of ConnectionSM for TLC.
EXTENDS ConnectionSM

WithAndWithout == {0, 1}
=============================================================================
