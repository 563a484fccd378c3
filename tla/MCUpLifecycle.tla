--------------------------- MODULE MCUpLifecycle ---------------------------
EXTENDS UpLifecycle
\* The sessions; one command at a time uses s1 only.
CONSTANTS s1, s2
=============================================================================
