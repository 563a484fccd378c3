------------------------ MODULE MCDaemonConnections ------------------------
\* Clients are model values that the configuration names.
EXTENDS DaemonConnections
=============================================================================
