-------------------------- MODULE MCDaemonLifecycle --------------------------
EXTENDS DaemonLifecycle
=============================================================================
