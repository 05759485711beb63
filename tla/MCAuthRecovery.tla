----------------------------- MODULE MCAuthRecovery -----------------------------
\* The coordinators of an entry: the events coordinator, with or without the
\* secondary one.
EXTENDS AuthRecovery

CONSTANTS events, secondary
================================================================================
