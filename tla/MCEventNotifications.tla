-------------------------- MODULE MCEventNotifications --------------------------
\* Devices behind one or two addresses, configured by names or by their addresses.
EXTENDS EventNotifications, TLC

CONSTANTS h1, h2, a1, a2

NetworkSymmetry == Permutations(Hosts) \union Permutations(Addresses)
================================================================================
