---------------------------- MODULE MCEventEntities ----------------------------
\* A recorder with two proxied inputs, and with no or two analog ones before them.
EXTENDS EventEntities, TLC

MCPorts == 1..2
MCAnalogInputs == {0, 2}
================================================================================
