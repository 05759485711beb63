------------------------------ MODULE MCConfigFlow ------------------------------
\* Two flows at a time, three entries in turn, two devices.
EXTENDS ConfigFlow, TLC

Symmetry == Permutations(Flows) \union Permutations(Entries) \union Permutations(Devices)
================================================================================
