------------------------------- MODULE MCSnapshot -------------------------------
\* One camera card, or two, showing the streams of a device.
EXTENDS Snapshot

CONSTANTS card1, card2, stream1, stream2
================================================================================
