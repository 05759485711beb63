--------------------------- MODULE MCStreamDiscovery ---------------------------
\* Two cameras, those of a recorder or channels of one device: the second is
\* where a rejection of the first one's optional streams would show.
EXTENDS StreamDiscovery
================================================================================
