------------------------------ MODULE MCPollCycle ------------------------------
\* A small instance of PollCycle: an events coordinator with a camera event and storage.
EXTENDS PollCycle, TLC

CONSTANTS motion, disks

EventsKind == motion :> "camera" @@ disks :> "storage"
================================================================================
