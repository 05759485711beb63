---------------------------- MODULE MCEntryLifecycle ----------------------------
\* Two entries that share nothing but the view; the .cfg says whose device has the
\* notification host setting.
EXTENDS EntryLifecycle
================================================================================
