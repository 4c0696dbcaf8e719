---------------------------- MODULE MC_EventCore ----------------------------
EXTENDS EventCore
=============================================================================
