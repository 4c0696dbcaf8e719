----------------------------- MODULE MC_Stream -----------------------------
EXTENDS Stream
=============================================================================
