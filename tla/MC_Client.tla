----------------------------- MODULE MC_Client -----------------------------
EXTENDS Client
=============================================================================
