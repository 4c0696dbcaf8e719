---------------------------- MODULE MC_Transfer ----------------------------
EXTENDS Transfer
=============================================================================
