------------------------------ MODULE MC_C2S ------------------------------
EXTENDS C2S
=============================================================================
