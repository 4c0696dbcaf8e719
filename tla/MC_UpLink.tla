----------------------------- MODULE MC_UpLink -----------------------------
EXTENDS UpLink
=============================================================================
