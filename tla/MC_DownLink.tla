---------------------------- MODULE MC_DownLink ----------------------------
EXTENDS DownLink
=============================================================================
