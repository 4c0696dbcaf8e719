------------------------------ MODULE MC_Desk ------------------------------
EXTENDS Desk
=============================================================================
