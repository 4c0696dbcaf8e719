--------------------------- MODULE MC_Messenger ---------------------------
EXTENDS Messenger, TLC

\* The model treats all users alike.
Sym == Permutations(Users)

\* sm is one process that reads its packets in order: whether it handles one
\* now or later shows only in when its own packets arrive, which smOut leaves
\* open.  So it may as well handle each at once.
SmFirst == smIn # <<>> => smIn' = Tail(smIn)

\* Bound: a packet overtakes the first or last event of a session only as the first
\* thing that goes astray.
OneOvertakes == astray # {} => ~\E s \in DOMAIN sess : Overtake(s)
=============================================================================
