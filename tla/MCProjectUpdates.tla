-------------------------- MODULE MCProjectUpdates --------------------------
EXTENDS ProjectUpdates, TLC

\* Two subscribers to one channel, one to the other.
MCRecipients == [email |-> {1, 2}, push |-> {1}]
Symmetry == Permutations(Admins) \union Permutations(Processes)
=============================================================================
