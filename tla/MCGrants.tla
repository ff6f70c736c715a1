------------------------------ MODULE MCGrants ------------------------------
EXTENDS Grants, TLC

\* A narrow grant, a wide one, and one that does not let its holder in.
NarrowAndWide == {{"join"}, {"join", "send"}, {"send"}}
\* Clients are alike.
ClientSymmetry == Permutations(Clients)
==============================================================================
