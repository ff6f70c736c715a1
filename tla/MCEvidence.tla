----------------------------- MODULE MCEvidence -----------------------------
EXTENDS Evidence, TLC

TwoMirrors == <<"mirror-a", "mirror-b">>
\* Two records stand for the five, one copied before the manifest and one after it.
TwoRecords == <<"events", "result">>
InOrder == <<"attestation", "events", "manifest", "receipt", "result">>
AnyCopier == Permutations(Copiers)
=============================================================================
