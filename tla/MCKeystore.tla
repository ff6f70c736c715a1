----------------------------- MODULE MCKeystore -----------------------------
EXTENDS Keystore, TLC

\* Two processes race for an identity in one home; the registries of two homes
\* lie in each other's directory, and a third home shares one of them.  Three more
\* processes have everything in one directory: where one of them is, flock does not
\* work, and another may not open the .lock file.
HomeOfEach == "a" :> 1 @@ "b" :> 2 @@ "c" :> 3 @@ "d" :> 1 @@ "e" :> 4 @@ "f" :> 4 @@ "g" :> 4
RingOfRegistries == 1 :> 2 @@ 2 :> 1 @@ 3 :> 2 @@ 4 :> 4
TwoCannotLock == (Writers \X Directories) \ {<<"f", 4>>, <<"g", 4>>}
OneIsDenied == {<<"g", 4>>}

\* In a behaviour the four that lock call once, or of the others two twice, or one
\* of them and the one that is denied.
Settled(budget) == {[links |-> l, budget |-> budget] : l \in BOOLEAN}
Together == Settled([w \in Writers |-> IF w \in {"a", "b", "c", "d"} THEN 1 ELSE 0])
Unlocked == Settled([w \in Writers |-> IF w \in {"e", "f"} THEN 2 ELSE 0])
WithDenied == Settled([w \in Writers |-> IF w \in {"e", "g"} THEN 2 ELSE 0])
AllSettings == Together \cup Unlocked \cup WithDenied

OneName == [w \in Writers |-> "town-operator"]
==============================================================================
