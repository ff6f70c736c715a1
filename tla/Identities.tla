------------------------------ MODULE Identities ------------------------------
(***************************************************************************)
(* What a keystore promises (the docstring of identity_portable.Keystore): *)
(* a name gets one controller key, once and for ever; a registry only      *)
(* gains entries; and an identity is handed out only when its key exists   *)
(* and its registry lists it.  Keystore implements it with files and locks.*)
(***************************************************************************)
CONSTANTS
  Writers,       \* the processes that ask for an identity
  Paths,         \* the names, each in its home
  Registries,
  Keys,
  Nobody,        \* no key
  PathOf,        \* [Writers -> Paths]
  RegistryOf     \* [Writers -> Registries]

VARIABLES
  key,           \* [Paths -> Keys \cup {Nobody}]
  registered,    \* [Registries -> SUBSET Keys]
  answer         \* [Writers -> Keys \cup {Nobody}], the last identity handed out

vars == <<key, registered, answer>>

Init ==
  /\ key = [p \in Paths |-> Nobody]
  /\ registered = [r \in Registries |-> {}]
  /\ answer = [w \in Writers |-> Nobody]

Create(w) ==
  /\ key[PathOf[w]] = Nobody
  /\ \E k \in Keys : key' = [key EXCEPT ![PathOf[w]] = k]
  /\ UNCHANGED <<registered, answer>>

Register(w) ==
  /\ key[PathOf[w]] # Nobody
  /\ registered' = [registered EXCEPT ![RegistryOf[w]] = @ \cup {key[PathOf[w]]}]
  /\ UNCHANGED <<key, answer>>

Answer(w) ==
  /\ key[PathOf[w]] \in registered[RegistryOf[w]]
  /\ answer' = [answer EXCEPT ![w] = key[PathOf[w]]]
  /\ UNCHANGED <<key, registered>>

Next == \E w \in Writers : Create(w) \/ Register(w) \/ Answer(w)

Spec == Init /\ [][Next]_vars
=============================================================================
