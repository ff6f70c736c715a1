--------------------------- MODULE EvidenceProofs ---------------------------
(***************************************************************************)
(* What arrives at an address is whole and stays, for any copiers, mirrors *)
(* and records, and any number of deaths and damages.                      *)
(***************************************************************************)
EXTENDS Evidence, TLAPS

\* The damage done is a number.
DamageCounts == damaged \in Nat

-----------------------------------------------------------------------------
(* Nothing but damage changes what is in place.                            *)

\* Putting files at a place leaves the others as they are.
LEMMA OthersKept ==
  ASSUME NEW place, NEW files, Put(place, files)
  PROVE  /\ DOMAIN disk' = DOMAIN disk \cup {place}
         /\ disk'[place] = files
         /\ \A other \in DOMAIN disk : other # place => disk'[other] = disk[other]
BY DEF Put, With

Kept == \A place \in DOMAIN disk \ {Source} :
          place \in DOMAIN disk' /\ disk'[place] = disk[place]

\* What is put at the source or where nothing is disturbs no other bundle.
LEMMA PutElsewhere ==
  ASSUME NEW place, NEW files, Put(place, files), place = Source \/ ~Exists(place)
  PROVE  Kept
BY OthersKept DEF Kept, Exists

\* Every step but Damage keeps the bundles in place.
LEMMA KeptStep ==
  ASSUME DamageCounts, [EvidenceNext]_evidence
  PROVE  DamageCounts' /\ (damaged' = damaged => Kept)
<1>1. CASE UNCHANGED <<disk, damaged>>
  BY <1>1 DEF Kept, DamageCounts
<1>2. CASE WriteHalf
  BY <1>2, PutElsewhere DEF WriteHalf, DamageCounts
<1>3. CASE WriteReceipt
  BY <1>3, PutElsewhere DEF WriteReceipt, DamageCounts
<1>4. ASSUME NEW p \in Copiers, Rename(p)
      PROVE  DamageCounts' /\ Kept
  <2>1. CASE Exists(copier[p].to)
    BY <1>4, <2>1 DEF Rename, Kept, DamageCounts
  <2>2. CASE ~Exists(copier[p].to)
    BY <1>4, <2>2, PutElsewhere DEF Rename, DamageCounts
  <2> QED BY <2>1, <2>2
<1>5. ASSUME NEW place \in Places, Damage(place)
      PROVE  DamageCounts' /\ damaged' # damaged
  BY <1>5 DEF Damage, DamageCounts
<1>6. CASE \/ SignReceipt \/ WriterDies \/ ClerkDies
  BY <1>1, <1>6 DEF SignReceipt, WriterDies, ClerkDies
<1>7. ASSUME NEW p \in Copiers, CopierSteps(p), ~Rename(p)
      PROVE  UNCHANGED <<disk, damaged>>
  BY <1>7 DEF CopierSteps, BeginMirror, BeginRecover, CompareExisting, TryMirror, NoMirrorLeft,
              CopyFile, CheckCopy, SeeIfVacant, CopierDies
<1>8. CASE UNCHANGED evidence
  BY <1>1, <1>8 DEF evidence
<1> QED
  BY <1>1, <1>2, <1>3, <1>4, <1>5, <1>6, <1>7, <1>8 DEF EvidenceNext, CopierSteps

\* mirror.py: a destination that exists is left unchanged.
THEOREM BundlesStay == EvidenceSpec => LeftUnchanged
<1>1. EvidenceInit => DamageCounts
  BY DEF EvidenceInit, DamageCounts
<1>2. DamageCounts /\ [EvidenceNext]_evidence => DamageCounts'
  BY KeptStep
<1>3. EvidenceSpec => []DamageCounts
  BY <1>1, <1>2, PTL DEF EvidenceSpec
<1>4. DamageCounts /\ [EvidenceNext]_evidence =>
        [damaged' = damaged => Kept]_evidence
  BY KeptStep
<1> QED BY <1>3, <1>4, PTL DEF EvidenceSpec, LeftUnchanged, Kept

-----------------------------------------------------------------------------
(* What appears is whole: a copier is about to place only what it checked. *)

Fields == {"at", "op", "from", "to", "left", "files", "staged", "sound"}
CopiersHaveState == DOMAIN copier = Copiers /\ \A p \in Copiers : DOMAIN copier[p] = Fields

WholeBundle(files) == Intact(files) /\ files["manifest"] = Run
Checked(c) == c.at \in {"placing", "renaming"} => WholeBundle(c.staged)
StagedIsWhole == CopiersHaveState /\ \A p \in Copiers : Checked(copier[p])

\* A step of one copier to a state that is fit keeps the invariant.
LEMMA OneMoves ==
  ASSUME StagedIsWhole, NEW p \in Copiers, NEW c, Become(p, c), DOMAIN c = Fields, Checked(c)
  PROVE  StagedIsWhole'
<1>1. DOMAIN copier' = Copiers
  BY DEF StagedIsWhole, CopiersHaveState, Become
<1>2. copier'[p] = c /\ \A q \in Copiers : q # p => copier'[q] = copier[q]
  BY DEF StagedIsWhole, CopiersHaveState, Become
<1>3. DOMAIN copier'[p] = Fields /\ Checked(copier'[p])
  BY <1>2
<1>4. \A q \in Copiers : DOMAIN copier'[q] = Fields /\ Checked(copier'[q])
  BY <1>2, <1>3 DEF StagedIsWhole, CopiersHaveState
<1> QED BY <1>1, <1>4 DEF StagedIsWhole, CopiersHaveState, Checked, WholeBundle, Intact, AgreesIfThere

\* The states a copier moves to, but for the two in which it holds a checked copy.
LEMMA Moves ==
  ASSUME NEW c, DOMAIN c = Fields, NEW from, NEW to, NEW step
  PROVE  /\ DOMAIN Idle = Fields /\ Idle.at = "idle"
         /\ DOMAIN Rejected(c) = Fields /\ Rejected(c).at \in {"choosing", "failed"}
         /\ DOMAIN Copying(c, from, to) = Fields /\ Copying(c, from, to).at = "copying"
         /\ DOMAIN [c EXCEPT !.at = step] = Fields /\ [c EXCEPT !.at = step].at = step
         /\ [c EXCEPT !.at = step].staged = c.staged
<1>1. DOMAIN Idle = Fields /\ Idle.at = "idle"
  BY DEF Idle, Fields
<1>2. /\ DOMAIN [c EXCEPT !.at = step] = Fields /\ [c EXCEPT !.at = step].at = step
      /\ [c EXCEPT !.at = step].staged = c.staged
  BY DEF Fields
<1>3. DOMAIN Copying(c, from, to) = Fields /\ Copying(c, from, to).at = "copying"
  BY DEF Copying, Fields
<1>4. DOMAIN Rejected(c) = Fields /\ Rejected(c).at \in {"choosing", "failed"}
  BY <1>1 DEF Rejected, Idle, Fields
<1> QED BY <1>1, <1>2, <1>3, <1>4

\* The report is none of the files that are checked.
LEMMA ReportAside ==
  ASSUME NEW files, Validate(files, Run)
  PROVE  WholeBundle(With(files, "report", Run))
<1>1. "report" \notin Records
  BY EvidenceAssumption DEF Records, Range
<1> QED BY <1>1 DEF Validate, Verifies, WholeBundle, Intact, AgreesIfThere, With

\* Every step keeps what is staged for placing whole.
LEMMA StagedStep ==
  ASSUME StagedIsWhole, [EvidenceNext]_evidence
  PROVE  StagedIsWhole'
<1>1. CASE UNCHANGED copier
  BY <1>1 DEF StagedIsWhole, CopiersHaveState, Checked, WholeBundle, Intact, AgreesIfThere
<1>2. ASSUME NEW p \in Copiers, CopierSteps(p)
      PROVE  StagedIsWhole'
  <2> DEFINE c == copier[p]
  <2>1. DOMAIN c = Fields /\ Checked(c)
    BY DEF StagedIsWhole, CopiersHaveState
  <2>2. CASE BeginRecover(p)
    <3> DEFINE d == [c EXCEPT !.op = "recover", !.left = Mirrors,
                              !.sound = {m \in Range(Mirrors) : Sound(m) /\ ~Exists(Out)}]
               e == [d EXCEPT !.at = IF Exists(Out) THEN "failed" ELSE "choosing"]
    <3>1. DOMAIN d = Fields
      BY <2>1
    <3>2. DOMAIN e = Fields /\ e.at \in {"failed", "choosing"}
      <4> HIDE DEF d
      <4> QED BY <3>1, Moves
    <3>3. Become(p, e)
      BY <2>2 DEF BeginRecover
    <3> HIDE DEF e
    <3> QED BY <3>2, <3>3, OneMoves DEF Checked
  <2>3. ASSUME NEW mirror, BeginMirror(p, mirror)
        PROVE  StagedIsWhole'
    <3> DEFINE d == [c EXCEPT !.op = "mirror"]
               compare == [d EXCEPT !.at = "comparing", !.to = mirror]
    <3>1. DOMAIN d = Fields
      BY <2>1
    <3>2. DOMAIN compare = Fields /\ compare.at = "comparing"
      BY <2>1 DEF Fields
    <3>3. \/ Become(p, Rejected(d))
          \/ Become(p, compare)
          \/ Become(p, Copying(d, Source, mirror))
      BY <2>3 DEF BeginMirror
    <3> HIDE DEF d, compare
    <3> QED BY <3>1, <3>2, <3>3, OneMoves, Moves DEF Checked
  <2>4. CASE TryMirror(p)
    <3> DEFINE d == [c EXCEPT !.left = Tail(@)]
    <3>1. DOMAIN d = Fields /\ d.at = c.at
      BY <2>1 DEF Fields
    <3>2. c.at = "choosing" /\ \/ Become(p, Copying(d, Head(c.left), Out))
                               \/ Become(p, d)
      BY <2>4 DEF TryMirror
    <3> HIDE DEF d
    <3> QED BY <3>1, <3>2, OneMoves, Moves DEF Checked
  <2>5. CASE CopyFile(p)
    <3>1. PICK files : Become(p, [c EXCEPT !.files = @ + 1, !.staged = files])
      BY <2>5 DEF CopyFile
    <3> DEFINE d == [c EXCEPT !.files = @ + 1, !.staged = files]
    <3>2. DOMAIN d = Fields /\ d.at = "copying"
      BY <2>1, <2>5 DEF Fields, CopyFile
    <3>3. Become(p, d)
      BY <3>1
    <3> HIDE DEF d
    <3> QED BY <3>2, <3>3, OneMoves DEF Checked
  <2>6. CASE CheckCopy(p)
    <3>1. CASE Validate(c.staged, Run)
      <4> DEFINE d == [c EXCEPT !.at = "placing", !.staged = With(@, "report", Run)]
      <4>1. DOMAIN d = Fields /\ d.staged = With(c.staged, "report", Run)
        BY <2>1 DEF Fields
      <4>2. Become(p, d)
        BY <2>6, <3>1 DEF CheckCopy
      <4>3. Checked(d)
        BY <3>1, <4>1, ReportAside DEF Checked
      <4> HIDE DEF d
      <4> QED BY <4>1, <4>2, <4>3, OneMoves
    <3>2. CASE ~Validate(c.staged, Run)
      BY <2>1, <2>6, <3>2, OneMoves, Moves DEF CheckCopy, Reject, Checked
    <3> QED BY <3>1, <3>2
  <2>7. CASE SeeIfVacant(p)
    <3>1. CASE Forestalled(p)
      <4> DEFINE d == [Rejected(c) EXCEPT !.sound = {}]
      <4>1. DOMAIN d = Fields /\ d.at \in {"choosing", "failed"}
        BY <2>1, Moves DEF Fields
      <4>2. Become(p, d)
        BY <3>1 DEF Forestalled
      <4> HIDE DEF d
      <4> QED BY <4>1, <4>2, OneMoves DEF Checked
    <3>2. CASE Step(p, "renaming")
      <4>1. c.at = "placing" /\ Become(p, [c EXCEPT !.at = "renaming"])
        BY <2>7, <3>2 DEF SeeIfVacant, Step
      <4> QED BY <2>1, <4>1, Moves, OneMoves DEF Checked
    <3> QED BY <2>7, <3>1, <3>2 DEF SeeIfVacant
  <2>8. CASE Rename(p)
    <3>1. CASE Forestalled(p)
      <4> DEFINE d == [Rejected(c) EXCEPT !.sound = {}]
      <4>1. DOMAIN d = Fields /\ d.at \in {"choosing", "failed"}
        BY <2>1, Moves DEF Fields
      <4>2. Become(p, d)
        BY <3>1 DEF Forestalled
      <4> HIDE DEF d
      <4> QED BY <4>1, <4>2, OneMoves DEF Checked
    <3>2. CASE Done(p)
      <4> DEFINE d == [Idle EXCEPT !.at = "done", !.op = c.op]
      <4>1. DOMAIN d = Fields /\ d.at = "done"
        BY Moves, <2>1 DEF Idle, Fields
      <4>2. Become(p, d)
        BY <3>2 DEF Done
      <4> HIDE DEF d
      <4> QED BY <4>1, <4>2, OneMoves DEF Checked
    <3> QED BY <2>8, <3>1, <3>2 DEF Rename
  <2>9. CASE CompareExisting(p)
    <3> DEFINE d == [Idle EXCEPT !.at = "done", !.op = c.op]
    <3>1. DOMAIN d = Fields /\ d.at = "done"
      BY Moves, <2>1 DEF Idle, Fields
    <3>2. Become(p, d) \/ Become(p, Rejected(c))
      BY <2>9 DEF CompareExisting, Done, Reject
    <3> HIDE DEF d
    <3> QED BY <2>1, <3>1, <3>2, Moves, OneMoves DEF Checked
  <2>10. CASE NoMirrorLeft(p)
    BY <2>1, <2>10, Moves, OneMoves DEF NoMirrorLeft, Step, Checked
  <2>11. CASE CopierDies(p)
    <3>1. Become(p, [Idle EXCEPT !.at = "dead"])
      BY <2>11 DEF CopierDies
    <3> QED BY <2>1, <3>1, Moves, OneMoves DEF Checked
  <2> QED BY <1>2, <2>2, <2>3, <2>4, <2>5, <2>6, <2>7, <2>8, <2>9, <2>10, <2>11 DEF CopierSteps
<1>3. ASSUME NEW place \in Places, Damage(place)
      PROVE  StagedIsWhole'
  <2>1. copier' = [p \in Copiers |-> [copier[p] EXCEPT !.sound = @ \ {place}]]
    BY <1>3 DEF Damage
  <2>2. \A p \in Copiers : /\ DOMAIN copier'[p] = Fields
                            /\ copier'[p].at = copier[p].at
                            /\ copier'[p].staged = copier[p].staged
    BY <2>1 DEF StagedIsWhole, CopiersHaveState, Fields
  <2> QED BY <2>1, <2>2 DEF StagedIsWhole, CopiersHaveState, Checked, WholeBundle, Intact, AgreesIfThere
<1>4. CASE WriteHalf \/ SignReceipt \/ WriteReceipt \/ WriterDies \/ ClerkDies \/ UNCHANGED evidence
  BY <1>1, <1>4 DEF WriteHalf, SignReceipt, WriteReceipt, WriterDies, ClerkDies, evidence
<1> QED BY <1>2, <1>3, <1>4 DEF EvidenceNext

Arrives ==
  \A place \in DOMAIN disk' \ (DOMAIN disk \cup {Source}) :
    Intact(disk'[place]) /\ disk'[place]["manifest"] = Run

\* Only a rename makes a bundle appear, and it was checked.
LEMMA ArrivesStep ==
  ASSUME StagedIsWhole, [EvidenceNext]_evidence
  PROVE  Arrives
<1>1. CASE UNCHANGED disk
  BY <1>1 DEF Arrives
<1>2. CASE WriteHalf \/ WriteReceipt
  <2>1. PICK files : Put(Source, files)
    BY <1>2 DEF WriteHalf, WriteReceipt
  <2> QED BY <2>1, OthersKept DEF Arrives
<1>3. ASSUME NEW p \in Copiers, Rename(p)
      PROVE  Arrives
  <2>1. CASE Exists(copier[p].to)
    BY <1>1, <1>3, <2>1 DEF Rename
  <2>2. CASE ~Exists(copier[p].to)
    <3>1. Put(copier[p].to, copier[p].staged) /\ WholeBundle(copier[p].staged)
      BY <1>3, <2>2 DEF Rename, StagedIsWhole, Checked
    <3>2. /\ DOMAIN disk' = DOMAIN disk \cup {copier[p].to}
          /\ disk'[copier[p].to] = copier[p].staged
      BY <3>1, OthersKept
    <3>3. Intact(copier[p].staged) /\ copier[p].staged["manifest"] = Run
      BY <3>1 DEF WholeBundle
    <3>4. \A place \in DOMAIN disk' \ (DOMAIN disk \cup {Source}) : disk'[place] = copier[p].staged
      BY <3>2
    <3> QED BY <3>3, <3>4 DEF Arrives
  <2> QED BY <2>1, <2>2
<1>4. ASSUME NEW place \in Places, Damage(place)
      PROVE  Arrives
  <2>1. DOMAIN disk' \subseteq DOMAIN disk
    BY <1>4, OthersKept DEF Damage, Exists, Restrict
  <2> QED BY <2>1 DEF Arrives
<1>5. ASSUME NEW p \in Copiers, CopierSteps(p), ~Rename(p)
      PROVE  UNCHANGED disk
  BY <1>5 DEF CopierSteps, BeginMirror, BeginRecover, CompareExisting, TryMirror, NoMirrorLeft,
              CopyFile, CheckCopy, SeeIfVacant, CopierDies
<1>6. CASE SignReceipt \/ WriterDies \/ ClerkDies \/ UNCHANGED evidence
  BY <1>1, <1>6 DEF SignReceipt, WriterDies, ClerkDies, evidence
<1> QED
  BY <1>1, <1>2, <1>3, <1>4, <1>5, <1>6 DEF EvidenceNext, CopierSteps

\* mirror.py: what appears at an address is the whole, verified bundle of that address.
THEOREM CopiesAreWhole == EvidenceSpec => ArrivesWhole
<1>1. EvidenceInit => StagedIsWhole
  BY Moves DEF EvidenceInit, StagedIsWhole, CopiersHaveState, Checked, Idle, Fields
<1>2. StagedIsWhole /\ [EvidenceNext]_evidence => StagedIsWhole'
  BY StagedStep
<1>3. StagedIsWhole /\ [EvidenceNext]_evidence => [Arrives]_evidence
  BY ArrivesStep
<1> QED BY <1>1, <1>2, <1>3, PTL DEF EvidenceSpec, ArrivesWhole, Arrives

-----------------------------------------------------------------------------
(* One surviving mirror is enough: what was sound when a recovery began    *)
(* and stayed so is still to be tried, or is being copied.                 *)

Names(n) == {COPY_FILES[i] : i \in 1..n}

\* What is staged is the copied files of the directory, as they are there.
CopiedFrom(c, files) ==
  /\ DOMAIN c.staged = DOMAIN files \cap Names(c.files)
  /\ \A name \in DOMAIN c.staged : c.staged[name] = files[name]

\* Validate, in a Town that can replay.
Fit(files) == WholeBundle(files) /\ AgreesIfThere(files, "receipt", files["manifest"])

Survives(c, d) ==
  /\ c.left \in Seq(STRING)
  /\ \A mirror \in c.sound : mirror # Source /\ mirror \in DOMAIN d /\ Fit(d[mirror])
  /\ c.at \in {"idle", "comparing", "failed"} => c.sound = {}
  /\ c.at = "choosing" => c.sound \subseteq Range(c.left)
  /\ c.at \in {"copying", "placing", "renaming"} => c.sound \subseteq Range(c.left) \cup {c.from}
  /\ c.at = "copying" => c.files \in Nat /\ (c.from \in c.sound => CopiedFrom(c, d[c.from]))

SurvivorInv ==
  /\ CopiersHaveState
  /\ \A p \in Copiers : Survives(copier[p], disk) /\ (copier[p].sound # {} => replays)

\* Sound is to be there and fit, in a Town that can replay.
LEMMA SoundIsFit ==
  ASSUME NEW place
  PROVE  Sound(place) <=> replays /\ place \in DOMAIN disk /\ Fit(disk[place])
BY DEF Sound, Exists, Validate, Verifies, Fit, WholeBundle

\* A copier for which nothing is sound has nothing to lose.
LEMMA NothingToLose ==
  ASSUME NEW c, NEW d, c.left \in Seq(STRING), c.sound = {}, c.at = "copying" => c.files \in Nat
  PROVE  Survives(c, d)
BY DEF Survives

\* Directories that keep the sound mirrors keep a copier's chances.
LEMMA StillSurvives ==
  ASSUME NEW c, NEW d, NEW e, Survives(c, d),
         \A mirror \in DOMAIN d \ {Source} : mirror \in DOMAIN e /\ e[mirror] = d[mirror]
  PROVE  Survives(c, e)
<1>1. \A mirror \in c.sound : mirror \in DOMAIN e /\ e[mirror] = d[mirror]
  BY DEF Survives
<1> QED BY <1>1 DEF Survives

\* A step of one copier that leaves what is in place there.
LEMMA OneSurvives ==
  ASSUME SurvivorInv, NEW p \in Copiers, NEW c, Become(p, c), DOMAIN c = Fields,
         Survives(c, disk), c.sound # {} => replays, Kept, replays' = replays
  PROVE  SurvivorInv'
<1>1. CopiersHaveState'
  BY DEF SurvivorInv, CopiersHaveState, Become
<1>2. copier'[p] = c /\ \A q \in Copiers : q # p => copier'[q] = copier[q]
  BY DEF SurvivorInv, CopiersHaveState, Become
<1>3. \A q \in Copiers : Survives(copier'[q], disk) /\ (copier'[q].sound # {} => replays)
  BY <1>2 DEF SurvivorInv
<1>4. \A q \in Copiers : Survives(copier'[q], disk')
  BY <1>3, StillSurvives DEF Kept
<1> QED BY <1>1, <1>3, <1>4 DEF SurvivorInv

\* A copier that rejects what it copied goes on to the mirrors it has left.
LEMMA RejectedSurvives ==
  ASSUME NEW c, NEW d, DOMAIN c = Fields, Survives(c, d), c.sound \subseteq Range(c.left)
  PROVE  /\ DOMAIN Rejected(c) = Fields
         /\ Rejected(c).sound \subseteq c.sound
         /\ Survives(Rejected(c), d)
<1>1. CASE c.op = "recover"
  <2> DEFINE e == [c EXCEPT !.at = "choosing", !.files = 0, !.staged = NoFiles]
  <2>1. /\ DOMAIN e = Fields /\ e.at = "choosing"
        /\ e.left = c.left /\ e.sound = c.sound
    BY DEF Fields
  <2>2. Survives(e, d)
    <3> HIDE DEF e
    <3> QED BY <2>1 DEF Survives
  <2> QED BY <1>1, <2>1, <2>2 DEF Rejected
<1>2. CASE c.op # "recover"
  <2> DEFINE e == [Idle EXCEPT !.at = "failed", !.op = c.op]
  <2>0. <<>> \in Seq(STRING)
    OBVIOUS
  <2>1. DOMAIN e = Fields /\ e.at = "failed" /\ e.left \in Seq(STRING) /\ e.sound = {}
    BY <2>0 DEF Idle, Fields
  <2>2. Survives(e, d)
    <3> HIDE DEF e
    <3> QED BY <2>1, NothingToLose
  <2> QED BY <1>2, <2>1, <2>2 DEF Rejected
<1> QED BY <1>1, <1>2

\* A copier that lost the race for its destination is owed nothing more.
LEMMA ForestalledSurvives ==
  ASSUME SurvivorInv, NEW p \in Copiers, Forestalled(p), UNCHANGED <<disk, replays>>
  PROVE  SurvivorInv'
<1> DEFINE d == [Rejected(copier[p]) EXCEPT !.sound = {}]
<1>1. DOMAIN copier[p] = Fields /\ copier[p].left \in Seq(STRING)
  BY DEF SurvivorInv, CopiersHaveState, Survives
<1>2. DOMAIN d = Fields /\ d.sound = {} /\ d.at \in {"choosing", "failed"}
  BY <1>1, Moves DEF Fields
<1>3. d.left \in Seq(STRING)
  <2>1. <<>> \in Seq(STRING)
    OBVIOUS
  <2>2. Rejected(copier[p]).left \in Seq(STRING) /\ DOMAIN Rejected(copier[p]) = Fields
    BY <1>1, <2>1 DEF Rejected, Idle, Fields
  <2> QED BY <2>2 DEF Fields
<1>4. Become(p, d)
  BY DEF Forestalled
<1> HIDE DEF d
<1> QED BY <1>2, <1>3, <1>4, NothingToLose, OneSurvives DEF Kept

\* A copier that is through, or starts anew, has nothing to lose either.
LEMMA IdleSurvives ==
  ASSUME SurvivorInv, NEW p \in Copiers, NEW step \in {"idle", "done", "dead", "failed"}, NEW op,
         Become(p, [Idle EXCEPT !.at = step, !.op = op]), Kept, replays' = replays
  PROVE  SurvivorInv'
<1> DEFINE d == [Idle EXCEPT !.at = step, !.op = op]
<1>0. <<>> \in Seq(STRING)
  OBVIOUS
<1>1. DOMAIN d = Fields /\ d.at = step /\ d.left \in Seq(STRING) /\ d.sound = {}
  BY <1>0 DEF Idle, Fields
<1>2. Become(p, d)
  OBVIOUS
<1> HIDE DEF d
<1> QED BY <1>1, <1>2, NothingToLose, OneSurvives

\* A sequence holds its first element and those of the rest.
LEMMA HeadAndTail ==
  ASSUME NEW s \in Seq(STRING), s # <<>>
  PROVE  Tail(s) \in Seq(STRING) /\ Range(s) \subseteq {Head(s)} \cup Range(Tail(s))
<1>1. /\ Tail(s) \in Seq(STRING) /\ Len(s) \in Nat \ {0} /\ Len(Tail(s)) = Len(s) - 1
      /\ DOMAIN s = 1..Len(s) /\ DOMAIN Tail(s) = 1..(Len(s) - 1)
  OBVIOUS
<1>2. ASSUME NEW i \in 1..Len(s)
      PROVE  s[i] \in {Head(s)} \cup Range(Tail(s))
  <2>1. CASE i = 1
    BY <2>1
  <2>2. CASE i # 1
    <3>1. i - 1 \in 1..(Len(s) - 1) /\ Tail(s)[i - 1] = s[i]
      BY <1>1, <2>2
    <3> QED BY <1>1, <3>1 DEF Range
  <2> QED BY <2>1, <2>2
<1> QED BY <1>1, <1>2 DEF Range

\* A copy of all the files of a fit directory is fit.
LEMMA CopyIsFit ==
  ASSUME NEW c, NEW files, CopiedFrom(c, files), c.files = Len(COPY_FILES), Fit(files)
  PROVE  Fit(c.staged)
<1>1. Names(Len(COPY_FILES)) = Range(COPY_FILES)
  BY EvidenceAssumption DEF Names, Range
<1>2. Records \cup {"manifest", "attestation", "receipt"} = Range(COPY_FILES)
  BY EvidenceAssumption DEF Records
<1>3. \A name \in Records \cup {"manifest", "attestation", "receipt"} :
        /\ name \in DOMAIN c.staged <=> name \in DOMAIN files
        /\ name \in DOMAIN c.staged => c.staged[name] = files[name]
  BY <1>1, <1>2 DEF CopiedFrom
<1> HIDE DEF Fit
<1> QED BY <1>3 DEF Fit, WholeBundle, Intact, AgreesIfThere

\* Every step of a copier keeps a chance for what is sound.
LEMMA CopierSurvives ==
  ASSUME SurvivorInv, NEW p \in Copiers, CopierSteps(p)
  PROVE  SurvivorInv'
<1> DEFINE c == copier[p]
<1>1. DOMAIN c = Fields /\ Survives(c, disk) /\ (c.sound # {} => replays)
  BY DEF SurvivorInv, CopiersHaveState
<1>2. ~Rename(p) => UNCHANGED <<disk, replays>> /\ Kept
  BY DEF CopierSteps, BeginMirror, BeginRecover, CompareExisting, TryMirror, NoMirrorLeft,
         CopyFile, CheckCopy, SeeIfVacant, CopierDies, Kept
<1>3. CASE BeginRecover(p)
  <2> DEFINE sound == {m \in Range(Mirrors) : Sound(m) /\ ~Exists(Out)}
             d == [c EXCEPT !.op = "recover", !.left = Mirrors, !.sound = sound]
             e == [d EXCEPT !.at = IF Exists(Out) THEN "failed" ELSE "choosing"]
  <2>1. DOMAIN d = Fields /\ d.left = Mirrors /\ d.sound = sound
    BY <1>1 DEF Fields
  <2>2. /\ DOMAIN e = Fields /\ e.left = Mirrors /\ e.sound = sound
        /\ e.at = IF Exists(Out) THEN "failed" ELSE "choosing"
    <3> HIDE DEF d, sound
    <3> QED BY <2>1 DEF Fields
  <2>3. Become(p, e)
    BY <1>3 DEF BeginRecover
  <2>4. \A m \in sound : m # Source /\ m \in DOMAIN disk /\ Fit(disk[m]) /\ replays
    BY SoundIsFit, EvidenceAssumption DEF Source
  <2>5. sound \subseteq Range(Mirrors) /\ (Exists(Out) => sound = {})
    OBVIOUS
  <2>6. Mirrors \in Seq(STRING)
    BY EvidenceAssumption
  <2> HIDE DEF d, e, sound
  <2>7. Survives(e, disk)
    BY <2>2, <2>4, <2>5, <2>6 DEF Survives
  <2>8. e.sound # {} => replays
    BY <2>2, <2>4
  <2>9. Kept /\ replays' = replays
    BY <1>3 DEF BeginRecover, Kept
  <2> QED BY <2>2, <2>3, <2>7, <2>8, <2>9, OneSurvives
<1>4. ASSUME NEW mirror, BeginMirror(p, mirror)
      PROVE  SurvivorInv'
  <2> DEFINE d == [c EXCEPT !.op = "mirror"]
             compare == [d EXCEPT !.at = "comparing", !.to = mirror]
             copy == Copying(d, Source, mirror)
  <2>1. c.at = "idle" /\ c.sound = {} /\ c.left \in Seq(STRING)
    BY <1>1, <1>4 DEF BeginMirror, Survives
  <2>2. DOMAIN d = Fields /\ d.sound = {} /\ d.left \in Seq(STRING) /\ d.at = "idle"
    BY <1>1, <2>1 DEF Fields
  <2>3. \/ Become(p, Rejected(d))
        \/ Become(p, compare)
        \/ Become(p, copy)
    BY <1>4 DEF BeginMirror
  <2>4. Kept /\ replays' = replays
    BY <1>4 DEF BeginMirror, Kept
  <2>5. DOMAIN compare = Fields /\ compare.at = "comparing" /\ compare.sound = {} /\ compare.left \in Seq(STRING)
    <3> HIDE DEF d
    <3> QED BY <2>2 DEF Fields
  <2>6. DOMAIN copy = Fields /\ copy.files = 0 /\ copy.sound = {} /\ copy.left \in Seq(STRING)
    <3> HIDE DEF d
    <3> QED BY <2>2 DEF Fields, Copying
  <2>7. /\ DOMAIN Rejected(d) = Fields /\ Survives(Rejected(d), disk) /\ Rejected(d).sound = {}
    <3> HIDE DEF d
    <3>1. Survives(d, disk)
      BY <2>2, NothingToLose
    <3> QED BY <2>2, <3>1, RejectedSurvives
  <2> HIDE DEF d, compare, copy
  <2>8. Survives(compare, disk) /\ Survives(copy, disk)
    BY <2>5, <2>6, NothingToLose
  <2> QED BY <2>3, <2>4, <2>5, <2>6, <2>7, <2>8, OneSurvives
<1>5. CASE CompareExisting(p)
  <2>1. c.at = "comparing" /\ c.sound = {} /\ Kept /\ replays' = replays
    BY <1>1, <1>5 DEF CompareExisting, Survives, Kept
  <2>2. CASE Done(p)
    BY <2>1, <2>2, IdleSurvives DEF Done
  <2>3. CASE Reject(p)
    BY <1>1, <2>1, <2>3, RejectedSurvives, OneSurvives DEF Reject
  <2> QED BY <1>5, <2>2, <2>3 DEF CompareExisting
<1>6. CASE TryMirror(p)
  <2> DEFINE d == [c EXCEPT !.left = Tail(@)]
             mirror == Head(c.left)
             copy == Copying(d, mirror, Out)
  <2>1. /\ c.at = "choosing" /\ c.left \in Seq(STRING) /\ c.left # <<>>
        /\ c.sound \subseteq Range(c.left)
    BY <1>1, <1>6 DEF TryMirror, Survives
  <2>2. Tail(c.left) \in Seq(STRING) /\ Range(c.left) \subseteq {mirror} \cup Range(Tail(c.left))
    BY <2>1, HeadAndTail
  <2>3. DOMAIN d = Fields /\ d.at = "choosing" /\ d.left = Tail(c.left) /\ d.sound = c.sound
    BY <1>1, <2>1 DEF Fields
  <2>4. /\ DOMAIN copy = Fields /\ copy.at = "copying" /\ copy.left = Tail(c.left)
        /\ copy.sound = c.sound /\ copy.from = mirror /\ copy.files = 0 /\ copy.staged = NoFiles
    <3> HIDE DEF d
    <3> QED BY <2>3 DEF Fields, Copying
  <2>5. \/ Sound(mirror) /\ Become(p, copy)
        \/ ~Sound(mirror) /\ Become(p, d)
    BY <1>6 DEF TryMirror
  <2>6. Kept /\ replays' = replays
    BY <1>6 DEF TryMirror, Kept
  <2> HIDE DEF d, copy
  <2>7. CopiedFrom(copy, disk[mirror])
    BY <2>4 DEF CopiedFrom, NoFiles, Names
  <2>8. Survives(copy, disk)
    BY <1>1, <2>2, <2>1, <2>4, <2>7 DEF Survives
  <2>9. ~Sound(mirror) => Survives(d, disk)
    BY <1>1, <2>1, <2>2, <2>3, SoundIsFit DEF Survives
  <2> QED BY <1>1, <2>3, <2>4, <2>5, <2>6, <2>8, <2>9, OneSurvives
<1>7. CASE NoMirrorLeft(p)
  <2> DEFINE d == [c EXCEPT !.at = "failed"]
  <2>1. c.at = "choosing" /\ c.left = <<>> /\ c.left \in Seq(STRING) /\ c.sound \subseteq Range(c.left)
    BY <1>1, <1>7 DEF NoMirrorLeft, Survives
  <2>2. c.sound = {}
    BY <2>1 DEF Range
  <2>3. DOMAIN d = Fields /\ d.at = "failed" /\ d.sound = {} /\ d.left \in Seq(STRING)
    BY <1>1, <2>1, <2>2 DEF Fields
  <2>4. Become(p, d) /\ Kept /\ replays' = replays
    BY <1>7 DEF NoMirrorLeft, Step, Kept
  <2> HIDE DEF d
  <2> QED BY <2>3, <2>4, NothingToLose, OneSurvives
<1>8. CASE CopyFile(p)
  <2> DEFINE name == COPY_FILES[c.files + 1]
             found == Exists(c.from) /\ name \in DOMAIN disk[c.from]
             files == IF found THEN With(c.staged, name, disk[c.from][name]) ELSE c.staged
             d == [c EXCEPT !.files = @ + 1, !.staged = files]
  <2>1. /\ c.at = "copying" /\ c.files \in Nat
        /\ c.sound \subseteq Range(c.left) \cup {c.from}
    BY <1>1, <1>8 DEF CopyFile, Survives
  <2>2. /\ DOMAIN d = Fields /\ d.at = "copying" /\ d.files = c.files + 1 /\ d.staged = files
        /\ d.left = c.left /\ d.from = c.from /\ d.sound = c.sound
    <3> HIDE DEF files
    <3> QED BY <1>1, <2>1 DEF Fields
  <2>3. Become(p, d)
    BY <1>8 DEF CopyFile
  <2>4. Kept /\ replays' = replays
    BY <1>8 DEF CopyFile, Kept
  <2>5. ASSUME c.from \in c.sound
        PROVE  CopiedFrom(d, disk[c.from])
    <3>1. CopiedFrom(c, disk[c.from]) /\ Exists(c.from)
      BY <1>1, <2>1, <2>5 DEF Survives, Exists
    <3>2. Names(c.files + 1) = Names(c.files) \cup {name}
      BY <2>1 DEF Names
    <3>3. CASE name \in DOMAIN disk[c.from]
      <4>1. d.staged = With(c.staged, name, disk[c.from][name])
        BY <2>2, <3>1, <3>3
      <4> HIDE DEF d, files, name
      <4> QED BY <2>2, <3>1, <3>2, <3>3, <4>1 DEF CopiedFrom, With
    <3>4. CASE name \notin DOMAIN disk[c.from]
      <4>1. d.staged = c.staged
        BY <2>2, <3>4
      <4> HIDE DEF d, files, name
      <4> QED BY <2>2, <3>1, <3>2, <3>4, <4>1 DEF CopiedFrom
    <3> QED BY <3>3, <3>4
  <2> HIDE DEF d
  <2>6. Survives(d, disk)
    BY <1>1, <2>1, <2>2, <2>5 DEF Survives
  <2> QED BY <1>1, <2>2, <2>3, <2>4, <2>6, OneSurvives
<1>9. CASE CheckCopy(p)
  <2>1. /\ c.at = "copying" /\ c.files = Len(COPY_FILES)
        /\ c.sound \subseteq Range(c.left) \cup {c.from}
    BY <1>1, <1>9 DEF CheckCopy, Survives
  <2>2. Kept /\ replays' = replays
    BY <1>9 DEF CheckCopy, Kept
  <2>3. CASE Validate(c.staged, Run)
    <3> DEFINE d == [c EXCEPT !.at = "placing", !.staged = With(@, "report", Run)]
    <3>1. /\ DOMAIN d = Fields /\ d.at = "placing" /\ d.left = c.left /\ d.from = c.from
          /\ d.sound = c.sound
      BY <1>1 DEF Fields
    <3>2. Become(p, d)
      BY <1>9, <2>3 DEF CheckCopy
    <3> HIDE DEF d
    <3>3. Survives(d, disk)
      BY <1>1, <2>1, <3>1 DEF Survives
    <3> QED BY <1>1, <2>2, <3>1, <3>2, <3>3, OneSurvives
  <2>4. CASE ~Validate(c.staged, Run)
    <3>1. ASSUME c.from \in c.sound
          PROVE  FALSE
      <4>1. CopiedFrom(c, disk[c.from]) /\ Fit(disk[c.from]) /\ replays
        BY <1>1, <2>1, <3>1 DEF Survives
      <4>2. Fit(c.staged)
        BY <2>1, <4>1, CopyIsFit
      <4> QED BY <2>4, <4>1, <4>2 DEF Validate, Verifies, Fit, WholeBundle
    <3>2. Become(p, Rejected(c))
      BY <1>9, <2>4 DEF CheckCopy, Reject
    <3>3. c.sound \subseteq Range(c.left)
      BY <2>1, <3>1
    <3>4. /\ DOMAIN Rejected(c) = Fields /\ Survives(Rejected(c), disk)
          /\ Rejected(c).sound # {} => replays
      BY <1>1, <3>3, RejectedSurvives
    <3> QED BY <2>2, <3>2, <3>4, OneSurvives
  <2> QED BY <2>3, <2>4
<1>10. CASE SeeIfVacant(p)
  <2>1. CASE Forestalled(p)
    BY <1>10, <2>1, ForestalledSurvives DEF SeeIfVacant
  <2>2. CASE Step(p, "renaming")
    <3> DEFINE d == [c EXCEPT !.at = "renaming"]
    <3>1. /\ DOMAIN d = Fields /\ d.at = "renaming" /\ d.left = c.left /\ d.from = c.from
          /\ d.sound = c.sound
      BY <1>1 DEF Fields
    <3>2. Become(p, d) /\ c.at = "placing" /\ Kept /\ replays' = replays
      BY <1>10, <2>2 DEF Step, SeeIfVacant, Kept
    <3> HIDE DEF d
    <3>3. Survives(d, disk)
      BY <1>1, <3>1, <3>2 DEF Survives
    <3> QED BY <1>1, <3>1, <3>2, <3>3, OneSurvives
  <2> QED BY <1>10, <2>1, <2>2 DEF SeeIfVacant
<1>11. CASE Rename(p)
  <2>1. CASE Exists(copier[p].to)
    BY <1>11, <2>1, ForestalledSurvives DEF Rename
  <2>2. CASE ~Exists(copier[p].to)
    <3>1. Kept /\ replays' = replays /\ Done(p)
      BY <1>11, <2>2, PutElsewhere DEF Rename
    <3> QED BY <3>1, IdleSurvives DEF Done
  <2> QED BY <2>1, <2>2
<1>12. CASE CopierDies(p)
  <2> DEFINE d == [Idle EXCEPT !.at = "dead"]
  <2>1. <<>> \in Seq(STRING)
    OBVIOUS
  <2>2. DOMAIN d = Fields /\ d.at = "dead" /\ d.left \in Seq(STRING) /\ d.sound = {}
    BY <2>1 DEF Idle, Fields
  <2>3. Become(p, d) /\ Kept /\ replays' = replays
    BY <1>12 DEF CopierDies, Kept
  <2> HIDE DEF d
  <2> QED BY <2>2, <2>3, NothingToLose, OneSurvives
<1> QED BY <1>3, <1>4, <1>5, <1>6, <1>7, <1>8, <1>9, <1>10, <1>11, <1>12 DEF CopierSteps

\* Damage to one directory leaves the others, and ends what was sound of its own.
LEMMA DamageSurvives ==
  ASSUME SurvivorInv, NEW place \in Places, Damage(place)
  PROVE  SurvivorInv'
<1> DEFINE After(p) == [copier[p] EXCEPT !.sound = @ \ {place}]
<1>1. copier' = [p \in Copiers |-> After(p)] /\ replays' = replays
  BY DEF Damage
<1>2. \A other \in DOMAIN disk \ {place} : other \in DOMAIN disk' /\ disk'[other] = disk[other]
  BY OthersKept DEF Damage, Restrict
<1>3. ASSUME NEW p \in Copiers
      PROVE  /\ DOMAIN After(p) = Fields
             /\ After(p).sound = copier[p].sound \ {place}
             /\ \A f \in Fields \ {"sound"} : After(p)[f] = copier[p][f]
  BY DEF SurvivorInv, CopiersHaveState, Fields
<1>4. CopiersHaveState'
  BY <1>1, <1>3 DEF CopiersHaveState
<1>5. ASSUME NEW p \in Copiers
      PROVE  Survives(After(p), disk') /\ (After(p).sound # {} => replays)
  <2> DEFINE c == copier[p]
             d == After(p)
  <2>1. Survives(c, disk) /\ (c.sound # {} => replays)
    BY DEF SurvivorInv
  <2>2. /\ d.sound = c.sound \ {place} /\ d.left = c.left /\ d.at = c.at /\ d.from = c.from
        /\ d.files = c.files /\ d.staged = c.staged
    BY <1>3 DEF Fields
  <2> HIDE DEF c, d
  <2>3. \A mirror \in d.sound : mirror \in DOMAIN disk' /\ disk'[mirror] = disk[mirror]
    BY <1>2, <2>1, <2>2 DEF Survives
  <2>4. Survives(d, disk')
    BY <2>1, <2>2, <2>3 DEF Survives, CopiedFrom
  <2> QED BY <2>1, <2>2, <2>4 DEF d
<1> HIDE DEF After
<1> QED BY <1>1, <1>4, <1>5 DEF SurvivorInv

\* The steps of the run's process and the clerk are at the source alone.
LEMMA SourceSurvives ==
  ASSUME SurvivorInv, UNCHANGED <<copier, replays>>, Kept
  PROVE  SurvivorInv'
BY StillSurvives DEF SurvivorInv, CopiersHaveState, Kept

\* Every step keeps a chance for every mirror that stayed sound.
LEMMA SurvivorStep ==
  ASSUME SurvivorInv, [EvidenceNext]_evidence
  PROVE  SurvivorInv'
<1>1. CASE WriteHalf \/ WriteReceipt
  BY <1>1, PutElsewhere, SourceSurvives DEF WriteHalf, WriteReceipt
<1>2. CASE SignReceipt \/ WriterDies \/ ClerkDies \/ UNCHANGED evidence
  BY <1>2, SourceSurvives DEF SignReceipt, WriterDies, ClerkDies, evidence, Kept
<1> QED BY <1>1, <1>2, CopierSurvives, DamageSurvives DEF EvidenceNext

\* mirror.py: a recovery fails only if no mirror was sound when it began and stayed so, or
\* its destination was there.
THEOREM OneMirrorIsEnough == EvidenceSpec => []SurvivorRecovers
<1>1. EvidenceInit => SurvivorInv
  <2> SUFFICES ASSUME EvidenceInit PROVE SurvivorInv
    OBVIOUS
  <2>1. DOMAIN Idle = Fields /\ Idle.left \in Seq(STRING) /\ Idle.sound = {} /\ Idle.at = "idle"
    <3>1. <<>> \in Seq(STRING)
      OBVIOUS
    <3> QED BY <3>1 DEF Idle, Fields
  <2>2. Survives(Idle, disk)
    BY <2>1, NothingToLose
  <2> QED BY <2>1, <2>2 DEF EvidenceInit, SurvivorInv, CopiersHaveState
<1>2. SurvivorInv /\ [EvidenceNext]_evidence => SurvivorInv'
  BY SurvivorStep
<1>3. SurvivorInv => SurvivorRecovers
  BY DEF SurvivorInv, Survives, SurvivorRecovers
<1> QED BY <1>1, <1>2, <1>3, PTL DEF EvidenceSpec
=============================================================================
