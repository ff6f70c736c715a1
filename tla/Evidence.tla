------------------------------ MODULE Evidence ------------------------------
(***************************************************************************)
(* Evidence on disk (bundle.py, receipt.py, mirror.py): a run's process    *)
(* writes a bundle file by file and attests it, a clerk signs a receipt,   *)
(* copiers mirror it to content-addressed directories and recover it from  *)
(* them.  Every process may die between two file operations, and copies    *)
(* are damaged or lost behind everybody's back.                            *)
(*                                                                         *)
(* A file's content is the run it belongs to, whole, or Torn.  A manifest  *)
(* of a run holds the digests of its five records and their fingerprint;   *)
(* attestation and receipt name that fingerprint.                          *)
(***************************************************************************)
EXTENDS Naturals, Sequences, Functions

CONSTANTS Run,          \* the run whose evidence is kept
          OtherRun,     \* one whose bundle may be put in its place
          Mirrors,      \* the mirror directories, in the order recovery tries them
          RECORD_FILES, \* the record files, in the order they are written
          COPY_FILES,   \* sorted(MIRROR_COPY_FILES): the files a copy takes, in order
          Copiers,      \* processes that mirror or recover
          MaxDamage,    \* bound: files or bundles damaged
          MaxCrashes    \* bound: processes that die

ASSUME EvidenceAssumption ==
  /\ Run # OtherRun
  /\ RECORD_FILES \in Seq({"profile", "run", "intents", "events", "result"})
  /\ COPY_FILES \in Seq(STRING)
  /\ Range(COPY_FILES) = Range(RECORD_FILES) \cup {"manifest", "attestation", "receipt"}
  /\ Mirrors \in Seq(STRING) /\ {"runs", "recovered"} \cap Range(Mirrors) = {}
  /\ MaxDamage \in Nat /\ MaxCrashes \in Nat

VARIABLES disk,     \* the directories that exist, each from its files to their content
          writer,   \* file operations of the run's process so far, in halves of a file
          clerk,    \* make_receipt: idle, signing, writing
          copier,   \* each copier: where it is, from and to where it copies, what it staged
          replays,  \* this Town has the rules of the run's evaluator version
          damaged, crashes

evidence == <<disk, writer, clerk, copier, replays, damaged, crashes>>

Torn == "torn"
Source == "runs"
Out == "recovered"
Places == {Source, Out} \cup Range(Mirrors)

Records == Range(RECORD_FILES)
\* write_bundle, then attest_bundle, file by file.
WriteOrder == RECORD_FILES \o <<"manifest", "report", "attestation">>
Exists(place) == place \in DOMAIN disk
With(files, name, content) == [f \in DOMAIN files \cup {name} |-> IF f = name THEN content ELSE files[f]]
Put(place, files) == disk' = With(disk, place, files)
NoFiles == [f \in {} |-> Torn]
Complete(run) == [f \in Range(WriteOrder) |-> run]

-----------------------------------------------------------------------------
(* Verification of a directory's files.                                    *)

AgreesIfThere(files, name, run) == name \in DOMAIN files => files[name] = run

\* verify_bundle but for replay: the manifest is read first, every record has its
\* digest, and an attestation that is there names this bundle.
Intact(files) ==
  /\ "manifest" \in DOMAIN files /\ files["manifest"] # Torn
  /\ \A name \in Records : name \in DOMAIN files /\ files[name] = files["manifest"]
  /\ AgreesIfThere(files, "attestation", files["manifest"])

\* verify_bundle: a run whose evaluator version this Town cannot replay is a problem too.
Verifies(files) == Intact(files) /\ replays

\* _validate_bundle against an address, with verify_receipt of a receipt that is there.
ValidateUnaddressed(files, run) ==   \* faulty variant: any bundle that verifies
  Verifies(files) /\ AgreesIfThere(files, "receipt", files["manifest"])
Validate(files, run) ==
  /\ Verifies(files)
  /\ AgreesIfThere(files, "receipt", files["manifest"])
  /\ files["manifest"] = run

-----------------------------------------------------------------------------
(* The run's process and the clerk.                                        *)

\* write_bundle and attest_bundle: a file is open and empty before it is whole.
WriteHalf ==
  /\ writer < 2 * Len(WriteOrder)
  /\ writer' = writer + 1
  /\ LET name == WriteOrder[(writer \div 2) + 1]
     IN Put(Source, With(IF Exists(Source) THEN disk[Source] ELSE NoFiles,
                         name, IF writer % 2 = 0 THEN Torn ELSE Run))
  /\ UNCHANGED <<clerk, copier, replays, damaged, crashes>>

\* make_receipt: bundle_receipt_check accepts a bundle that is not replayed.
SignReceipt ==
  /\ clerk = "idle" /\ Exists(Source) /\ Intact(disk[Source])
  /\ disk[Source]["manifest"] = Run
  /\ clerk' = "signing"
  /\ UNCHANGED <<disk, writer, copier, replays, damaged, crashes>>

WriteReceipt ==
  /\ clerk \in {"signing", "writing"} /\ Exists(Source)
  /\ Put(Source, With(disk[Source], "receipt", IF clerk = "signing" THEN Torn ELSE Run))
  /\ clerk' = IF clerk = "signing" THEN "writing" ELSE "idle"
  /\ UNCHANGED <<writer, copier, replays, damaged, crashes>>

-----------------------------------------------------------------------------
(* Copiers.                                                                *)

Idle == [at |-> "idle", op |-> "none", from |-> Source, to |-> Out, left |-> <<>>,
         files |-> 0, staged |-> NoFiles, sound |-> {}]
Become(p, c) == copier' = [copier EXCEPT ![p] = c]
Step(p, place) == Become(p, [copier[p] EXCEPT !.at = place])
Copying(c, from, to) ==
  [c EXCEPT !.at = "copying", !.from = from, !.to = to, !.files = 0, !.staged = NoFiles]

RejectedAtOnce(c) ==   \* faulty variant: recovery ends at its first bad mirror
  [Idle EXCEPT !.at = "failed", !.op = c.op, !.sound = c.sound]
\* A MirrorError ends a mirroring; recovery goes on to the next mirror.
Rejected(c) ==
  IF c.op = "recover" THEN [c EXCEPT !.at = "choosing", !.files = 0, !.staged = NoFiles]
  ELSE [Idle EXCEPT !.at = "failed", !.op = c.op]
Done(p) == Become(p, [Idle EXCEPT !.at = "done", !.op = copier[p].op])
Reject(p) == Become(p, Rejected(copier[p]))
\* History: which mirrors were sound all the while matters no more.
Forestalled(p) == Become(p, [Rejected(copier[p]) EXCEPT !.sound = {}])

Sound(place) == Exists(place) /\ Validate(disk[place], Run)

\* mirror_bundle: validate the source; an existing mirror is validated, never replaced.
BeginMirror(p, mirror) ==
  /\ copier[p].at = "idle" /\ Exists(Source)
  /\ LET c == [copier[p] EXCEPT !.op = "mirror"]
     IN Become(p, IF ~Sound(Source) THEN Rejected(c)
                  ELSE IF Exists(mirror) THEN [c EXCEPT !.at = "comparing", !.to = mirror]
                  ELSE Copying(c, Source, mirror))
  /\ UNCHANGED <<disk, writer, clerk, replays, damaged, crashes>>

CompareExisting(p) ==
  /\ copier[p].at = "comparing"
  /\ IF Sound(copier[p].to) THEN Done(p) ELSE Reject(p)
  /\ UNCHANGED <<disk, writer, clerk, replays, damaged, crashes>>

\* recover_bundle: nothing is there yet, then the mirrors in order.
BeginRecover(p) ==
  /\ copier[p].at = "idle"
  /\ LET c == [copier[p] EXCEPT !.op = "recover", !.left = Mirrors,
                                !.sound = {m \in Range(Mirrors) : Sound(m) /\ ~Exists(Out)}]
     IN Become(p, [c EXCEPT !.at = IF Exists(Out) THEN "failed" ELSE "choosing"])
  /\ UNCHANGED <<disk, writer, clerk, replays, damaged, crashes>>

TryMirror(p) ==
  /\ copier[p].at = "choosing" /\ copier[p].left # <<>>
  /\ LET mirror == Head(copier[p].left)
         c == [copier[p] EXCEPT !.left = Tail(@)]
     IN Become(p, IF Sound(mirror) THEN Copying(c, mirror, Out) ELSE c)
  /\ UNCHANGED <<disk, writer, clerk, replays, damaged, crashes>>

NoMirrorLeft(p) ==
  /\ copier[p].at = "choosing" /\ copier[p].left = <<>>
  /\ Step(p, "failed")
  /\ UNCHANGED <<disk, writer, clerk, replays, damaged, crashes>>

\* _copy_bundle: into a staging directory, skipping what is not there; the report is
\* written anew.
CopyFile(p) ==
  /\ copier[p].at = "copying" /\ copier[p].files < Len(COPY_FILES)
  /\ LET c == copier[p]
         name == COPY_FILES[c.files + 1]
         found == Exists(c.from) /\ name \in DOMAIN disk[c.from]
     IN Become(p, [c EXCEPT !.files = @ + 1,
                            !.staged = IF found THEN With(@, name, disk[c.from][name]) ELSE @])
  /\ UNCHANGED <<disk, writer, clerk, replays, damaged, crashes>>

\* The copy is validated, not only its source, and its report written from it.
CheckCopy(p) ==
  /\ copier[p].at = "copying" /\ copier[p].files = Len(COPY_FILES)
  /\ LET c == copier[p]
     IN IF Validate(c.staged, Run)
        THEN Become(p, [c EXCEPT !.at = "placing", !.staged = With(@, "report", Run)])
        ELSE Reject(p)
  /\ UNCHANGED <<disk, writer, clerk, replays, damaged, crashes>>

SeeIfVacant(p) ==
  /\ copier[p].at = "placing"
  /\ IF Exists(copier[p].to) THEN Forestalled(p) ELSE Step(p, "renaming")
  /\ UNCHANGED <<disk, writer, clerk, replays, damaged, crashes>>

\* os.rename puts a directory only where there is none (or an empty one).
RenameOver(p) ==   \* faulty variant: it replaces what is there
  /\ copier[p].at = "renaming"
  /\ Put(copier[p].to, copier[p].staged) /\ Done(p)
  /\ UNCHANGED <<writer, clerk, replays, damaged, crashes>>
Rename(p) ==
  /\ copier[p].at = "renaming"
  /\ IF Exists(copier[p].to) THEN Forestalled(p) /\ UNCHANGED disk
     ELSE Put(copier[p].to, copier[p].staged) /\ Done(p)
  /\ UNCHANGED <<writer, clerk, replays, damaged, crashes>>

-----------------------------------------------------------------------------
(* Deaths and damage.                                                      *)

WriterDies ==
  /\ writer < 2 * Len(WriteOrder) /\ crashes < MaxCrashes
  /\ writer' = 2 * Len(WriteOrder) + 1 /\ crashes' = crashes + 1
  /\ UNCHANGED <<disk, clerk, copier, replays, damaged>>

ClerkDies ==
  /\ clerk # "idle" /\ crashes < MaxCrashes
  /\ clerk' = "idle" /\ crashes' = crashes + 1
  /\ UNCHANGED <<disk, writer, copier, replays, damaged>>

\* What was staged stays in a directory of its own that nobody reads.
CopierDies(p) ==
  /\ copier[p].at \notin {"idle", "done", "failed", "dead"} /\ crashes < MaxCrashes
  /\ Become(p, [Idle EXCEPT !.at = "dead"]) /\ crashes' = crashes + 1
  /\ UNCHANGED <<disk, writer, clerk, replays, damaged>>

\* A place is lost, loses a file, has one torn, or gets the bundle of another run.
Damage(place) ==
  /\ Exists(place) /\ damaged < MaxDamage
  /\ \/ disk' = Restrict(disk, DOMAIN disk \ {place})
     \/ \E name \in DOMAIN disk[place] :
          \/ Put(place, Restrict(disk[place], DOMAIN disk[place] \ {name}))
          \/ Put(place, With(disk[place], name, Torn))
     \/ Put(place, Complete(OtherRun))
  /\ damaged' = damaged + 1
  /\ copier' = [p \in Copiers |-> [copier[p] EXCEPT !.sound = @ \ {place}]]
  /\ UNCHANGED <<writer, clerk, replays, crashes>>

\* The run's process has not begun, or ended some time ago and mirrors hold its bundle.
EvidenceInit ==
  /\ \/ writer = 0 /\ disk = [place \in {} |-> NoFiles]
     \/ /\ writer = 2 * Len(WriteOrder)
        /\ \E held \in SUBSET ({Source} \cup Range(Mirrors)) :
             disk = [place \in held |-> Complete(Run)]
  /\ clerk = "idle"
  /\ copier = [p \in Copiers |-> Idle]
  /\ replays \in BOOLEAN
  /\ damaged = 0 /\ crashes = 0

CopierSteps(p) ==
  \/ BeginRecover(p) \/ \E mirror \in Range(Mirrors) : BeginMirror(p, mirror)
  \/ CompareExisting(p) \/ TryMirror(p) \/ NoMirrorLeft(p)
  \/ CopyFile(p) \/ CheckCopy(p) \/ SeeIfVacant(p) \/ Rename(p) \/ CopierDies(p)

EvidenceNext ==
  \/ WriteHalf \/ SignReceipt \/ WriteReceipt \/ WriterDies \/ ClerkDies
  \/ \E p \in Copiers : CopierSteps(p)
  \/ \E place \in Places : Damage(place)

EvidenceSpec == EvidenceInit /\ [][EvidenceNext]_evidence

-----------------------------------------------------------------------------
(* Properties.                                                             *)

\* A copy interrupted half-way, or made while its source changed, is never taken for a
\* bundle: what appears at an address is the whole, verified bundle of that address.
ArrivesWhole ==
  [][\A place \in DOMAIN disk' \ (DOMAIN disk \cup {Source}) :
       Intact(disk'[place]) /\ disk'[place]["manifest"] = Run]_evidence

\* "destination already exists and was left unchanged" (mirror.py): nothing but damage
\* changes a bundle that is in place, however copiers race for its address.
LeftUnchanged ==
  [][damaged' = damaged =>
       \A place \in DOMAIN disk \ {Source} :
         place \in DOMAIN disk' /\ disk'[place] = disk[place]]_evidence

\* "lose the original, lose all but one mirror, and the run can still be recovered"
\* (mirror.py): recovery fails only if no mirror was sound when it began and stayed so,
\* or its destination was there.
SurvivorRecovers ==
  \A p \in Copiers :
    copier[p].op = "recover" /\ copier[p].at = "failed" => copier[p].sound = {}
=============================================================================
