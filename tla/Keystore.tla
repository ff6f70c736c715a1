------------------------------- MODULE Keystore -------------------------------
(***************************************************************************)
(* Town processes calling Keystore.new_identity on directories they share: *)
(* identity_portable.py 94-459.  Every file operation is a step, so that   *)
(* processes interleave between them and may stop at any of them.          *)
(* A key is named by the call that generated it; an inode by the call that *)
(* claimed it.  What a key or a registry file holds besides is left out.   *)
(* That an entry's name is the key's own is left out too: only a user who  *)
(* copies key files makes them differ.                                     *)
(***************************************************************************)
EXTENDS Integers, FiniteSets

CONSTANTS
  Writers,
  Directories,   \* numbered in the order of their device and inode
  Names,
  HomeOf,        \* [Writers -> Directories], the keystore a process uses
  NameOf,        \* [Writers -> Names], the identity it asks for
  RegistryAt,    \* [Directories -> Directories], where registry.json really lives
  Lockable,      \* SUBSET (Writers \X Directories): flock works, and is permitted
  Denied,        \* SUBSET (Writers \X Directories): .lock may not be opened
  Settings,      \* whether os.link works, and how many calls each process makes
  Slow,          \* SUBSET Writers: may outlive _STAGED_ABANDONED_SECONDS
  MaxAttempts,   \* _write_registry stages this often (5)
  MaxCalls,      \* bound on the calls of a process
  MaxCrashes,    \* bound on the processes that stop in mid-call
  MaxErrors,     \* bound on the renames the system refuses
  Nobody

Calls == Writers \X (1..MaxCalls)
Paths == Directories \X Names

ASSUME ConstantsAssumption ==
  /\ Directories \subseteq Int /\ IsFiniteSet(Directories)
  /\ HomeOf \in [Writers -> Directories]
  /\ NameOf \in [Writers -> Names]
  /\ RegistryAt \in [Directories -> Directories]
  /\ Lockable \subseteq Writers \X Directories
  /\ Denied \subseteq (Writers \X Directories) \ Lockable
  /\ Settings \subseteq [links : BOOLEAN, budget : [Writers -> 0..MaxCalls]]
  /\ Slow \subseteq Writers
  /\ MaxAttempts \in Nat \ {0} /\ MaxCalls \in Nat /\ MaxCrashes \in Nat /\ MaxErrors \in Nat
  /\ Nobody \notin Calls /\ Nobody \notin Writers

VARIABLES
  setting,       \* constant in a behaviour: links (os.link works) and budget (calls)
  file,          \* the key files: absent, an empty claim, or a whole key
  registry,      \* [Directories -> SUBSET Calls], the keys each registry lists
  staged,        \* the staging files: the call each belongs to, and its directory
  abandoned,     \* those old enough for _remove_staged
  holder,        \* who holds each directory's .lock
  pc,            \* what each process does next
  calls,         \* how many calls each has begun
  passed,        \* the directories each has locked, or gone on without
  seen,          \* the key each has read
  copy,          \* the registry each is about to write
  attempt,       \* how often it has staged it
  answer,        \* the identity each last got
  failed,        \* the processes whose last call raised
  crashes, errors

disk == <<setting, file, registry, staged, abandoned>>
local == <<calls, passed, seen, copy, attempt>>
outcome == <<answer, failed>>
faults == <<crashes, errors>>
vars == <<disk, holder, pc, local, outcome, faults>>

Steps == {"idle", "reading", "checking", "locking", "completing", "staging", "linking",
          "claiming", "replacing", "withdrawing", "cleaning", "rereading", "registering",
          "writing", "publishing", "answering"}

Absent == [size |-> "absent", by |-> Nobody]
Empty(c) == [size |-> "empty", by |-> c]
Whole(c) == [size |-> "whole", by |-> c]

Call(w) == <<w, calls[w]>>
Path(w) == <<HomeOf[w], NameOf[w]>>
Registry(w) == RegistryAt[HomeOf[w]]
KeyFile(w) == file[Path(w)]

StagedKey(w) == [call |-> Call(w), in |-> HomeOf[w]]
StagedRegistry(w) == [call |-> Call(w), in |-> Registry(w)]

KeystoreInit ==
  /\ setting \in Settings
  /\ file = [p \in Paths |-> Absent]
  /\ registry = [d \in Directories |-> {}]
  /\ staged = {} /\ abandoned = {}
  /\ holder = [d \in Directories |-> Nobody]
  /\ pc = [w \in Writers |-> "idle"]
  /\ calls = [w \in Writers |-> 0]
  /\ passed = [w \in Writers |-> {}]
  /\ seen = [w \in Writers |-> Nobody]
  /\ copy = [w \in Writers |-> {}]
  /\ attempt = [w \in Writers |-> 0]
  /\ answer = [w \in Writers |-> Nobody]
  /\ failed = {}
  /\ crashes = 0 /\ errors = 0

-----------------------------------------------------------------------------
(* Leaving a call: the locks go with the process's file descriptors.       *)

Goto(w, step) == pc' = [pc EXCEPT ![w] = step]

Unlock(w) == holder' = [d \in Directories |-> IF holder[d] = w THEN Nobody ELSE holder[d]]

\* What a process remembered ends with its call.
Forget(w) ==
  /\ passed' = [passed EXCEPT ![w] = {}]
  /\ seen' = [seen EXCEPT ![w] = Nobody]
  /\ copy' = [copy EXCEPT ![w] = {}]
  /\ attempt' = [attempt EXCEPT ![w] = 0]
  /\ UNCHANGED calls

Leave(w) == Goto(w, "idle") /\ Unlock(w) /\ Forget(w)

Return(w) ==
  /\ Leave(w)
  /\ answer' = [answer EXCEPT ![w] = seen[w]]
  /\ failed' = failed \ {w}

Raise(w) == Leave(w) /\ failed' = failed \cup {w} /\ UNCHANGED answer

\* A step inside a call: it goes on, and nothing is decided.
Continue(w, step) == Goto(w, step) /\ UNCHANGED <<holder, outcome>>

-----------------------------------------------------------------------------
(* new_identity before the lock.                                           *)

Begin(w) ==
  /\ pc[w] = "idle"
  /\ calls[w] < setting.budget[w]
  /\ calls' = [calls EXCEPT ![w] = @ + 1]
  /\ Continue(w, "reading")
  /\ UNCHANGED <<disk, passed, seen, copy, attempt, faults>>

\* _identity_from_key outside the lock: an unwritten key is decided under it.
Glance(w) ==
  /\ pc[w] = "reading"
  /\ IF KeyFile(w).size = "whole"
     THEN seen' = [seen EXCEPT ![w] = KeyFile(w).by] /\ Continue(w, "checking")
     ELSE UNCHANGED seen /\ Continue(w, "locking")
  /\ UNCHANGED <<disk, calls, passed, copy, attempt, faults>>

\* A registered key is answered without the lock.
Check(w) ==
  /\ pc[w] = "checking"
  /\ IF seen[w] \in registry[Registry(w)]
     THEN Return(w)
     ELSE Continue(w, "locking") /\ UNCHANGED local
  /\ UNCHANGED <<disk, faults>>

-----------------------------------------------------------------------------
(* _locked and _directory_lock.                                            *)

ToPass(w) == {HomeOf[w], Registry(w)} \ passed[w]

\* Faulty variant: a process locks its own directory first.
OwnFirst(w) == IF HomeOf[w] \in ToPass(w) THEN {HomeOf[w]} ELSE ToPass(w)
Lowest(w) == {d \in ToPass(w) : \A e \in ToPass(w) : d <= e}

\* Faulty variant: the lock is shared.
Shareable(d) == TRUE
Free(d) == holder[d] = Nobody

\* _remove_staged.
Swept(d) == {s \in abandoned : s.in = d}

\* The keystore's own directory must be one the process may lock.
LockedOut(w, d) == d = HomeOf[w] /\ <<w, d>> \in Denied

\* A lock that is taken sweeps what dead writers left in its directory; where
\* none can be had, the process goes on with a warning.
Lock(w) ==
  /\ pc[w] = "locking"
  /\ \E d \in Lowest(w) :
        /\ ~LockedOut(w, d)
        /\ IF <<w, d>> \in Lockable
           THEN /\ Free(d)
                /\ holder' = [holder EXCEPT ![d] = w]
                /\ staged' = staged \ Swept(d)
                /\ abandoned' = abandoned \ Swept(d)
           ELSE UNCHANGED <<holder, staged, abandoned>>
        /\ passed' = [passed EXCEPT ![w] = @ \cup {d}]
        /\ Goto(w, IF ToPass(w) = {d} THEN "completing" ELSE "locking")
  /\ UNCHANGED <<setting, file, registry, calls, seen, copy, attempt, outcome, faults>>

LockDenied(w) ==
  /\ pc[w] = "locking"
  /\ \E d \in Lowest(w) : LockedOut(w, d)
  /\ Raise(w)
  /\ UNCHANGED <<disk, faults>>

-----------------------------------------------------------------------------
(* _complete_identity and _publish_key.                                    *)

\* A key that is only claimed is waited for; there is no step while it is empty.
Complete(w) ==
  /\ pc[w] = "completing"
  /\ \/ KeyFile(w) = Absent /\ UNCHANGED seen /\ Continue(w, "staging")
     \/ /\ KeyFile(w).size = "whole"
        /\ seen' = [seen EXCEPT ![w] = KeyFile(w).by]
        /\ Continue(w, "registering")
  /\ UNCHANGED <<disk, calls, passed, copy, attempt, faults>>

\* _UnwrittenKey after _KEY_WAIT_SECONDS, however slow its claimer is.
GiveUp(w) ==
  /\ pc[w] \in {"completing", "rereading"}
  /\ KeyFile(w).size = "empty"
  /\ Raise(w)
  /\ UNCHANGED <<disk, faults>>

StageKey(w) ==
  /\ pc[w] = "staging"
  /\ staged' = staged \cup {StagedKey(w)}
  /\ Continue(w, "linking")
  /\ UNCHANGED <<setting, file, registry, abandoned, local, faults>>

\* os.link, which fails if the path is there, and falls to a claim where links
\* do not work or the staged file is gone.
Link(w) ==
  /\ pc[w] = "linking"
  /\ IF ~setting.links \/ StagedKey(w) \notin staged
     THEN UNCHANGED file /\ Continue(w, "claiming")
     ELSE /\ file' = IF KeyFile(w) = Absent
                     THEN [file EXCEPT ![Path(w)] = Whole(Call(w))] ELSE file
          /\ Continue(w, "cleaning")
  /\ UNCHANGED <<setting, registry, staged, abandoned, local, faults>>

\* Faulty variant: the claim is not an exclusive create.
Creatable(w) == KeyFile(w).size # "whole"
Claimable(w) == KeyFile(w) = Absent

\* _claim, an exclusive create.
Claim(w) ==
  /\ pc[w] = "claiming"
  /\ IF Claimable(w)
     THEN file' = [file EXCEPT ![Path(w)] = Empty(Call(w))] /\ Continue(w, "replacing")
     ELSE UNCHANGED file /\ Continue(w, "cleaning")
  /\ UNCHANGED <<setting, registry, staged, abandoned, local, faults>>

\* os.replace over the claim: it replaces whatever is there.
Replace(w) ==
  /\ pc[w] = "replacing"
  /\ StagedKey(w) \in staged
  /\ file' = [file EXCEPT ![Path(w)] = Whole(Call(w))]
  /\ staged' = staged \ {StagedKey(w)}
  /\ abandoned' = abandoned \ {StagedKey(w)}
  /\ Continue(w, "cleaning")
  /\ UNCHANGED <<setting, registry, local, faults>>

\* The rename fails: the staged file was swept, or the system refuses.
ReplaceFails(w) ==
  /\ pc[w] = "replacing"
  /\ IF StagedKey(w) \in staged
     THEN errors < MaxErrors /\ errors' = errors + 1
     ELSE UNCHANGED errors
  /\ Continue(w, "withdrawing")
  /\ UNCHANGED <<disk, local, crashes>>

OwnClaim(w) == KeyFile(w) = Empty(Call(w))

\* _withdraw_claim, the finally that unlinks the staged file, and the error.
\* lstat and unlink are one step: nobody replaces a claim but its claimer.
Withdraw(w) ==
  /\ pc[w] = "withdrawing"
  /\ file' = IF OwnClaim(w) THEN [file EXCEPT ![Path(w)] = Absent] ELSE file
  /\ staged' = staged \ {StagedKey(w)}
  /\ abandoned' = abandoned \ {StagedKey(w)}
  /\ Raise(w)
  /\ UNCHANGED <<setting, registry, faults>>

Clean(w) ==
  /\ pc[w] = "cleaning"
  /\ staged' = staged \ {StagedKey(w)}
  /\ abandoned' = abandoned \ {StagedKey(w)}
  /\ Continue(w, "rereading")
  /\ UNCHANGED <<setting, file, registry, local, faults>>

\* Faulty variant: the process answers with the key it generated.
OwnKey(w) == Call(w)
KeyOnDisk(w) == KeyFile(w).by

\* The identity is that of the key on disk, whoever put it there.
Reread(w) ==
  /\ pc[w] = "rereading"
  /\ \/ /\ KeyFile(w).size = "whole"
        /\ seen' = [seen EXCEPT ![w] = KeyOnDisk(w)]
        /\ Continue(w, "registering")
        /\ UNCHANGED <<calls, passed, copy, attempt>>
     \/ KeyFile(w) = Absent /\ Raise(w)
  /\ UNCHANGED <<disk, faults>>

-----------------------------------------------------------------------------
(* The registry entry.                                                     *)

\* Faulty variant: the registry is replaced by the new entry alone.
OnlyTheEntry(w) == {seen[w]}
WithEntry(w) == registry[Registry(w)] \cup {seen[w]}

ReadRegistry(w) ==
  /\ pc[w] = "registering"
  /\ IF seen[w] \in registry[Registry(w)]
     THEN UNCHANGED copy /\ Continue(w, "answering")
     ELSE copy' = [copy EXCEPT ![w] = WithEntry(w)] /\ Continue(w, "writing")
  /\ UNCHANGED <<disk, calls, passed, seen, attempt, faults>>

StageRegistry(w) ==
  /\ pc[w] = "writing"
  /\ staged' = staged \cup {StagedRegistry(w)}
  /\ attempt' = [attempt EXCEPT ![w] = @ + 1]
  /\ Continue(w, "publishing")
  /\ UNCHANGED <<setting, file, registry, abandoned, calls, passed, seen, copy, faults>>

PublishRegistry(w) ==
  /\ pc[w] = "publishing"
  /\ StagedRegistry(w) \in staged
  /\ registry' = [registry EXCEPT ![Registry(w)] = copy[w]]
  /\ staged' = staged \ {StagedRegistry(w)}
  /\ abandoned' = abandoned \ {StagedRegistry(w)}
  /\ Continue(w, "answering")
  /\ UNCHANGED <<setting, file, local, faults>>

\* Faulty variant: one attempt too many.
AttemptsUpTo(w) == attempt[w] <= MaxAttempts
AttemptsLeft(w) == attempt[w] < MaxAttempts

\* Another process swept the staged registry: stage it again, MaxAttempts times.
StageAgain(w) ==
  /\ pc[w] = "publishing"
  /\ StagedRegistry(w) \notin staged
  /\ IF AttemptsLeft(w)
     THEN Continue(w, "writing") /\ UNCHANGED local
     ELSE Raise(w)
  /\ UNCHANGED <<disk, faults>>

PublishFails(w) ==
  /\ pc[w] = "publishing"
  /\ StagedRegistry(w) \in staged
  /\ errors < MaxErrors
  /\ errors' = errors + 1
  /\ staged' = staged \ {StagedRegistry(w)}
  /\ abandoned' = abandoned \ {StagedRegistry(w)}
  /\ Raise(w)
  /\ UNCHANGED <<setting, file, registry, crashes>>

Finish(w) == pc[w] = "answering" /\ Return(w) /\ UNCHANGED <<disk, faults>>

-----------------------------------------------------------------------------
(* The environment.                                                        *)

Crash(w) ==
  /\ pc[w] # "idle"
  /\ crashes < MaxCrashes
  /\ crashes' = crashes + 1
  /\ Leave(w)
  /\ UNCHANGED <<disk, outcome, errors>>

Alive(c) == pc[c[1]] # "idle" /\ calls[c[1]] = c[2]

\* A staged file's age passes _STAGED_ABANDONED_SECONDS.
Age ==
  /\ \E s \in staged \ abandoned :
       /\ Alive(s.call) => s.call[1] \in Slow
       /\ abandoned' = abandoned \cup {s}
  /\ UNCHANGED <<setting, file, registry, staged, holder, pc, local, outcome, faults>>

\* The user deletes an abandoned claim, as the error asks, no Town running.
DeleteClaim ==
  /\ \A w \in Writers : pc[w] = "idle"
  /\ \E p \in Paths : file[p].size = "empty" /\ file' = [file EXCEPT ![p] = Absent]
  /\ UNCHANGED <<setting, registry, staged, abandoned, holder, pc, local, outcome, faults>>

\* What a process does by itself once it is called.
Act(w) ==
  \/ Glance(w) \/ Check(w) \/ Lock(w) \/ LockDenied(w) \/ Complete(w) \/ GiveUp(w) \/ StageKey(w)
  \/ Link(w) \/ Claim(w) \/ Replace(w) \/ ReplaceFails(w) \/ Withdraw(w) \/ Clean(w)
  \/ Reread(w) \/ ReadRegistry(w) \/ StageRegistry(w) \/ PublishRegistry(w)
  \/ StageAgain(w) \/ PublishFails(w) \/ Finish(w)

KeystoreNext ==
  \/ \E w \in Writers : Begin(w) \/ Act(w) \/ Crash(w)
  \/ Age
  \/ DeleteClaim

KeystoreSpec == KeystoreInit /\ [][KeystoreNext]_vars

\* The code never waits but for a lock and, at most 5 s, for a claimed key.
FairKeystoreSpec == KeystoreSpec /\ \A w \in Writers : WF_vars(Act(w))

-----------------------------------------------------------------------------
(* Properties.                                                             *)

Files == {Absent} \cup {Empty(c) : c \in Calls} \cup {Whole(c) : c \in Calls}
StagingFiles == [call : Calls, in : Directories]

\* Every variable keeps its type.
KeystoreTypeOK ==
  /\ setting \in Settings
  /\ file \in [Paths -> Files]
  /\ registry \in [Directories -> SUBSET Calls]
  /\ staged \subseteq StagingFiles /\ abandoned \subseteq staged
  /\ holder \in [Directories -> Writers \cup {Nobody}]
  /\ pc \in [Writers -> Steps]
  /\ calls \in [Writers -> 0..MaxCalls]
  /\ passed \in [Writers -> SUBSET Directories]
  /\ seen \in [Writers -> Calls \cup {Nobody}]
  /\ copy \in [Writers -> SUBSET Calls]
  /\ attempt \in [Writers -> 0..MaxAttempts]
  /\ answer \in [Writers -> Calls \cup {Nobody}]
  /\ failed \subseteq Writers
  /\ crashes \in 0..MaxCrashes /\ errors \in 0..MaxErrors

\* A controller key, once written, is never replaced nor removed, whether or
\* not any writer holds the lock, links work, or processes stop (docstrings of
\* Keystore and _publish_key).
KeyNeverReplaced ==
  [][\A p \in Paths : file[p].size = "whole" => file'[p] = file[p]]_file

\* All processes that ever got the identity of a name got the same one, and it
\* is that of the key on disk: no call answers with a key that lost its race.
AnswersAgree ==
  \A w \in Writers : answer[w] # Nobody => KeyFile(w) = Whole(answer[w])

\* The processes that share directories only with processes that can lock them.
Uses(w) == {HomeOf[w], Registry(w)}
Locking ==
  {w \in Writers : \A v \in Writers :
     Uses(v) \cap Uses(w) # {} => {v} \X Uses(v) \subseteq Lockable}

\* Where locks work, a call raises only because of something outside the
\* program: a rename the system refused, or the claim of a process that stopped
\* before writing it, which only happens without hard links.
RaisesOnlyOnFaults ==
  failed \cap Locking # {} => errors > 0 \/ (crashes > 0 /\ ~setting.links)

\* Those of them that share directories, through however many others, with no process else.
Closed(S) == \A w \in S, v \in Writers : Uses(v) \cap Uses(w) # {} => v \in S
Secluded == {w \in Locking : \E S \in SUBSET Locking : w \in S /\ Closed(S)}

LockedPathOf == [w \in Secluded |-> Path(w)]
LockedRegistryOf == [w \in Secluded |-> Registry(w)]
LockedPaths == {Path(w) : w \in Secluded}
LockedRegistries == {Registry(w) : w \in Secluded}

\* What the atomic keystore is seen to be: a whole key file is the name's key.
KeysSeen == [p \in LockedPaths |-> IF file[p].size = "whole" THEN file[p].by ELSE Nobody]
EntriesSeen == [d \in LockedRegistries |-> registry[d]]
AnswersSeen == [w \in Secluded |-> answer[w]]

Promise == INSTANCE Identities WITH
  Writers <- Secluded, Keys <- Calls,
  Paths <- LockedPaths, Registries <- LockedRegistries,
  PathOf <- LockedPathOf, RegistryOf <- LockedRegistryOf,
  key <- KeysSeen, registered <- EntriesSeen, answer <- AnswersSeen

\* Among them, no registry entry is ever lost and an identity is handed
\* out only once its key and entry exist, whatever stops in between.
KeepsPromise == Promise!Spec

\* No two keystores wait on each other: every call ends, and as each process makes
\* so many, all come to rest.
CallsEnd == []<>(\A w \in Writers : pc[w] = "idle")
=============================================================================
