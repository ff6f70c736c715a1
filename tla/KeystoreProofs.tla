---------------------------- MODULE KeystoreProofs ----------------------------
(* Proofs about Keystore: its types; that no written key is ever replaced, and *)
(* that all answers agree, with or without locks and hard links.               *)
EXTENDS Keystore, TLAPS

\* A process about to rename over a claim is the one that made it.
ClaimsAreOwn == \A w \in Writers : pc[w] = "replacing" => KeyFile(w) = Empty(Call(w))

Knowing == {"checking", "registering", "writing", "publishing", "answering"}

\* What a process knows as the identity is the key on disk.
KnownIsOnDisk == \A w \in Writers : pc[w] \in Knowing => KeyFile(w) = Whole(seen[w])

\* A call under way has a number of its own.
Begun == \A w \in Writers : pc[w] # "idle" => calls[w] >= 1

\* Restaging stops in time.
Attempts ==
  \A w \in Writers : /\ pc[w] \in {"publishing"} => attempt[w] >= 1
                     /\ pc[w] = "writing" => attempt[w] < MaxAttempts
                     /\ pc[w] \notin {"writing", "publishing", "answering"} => attempt[w] = 0

TypeInv == KeystoreTypeOK /\ Begun /\ Attempts

USE DEF disk, local, outcome, faults

\* The call of a process under way is one of Calls.
LEMMA CallTypes ==
  ASSUME TypeInv, NEW w \in Writers, pc[w] # "idle"
  PROVE  Call(w) \in Calls
BY DEF TypeInv, KeystoreTypeOK, Begun, Call, Calls

\* Every path a process uses is one.
LEMMA PathTypes ==
  ASSUME NEW w \in Writers
  PROVE  Path(w) \in Paths /\ HomeOf[w] \in Directories /\ Registry(w) \in Directories
BY ConstantsAssumption DEF Path, Paths, Registry

\* The initial state has its types.
LEMMA InitTypes == KeystoreInit => TypeInv
BY ConstantsAssumption DEF KeystoreInit, TypeInv, KeystoreTypeOK, Begun, Attempts, Files, Steps

\* Leaving a call keeps the types of what is local to processes.
LEMMA LeaveTypes ==
  ASSUME TypeInv, NEW w \in Writers, Leave(w)
  PROVE  /\ holder' \in [Directories -> Writers \cup {Nobody}]
         /\ pc' = [pc EXCEPT ![w] = "idle"] /\ pc' \in [Writers -> Steps]
         /\ calls' = calls /\ attempt' = [attempt EXCEPT ![w] = 0]
         /\ passed' \in [Writers -> SUBSET Directories]
         /\ seen' \in [Writers -> Calls \cup {Nobody}]
         /\ copy' \in [Writers -> SUBSET Calls]
         /\ attempt' \in [Writers -> 0..MaxAttempts]
         /\ Begun' /\ Attempts'
<1>1. /\ pc' = [pc EXCEPT ![w] = "idle"] /\ calls' = calls
      /\ attempt' = [attempt EXCEPT ![w] = 0]
  BY DEF Leave, Goto, Forget
<1>2. "idle" \in Steps /\ 0 \in 0..MaxAttempts
  BY ConstantsAssumption DEF Steps
<1>3. holder' \in [Directories -> Writers \cup {Nobody}]
  BY DEF Leave, Unlock, TypeInv, KeystoreTypeOK
<1>4. /\ passed' \in [Writers -> SUBSET Directories]
      /\ seen' \in [Writers -> Calls \cup {Nobody}]
      /\ copy' \in [Writers -> SUBSET Calls]
  BY DEF Leave, Forget, TypeInv, KeystoreTypeOK
<1>5. pc' \in [Writers -> Steps] /\ attempt' \in [Writers -> 0..MaxAttempts]
  BY <1>1, <1>2 DEF TypeInv, KeystoreTypeOK
<1>6. Begun' /\ Attempts'
  BY <1>1 DEF TypeInv, KeystoreTypeOK, Begun, Attempts
<1> QED BY <1>1, <1>3, <1>4, <1>5, <1>6

\* A call that returns or raises keeps every type, if the disk does.
LEMMA EndTypes ==
  ASSUME TypeInv, NEW w \in Writers, Raise(w) \/ (Return(w) /\ seen[w] \in Calls),
         setting' = setting, file' \in [Paths -> Files],
         registry' \in [Directories -> SUBSET Calls],
         staged' \subseteq StagingFiles, abandoned' \subseteq staged',
         crashes' = crashes, errors' \in 0..MaxErrors
  PROVE  TypeInv'
<1>1. Leave(w)
  BY DEF Return, Raise
<1>2. answer' \in [Writers -> Calls \cup {Nobody}] /\ failed' \subseteq Writers
  BY DEF Return, Raise, TypeInv, KeystoreTypeOK
<1> QED BY <1>1, <1>2, LeaveTypes DEF TypeInv, KeystoreTypeOK

\* What the files of a well-typed keystore are.
LEMMA FileTypes ==
  ASSUME NEW f \in Files
  PROVE  /\ f.size \in {"absent", "empty", "whole"}
         /\ f.size = "absent" => f = Absent
         /\ f.size = "whole" => f.by \in Calls /\ f = Whole(f.by)
         /\ f.size = "empty" => f.by \in Calls /\ f = Empty(f.by)
BY DEF Files, Absent, Empty, Whole

\* A step inside a call that only moves its process keeps the types, if the
\* variables it writes keep theirs.
LEMMA ContinueTypes ==
  ASSUME TypeInv, NEW w \in Writers, NEW step \in Steps \ {"idle"},
         pc[w] # "idle", Continue(w, step), calls' = calls, setting' = setting,
         file' \in [Paths -> Files],
         registry' \in [Directories -> SUBSET Calls],
         staged' \subseteq StagingFiles, abandoned' \subseteq staged',
         passed' \in [Writers -> SUBSET Directories],
         seen' \in [Writers -> Calls \cup {Nobody}],
         copy' \in [Writers -> SUBSET Calls],
         crashes' = crashes, errors' \in 0..MaxErrors,
         NEW n \in 0..MaxAttempts, attempt' = [attempt EXCEPT ![w] = n],
         /\ step = "publishing" => n >= 1
         /\ step = "writing" => n < MaxAttempts
         /\ step \notin {"writing", "publishing", "answering"} => n = 0
  PROVE  TypeInv'
<1>1. pc' = [pc EXCEPT ![w] = step]
  BY DEF Continue, Goto
<1>2. pc' \in [Writers -> Steps] /\ attempt' \in [Writers -> 0..MaxAttempts]
  BY <1>1 DEF TypeInv, KeystoreTypeOK
<1>3. holder' = holder /\ answer' = answer /\ failed' = failed
  BY DEF Continue
<1>4. Begun' /\ Attempts'
  BY <1>1 DEF TypeInv, KeystoreTypeOK, Begun, Attempts
<1> QED BY <1>2, <1>3, <1>4 DEF TypeInv, KeystoreTypeOK

\* Every step of a process in a call keeps the types.
LEMMA ActTypes ==
  ASSUME TypeInv, KnownIsOnDisk, NEW w \in Writers, Act(w)
  PROVE  TypeInv'
<1> DEFINE c == Call(w)
<1>0. /\ pc[w] # "idle" => c \in Calls
      /\ Path(w) \in Paths /\ HomeOf[w] \in Directories /\ Registry(w) \in Directories
  BY CallTypes, PathTypes
<1>1. /\ file \in [Paths -> Files] /\ registry \in [Directories -> SUBSET Calls]
      /\ staged \subseteq StagingFiles /\ abandoned \subseteq staged
      /\ passed \in [Writers -> SUBSET Directories]
      /\ seen \in [Writers -> Calls \cup {Nobody}]
      /\ copy \in [Writers -> SUBSET Calls]
      /\ attempt \in [Writers -> 0..MaxAttempts] /\ pc \in [Writers -> Steps]
      /\ crashes \in 0..MaxCrashes /\ errors \in 0..MaxErrors
  BY DEF TypeInv, KeystoreTypeOK
<1>2. KeyFile(w) \in Files
  BY <1>0, <1>1 DEF KeyFile
<1>3. /\ KeyFile(w).size = "whole" => KeyFile(w).by \in Calls
      /\ pc[w] \in Knowing => seen[w] \in Calls
  <2>1. KeyFile(w).size = "whole" => KeyFile(w).by \in Calls
    BY <1>2, FileTypes
  <2>2. ASSUME pc[w] \in Knowing PROVE seen[w] \in Calls
    <3>1. KeyFile(w) = Whole(seen[w])
      BY <2>2 DEF KnownIsOnDisk
    <3> QED BY <3>1, <2>1 DEF Whole
  <2> QED BY <2>1, <2>2
<1>4. /\ pc[w] # "idle" => [file EXCEPT ![Path(w)] = Whole(c)] \in [Paths -> Files]
      /\ pc[w] # "idle" => [file EXCEPT ![Path(w)] = Empty(c)] \in [Paths -> Files]
      /\ [file EXCEPT ![Path(w)] = Absent] \in [Paths -> Files]
  BY <1>0, <1>1 DEF Files
<1>5. pc[w] # "idle" => StagedKey(w) \in StagingFiles /\ StagedRegistry(w) \in StagingFiles
  BY <1>0 DEF StagedKey, StagedRegistry, StagingFiles
<1>6. /\ pc[w] \notin {"writing", "publishing", "answering"} => attempt[w] = 0
      /\ pc[w] = "publishing" => attempt[w] >= 1
      /\ pc[w] = "writing" => attempt[w] < MaxAttempts
      /\ attempt = [attempt EXCEPT ![w] = attempt[w]] /\ attempt[w] \in 0..MaxAttempts
      /\ 0 \in 0..MaxAttempts /\ 0 < MaxAttempts
  BY <1>1, ConstantsAssumption DEF TypeInv, Attempts
<1>7. Steps \ {"idle"} = {"reading", "checking", "locking", "completing", "staging",
        "linking", "claiming", "replacing", "withdrawing", "cleaning", "rereading",
        "registering", "writing", "publishing", "answering"}
  BY DEF Steps
<1>8. errors < MaxErrors => errors + 1 \in 0..MaxErrors
  BY <1>1, ConstantsAssumption
<1>9. attempt[w] < MaxAttempts => attempt[w] + 1 \in 0..MaxAttempts /\ attempt[w] + 1 >= 1
  BY <1>6, ConstantsAssumption
<1> HIDE DEF c
<1>10. CASE Glance(w)
  BY <1>10, <1>1, <1>2, <1>3, <1>6, <1>7, ContinueTypes DEF Glance
<1>11. CASE Check(w)
  <2>1. CASE Return(w)
    BY <1>11, <2>1, <1>1, <1>3, EndTypes DEF Check, Knowing
  <2>2. CASE ~Return(w)
    BY <1>11, <2>2, <1>1, <1>6, <1>7, ContinueTypes DEF Check
  <2> QED BY <2>1, <2>2
<1>12. CASE Lock(w)
  <2>1. PICK d \in Lowest(w) :
           /\ IF <<w, d>> \in Lockable
              THEN /\ Free(d)
                   /\ holder' = [holder EXCEPT ![d] = w]
                   /\ staged' = staged \ Swept(d)
                   /\ abandoned' = abandoned \ Swept(d)
              ELSE UNCHANGED <<holder, staged, abandoned>>
           /\ passed' = [passed EXCEPT ![w] = @ \cup {d}]
           /\ Goto(w, IF ToPass(w) = {d} THEN "completing" ELSE "locking")
    BY <1>12 DEF Lock
  <2>2. d \in Directories
    BY <1>0 DEF Lowest, ToPass
  <2>3. PICK step \in {"completing", "locking"} : pc' = [pc EXCEPT ![w] = step]
    BY <2>1 DEF Goto
  <2>4. /\ holder' \in [Directories -> Writers \cup {Nobody}]
        /\ passed' \in [Writers -> SUBSET Directories]
        /\ staged' \subseteq StagingFiles /\ abandoned' \subseteq staged'
    BY <2>1, <2>2, <1>1 DEF TypeInv, KeystoreTypeOK
  <2>5. pc' \in [Writers -> Steps] /\ Begun' /\ Attempts'
    BY <1>12, <2>3, <1>1, <1>7 DEF TypeInv, KeystoreTypeOK, Begun, Attempts, Lock
  <2> QED BY <1>12, <2>4, <2>5 DEF TypeInv, KeystoreTypeOK, Lock
<1>13. CASE Complete(w)
  BY <1>13, <1>1, <1>2, <1>3, <1>6, <1>7, ContinueTypes DEF Complete
<1>14. CASE GiveUp(w)
  BY <1>14, <1>1, EndTypes DEF GiveUp
<1>29. CASE LockDenied(w)
  BY <1>29, <1>1, EndTypes DEF LockDenied
<1>15. CASE StageKey(w)
  BY <1>15, <1>1, <1>5, <1>6, <1>7, ContinueTypes DEF StageKey
<1>16. CASE Link(w)
  BY <1>16, <1>1, <1>4, <1>6, <1>7, ContinueTypes DEF Link, c
<1>17. CASE Claim(w)
  BY <1>17, <1>1, <1>4, <1>6, <1>7, ContinueTypes DEF Claim, c
<1>18. CASE Replace(w)
  BY <1>18, <1>1, <1>4, <1>6, <1>7, ContinueTypes DEF Replace, c
<1>19. CASE ReplaceFails(w)
  <2>1. errors' \in 0..MaxErrors
    BY <1>19, <1>1, <1>8 DEF ReplaceFails
  <2> QED BY <1>19, <2>1, <1>1, <1>6, <1>7, ContinueTypes DEF ReplaceFails
<1>20. CASE Withdraw(w)
  <2>1. file' \in [Paths -> Files]
    BY <1>20, <1>1, <1>4 DEF Withdraw
  <2>2. staged' \subseteq StagingFiles /\ abandoned' \subseteq staged'
    BY <1>20, <1>1 DEF Withdraw
  <2> QED BY <1>20, <2>1, <2>2, <1>1, EndTypes DEF Withdraw
<1>21. CASE Clean(w)
  BY <1>21, <1>1, <1>6, <1>7, ContinueTypes DEF Clean
<1>22. CASE Reread(w)
  <2>1. CASE KeyFile(w).size = "whole" /\ Continue(w, "registering")
    BY <1>22, <2>1, <1>1, <1>3, <1>6, <1>7, ContinueTypes DEF Reread, KeyOnDisk, Absent
  <2>2. CASE Raise(w)
    BY <1>22, <2>2, <1>1, EndTypes DEF Reread
  <2> QED BY <1>22, <2>1, <2>2 DEF Reread
<1>23. CASE ReadRegistry(w)
  BY <1>23, <1>1, <1>0, <1>3, <1>6, <1>7, ContinueTypes DEF ReadRegistry, WithEntry, Knowing
<1>24. CASE StageRegistry(w)
  <2>1. staged' \subseteq StagingFiles /\ abandoned' \subseteq staged'
    BY <1>24, <1>1, <1>5 DEF StageRegistry
  <2>2. /\ attempt' = [attempt EXCEPT ![w] = attempt[w] + 1]
        /\ attempt[w] + 1 \in 0..MaxAttempts /\ attempt[w] + 1 >= 1
    BY <1>24, <1>6, <1>9 DEF StageRegistry
  <2> QED BY <1>24, <2>1, <2>2, <1>1, <1>7, ContinueTypes DEF StageRegistry
<1>25. CASE PublishRegistry(w)
  BY <1>25, <1>1, <1>6, <1>7, ContinueTypes DEF PublishRegistry
<1>26. CASE StageAgain(w)
  <2>1. CASE AttemptsLeft(w)
    BY <1>26, <2>1, <1>1, <1>6, <1>7, ContinueTypes DEF StageAgain, AttemptsLeft
  <2>2. CASE Raise(w)
    BY <1>26, <2>2, <1>1, EndTypes DEF StageAgain
  <2> QED BY <1>26, <2>1, <2>2 DEF StageAgain
<1>27. CASE PublishFails(w)
  <2>1. errors' \in 0..MaxErrors
    BY <1>27, <1>1, <1>8 DEF PublishFails
  <2>2. staged' \subseteq StagingFiles /\ abandoned' \subseteq staged'
    BY <1>27, <1>1 DEF PublishFails
  <2> QED BY <1>27, <2>1, <2>2, <1>1, EndTypes DEF PublishFails
<1>28. CASE Finish(w)
  BY <1>28, <1>1, <1>3, EndTypes DEF Finish, Knowing
<1> QED
  BY <1>10, <1>11, <1>12, <1>13, <1>14, <1>15, <1>16, <1>17, <1>18, <1>19, <1>20, <1>21,
     <1>22, <1>23, <1>24, <1>25, <1>26, <1>27, <1>28, <1>29 DEF Act

\* The types hold initially and through every step.
LEMMA NextTypes ==
  ASSUME TypeInv, KnownIsOnDisk, [KeystoreNext]_vars
  PROVE  TypeInv'
<1>1. CASE UNCHANGED vars
  BY <1>1 DEF vars, TypeInv, KeystoreTypeOK, Begun, Attempts
<1>2. ASSUME NEW w \in Writers, Begin(w) PROVE TypeInv'
  <2>0. setting.budget[w] \in 0..MaxCalls
    BY ConstantsAssumption DEF TypeInv, KeystoreTypeOK
  <2>1. /\ pc' = [pc EXCEPT ![w] = "reading"] /\ calls' = [calls EXCEPT ![w] = @ + 1]
        /\ calls \in [Writers -> 0..MaxCalls] /\ calls[w] < setting.budget[w]
        /\ "reading" \in Steps
    BY <1>2 DEF Begin, Continue, Goto, TypeInv, KeystoreTypeOK, Steps
  <2>2. calls[w] + 1 \in 0..MaxCalls /\ calls[w] + 1 >= 1
    BY <2>0, <2>1, ConstantsAssumption
  <2>3. calls' \in [Writers -> 0..MaxCalls] /\ pc' \in [Writers -> Steps]
    BY <2>1, <2>2 DEF TypeInv, KeystoreTypeOK
  <2>4. Begun' /\ Attempts'
    BY <1>2, <2>1, <2>2 DEF TypeInv, KeystoreTypeOK, Begun, Attempts, Begin
  <2> QED BY <1>2, <2>3, <2>4 DEF Begin, Continue, TypeInv, KeystoreTypeOK
<1>3. ASSUME NEW w \in Writers, Act(w) PROVE TypeInv'
  BY <1>3, ActTypes
<1>4. ASSUME NEW w \in Writers, Crash(w) PROVE TypeInv'
  <2>1. Leave(w) /\ UNCHANGED <<disk, outcome, errors>>
    BY <1>4 DEF Crash
  <2>2. crashes' \in 0..MaxCrashes
    BY <1>4, ConstantsAssumption DEF Crash, TypeInv, KeystoreTypeOK
  <2> QED BY <2>1, <2>2, LeaveTypes DEF TypeInv, KeystoreTypeOK
<1>5. CASE Age
  BY <1>5 DEF Age, TypeInv, KeystoreTypeOK, Begun, Attempts
<1>6. CASE DeleteClaim
  BY <1>6 DEF DeleteClaim, TypeInv, KeystoreTypeOK, Begun, Attempts, Files
<1> QED BY <1>1, <1>2, <1>3, <1>4, <1>5, <1>6 DEF KeystoreNext

-----------------------------------------------------------------------------
(* What one process does to the key files, and what it then knows.         *)

\* The only writes to a key file: over nothing, or over the process's own claim.
Writes(w, step) ==
  \/ file' = file /\ step # "replacing"
  \/ KeyFile(w) = Absent /\ step = "cleaning"
       /\ file' = [file EXCEPT ![Path(w)] = Whole(Call(w))]
  \/ KeyFile(w) = Absent /\ pc[w] = "claiming" /\ step = "replacing"
       /\ file' = [file EXCEPT ![Path(w)] = Empty(Call(w))]
  \/ KeyFile(w) = Empty(Call(w)) /\ step = "cleaning"
       /\ file' = [file EXCEPT ![Path(w)] = Whole(Call(w))]
  \/ KeyFile(w) = Empty(Call(w)) /\ step = "idle"
       /\ file' = [file EXCEPT ![Path(w)] = Absent]

\* A process knows only what it has read from a whole key file.
Learns(w, step) ==
  /\ \E s \in Calls \cup {Nobody} : seen' = [seen EXCEPT ![w] = s]
  /\ step \in Knowing => file' = file /\ KeyFile(w) = Whole(seen'[w])
  /\ \/ answer' = answer
     \/ answer' = [answer EXCEPT ![w] = seen[w]] /\ pc[w] \in Knowing /\ file' = file

\* Every step of a process writes and learns only in these ways.
LEMMA ProcessStep ==
  ASSUME TypeInv, ClaimsAreOwn, KnownIsOnDisk, NEW w \in Writers,
         Begin(w) \/ Act(w) \/ Crash(w)
  PROVE  /\ \A v \in Writers \ {w} : calls'[v] = calls[v]
         /\ pc[w] # "idle" => calls' = calls
         /\ \E step \in Steps :
              /\ pc' = [pc EXCEPT ![w] = step]
              /\ Writes(w, step)
              /\ Learns(w, step)
<1>1. /\ pc \in [Writers -> Steps] /\ calls \in [Writers -> 0..MaxCalls]
      /\ seen \in [Writers -> Calls \cup {Nobody}] /\ file \in [Paths -> Files]
      /\ answer \in [Writers -> Calls \cup {Nobody}]
      /\ seen = [seen EXCEPT ![w] = seen[w]] /\ seen[w] \in Calls \cup {Nobody}
  BY DEF TypeInv, KeystoreTypeOK
<1>2. KeyFile(w) \in Files
  BY <1>1, PathTypes DEF KeyFile
<1>3. KeyFile(w).size = "whole" => KeyFile(w) = Whole(KeyFile(w).by) /\ KeyFile(w).by \in Calls
  BY <1>2, FileTypes
<1>4. pc[w] = "replacing" => KeyFile(w) = Empty(Call(w))
  BY DEF ClaimsAreOwn
<1>5. pc[w] \in Knowing => KeyFile(w) = Whole(seen[w])
  BY DEF KnownIsOnDisk
<1>10. CASE Begin(w)
  BY <1>10, <1>1, <1>3, <1>4, <1>5
  DEF Begin, Continue, Raise, Return, Leave, Forget, Goto, Writes, Learns, Knowing, Steps
<1>11. CASE Crash(w)
  BY <1>11, <1>1, <1>3, <1>4, <1>5
  DEF Crash, Continue, Raise, Return, Leave, Forget, Goto, Writes, Learns, Knowing, Steps
<1>12. CASE Glance(w)
  BY <1>12, <1>1, <1>3, <1>4, <1>5
  DEF Glance, Continue, Raise, Return, Leave, Forget, Goto, Writes, Learns, Knowing, Steps
<1>13. CASE Check(w)
  BY <1>13, <1>1, <1>3, <1>4, <1>5
  DEF Check, Continue, Raise, Return, Leave, Forget, Goto, Writes, Learns, Knowing, Steps
<1>14. CASE Lock(w)
  BY <1>14, <1>1, <1>3, <1>4, <1>5
  DEF Lock, Continue, Raise, Return, Leave, Forget, Goto, Writes, Learns, Knowing, Steps
<1>15. CASE Complete(w)
  BY <1>15, <1>1, <1>3, <1>4, <1>5
  DEF Complete, Continue, Raise, Return, Leave, Forget, Goto, Writes, Learns, Knowing, Steps
<1>16. CASE GiveUp(w)
  BY <1>16, <1>1, <1>3, <1>4, <1>5
  DEF GiveUp, Continue, Raise, Return, Leave, Forget, Goto, Writes, Learns, Knowing, Steps
<1>31. CASE LockDenied(w)
  BY <1>31, <1>1, <1>3, <1>4, <1>5
  DEF LockDenied, Continue, Raise, Return, Leave, Forget, Goto, Writes, Learns, Knowing, Steps
<1>17. CASE StageKey(w)
  BY <1>17, <1>1, <1>3, <1>4, <1>5
  DEF StageKey, Continue, Raise, Return, Leave, Forget, Goto, Writes, Learns, Knowing, Steps
<1>18. CASE Link(w)
  BY <1>18, <1>1, <1>3, <1>4, <1>5
  DEF Link, Continue, Raise, Return, Leave, Forget, Goto, Writes, Learns, Knowing, Steps
<1>19. CASE Claim(w)
  BY <1>19, <1>1, <1>3, <1>4, <1>5
  DEF Claim, Claimable, Continue, Raise, Return, Leave, Forget, Goto, Writes, Learns, Knowing, Steps
<1>20. CASE Replace(w)
  BY <1>20, <1>1, <1>3, <1>4, <1>5
  DEF Replace, Continue, Raise, Return, Leave, Forget, Goto, Writes, Learns, Knowing, Steps
<1>21. CASE ReplaceFails(w)
  BY <1>21, <1>1, <1>3, <1>4, <1>5
  DEF ReplaceFails, Continue, Raise, Return, Leave, Forget, Goto, Writes, Learns, Knowing, Steps
<1>22. CASE Withdraw(w)
  BY <1>22, <1>1, <1>3, <1>4, <1>5
  DEF Withdraw, OwnClaim, Continue, Raise, Return, Leave, Forget, Goto, Writes, Learns, Knowing, Steps
<1>23. CASE Clean(w)
  BY <1>23, <1>1, <1>3, <1>4, <1>5
  DEF Clean, Continue, Raise, Return, Leave, Forget, Goto, Writes, Learns, Knowing, Steps
<1>24. CASE Reread(w)
  BY <1>24, <1>1, <1>3, <1>4, <1>5
  DEF Reread, KeyOnDisk, Continue, Raise, Return, Leave, Forget, Goto, Writes, Learns, Knowing, Steps
<1>25. CASE ReadRegistry(w)
  BY <1>25, <1>1, <1>3, <1>4, <1>5
  DEF ReadRegistry, Continue, Raise, Return, Leave, Forget, Goto, Writes, Learns, Knowing, Steps
<1>26. CASE StageRegistry(w)
  BY <1>26, <1>1, <1>3, <1>4, <1>5
  DEF StageRegistry, Continue, Raise, Return, Leave, Forget, Goto, Writes, Learns, Knowing, Steps
<1>27. CASE PublishRegistry(w)
  BY <1>27, <1>1, <1>3, <1>4, <1>5
  DEF PublishRegistry, Continue, Raise, Return, Leave, Forget, Goto, Writes, Learns, Knowing, Steps
<1>28. CASE StageAgain(w)
  BY <1>28, <1>1, <1>3, <1>4, <1>5
  DEF StageAgain, Continue, Raise, Return, Leave, Forget, Goto, Writes, Learns, Knowing, Steps
<1>29. CASE PublishFails(w)
  BY <1>29, <1>1, <1>3, <1>4, <1>5
  DEF PublishFails, Continue, Raise, Return, Leave, Forget, Goto, Writes, Learns, Knowing, Steps
<1>30. CASE Finish(w)
  BY <1>30, <1>1, <1>3, <1>4, <1>5
  DEF Finish, Continue, Raise, Return, Leave, Forget, Goto, Writes, Learns, Knowing, Steps
<1> QED
  BY <1>10, <1>11, <1>12, <1>13, <1>14, <1>15, <1>16, <1>17, <1>18, <1>19, <1>20, <1>21, <1>22, <1>23, <1>24, <1>25, <1>26, <1>27, <1>28, <1>29, <1>30, <1>31 DEF Act

-----------------------------------------------------------------------------
(* The key on disk.                                                        *)

KeystoreInv == TypeInv /\ ClaimsAreOwn /\ KnownIsOnDisk /\ AnswersAgree

\* Two processes never make the same call.
LEMMA CallsDiffer ==
  ASSUME NEW v \in Writers, NEW w \in Writers, v # w
  PROVE  Empty(Call(v)) # Empty(Call(w))
BY DEF Empty, Call

\* A step of a process leaves whole keys, and the claims of others, as they are.
LEMMA OthersKept ==
  ASSUME NEW w \in Writers, NEW step \in Steps, Writes(w, step),
         file \in [Paths -> Files]
  PROVE  /\ \A p \in Paths : file[p].size = "whole" => file'[p] = file[p]
         /\ \A v \in Writers \ {w} :
              KeyFile(v) = Empty(Call(v)) => file'[Path(v)] = Empty(Call(v))
<1>1. CASE file' = file
  BY <1>1, PathTypes DEF KeyFile
<1>2. CASE KeyFile(w) = Absent \/ KeyFile(w) = Empty(Call(w))
  <2>1. ASSUME NEW p \in Paths, p # Path(w) PROVE file'[p] = file[p]
    BY <2>1 DEF Writes
  <2>2. KeyFile(w).size # "whole" /\ KeyFile(w) = file[Path(w)]
    BY <1>2 DEF Absent, Empty, KeyFile
  <2>3. ASSUME NEW v \in Writers \ {w}, KeyFile(v) = Empty(Call(v))
        PROVE  Path(v) # Path(w)
    BY <1>2, <2>3, CallsDiffer DEF KeyFile, Absent, Empty
  <2>4. \A v \in Writers : Path(v) \in Paths /\ KeyFile(v) = file[Path(v)]
    BY PathTypes DEF KeyFile
  <2> QED BY <2>1, <2>2, <2>3, <2>4
<1> QED BY <1>1, <1>2 DEF Writes

\* A step of a process keeps the invariant, and replaces no key.
LEMMA ProcessKeeps ==
  ASSUME KeystoreInv, NEW w \in Writers, Begin(w) \/ Act(w) \/ Crash(w)
  PROVE  /\ ClaimsAreOwn' /\ KnownIsOnDisk' /\ AnswersAgree'
         /\ \A p \in Paths : file[p].size = "whole" => file'[p] = file[p]
<1>1. PICK step \in Steps :
         /\ pc' = [pc EXCEPT ![w] = step] /\ Writes(w, step) /\ Learns(w, step)
  BY ProcessStep DEF KeystoreInv
<1>2. /\ \A v \in Writers \ {w} : calls'[v] = calls[v]
      /\ pc[w] # "idle" => calls' = calls
  BY ProcessStep DEF KeystoreInv
<1>3. /\ file \in [Paths -> Files] /\ pc \in [Writers -> Steps]
      /\ seen \in [Writers -> Calls \cup {Nobody}]
      /\ answer \in [Writers -> Calls \cup {Nobody}]
  BY DEF KeystoreInv, TypeInv, KeystoreTypeOK
<1>4. /\ \A p \in Paths : file[p].size = "whole" => file'[p] = file[p]
      /\ \A v \in Writers \ {w} :
           KeyFile(v) = Empty(Call(v)) => file'[Path(v)] = Empty(Call(v))
  BY <1>1, <1>3, OthersKept
<1>5. \A v \in Writers : /\ Path(v) \in Paths /\ KeyFile(v) = file[Path(v)]
                         /\ KeyFile(v)' = file'[Path(v)]
  BY PathTypes DEF KeyFile, Path
<1>6. \A v \in Writers \ {w} : /\ pc'[v] = pc[v] /\ Call(v)' = Call(v)
                               /\ seen'[v] = seen[v]
                               /\ answer'[v] = answer[v]
  BY <1>1, <1>2, <1>3 DEF Learns, Call
<1>7. ClaimsAreOwn'
  <2>1. ASSUME NEW v \in Writers \ {w}, pc'[v] = "replacing"
        PROVE  KeyFile(v)' = Empty(Call(v)')
    BY <2>1, <1>4, <1>5, <1>6 DEF KeystoreInv, ClaimsAreOwn
  <2>2. ASSUME pc'[w] = "replacing" PROVE KeyFile(w)' = Empty(Call(w)')
    <3>1. step = "replacing"
      BY <2>2, <1>1, <1>3
    <3>2. pc[w] # "idle" /\ file' = [file EXCEPT ![Path(w)] = Empty(Call(w))]
      BY <3>1, <1>1 DEF Writes
    <3>3. Call(w)' = Call(w)
      BY <3>2, <1>2 DEF Call
    <3> QED BY <3>2, <3>3, <1>3, <1>5
  <2>3. QED BY <2>1, <2>2 DEF ClaimsAreOwn, Empty
<1>8. KnownIsOnDisk'
  <2>1. ASSUME NEW v \in Writers \ {w}, pc'[v] \in Knowing
        PROVE  KeyFile(v)' = Whole(seen'[v])
    BY <2>1, <1>4, <1>5, <1>6 DEF KeystoreInv, KnownIsOnDisk, Whole
  <2>2. ASSUME pc'[w] \in Knowing PROVE KeyFile(w)' = Whole(seen'[w])
    BY <2>2, <1>1, <1>3, <1>5 DEF Learns
  <2> QED BY <2>1, <2>2 DEF KnownIsOnDisk
<1>9. AnswersAgree'
  <2>1. ASSUME NEW v \in Writers, answer'[v] = answer[v], answer'[v] # Nobody
        PROVE  KeyFile(v)' = Whole(answer'[v])
    BY <2>1, <1>4, <1>5 DEF KeystoreInv, AnswersAgree, Whole
  <2>2. ASSUME answer'[w] # answer[w]
        PROVE  KeyFile(w)' = Whole(answer'[w])
    BY <2>2, <1>1, <1>3, <1>5 DEF Learns, KeystoreInv, KnownIsOnDisk
  <2> QED BY <2>1, <2>2, <1>6 DEF AnswersAgree
<1> QED BY <1>4, <1>7, <1>8, <1>9

\* Every step keeps the invariant and the keys.
LEMMA StepKeeps ==
  ASSUME KeystoreInv, [KeystoreNext]_vars
  PROVE  KeystoreInv' /\ \A p \in Paths : file[p].size = "whole" => file'[p] = file[p]
<1>1. TypeInv'
  BY NextTypes DEF KeystoreInv
<1>2. CASE UNCHANGED <<file, pc, calls, seen, answer>>
  BY <1>1, <1>2 DEF KeystoreInv, ClaimsAreOwn, KnownIsOnDisk, AnswersAgree, KeyFile, Call, Path
<1>3. ASSUME NEW w \in Writers, Begin(w) \/ Act(w) \/ Crash(w)
      PROVE  /\ ClaimsAreOwn' /\ KnownIsOnDisk' /\ AnswersAgree'
             /\ \A p \in Paths : file[p].size = "whole" => file'[p] = file[p]
  BY <1>3, ProcessKeeps
<1>4. CASE DeleteClaim
  <2>1. PICK q \in Paths : file[q].size = "empty" /\ file' = [file EXCEPT ![q] = Absent]
    BY <1>4 DEF DeleteClaim
  <2>2. /\ \A p \in Paths : file[p].size = "whole" => file'[p] = file[p]
        /\ \A w \in Writers : pc'[w] = "idle" /\ answer'[w] = answer[w]
    BY <1>4, <2>1 DEF DeleteClaim, KeystoreInv, TypeInv, KeystoreTypeOK
  <2>3. ClaimsAreOwn' /\ KnownIsOnDisk'
    BY <2>2 DEF ClaimsAreOwn, KnownIsOnDisk, Knowing
  <2>4. \A w \in Writers : /\ Path(w) \in Paths /\ KeyFile(w) = file[Path(w)]
                           /\ KeyFile(w)' = file'[Path(w)]
    BY PathTypes DEF KeyFile, Path
  <2>5. AnswersAgree'
    BY <2>2, <2>4 DEF KeystoreInv, AnswersAgree, Whole
  <2> QED BY <1>1, <2>2, <2>3, <2>5 DEF KeystoreInv
<1> QED
  BY <1>1, <1>2, <1>3, <1>4 DEF KeystoreNext, KeystoreInv, Age, vars

\* The invariant holds of every reachable state.
LEMMA KeystoreInvariance == KeystoreSpec => []KeystoreInv
<1>1. KeystoreInit => KeystoreInv
  <2>1. KeystoreInit => ClaimsAreOwn /\ KnownIsOnDisk /\ AnswersAgree
    BY DEF KeystoreInit, ClaimsAreOwn, KnownIsOnDisk, AnswersAgree, Knowing
  <2> QED BY <2>1, InitTypes DEF KeystoreInv
<1>2. KeystoreInv /\ [KeystoreNext]_vars => KeystoreInv'
  BY StepKeeps
<1> QED BY <1>1, <1>2, PTL DEF KeystoreSpec

\* Every variable of Keystore keeps its type, whatever locks and links do.
THEOREM KeystoreTypes == KeystoreSpec => []KeystoreTypeOK
<1>1. KeystoreInv => KeystoreTypeOK
  BY DEF KeystoreInv, TypeInv
<1> QED BY <1>1, KeystoreInvariance, PTL

\* All processes that get an identity get the key on disk, for any number of
\* processes and homes, with or without locks and hard links, whoever crashes.
THEOREM IdentitiesAgree == KeystoreSpec => []AnswersAgree
<1>1. KeystoreInv => AnswersAgree
  BY DEF KeystoreInv
<1> QED BY <1>1, KeystoreInvariance, PTL

\* No controller key, once written, is ever replaced or removed, under the same
\* assumptions: the exclusive create and the link suffice, the lock is not needed.
THEOREM KeysAreForEver == KeystoreSpec => KeyNeverReplaced
<1>1. KeystoreInv /\ [KeystoreNext]_vars
        => [\A p \in Paths : file[p].size = "whole" => file'[p] = file[p]]_file
  BY StepKeeps
<1> QED BY <1>1, KeystoreInvariance, PTL DEF KeystoreSpec, KeyNeverReplaced

-----------------------------------------------------------------------------
(* Where locks work, the keystore is the atomic one of Identities, and its *)
(* calls raise only on faults outside the program: for any number of       *)
(* processes, homes and registries, however they share directories.        *)

USE DEF disk, local, outcome, faults

\* The steps of a call that are made under the lock.
Inside == {"completing", "staging", "linking", "claiming", "replacing", "withdrawing",
           "cleaning", "rereading", "registering", "writing", "publishing", "answering"}

\* A process holds what it has locked, and inside it has passed all it uses.
LocksHeld ==
  \A w \in Writers :
    /\ \A d \in passed[w] : <<w, d>> \in Lockable => holder[d] = w
    /\ pc[w] \in Inside => Uses(w) \subseteq passed[w]
    /\ pc[w] # "locking" /\ pc[w] \notin Inside => passed[w] = {}

\* Nobody sweeps what a process that locks has staged.
StagingKept ==
  \A w \in Locking :
    /\ pc[w] \in {"linking", "claiming", "replacing"} => StagedKey(w) \in staged
    /\ pc[w] = "publishing" => StagedRegistry(w) \in staged
    /\ pc[w] = "withdrawing" => errors > 0

\* A claim that is empty is that of a process inside, or of one that stopped.
ClaimExplained ==
  \A w \in Locking :
    /\ pc[w] \in {"claiming", "replacing", "withdrawing"} => ~setting.links
    /\ pc[w] \in {"cleaning", "rereading"} => KeyFile(w) # Absent
    /\ KeyFile(w).size = "empty" =>
         \/ crashes > 0 /\ ~setting.links
         \/ \E v \in Writers : /\ Path(v) = Path(w) /\ pc[v] \in {"replacing", "withdrawing"}
                               /\ KeyFile(w) = Empty(Call(v))

\* What is written to a registry is what it holds and the new entry.
EntriesStay ==
  \A w \in Locking :
    /\ pc[w] \in {"writing", "publishing"} => copy[w] = registry[Registry(w)] \cup {seen[w]}
    /\ pc[w] = "answering" => seen[w] \in registry[Registry(w)]

LockInv ==
  /\ KeystoreInv /\ LocksHeld /\ StagingKept /\ ClaimExplained /\ EntriesStay
  /\ RaisesOnlyOnFaults

-----------------------------------------------------------------------------
(* What the lock gives.                                                    *)

\* Whoever uses a directory of a process that locks can lock it.
LEMMA UsersLock ==
  ASSUME NEW w \in Locking, NEW v \in Writers, NEW d \in Uses(v) \cap Uses(w)
  PROVE  w \in Writers /\ <<v, d>> \in Lockable /\ <<w, d>> \in Lockable
<1>1. w \in Writers /\ \A u \in Writers : Uses(u) \cap Uses(w) # {} => {u} \X Uses(u) \subseteq Lockable
  BY DEF Locking
<1>2. {v} \X Uses(v) \subseteq Lockable /\ {w} \X Uses(w) \subseteq Lockable
  BY <1>1
<1>3. <<v, d>> \in {v} \X Uses(v) /\ <<w, d>> \in {w} \X Uses(w)
  OBVIOUS
<1> QED BY <1>1, <1>2, <1>3

\* Of the processes that use a directory of one that locks, one at a time is inside.
LEMMA Alone ==
  ASSUME LocksHeld, NEW w \in Locking, NEW v \in Writers, NEW d \in Uses(v) \cap Uses(w),
         pc[v] \in Inside, pc[w] \in Inside
  PROVE  v = w
<1>1. w \in Writers /\ <<v, d>> \in Lockable /\ <<w, d>> \in Lockable
  BY UsersLock
<1>2. d \in passed[v] /\ d \in passed[w]
  BY <1>1 DEF LocksHeld
<1> QED BY <1>1, <1>2 DEF LocksHeld

\* Nobody else takes a lock while a process that locks is inside.
LEMMA HeldNotFree ==
  ASSUME LocksHeld, NEW w \in Locking, NEW d \in Uses(w), pc[w] \in Inside
  PROVE  ~Free(d)
<1>1. w \in Writers /\ <<w, d>> \in Lockable
  BY UsersLock DEF Locking
<1> QED BY <1>1, ConstantsAssumption DEF LocksHeld, Free

\* Two processes that ask for the same name in the same home share its directory.
LEMMA SameHome ==
  ASSUME NEW v \in Writers, NEW w \in Writers
  PROVE  /\ HomeOf[w] \in Uses(w) /\ Registry(w) \in Uses(w)
         /\ Path(v) = Path(w) => HomeOf[w] \in Uses(v) \cap Uses(w)
BY DEF Uses, Path

\* Of two processes that ask for the same name, both lock or none does.
LEMMA SameHomeLocks ==
  ASSUME NEW v \in Locking, NEW w \in Writers, Path(w) = Path(v)
  PROVE  w \in Locking
<1>1. Uses(w) = Uses(v)
  BY DEF Path, Uses, Registry
<1> QED BY <1>1 DEF Locking

-----------------------------------------------------------------------------
(* How a process comes to each step of a call, and what it leaves alone.   *)

Arrives(w, step) ==
  /\ step = "idle" => Leave(w)
  /\ step # "idle" => Lock(w) \/ (Continue(w, step) /\ passed' = passed)
  /\ step = "reading" => pc[w] = "idle"
  /\ step = "checking" => pc[w] = "reading"
  /\ step = "locking" => pc[w] \in {"reading", "checking"} \/ Lock(w)
  /\ step = "completing" => Lock(w)
  /\ step \in Inside \ {"completing"} => pc[w] \in Inside
  /\ step = "linking" => StageKey(w)
  /\ step = "claiming" => Link(w)
  /\ step = "replacing" => Claim(w)
  /\ step = "withdrawing" => ReplaceFails(w)
  /\ step = "cleaning" => Link(w) \/ Claim(w) \/ Replace(w)
  /\ step = "rereading" => Clean(w)
  /\ step = "writing" => ReadRegistry(w) \/ StageAgain(w)
  /\ step = "publishing" => StageRegistry(w)
  /\ step = "answering" => ReadRegistry(w) \/ PublishRegistry(w)

\* Every step of a process is to one step of a call, which it reaches in these ways.
LEMMA ProcessArrives ==
  ASSUME TypeInv, NEW w \in Writers, Begin(w) \/ Act(w) \/ Crash(w)
  PROVE  \E step \in Steps : pc' = [pc EXCEPT ![w] = step] /\ Arrives(w, step)
<1>1. pc \in [Writers -> Steps]
  BY DEF TypeInv, KeystoreTypeOK
<1>10. CASE Begin(w)
  BY <1>10, <1>1
  DEF Begin, Continue, Raise, Return, Goto, Leave, Arrives, Inside, Steps
<1>11. CASE Crash(w)
  BY <1>11, <1>1
  DEF Crash, Continue, Raise, Return, Goto, Leave, Arrives, Inside, Steps
<1>12. CASE Glance(w)
  BY <1>12, <1>1
  DEF Glance, Continue, Raise, Return, Goto, Leave, Arrives, Inside, Steps
<1>13. CASE Check(w)
  BY <1>13, <1>1
  DEF Check, Continue, Raise, Return, Goto, Leave, Arrives, Inside, Steps
<1>14. CASE Lock(w)
  <2>1. PICK d \in Lowest(w) : Goto(w, IF ToPass(w) = {d} THEN "completing" ELSE "locking")
    BY <1>14 DEF Lock
  <2>2. PICK step \in {"completing", "locking"} : pc' = [pc EXCEPT ![w] = step]
    BY <2>1 DEF Goto
  <2>3. step \in Steps /\ Arrives(w, step)
    BY <1>14, <2>2 DEF Arrives, Inside, Steps
  <2> QED BY <2>2, <2>3
<1>15. CASE Complete(w)
  BY <1>15, <1>1
  DEF Complete, Continue, Raise, Return, Goto, Leave, Arrives, Inside, Steps
<1>16. CASE GiveUp(w)
  BY <1>16, <1>1
  DEF GiveUp, Continue, Raise, Return, Goto, Leave, Arrives, Inside, Steps
<1>31. CASE LockDenied(w)
  BY <1>31, <1>1
  DEF LockDenied, Continue, Raise, Return, Goto, Leave, Arrives, Inside, Steps
<1>17. CASE StageKey(w)
  BY <1>17, <1>1
  DEF StageKey, Continue, Raise, Return, Goto, Leave, Arrives, Inside, Steps
<1>18. CASE Link(w)
  BY <1>18, <1>1
  DEF Link, Continue, Raise, Return, Goto, Leave, Arrives, Inside, Steps
<1>19. CASE Claim(w)
  BY <1>19, <1>1
  DEF Claim, Continue, Raise, Return, Goto, Leave, Arrives, Inside, Steps
<1>20. CASE Replace(w)
  BY <1>20, <1>1
  DEF Replace, Continue, Raise, Return, Goto, Leave, Arrives, Inside, Steps
<1>21. CASE ReplaceFails(w)
  BY <1>21, <1>1
  DEF ReplaceFails, Continue, Raise, Return, Goto, Leave, Arrives, Inside, Steps
<1>22. CASE Withdraw(w)
  BY <1>22, <1>1
  DEF Withdraw, Continue, Raise, Return, Goto, Leave, Arrives, Inside, Steps
<1>23. CASE Clean(w)
  BY <1>23, <1>1
  DEF Clean, Continue, Raise, Return, Goto, Leave, Arrives, Inside, Steps
<1>24. CASE Reread(w)
  BY <1>24, <1>1
  DEF Reread, Continue, Raise, Return, Goto, Leave, Arrives, Inside, Steps
<1>25. CASE ReadRegistry(w)
  BY <1>25, <1>1
  DEF ReadRegistry, Continue, Raise, Return, Goto, Leave, Arrives, Inside, Steps
<1>26. CASE StageRegistry(w)
  BY <1>26, <1>1
  DEF StageRegistry, Continue, Raise, Return, Goto, Leave, Arrives, Inside, Steps
<1>27. CASE PublishRegistry(w)
  BY <1>27, <1>1
  DEF PublishRegistry, Continue, Raise, Return, Goto, Leave, Arrives, Inside, Steps
<1>28. CASE StageAgain(w)
  BY <1>28, <1>1
  DEF StageAgain, Continue, Raise, Return, Goto, Leave, Arrives, Inside, Steps
<1>29. CASE PublishFails(w)
  BY <1>29, <1>1
  DEF PublishFails, Continue, Raise, Return, Goto, Leave, Arrives, Inside, Steps
<1>30. CASE Finish(w)
  BY <1>30, <1>1
  DEF Finish, Continue, Raise, Return, Goto, Leave, Arrives, Inside, Steps
<1> QED
  BY <1>10, <1>11, <1>12, <1>13, <1>14, <1>15, <1>16, <1>17, <1>18, <1>19, <1>20, <1>21, <1>22, <1>23, <1>24, <1>25, <1>26, <1>27, <1>28, <1>29, <1>30, <1>31 DEF Act

\* The sweep takes only what is abandoned in a directory whose lock was free.
SweptBy(w, s) == pc[w] = "locking" /\ s \in abandoned /\ Free(s.in) /\ <<w, s.in>> \in Lockable

Spares(w) ==
  /\ setting' = setting /\ errors \in Nat /\ errors' \in Nat /\ errors' >= errors
  /\ crashes \in Nat /\ crashes' \in Nat /\ crashes' >= crashes
  /\ \/ registry' = registry
     \/ pc[w] = "publishing" /\ registry' = [registry EXCEPT ![Registry(w)] = copy[w]]
  /\ \A s \in staged \ staged' : s.call = Call(w) \/ SweptBy(w, s)
  /\ \A v \in Writers \ {w} :
       /\ copy'[v] = copy[v] /\ seen'[v] = seen[v] /\ calls'[v] = calls[v] /\ passed'[v] = passed[v]
       /\ v \in failed' <=> v \in failed
  /\ pc[w] # "idle" => calls' = calls
  /\ pc[w] \notin Inside => file' = file
  /\ pc[w] = "replacing" => Replace(w) \/ ReplaceFails(w) \/ Crash(w)
  /\ pc[w] = "withdrawing" => Withdraw(w) \/ Crash(w)
  /\ w \in failed' \ failed =>
       \/ GiveUp(w) \/ LockDenied(w) \/ Withdraw(w) \/ StageAgain(w) \/ PublishFails(w)
       \/ pc[w] = "rereading" /\ KeyFile(w) = Absent
  /\ \/ UNCHANGED <<registry, answer>>
     \/ UNCHANGED <<file, answer>>
     \/ /\ UNCHANGED <<file, registry>> /\ pc[w] \in {"checking", "answering"}
        /\ pc[w] = "checking" => seen[w] \in registry[Registry(w)]
        /\ answer' = [answer EXCEPT ![w] = seen[w]]

\* What a step of a process spares.
LEMMA ProcessSpares ==
  ASSUME TypeInv, NEW w \in Writers, Begin(w) \/ Act(w) \/ Crash(w)
  PROVE  Spares(w)
<1>1. /\ pc \in [Writers -> Steps] /\ calls \in [Writers -> 0..MaxCalls]
      /\ seen \in [Writers -> Calls \cup {Nobody}] /\ copy \in [Writers -> SUBSET Calls]
      /\ passed \in [Writers -> SUBSET Directories]
      /\ staged \subseteq StagingFiles
      /\ errors \in Nat /\ crashes \in Nat
  BY ConstantsAssumption DEF TypeInv, KeystoreTypeOK
<1>10. CASE Begin(w)
  BY <1>10, <1>1
  DEF Begin, Continue, Raise, Return, Leave, Forget, Inside, Spares
<1>11. CASE Crash(w)
  BY <1>11, <1>1
  DEF Crash, Continue, Raise, Return, Leave, Forget, Inside, Spares
<1>12. CASE Glance(w)
  BY <1>12, <1>1
  DEF Glance, Continue, Raise, Return, Leave, Forget, Inside, Spares
<1>13. CASE Check(w)
  BY <1>13, <1>1
  DEF Check, Continue, Raise, Return, Leave, Forget, Inside, Spares
<1>14. CASE Lock(w)
  BY <1>14, <1>1
  DEF Lock, Swept, SweptBy, Continue, Raise, Return, Leave, Forget, Inside, Spares
<1>15. CASE Complete(w)
  BY <1>15, <1>1
  DEF Complete, Continue, Raise, Return, Leave, Forget, Inside, Spares
<1>16. CASE GiveUp(w)
  BY <1>16, <1>1
  DEF GiveUp, Continue, Raise, Return, Leave, Forget, Inside, Spares
<1>31. CASE LockDenied(w)
  BY <1>31, <1>1
  DEF LockDenied, Continue, Raise, Return, Leave, Forget, Inside, Spares
<1>17. CASE StageKey(w)
  BY <1>17, <1>1
  DEF StageKey, Continue, Raise, Return, Leave, Forget, Inside, Spares
<1>18. CASE Link(w)
  BY <1>18, <1>1
  DEF Link, Continue, Raise, Return, Leave, Forget, Inside, Spares
<1>19. CASE Claim(w)
  BY <1>19, <1>1
  DEF Claim, Continue, Raise, Return, Leave, Forget, Inside, Spares
<1>20. CASE Replace(w)
  BY <1>20, <1>1
  DEF Replace, StagedKey, Continue, Raise, Return, Leave, Forget, Inside, Spares
<1>21. CASE ReplaceFails(w)
  BY <1>21, <1>1
  DEF ReplaceFails, Continue, Raise, Return, Leave, Forget, Inside, Spares
<1>22. CASE Withdraw(w)
  BY <1>22, <1>1
  DEF Withdraw, StagedKey, Continue, Raise, Return, Leave, Forget, Inside, Spares
<1>23. CASE Clean(w)
  BY <1>23, <1>1
  DEF Clean, StagedKey, Continue, Raise, Return, Leave, Forget, Inside, Spares
<1>24. CASE Reread(w)
  BY <1>24, <1>1
  DEF Reread, Continue, Raise, Return, Leave, Forget, Inside, Spares
<1>25. CASE ReadRegistry(w)
  BY <1>25, <1>1
  DEF ReadRegistry, Continue, Raise, Return, Leave, Forget, Inside, Spares
<1>26. CASE StageRegistry(w)
  BY <1>26, <1>1
  DEF StageRegistry, Continue, Raise, Return, Leave, Forget, Inside, Spares
<1>27. CASE PublishRegistry(w)
  BY <1>27, <1>1
  DEF PublishRegistry, StagedRegistry, Continue, Raise, Return, Leave, Forget, Inside, Spares
<1>28. CASE StageAgain(w)
  BY <1>28, <1>1
  DEF StageAgain, Continue, Raise, Return, Leave, Forget, Inside, Spares
<1>29. CASE PublishFails(w)
  BY <1>29, <1>1
  DEF PublishFails, StagedRegistry, Continue, Raise, Return, Leave, Forget, Inside, Spares
<1>30. CASE Finish(w)
  BY <1>30, <1>1
  DEF Finish, Continue, Raise, Return, Leave, Forget, Inside, Spares
<1> QED
  BY <1>10, <1>11, <1>12, <1>13, <1>14, <1>15, <1>16, <1>17, <1>18, <1>19, <1>20, <1>21, <1>22, <1>23, <1>24, <1>25, <1>26, <1>27, <1>28, <1>29, <1>30, <1>31 DEF Act

-----------------------------------------------------------------------------
(* The invariant.                                                          *)

\* A process that is not this one keeps what it holds, knows and has staged.
LEMMA OthersAsTheyWere ==
  ASSUME LockInv, NEW w \in Writers, NEW step, pc' = [pc EXCEPT ![w] = step], Spares(w),
         NEW v \in Writers \ {w}
  PROVE  /\ pc'[v] = pc[v] /\ calls'[v] = calls[v] /\ Call(v)' = Call(v)
         /\ copy'[v] = copy[v] /\ seen'[v] = seen[v] /\ passed'[v] = passed[v]
         /\ v \in Locking /\ pc[v] \in Inside =>
              /\ StagedKey(v) \in staged => StagedKey(v)' \in staged'
              /\ StagedRegistry(v) \in staged => StagedRegistry(v)' \in staged'
              /\ registry'[Registry(v)] = registry[Registry(v)]
<1>1. pc \in [Writers -> Steps] /\ registry \in [Directories -> SUBSET Calls]
  BY DEF LockInv, KeystoreInv, TypeInv, KeystoreTypeOK
<1>2. /\ pc'[v] = pc[v] /\ calls'[v] = calls[v] /\ Call(v)' = Call(v)
      /\ copy'[v] = copy[v] /\ seen'[v] = seen[v] /\ passed'[v] = passed[v]
  BY <1>1 DEF Spares, Call
<1>3. StagedKey(v)' = StagedKey(v) /\ StagedRegistry(v)' = StagedRegistry(v)
  BY <1>2 DEF StagedKey, StagedRegistry, Registry
<1>4. ASSUME v \in Locking, pc[v] \in Inside, NEW s \in staged, s.call = Call(v), s.in \in Uses(v)
      PROVE  s \in staged'
  <2>1. s.call # Call(w)
    BY <1>4 DEF Call
  <2>2. ~Free(s.in)
    BY <1>4, HeldNotFree DEF LockInv
  <2> QED BY <2>1, <2>2 DEF Spares, SweptBy
<1>5. ASSUME v \in Locking, pc[v] \in Inside
      PROVE  registry'[Registry(v)] = registry[Registry(v)]
  <2>1. CASE registry' = registry
    BY <2>1
  <2>2. CASE pc[w] = "publishing" /\ registry' = [registry EXCEPT ![Registry(w)] = copy[w]]
    <3>1. Registry(v) # Registry(w)
      BY <1>5, <2>2, Alone, SameHome DEF LockInv, Inside, Uses
    <3> QED BY <1>1, <2>2, <3>1, PathTypes
  <2> QED BY <2>1, <2>2 DEF Spares
<1>6. /\ StagedKey(v).call = Call(v) /\ StagedKey(v).in \in Uses(v)
      /\ StagedRegistry(v).call = Call(v) /\ StagedRegistry(v).in \in Uses(v)
  BY DEF StagedKey, StagedRegistry, Uses
<1> QED BY <1>2, <1>3, <1>4, <1>5, <1>6

\* Locks are held through every step of a process.
LEMMA LocksStay ==
  ASSUME LockInv, NEW w \in Writers, Begin(w) \/ Act(w) \/ Crash(w)
  PROVE  LocksHeld'
<1>1. PICK step \in Steps : pc' = [pc EXCEPT ![w] = step] /\ Arrives(w, step)
  BY ProcessArrives DEF LockInv, KeystoreInv
<1>2. Spares(w)
  BY ProcessSpares DEF LockInv, KeystoreInv
<1>3. /\ pc \in [Writers -> Steps] /\ holder \in [Directories -> Writers \cup {Nobody}]
      /\ passed \in [Writers -> SUBSET Directories]
  BY DEF LockInv, KeystoreInv, TypeInv, KeystoreTypeOK
<1>4. ASSUME NEW v \in Writers \ {w}, \A d \in Directories : holder[d] = v => holder'[d] = v
      PROVE  /\ \A d \in passed'[v] : <<v, d>> \in Lockable => holder'[d] = v
             /\ pc'[v] \in Inside => Uses(v) \subseteq passed'[v]
             /\ pc'[v] # "locking" /\ pc'[v] \notin Inside => passed'[v] = {}
  BY <1>1, <1>2, <1>3, <1>4, OthersAsTheyWere DEF LockInv, LocksHeld
<1>5. Uses(w)' = Uses(w) /\ \A v \in Writers : Uses(v)' = Uses(v)
  BY DEF Uses, Registry
<1>6. CASE Leave(w)
  <2>1. /\ \A d \in Directories : holder'[d] = IF holder[d] = w THEN Nobody ELSE holder[d]
        /\ passed' = [passed EXCEPT ![w] = {}] /\ pc' = [pc EXCEPT ![w] = "idle"]
    BY <1>6 DEF Leave, Unlock, Forget, Goto
  <2>2. pc'[w] = "idle" /\ passed'[w] = {}
    BY <1>3, <2>1
  <2> QED BY <1>4, <1>5, <2>1, <2>2 DEF LocksHeld, Inside
<1>7. CASE Lock(w)
  <2>1. PICK d \in Lowest(w) :
           /\ \/ <<w, d>> \in Lockable /\ Free(d) /\ holder' = [holder EXCEPT ![d] = w]
              \/ <<w, d>> \notin Lockable /\ holder' = holder
           /\ passed' = [passed EXCEPT ![w] = @ \cup {d}]
           /\ pc' = [pc EXCEPT ![w] = IF ToPass(w) = {d} THEN "completing" ELSE "locking"]
    BY <1>7 DEF Lock, Goto
  <2>2. \A v \in Writers \ {w}, e \in Directories : holder[e] = v => holder'[e] = v
    BY <1>3, <2>1, ConstantsAssumption DEF Free
  <2>3. passed'[w] = passed[w] \cup {d} /\ d \in Directories
    BY <1>3, <2>1, PathTypes DEF Lowest, ToPass
  <2>4. \A e \in passed'[w] : <<w, e>> \in Lockable => holder'[e] = w
    <3>1. \A e \in passed[w] : <<w, e>> \in Lockable => holder[e] = w /\ e \in Directories
      BY <1>3 DEF LockInv, LocksHeld
    <3> QED BY <1>3, <2>1, <2>3, <3>1
  <2>5. pc'[w] \in Inside => Uses(w) \subseteq passed'[w]
    <3>1. ASSUME pc'[w] \in Inside PROVE ToPass(w) = {d}
      BY <1>3, <2>1, <3>1 DEF Inside
    <3> QED BY <2>3, <3>1 DEF ToPass, Uses
  <2>6. pc'[w] \in {"locking", "completing"}
    BY <1>3, <2>1
  <2> QED BY <1>4, <1>5, <2>2, <2>4, <2>5, <2>6 DEF LocksHeld, Inside
<1>8. CASE Continue(w, step) /\ passed' = passed /\ ~Lock(w)
  <2>1. holder' = holder /\ pc'[w] = step
    BY <1>1, <1>3, <1>8 DEF Continue
  <2>2. /\ step \in Inside => pc[w] \in Inside
        /\ step # "locking" /\ step \notin Inside =>
            (pc[w] # "locking" /\ pc[w] \notin Inside) \/ step = "idle"
    BY <1>1, <1>8 DEF Arrives, Inside, Steps
  <2>3. step = "idle" => Leave(w)
    BY <1>1 DEF Arrives
  <2>4. CASE step # "idle"
    BY <1>4, <1>5, <1>8, <2>1, <2>2, <2>4 DEF LockInv, LocksHeld
  <2> QED BY <1>6, <2>3, <2>4
<1> QED BY <1>1, <1>6, <1>7, <1>8 DEF Arrives

\* What a process that locks has staged stays through every step of a process.
LEMMA StagingStays ==
  ASSUME LockInv, NEW w \in Writers, Begin(w) \/ Act(w) \/ Crash(w)
  PROVE  StagingKept'
<1>1. PICK step \in Steps : pc' = [pc EXCEPT ![w] = step] /\ Arrives(w, step)
  BY ProcessArrives DEF LockInv, KeystoreInv
<1>2. Spares(w)
  BY ProcessSpares DEF LockInv, KeystoreInv
<1>3. pc'[w] = step
  BY <1>1 DEF LockInv, KeystoreInv, TypeInv, KeystoreTypeOK
<1>4. Locking' = Locking /\ Locking \subseteq Writers
  BY DEF Locking, Uses, Registry
<1>5. ASSUME NEW v \in Locking \ {w}
      PROVE  /\ pc'[v] \in {"linking", "claiming", "replacing"} => StagedKey(v)' \in staged'
             /\ pc'[v] = "publishing" => StagedRegistry(v)' \in staged'
             /\ pc'[v] = "withdrawing" => errors' > 0
  <2>1. /\ pc'[v] = pc[v]
        /\ pc[v] \in Inside =>
              /\ StagedKey(v) \in staged => StagedKey(v)' \in staged'
              /\ StagedRegistry(v) \in staged => StagedRegistry(v)' \in staged'
    BY <1>1, <1>2, <1>4, OthersAsTheyWere
  <2> QED BY <1>2, <2>1 DEF LockInv, StagingKept, Spares, Inside
<1>6. ASSUME w \in Locking
      PROVE  /\ step \in {"linking", "claiming", "replacing"} => StagedKey(w)' \in staged'
             /\ step = "publishing" => StagedRegistry(w)' \in staged'
             /\ step = "withdrawing" => errors' > 0
  <2>1. /\ pc[w] \in {"linking", "claiming", "replacing"} => StagedKey(w) \in staged
        /\ pc[w] = "publishing" => StagedRegistry(w) \in staged
    BY <1>6 DEF LockInv, StagingKept
  <2>2. pc[w] # "idle" => StagedKey(w)' = StagedKey(w) /\ StagedRegistry(w)' = StagedRegistry(w)
    BY <1>2 DEF Spares, StagedKey, StagedRegistry, Registry, Call
  <2>3. step = "linking" => StagedKey(w)' \in staged'
    BY <1>1, <2>2 DEF Arrives, StageKey
  <2>4. step = "claiming" => StagedKey(w)' \in staged'
    BY <1>1, <2>1, <2>2 DEF Arrives, Link
  <2>5. step = "replacing" => StagedKey(w)' \in staged'
    BY <1>1, <2>1, <2>2 DEF Arrives, Claim
  <2>6. step = "publishing" => StagedRegistry(w)' \in staged'
    BY <1>1, <2>2 DEF Arrives, StageRegistry
  <2>7. step = "withdrawing" => errors' > 0
    BY <1>1, <1>2, <2>1 DEF Arrives, ReplaceFails, Spares
  <2> QED BY <2>3, <2>4, <2>5, <2>6, <2>7
<1> QED BY <1>3, <1>4, <1>5, <1>6 DEF StagingKept

\* Where links work, nobody that locks makes a claim; what claim there is is explained.
LEMMA ClaimsStay ==
  ASSUME LockInv, NEW w \in Writers, Begin(w) \/ Act(w) \/ Crash(w)
  PROVE  ClaimExplained'
<1>1. PICK step \in Steps : pc' = [pc EXCEPT ![w] = step] /\ Arrives(w, step)
  BY ProcessArrives DEF LockInv, KeystoreInv
<1>2. Spares(w)
  BY ProcessSpares DEF LockInv, KeystoreInv
<1>3. pc'[w] = step /\ file \in [Paths -> Files] /\ pc \in [Writers -> Steps]
  BY <1>1 DEF LockInv, KeystoreInv, TypeInv, KeystoreTypeOK
<1>4. Locking' = Locking /\ Locking \subseteq Writers
  BY DEF Locking, Uses, Registry
<1>5. \A v \in Writers : /\ Path(v) \in Paths /\ KeyFile(v) = file[Path(v)]
                         /\ KeyFile(v)' = file'[Path(v)] /\ Path(v)' = Path(v)
  BY PathTypes DEF KeyFile, Path
<1>6. PICK wrote \in Steps : pc' = [pc EXCEPT ![w] = wrote] /\ Writes(w, wrote)
  BY ProcessStep DEF LockInv, KeystoreInv
<1>7. Writes(w, step)
  BY <1>1, <1>3, <1>6
<1>8. ASSUME NEW v \in Locking
      PROVE  pc'[v] \in {"claiming", "replacing", "withdrawing"} => ~setting'.links
  <2>1. setting' = setting
    BY <1>2 DEF Spares
  <2>2. pc[v] \in {"claiming", "replacing", "withdrawing"} => ~setting.links
    BY DEF LockInv, ClaimExplained
  <2>3. CASE v # w
    BY <1>1, <1>3, <1>4, <2>1, <2>2, <2>3
  <2>4. CASE v = w
    <3>1. step = "claiming" => ~setting.links
      <4>1. pc[w] = "linking" => StagedKey(w) \in staged
        BY <2>4 DEF LockInv, StagingKept
      <4> QED BY <1>1, <1>3, <4>1 DEF Arrives, Link, Continue, Goto
    <3>2. step = "replacing" => pc[w] = "claiming"
      BY <1>1 DEF Arrives, Claim
    <3>3. step = "withdrawing" => pc[w] = "replacing"
      BY <1>1 DEF Arrives, ReplaceFails
    <3> QED BY <1>3, <2>1, <2>2, <2>4, <3>1, <3>2, <3>3
  <2> QED BY <2>3, <2>4
<1>9. ASSUME NEW v \in Locking, pc'[v] \in {"cleaning", "rereading"}
      PROVE  KeyFile(v)' # Absent
  <2>1. CASE v # w
    <3>1. pc[v] = pc'[v] /\ file[Path(v)] # Absent
      BY <1>1, <1>3, <1>4, <1>5, <1>9, <2>1 DEF LockInv, ClaimExplained
    <3>2. CASE Path(w) = Path(v)
      <4>1. pc[w] \notin Inside
        BY <1>4, <1>9, <2>1, <3>1, <3>2, Alone, SameHome DEF LockInv, Inside
      <4>2. file' = file
        BY <1>2, <4>1 DEF Spares
      <4> QED BY <1>4, <1>5, <3>1, <4>2
    <3>3. CASE Path(w) # Path(v)
      BY <1>3, <1>4, <1>5, <1>7, <3>1, <3>3 DEF Writes
    <3> QED BY <3>2, <3>3
  <2>2. CASE v = w
    <3>1. step = "rereading" => pc[w] = "cleaning" /\ file' = file
      BY <1>1 DEF Arrives, Clean
    <3>2. pc[w] = "cleaning" => file[Path(w)] # Absent
      BY <1>5, <2>2 DEF LockInv, ClaimExplained
    <3>3. step = "cleaning" => file'[Path(w)] # Absent
      <4>1. CASE Link(w)
        BY <1>3, <1>5, <4>1 DEF Link, Continue, Goto, Absent, Whole
      <4>2. CASE Claim(w)
        BY <1>3, <1>5, <4>2 DEF Claim, Claimable, Continue, Goto
      <4>3. CASE Replace(w)
        BY <1>3, <1>5, <4>3 DEF Replace, Absent, Whole
      <4> QED BY <1>1, <4>1, <4>2, <4>3 DEF Arrives
    <3> QED BY <1>3, <1>5, <1>9, <2>2, <3>1, <3>2, <3>3
  <2> QED BY <2>1, <2>2
<1>10. ASSUME NEW v \in Locking, KeyFile(v)'.size = "empty"
       PROVE  \/ crashes' > 0 /\ ~setting'.links
              \/ \E u \in Writers : /\ Path(u) = Path(v) /\ pc'[u] \in {"replacing", "withdrawing"}
                                    /\ KeyFile(v)' = Empty(Call(u)')
  <2>1. v \in Writers /\ KeyFile(v) = file[Path(v)] /\ KeyFile(v)' = file'[Path(v)]
    BY <1>4, <1>5
  <2>2. CASE file'[Path(v)] = file[Path(v)]
    <3>1. CASE crashes > 0 /\ ~setting.links
      BY <1>2, <3>1 DEF Spares
    <3>2. ASSUME NEW u \in Writers, Path(u) = Path(v), pc[u] \in {"replacing", "withdrawing"},
                 KeyFile(v) = Empty(Call(u)), u # w
          PROVE  pc'[u] \in {"replacing", "withdrawing"} /\ KeyFile(v)' = Empty(Call(u)')
      BY <1>1, <1>2, <2>1, <2>2, <3>2, OthersAsTheyWere
    <3>3. ASSUME Path(w) = Path(v), pc[w] \in {"replacing", "withdrawing"},
                 KeyFile(v) = Empty(Call(w))
          PROVE  \/ crashes' > 0 /\ ~setting'.links
                 \/ pc'[w] \in {"replacing", "withdrawing"} /\ KeyFile(v)' = Empty(Call(w)')
      <4>1. w \in Locking
        BY <1>4, <3>3, SameHomeLocks
      <4>2. ~setting'.links
        BY <1>2, <3>3, <4>1 DEF LockInv, ClaimExplained, Spares
      <4>3. file'[Path(w)] = Empty(Call(w))
        BY <2>1, <2>2, <3>3
      <4>4. CASE Crash(w)
        BY <1>2, <4>2, <4>4 DEF Crash, Spares
      <4>5. CASE ReplaceFails(w)
        <5>1. step = "withdrawing"
          BY <1>3, <4>5 DEF ReplaceFails, Continue, Goto
        <5>2. Call(w)' = Call(w)
          BY <1>2, <3>3 DEF Spares, Call
        <5> QED BY <1>3, <2>1, <2>2, <3>3, <5>1, <5>2
      <4>6. CASE Replace(w)
        BY <1>3, <1>5, <4>3, <4>6 DEF Replace, Whole, Empty
      <4>7. CASE Withdraw(w)
        BY <1>3, <1>5, <2>1, <3>3, <4>3, <4>7 DEF Withdraw, OwnClaim, Absent, Empty
      <4> QED BY <1>2, <3>3, <4>4, <4>5, <4>6, <4>7 DEF Spares
    <3> QED BY <1>10, <2>1, <2>2, <3>1, <3>2, <3>3 DEF LockInv, ClaimExplained
  <2>3. CASE file'[Path(v)] # file[Path(v)]
    <3>1. Path(w) = Path(v) /\ KeyFile(w)' = KeyFile(v)'
      BY <1>3, <1>5, <1>7, <2>1, <2>3 DEF Writes
    <3>2. step = "replacing" /\ pc[w] = "claiming" /\ KeyFile(w)' = Empty(Call(w))
      BY <1>3, <1>5, <1>7, <1>10, <2>3, <3>1 DEF Writes, Whole, Absent
    <3>3. Call(w)' = Call(w)
      BY <1>2, <3>2 DEF Spares, Call
    <3> QED BY <1>3, <3>1, <3>2, <3>3
  <2> QED BY <2>2, <2>3
<1>11. \A u \in Writers : Path(u)' = Path(u)
  BY <1>5
<1> QED BY <1>4, <1>8, <1>9, <1>10, <1>11 DEF ClaimExplained, Absent, Empty

\* A registry only gains entries while a process that locks is inside.
LEMMA EntriesKept ==
  ASSUME LockInv, NEW w \in Writers, Begin(w) \/ Act(w) \/ Crash(w)
  PROVE  EntriesStay'
<1>1. PICK step \in Steps : pc' = [pc EXCEPT ![w] = step] /\ Arrives(w, step)
  BY ProcessArrives DEF LockInv, KeystoreInv
<1>2. Spares(w)
  BY ProcessSpares DEF LockInv, KeystoreInv
<1>3. /\ pc'[w] = step /\ pc \in [Writers -> Steps] /\ copy \in [Writers -> SUBSET Calls]
      /\ registry \in [Directories -> SUBSET Calls] /\ Registry(w) \in Directories
  BY <1>1, PathTypes DEF LockInv, KeystoreInv, TypeInv, KeystoreTypeOK
<1>4. Locking' = Locking /\ Locking \subseteq Writers /\ \A v \in Writers : Registry(v)' = Registry(v)
  BY DEF Locking, Uses, Registry
<1>5. ASSUME NEW v \in Locking \ {w}
      PROVE  /\ pc'[v] \in {"writing", "publishing"} => copy'[v] = registry'[Registry(v)] \cup {seen'[v]}
             /\ pc'[v] = "answering" => seen'[v] \in registry'[Registry(v)]
  BY <1>1, <1>2, <1>4, OthersAsTheyWere DEF LockInv, EntriesStay, Inside
<1>6. ASSUME w \in Locking
      PROVE  /\ step \in {"writing", "publishing"} => copy'[w] = registry'[Registry(w)] \cup {seen'[w]}
             /\ step = "answering" => seen'[w] \in registry'[Registry(w)]
  <2>1. pc[w] \in {"writing", "publishing"} => copy[w] = registry[Registry(w)] \cup {seen[w]}
    BY <1>6 DEF LockInv, EntriesStay
  <2>2. CASE step = "writing"
    <3>1. CASE ReadRegistry(w)
      BY <1>3, <2>2, <3>1 DEF ReadRegistry, WithEntry, Continue, Goto
    <3>2. CASE StageAgain(w)
      BY <1>3, <2>1, <2>2, <3>2 DEF StageAgain, Continue, Raise, Leave, Goto
    <3> QED BY <1>1, <2>2, <3>1, <3>2 DEF Arrives
  <2>3. CASE step = "publishing"
    BY <1>1, <2>1, <2>3 DEF Arrives, StageRegistry
  <2>4. CASE step = "answering"
    <3>1. CASE ReadRegistry(w)
      BY <1>3, <2>4, <3>1 DEF ReadRegistry, Continue, Goto
    <3>2. CASE PublishRegistry(w)
      BY <1>3, <2>1, <3>2 DEF PublishRegistry
    <3> QED BY <1>1, <2>4, <3>1, <3>2 DEF Arrives
  <2> QED BY <2>2, <2>3, <2>4
<1> QED BY <1>3, <1>4, <1>5, <1>6 DEF EntriesStay

\* A call of a process that locks raises only on a fault.
LEMMA RaisesStay ==
  ASSUME LockInv, NEW w \in Writers, Begin(w) \/ Act(w) \/ Crash(w)
  PROVE  RaisesOnlyOnFaults'
<1>1. Spares(w)
  BY ProcessSpares DEF LockInv, KeystoreInv
<1>2. Locking' = Locking /\ Locking \subseteq Writers
  BY DEF Locking, Uses, Registry
<1>3. ASSUME w \in Locking, w \in failed' \ failed
      PROVE  errors' > 0 \/ (crashes > 0 /\ ~setting.links)
  <2>1. CASE GiveUp(w)
    <3>1. KeyFile(w).size = "empty" /\ pc[w] \in {"completing", "rereading"}
      BY <2>1 DEF GiveUp
    <3>2. ASSUME NEW v \in Writers, Path(v) = Path(w), pc[v] \in {"replacing", "withdrawing"}
          PROVE  FALSE
      BY <1>2, <1>3, <3>1, <3>2, Alone, SameHome DEF LockInv, Inside
    <3> QED BY <1>3, <3>1, <3>2 DEF LockInv, ClaimExplained
  <2>2. CASE Withdraw(w)
    BY <1>1, <1>3, <2>2 DEF Withdraw, LockInv, StagingKept, Spares
  <2>3. CASE StageAgain(w)
    BY <1>3, <2>3 DEF StageAgain, LockInv, StagingKept
  <2>4. CASE PublishFails(w)
    BY <1>1, <2>4 DEF PublishFails, Spares
  <2>5. CASE pc[w] = "rereading" /\ KeyFile(w) = Absent
    BY <1>3, <2>5 DEF LockInv, ClaimExplained
  <2>6. CASE LockDenied(w)
    <3>1. HomeOf[w] \in Uses(w) /\ <<w, HomeOf[w]>> \notin Lockable
      BY <2>6, ConstantsAssumption DEF LockDenied, LockedOut, Uses
    <3> QED BY <1>3, <3>1, UsersLock
  <2> QED BY <1>1, <1>3, <2>1, <2>2, <2>3, <2>4, <2>5, <2>6 DEF Spares
<1>4. CASE failed' \cap Locking \subseteq failed
  BY <1>1, <1>2, <1>4 DEF LockInv, RaisesOnlyOnFaults, Spares
<1>5. CASE w \in Locking /\ w \in failed' \ failed
  BY <1>1, <1>3, <1>5 DEF RaisesOnlyOnFaults, Spares
<1>6. failed' \cap Locking \subseteq failed \/ (w \in Locking /\ w \in failed' \ failed)
  BY <1>1, <1>2 DEF Spares
<1> QED BY <1>4, <1>5, <1>6

\* Every step keeps the invariant.
LEMMA LockStep ==
  ASSUME LockInv, [KeystoreNext]_vars
  PROVE  LockInv'
<1>1. KeystoreInv'
  BY StepKeeps DEF LockInv
<1>2. CASE UNCHANGED <<setting, file, registry, staged, holder, pc, calls, passed, seen, copy, failed, crashes, errors>>
  BY <1>1, <1>2
  DEF LockInv, LocksHeld, StagingKept, ClaimExplained, EntriesStay, RaisesOnlyOnFaults, Locking,
      Uses, Registry, StagedKey, StagedRegistry, KeyFile, Path, Call
<1>3. ASSUME NEW w \in Writers, Begin(w) \/ Act(w) \/ Crash(w)
      PROVE  LockInv'
  BY <1>1, <1>3, LocksStay, StagingStays, ClaimsStay, EntriesKept, RaisesStay DEF LockInv
<1>4. CASE DeleteClaim
  <2>1. PICK q \in Paths : file[q].size = "empty" /\ file' = [file EXCEPT ![q] = Absent]
    BY <1>4 DEF DeleteClaim
  <2>2. /\ \A w \in Writers : pc[w] = "idle"
        /\ UNCHANGED <<setting, registry, staged, holder, pc, calls, passed, seen, copy, failed, crashes, errors>>
    BY <1>4 DEF DeleteClaim
  <2>3. LocksHeld' /\ StagingKept' /\ EntriesStay' /\ RaisesOnlyOnFaults'
    BY <2>2 DEF LockInv, LocksHeld, StagingKept, EntriesStay, RaisesOnlyOnFaults, Locking, Uses,
                Registry, StagedKey, StagedRegistry, Call
  <2>4. ASSUME NEW v \in Locking, KeyFile(v)'.size = "empty"
        PROVE  crashes > 0 /\ ~setting.links
    <3>1. v \in Writers /\ Path(v) \in Paths /\ Path(v)' = Path(v)
      BY PathTypes DEF Locking, Path
    <3>2. KeyFile(v) = KeyFile(v)'
      BY <2>1, <2>4, <3>1 DEF KeyFile, Absent, LockInv, KeystoreInv, TypeInv, KeystoreTypeOK
    <3> QED BY <2>2, <2>4, <3>2 DEF LockInv, ClaimExplained
  <2>5. ClaimExplained'
    BY <2>2, <2>4 DEF ClaimExplained, Locking, Uses, Registry
  <2> QED BY <1>1, <2>3, <2>5 DEF LockInv
<1> QED BY <1>2, <1>3, <1>4 DEF KeystoreNext, Age, vars

\* The invariant holds of every reachable state.
LEMMA LockInvariance == KeystoreSpec => []LockInv
<1>1. KeystoreInit => LockInv
  <2> SUFFICES ASSUME KeystoreInit PROVE LockInv
    OBVIOUS
  <2>1. \A w \in Writers : /\ pc[w] = "idle" /\ passed[w] = {} /\ KeyFile(w).size = "absent"
    BY PathTypes DEF KeystoreInit, KeyFile, Absent
  <2>2. KeystoreInv
    <3>1. ClaimsAreOwn /\ KnownIsOnDisk /\ AnswersAgree
      BY DEF KeystoreInit, ClaimsAreOwn, KnownIsOnDisk, AnswersAgree, Knowing
    <3> QED BY <3>1, InitTypes DEF KeystoreInv
  <2>3. RaisesOnlyOnFaults
    BY DEF KeystoreInit, RaisesOnlyOnFaults
  <2> QED BY <2>1, <2>2, <2>3
          DEF LockInv, LocksHeld, StagingKept, ClaimExplained, EntriesStay, Inside, Locking
<1>2. LockInv /\ [KeystoreNext]_vars => LockInv'
  BY LockStep
<1> QED BY <1>1, <1>2, PTL DEF KeystoreSpec

\* Where locks work, new_identity raises only because the system refused a rename or a
\* process without hard links stopped over its claim, for any sharing of directories.
THEOREM RaisesAreFaults == KeystoreSpec => []RaisesOnlyOnFaults
<1>1. LockInv => RaisesOnlyOnFaults
  BY DEF LockInv
<1> QED BY <1>1, LockInvariance, PTL

-----------------------------------------------------------------------------
(* The atomic keystore.                                                    *)

\* The secluded lock, and so does whoever shares a directory with one of them.
LEMMA SecludedIsClosed ==
  /\ Secluded \subseteq Locking /\ Secluded \subseteq Writers
  /\ \A w \in Secluded, v \in Writers : Uses(v) \cap Uses(w) # {} => v \in Secluded
BY DEF Secluded, Closed, Locking

\* Who is secluded, and where they look, is settled by the constants.
LEMMA SecludedFixed ==
  /\ Secluded' = Secluded /\ LockedPaths' = LockedPaths /\ LockedRegistries' = LockedRegistries
  /\ LockedPathOf' = LockedPathOf /\ LockedRegistryOf' = LockedRegistryOf
  /\ \A w \in Writers : Path(w)' = Path(w) /\ Registry(w)' = Registry(w)
BY DEF Secluded, Closed, Locking, Uses, LockedPaths, LockedRegistries, LockedPathOf, LockedRegistryOf,
       Path, Registry

\* What a secluded process asks for is among them.
LEMMA SeenOf ==
  ASSUME NEW w \in Secluded
  PROVE  /\ LockedPathOf[w] = Path(w) /\ Path(w) \in LockedPaths
         /\ LockedRegistryOf[w] = Registry(w) /\ Registry(w) \in LockedRegistries
         /\ KeysSeen[Path(w)] = IF KeyFile(w).size = "whole" THEN KeyFile(w).by ELSE Nobody
         /\ EntriesSeen[Registry(w)] = registry[Registry(w)]
         /\ AnswersSeen[w] = answer[w]
BY DEF LockedPathOf, LockedPaths, LockedRegistryOf, LockedRegistries, KeysSeen, EntriesSeen,
       AnswersSeen, KeyFile

\* What is seen changes with the files, the registries and the answers alone.
LEMMA SeenSteps ==
  /\ file' = file => KeysSeen' = KeysSeen
  /\ registry' = registry => EntriesSeen' = EntriesSeen
  /\ answer' = answer => AnswersSeen' = AnswersSeen
BY SecludedFixed DEF KeysSeen, EntriesSeen, AnswersSeen

\* A key that is written is created; a claim, or its withdrawal, is nothing yet.
LEMMA WritingCreates ==
  ASSUME LockInv, NEW w \in Writers, pc[w] # "idle", NEW step, Writes(w, step),
         UNCHANGED <<registry, answer>>
  PROVE  Promise!Next \/ UNCHANGED Promise!vars
<1>1. file \in [Paths -> Files] /\ Call(w) \in Calls /\ Path(w) \in Paths
  BY CallTypes, PathTypes DEF LockInv, KeystoreInv, TypeInv, KeystoreTypeOK
<1>2. LockedPaths \subseteq Paths
  BY PathTypes, SecludedIsClosed DEF LockedPaths
<1>3. UNCHANGED <<EntriesSeen, AnswersSeen>>
  BY SeenSteps
<1>4. CASE file' = file
  BY <1>3, <1>4, SeenSteps DEF Promise!vars
<1>5. ASSUME file' # file
      PROVE  /\ file[Path(w)].size # "whole"
             /\ \/ file' = [file EXCEPT ![Path(w)] = Whole(Call(w))]
                \/ \E f \in Files : f.size # "whole" /\ file' = [file EXCEPT ![Path(w)] = f]
  BY <1>1, <1>5 DEF Writes, KeyFile, Files, Absent, Empty
<1>6. CASE \E f \in Files : f.size # "whole" /\ file' = [file EXCEPT ![Path(w)] = f]
  <2>1. CASE file' = file
    BY <1>4, <2>1
  <2>2. CASE file' # file
    <3>1. \A p \in LockedPaths : /\ (file'[p].size = "whole" <=> file[p].size = "whole")
                                 /\ (file[p].size = "whole" => file'[p] = file[p])
      BY <1>1, <1>2, <1>5, <1>6, <2>2
    <3>2. KeysSeen' = KeysSeen
      BY <3>1, SecludedFixed DEF KeysSeen
    <3> QED BY <1>3, <3>2 DEF Promise!vars
  <2> QED BY <2>1, <2>2
<1>7. CASE file' # file /\ file' = [file EXCEPT ![Path(w)] = Whole(Call(w))]
  <2>1. \A p \in LockedPaths : /\ p = Path(w) => file'[p] = Whole(Call(w))
                               /\ p # Path(w) => file'[p] = file[p]
    BY <1>1, <1>2, <1>7
  <2>2. CASE Path(w) \notin LockedPaths
    <3>1. KeysSeen' = KeysSeen
      BY <2>1, <2>2, SecludedFixed DEF KeysSeen
    <3> QED BY <1>3, <3>1 DEF Promise!vars
  <2>3. CASE Path(w) \in LockedPaths
    <3>1. PICK v \in Secluded : Path(v) = Path(w)
      BY <2>3 DEF LockedPaths
    <3>2. LockedPathOf[v] = Path(w) /\ KeysSeen[Path(w)] = Nobody
      <4>1. LockedPathOf[v] = Path(w)
        BY <3>1, SeenOf
      <4>2. KeysSeen[Path(w)] = Nobody
        BY <1>5, <1>7, <2>3 DEF KeysSeen
      <4> QED BY <4>1, <4>2
    <3>3. KeysSeen' = [KeysSeen EXCEPT ![Path(w)] = Call(w)]
      <4>1. /\ KeysSeen = [p \in LockedPaths |-> KeysSeen[p]]
            /\ KeysSeen' = [p \in LockedPaths |-> KeysSeen'[p]]
        BY SecludedFixed DEF KeysSeen
      <4>2. \A p \in LockedPaths : KeysSeen'[p] = IF p = Path(w) THEN Call(w) ELSE KeysSeen[p]
        <5>1. Whole(Call(w)).size = "whole" /\ Whole(Call(w)).by = Call(w)
          BY DEF Whole
        <5> QED BY <2>1, <5>1, SecludedFixed DEF KeysSeen
      <4> QED BY <4>1, <4>2
    <3>4. Promise!Create(v)
      BY <1>1, <1>3, <3>2, <3>3 DEF Promise!Create
    <3> QED BY <3>4 DEF Promise!Next
  <2> QED BY <2>2, <2>3
<1> QED BY <1>4, <1>5, <1>6, <1>7

\* A secluded process knows the key that is seen.
LEMMA KnowsTheKey ==
  ASSUME LockInv, NEW w \in Secluded, pc[w] \in Knowing
  PROVE  KeysSeen[LockedPathOf[w]] = seen[w] /\ seen[w] # Nobody
<1>1. w \in Writers /\ file \in [Paths -> Files] /\ Path(w) \in Paths
  BY SecludedIsClosed, PathTypes DEF LockInv, KeystoreInv, TypeInv, KeystoreTypeOK
<1>2. KeyFile(w) = Whole(seen[w]) /\ KeyFile(w) \in Files
  BY <1>1 DEF KeyFile, LockInv, KeystoreInv, KnownIsOnDisk
<1>3. KeyFile(w).size = "whole" /\ KeyFile(w).by = seen[w]
  BY <1>2 DEF Whole
<1>4. seen[w] \in Calls
  BY <1>2, <1>3, FileTypes
<1> QED BY <1>3, <1>4, SeenOf, ConstantsAssumption

\* A registry that is written gains the entry of a key that is there, and loses none.
LEMMA PublishingRegisters ==
  ASSUME LockInv, NEW w \in Writers, pc[w] = "publishing", UNCHANGED <<file, answer>>,
         registry' = [registry EXCEPT ![Registry(w)] = copy[w]]
  PROVE  Promise!Next \/ UNCHANGED Promise!vars
<1>1. registry \in [Directories -> SUBSET Calls] /\ Registry(w) \in Directories
  BY PathTypes DEF LockInv, KeystoreInv, TypeInv, KeystoreTypeOK
<1>2. UNCHANGED <<KeysSeen, AnswersSeen>>
  BY SeenSteps
<1>3. LockedRegistries \subseteq Directories
  BY PathTypes, SecludedIsClosed DEF LockedRegistries
<1>4. CASE Registry(w) \notin LockedRegistries
  <2>1. EntriesSeen' = EntriesSeen
    BY <1>1, <1>3, <1>4, SecludedFixed DEF EntriesSeen
  <2> QED BY <1>2, <2>1 DEF Promise!vars
<1>5. CASE Registry(w) \in LockedRegistries
  <2>1. PICK v \in Secluded : Registry(v) = Registry(w)
    BY <1>5 DEF LockedRegistries
  <2>2. w \in Secluded /\ w \in Locking
    <3>1. Registry(w) \in Uses(v) \cap Uses(w)
      BY <2>1 DEF Uses
    <3> QED BY <3>1, SecludedIsClosed
  <2>3. KeysSeen[LockedPathOf[w]] = seen[w] /\ seen[w] # Nobody
    BY <2>2, KnowsTheKey DEF Knowing
  <2>4. copy[w] = registry[Registry(w)] \cup {seen[w]}
    BY <2>2 DEF LockInv, EntriesStay
  <2>5. EntriesSeen' = [EntriesSeen EXCEPT ![Registry(w)] = registry[Registry(w)] \cup {seen[w]}]
    BY <1>1, <1>3, <2>4, SecludedFixed DEF EntriesSeen
  <2>6. LockedRegistryOf[w] = Registry(w) /\ EntriesSeen[Registry(w)] = registry[Registry(w)]
    BY <2>2, SeenOf
  <2>7. Promise!Register(w)
    BY <1>2, <2>3, <2>5, <2>6 DEF Promise!Register
  <2> QED BY <2>2, <2>7 DEF Promise!Next
<1> QED BY <1>4, <1>5

\* An identity is handed out when its key is there and its registry lists it.
LEMMA ReturningAnswers ==
  ASSUME LockInv, NEW w \in Writers, pc[w] \in {"checking", "answering"}, UNCHANGED <<file, registry>>,
         (pc[w] = "checking" => seen[w] \in registry[Registry(w)]),
         answer' = [answer EXCEPT ![w] = seen[w]]
  PROVE  Promise!Next \/ UNCHANGED Promise!vars
<1>1. answer \in [Writers -> Calls \cup {Nobody}]
  BY DEF LockInv, KeystoreInv, TypeInv, KeystoreTypeOK
<1>2. UNCHANGED <<KeysSeen, EntriesSeen>>
  BY SeenSteps
<1>3. Secluded \subseteq Writers
  BY SecludedIsClosed
<1>4. CASE w \notin Secluded
  <2>1. AnswersSeen' = AnswersSeen
    BY <1>1, <1>3, <1>4, SecludedFixed DEF AnswersSeen
  <2> QED BY <1>2, <2>1 DEF Promise!vars
<1>5. CASE w \in Secluded
  <2>1. KeysSeen[LockedPathOf[w]] = seen[w]
    BY <1>5, KnowsTheKey DEF Knowing
  <2>2. seen[w] \in registry[Registry(w)]
    BY <1>5, SecludedIsClosed DEF LockInv, EntriesStay
  <2>3. seen[w] \in EntriesSeen[LockedRegistryOf[w]]
    BY <1>5, <2>2, SeenOf
  <2>4. AnswersSeen' = [AnswersSeen EXCEPT ![w] = seen[w]]
    BY <1>1, <1>3, <1>5, SecludedFixed DEF AnswersSeen
  <2>5. Promise!Answer(w)
    BY <1>2, <2>1, <2>3, <2>4 DEF Promise!Answer
  <2> QED BY <1>5, <2>5 DEF Promise!Next
<1> QED BY <1>4, <1>5

\* Every step of the files is a step of the atomic keystore, or none.
LEMMA PromiseStep ==
  ASSUME LockInv, [KeystoreNext]_vars
  PROVE  [Promise!Next]_(Promise!vars)
<1>1. CASE UNCHANGED <<file, registry, answer>>
  BY <1>1, SeenSteps DEF Promise!vars
<1>2. ASSUME NEW w \in Writers, Begin(w) \/ Act(w) \/ Crash(w)
      PROVE  Promise!Next \/ UNCHANGED Promise!vars
  <2>1. Spares(w)
    BY <1>2, ProcessSpares DEF LockInv, KeystoreInv
  <2>2. PICK step \in Steps : Writes(w, step)
    BY <1>2, ProcessStep DEF LockInv, KeystoreInv
  <2>3. CASE UNCHANGED <<registry, answer>> /\ pc[w] # "idle"
    BY <2>2, <2>3, WritingCreates
  <2>4. CASE UNCHANGED <<registry, answer>> /\ pc[w] = "idle"
    BY <1>1, <2>1, <2>4 DEF Spares, Inside
  <2>5. CASE UNCHANGED <<file, answer>>
    BY <1>1, <2>1, <2>5, PublishingRegisters DEF Spares
  <2>6. CASE UNCHANGED <<file, registry>>
    BY <1>1, <2>1, <2>6, ReturningAnswers DEF Spares
  <2> QED BY <2>1, <2>3, <2>4, <2>5, <2>6 DEF Spares
<1>3. CASE DeleteClaim
  <2>1. PICK q \in Paths : file[q].size = "empty" /\ file' = [file EXCEPT ![q] = Absent]
    BY <1>3 DEF DeleteClaim
  <2>2. \A p \in LockedPaths : /\ (file'[p].size = "whole" <=> file[p].size = "whole")
                               /\ (file[p].size = "whole" => file'[p] = file[p])
    BY <2>1, PathTypes, SecludedIsClosed
    DEF LockedPaths, Absent, LockInv, KeystoreInv, TypeInv, KeystoreTypeOK
  <2>3. KeysSeen' = KeysSeen
    BY <2>2, SecludedFixed DEF KeysSeen
  <2>4. UNCHANGED <<EntriesSeen, AnswersSeen>>
    BY <1>3, SeenSteps DEF DeleteClaim
  <2> QED BY <2>3, <2>4 DEF Promise!vars
<1> QED BY <1>1, <1>2, <1>3 DEF KeystoreNext, Age, vars

\* The empty keystore is the atomic one's beginning.
LEMMA PromiseInit == KeystoreInit => Promise!Init
<1> SUFFICES ASSUME KeystoreInit PROVE Promise!Init
  OBVIOUS
<1>1. LockedPaths \subseteq Paths /\ LockedRegistries \subseteq Directories /\ Secluded \subseteq Writers
  BY PathTypes, SecludedIsClosed DEF LockedPaths, LockedRegistries
<1>2. /\ KeysSeen = [p \in LockedPaths |-> Nobody]
      /\ EntriesSeen = [d \in LockedRegistries |-> {}]
      /\ AnswersSeen = [w \in Secluded |-> Nobody]
  BY <1>1 DEF KeystoreInit, KeysSeen, EntriesSeen, AnswersSeen, Absent
<1> QED BY <1>2 DEF Promise!Init

\* Keystore's docstring, for any number of processes, homes and registries and whoever
\* stops: a name gets one key, no entry is lost, and an identity is handed out only when
\* its key and its entry are there.
THEOREM KeystoreImplementsIdentities == KeystoreSpec => KeepsPromise
<1>1. LockInv /\ [KeystoreNext]_vars => [Promise!Next]_(Promise!vars)
  BY PromiseStep
<1> QED BY <1>1, PromiseInit, LockInvariance, PTL DEF KeystoreSpec, KeepsPromise, Promise!Spec
=============================================================================
