----------------------------- MODULE WorkQueue -----------------------------
(***************************************************************************)
(* What db.py promises of accepted work ("accepted work survives; delivery *)
(* is at-least-once; claims are fenced"), without time, tables or events.  *)
(* A piece of work waits, is held under one fence, and is settled.  A hold *)
(* may lapse at any moment; settled work stays settled, save that it may   *)
(* be delivered once more and then be given back.                          *)
(***************************************************************************)
EXTENDS Naturals

CONSTANT Work

VARIABLES
  stage,        \* of each piece of work
  holder,       \* the fence that may answer for it, 0 if there is none
  issued,       \* how many fences were issued; they are numbered from 1
  redelivered,  \* settled work that was delivered once more
  open

queue == <<stage, holder, issued, redelivered, open>>

Init ==
  /\ stage = [w \in Work |-> "absent"]
  /\ holder = [w \in Work |-> 0]
  /\ issued = 0
  /\ redelivered = {}
  /\ open = TRUE

Submit(w) ==
  /\ open /\ stage[w] = "absent"
  /\ stage' = [stage EXCEPT ![w] = "waiting"]
  /\ UNCHANGED <<holder, issued, redelivered, open>>

HoldersWithout(S) == [w \in Work |-> IF w \in S THEN 0 ELSE holder[w]]
StagesWithout(S) ==
  [w \in Work |-> IF w \in S /\ stage[w] = "held" THEN "waiting" ELSE stage[w]]

\* The holds on S lapse together.
Lapse(S) ==
  /\ open /\ \A w \in S : holder[w] # 0
  /\ holder' = HoldersWithout(S)
  /\ stage' = StagesWithout(S)
  /\ UNCHANGED <<issued, redelivered, open>>

\* Waiting work is delivered under a new fence; holds may lapse on the way.
Deliver(S, w) ==
  /\ open /\ \A v \in S : holder[v] # 0
  /\ StagesWithout(S)[w] = "waiting"
  /\ issued' = issued + 1
  /\ holder' = [HoldersWithout(S) EXCEPT ![w] = issued + 1]
  /\ stage' = [StagesWithout(S) EXCEPT ![w] = "held"]
  /\ UNCHANGED <<redelivered, open>>

Redeliver(w) ==
  /\ open /\ stage[w] = "settled" /\ holder[w] = 0 /\ w \notin redelivered
  /\ issued' = issued + 1
  /\ holder' = [holder EXCEPT ![w] = issued + 1]
  /\ redelivered' = redelivered \cup {w}
  /\ UNCHANGED <<stage, open>>

\* The holder answers, and its fence is spent.
Answer(w, to) ==
  /\ open /\ holder[w] # 0
  /\ holder' = [holder EXCEPT ![w] = 0]
  /\ stage' = [stage EXCEPT ![w] = to]
  /\ UNCHANGED <<issued, redelivered, open>>

Close ==
  /\ open
  /\ open' = FALSE
  /\ UNCHANGED <<stage, holder, issued, redelivered>>

Next ==
  \/ \E w \in Work : \/ Submit(w)
                     \/ Redeliver(w)
                     \/ Answer(w, "settled")
                     \/ Answer(w, "waiting")
  \/ \E S \in SUBSET Work : Lapse(S) \/ \E w \in Work : Deliver(S, w)
  \/ Close

Spec == Init /\ [][Next]_queue
=============================================================================
