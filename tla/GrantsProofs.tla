----------------------------- MODULE GrantsProofs -----------------------------
(* Proofs about Grants: one session per role, no re-widening, and no pinned    *)
(* role without its limits, however many joins, replays and restarts race.     *)
EXTENDS Grants, TLAPS

Row == [session : Nat, granted : BOOLEAN, permissions : SUBSET Permissions, issuedAt : Nat]

\* The rows, and the joins that have verified what they carry.
RowsTyped ==
  /\ participants \in [Roles -> Row]
  /\ issued \subseteq Grant
  /\ requests \in Nat
  /\ DOMAIN request = Clients

\* A join that may still write its role's row.
Joining(q) ==
  /\ q.role \in Roles
  /\ q.id \in Nat \ {0}
  /\ q.grant \in Grant \cup {Token}

JoinsTyped ==
  \A c \in Clients : request[c].step = "authenticating" => Joining(request[c])

\* A row no longer changes its session, and what it owes to a grant that has
\* been applied to it it keeps.
Settled(q) ==
  /\ q.role \in Roles
  /\ q.session # 0
  /\ participants[q.role].session = q.session
  /\ q.grant \in Grant \cup {Token}
  /\ q.grant # Token => /\ participants[q.role].granted
                        /\ participants[q.role].issuedAt >= q.grant.issuedAt

JoinsSettled ==
  /\ \A c \in Clients : request[c].step \in {"verified", "joined"} => Settled(request[c])
  /\ \A j \in joined : Settled(j)

\* A grant is recorded only with a session.
GrantsHaveSessions == \A r \in Roles : participants[r].granted => participants[r].session # 0

GrantsInv == RowsTyped /\ JoinsTyped /\ JoinsSettled /\ GrantsHaveSessions

USE DEF rows, record

\* The grants' times of issue are natural numbers.
LEMMA GrantTypes ==
  ASSUME NEW g \in Grant
  PROVE  g.issuedAt \in Nat /\ g.permissions \in SUBSET Permissions /\ g.role \in Roles
BY GrantsAssumption DEF Grant

\* The invariant holds initially.
LEMMA GrantsInitInv == GrantsInit => GrantsInv
BY DEF GrantsInit, GrantsInv, RowsTyped, Row, Unjoined, Idle, JoinsTyped, JoinsSettled,
       GrantsHaveSessions

\* A step that leaves the rows alone, and lets no request newly authenticate or
\* settle, keeps the invariant.
LEMMA RowsAlone ==
  ASSUME GrantsInv, participants' = participants, joined' = joined, DOMAIN request' = Clients,
         issued' \subseteq Grant, requests' \in Nat,
         \A c \in Clients :
           \/ request'[c] = request[c]
           \/ request'[c].step \notin {"authenticating", "verified", "joined"}
           \/ request'[c].step = "authenticating" /\ Joining(request'[c])
           \/ /\ request'[c].step = "joined" /\ request[c].step = "verified"
              /\ Settled(request'[c])
  PROVE  GrantsInv'
<1>1. RowsTyped' /\ GrantsHaveSessions'
  BY DEF GrantsInv, RowsTyped, GrantsHaveSessions
<1>2. \A q : Settled(q) => Settled(q)'
  BY DEF Settled
<1>3. JoinsTyped'
  BY DEF GrantsInv, JoinsTyped, Joining
<1>4. JoinsSettled'
  <2>1. \A j \in joined' : Settled(j)'
    BY <1>2 DEF GrantsInv, JoinsSettled
  <2>2. ASSUME NEW c \in Clients, request'[c].step \in {"verified", "joined"}
        PROVE  /\ request'[c].role \in Roles
               /\ request'[c].session # 0
               /\ participants'[request'[c].role].session = request'[c].session
               /\ request'[c].grant \in Grant \cup {Token}
               /\ request'[c].grant # Token =>
                    /\ participants'[request'[c].role].granted
                    /\ participants'[request'[c].role].issuedAt >= request'[c].grant.issuedAt
    BY <2>2 DEF GrantsInv, JoinsSettled, Settled
  <2> QED BY <2>1, <2>2 DEF JoinsSettled, Settled
<1> QED BY <1>1, <1>3, <1>4 DEF GrantsInv

\* What authenticate makes of a row: it keeps the session and the newest grant,
\* and owes nothing less to the grant it is given.
LEMMA RowAfterKeeps ==
  ASSUME GrantsInv, NEW c \in Clients, request[c].step = "authenticating"
  PROVE  LET row == participants[request[c].role]
             next == RowAfter(c, row)
             g == request[c].grant
         IN /\ next \in Row
            /\ next.session # 0
            /\ row.session # 0 => next.session = row.session
            /\ row.granted => next.granted /\ next.issuedAt >= row.issuedAt
            /\ g # Token => next.granted /\ next.issuedAt >= g.issuedAt
<1> DEFINE row == participants[request[c].role]
           g == request[c].grant
<1>1. /\ row \in Row /\ request[c].id \in Nat \ {0} /\ g \in Grant \cup {Token}
      /\ row.granted => row.session # 0
  BY DEF GrantsInv, RowsTyped, JoinsTyped, Joining, GrantsHaveSessions
<1>2. SessionOf(c, row) \in Nat \ {0} /\ (row.session # 0 => SessionOf(c, row) = row.session)
  BY <1>1 DEF SessionOf, Row
<1>3. CASE g = Token
  BY <1>1, <1>2, <1>3 DEF RowAfter, Row
<1>4. CASE g # Token
  <2>1. g \in Grant /\ g.issuedAt \in Nat /\ g.permissions \in SUBSET Permissions
    BY <1>1, <1>4, GrantTypes
  <2>2. CASE row.session = 0 \/ NotOlder(g, row)
    BY <1>1, <1>2, <1>4, <2>1, <2>2 DEF RowAfter, Row, NotOlder
  <2>3. CASE row.session # 0 /\ ~NotOlder(g, row)
    BY <1>1, <1>4, <2>1, <2>3 DEF RowAfter, Row, NotOlder
  <2> QED BY <2>2, <2>3
<1> QED BY <1>3, <1>4

\* authenticate keeps the invariant.
LEMMA AuthenticateKeeps ==
  ASSUME GrantsInv, NEW c \in Clients, Authenticate(c)
  PROVE  GrantsInv'
<1> DEFINE r == request[c].role
           row == participants[r]
           next == RowAfter(c, row)
<1>1. /\ request[c].step = "authenticating" /\ r \in Roles
      /\ request[c].grant \in Grant \cup {Token} /\ DOMAIN request = Clients
      /\ participants \in [Roles -> Row] /\ row \in Row
  BY DEF Authenticate, Step, GrantsInv, JoinsTyped, Joining, RowsTyped
<1>2. participants' = [participants EXCEPT ![r] = next]
  BY DEF Authenticate
<1>3. /\ next \in Row /\ next.session # 0
      /\ row.session # 0 => next.session = row.session
      /\ row.granted => next.granted /\ next.issuedAt >= row.issuedAt
      /\ request[c].grant # Token =>
           next.granted /\ next.issuedAt >= request[c].grant.issuedAt
  BY <1>1, RowAfterKeeps
<1> HIDE DEF next
<1>4. /\ participants' \in [Roles -> Row] /\ participants'[r] = next
      /\ \A x \in Roles \ {r} : participants'[x] = participants[x]
  BY <1>1, <1>2, <1>3
<1>5. /\ request'[c].step \in {"joined", "verified"} /\ request'[c].role = r
      /\ request'[c].grant = request[c].grant
      /\ request'[c].session = next.session
      /\ \A d \in Clients \ {c} : request'[d] = request[d]
      /\ DOMAIN request' = Clients
  BY <1>1, <1>4 DEF Authenticate, AfterJoin
<1>6. issued' = issued /\ requests' = requests /\ joined' = joined
  BY DEF Authenticate
<1>7. RowsTyped'
  BY <1>4, <1>5, <1>6 DEF RowsTyped, GrantsInv
<1>8. JoinsTyped'
  BY <1>5 DEF JoinsTyped, GrantsInv, Joining
<1>9. GrantsHaveSessions'
  BY <1>3, <1>4 DEF GrantsHaveSessions, GrantsInv
<1>10. ASSUME NEW q, Settled(q) PROVE Settled(q)'
  <2>1. q.grant # Token => q.grant.issuedAt \in Nat
    BY <1>10, GrantTypes DEF Settled
  <2>2. CASE q.role = r
    <3>1. next.session = q.session
      BY <1>3, <1>10, <2>2 DEF Settled
    <3>2. ASSUME q.grant # Token
          PROVE  next.granted /\ next.issuedAt >= q.grant.issuedAt
      BY <1>1, <1>3, <1>10, <2>1, <2>2, <3>2 DEF Settled, Row
    <3> QED BY <1>4, <1>10, <2>2, <3>1, <3>2 DEF Settled
  <2>3. CASE q.role # r
    BY <1>4, <1>10, <2>3 DEF Settled
  <2> QED BY <2>2, <2>3
<1>11. JoinsSettled'
  <2>1. \A j \in joined' : Settled(j)'
    BY <1>6, <1>10 DEF GrantsInv, JoinsSettled
  <2>2. ASSUME NEW d \in Clients \ {c}, request'[d].step \in {"verified", "joined"}
        PROVE  Settled(request[d])'
    BY <1>5, <1>10, <2>2 DEF GrantsInv, JoinsSettled
  <2>3. /\ request'[c].role \in Roles /\ request'[c].session # 0
        /\ participants'[request'[c].role].session = request'[c].session
        /\ request'[c].grant \in Grant \cup {Token}
        /\ request'[c].grant # Token =>
             /\ participants'[request'[c].role].granted
             /\ participants'[request'[c].role].issuedAt >= request'[c].grant.issuedAt
    BY <1>1, <1>3, <1>4, <1>5
  <2>4. ASSUME NEW d \in Clients, request'[d].step \in {"verified", "joined"}
        PROVE  /\ request'[d].role \in Roles /\ request'[d].session # 0
               /\ participants'[request'[d].role].session = request'[d].session
               /\ request'[d].grant \in Grant \cup {Token}
               /\ request'[d].grant # Token =>
                    /\ participants'[request'[d].role].granted
                    /\ participants'[request'[d].role].issuedAt >= request'[d].grant.issuedAt
    BY <2>2, <2>3, <2>4, <1>5 DEF Settled
  <2> QED BY <2>1, <2>4 DEF JoinsSettled, Settled
<1> QED BY <1>7, <1>8, <1>9, <1>11 DEF GrantsInv

\* Every step keeps the invariant.
LEMMA GrantsStep ==
  ASSUME GrantsInv, [GrantsNext]_grantVars
  PROVE  GrantsInv'
<1>1. DOMAIN request = Clients /\ issued \subseteq Grant /\ requests \in Nat
  BY DEF GrantsInv, RowsTyped
<1>2. CASE UNCHANGED grantVars
  BY <1>1, <1>2, RowsAlone DEF grantVars
<1>3. ASSUME NEW c \in Clients, JoinWithToken(c) PROVE GrantsInv'
  <2>1. PICK r \in Roles :
           request' = [request EXCEPT ![c] =
             [step |-> IF MayTokenJoin(r) THEN "authenticating" ELSE "requiring",
              role |-> r, id |-> requests + 1, grant |-> Token]]
    BY <1>3 DEF JoinWithToken
  <2>2. requests + 1 \in Nat \ {0}
    BY <1>1
  <2>3. \/ request'[c].step = "authenticating" /\ Joining(request'[c])
        \/ request'[c].step = "requiring"
    BY <1>1, <2>1, <2>2 DEF Joining
  <2> QED BY <1>1, <1>3, <2>1, <2>2, <2>3, RowsAlone DEF JoinWithToken
<1>4. ASSUME NEW c \in Clients, JoinWithGrant(c) PROVE GrantsInv'
  <2>1. PICK g \in issued, genuine \in BOOLEAN :
           request' = [request EXCEPT ![c] =
             [step |-> IF ~genuine \/ Expired(g, clock) THEN "rejecting"
                       ELSE IF "join" \notin g.permissions THEN "denying"
                       ELSE "authenticating",
              role |-> g.role, id |-> requests + 1, grant |-> g, action |-> "join"]]
    BY <1>4 DEF JoinWithGrant
  <2>2. requests + 1 \in Nat \ {0} /\ g \in Grant /\ g.role \in Roles
    BY <1>1, GrantTypes
  <2>3. \/ request'[c].step = "authenticating" /\ Joining(request'[c])
        \/ request'[c].step \in {"rejecting", "denying"}
    BY <1>1, <2>1, <2>2 DEF Joining
  <2> QED BY <1>1, <1>4, <2>1, <2>2, <2>3, RowsAlone DEF JoinWithGrant
<1>5. ASSUME NEW c \in Clients, Request(c) PROVE GrantsInv'
  <2>1. PICK j \in joined, a \in Actions :
           request' = [request EXCEPT ![c] =
             [step |-> "intent", role |-> j.role, action |-> a,
              before |-> {k \in joined : k.role = j.role}]]
    BY <1>5 DEF Request
  <2>2. requests' \in Nat
    BY <1>1, <1>5 DEF Request
  <2> QED BY <1>1, <1>5, <2>1, <2>2, RowsAlone DEF Request
<1>6. ASSUME NEW c \in Clients, Refused(c) \/ Reject(c) PROVE GrantsInv'
  BY <1>1, <1>6, RowsAlone DEF Refused, Reject, Record, Answered, Idle
<1>7. ASSUME NEW c \in Clients, Authenticate(c) PROVE GrantsInv'
  BY <1>7, AuthenticateKeeps
<1>8. ASSUME NEW c \in Clients, RecordVerified(c) PROVE GrantsInv'
  <2>1. /\ request[c].step = "verified" /\ Settled(request[c])
        /\ request' = [request EXCEPT ![c].step = "joined"]
    BY <1>8 DEF RecordVerified, Step, Goto, GrantsInv, JoinsSettled
  <2>2. request'[c].step = "joined" /\ Settled(request'[c])
    BY <1>1, <2>1 DEF Settled
  <2> QED BY <1>1, <1>8, <2>1, <2>2, RowsAlone DEF RecordVerified, Record
<1>9. ASSUME NEW c \in Clients, RecordJoined(c) PROVE GrantsInv'
  <2>1. /\ Settled(request[c]) /\ request[c].role \in Roles
        /\ joined' = joined \cup {[role |-> request[c].role, session |-> request[c].session,
                                    grant |-> request[c].grant]}
        /\ request' = [request EXCEPT ![c] = Idle]
        /\ UNCHANGED <<participants, issued, requests>>
    BY <1>9 DEF RecordJoined, Record, Answered, Step, GrantsInv, JoinsSettled, Settled
  <2>2. RowsTyped' /\ JoinsTyped' /\ GrantsHaveSessions'
    BY <1>1, <2>1 DEF GrantsInv, RowsTyped, JoinsTyped, Joining, GrantsHaveSessions, Idle
  <2>3. \A q : Settled(q) => Settled(q)'
    BY <2>1 DEF Settled
  <2>4. \A j \in joined' : Settled(j)
    BY <2>1 DEF GrantsInv, JoinsSettled, Settled
  <2>5. \A d \in Clients : request'[d].step \in {"verified", "joined"} =>
          request'[d] = request[d] /\ Settled(request[d])
    BY <1>1, <2>1 DEF GrantsInv, JoinsSettled, Idle
  <2>6. JoinsSettled'
    BY <2>1, <2>3, <2>4, <2>5 DEF JoinsSettled, Settled
  <2> QED BY <2>2, <2>6 DEF GrantsInv
<1>10. ASSUME NEW c \in Clients, RecordIntent(c) \/ RequirePermission(c) \/ Commit(c)
       PROVE  GrantsInv'
  <2>1. CASE RecordIntent(c)
    <3>1. request' = [request EXCEPT ![c].step = "permitting"]
      BY <2>1 DEF RecordIntent, Goto
    <3> QED BY <1>1, <2>1, <3>1, RowsAlone DEF RecordIntent
  <2>2. CASE RequirePermission(c)
    <3>1. PICK s \in {"acting", "denying"} : request' = [request EXCEPT ![c].step = s]
      BY <2>2 DEF RequirePermission, Goto
    <3> QED BY <1>1, <2>2, <3>1, RowsAlone DEF RequirePermission
  <2>3. CASE Commit(c)
    BY <1>1, <2>3, RowsAlone DEF Commit, Answered, Idle
  <2> QED BY <1>10, <2>1, <2>2, <2>3
<1>11. CASE Issue
  BY <1>1, <1>11, RowsAlone DEF Issue
<1>12. CASE FinishRun \/ Tick
  BY <1>1, <1>12, RowsAlone DEF FinishRun, Tick
<1>13. CASE TownRestarts
  BY <1>1, <1>13, RowsAlone DEF TownRestarts, Idle
<1> QED
  BY <1>2, <1>3, <1>4, <1>5, <1>6, <1>7, <1>8, <1>9, <1>10, <1>11, <1>12, <1>13
  DEF GrantsNext, Handle

\* The invariant holds of every reachable state.
LEMMA GrantsInvariance == GrantsSpec => []GrantsInv
BY GrantsInitInv, GrantsStep, PTL DEF GrantsSpec

\* Every answered join of a role got the session the role still has, for any
\* number of clients, requests and grants.
THEOREM SessionsAgree == GrantsSpec => []OneSession
<1>1. GrantsInv => OneSession
  BY DEF GrantsInv, JoinsSettled, Settled, OneSession
<1> QED BY <1>1, GrantsInvariance, PTL

\* Once a grant's join was answered, no older grant is in force for its role,
\* whatever was verified before and written late.
THEOREM SupersededForEver == GrantsSpec => []NotRewidened
<1>1. GrantsInv => NotRewidened
  BY DEF GrantsInv, JoinsSettled, Settled, NotRewidened
<1> QED BY <1>1, GrantsInvariance, PTL

-----------------------------------------------------------------------------
(* The limits of a pinned role, and what its requests act by.              *)

\* What carries a join carries, for a pinned role, a grant its controller signed.
Signed(q) == q.role \in Pinned => q.grant \in issued /\ q.grant.role = q.role

\* An action was asked for after a join of its role was answered.
Asks(q) == q.before # {} /\ q.before \subseteq joined /\ \A j \in q.before : j.role = q.role

ActsUnder(q) ==
  q.role \in Pinned =>
    \E g \in issued : /\ g.role = q.role /\ q.action \in g.permissions
                     /\ \A j \in q.before : g.issuedAt >= j.grant.issuedAt

Sound(q) ==
  /\ q.step \in {"authenticating", "verified", "joined"} => Signed(q)
  /\ q.step \in {"intent", "permitting", "acting"} => Asks(q)
  /\ q.step = "acting" => ActsUnder(q)

RequestsSound == \A c \in Clients : Sound(request[c])
JoinsSigned == \A j \in joined : Signed(j)

LimitsInv == RequestsSound /\ JoinsSigned /\ PinnedIsLimited

\* Later issues and joins take nothing from a request.
LEMMA SoundStays ==
  ASSUME issued \subseteq issued', joined \subseteq joined'
  PROVE  /\ \A q : Sound(q) => Sound(q)'
         /\ \A q : Signed(q) => Signed(q)'
<1>1. \A q : Signed(q) => Signed(q)'
  BY DEF Signed
<1>2. \A q : Asks(q) => Asks(q)'
  BY DEF Asks
<1>3. \A q : ActsUnder(q) => ActsUnder(q)'
  BY DEF ActsUnder
<1> QED BY <1>1, <1>2, <1>3 DEF Sound

\* A step of one client that leaves the rows and the joins alone.
LEMMA OneAsks ==
  ASSUME LimitsInv, DOMAIN request = Clients, NEW c \in Clients, NEW q, Sound(q),
         request' = [request EXCEPT ![c] = q], UNCHANGED <<participants, joined, issued>>
  PROVE  LimitsInv'
<1>1. \A d \in Clients : \E r : Sound(r) /\ request'[d] = r
  BY DEF LimitsInv, RequestsSound
<1>2. RequestsSound'
  BY <1>1, SoundStays DEF RequestsSound
<1>3. JoinsSigned' /\ PinnedIsLimited'
  BY SoundStays DEF LimitsInv, JoinsSigned, PinnedIsLimited
<1> QED BY <1>2, <1>3 DEF LimitsInv

\* An idle client and a refusal are sound whatever the state.
LEMMA Harmless ==
  ASSUME NEW q, q.step \in {"idle", "rejecting", "denying", "requiring"}
  PROVE  Sound(q)
BY DEF Sound

\* authenticate writes only limits that are signed.
LEMMA LimitsAfterJoin ==
  ASSUME GrantsInv, LimitsInv, NEW c \in Clients, Authenticate(c)
  PROVE  LimitsInv'
<1> DEFINE r == request[c].role
           g == request[c].grant
           next == RowAfter(c, participants[r])
<1>1. /\ request[c].step = "authenticating" /\ r \in Roles /\ DOMAIN request = Clients
      /\ g \in Grant \cup {Token} /\ participants \in [Roles -> Row]
      /\ Signed(request[c])
  BY DEF Authenticate, Step, GrantsInv, JoinsTyped, Joining, RowsTyped, LimitsInv, RequestsSound,
         Sound
<1>2. /\ participants' = [participants EXCEPT ![r] = next]
      /\ UNCHANGED <<issued, joined>>
  BY DEF Authenticate
<1>3. /\ request'[c].step \in {"joined", "verified"} /\ request'[c].role = r
      /\ request'[c].grant = g
      /\ \A d \in Clients \ {c} : request'[d] = request[d]
  BY <1>1 DEF Authenticate, AfterJoin
<1>4. RequestsSound'
  <2>1. Sound(request[c])'
    BY <1>1, <1>2, <1>3 DEF Sound, Signed
  <2>2. \A d \in Clients \ {c} : Sound(request[d]) /\ request'[d] = request[d]
    BY <1>3 DEF LimitsInv, RequestsSound
  <2>3. \A d \in Clients \ {c} : Sound(request[d])'
    BY <1>2, <2>2, SoundStays
  <2> QED BY <2>1, <2>3 DEF RequestsSound
<1>5. JoinsSigned'
  BY <1>2, SoundStays DEF LimitsInv, JoinsSigned
<1>6. PinnedIsLimited'
  <2> SUFFICES ASSUME NEW x \in Pinned, participants'[x].session # 0
               PROVE  /\ participants'[x].granted
                      /\ \E h \in issued : /\ h.role = x
                                           /\ h.permissions = participants'[x].permissions
                                           /\ h.issuedAt = participants'[x].issuedAt
    BY <1>2 DEF PinnedIsLimited
  <2>1. x \in Roles
    BY GrantsAssumption
  <2>2. CASE x # r
    <3>1. participants'[x] = participants[x]
      BY <1>1, <1>2, <2>1, <2>2
    <3> QED BY <3>1 DEF LimitsInv, PinnedIsLimited
  <2>3. CASE x = r
    <3>1. g \in issued /\ g.role = x /\ g # Token
      BY <1>1, <2>3, GrantsAssumption DEF Signed, GrantsInv, RowsTyped, Grant
    <3>2. participants'[x] = next
      BY <1>1, <1>2, <2>1, <2>3
    <3>3. CASE participants[r].session = 0 \/ NotOlder(g, participants[r])
      <4>1. /\ next.granted /\ next.permissions = g.permissions /\ next.issuedAt = g.issuedAt
        BY <3>1, <3>3 DEF RowAfter
      <4> QED BY <3>1, <3>2, <4>1
    <3>4. CASE participants[r].session # 0 /\ ~NotOlder(g, participants[r])
      <4>1. next = participants[r]
        BY <3>1, <3>4 DEF RowAfter
      <4> QED BY <2>3, <3>2, <3>4, <4>1 DEF LimitsInv, PinnedIsLimited
    <3> QED BY <3>3, <3>4
  <2> QED BY <2>2, <2>3
<1> QED BY <1>4, <1>5, <1>6 DEF LimitsInv

\* What require_permission lets through is allowed by the grant in force, which is no
\* older than any whose join was answered before.
LEMMA PermittedByNewest ==
  ASSUME GrantsInv, LimitsInv, NEW c \in Clients, request[c].step = "permitting",
         Permitted(participants[request[c].role], request[c].action)
  PROVE  ActsUnder(request[c])
<1> SUFFICES ASSUME request[c].role \in Pinned
             PROVE  \E g \in issued :
                      /\ g.role = request[c].role /\ request[c].action \in g.permissions
                      /\ \A j \in request[c].before : g.issuedAt >= j.grant.issuedAt
  BY DEF ActsUnder
<1> DEFINE r == request[c].role
<1>1. /\ request[c].before # {} /\ request[c].before \subseteq joined
      /\ \A j \in request[c].before : j.role = r
  BY DEF LimitsInv, RequestsSound, Sound, Asks
<1>2. \A j \in request[c].before :
        /\ participants[r].session # 0
        /\ j.grant # Token => participants[r].issuedAt >= j.grant.issuedAt
  BY <1>1 DEF GrantsInv, JoinsSettled, Settled
<1>3. \A j \in request[c].before : j.grant # Token
  BY <1>1, GrantsAssumption DEF LimitsInv, JoinsSigned, Signed, GrantsInv, RowsTyped, Grant
<1>4. participants[r].session # 0
  BY <1>1, <1>2
<1>5. PICK g \in issued : /\ g.role = r /\ g.permissions = participants[r].permissions
                          /\ g.issuedAt = participants[r].issuedAt
  BY <1>4 DEF LimitsInv, PinnedIsLimited
<1>6. request[c].action \in participants[r].permissions
  BY <1>4 DEF Permitted, LimitsInv, PinnedIsLimited
<1> QED BY <1>2, <1>3, <1>5, <1>6

\* Every step keeps the limits.
LEMMA LimitsStep ==
  ASSUME GrantsInv, LimitsInv, [GrantsNext]_grantVars
  PROVE  LimitsInv'
<1>1. DOMAIN request = Clients /\ issued \subseteq Grant
  BY DEF GrantsInv, RowsTyped
<1>2. CASE UNCHANGED <<participants, request, joined>> /\ issued \subseteq issued'
  <2>1. RequestsSound' /\ JoinsSigned'
    BY <1>2, SoundStays DEF LimitsInv, RequestsSound, JoinsSigned
  <2>2. PinnedIsLimited'
    BY <1>2 DEF LimitsInv, PinnedIsLimited
  <2> QED BY <2>1, <2>2 DEF LimitsInv
<1>3. ASSUME NEW c \in Clients, JoinWithToken(c) PROVE LimitsInv'
  <2>1. PICK r \in Roles :
           request' = [request EXCEPT ![c] =
             [step |-> IF MayTokenJoin(r) THEN "authenticating" ELSE "requiring",
              role |-> r, id |-> requests + 1, grant |-> Token]]
    BY <1>3 DEF JoinWithToken
  <2> DEFINE q == [step |-> IF MayTokenJoin(r) THEN "authenticating" ELSE "requiring",
                   role |-> r, id |-> requests + 1, grant |-> Token]
  <2>2. Sound(q)
    BY DEF Sound, Signed, MayTokenJoin
  <2> HIDE DEF q
  <2> QED BY <1>1, <1>3, <2>1, <2>2, OneAsks DEF JoinWithToken, q
<1>4. ASSUME NEW c \in Clients, JoinWithGrant(c) PROVE LimitsInv'
  <2>1. PICK g \in issued, genuine \in BOOLEAN :
           request' = [request EXCEPT ![c] =
             [step |-> IF ~genuine \/ Expired(g, clock) THEN "rejecting"
                       ELSE IF "join" \notin g.permissions THEN "denying"
                       ELSE "authenticating",
              role |-> g.role, id |-> requests + 1, grant |-> g, action |-> "join"]]
    BY <1>4 DEF JoinWithGrant
  <2> DEFINE q == [step |-> IF ~genuine \/ Expired(g, clock) THEN "rejecting"
                            ELSE IF "join" \notin g.permissions THEN "denying"
                            ELSE "authenticating",
                   role |-> g.role, id |-> requests + 1, grant |-> g, action |-> "join"]
  <2>2. Sound(q)
    BY DEF Sound, Signed
  <2> HIDE DEF q
  <2> QED BY <1>1, <1>4, <2>1, <2>2, OneAsks DEF JoinWithGrant, q
<1>5. ASSUME NEW c \in Clients, Request(c) PROVE LimitsInv'
  <2>1. PICK j \in joined, a \in Actions :
           request' = [request EXCEPT ![c] =
             [step |-> "intent", role |-> j.role, action |-> a,
              before |-> {k \in joined : k.role = j.role}]]
    BY <1>5 DEF Request
  <2> DEFINE q == [step |-> "intent", role |-> j.role, action |-> a,
                   before |-> {k \in joined : k.role = j.role}]
  <2>2. Sound(q)
    BY DEF Sound, Asks
  <2> HIDE DEF q
  <2> QED BY <1>1, <1>5, <2>1, <2>2, OneAsks DEF Request, q
<1>6. ASSUME NEW c \in Clients, Refused(c) \/ Reject(c) \/ Commit(c) PROVE LimitsInv'
  <2>1. request' = [request EXCEPT ![c] = Idle] /\ UNCHANGED <<participants, joined, issued>>
    BY <1>6 DEF Refused, Reject, Commit, Record, Answered
  <2>2. Sound(Idle)
    BY DEF Sound, Idle
  <2> QED BY <1>1, <2>1, <2>2, OneAsks
<1>7. ASSUME NEW c \in Clients, Authenticate(c) PROVE LimitsInv'
  BY <1>7, LimitsAfterJoin
<1>8. ASSUME NEW c \in Clients, RecordVerified(c) \/ RecordIntent(c) PROVE LimitsInv'
  <2>1. PICK s \in {"joined", "permitting"} :
          /\ request' = [request EXCEPT ![c].step = s]
          /\ s = "joined" => request[c].step = "verified"
          /\ s = "permitting" => request[c].step = "intent"
    BY <1>8 DEF RecordVerified, RecordIntent, Step, Goto
  <2>2. UNCHANGED <<participants, joined, issued>>
    BY <1>8 DEF RecordVerified, RecordIntent, Record
  <2> DEFINE q == [request[c] EXCEPT !.step = s]
  <2>3. Sound(request[c]) /\ request' = [request EXCEPT ![c] = q]
    BY <2>1 DEF LimitsInv, RequestsSound
  <2>4. Sound(q)
    BY <2>1, <2>3 DEF Sound, Signed, Asks, ActsUnder
  <2> HIDE DEF q
  <2> QED BY <1>1, <2>2, <2>3, <2>4, OneAsks
<1>9. ASSUME NEW c \in Clients, RecordJoined(c) PROVE LimitsInv'
  <2>1. /\ request[c].step = "joined"
        /\ joined' = joined \cup {[role |-> request[c].role, session |-> request[c].session,
                                    grant |-> request[c].grant]}
        /\ request' = [request EXCEPT ![c] = Idle]
        /\ UNCHANGED <<participants, issued>>
    BY <1>9 DEF RecordJoined, Record, Answered, Step
  <2>2. Signed(request[c])
    BY <2>1 DEF LimitsInv, RequestsSound, Sound
  <2>3. JoinsSigned'
    BY <2>1, <2>2 DEF LimitsInv, JoinsSigned, Signed
  <2>4. \A d \in Clients : \E r : Sound(r) /\ request'[d] = r
    <3>1. Sound(Idle)
      BY DEF Sound, Idle
    <3> QED BY <1>1, <2>1, <3>1 DEF LimitsInv, RequestsSound
  <2>5. RequestsSound'
    BY <2>1, <2>4, SoundStays DEF RequestsSound
  <2>6. PinnedIsLimited'
    BY <2>1 DEF LimitsInv, PinnedIsLimited
  <2> QED BY <2>3, <2>5, <2>6 DEF LimitsInv
<1>10. ASSUME NEW c \in Clients, RequirePermission(c) PROVE LimitsInv'
  <2>1. PICK s \in {"acting", "denying"} :
          /\ request' = [request EXCEPT ![c].step = s]
          /\ s = "acting" => Permitted(participants[request[c].role], request[c].action)
    BY <1>10 DEF RequirePermission, Goto
  <2>2. request[c].step = "permitting" /\ UNCHANGED <<participants, joined, issued>>
    BY <1>10 DEF RequirePermission, Step
  <2>3. s = "acting" => ActsUnder(request[c])
    BY <2>1, <2>2, PermittedByNewest
  <2> DEFINE q == [request[c] EXCEPT !.step = s]
  <2>4. Sound(request[c]) /\ request' = [request EXCEPT ![c] = q]
    BY <2>1 DEF LimitsInv, RequestsSound
  <2>5. Sound(q)
    BY <2>1, <2>2, <2>3, <2>4 DEF Sound, Asks, ActsUnder
  <2> HIDE DEF q
  <2> QED BY <1>1, <2>2, <2>4, <2>5, OneAsks
<1>11. CASE TownRestarts
  <2>1. RequestsSound'
    BY <1>11 DEF TownRestarts, RequestsSound, Sound, Idle
  <2>2. JoinsSigned' /\ PinnedIsLimited'
    BY <1>11, SoundStays DEF TownRestarts, LimitsInv, JoinsSigned, PinnedIsLimited
  <2> QED BY <2>1, <2>2 DEF LimitsInv
<1> QED
  BY <1>2, <1>3, <1>4, <1>5, <1>6, <1>7, <1>8, <1>9, <1>10, <1>11
  DEF GrantsNext, Handle, Issue, FinishRun, Tick, grantVars

\* The limits hold of every reachable state.
LEMMA LimitsInvariance == GrantsSpec => []LimitsInv
<1>1. GrantsInit => LimitsInv
  BY GrantsAssumption
  DEF GrantsInit, LimitsInv, RequestsSound, Sound, JoinsSigned, PinnedIsLimited, Idle, Unjoined
<1> QED BY <1>1, LimitsStep, GrantsInvariance, PTL DEF GrantsSpec

\* A pinned role is never without limits, and they are those of a grant its controller
\* signed, also after a restart of the coordinator in the middle of its joins.
THEOREM PinnedForEver == GrantsSpec => []PinnedIsLimited
<1>1. LimitsInv => PinnedIsLimited
  BY DEF LimitsInv
<1> QED BY <1>1, LimitsInvariance, PTL

\* A request sent after the join of a grant was answered acts by a grant no older.
THEOREM NarrowingHolds == GrantsSpec => []ActsByTheNewest
<1>1. LimitsInv => ActsByTheNewest
  BY DEF LimitsInv, RequestsSound, Sound, ActsUnder, ActsByTheNewest, Step
<1> QED BY <1>1, LimitsInvariance, PTL
=============================================================================
