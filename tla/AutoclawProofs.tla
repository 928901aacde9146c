--------------------------- MODULE AutoclawProofs ---------------------------
(***************************************************************************)
(* Theorems about Autoclaw, for every number of accounts and requests, and *)
(* about the answers it relays, which Aggregate and StreamHint read for    *)
(* the other upstreams too (Streams): for every number of calls, parts of  *)
(* their arguments, frames, and every interleaving of the calls.           *)
(*                                                                         *)
(* Streams.  What the answer has is said of the table that Aggregate       *)
(* fills, but that a piece finds its place there depends on more: that the *)
(* calls begun are the first ones, and stand in the table in the order in  *)
(* which they began (Gathered); that without indexes the ids lead to these *)
(* places, and the place opened last is that of the one call that is not   *)
(* complete (NumberedCalls).  What the client of the stream adds up is     *)
(* compared with that table, frame by frame (Mirrored), and the answer     *)
(* with it at the end (Concluded).  Together with the types they are       *)
(* inductive (StreamInv).  A frame has at most one piece, so the functions *)
(* that fold over pieces are unfolded for none and for one.                *)
(***************************************************************************)
EXTENDS Autoclaw, Streams, FiniteSetTheorems, TLAPS

LEMMA PlacesAreAccounts ==
  ASSUME NEW a \in Accounts
  PROVE  /\ a \in Nat /\ a < N /\ N \in Nat
         /\ After(a) \in Accounts
BY AutoclawAssumption DEF Accounts, After

LEMMA NotedIsHealth ==
  ASSUME NEW h \in Health, NEW kind \in Kinds
  PROVE  Noted(h, kind) \in Health
<1>1. Threshold \in Nat
  BY AutoclawAssumption
<1>2. (IF h.fails < Threshold THEN h.fails + 1 ELSE h.fails) \in 0..Threshold
  BY <1>1 DEF Health
<1>3. /\ (IF kind \in {"soft", "credit"} THEN kind ELSE h.cool) \in {"none", "soft", "credit"}
      /\ 0 \in 0..Threshold
  BY <1>1 DEF Health
<1> QED
  BY <1>1, <1>2, <1>3 DEF Noted, Health

LEMMA IdleIsActor == Idle \in Actor
<1>1. 0 \in Accounts
  BY AutoclawAssumption DEF Accounts
<1> QED
  BY <1>1 DEF Idle, Actor, PCs, TokenPCs

LEMMA FreshIsHealth == Fresh \in Health
<1>1. 0 \in 0..Threshold
  BY AutoclawAssumption
<1> QED
  BY <1>1 DEF Fresh, Health

\* Changing a field of an actor leaves an actor.
LEMMA ActorFields ==
  ASSUME NEW q \in Actor
  PROVE  /\ \A pc \in PCs : [q EXCEPT !.pc = pc] \in Actor
         /\ \A a \in Accounts : [q EXCEPT !.a = a] \in Actor
         /\ \A s \in SUBSET Accounts : [q EXCEPT !.tried = s] \in Actor
         /\ \A n \in 0..3 : [q EXCEPT !.tries = n] \in Actor
         /\ \A b \in BOOLEAN : [q EXCEPT !.again = b] \in Actor
         /\ \A t \in Nat : [q EXCEPT !.tok = t] \in Actor
         /\ \A t \in Nat : [q EXCEPT !.ref = t] \in Actor
BY DEF Actor

LEMMA ActorMoves ==
  ASSUME NEW f \in [Actors -> Actor], NEW x \in Actors
  PROVE  /\ \A pc \in PCs : [f EXCEPT ![x].pc = pc] \in [Actors -> Actor]
         /\ \A b \in BOOLEAN : [f EXCEPT ![x].again = b] \in [Actors -> Actor]
         /\ \A t \in Nat : [f EXCEPT ![x].tok = t] \in [Actors -> Actor]
         /\ \A t \in Nat : [f EXCEPT ![x].ref = t] \in [Actors -> Actor]
         /\ \A q \in Actor : [f EXCEPT ![x] = q] \in [Actors -> Actor]
<1>1. f[x] \in Actor
  OBVIOUS
<1>2. \A q \in Actor : [f EXCEPT ![x] = q] \in [Actors -> Actor]
  OBVIOUS
<1> QED
  BY <1>1, <1>2, ActorFields

LEMMA InitTypeOK ==
  ASSUME Init
  PROVE  TypeOK
<1>1. 0 \in Accounts
  BY AutoclawAssumption DEF Accounts
<1> QED
  BY <1>1, IdleIsActor, FreshIsHealth, AutoclawAssumption DEF Init, TypeOK, Credentials

LEMMA StepTypeOK ==
  ASSUME TypeOK, [Next]_vars
  PROVE  TypeOK'
<1> USE AutoclawAssumption
<1>0. /\ world.kinds \subseteq Kinds
      /\ \A kind \in {"soft", "credit", "server", "client", "auth"} : kind \in Kinds
      /\ \A a \in Accounts, t \in Nat : Failures(a, t) \subseteq Kinds
      /\ 0 \in Accounts /\ Idle \in Actor /\ Fresh \in Health
  BY IdleIsActor, FreshIsHealth DEF TypeOK, Accounts, Kinds, Failures
<1>1. ASSUME NEW a \in Accounts, NEW kind \in Kinds, NoteError(a, kind)
      PROVE  acct' \in [Accounts -> Health]
  BY <1>1, NotedIsHealth DEF NoteError, TypeOK
<1>2. ASSUME NEW x \in Actors
      PROVE  /\ act[x] \in Actor
             /\ act[x].a \in Accounts /\ act[x].tok \in Nat /\ act[x].tried \subseteq Accounts
             /\ \A pc \in PCs : [act EXCEPT ![x].pc = pc] \in [Actors -> Actor]
             /\ [act EXCEPT ![x] = Idle] \in [Actors -> Actor]
  <2>1. act \in [Actors -> Actor]
    BY DEF TypeOK
  <2> QED
    BY <1>0, <2>1, ActorMoves DEF Actor
<1>3. /\ PCs = {"check", "snap", "refresh", "store", "save", "read",
                "idle", "pick", "next", "call", "serve", "task"}
      /\ Requests \subseteq Actors /\ Job \in Actors
  BY DEF PCs, TokenPCs, Actors
<1>11. ASSUME NEW r \in Requests, Start(r) PROVE TypeOK'
  <2>1. (IF Cardinality(Eligible({})) > 3 THEN 3 ELSE Cardinality(Eligible({}))) \in 0..3
    <3>1. Eligible({}) \subseteq Accounts /\ IsFiniteSet(Accounts)
      BY FS_Interval DEF Eligible, Accounts
    <3>2. Cardinality(Eligible({})) \in Nat
      BY <3>1, FS_Subset, FS_CardinalityType
    <3> QED
      BY <3>2
  <2> QED
    BY <1>11, <1>0, <1>3, <2>1 DEF Start, TypeOK, Actor, pool, tokens, disk
<1>12. ASSUME NEW r \in Requests, Pick(r) PROVE TypeOK'
  <2>1. PICK a \in First(act[r].tried) :
          /\ Advance(a, act[r].tried)
          /\ act' = [act EXCEPT ![r] = [Idle EXCEPT !.pc = "check", !.a = a,
                        !.tries = act[r].tries - 1, !.tried = act[r].tried \cup {a}]]
    BY <1>12 DEF Pick
  <2>2. a \in Accounts
    BY DEF First, Eligible
  <2>3. act[r].tries - 1 \in 0..3 /\ act[r].tried \cup {a} \subseteq Accounts
    <3>1. act[r].tries \in 0..3 /\ act[r].tries > 0
      BY <1>12, <1>2, <1>3 DEF Pick, Actor
    <3> QED
      <4>1. act[r].tried \subseteq Accounts
        BY <1>2, <1>3
      <4>2. act[r].tries - 1 \in 0..3
        BY <3>1
      <4> QED
        BY <2>2, <4>1, <4>2
  <2>4. act' \in [Actors -> Actor]
    <3>1. [Idle EXCEPT !.pc = "check", !.a = a, !.tries = act[r].tries - 1,
                       !.tried = act[r].tried \cup {a}] \in Actor
      BY <1>0, <1>3, <2>2, <2>3, ActorFields
    <3> QED
      BY <1>3, <2>1, <3>1, ActorMoves DEF TypeOK
  <2>5. rr' \in Accounts /\ passed' \in [Accounts -> Nat]
    BY <2>1, <2>2, PlacesAreAccounts DEF Advance, TypeOK
  <2> QED
    BY <1>12, <2>4, <2>5 DEF Pick, TypeOK, tokens, disk
<1>13. ASSUME NEW r \in Requests, GiveUp(r) PROVE TypeOK'
  BY <1>13, <1>2, <1>3 DEF GiveUp, Leave, TypeOK, pool, tokens, disk
<1>14. ASSUME SigninStart PROVE TypeOK'
  BY <1>14, <1>2, <1>3 DEF SigninStart, Goto, TypeOK, pool, tokens, disk
<1>15. ASSUME SigninNext PROVE TypeOK'
  <2>1. CASE act[Job].tried = Accounts
    <3>1. act' \in [Actors -> Actor]
      <4>1. Leave(Job)
        BY <1>15, <2>1 DEF SigninNext
      <4> QED
        BY <1>2, <1>3, <4>1 DEF Leave
    <3> QED
      BY <1>15, <3>1 DEF SigninNext, TypeOK, pool, tokens, disk
  <2>2. CASE act[Job].tried # Accounts
    <3>1. PICK a \in Accounts :
            act' = [act EXCEPT ![Job] = [Idle EXCEPT !.a = a, !.tried = act[Job].tried \cup {a},
                        !.pc = IF acct[a].relogin THEN "next" ELSE "check"]]
      BY <1>15, <2>2 DEF SigninNext
    <3>2. act' \in [Actors -> Actor]
      <4>1. /\ act[Job].tried \cup {a} \in SUBSET Accounts
            /\ (IF acct[a].relogin THEN "next" ELSE "check") \in PCs
        BY <1>2, <1>3
      <4>2. [Idle EXCEPT !.a = a, !.tried = act[Job].tried \cup {a},
                         !.pc = IF acct[a].relogin THEN "next" ELSE "check"] \in Actor
        BY <1>0, <4>1, ActorFields
      <4> QED
        BY <1>3, <3>1, <4>2, ActorMoves DEF TypeOK
    <3> QED
      BY <1>15, <3>2 DEF SigninNext, TypeOK, pool, tokens, disk
  <2> QED
    BY <2>1, <2>2
<1>16. ASSUME SigninTask PROVE TypeOK'
  <2>1. act' \in [Actors -> Actor]
    BY <1>16, <1>2, <1>3 DEF SigninTask, Goto
  <2>2. acct' \in [Accounts -> Health]
    BY <1>16, <1>0, <1>1, <1>2, <1>3 DEF SigninTask, TypeOK
  <2> QED
    BY <1>16, <2>1, <2>2 DEF SigninTask, TypeOK, tokens, disk
<1>17. ASSUME NEW x \in Actors, NeedsRefresh(x) PROVE TypeOK'
  BY <1>17, <1>2, <1>3 DEF NeedsRefresh, Goto, TypeOK, pool, tokens, disk
<1>18. ASSUME NEW x \in Actors, RefreshSnapshot(x) PROVE TypeOK'
  <2>1. cred[act[x].a].refresh \in Nat
    BY <1>2 DEF TypeOK, Credentials
  <2> QED
    <3>1. act' \in [Actors -> Actor]
      BY <1>18, <1>3, <2>1, ActorMoves DEF RefreshSnapshot, TypeOK
    <3> QED
      BY <1>18, <3>1 DEF RefreshSnapshot, TypeOK, pool, tokens, disk
<1>19. ASSUME NEW x \in Actors, RefreshAnswered(x) PROVE TypeOK'
  <2>1. issued[act[x].a] + 1 \in Nat
    BY <1>2 DEF TypeOK
  <2>2. issued' \in [Accounts -> Nat] /\ accepted' \in [Accounts -> Nat]
    BY <1>19, <1>2, <2>1 DEF RefreshAnswered, Issue, TypeOK
  <2>3. act' \in [Actors -> Actor]
    <3>1. PICK rotates \in BOOLEAN :
            act' = [act EXCEPT ![x].pc = "store", ![x].tok = issued[act[x].a] + 1,
                               ![x].ref = IF rotates THEN issued[act[x].a] + 1 ELSE 0]
      BY <1>19 DEF RefreshAnswered
    <3>2. (IF rotates THEN issued[act[x].a] + 1 ELSE 0) \in Nat
      BY <2>1
    <3> QED
      BY <1>3, <2>1, <3>1, <3>2, ActorMoves DEF TypeOK
  <2> QED
    BY <1>19, <2>2, <2>3 DEF RefreshAnswered, TypeOK, pool, disk
<1>20. ASSUME NEW x \in Actors, RefreshFails(x) PROVE TypeOK'
  <2>1. Resume(x) \in PCs
    BY <1>3 DEF Resume
  <2>2. act' \in [Actors -> Actor]
    BY <1>20, <2>1, ActorMoves DEF RefreshFails, TypeOK
  <2>3. acct' \in [Accounts -> Health]
    BY <1>20, <1>0, <1>1, <1>2 DEF RefreshFails
  <2>4. /\ issued' \in [Accounts -> Nat] /\ accepted' \in [Accounts -> Nat]
        /\ cred' \in [Accounts -> Credentials] /\ lost' \subseteq Accounts
    BY <1>20, <1>2 DEF RefreshFails, Issue, TypeOK, tokens
  <2> QED
    BY <1>20, <2>2, <2>3, <2>4 DEF RefreshFails, TypeOK, disk
<1>21. ASSUME NEW x \in Actors, Store(x) PROVE TypeOK'
  <2>1. act' \in [Actors -> Actor]
    BY <1>21, <1>3, ActorMoves DEF Store, TypeOK
  <2>2. cred' \in [Accounts -> Credentials]
    BY <1>21, <1>2 DEF Store, TypeOK, Actor, Credentials
  <2> QED
    BY <1>21, <2>1, <2>2 DEF Store, TypeOK, pool, disk
<1>22. ASSUME NEW x \in Actors, SaveAtomic(x) PROVE TypeOK'
  <2>1. act' \in [Actors -> Actor]
    BY <1>22, <1>2, <1>3 DEF SaveAtomic, Goto
  <2>2. file' \in [Accounts -> Credentials] /\ unsaved' \subseteq Accounts
    BY <1>22, <1>2 DEF SaveAtomic, TypeOK
  <2> QED
    BY <1>22, <2>1, <2>2 DEF SaveAtomic, TypeOK, pool, tokens
<1>23. ASSUME NEW x \in Actors, ReadToken(x) PROVE TypeOK'
  <2>1. cred[act[x].a].access \in Nat
    BY <1>2 DEF TypeOK, Credentials
  <2> QED
    <3>1. act' \in [Actors -> Actor]
      BY <1>23, <1>3, <2>1, ActorMoves, ZenonT(40) DEF ReadToken, TypeOK
    <3> QED
      BY <1>23, <3>1 DEF ReadToken, TypeOK, pool, tokens, disk
<1>24. ASSUME NEW r \in Requests, CallAnswered(r) PROVE TypeOK'
  <2>1. act' \in [Actors -> Actor]
    BY <1>24, <1>3, ActorMoves DEF CallAnswered, TypeOK
  <2> QED
    BY <1>24, <2>1 DEF CallAnswered, TypeOK, pool, tokens, disk
<1>25. ASSUME NEW r \in Requests, CallFails(r) PROVE TypeOK'
  <2>1. PICK kind \in Failures(act[r].a, act[r].tok) :
          /\ NoteError(act[r].a, kind)
          /\ \/ Leave(r)
             \/ act' = [act EXCEPT ![r].pc = "check", ![r].again = TRUE, ![r].tok = 0]
             \/ act' = [act EXCEPT ![r].pc = "pick", ![r].tok = 0]
    BY <1>25 DEF CallFails
  <2>2. acct' \in [Accounts -> Health]
    BY <1>0, <1>1, <1>2, <1>3, <2>1
  <2>3. act' \in [Actors -> Actor]
    <3>1. CASE Leave(r)
      BY <1>2, <1>3, <3>1 DEF Leave
    <3>2. CASE act' = [act EXCEPT ![r].pc = "check", ![r].again = TRUE, ![r].tok = 0]
      <4> DEFINE f == [act EXCEPT ![r].pc = "check"]
                 g == [f EXCEPT ![r].again = TRUE]
      <4>1. f \in [Actors -> Actor]
        BY <1>2, <1>3
      <4>2. g \in [Actors -> Actor]
        BY <1>3, <4>1, ActorMoves
      <4> QED
        BY <1>3, <3>2, <4>2, ActorMoves, ZenonT(40)
    <3>3. CASE act' = [act EXCEPT ![r].pc = "pick", ![r].tok = 0]
      BY <1>3, <3>3, ActorMoves DEF TypeOK
    <3> QED
      BY <2>1, <3>1, <3>2, <3>3
  <2> QED
    BY <1>25, <2>2, <2>3 DEF CallFails, TypeOK, tokens, disk
<1>26. ASSUME NEW r \in Requests, RetryCancelled(r) PROVE TypeOK'
  <2>1. act' \in [Actors -> Actor]
    <3> DEFINE f == [act EXCEPT ![r].pc = "pick"]
               g == [f EXCEPT ![r].again = FALSE]
    <3>1. f \in [Actors -> Actor]
      BY <1>2, <1>3
    <3>2. g \in [Actors -> Actor]
      BY <1>3, <3>1, ActorMoves
    <3>3. act' = [g EXCEPT ![r].tok = 0]
      BY <1>26 DEF RetryCancelled
    <3> QED
      BY <1>3, <3>2, <3>3, ActorMoves, ZenonT(40)
  <2> QED
    BY <1>26, <2>1 DEF RetryCancelled, TypeOK, pool, tokens, disk
<1>27. ASSUME NEW r \in Requests, Served(r) PROVE TypeOK'
  <2>1. 0 \in 0..Threshold
    OBVIOUS
  <2>2. acct' \in [Accounts -> Health]
    BY <1>27, <1>2, <2>1, ZenonT(40) DEF Served, NoteSuccess, TypeOK, Health
  <2> QED
    BY <1>27, <1>2, <1>3, <2>2 DEF Served, Leave, TypeOK, tokens, disk
<1>28. ASSUME NEW a \in Accounts, CoolingEnds(a) PROVE TypeOK'
  BY <1>28 DEF CoolingEnds, TypeOK, Health, tokens, disk
<1>29. ASSUME NEW a \in Accounts, BreakerEnds(a) PROVE TypeOK'
  BY <1>29 DEF BreakerEnds, TypeOK, Health, tokens, disk
<1>30. ASSUME NEW a \in Accounts, TokenAges(a) PROVE TypeOK'
  BY <1>30 DEF TokenAges, TypeOK, pool, tokens, disk
<1>31. ASSUME NEW a \in Accounts, LoginEnds(a) PROVE TypeOK'
  BY <1>31 DEF LoginEnds, TypeOK, pool, disk
<1>32. ASSUME Restart PROVE TypeOK'
  BY <1>32, <1>0 DEF Restart, TypeOK, disk
<1>33. CASE UNCHANGED vars
  BY <1>33 DEF vars, TypeOK, pool, tokens, disk
<1> QED
  BY <1>3, <1>11, <1>12, <1>13, <1>14, <1>15, <1>16, <1>17, <1>18, <1>19, <1>20, <1>21, <1>22,
     <1>23, <1>24, <1>25, <1>26, <1>27, <1>28, <1>29, <1>30, <1>31, <1>32, <1>33
  DEF Next, Chat, Signin, EnsureToken

\* The pool, the credentials and the actors stay well formed; the search for an
\* account stays inside the pool.
THEOREM TypeCorrect == Spec => []TypeOK
<1>1. Init => TypeOK
  BY InitTypeOK
<1>2. TypeOK /\ [Next]_vars => TypeOK'
  BY StepTypeOK
<1> QED
  BY <1>1, <1>2, PTL DEF Spec
-----------------------------------------------------------------------------
(* Round robin.  Each pick that passes an eligible account over brings the *)
(* start of the search closer to it.                                       *)

Rotation == \A a \in Accounts : passed[a] + Dist(a) <= N - 1

LEMMA AdvanceRotates ==
  ASSUME TypeOK, Rotation, NEW s, NEW a \in First(s), Advance(a, s)
  PROVE  Rotation'
<1> SUFFICES ASSUME NEW b \in Accounts PROVE (passed[b] + Dist(b) <= N - 1)'
  BY DEF Rotation
<1>1. /\ a \in Accounts /\ a \in Nat /\ a < N /\ N \in Nat
      /\ b \in Nat /\ b < N /\ rr \in Nat /\ rr < N /\ passed[b] \in Nat
      /\ passed[b] + Dist(b) <= N - 1
  BY PlacesAreAccounts DEF First, Eligible, TypeOK, Rotation
<1>2. rr' = IF a + 1 = N THEN 0 ELSE a + 1
  BY DEF Advance, After
<1>3. CASE b \in Eligible(s) \ {a}
  <2>1. Dist(a) <= Dist(b) /\ a # b /\ passed'[b] = passed[b] + 1
    BY <1>3 DEF First, Advance
  <2> QED
    BY <1>1, <1>2, <2>1 DEF Dist
<1>4. CASE b \notin Eligible(s) \ {a}
  <2>1. passed'[b] = 0
    BY <1>4 DEF Advance
  <2> QED
    BY <1>1, <1>2, <2>1 DEF Dist
<1> QED
  BY <1>3, <1>4

\* An account that could serve is not passed over by N picks in a row.
THEOREM RoundRobin == Spec => []NobodyPassedOver
<1> USE AutoclawAssumption
<1>1. Init => Rotation
  BY DEF Init, Rotation, Dist, Accounts
<1>2. TypeOK /\ Rotation /\ [Next]_vars => Rotation'
  <2> SUFFICES ASSUME TypeOK, Rotation, [Next]_vars PROVE Rotation'
    OBVIOUS
  <2>1. \/ \E r \in Requests : Pick(r)
        \/ Restart
        \/ UNCHANGED <<rr, passed>>
    BY ZenonT(40) DEF Next, Chat, Signin, EnsureToken, vars, pool, Start, GiveUp, SigninStart, SigninNext,
           SigninTask, NeedsRefresh, RefreshSnapshot, RefreshAnswered, RefreshFails, Store,
           SaveAtomic, ReadToken, CallAnswered, CallFails, RetryCancelled, Served, CoolingEnds,
           BreakerEnds, TokenAges, LoginEnds
  <2>2. CASE \E r \in Requests : Pick(r)
    BY <2>2, AdvanceRotates DEF Pick
  <2>3. CASE Restart
    BY <2>3 DEF Restart, Rotation, Dist, Accounts
  <2>4. CASE UNCHANGED <<rr, passed>>
    BY <2>4 DEF Rotation, Dist
  <2> QED
    BY <2>1, <2>2, <2>3, <2>4
<1>3. TypeOK /\ Rotation => NobodyPassedOver
  <2> SUFFICES ASSUME TypeOK, Rotation, NEW a \in Accounts PROVE passed[a] < N
    BY DEF NobodyPassedOver
  <2>1. Dist(a) \in Nat /\ passed[a] \in Nat /\ passed[a] + Dist(a) <= N - 1
    BY SMTT(30) DEF Dist, TypeOK, Rotation, Accounts
  <2> QED
    BY <2>1
<1> QED
  BY <1>1, <1>2, <1>3, TypeCorrect, PTL DEF Spec
-----------------------------------------------------------------------------
(* Refresh tokens.  Whoever stores a new refresh token stores the one      *)
(* upstream takes, and while it has yet to store it nobody else has it: so *)
(* no concurrent refresh succeeds, and no concurrent save loses it.        *)

Holds(x, a) == act[x].pc = "store" /\ act[x].a = a /\ act[x].ref # 0

Numbered ==
  /\ \A a \in Accounts : cred[a].refresh <= issued[a] /\ file[a].refresh <= issued[a]
  /\ \A x \in Actors : /\ act[x].pc = "refresh" => act[x].tok <= issued[act[x].a]
                       /\ act[x].pc = "store" => act[x].ref <= issued[act[x].a]

SoleHolder ==
  \A a \in Accounts \ lost :
    /\ accepted[a] # 0
    /\ \A x \in Actors : Holds(x, a) =>
         /\ act[x].ref = accepted[a] /\ cred[a].refresh # accepted[a]
         /\ \A y \in Actors : act[y].pc = "refresh" /\ act[y].a = a => act[y].tok # accepted[a]
         /\ \A y \in Actors : Holds(y, a) => y = x

TInv == TypeOK /\ Numbered /\ SoleHolder /\ RefreshTokenKept

\* A step that leaves tokens and files alone, and in which nobody begins or ends
\* to refresh, store or save.
LEMMA QuietStep ==
  ASSUME TInv, TypeOK',
         UNCHANGED <<cred, file, accepted, issued, lost, unsaved>>,
         \A x \in Actors : \/ act'[x] = act[x]
                           \/ /\ act[x].pc \notin {"store", "save"}
                              /\ act'[x].pc \notin {"refresh", "store", "save"}
  PROVE  TInv'
<1>1. Numbered'
  BY DEF TInv, Numbered
<1>2. SoleHolder'
  BY DEF TInv, SoleHolder, Holds
<1>3. RefreshTokenKept'
  BY DEF TInv, RefreshTokenKept, TokenSafe, TokenSaved
<1> QED
  BY <1>1, <1>2, <1>3 DEF TInv

LEMMA SnapshotKeeps ==
  ASSUME TInv, TypeOK', NEW x \in Actors, RefreshSnapshot(x)
  PROVE  TInv'
<1> DEFINE a == act[x].a
<1>1. /\ act[x].pc = "snap" /\ act'[x].pc = "refresh" /\ act'[x].a = a
      /\ act'[x].tok = cred[a].refresh
      /\ \A y \in Actors \ {x} : act'[y] = act[y]
      /\ UNCHANGED <<cred, file, accepted, issued, lost, unsaved>>
      /\ a \in Accounts
  BY DEF RefreshSnapshot, TInv, TypeOK, tokens, disk, Actor
<1>2. Numbered'
  BY <1>1 DEF TInv, Numbered
<1>3. SoleHolder'
  BY <1>1 DEF TInv, SoleHolder, Holds
<1>4. RefreshTokenKept'
  BY <1>1 DEF TInv, RefreshTokenKept, TokenSafe, TokenSaved
<1> QED
  BY <1>2, <1>3, <1>4 DEF TInv

\* Whoever spends the token upstream takes is the only one to get a new one.
LEMMA AnswerKeeps ==
  ASSUME TInv, TypeOK', NEW x \in Actors, RefreshAnswered(x)
  PROVE  TInv'
<1> DEFINE a == act[x].a
           n == issued[a] + 1
<1>1. PICK rotates \in BOOLEAN :
        /\ Issue(a, rotates)
        /\ act' = [act EXCEPT ![x].pc = "store", ![x].tok = n, ![x].ref = IF rotates THEN n ELSE 0]
  BY DEF RefreshAnswered
<1>2. /\ act[x].pc = "refresh" /\ act[x].tok = accepted[a]
      /\ act'[x].pc = "store" /\ act'[x].a = a /\ act'[x].ref = IF rotates THEN n ELSE 0
      /\ \A y \in Actors \ {x} : act'[y] = act[y]
      /\ UNCHANGED <<cred, file, lost, unsaved>>
      /\ a \in Accounts /\ issued[a] \in Nat
  BY <1>1 DEF RefreshAnswered, TInv, TypeOK, disk, Actor
<1>3. /\ issued'[a] = n /\ \A b \in Accounts \ {a} : issued'[b] = issued[b] /\ accepted'[b] = accepted[b]
      /\ accepted'[a] = IF rotates THEN n ELSE accepted[a]
  BY <1>1, <1>2 DEF Issue, TInv, TypeOK
<1>4. a \notin lost => \A y \in Actors : ~Holds(y, a)
  BY <1>2 DEF TInv, SoleHolder
<1>5. /\ \A b \in Accounts : issued[b] \in Nat /\ issued[b] <= issued'[b]
      /\ \A b \in Accounts : cred[b].refresh \in Nat /\ file[b].refresh \in Nat
      /\ \A y \in Actors : act[y].tok \in Nat /\ act[y].ref \in Nat /\ act[y].a \in Accounts
  BY <1>2, <1>3, SMTT(40) DEF TInv, TypeOK, Credentials, Actor
<1>6. Numbered'
  <2>1. \A b \in Accounts : (cred[b].refresh <= issued[b] /\ file[b].refresh <= issued[b])'
    BY <1>2, <1>3, <1>5 DEF TInv, Numbered
  <2>2. \A y \in Actors \ {x} : /\ act'[y].pc = "refresh" => act'[y].tok <= issued'[act'[y].a]
                                /\ act'[y].pc = "store" => act'[y].ref <= issued'[act'[y].a]
    <3> SUFFICES ASSUME NEW y \in Actors \ {x}
                 PROVE  /\ act[y].pc = "refresh" => act[y].tok <= issued'[act[y].a]
                        /\ act[y].pc = "store" => act[y].ref <= issued'[act[y].a]
      BY <1>2
    <3>1. /\ act[y].pc = "refresh" => act[y].tok <= issued[act[y].a]
          /\ act[y].pc = "store" => act[y].ref <= issued[act[y].a]
      BY DEF TInv, Numbered
    <3>2. /\ issued[act[y].a] \in Nat /\ issued'[act[y].a] \in Nat
          /\ issued[act[y].a] <= issued'[act[y].a]
          /\ act[y].tok \in Nat /\ act[y].ref \in Nat
      BY <1>5 DEF TypeOK
    <3> QED
      BY <3>1, <3>2
  <2>3. act'[x].pc # "refresh" /\ act'[x].ref <= issued'[act'[x].a]
    BY <1>2, <1>3
  <2> QED
    BY <2>1, <2>2, <2>3 DEF Numbered
<1>7. ASSUME NEW b \in Accounts \ lost, b # a
      PROVE  /\ accepted'[b] = accepted[b] /\ cred'[b] = cred[b]
             /\ \A y \in Actors : Holds(y, b)' <=> Holds(y, b)
             /\ \A y \in Actors : act'[y].a = b => act'[y] = act[y]
  BY <1>2, <1>3, <1>7 DEF Holds
<1>8. SoleHolder'
  <2>1. ASSUME NEW b \in Accounts \ lost, b # a
        PROVE  /\ accepted'[b] # 0
               /\ \A z \in Actors : Holds(z, b)' =>
                    /\ act'[z].ref = accepted'[b] /\ cred'[b].refresh # accepted'[b]
                    /\ \A y \in Actors : act'[y].pc = "refresh" /\ act'[y].a = b => act'[y].tok # accepted'[b]
                    /\ \A y \in Actors : Holds(y, b)' => y = z
    BY <1>7, <2>1 DEF TInv, SoleHolder, Holds
  <2>2. ASSUME a \notin lost
        PROVE  /\ accepted'[a] # 0
               /\ \A z \in Actors : Holds(z, a)' =>
                    /\ act'[z].ref = accepted'[a] /\ cred'[a].refresh # accepted'[a]
                    /\ \A y \in Actors : act'[y].pc = "refresh" /\ act'[y].a = a => act'[y].tok # accepted'[a]
                    /\ \A y \in Actors : Holds(y, a)' => y = z
    <3>1. \A y \in Actors \ {x} : ~Holds(y, a)'
      BY <1>2, <1>4, <2>2 DEF Holds
    <3>2. CASE rotates
      <4>1. cred'[a].refresh # accepted'[a]
        BY <1>2, <1>3, <1>5, <3>2 DEF TInv, Numbered
      <4>2. \A y \in Actors : act'[y].pc = "refresh" /\ act'[y].a = a => act'[y].tok # accepted'[a]
        <5> SUFFICES ASSUME NEW y \in Actors, act'[y].pc = "refresh", act'[y].a = a
                     PROVE  act'[y].tok # n
          BY <1>3, <3>2
        <5>1. y # x /\ act'[y] = act[y] /\ act[y].tok <= issued[a] /\ act[y].tok \in Nat
          BY <1>2, <1>5 DEF TInv, Numbered
        <5> QED
          BY <1>2, <5>1
      <4>3. accepted'[a] # 0 /\ act'[x].ref = accepted'[a]
        BY <1>2, <1>3, <3>2
      <4> QED
        BY <3>1, <4>1, <4>2, <4>3
    <3>3. CASE ~rotates
      <4>1. ~Holds(x, a)' /\ accepted'[a] # 0
        BY <1>2, <1>3, <2>2, <3>3 DEF Holds, TInv, SoleHolder
      <4> QED
        BY <3>1, <4>1
    <3> QED
      BY <3>2, <3>3
  <2> QED
    BY <1>2, <2>1, <2>2 DEF SoleHolder
<1>9. RefreshTokenKept'
  <2> SUFFICES ASSUME NEW b \in Accounts \ lost
               PROVE  (TokenSafe(b) /\ (b \in unsaved \/ TokenSaved(b)))'
    BY <1>2 DEF RefreshTokenKept
  <2>0. TokenSafe(b) /\ (b \in unsaved \/ TokenSaved(b))
    BY DEF TInv, RefreshTokenKept
  <2>1. CASE b # a
    <3>1. \A y \in Actors : act[y].pc \in {"store", "save"} => act'[y] = act[y]
      BY <1>2
    <3> QED
      BY <1>2, <1>3, <2>0, <2>1, <3>1 DEF TokenSafe, TokenSaved
  <2>2. CASE b = a /\ rotates
    BY <1>2, <1>3, <2>2 DEF TokenSafe, TokenSaved
  <2>3. CASE b = a /\ ~rotates
    <3>1. accepted[a] # 0 /\ accepted'[a] = accepted[a]
      BY <1>3, <2>3 DEF TInv, SoleHolder
    <3>2. \A y \in Actors : ~(act[y].pc = "store" /\ act[y].a = a /\ act[y].ref = accepted[a])
      BY <1>4, <2>3, <3>1 DEF Holds
    <3>3. \A y \in Actors : act[y].pc = "save" => act'[y] = act[y]
      BY <1>2
    <3> QED
      BY <1>2, <2>0, <2>3, <3>1, <3>2, <3>3 DEF TokenSafe, TokenSaved
  <2> QED
    BY <2>1, <2>2, <2>3
<1> QED
  BY <1>6, <1>8, <1>9 DEF TInv

\* A login that ends, and an answer that is lost, is excused for its account and
\* changes nothing for the others.
LEMMA LosingKeeps ==
  ASSUME TInv, TypeOK', NEW a \in Accounts,
         UNCHANGED <<cred, file, unsaved>>, lost' = lost \cup {a},
         \A b \in Accounts \ {a} : issued'[b] = issued[b] /\ accepted'[b] = accepted[b],
         issued'[a] >= issued[a],
         \A x \in Actors : \/ act'[x] = act[x]
                           \/ /\ act[x].pc \notin {"store", "save"}
                              /\ act'[x].pc \notin {"refresh", "store", "save"}
  PROVE  TInv'
<1>1. \A b \in Accounts : issued[b] \in Nat /\ issued'[b] \in Nat /\ issued[b] <= issued'[b]
  BY DEF TInv, TypeOK
<1>2. Numbered'
  <2>1. \A b \in Accounts : (cred[b].refresh <= issued[b] /\ file[b].refresh <= issued[b])'
    <3>1. \A b \in Accounts : cred[b].refresh \in Nat /\ file[b].refresh \in Nat
      BY DEF TInv, TypeOK, Credentials
    <3> QED
      BY <1>1, <3>1 DEF TInv, Numbered
  <2>2. ASSUME NEW x \in Actors, act'[x].pc \in {"refresh", "store"}
        PROVE  /\ act'[x].pc = "refresh" => act'[x].tok <= issued'[act'[x].a]
               /\ act'[x].pc = "store" => act'[x].ref <= issued'[act'[x].a]
    <3>1. act'[x] = act[x]
      BY <2>2
    <3>2. /\ act[x].a \in Accounts /\ act[x].tok \in Nat /\ act[x].ref \in Nat
          /\ act[x].pc = "refresh" => act[x].tok <= issued[act[x].a]
          /\ act[x].pc = "store" => act[x].ref <= issued[act[x].a]
      BY DEF TInv, TypeOK, Actor, Numbered
    <3> QED
      BY <1>1, <3>1, <3>2
  <2> QED
    BY <2>1, <2>2 DEF Numbered
<1>3. SoleHolder'
  BY DEF TInv, SoleHolder, Holds
<1>4. RefreshTokenKept'
  <2> SUFFICES ASSUME NEW b \in Accounts \ lost, b # a
               PROVE  (TokenSafe(b) /\ (b \in unsaved \/ TokenSaved(b)))'
    BY DEF RefreshTokenKept
  <2>1. \A x \in Actors : act[x].pc \in {"store", "save"} => act'[x] = act[x]
    OBVIOUS
  <2> QED
    BY <2>1 DEF TInv, RefreshTokenKept, TokenSafe, TokenSaved
<1> QED
  BY <1>2, <1>3, <1>4 DEF TInv

LEMMA StoreKeeps ==
  ASSUME TInv, TypeOK', NEW x \in Actors, Store(x)
  PROVE  TInv'
<1> DEFINE a == act[x].a
<1>1. /\ act[x].pc = "store" /\ act'[x].pc = "save" /\ act'[x].a = a
      /\ \A y \in Actors \ {x} : act'[y] = act[y]
      /\ UNCHANGED <<file, accepted, issued, lost, unsaved>>
      /\ a \in Accounts /\ act[x].ref \in Nat
  BY DEF Store, TInv, TypeOK, disk, Actor
<1>2. /\ cred'[a].refresh = IF act[x].ref # 0 THEN act[x].ref ELSE cred[a].refresh
      /\ \A b \in Accounts \ {a} : cred'[b] = cred[b]
  BY <1>1 DEF Store, TInv, TypeOK
<1>3. Numbered'
  BY <1>1, <1>2 DEF TInv, Numbered
<1>4. \A y \in Actors, b \in Accounts : Holds(y, b)' <=> Holds(y, b) /\ y # x
  BY <1>1 DEF Holds
<1>5. ASSUME NEW b \in Accounts \ lost, NEW y \in Actors, Holds(y, b)'
      PROVE  /\ Holds(y, b) /\ y # x /\ act'[y] = act[y]
             /\ cred'[b].refresh = cred[b].refresh
  <2>1. Holds(y, b) /\ y # x
    BY <1>4, <1>5
  <2>2. ~Holds(x, b)
    BY <2>1 DEF TInv, SoleHolder
  <2>3. CASE b = a
    <3>1. act[x].ref = 0
      BY <1>1, <2>2, <2>3 DEF Holds
    <3> QED
      BY <1>1, <1>2, <2>1, <2>3, <3>1
  <2> QED
    BY <1>1, <1>2, <2>1, <2>3
<1>6. SoleHolder'
  <2>1. \A y \in Actors : act'[y].pc = "refresh" => act'[y] = act[y]
    BY <1>1
  <2> QED
    BY <1>1, <1>4, <1>5, <2>1 DEF TInv, SoleHolder
<1>7. RefreshTokenKept'
  <2> SUFFICES ASSUME NEW b \in Accounts \ lost
               PROVE  (TokenSafe(b) /\ (b \in unsaved \/ TokenSaved(b)))'
    BY <1>1 DEF RefreshTokenKept
  <2>0. TokenSafe(b) /\ (b \in unsaved \/ TokenSaved(b)) /\ accepted[b] # 0
    BY DEF TInv, RefreshTokenKept, SoleHolder
  <2>1. CASE b # a
    <3>1. \A y \in Actors : act[y].pc \in {"store", "save"} /\ act[y].a = b => act'[y] = act[y]
      BY <1>1, <2>1
    <3> QED
      BY <1>1, <1>2, <2>0, <2>1, <3>1 DEF TokenSafe, TokenSaved
  <2>2. CASE b = a /\ act[x].ref # 0
    <3>1. cred'[a].refresh = accepted'[a]
      BY <1>1, <1>2, <2>2 DEF TInv, SoleHolder, Holds
    <3> QED
      BY <1>1, <2>2, <3>1 DEF TokenSafe, TokenSaved
  <2>3. CASE b = a /\ act[x].ref = 0
    <3>1. TokenSaved(b)'
      BY <1>1, <2>3 DEF TokenSaved
    <3>2. TokenSafe(b)'
      BY <1>1, <1>2, <2>0, <2>3 DEF TokenSafe
    <3> QED
      BY <3>1, <3>2
  <2> QED
    BY <2>1, <2>2, <2>3
<1> QED
  BY <1>3, <1>6, <1>7 DEF TInv

LEMMA SaveKeeps ==
  ASSUME TInv, TypeOK', NEW x \in Actors, SaveAtomic(x)
  PROVE  TInv'
<1> DEFINE a == act[x].a
<1>1. /\ act[x].pc = "save" /\ act'[x].pc = "read"
      /\ \A y \in Actors \ {x} : act'[y] = act[y]
      /\ UNCHANGED <<cred, accepted, issued, lost>>
      /\ a \in Accounts
      /\ \A b \in Accounts \ {a} : file'[b] = file[b]
      /\ file'[a] = cred[a] \/ (file' = file /\ a \in unsaved')
      /\ unsaved \subseteq unsaved'
  BY DEF SaveAtomic, Goto, TInv, TypeOK, tokens, Actor
<1>2. Numbered'
  BY <1>1 DEF TInv, Numbered
<1>3. SoleHolder'
  BY <1>1 DEF TInv, SoleHolder, Holds
<1>4. RefreshTokenKept'
  <2> SUFFICES ASSUME NEW b \in Accounts \ lost
               PROVE  (TokenSafe(b) /\ (b \in unsaved \/ TokenSaved(b)))'
    BY <1>1 DEF RefreshTokenKept
  <2>0. TokenSafe(b) /\ (b \in unsaved \/ TokenSaved(b))
    BY DEF TInv, RefreshTokenKept
  <2>1. TokenSafe(b)'
    BY <1>1, <2>0 DEF TokenSafe
  <2>2. CASE b # a
    BY <1>1, <2>0, <2>1, <2>2 DEF TokenSaved
  <2>3. CASE b = a
    BY <1>1, <2>0, <2>1, <2>3 DEF TokenSafe, TokenSaved
  <2> QED
    BY <2>2, <2>3
<1> QED
  BY <1>2, <1>3, <1>4 DEF TInv

LEMMA RestartKeeps ==
  ASSUME TInv, TypeOK', Restart
  PROVE  TInv'
<1>1. /\ cred' = file /\ UNCHANGED <<accepted, issued, file, unsaved>>
      /\ lost' = lost \cup {a \in Accounts : file[a].refresh # accepted[a]}
      /\ \A x \in Actors : act'[x].pc = "idle"
  BY DEF Restart, disk, Idle
<1>2. Numbered'
  BY <1>1 DEF TInv, Numbered
<1>3. SoleHolder'
  BY <1>1 DEF TInv, SoleHolder, Holds
<1>4. RefreshTokenKept'
  BY <1>1 DEF RefreshTokenKept, TokenSafe, TokenSaved
<1> QED
  BY <1>2, <1>3, <1>4 DEF TInv

\* The refresh token upstream takes is held in memory or by whoever is about to
\* store it, and is saved or about to be, unless it was lost outside.
THEOREM TokensKept == Spec => []RefreshTokenKept
<1>1. Init => TInv
  <2> SUFFICES ASSUME Init PROVE TInv
    OBVIOUS
  <2>1. TypeOK
    BY InitTypeOK
  <2>2. \A x \in Actors : act[x].pc = "idle"
    BY DEF Init, Idle
  <2>3. \A a \in Accounts : /\ cred[a].refresh = 1 /\ file[a].refresh = 1
                            /\ accepted[a] = 1 /\ issued[a] = 1
    BY DEF Init
  <2> QED
    BY <2>1, <2>2, <2>3 DEF TInv, Numbered, SoleHolder, Holds, RefreshTokenKept, TokenSafe, TokenSaved
<1>2. TInv /\ [Next]_vars => TInv'
  <2> SUFFICES ASSUME TInv, [Next]_vars PROVE TInv'
    OBVIOUS
  <2>1. TypeOK'
    BY StepTypeOK DEF TInv
  <2>2. \/ \E x \in Actors : \/ RefreshSnapshot(x) \/ RefreshAnswered(x)
                             \/ Store(x) \/ SaveAtomic(x)
        \/ \E x \in Actors : RefreshFails(x)
        \/ \E a \in Accounts : LoginEnds(a)
        \/ Restart
        \/ /\ \/ \E r \in Requests : \/ Start(r) \/ Pick(r) \/ GiveUp(r)
                                     \/ CallAnswered(r) \/ CallFails(r) \/ RetryCancelled(r) \/ Served(r)
              \/ SigninStart \/ SigninNext \/ SigninTask
              \/ \E x \in Actors : NeedsRefresh(x) \/ ReadToken(x)
              \/ \E a \in Accounts : CoolingEnds(a) \/ BreakerEnds(a) \/ TokenAges(a)
              \/ UNCHANGED vars
    BY DEF Next, Chat, Signin, EnsureToken, Actors
  <2>3. CASE \E x \in Actors : RefreshSnapshot(x) \/ RefreshAnswered(x) \/ Store(x) \/ SaveAtomic(x)
    BY <2>1, <2>3, SnapshotKeeps, AnswerKeeps, StoreKeeps, SaveKeeps
  <2>4. CASE \E x \in Actors : RefreshFails(x)
    <3>1. PICK x \in Actors : RefreshFails(x)
      BY <2>4
    <3>2. /\ act[x].pc = "refresh" /\ act'[x].pc \in {"pick", "next"}
          /\ \A y \in Actors \ {x} : act'[y] = act[y]
          /\ UNCHANGED <<file, unsaved>>
          /\ act[x].a \in Accounts
      BY <3>1 DEF RefreshFails, Resume, TInv, TypeOK, disk, Actor
    <3>3. \A y \in Actors : \/ act'[y] = act[y]
                            \/ /\ act[y].pc \notin {"store", "save"}
                               /\ act'[y].pc \notin {"refresh", "store", "save"}
      BY <3>2
    <3>4. CASE UNCHANGED tokens
      BY <2>1, <3>2, <3>3, <3>4, QuietStep DEF tokens
    <3>5. CASE Issue(act[x].a, TRUE) /\ lost' = lost \cup {act[x].a} /\ UNCHANGED cred
      <4>1. /\ \A b \in Accounts \ {act[x].a} : issued'[b] = issued[b] /\ accepted'[b] = accepted[b]
            /\ issued'[act[x].a] >= issued[act[x].a]
        BY <3>2, <3>5 DEF Issue, TInv, TypeOK
      <4> QED
        BY <2>1, <3>2, <3>3, <3>5, <4>1, LosingKeeps
    <3> QED
      BY <3>1, <3>4, <3>5 DEF RefreshFails
  <2>5. CASE \E a \in Accounts : LoginEnds(a)
    <3>1. PICK a \in Accounts : LoginEnds(a)
      BY <2>5
    <3>2. /\ UNCHANGED <<cred, file, unsaved, issued, act>> /\ lost' = lost \cup {a}
          /\ \A b \in Accounts \ {a} : accepted'[b] = accepted[b]
          /\ issued'[a] >= issued[a]
      BY <3>1 DEF LoginEnds, TInv, TypeOK, disk
    <3> QED
      BY <2>1, <3>2, LosingKeeps
  <2>6. CASE Restart
    BY <2>1, <2>6, RestartKeeps
  <2>7. ASSUME \E r \in Requests : \/ Start(r) \/ Pick(r) \/ GiveUp(r) \/ CallAnswered(r)
                                   \/ CallFails(r) \/ RetryCancelled(r) \/ Served(r)
        PROVE  TInv'
    <3>1. PICK r \in Requests : \/ Start(r) \/ Pick(r) \/ GiveUp(r) \/ CallAnswered(r)
                                \/ CallFails(r) \/ RetryCancelled(r) \/ Served(r)
      BY <2>7
    <3>2. r \in Actors /\ act \in [Actors -> Actor] /\ act[r] \in Actor
      BY DEF Actors, TInv, TypeOK
    <3>3. /\ act[r].pc \notin {"store", "save"} /\ act'[r].pc \notin {"refresh", "store", "save"}
          /\ \A y \in Actors \ {r} : act'[y] = act[y]
          /\ UNCHANGED <<cred, file, accepted, issued, lost, unsaved>>
      <4>1. CASE Start(r) \/ GiveUp(r)
        <5> DEFINE n == Cardinality(Eligible({}))
                   m == IF n > 3 THEN 3 ELSE n
        <5>1. /\ act[r].pc \in {"idle", "pick"}
              /\ \/ act' = [act EXCEPT ![r] = Idle]
                 \/ act' = [act EXCEPT ![r] = [Idle EXCEPT !.pc = "pick", !.tries = m]]
              /\ UNCHANGED <<cred, file, accepted, issued, lost, unsaved>>
          <6>1. CASE Start(r)
            BY <6>1, Zenon DEF Start, tokens, disk
          <6>2. CASE GiveUp(r)
            BY <6>2 DEF GiveUp, Leave, tokens, disk
          <6> QED
            BY <4>1, <6>1, <6>2
        <5> HIDE DEF n, m
        <5>2. act'[r].pc \in {"idle", "pick"} /\ \A y \in Actors \ {r} : act'[y] = act[y]
          <6>1. [Idle EXCEPT !.pc = "pick", !.tries = m].pc = "pick" /\ Idle.pc = "idle"
            BY DEF Idle
          <6> QED
            BY <3>2, <5>1, <6>1
        <5> QED
          BY <5>1, <5>2
      <4>2. CASE Pick(r)
        <5>1. PICK a \in First(act[r].tried) :
                act' = [act EXCEPT ![r] = [Idle EXCEPT !.pc = "check", !.a = a,
                          !.tries = act[r].tries - 1, !.tried = act[r].tried \cup {a}]]
          BY <4>2 DEF Pick
        <5>2. act[r].pc = "pick" /\ act'[r].pc = "check"
          BY <3>2, <4>2, <5>1 DEF Pick, Idle
        <5> QED
          BY <3>2, <4>2, <5>1, <5>2 DEF Pick, tokens, disk
      <4>3. CASE CallAnswered(r) \/ RetryCancelled(r) \/ Served(r)
        BY <3>2, <4>3 DEF CallAnswered, RetryCancelled, Served, Leave, Idle, Actor, pool, tokens, disk
      <4>4. CASE CallFails(r)
        <5>1. PICK kind \in Failures(act[r].a, act[r].tok) :
                CASE kind = "client" -> Leave(r)
                  [] kind = "auth" -> act' = [act EXCEPT ![r].pc = "check", ![r].again = TRUE, ![r].tok = 0]
                  [] OTHER -> act' = [act EXCEPT ![r].pc = "pick", ![r].tok = 0]
          BY <4>4 DEF CallFails
        <5> QED
          BY <3>2, <4>4, <5>1 DEF CallFails, Leave, Idle, Actor, pool, tokens, disk
      <4> QED
        BY <3>1, <4>1, <4>2, <4>3, <4>4
    <3> QED
      BY <2>1, <3>3, QuietStep
  <2>8. ASSUME SigninStart \/ SigninNext \/ SigninTask PROVE TInv'
    <3>1. Job \in Actors /\ act \in [Actors -> Actor] /\ act[Job] \in Actor
      BY DEF Actors, TInv, TypeOK
    <3>2. /\ act[Job].pc \notin {"store", "save"} /\ act'[Job].pc \notin {"refresh", "store", "save"}
          /\ \A y \in Actors \ {Job} : act'[y] = act[y]
          /\ UNCHANGED <<cred, file, accepted, issued, lost, unsaved>>
      <4>1. CASE SigninStart \/ SigninTask
        BY <3>1, <4>1 DEF SigninStart, SigninTask, Goto, Actor, tokens, disk
      <4>2. CASE SigninNext
        <5>1. act[Job].pc = "next"
          BY <4>2 DEF SigninNext
        <5>2. \E q : act' = [act EXCEPT ![Job] = q] /\ q.pc \in {"idle", "next", "check"}
          BY <4>2, ZenonT(40) DEF SigninNext, Leave, Idle
        <5> QED
          BY <3>1, <4>2, <5>1, <5>2 DEF SigninNext, tokens, disk
      <4> QED
        BY <2>8, <4>1, <4>2
    <3> QED
      BY <2>1, <3>2, QuietStep
  <2>9. ASSUME \E x \in Actors : NeedsRefresh(x) \/ ReadToken(x) PROVE TInv'
    <3>1. PICK x \in Actors : NeedsRefresh(x) \/ ReadToken(x)
      BY <2>9
    <3>2. /\ act[x].pc \notin {"store", "save"} /\ act'[x].pc \notin {"refresh", "store", "save"}
          /\ \A y \in Actors \ {x} : act'[y] = act[y]
          /\ UNCHANGED <<cred, file, accepted, issued, lost, unsaved>>
      BY <3>1 DEF NeedsRefresh, ReadToken, Goto, TInv, TypeOK, Actor, pool, tokens, disk
    <3> QED
      BY <2>1, <3>2, QuietStep
  <2>10. ASSUME \/ \E a \in Accounts : CoolingEnds(a) \/ BreakerEnds(a) \/ TokenAges(a)
                \/ UNCHANGED vars
         PROVE  TInv'
    <3>1. UNCHANGED <<cred, file, accepted, issued, lost, unsaved, act>>
      BY <2>10 DEF CoolingEnds, BreakerEnds, TokenAges, vars, tokens, disk
    <3> QED
      BY <2>1, <3>1, QuietStep
  <2> QED
    BY <2>2, <2>3, <2>4, <2>5, <2>6, <2>7, <2>8, <2>9, <2>10
<1>3. TInv => RefreshTokenKept
  BY DEF TInv
<1> QED
  BY <1>1, <1>2, <1>3, PTL DEF Spec

-----------------------------------------------------------------------------
(* Streams *)

\* The types of the stream's state; a table of calls has any indexes.
Finishes == {Missing, "stop", "length"}
TableTyped(t) == DOMAIN t \subseteq Int /\ t \in [DOMAIN t -> ToolCalls]
AggregateTyped(a) ==
  /\ a \in [id : {Missing, "a"}, text : Texts, calls : {a.calls}, order : Seq(Int), seq : Int,
            ids : [Calls -> Int], finish : Finishes, valid : Nat]
  /\ TableTyped(a.calls)
RelayTyped(r) == r \in [seen : SUBSET Int, firstID : {Missing, "a"}, valid : Nat, dones : Nat]
ClientTyped(c) ==
  /\ c \in [text : Texts, calls : {c.calls}, names : [Calls -> Nat], finish : Finishes, errors : Nat]
  /\ TableTyped(c.calls)
WireTyped(w) ==
  w \in [frames : Nat, text : Nat, got : [Calls -> 0..(Parts + 1)], end : {"open", "done", "eof", "broken"}]
ResponseTyped(r) ==
  r \in [status : {"none", "ok", "empty", "error"}, text : Texts, calls : Seq(ToolCalls), finish : Finishes]
StreamTypeOK ==
  /\ style \in Styles /\ quiet \in 0..MaxQuiet
  /\ WireTyped(wire) /\ AggregateTyped(agg) /\ RelayTyped(relay) /\ ClientTyped(client)
  /\ ResponseTyped(response)

Count(n) == [k \in 1..n |-> k]

\* The calls that have begun are the first ones, and Aggregate has them in that order,
\* each of its own parts.
Gathered ==
  LET m == Len(agg.order) IN
  /\ \A c \in Calls : Begun(c) <=> c <= m
  /\ \A k \in 1..m : k \in Calls /\ agg.order[k] = k - 1
  /\ DOMAIN agg.calls = 0..(m - 1)
  /\ \A c \in 1..m : agg.calls[c - 1] = Call(c)
  /\ agg.text = Count(wire.text)

\* Without indexes the calls are numbered as they begin, and found by their ids; of calls that
\* come one after another all but the last are complete.
NumberedCalls ==
  LET m == Len(agg.order) IN
  /\ style \in {"id", "first"} =>
       agg.seq = m /\ \A c \in Calls : agg.ids[c] = IF c <= m THEN c - 1 ELSE -1
  /\ style = "first" => \A c \in Calls : c < m => Complete(c)

\* The client of a stream with indexes has what Aggregate has, and each name once.
Mirrored ==
  style = "index" =>
    /\ relay.seen = DOMAIN agg.calls
    /\ client.text = agg.text /\ client.finish = agg.finish
    /\ DOMAIN client.calls = DOMAIN agg.calls
    /\ \A i \in DOMAIN agg.calls : client.calls[i] = agg.calls[i]
    /\ \A c \in Calls : client.names[c] = IF Begun(c) THEN 1 ELSE 0

\* An answer is given at the end.
Concluded ==
  /\ wire.end = "open" => response.status = "none" /\ relay.dones = 0
  /\ response.status = "ok" =>
       response.text = agg.text /\ response.finish = agg.finish /\ relay.dones = 1

StreamInv == StreamTypeOK /\ Gathered /\ NumberedCalls /\ Mirrored /\ Concluded /\ NoHalfCalls
-----------------------------------------------------------------------------
\* A frame has one piece at most

LEMMA CallFacts ==
  /\ Cardinality(Calls) \in Nat /\ Calls = 1..Cardinality(Calls) /\ Parts \in Nat /\ Parts > 0
  /\ \A c \in Calls : c \in Nat /\ c > 0 /\ c # None /\ c - 1 \in Nat /\ (c - 1) + 1 = c /\ \A d \in 1..c : d \in Calls
  <1>1. Cardinality(Calls) \in Nat /\ Calls = 1..Cardinality(Calls)
    BY FramesAssumption, FS_CardinalityType
  <1>2. QED
    BY <1>1, FramesAssumption DEF None

\* A function that is given for 0 and 1.
Two(first, last, n) == [k \in 0..n |-> IF k = 0 THEN first ELSE last]

LEMMA TwoFacts ==
  ASSUME NEW first, NEW last
  PROVE  /\ Two(first, last, 0)[0] = first
         /\ Two(first, last, 1)[0] = first /\ Two(first, last, 1)[1] = last
         /\ 1 - 1 = 0 /\ 0..1 = {0, 1} /\ 0..0 = {0} /\ 1 # 0
  BY DEF Two

LEMMA MergeUnfold ==
  ASSUME NEW a, NEW ps, NEW f,
         f = [n \in 0..Len(ps) |-> IF n = 0 THEN a ELSE MergePiece(f[n - 1], ps[n])]
  PROVE  \E g : /\ g = [n \in 0..Len(ps) |-> IF n = 0 THEN a ELSE MergePiece(g[n - 1], ps[n])]
                /\ MergePieces(a, ps) = g[Len(ps)]
  BY Zenon DEF MergePieces

LEMMA MergeNone ==
  ASSUME NEW a
  PROVE  MergePieces(a, <<>>) = a
  <1> DEFINE ps == <<>>
             f == Two(a, a, 0)
  <1>1. Len(ps) = 0
    OBVIOUS
  <1>2. f = [n \in 0..Len(ps) |-> IF n = 0 THEN a ELSE MergePiece(f[n - 1], ps[n])]
    BY <1>1, TwoFacts DEF Two
  <1> HIDE DEF ps, f
  <1>3. PICK g : /\ g = [n \in 0..Len(ps) |-> IF n = 0 THEN a ELSE MergePiece(g[n - 1], ps[n])]
                 /\ MergePieces(a, ps) = g[Len(ps)]
    BY <1>2, MergeUnfold
  <1>4. g[0] = a
    BY <1>1, <1>3
  <1>5. QED
    BY <1>1, <1>3, <1>4 DEF ps

LEMMA MergeOne ==
  ASSUME NEW a, NEW p
  PROVE  MergePieces(a, <<p>>) = MergePiece(a, p)
  <1> DEFINE ps == <<p>>
             f == Two(a, MergePiece(a, p), 1)
  <1>1. Len(ps) = 1 /\ ps[1] = p
    OBVIOUS
  <1>2. f = [n \in 0..Len(ps) |-> IF n = 0 THEN a ELSE MergePiece(f[n - 1], ps[n])]
    BY <1>1, TwoFacts DEF Two
  <1> HIDE DEF ps, f
  <1>3. PICK g : /\ g = [n \in 0..Len(ps) |-> IF n = 0 THEN a ELSE MergePiece(g[n - 1], ps[n])]
                 /\ MergePieces(a, ps) = g[Len(ps)]
    BY <1>2, MergeUnfold
  <1>4. g[0] = a /\ g[1] = MergePiece(g[1 - 1], ps[1])
    BY <1>1, <1>3
  <1>5. QED
    BY <1>1, <1>3, <1>4, TwoFacts DEF ps

LEMMA TookUnfold ==
  ASSUME NEW t, NEW ps, NEW f,
         f = [n \in 0..Len(ps) |->
               IF n = 0 THEN t
               ELSE Put(f[n - 1], ps[n].index, Merged(At(f[n - 1], ps[n].index), ps[n]))]
  PROVE  \E g : /\ g = [n \in 0..Len(ps) |->
                         IF n = 0 THEN t
                         ELSE Put(g[n - 1], ps[n].index, Merged(At(g[n - 1], ps[n].index), ps[n]))]
                /\ TookPieces(t, ps) = g[Len(ps)]
  BY Zenon DEF TookPieces

LEMMA TookNone ==
  ASSUME NEW t
  PROVE  TookPieces(t, <<>>) = t
  <1> DEFINE ps == <<>>
             Step(s, p) == Put(s, p.index, Merged(At(s, p.index), p))
             f == Two(t, t, 0)
  <1>1. Len(ps) = 0
    OBVIOUS
  <1> HIDE DEF Step
  <1>2. f = [n \in 0..Len(ps) |-> IF n = 0 THEN t ELSE Step(f[n - 1], ps[n])]
    BY <1>1, TwoFacts DEF Two
  <1> HIDE DEF ps, f
  <1>3. PICK g : /\ g = [n \in 0..Len(ps) |-> IF n = 0 THEN t ELSE Step(g[n - 1], ps[n])]
                 /\ TookPieces(t, ps) = g[Len(ps)]
    BY <1>2, TookUnfold, Zenon DEF Step
  <1>4. g[0] = t
    BY <1>1, <1>3
  <1>5. QED
    BY <1>1, <1>3, <1>4 DEF ps

LEMMA TookOne ==
  ASSUME NEW t, NEW p
  PROVE  TookPieces(t, <<p>>) = Put(t, p.index, Merged(At(t, p.index), p))
  <1> DEFINE ps == <<p>>
             Step(s, q) == Put(s, q.index, Merged(At(s, q.index), q))
             f == Two(t, Step(t, p), 1)
  <1>1. Len(ps) = 1 /\ ps[1] = p
    OBVIOUS
  <1> HIDE DEF Step
  <1>2. f = [n \in 0..Len(ps) |-> IF n = 0 THEN t ELSE Step(f[n - 1], ps[n])]
    BY <1>1, TwoFacts DEF Two
  <1> HIDE DEF ps, f
  <1>3. PICK g : /\ g = [n \in 0..Len(ps) |-> IF n = 0 THEN t ELSE Step(g[n - 1], ps[n])]
                 /\ TookPieces(t, ps) = g[Len(ps)]
    BY <1>2, TookUnfold, Zenon DEF Step
  <1>4. g[0] = t /\ g[1] = Step(g[1 - 1], ps[1])
    BY <1>1, <1>3
  <1>5. QED
    BY <1>1, <1>3, <1>4, TwoFacts DEF ps, Step

LEMMA StripUnfold ==
  ASSUME NEW seen, NEW ps, NEW f,
         f = [n \in 0..Len(ps) |->
               IF n = 0 THEN [seen |-> seen, out |-> <<>>] ELSE Strip(f[n - 1], ps[n])]
  PROVE  \E g : /\ g = [n \in 0..Len(ps) |->
                         IF n = 0 THEN [seen |-> seen, out |-> <<>>] ELSE Strip(g[n - 1], ps[n])]
                /\ Stripped(seen, ps) = g[Len(ps)]
  BY Zenon DEF Stripped

LEMMA StripNone ==
  ASSUME NEW seen
  PROVE  Stripped(seen, <<>>).seen = seen /\ Stripped(seen, <<>>).out = <<>>
  <1> DEFINE ps == <<>>
             s == [seen |-> seen, out |-> <<>>]
             f == Two(s, s, 0)
  <1>1. Len(ps) = 0
    OBVIOUS
  <1>2. s.seen = seen /\ s.out = <<>>
    OBVIOUS
  <1> HIDE DEF s
  <1>3. f = [n \in 0..Len(ps) |-> IF n = 0 THEN s ELSE Strip(f[n - 1], ps[n])]
    BY <1>1, TwoFacts DEF Two
  <1> HIDE DEF ps, f
  <1>4. PICK g : /\ g = [n \in 0..Len(ps) |-> IF n = 0 THEN s ELSE Strip(g[n - 1], ps[n])]
                 /\ Stripped(seen, ps) = g[Len(ps)]
    BY <1>3, StripUnfold, Zenon DEF s
  <1>5. g[0] = s
    BY <1>1, <1>4
  <1>6. QED
    BY <1>1, <1>2, <1>4, <1>5 DEF ps

LEMMA StripOne ==
  ASSUME NEW seen, NEW p
  PROVE  /\ Stripped(seen, <<p>>).seen = SeenAfter(seen, p)
         /\ Stripped(seen, <<p>>).out = <<StripName(seen, p)>>
  <1> DEFINE ps == <<p>>
             s == [seen |-> seen, out |-> <<>>]
             f == Two(s, Strip(s, p), 1)
  <1>1. Len(ps) = 1 /\ ps[1] = p
    OBVIOUS
  <1>2. Strip(s, p).seen = SeenAfter(seen, p) /\ Strip(s, p).out = <<StripName(seen, p)>>
    BY DEF Strip
  <1> HIDE DEF s
  <1>3. f = [n \in 0..Len(ps) |-> IF n = 0 THEN s ELSE Strip(f[n - 1], ps[n])]
    BY <1>1, TwoFacts DEF Two
  <1> HIDE DEF ps, f
  <1>4. PICK g : /\ g = [n \in 0..Len(ps) |-> IF n = 0 THEN s ELSE Strip(g[n - 1], ps[n])]
                 /\ Stripped(seen, ps) = g[Len(ps)]
    BY <1>3, StripUnfold, Zenon DEF s
  <1>5. g[0] = s /\ g[1] = Strip(g[1 - 1], ps[1])
    BY <1>1, <1>4
  <1>6. QED
    BY <1>1, <1>2, <1>4, <1>5, TwoFacts DEF ps

-----------------------------------------------------------------------------
\* What a frame does to each of the three readers

\* What a frame without pieces leaves of Aggregate.
Same(a, b) ==
  /\ b.calls = a.calls /\ b.order = a.order /\ b.seq = a.seq /\ b.ids = a.ids /\ b.id \in {Missing, "a"}
  /\ b = [id |-> b.id, text |-> b.text, calls |-> b.calls, order |-> b.order, seq |-> b.seq,
          ids |-> b.ids, finish |-> b.finish, valid |-> b.valid]

\* A frame has these fields.
Shaped(f) ==
  /\ f.id \in {Missing, "a"} /\ f.whole \in BOOLEAN
  /\ f = [kind |-> f.kind, id |-> f.id, text |-> f.text, pieces |-> f.pieces, finish |-> f.finish,
          whole |-> f.whole]

Having(a, id, text, finish, valid) ==
  [[a EXCEPT !.valid = valid, !.id = id, !.finish = finish] EXCEPT !.text = text]

LEMMA AggregateWith ==
  ASSUME NEW a, NEW id, NEW text, NEW finish, NEW valid,
         a = [id |-> a.id, text |-> a.text, calls |-> a.calls, order |-> a.order, seq |-> a.seq,
              ids |-> a.ids, finish |-> a.finish, valid |-> a.valid]
  PROVE  Having(a, id, text, finish, valid) =
           [id |-> id, text |-> text, calls |-> a.calls, order |-> a.order, seq |-> a.seq,
            ids |-> a.ids, finish |-> finish, valid |-> valid]
  <1> DEFINE b == [a EXCEPT !.valid = valid]
             c == [b EXCEPT !.id = id]
             d == [c EXCEPT !.finish = finish]
             e == [d EXCEPT !.text = text]
  <1>1. b = [id |-> a.id, text |-> a.text, calls |-> a.calls, order |-> a.order, seq |-> a.seq,
             ids |-> a.ids, finish |-> a.finish, valid |-> valid]
    OBVIOUS
  <1>2. [a EXCEPT !.valid = valid, !.id = id, !.finish = finish] = d
    BY Zenon
  <1> HIDE DEF b
  <1>3. c = [id |-> id, text |-> a.text, calls |-> a.calls, order |-> a.order, seq |-> a.seq,
             ids |-> a.ids, finish |-> a.finish, valid |-> valid]
    BY <1>1
  <1> HIDE DEF c
  <1>4. d = [id |-> id, text |-> a.text, calls |-> a.calls, order |-> a.order, seq |-> a.seq,
             ids |-> a.ids, finish |-> finish, valid |-> valid]
    BY <1>3
  <1> HIDE DEF d
  <1>5. e = [id |-> id, text |-> text, calls |-> a.calls, order |-> a.order, seq |-> a.seq,
             ids |-> a.ids, finish |-> finish, valid |-> valid]
    BY <1>4
  <1>6. QED
    BY <1>2, <1>5, Zenon DEF Having

\* What Aggregate has of a frame before its pieces.
Extended(b, a, text, finish) ==
  /\ Same(a, b) /\ b.text = a.text \o text
  /\ b.finish = (IF finish # Missing THEN finish ELSE a.finish)
  /\ b.valid = a.valid + 1

LEMMA AggregatedData ==
  ASSUME StreamTypeOK, NEW f, Shaped(f), f.kind \in {"data", "error"}, f.whole => agg.text = <<>>
  PROVE  \E b : Aggregated(agg, f) = MergePieces(b, f.pieces) /\ Extended(b, agg, f.text, f.finish)
  <1> DEFINE newId == IF agg.id = Missing THEN f.id ELSE agg.id
             newText == agg.text \o f.text
             newFinish == IF f.finish # Missing THEN f.finish ELSE agg.finish
             newValid == agg.valid + 1
             b == Having(agg, newId, newText, newFinish, newValid)
  <1>1. agg = [id |-> agg.id, text |-> agg.text, calls |-> agg.calls, order |-> agg.order, seq |-> agg.seq,
               ids |-> agg.ids, finish |-> agg.finish, valid |-> agg.valid]
    BY DEF StreamTypeOK, AggregateTyped, RelayTyped, ClientTyped, WireTyped, TableTyped
  <1>2. agg.id \in {Missing, "a"}
    BY DEF StreamTypeOK, AggregateTyped, RelayTyped, ClientTyped, WireTyped, TableTyped
  <1>3. f.id \in {Missing, "a"}
    BY DEF Shaped
  <1>4. newId \in {Missing, "a"}
    BY <1>2, <1>3, Zenon
  <1>5. Aggregated(agg, f) = MergePieces(b, f.pieces)
    BY DEF Aggregated, Having
  <1>6. /\ newText = agg.text \o f.text /\ newValid = agg.valid + 1
        /\ newFinish = (IF f.finish # Missing THEN f.finish ELSE agg.finish)
    BY Zenon
  <1> HIDE DEF newId, newText, newFinish, newValid
  <1>7. b = [id |-> newId, text |-> newText, calls |-> agg.calls, order |-> agg.order, seq |-> agg.seq,
             ids |-> agg.ids, finish |-> newFinish, valid |-> newValid]
    BY <1>1, AggregateWith
  <1> HIDE DEF b
  <1>8. Same(agg, b) /\ b.text = newText /\ b.valid = newValid /\ b.finish = newFinish
    BY <1>4, <1>7 DEF Same
  <1>9. QED
    <2>1. Extended(b, agg, f.text, f.finish)
      BY <1>6, <1>8 DEF Extended
    <2>2. QED
      BY <1>5, <2>1

LEMMA AggregatedOther ==
  ASSUME NEW f, f.kind \notin {"data", "error"}
  PROVE  Aggregated(agg, f) = agg
  BY DEF Aggregated

\* What Aggregate has after a piece of the call at index i.
Laid(r, a, b, p, i) ==
  /\ r.calls = Put(a.calls, i, Merged(At(a.calls, i), p))
  /\ r.order = (IF i \in DOMAIN a.calls THEN a.order ELSE Append(a.order, i))
  /\ r.text = b.text /\ r.finish = b.finish /\ r.valid = b.valid
  /\ r.seq = (IF p.index < 0 /\ i = NextToolIndex(b) /\ i \notin DOMAIN a.calls THEN i + 1 ELSE a.seq)
  /\ r.ids = [x \in Calls |-> IF x \in {p.id, At(a.calls, i).id} \ {None} THEN i ELSE a.ids[x]]
  /\ r.id = b.id
  /\ r = [id |-> r.id, text |-> r.text, calls |-> r.calls, order |-> r.order, seq |-> r.seq,
          ids |-> r.ids, finish |-> r.finish, valid |-> r.valid]
LEMMA MergedPiece ==
  ASSUME NEW b, NEW a, Same(a, b), NEW p, NEW i, Slot(b, p) = i
  PROVE  Laid(MergePiece(b, p), a, b, p, i)
  <1> DEFINE r == MergePiece(b, p)
  <1>1. /\ b.calls = a.calls /\ b.order = a.order /\ b.seq = a.seq /\ b.ids = a.ids
        /\ b = [id |-> b.id, text |-> b.text, calls |-> b.calls, order |-> b.order, seq |-> b.seq,
                ids |-> b.ids, finish |-> b.finish, valid |-> b.valid]
    BY DEF Same
  <1> DEFINE new == p.index < 0 /\ i = NextToolIndex(b) /\ i \notin DOMAIN b.calls
             known == {p.id, At(b.calls, i).id} \ {None}
             c == Merged(At(b.calls, i), p)
  <1>2. r = [b EXCEPT !.calls = Put(@, i, c),
                      !.order = IF i \in DOMAIN b.calls THEN @ ELSE Append(@, i),
                      !.seq = IF new THEN i + 1 ELSE @,
                      !.ids = [x \in Calls |-> IF x \in known THEN i ELSE @[x]]]
    BY Zenon DEF MergePiece
  <1> HIDE DEF new, known, c, r
  <1>3. r = [id |-> b.id, text |-> b.text, calls |-> Put(b.calls, i, c),
             order |-> IF i \in DOMAIN b.calls THEN b.order ELSE Append(b.order, i),
             seq |-> IF new THEN i + 1 ELSE b.seq,
             ids |-> [x \in Calls |-> IF x \in known THEN i ELSE b.ids[x]],
             finish |-> b.finish, valid |-> b.valid]
    BY <1>1, <1>2
  <1>4. /\ r.calls = Put(b.calls, i, c) /\ r.order = IF i \in DOMAIN b.calls THEN b.order ELSE Append(b.order, i)
        /\ r.text = b.text /\ r.finish = b.finish /\ r.valid = b.valid
        /\ r.seq = (IF new THEN i + 1 ELSE b.seq) /\ r.id = b.id
        /\ r.ids = [x \in Calls |-> IF x \in known THEN i ELSE b.ids[x]]
    BY <1>3
  <1>5. r = [id |-> r.id, text |-> r.text, calls |-> r.calls, order |-> r.order, seq |-> r.seq,
             ids |-> r.ids, finish |-> r.finish, valid |-> r.valid]
    BY <1>3, <1>4
  <1>6. QED
    BY <1>1, <1>4, <1>5, Zenon DEF r, new, known, c, Laid

\* What StreamHint passes on.
RelayOf(g, r, f) ==
  /\ g.kind = f.kind /\ g.finish = f.finish
  /\ g.text = (IF f.whole THEN <<>> ELSE f.text)
  /\ g.pieces = (IF f.whole THEN <<>> ELSE Stripped(r.seen, f.pieces).out)

LEMMA RelayedData ==
  ASSUME NEW r, NEW f, Shaped(f)
  PROVE  RelayOf(Relayed(r, f), r, f)
  <1> DEFINE newText == IF f.whole THEN <<>> ELSE f.text
             newPieces == IF f.whole THEN <<>> ELSE Stripped(r.seen, f.pieces).out
             newId == IF f.id # Missing THEN f.id ELSE IF r.firstID # Missing THEN r.firstID ELSE "sentinel"
             a == [f EXCEPT !.text = newText]
             b == [a EXCEPT !.pieces = newPieces]
             g == [b EXCEPT !.id = newId]
  <1>1. f = [kind |-> f.kind, id |-> f.id, text |-> f.text, pieces |-> f.pieces, finish |-> f.finish,
             whole |-> f.whole]
    BY DEF Shaped
  <1>2. Relayed(r, f) = g
    BY Zenon DEF Relayed
  <1>3. /\ newText = (IF f.whole THEN <<>> ELSE f.text)
        /\ newPieces = (IF f.whole THEN <<>> ELSE Stripped(r.seen, f.pieces).out)
    BY Zenon
  <1> HIDE DEF newText, newPieces, newId
  <1>4. a = [kind |-> f.kind, id |-> f.id, text |-> newText, pieces |-> f.pieces, finish |-> f.finish,
             whole |-> f.whole]
    BY <1>1
  <1> HIDE DEF a
  <1>5. b = [kind |-> f.kind, id |-> f.id, text |-> newText, pieces |-> newPieces, finish |-> f.finish,
             whole |-> f.whole]
    BY <1>4
  <1> HIDE DEF b
  <1>6. g.kind = f.kind /\ g.finish = f.finish /\ g.text = newText /\ g.pieces = newPieces
    BY <1>5
  <1> HIDE DEF g
  <1>7. QED
    BY <1>2, <1>3, <1>6, Zenon DEF RelayOf

\* What StreamHint remembers.
Remembers(s, r, f) ==
  /\ s.seen = (IF f.whole THEN r.seen ELSE Stripped(r.seen, f.pieces).seen)
  /\ s.firstID \in {Missing, "a"} /\ s.valid = r.valid + 1 /\ s.dones = r.dones
  /\ s = [seen |-> s.seen, firstID |-> s.firstID, valid |-> s.valid, dones |-> s.dones]

LEMMA RelaysData ==
  ASSUME StreamTypeOK, NEW f, Shaped(f), f.kind = "data"
  PROVE  Remembers(Relays(relay, f), relay, f)
  <1> DEFINE newSeen == IF f.whole THEN relay.seen ELSE Stripped(relay.seen, f.pieces).seen
             newId == IF relay.firstID = Missing THEN f.id ELSE relay.firstID
             a == [relay EXCEPT !.valid = relay.valid + 1]
             b == [a EXCEPT !.seen = newSeen]
             s == [b EXCEPT !.firstID = newId]
  <1>1. f.id \in {Missing, "a"}
    BY DEF Shaped
  <1>2. /\ relay = [seen |-> relay.seen, firstID |-> relay.firstID, valid |-> relay.valid, dones |-> relay.dones]
        /\ relay.firstID \in {Missing, "a"}
    BY DEF StreamTypeOK, AggregateTyped, RelayTyped, ClientTyped, WireTyped, TableTyped
  <1>3. newSeen = (IF f.whole THEN relay.seen ELSE Stripped(relay.seen, f.pieces).seen) /\ newId \in {Missing, "a"}
    BY <1>1, <1>2, Zenon
  <1>4. Relays(relay, f) = s
    <2>1. Relays(relay, f) = [relay EXCEPT !.valid = @ + 1,
                                           !.seen = IF f.whole THEN @ ELSE Stripped(@, f.pieces).seen,
                                           !.firstID = IF @ = Missing THEN f.id ELSE @]
      BY Zenon DEF Relays
    <2>2. QED
      BY <2>1, Zenon
  <1> HIDE DEF newSeen, newId
  <1>5. a = [seen |-> relay.seen, firstID |-> relay.firstID, valid |-> relay.valid + 1, dones |-> relay.dones]
    BY <1>2
  <1> HIDE DEF a
  <1>6. b = [seen |-> newSeen, firstID |-> relay.firstID, valid |-> relay.valid + 1, dones |-> relay.dones]
    BY <1>5
  <1> HIDE DEF b
  <1>7. s = [seen |-> newSeen, firstID |-> newId, valid |-> relay.valid + 1, dones |-> relay.dones]
    BY <1>6
  <1> HIDE DEF s
  <1>8. /\ s.seen = newSeen /\ s.firstID = newId /\ s.valid = relay.valid + 1 /\ s.dones = relay.dones
        /\ s = [seen |-> s.seen, firstID |-> s.firstID, valid |-> s.valid, dones |-> s.dones]
    BY <1>7
  <1>9. QED
    BY <1>3, <1>4, <1>8, Zenon DEF Remembers

LEMMA RelaysOther ==
  ASSUME StreamTypeOK, NEW f, f.kind # "data"
  PROVE  LET s == Relays(relay, f) IN
         /\ s.seen = relay.seen /\ s.firstID \in {Missing, "a"} /\ s.valid \in Nat /\ s.dones = relay.dones
         /\ s = [seen |-> s.seen, firstID |-> s.firstID, valid |-> s.valid, dones |-> s.dones]
  <1>1. /\ relay = [seen |-> relay.seen, firstID |-> relay.firstID, valid |-> relay.valid, dones |-> relay.dones]
        /\ relay.firstID \in {Missing, "a"} /\ relay.valid \in Nat /\ relay.valid + 1 \in Nat
    BY DEF StreamTypeOK, AggregateTyped, RelayTyped, ClientTyped, WireTyped, TableTyped
  <1>2. CASE f.kind = "error"
    <2> DEFINE s == [relay EXCEPT !.valid = relay.valid + 1]
    <2>1. Relays(relay, f) = s
      BY <1>2, Zenon DEF Relays
    <2>2. s = [seen |-> relay.seen, firstID |-> relay.firstID, valid |-> relay.valid + 1, dones |-> relay.dones]
      BY <1>1
    <2> HIDE DEF s
    <2>3. QED
      BY <1>1, <2>1, <2>2
  <1>3. CASE f.kind # "error"
    <2>1. Relays(relay, f) = relay
      BY <1>3 DEF Relays
    <2>2. QED
      BY <1>1, <2>1, Zenon
  <1>4. QED
    BY <1>2, <1>3

\* What the client of the stream makes of that.
Adds(d, c, g) ==
  /\ d.text = c.text \o g.text
  /\ d.calls = TookPieces(c.calls, g.pieces)
  /\ d.names = [x \in Calls |-> c.names[x] + Cardinality({k \in DOMAIN g.pieces : g.pieces[k].name = x})]
  /\ d.finish = (IF g.finish # Missing THEN g.finish ELSE c.finish)
  /\ d.errors = c.errors
  /\ d = [text |-> d.text, calls |-> d.calls, names |-> d.names, finish |-> d.finish, errors |-> d.errors]

LEMMA TookData ==
  ASSUME StreamTypeOK, NEW g, g.kind = "data"
  PROVE  Adds(Took(client, g), client, g)
  <1> DEFINE newText == client.text \o g.text
             newCalls == TookPieces(client.calls, g.pieces)
             newNames == [x \in Calls |-> client.names[x] + Cardinality({k \in DOMAIN g.pieces : g.pieces[k].name = x})]
             newFinish == IF g.finish # Missing THEN g.finish ELSE client.finish
             a == [client EXCEPT !.text = newText]
             b == [a EXCEPT !.calls = newCalls]
             c == [b EXCEPT !.names = newNames]
             d == [c EXCEPT !.finish = newFinish]
  <1>1. client = [text |-> client.text, calls |-> client.calls, names |-> client.names,
                  finish |-> client.finish, errors |-> client.errors]
    BY DEF StreamTypeOK, AggregateTyped, RelayTyped, ClientTyped, WireTyped, TableTyped
  <1>2. Took(client, g) = d
    <2>1. Took(client, g) =
            [client EXCEPT !.text = @ \o g.text, !.calls = TookPieces(@, g.pieces),
                           !.names = [x \in Calls |-> @[x] + Cardinality({k \in DOMAIN g.pieces : g.pieces[k].name = x})],
                           !.finish = IF g.finish # Missing THEN g.finish ELSE @]
      BY Zenon DEF Took
    <2>2. QED
      BY <2>1, Zenon
  <1>3. /\ newText = client.text \o g.text /\ newCalls = TookPieces(client.calls, g.pieces)
        /\ newNames = [x \in Calls |-> client.names[x] + Cardinality({k \in DOMAIN g.pieces : g.pieces[k].name = x})]
        /\ newFinish = (IF g.finish # Missing THEN g.finish ELSE client.finish)
    BY Zenon
  <1> HIDE DEF newText, newCalls, newNames, newFinish
  <1>4. a = [text |-> newText, calls |-> client.calls, names |-> client.names,
             finish |-> client.finish, errors |-> client.errors]
    BY <1>1
  <1> HIDE DEF a
  <1>5. b = [text |-> newText, calls |-> newCalls, names |-> client.names,
             finish |-> client.finish, errors |-> client.errors]
    BY <1>4
  <1> HIDE DEF b
  <1>6. c = [text |-> newText, calls |-> newCalls, names |-> newNames,
             finish |-> client.finish, errors |-> client.errors]
    BY <1>5
  <1> HIDE DEF c
  <1>7. d = [text |-> newText, calls |-> newCalls, names |-> newNames,
             finish |-> newFinish, errors |-> client.errors]
    BY <1>6
  <1> HIDE DEF d
  <1>8. /\ d.text = newText /\ d.calls = newCalls /\ d.names = newNames /\ d.finish = newFinish
        /\ d.errors = client.errors
        /\ d = [text |-> d.text, calls |-> d.calls, names |-> d.names, finish |-> d.finish, errors |-> d.errors]
    BY <1>7
  <1>9. QED
    BY <1>2, <1>3, <1>8, Zenon DEF Adds

LEMMA TookOther ==
  ASSUME StreamTypeOK, NEW g, g.kind # "data"
  PROVE  LET d == Took(client, g) IN
         /\ d.text = client.text /\ d.calls = client.calls /\ d.names = client.names
         /\ d.finish = client.finish /\ d.errors \in Nat
         /\ d = [text |-> d.text, calls |-> d.calls, names |-> d.names, finish |-> d.finish, errors |-> d.errors]
  <1>1. /\ client = [text |-> client.text, calls |-> client.calls, names |-> client.names,
                     finish |-> client.finish, errors |-> client.errors]
        /\ client.errors \in Nat /\ client.errors + 1 \in Nat
    BY DEF StreamTypeOK, AggregateTyped, RelayTyped, ClientTyped, WireTyped, TableTyped
  <1>2. CASE g.kind = "error"
    <2> DEFINE d == [client EXCEPT !.errors = client.errors + 1]
    <2>1. Took(client, g) = d
      BY <1>2, Zenon DEF Took
    <2>2. d = [text |-> client.text, calls |-> client.calls, names |-> client.names,
               finish |-> client.finish, errors |-> client.errors + 1]
      BY <1>1
    <2> HIDE DEF d
    <2>3. QED
      BY <1>1, <2>1, <2>2
  <1>3. CASE g.kind # "error"
    <2>1. Took(client, g) = client
      BY <1>3 DEF Took
    <2>2. QED
      BY <1>1, <2>1, Zenon
  <1>4. QED
    BY <1>2, <1>3

-----------------------------------------------------------------------------
\* Where a piece belongs

LEMMA NextIndex ==
  ASSUME NEW b, NEW m \in Nat, b.seq = m, DOMAIN b.calls = 0..(m - 1)
  PROVE  NextToolIndex(b) = m
  <1> DEFINE Fits(i) == i \notin DOMAIN b.calls /\ \A j \in b.seq..(i - 1) : j \in DOMAIN b.calls
             S == b.seq..(b.seq + Cardinality(DOMAIN b.calls))
  <1>1. Cardinality(DOMAIN b.calls) \in Nat
    <2>1. IsFiniteSet(0..(m - 1))
      BY FS_Interval
    <2>2. QED
      BY <2>1, FS_CardinalityType
  <1>2. m \in S /\ Fits(m) /\ \A i \in S : i \in Int /\ i >= m
    BY <1>1
  <1>3. \A i \in S : Fits(i) => i = m
    <2> SUFFICES ASSUME NEW i \in S, Fits(i), i # m PROVE FALSE
      OBVIOUS
    <2>1. m \in b.seq..(i - 1) /\ m \notin DOMAIN b.calls
      BY <1>2
    <2>2. QED
      BY <2>1
  <1>4. NextToolIndex(b) = CHOOSE i \in S : Fits(i)
    BY Zenon DEF NextToolIndex
  <1> HIDE DEF S, Fits
  <1>5. QED
    BY <1>2, <1>3, <1>4, Zenon

LEMMA PieceFacts ==
  ASSUME NEW c \in Calls, NEW name
  PROVE  LET p == Piece(c, name) IN
         /\ p.index = (IF style \in {"index", "whole"} THEN c - 1 ELSE -1)
         /\ p.id = (IF style = "id" \/ ~Begun(c) THEN c ELSE None)
         /\ p.name = (IF Begun(c) THEN name ELSE c)
         /\ p.args = (IF Begun(c) THEN <<<<c, wire.got[c]>>>> ELSE <<>>)
  BY DEF Piece

LEMMA SlotOfPiece ==
  ASSUME StreamTypeOK, Gathered, NumberedCalls, StreamsAssumption,
         NEW c \in Calls, NEW name, ~Complete(c), \A d \in Calls : d < c => Begun(d),
         style = "first" => \A d \in Calls \ {c} : ~Begun(d) \/ Complete(d),
         NEW b, Same(agg, b)
  PROVE  /\ Slot(b, Piece(c, name)) = c - 1
         /\ c <= Len(agg.order) + 1
         /\ style = "first" => c >= Len(agg.order) /\ \A d \in Calls : d < c => Complete(d)
  <1> DEFINE m == Len(agg.order)
             p == Piece(c, name)
  <1>1. m \in Nat /\ agg.order \in Seq(Int)
    BY DEF StreamTypeOK, AggregateTyped, RelayTyped, ClientTyped, WireTyped, TableTyped
  <1>2. /\ \A d \in Calls : Begun(d) <=> d <= m
        /\ \A k \in 1..m : k \in Calls /\ agg.order[k] = k - 1
        /\ DOMAIN agg.calls = 0..(m - 1)
    BY DEF Gathered
  <1>3. /\ style \in {"id", "first"} => agg.seq = m /\ \A d \in Calls : agg.ids[d] = IF d <= m THEN d - 1 ELSE -1
    BY DEF NumberedCalls
  <1>4. style \in {"index", "id", "first", "whole"}
    BY DEF StreamTypeOK, StreamsAssumption
  <1>5. b.calls = agg.calls /\ b.order = agg.order /\ b.seq = agg.seq /\ b.ids = agg.ids
    BY DEF Same
  <1>6. c \in Nat /\ c > 0 /\ c # None /\ c - 1 \in Nat /\ \A d \in 1..c : d \in Calls
    BY CallFacts
  <1> HIDE DEF m, p
  <1>7. c <= m + 1
    <2>1. CASE c = 1
      BY <1>1, <2>1
    <2>2. CASE c # 1
      <3>1. c - 1 \in Calls /\ c - 1 < c
        BY <1>6, <2>2
      <3>2. c - 1 <= m
        BY <1>2, <3>1
      <3>3. QED
        BY <1>1, <1>6, <3>2
    <2>3. QED
      BY <2>1, <2>2
  <1>8. style = "first" => c >= m /\ \A d \in Calls : d < c => Complete(d)
    <2> SUFFICES ASSUME style = "first" PROVE c >= m /\ \A d \in Calls : d < c => Complete(d)
      OBVIOUS
    <2>1. \A d \in Calls : d \in Nat
      BY CallFacts
    <2>2. \A d \in Calls : d < c => Complete(d)
      BY <1>6, <2>1
    <2>3. ASSUME c < m PROVE FALSE
      <3>1. m \in 1..m /\ m \in Calls
        BY <1>1, <1>2, <1>6, <2>3
      <3>2. Begun(m) /\ Begun(c) /\ m # c
        BY <1>1, <1>2, <1>6, <2>3, <3>1
      <3>3. Complete(c)
        BY <1>1, <1>2, <1>6, <2>3, <3>1, <3>2 DEF NumberedCalls, m
      <3>4. QED
        BY <3>3
    <2>4. QED
      BY <1>1, <1>6, <2>2, <2>3
  <1>9. Slot(b, p) = c - 1
    <2>1. /\ p.index = (IF style \in {"index", "whole"} THEN c - 1 ELSE -1)
          /\ p.id = (IF style = "id" \/ ~Begun(c) THEN c ELSE None)
      BY PieceFacts DEF p
    <2>2. CASE style \in {"index", "whole"}
      BY <1>6, <2>1, <2>2 DEF Slot
    <2>3. CASE style \in {"id", "first"} /\ p.id = c
      <3>1. p.index = -1 /\ ~(p.index >= 0) /\ p.id # None
        BY <1>6, <2>1, <2>3
      <3>2. CASE c <= m
        <4>1. b.ids[p.id] = c - 1 /\ b.ids[p.id] >= 0
          BY <1>3, <1>5, <1>6, <2>3, <3>2
        <4>2. QED
          BY <3>1, <4>1, Zenon DEF Slot
      <3>3. CASE ~(c <= m)
        <4>1. b.ids[p.id] = -1 /\ ~(b.ids[p.id] >= 0)
          BY <1>3, <1>5, <1>6, <2>3, <3>3
        <4>2. Slot(b, p) = NextToolIndex(b)
          BY <3>1, <4>1, Zenon DEF Slot
        <4>3. b.seq = m /\ DOMAIN b.calls = 0..(m - 1)
          BY <1>2, <1>3, <1>5, <2>3
        <4>4. NextToolIndex(b) = m /\ c - 1 = m
          BY <1>1, <1>6, <1>7, <3>3, <4>3, NextIndex
        <4>5. QED
          BY <4>2, <4>4
      <3>4. QED
        BY <3>2, <3>3
    <2>4. CASE style = "first" /\ p.id # c
      <3>1. p.index = -1 /\ ~(p.index >= 0) /\ p.id = None /\ Begun(c)
        BY <2>1, <2>4
      <3>2. m = c
        BY <1>1, <1>2, <1>6, <1>8, <2>4, <3>1
      <3>3. b.order # <<>> /\ Last(b.order) = c - 1
        <4>1. m \in 1..m /\ agg.order[m] = m - 1
          BY <1>1, <1>2, <1>6, <3>2
        <4>2. agg.order # <<>>
          BY <1>1, <1>6, <3>2 DEF m
        <4>3. Last(agg.order) = agg.order[m]
          BY DEF Last, m
        <4>4. QED
          BY <1>5, <3>2, <4>1, <4>2, <4>3
      <3>4. QED
        BY <3>1, <3>3, Zenon DEF Slot
    <2>5. QED
      BY <1>4, <2>1, <2>2, <2>3, <2>4
  <1>10. QED
    BY <1>7, <1>8, <1>9 DEF m, p

\* A call that begins, or goes on, with n of its parts.
Has(c, n) == [id |-> c, name |-> c, args |-> PartsOf(c, n - 1)]

LEMMA HasTyped ==
  ASSUME NEW c \in Calls, NEW n \in 1..(Parts + 1)
  PROVE  Has(c, n) \in ToolCalls
  <1>1. n - 1 \in Nat /\ \A k \in 1..(n - 1) : <<c, k>> \in Calls \X (1..Parts)
    BY CallFacts
  <1>2. PartsOf(c, n - 1) \in Args
    BY <1>1 DEF PartsOf, Args
  <1>3. QED
    BY <1>2 DEF Has, ToolCalls

LEMMA Gathers ==
  ASSUME StreamTypeOK, Gathered, NumberedCalls, StreamsAssumption,
         NEW c \in Calls, NEW n \in 1..(Parts + 1), NEW p, NEW b, Same(agg, b),
         Slot(b, p) = c - 1, c <= Len(agg.order) + 1,
         style = "first" => c >= Len(agg.order) /\ \A d \in Calls : d < c => Complete(d),
         style \in {"id", "first"} => p.index < 0,
         p.id \in {c, None}, c > Len(agg.order) => p.id = c,
         Merged(At(agg.calls, c - 1), p) = Has(c, n),
         agg' = MergePiece(b, p), style' = style,
         wire'.got[c] = n, \A d \in Calls : d # c => wire'.got[d] = wire.got[d],
         b.text = Count(wire'.text)
  PROVE  /\ Gathered' /\ NumberedCalls'
         /\ agg'.calls = Put(agg.calls, c - 1, Has(c, n)) /\ DOMAIN agg'.calls = DOMAIN agg.calls \cup {c - 1}
         /\ agg'.text = b.text /\ agg'.finish = b.finish /\ agg'.valid = b.valid /\ agg'.id = b.id
         /\ agg'.order \in Seq(Int) /\ agg'.seq \in Int /\ agg'.ids \in [Calls -> Int]
         /\ agg'.calls \in [DOMAIN agg'.calls -> ToolCalls] /\ DOMAIN agg'.calls \subseteq Int
         /\ agg' = [id |-> agg'.id, text |-> agg'.text, calls |-> agg'.calls, order |-> agg'.order,
                    seq |-> agg'.seq, ids |-> agg'.ids, finish |-> agg'.finish, valid |-> agg'.valid]
  <1> DEFINE m == Len(agg.order)
             r == MergePiece(b, p)
             i == c - 1
  <1>1. /\ m \in Nat /\ agg.order \in Seq(Int) /\ agg.seq \in Int /\ agg.ids \in [Calls -> Int]
        /\ agg.calls \in [DOMAIN agg.calls -> ToolCalls]
    <2>1. agg.order \in Seq(Int) /\ agg.seq \in Int /\ agg.ids \in [Calls -> Int]
      BY DEF StreamTypeOK, AggregateTyped, RelayTyped, ClientTyped, WireTyped, TableTyped
    <2>2. agg.calls \in [DOMAIN agg.calls -> ToolCalls]
      BY DEF StreamTypeOK, AggregateTyped, TableTyped
    <2>3. QED
      BY <2>1, <2>2
  <1>2. /\ \A d \in Calls : Begun(d) <=> d <= m
        /\ \A k \in 1..m : k \in Calls /\ agg.order[k] = k - 1
        /\ DOMAIN agg.calls = 0..(m - 1)
        /\ \A d \in 1..m : agg.calls[d - 1] = Call(d)
    BY DEF Gathered
  <1>3. /\ r.calls = Put(agg.calls, i, Merged(At(agg.calls, i), p))
        /\ r.order = (IF i \in DOMAIN agg.calls THEN agg.order ELSE Append(agg.order, i))
        /\ r.text = b.text /\ r.finish = b.finish /\ r.valid = b.valid
        /\ r.seq = (IF p.index < 0 /\ i = NextToolIndex(b) /\ i \notin DOMAIN agg.calls THEN i + 1 ELSE agg.seq)
        /\ r.ids = [x \in Calls |-> IF x \in {p.id, At(agg.calls, i).id} \ {None} THEN i ELSE agg.ids[x]]
        /\ r.id = b.id
        /\ r = [id |-> r.id, text |-> r.text, calls |-> r.calls, order |-> r.order, seq |-> r.seq,
                ids |-> r.ids, finish |-> r.finish, valid |-> r.valid]
    <2>1. Laid(r, agg, b, p, i)
      BY MergedPiece
    <2> HIDE DEF r
    <2>2. QED
      BY <2>1 DEF Laid
  <1> HIDE DEF r, m
  <1>4. /\ c \in Nat /\ c > 0 /\ c # None /\ i \in Nat /\ i + 1 = c /\ c <= m + 1
        /\ \A d \in 1..c : d \in Calls
    BY CallFacts DEF m
  <1>5. (i \in DOMAIN agg.calls <=> c <= m) /\ (~(c <= m) => c = m + 1 /\ i = m)
    BY <1>1, <1>2, <1>4
  <1>6. {p.id, At(agg.calls, i).id} \ {None} = {c}
    <2>1. CASE c <= m
      <3>1. c \in 1..m /\ At(agg.calls, i) = agg.calls[i] /\ agg.calls[c - 1] = Call(c)
        BY <1>1, <1>2, <1>4, <1>5, <2>1 DEF At
      <3>2. At(agg.calls, i).id = c
        BY <3>1 DEF Call
      <3>3. QED
        BY <1>4, <3>2
    <2>2. CASE ~(c <= m)
      <3>1. At(agg.calls, i).id = None
        BY <1>5, <2>2 DEF At, NoCall
      <3>2. p.id = c
        BY <1>1, <1>4, <2>2 DEF m
      <3>3. QED
        BY <1>4, <3>1, <3>2
    <2>3. QED
      BY <2>1, <2>2
  <1>7. r.calls = Put(agg.calls, i, Has(c, n)) /\ DOMAIN r.calls = DOMAIN agg.calls \cup {i}
    BY <1>3 DEF Put
  <1>8. /\ r.calls[i] = Has(c, n) /\ \A j \in DOMAIN agg.calls : j # i => r.calls[j] = agg.calls[j]
    BY <1>7 DEF Put
  <1>9. r.ids = [x \in Calls |-> IF x \in {c} THEN i ELSE agg.ids[x]]
    BY <1>3, <1>6
  <1> DEFINE l == Len(r.order)
  <1>10. /\ r.order \in Seq(Int) /\ l = (IF c <= m THEN m ELSE m + 1)
         /\ \A k \in 1..l : r.order[k] = k - 1
    <2>1. CASE c <= m
      <3>1. r.order = agg.order
        BY <1>3, <1>5, <2>1
      <3>2. QED
        BY <1>1, <1>2, <2>1, <3>1 DEF m
    <2>2. CASE ~(c <= m)
      <3>1. r.order = Append(agg.order, i) /\ i \in Int /\ i = m
        BY <1>3, <1>4, <1>5, <2>2
      <3>2. l = m + 1 /\ r.order[m + 1] = i /\ \A k \in 1..m : r.order[k] = agg.order[k]
        BY <1>1, <3>1 DEF m
      <3>3. QED
        BY <1>1, <1>2, <2>2, <3>1, <3>2, SMTT(40)
    <2>3. QED
      BY <2>1, <2>2
  <1> HIDE DEF l
  <1>11. l \in Nat /\ m <= l /\ c <= l /\ (\A k \in 1..l : k \in 1..m \/ k = c) /\ DOMAIN r.calls = 0..(l - 1)
    <2>1. l \in Nat /\ m <= l /\ c <= l
      BY <1>1, <1>4, <1>10
    <2>2. CASE c <= m
      <3>1. l = m /\ DOMAIN r.calls = 0..(m - 1)
        BY <1>2, <1>5, <1>7, <1>10, <2>2
      <3>2. QED
        BY <2>1, <3>1
    <2>3. CASE ~(c <= m)
      <3>1. l = m + 1 /\ c = m + 1 /\ i = m /\ DOMAIN r.calls = (0..(m - 1)) \cup {m}
        BY <1>2, <1>5, <1>7, <1>10, <2>3
      <3>2. (0..(m - 1)) \cup {m} = 0..m /\ l - 1 = m
        BY <1>1, <3>1
      <3>3. \A k \in 1..l : k \in 1..m \/ k = c
        BY <1>1, <3>1
      <3>4. QED
        BY <2>1, <3>1, <3>2, <3>3
    <2>4. QED
      BY <2>2, <2>3
  <1>12. \A d \in Calls : d \in Nat /\ wire.got[d] \in 0..(Parts + 1) /\ Parts \in Nat
    BY CallFacts DEF StreamTypeOK, AggregateTyped, RelayTyped, ClientTyped, WireTyped, TableTyped
  <1>13. wire'.got[c] > 0 /\ \A d \in Calls : d # c => wire'.got[d] = wire.got[d]
    BY <1>12
  <1>14. r.calls \in [DOMAIN r.calls -> ToolCalls] /\ DOMAIN r.calls \subseteq Int
    <2>1. Has(c, n) \in ToolCalls
      BY HasTyped
    <2>2. QED
      BY <1>1, <1>7, <1>11, <2>1 DEF Put
  <1>15. Gathered'
    <2>1. \A d \in Calls : wire'.got[d] > 0 <=> d <= l
      <3> TAKE d \in Calls
      <3>1. CASE d = c
        BY <1>11, <1>13, <3>1
      <3>2. CASE d # c
        <4>1. wire'.got[d] > 0 <=> d <= m
          BY <1>2, <1>13, <3>2 DEF Begun
        <4>2. d <= m <=> d <= l
          <5>1. d \in Nat /\ (c <= m => l = m) /\ (~(c <= m) => c = m + 1 /\ l = m + 1)
            BY <1>5, <1>10, <1>12
          <5>2. QED
            BY <1>1, <1>4, <3>2, <5>1
        <4>3. QED
          BY <4>1, <4>2
      <3>3. QED
        BY <3>1, <3>2
    <2>2. \A k \in 1..l : k \in Calls /\ r.order[k] = k - 1
      BY <1>2, <1>10, <1>11
    <2>3. \A d \in 1..l : r.calls[d - 1] = [id |-> d, name |-> d, args |-> PartsOf(d, wire'.got[d] - 1)]
      <3> TAKE d \in 1..l
      <3>1. CASE d = c
        BY <1>8, <3>1 DEF Has
      <3>2. CASE d # c
        <4>1. d \in 1..m /\ d \in Calls /\ d - 1 # i
          <5>1. d \in 1..m /\ d \in Calls
            BY <1>2, <1>11, <3>2, Zenon
          <5>2. d \in Nat
            BY <5>1, CallFacts
          <5>3. QED
            BY <1>4, <3>2, <5>1, <5>2
        <4>2. d - 1 \in DOMAIN agg.calls /\ r.calls[d - 1] = agg.calls[d - 1] /\ agg.calls[d - 1] = Call(d)
          BY <1>1, <1>2, <1>8, <4>1, SMTT(40)
        <4>3. QED
          BY <1>13, <3>2, <4>1, <4>2 DEF Call
      <3>3. QED
        BY <3>1, <3>2
    <2>4. r.text = Count(wire'.text)
      BY <1>3
    <2>5. agg' = r
      BY DEF r
    <2>6. QED
      BY <1>11, <2>1, <2>2, <2>3, <2>4, <2>5 DEF Gathered, Begun, Call, PartsOf, l
  <1>16. NumberedCalls'
    <2>1. ASSUME style \in {"id", "first"} PROVE r.seq = l /\ \A d \in Calls : r.ids[d] = IF d <= l THEN d - 1 ELSE -1
      <3>1. agg.seq = m /\ \A d \in Calls : agg.ids[d] = IF d <= m THEN d - 1 ELSE -1
        BY <2>1 DEF NumberedCalls, m
      <3>2. CASE c <= m
        <4>1. r.seq = m /\ l = m
          BY <1>3, <1>5, <1>10, <3>1, <3>2
        <4>2. ASSUME NEW d \in Calls PROVE r.ids[d] = IF d <= l THEN d - 1 ELSE -1
          <5>1. r.ids[d] = (IF d = c THEN i ELSE agg.ids[d])
            BY <1>9
          <5>2. CASE d = c
            BY <3>2, <4>1, <5>1, <5>2
          <5>3. CASE d # c
            BY <3>1, <4>1, <5>1, <5>3
          <5>4. QED
            BY <5>2, <5>3
        <4>3. QED
          BY <4>1, <4>2
      <3>3. CASE ~(c <= m)
        <4>1. b.seq = m /\ DOMAIN b.calls = 0..(m - 1)
          BY <1>2, <3>1 DEF Same
        <4>2. NextToolIndex(b) = i
          BY <1>1, <1>5, <3>3, <4>1, NextIndex
        <4>3. r.seq = i + 1 /\ l = m + 1 /\ i = m /\ c = m + 1
          BY <1>3, <1>5, <1>10, <2>1, <3>3, <4>2
        <4>4. ASSUME NEW d \in Calls PROVE r.ids[d] = IF d <= l THEN d - 1 ELSE -1
          <5>1. r.ids[d] = (IF d = c THEN i ELSE agg.ids[d])
            BY <1>9
          <5>2. CASE d = c
            BY <1>1, <4>3, <5>1, <5>2
          <5>3. CASE d # c
            <6>1. d <= m <=> d <= l
              <7>1. d \in Nat /\ m \in Nat /\ l = m + 1 /\ d # m + 1
                BY <1>1, <1>12, <4>3, <5>3, ZenonT(30)
              <7> HIDE DEF i
              <7>2. QED
                BY <7>1
            <6>2. QED
              BY <3>1, <5>1, <5>3, <6>1
          <5>4. QED
            BY <5>2, <5>3
        <4>5. QED
          BY <4>3, <4>4
      <3>4. QED
        BY <3>2, <3>3
    <2>2. ASSUME style = "first", NEW d \in Calls, d < l PROVE wire'.got[d] = Parts + 1
      <3>1. c = l /\ d < c /\ d # c
        BY <1>1, <1>4, <1>10, <1>12, <2>2 DEF m
      <3>2. Complete(d)
        BY <2>2, <3>1
      <3>3. QED
        BY <1>13, <3>1, <3>2 DEF Complete
    <2>3. agg' = r
      BY DEF r
    <2>4. QED
      BY <2>1, <2>2, <2>3 DEF NumberedCalls, Complete, l
  <1>17. r.seq \in Int /\ r.ids \in [Calls -> Int]
    <2>1. r.seq \in Int
      BY <1>1, <1>3, <1>4
    <2>2. \A x \in Calls : agg.ids[x] \in Int
      BY <1>1
    <2>3. r.ids \in [Calls -> Int]
      BY <1>4, <1>9, <2>2
    <2>4. QED
      BY <2>1, <2>3
  <1>18. agg' = r
    BY DEF r
  <1>19. QED
    BY <1>3, <1>7, <1>10, <1>14, <1>15, <1>16, <1>17, <1>18, Zenon

-----------------------------------------------------------------------------
\* What holds of a record whose fields are known

FieldsTyped(a) ==
  /\ a.id \in {Missing, "a"} /\ a.text \in Texts /\ TableTyped(a.calls) /\ a.order \in Seq(Int)
  /\ a.seq \in Int /\ a.ids \in [Calls -> Int] /\ a.finish \in Finishes /\ a.valid \in Nat
  /\ a = [id |-> a.id, text |-> a.text, calls |-> a.calls, order |-> a.order, seq |-> a.seq,
          ids |-> a.ids, finish |-> a.finish, valid |-> a.valid]
LEMMA AggregateIs ==
  ASSUME NEW a, FieldsTyped(a)
  PROVE  AggregateTyped(a)
  BY DEF AggregateTyped, FieldsTyped

LEMMA ClientIs ==
  ASSUME NEW c, c.text \in Texts, TableTyped(c.calls), c.names \in [Calls -> Nat], c.finish \in Finishes,
         c.errors \in Nat,
         c = [text |-> c.text, calls |-> c.calls, names |-> c.names, finish |-> c.finish, errors |-> c.errors]
  PROVE  ClientTyped(c)
  BY DEF ClientTyped

LEMMA RelayIs ==
  ASSUME NEW s, s.seen \in SUBSET Int, s.firstID \in {Missing, "a"}, s.valid \in Nat, s.dones \in Nat,
         s = [seen |-> s.seen, firstID |-> s.firstID, valid |-> s.valid, dones |-> s.dones]
  PROVE  RelayTyped(s)
  BY DEF RelayTyped

\* The fields of the three readers.
LEMMA Fields ==
  ASSUME StreamTypeOK
  PROVE  /\ agg.id \in {Missing, "a"} /\ agg.text \in Seq(Nat) /\ TableTyped(agg.calls) /\ agg.order \in Seq(Int)
         /\ agg.seq \in Int /\ agg.ids \in [Calls -> Int] /\ agg.finish \in Finishes /\ agg.valid \in Nat
         /\ relay.seen \in SUBSET Int /\ relay.valid \in Nat /\ relay.dones \in Nat
         /\ client.text \in Seq(Nat) /\ TableTyped(client.calls) /\ client.names \in [Calls -> Nat]
         /\ client.finish \in Finishes /\ client.errors \in Nat
  <1>1. /\ agg.id \in {Missing, "a"} /\ agg.text \in Seq(Nat) /\ TableTyped(agg.calls) /\ agg.order \in Seq(Int)
        /\ agg.seq \in Int /\ agg.ids \in [Calls -> Int] /\ agg.finish \in Finishes /\ agg.valid \in Nat
    BY DEF StreamTypeOK, AggregateTyped, Texts
  <1>2. relay.seen \in SUBSET Int /\ relay.valid \in Nat /\ relay.dones \in Nat
    BY DEF StreamTypeOK, RelayTyped
  <1>3. /\ client.text \in Seq(Nat) /\ TableTyped(client.calls) /\ client.names \in [Calls -> Nat]
        /\ client.finish \in Finishes /\ client.errors \in Nat
    BY DEF StreamTypeOK, ClientTyped, Texts
  <1>4. QED
    BY <1>1, <1>2, <1>3

\* As long as the stream goes on there is no answer.
LEMMA GoesOn ==
  ASSUME StreamInv, wire.end = "open", style' = style, response' = response, quiet' \in 0..MaxQuiet,
         WireTyped(wire'), wire'.end = "open", AggregateTyped(agg'), RelayTyped(relay'), ClientTyped(client'),
         Gathered', NumberedCalls', Mirrored', relay'.dones = relay.dones
  PROVE  StreamInv'
  <1>1. StreamTypeOK'
    BY DEF StreamInv, StreamTypeOK
  <1>2. Concluded'
    BY DEF StreamInv, Concluded
  <1>3. NoHalfCalls'
    BY DEF StreamInv, Concluded, NoHalfCalls
  <1>4. QED
    BY <1>1, <1>2, <1>3 DEF StreamInv

-----------------------------------------------------------------------------
\* Each kind of frame preserves the invariant

LEMMA NothingThere ==
  /\ \A s \in Seq(Nat) : s \o <<>> = s
  /\ \A c : Cardinality({k \in DOMAIN <<>> : <<>>[k].name = c}) = 0
  <1>1. \A c : {k \in DOMAIN <<>> : <<>>[k].name = c} = {}
    OBVIOUS
  <1>2. QED
    BY <1>1, FS_EmptySet

LEMMA Grows ==
  /\ \A n \in Nat : n + 1 \in Nat /\ \A z : z = 0 => n + z = n
  /\ \A s, t \in Seq(Nat) : s \o t \in Texts /\ s \o t \in Seq(Nat)
  BY DEF Texts

\* A frame that has no pieces: text, or a finish, or nothing.
LEMMA PlainFrame ==
  ASSUME StreamInv, StreamsAssumption, wire.end = "open",
         NEW f, Shaped(f), f.kind = "data", f.text \in Seq(Nat), f.finish \in Finishes, f.pieces = <<>>,
         f.whole => agg.text = <<>>, f.whole => style = "whole", Send(f), WireTyped(wire'), wire'.end = "open", wire'.got = wire.got,
         agg.text \o f.text = Count(wire'.text)
  PROVE  StreamInv'
  <1> DEFINE g == Relayed(relay, f)
             none == <<>>
  <1>1. /\ agg' = Aggregated(agg, f) /\ relay' = Relays(relay, f) /\ client' = Took(client, g)
        /\ quiet' = 0 /\ style' = style /\ response' = response
    BY DEF Send
  <1>2. StreamTypeOK /\ Gathered /\ NumberedCalls /\ Mirrored /\ MaxQuiet \in Nat
    BY DEF StreamInv, StreamsAssumption
  <1>3. /\ agg.id \in {Missing, "a"} /\ agg.text \in Seq(Nat) /\ TableTyped(agg.calls) /\ agg.order \in Seq(Int)
        /\ agg.seq \in Int /\ agg.ids \in [Calls -> Int] /\ agg.finish \in Finishes /\ agg.valid \in Nat
        /\ relay.seen \in SUBSET Int /\ relay.valid \in Nat /\ relay.dones \in Nat
        /\ client.text \in Seq(Nat) /\ TableTyped(client.calls) /\ client.names \in [Calls -> Nat]
        /\ client.finish \in Finishes /\ client.errors \in Nat
    BY <1>2, Fields, Zenon
  <1>4. f.kind \in {"data", "error"} /\ f.pieces = none
    OBVIOUS
  <1>5. Extended(agg', agg, f.text, f.finish)
    <2>1. PICK b : Aggregated(agg, f) = MergePieces(b, f.pieces) /\ Extended(b, agg, f.text, f.finish)
      BY <1>2, <1>4, AggregatedData, Zenon
    <2>2. MergePieces(b, none) = b
      BY MergeNone
    <2>3. QED
      BY <1>1, <1>4, <2>1, <2>2, Zenon
  <1>6. /\ agg'.calls = agg.calls /\ agg'.order = agg.order /\ agg'.seq = agg.seq /\ agg'.ids = agg.ids
        /\ agg'.id \in {Missing, "a"} /\ agg'.text = agg.text \o f.text
        /\ agg'.finish = (IF f.finish # Missing THEN f.finish ELSE agg.finish) /\ agg'.valid = agg.valid + 1
        /\ agg' = [id |-> agg'.id, text |-> agg'.text, calls |-> agg'.calls, order |-> agg'.order,
                   seq |-> agg'.seq, ids |-> agg'.ids, finish |-> agg'.finish, valid |-> agg'.valid]
    BY <1>5, Zenon DEF Extended, Same
  <1>7. /\ relay'.seen = relay.seen /\ relay'.firstID \in {Missing, "a"} /\ relay'.valid = relay.valid + 1
        /\ relay'.dones = relay.dones
        /\ relay' = [seen |-> relay'.seen, firstID |-> relay'.firstID, valid |-> relay'.valid, dones |-> relay'.dones]
    <2>1. Remembers(relay', relay, f)
      BY <1>1, <1>2, RelaysData, Zenon
    <2>2. Stripped(relay.seen, none).seen = relay.seen
      BY StripNone
    <2>3. QED
      BY <1>4, <2>1, <2>2, Zenon DEF Remembers
  <1>8. g.kind = "data" /\ g.finish = f.finish /\ g.text = (IF f.whole THEN <<>> ELSE f.text) /\ g.pieces = none
    <2>1. RelayOf(g, relay, f)
      BY RelayedData, Zenon
    <2>2. Stripped(relay.seen, none).out = none
      BY StripNone
    <2>3. QED
      BY <1>4, <2>1, <2>2, Zenon DEF RelayOf
  <1> HIDE DEF g
  <1>9. /\ client'.text = client.text \o g.text /\ client'.calls = client.calls /\ client'.names = client.names
        /\ client'.finish = (IF f.finish # Missing THEN f.finish ELSE client.finish) /\ client'.errors = client.errors
        /\ client' = [text |-> client'.text, calls |-> client'.calls, names |-> client'.names,
                      finish |-> client'.finish, errors |-> client'.errors]
    <2>1. Adds(client', client, g)
      BY <1>1, <1>2, <1>8, TookData
    <2>2. TookPieces(client.calls, g.pieces) = client.calls
      BY <1>8, TookNone
    <2>3. \A x : Cardinality({k \in DOMAIN g.pieces : g.pieces[k].name = x}) = 0
      BY <1>8, NothingThere
    <2>4. [x \in Calls |-> client.names[x] + Cardinality({k \in DOMAIN g.pieces : g.pieces[k].name = x})] = client.names
      <3>1. \A x \in Calls : client.names[x] \in Nat
        BY <1>3
      <3>2. \A x \in Calls : client.names[x] + Cardinality({k \in DOMAIN g.pieces : g.pieces[k].name = x}) = client.names[x]
        <4> TAKE x \in Calls
        <4> DEFINE z == Cardinality({k \in DOMAIN g.pieces : g.pieces[k].name = x})
                   n == client.names[x]
        <4>1. z = 0 /\ n \in Nat
          BY <2>3, <3>1
        <4> HIDE DEF z, n
        <4>2. n + z = n
          BY <4>1, Grows
        <4>3. QED
          BY <4>2 DEF z, n
      <3>3. QED
        BY <1>3, <3>2
    <2>5. QED
      BY <1>8, <2>1, <2>2, <2>4, Zenon DEF Adds
  <1>10. Gathered'
    <2>1. \A c \in Calls : wire'.got[c] = wire.got[c]
      BY Zenon
    <2>2. agg'.text = Count(wire'.text)
      BY <1>6
    <2>3. QED
      BY <1>2, <1>6, <2>1, <2>2, ZenonT(60) DEF Gathered, Begun, Call, PartsOf
  <1>11. NumberedCalls'
    BY <1>1, <1>2, <1>6, Zenon DEF NumberedCalls, Complete
  <1>12. Mirrored'
    <2> SUFFICES ASSUME style = "index" PROVE Mirrored'
      BY <1>1 DEF Mirrored
    <2>1. ~f.whole /\ g.text = f.text
      BY <1>8
    <2>2. /\ relay.seen = DOMAIN agg.calls /\ client.text = agg.text /\ client.finish = agg.finish
          /\ DOMAIN client.calls = DOMAIN agg.calls
          /\ \A i \in DOMAIN agg.calls : client.calls[i] = agg.calls[i]
          /\ \A c \in Calls : client.names[c] = IF wire.got[c] > 0 THEN 1 ELSE 0
      BY <1>2 DEF Mirrored, Begun
    <2>3. client'.text = agg'.text /\ client'.finish = agg'.finish
      BY <1>6, <1>9, <2>1, <2>2, ZenonT(60)
    <2>4. QED
      BY <1>6, <1>7, <1>9, <2>2, <2>3, ZenonT(60) DEF Mirrored, Begun
  <1>13. AggregateTyped(agg')
    <2>1. agg.text \o f.text \in Texts /\ agg.valid + 1 \in Nat
      BY <1>3, Grows, Zenon
    <2>2. agg'.text \in Texts /\ agg'.valid \in Nat /\ agg'.finish \in Finishes
      BY <1>3, <1>6, <2>1, Zenon
    <2>3. QED
      <3> DEFINE a == agg'
      <3>1. FieldsTyped(a)
        BY <1>3, <1>6, <2>2, Zenon DEF FieldsTyped
      <3> HIDE DEF a
      <3>2. AggregateTyped(a)
        BY <3>1, AggregateIs
      <3>3. QED
        BY <3>2 DEF a
  <1>14. RelayTyped(relay')
    <2>1. relay'.valid \in Nat
      BY <1>3, <1>7, Grows, Zenon
    <2>2. QED
      BY <1>3, <1>7, <2>1, RelayIs, Zenon
  <1>15. ClientTyped(client')
    <2>1. g.text \in Seq(Nat)
      BY <1>8
    <2>2. client'.text \in Texts
      BY <1>3, <1>9, <2>1, Grows, ZenonT(60)
    <2>3. client'.finish \in Finishes
      BY <1>3, <1>9, Zenon
    <2>4. QED
      BY <1>3, <1>9, <2>2, <2>3, ClientIs, Zenon
  <1>16. QED
    BY <1>1, <1>2, <1>7, <1>10, <1>11, <1>12, <1>13, <1>14, <1>15, GoesOn

\* A frame that is no data: a comment, what is no JSON, or an error.
LEMMA OtherFrame ==
  ASSUME StreamInv, StreamsAssumption, wire.end = "open",
         NEW f, Shaped(f), f.kind # "data", f.text = <<>>, f.finish = Missing, f.pieces = <<>>, f.whole = FALSE,
         Send(f), WireTyped(wire'), wire'.end = "open", wire'.got = wire.got, wire'.text = wire.text
  PROVE  StreamInv'
  <1> DEFINE g == Relayed(relay, f)
             none == <<>>
  <1>1. /\ agg' = Aggregated(agg, f) /\ relay' = Relays(relay, f) /\ client' = Took(client, g)
        /\ quiet' = 0 /\ style' = style /\ response' = response
    BY DEF Send
  <1>2. StreamTypeOK /\ Gathered /\ NumberedCalls /\ Mirrored /\ MaxQuiet \in Nat
    BY DEF StreamInv, StreamsAssumption
  <1>3. /\ agg.id \in {Missing, "a"} /\ agg.text \in Seq(Nat) /\ TableTyped(agg.calls) /\ agg.order \in Seq(Int)
        /\ agg.seq \in Int /\ agg.ids \in [Calls -> Int] /\ agg.finish \in Finishes /\ agg.valid \in Nat
        /\ relay.seen \in SUBSET Int /\ relay.valid \in Nat /\ relay.dones \in Nat
        /\ client.text \in Seq(Nat) /\ TableTyped(client.calls) /\ client.names \in [Calls -> Nat]
        /\ client.finish \in Finishes /\ client.errors \in Nat
    BY <1>2, Fields, Zenon
  <1>4. f.pieces = none
    OBVIOUS
  <1>5. /\ agg'.calls = agg.calls /\ agg'.order = agg.order /\ agg'.text = agg.text /\ agg'.finish = agg.finish
        /\ agg'.seq = agg.seq /\ agg'.ids = agg.ids /\ AggregateTyped(agg')
    <2>1. CASE f.kind \in {"data", "error"}
      <3>1. PICK b : Aggregated(agg, f) = MergePieces(b, f.pieces) /\ Extended(b, agg, f.text, f.finish)
        BY <1>2, <2>1, AggregatedData, Zenon
      <3>2. MergePieces(b, none) = b
        BY MergeNone
      <3>3. Extended(agg', agg, f.text, f.finish)
        BY <1>1, <1>4, <3>1, <3>2, Zenon
      <3>4. agg.text \o f.text = agg.text
        BY <1>3, NothingThere
      <3> DEFINE a == agg'
      <3>5. /\ a.calls = agg.calls /\ a.order = agg.order /\ a.seq = agg.seq /\ a.ids = agg.ids
            /\ a.id \in {Missing, "a"} /\ a.text = agg.text /\ a.finish = agg.finish /\ a.valid = agg.valid + 1
            /\ a = [id |-> a.id, text |-> a.text, calls |-> a.calls, order |-> a.order,
                    seq |-> a.seq, ids |-> a.ids, finish |-> a.finish, valid |-> a.valid]
        BY <3>3, <3>4, Zenon DEF Extended, Same
      <3> HIDE DEF a
      <3>6. agg.valid + 1 \in Nat /\ agg.text \in Texts
        BY <1>3, Grows, Zenon DEF Texts
      <3>7. AggregateTyped(a)
        <4>1. FieldsTyped(a)
          BY <1>3, <3>5, <3>6, Zenon DEF FieldsTyped
        <4>2. QED
          BY <4>1, AggregateIs
      <3>8. QED
        BY <3>5, <3>7 DEF a
    <2>2. CASE f.kind \notin {"data", "error"}
      <3>1. agg' = agg
        BY <1>1, <2>2, AggregatedOther
      <3>2. QED
        BY <1>2, <3>1, Zenon DEF StreamTypeOK
    <2>3. QED
      BY <2>1, <2>2
  <1>6. relay'.seen = relay.seen /\ relay'.dones = relay.dones /\ RelayTyped(relay')
    <2> DEFINE s == Relays(relay, f)
    <2>1. /\ s.seen = relay.seen /\ s.firstID \in {Missing, "a"} /\ s.valid \in Nat /\ s.dones = relay.dones
          /\ s = [seen |-> s.seen, firstID |-> s.firstID, valid |-> s.valid, dones |-> s.dones]
      BY <1>2, RelaysOther, Zenon
    <2> HIDE DEF s
    <2>2. RelayTyped(s)
      BY <1>3, <2>1, RelayIs, Zenon
    <2>3. QED
      BY <1>1, <2>1, <2>2 DEF s
  <1>7. g.kind # "data"
    <2>1. RelayOf(g, relay, f)
      BY RelayedData, Zenon
    <2>2. QED
      BY <2>1 DEF RelayOf
  <1>8. /\ client'.text = client.text /\ client'.calls = client.calls /\ client'.names = client.names
        /\ client'.finish = client.finish /\ ClientTyped(client')
    <2> DEFINE d == Took(client, g)
    <2> HIDE DEF g
    <2>1. /\ d.text = client.text /\ d.calls = client.calls /\ d.names = client.names
          /\ d.finish = client.finish /\ d.errors \in Nat
          /\ d = [text |-> d.text, calls |-> d.calls, names |-> d.names, finish |-> d.finish, errors |-> d.errors]
      BY <1>2, <1>7, TookOther, Zenon
    <2> HIDE DEF d
    <2>2. d.text \in Texts
      BY <1>3, <2>1 DEF Texts
    <2>3. ClientTyped(d)
      BY <1>3, <2>1, <2>2, ClientIs, Zenon
    <2>4. QED
      BY <1>1, <2>1, <2>3 DEF d
  <1> HIDE DEF g
  <1>9. Gathered'
    BY <1>2, <1>5, ZenonT(60) DEF Gathered, Begun, Call, PartsOf
  <1>10. NumberedCalls'
    BY <1>1, <1>2, <1>5, Zenon DEF NumberedCalls, Complete
  <1>11. Mirrored'
    BY <1>1, <1>2, <1>5, <1>6, <1>8, ZenonT(60) DEF Mirrored, Begun
  <1>12. QED
    BY <1>1, <1>2, <1>5, <1>6, <1>8, <1>9, <1>10, <1>11, GoesOn

-----------------------------------------------------------------------------
\* A piece of a call

LEMMA PutTyped ==
  ASSUME NEW t, TableTyped(t), NEW i \in Int, NEW c \in ToolCalls
  PROVE  TableTyped(Put(t, i, c))
  BY DEF TableTyped, Put

LEMMA MergedTyped ==
  ASSUME NEW t, TableTyped(t), NEW i \in Int, NEW p, p.id \in Calls \cup {None}, p.name \in Calls \cup {None},
         p.args \in Args
  PROVE  Merged(At(t, i), p) \in ToolCalls
  <1> DEFINE old == At(t, i)
  <1>1. NoCall \in ToolCalls
    BY DEF NoCall, ToolCalls, Args
  <1>2. old \in ToolCalls
    BY <1>1 DEF At, TableTyped
  <1>3. old.id \in Calls \cup {None} /\ old.name \in Calls \cup {None} /\ old.args \in Args
    BY <1>2 DEF ToolCalls
  <1> HIDE DEF old
  <1>4. old.args \o p.args \in Args
    BY <1>3 DEF Args
  <1>5. Merged(old, p) \in ToolCalls
    BY <1>3, <1>4 DEF Merged, ToolCalls
  <1>6. QED
    BY <1>5 DEF old

\* The parts of a call, one more.
LEMMA OnePart ==
  ASSUME NEW c, NEW k \in Nat
  PROVE  /\ PartsOf(c, k) \o <<<<c, k + 1>>>> = PartsOf(c, k + 1)
         /\ PartsOf(c, 0) = <<>> /\ PartsOf(c, k) \o <<>> = PartsOf(c, k)
  <1>1. PartsOf(c, k) \in Seq({c} \X Nat) /\ Len(PartsOf(c, k)) = k
    BY DEF PartsOf
  <1>2. \A j \in 1..k : PartsOf(c, k)[j] = <<c, j>>
    BY DEF PartsOf
  <1>3. PartsOf(c, k + 1) = [j \in 1..(k + 1) |-> <<c, j>>] /\ PartsOf(c, 0) = [j \in 1..0 |-> <<c, j>>]
    BY Zenon DEF PartsOf
  <1> DEFINE s == PartsOf(c, k)
             one == <<c, k + 1>>
  <1> HIDE DEF s, one
  <1>4. s \o <<one>> = [j \in 1..(k + 1) |-> IF j = k + 1 THEN one ELSE s[j]]
    BY <1>1 DEF s
  <1>5. \A j \in 1..(k + 1) : (IF j = k + 1 THEN one ELSE s[j]) = <<c, j>>
    <2> TAKE j \in 1..(k + 1)
    <2>1. CASE j = k + 1
      BY <2>1 DEF one
    <2>2. CASE j # k + 1
      <3>1. j \in 1..k
        BY <2>2
      <3>2. QED
        BY <1>2, <2>2, <3>1 DEF s
    <2>3. QED
      BY <2>1, <2>2
  <1>6. s \o <<one>> = PartsOf(c, k + 1)
    BY <1>3, <1>4, <1>5
  <1>7. PartsOf(c, 0) = <<>>
    BY <1>3
  <1>8. s \o <<>> = s
    BY <1>1 DEF s
  <1>9. QED
    BY <1>6, <1>7, <1>8 DEF s, one

\* What a piece of c says.
Says(q, c) ==
  /\ q.id \in {c, None} /\ q.name \in {c, None} /\ (~Begun(c) => q.id = c /\ q.name = c)
  /\ q.args = (IF Begun(c) THEN <<<<c, wire.got[c]>>>> ELSE <<>>)

LEMMA MergedIs ==
  ASSUME NEW c \in Calls, wire.got[c] \in 0..(Parts + 1), NEW q, Says(q, c), NEW old,
         old = IF Begun(c) THEN Call(c) ELSE NoCall
  PROVE  Merged(old, q) = Has(c, wire.got[c] + 1)
  <1> DEFINE k == wire.got[c]
  <1>1. k \in Nat /\ c # None /\ (k + 1) - 1 = k /\ (Begun(c) <=> k > 0)
    BY CallFacts DEF Begun
  <1>2. CASE Begun(c)
    <2>1. old.id = c /\ old.name = c /\ old.args = PartsOf(c, k - 1)
      BY <1>2 DEF Call
    <2>2. k > 0 /\ k - 1 \in Nat /\ (k - 1) + 1 = k
      BY <1>1, <1>2 DEF Begun
    <2>3. old.args \o q.args = PartsOf(c, k)
      <3>1. q.args = <<<<c, k>>>>
        BY <1>2 DEF Says
      <3>2. PartsOf(c, k - 1) \o <<<<c, (k - 1) + 1>>>> = PartsOf(c, (k - 1) + 1)
        BY <2>2, OnePart
      <3>3. QED
        BY <2>1, <2>2, <3>1, <3>2
    <2>4. (IF q.id # None THEN q.id ELSE old.id) = c /\ (IF q.name # None THEN q.name ELSE old.name) = c
      BY <2>1, Zenon DEF Says
    <2>5. QED
      BY <1>1, <2>3, <2>4, Zenon DEF Merged, Has
  <1>3. CASE ~Begun(c)
    <2>1. k = 0
      BY <1>1, <1>3 DEF Begun
    <2>2. q.id = c /\ q.name = c /\ q.args = <<>> /\ old.args = <<>>
      BY <1>3 DEF Says, NoCall
    <2>3. PartsOf(c, 0) = <<>>
      BY <1>1, OnePart
    <2>4. old.args \o q.args = PartsOf(c, (k + 1) - 1)
      BY <2>1, <2>2, <2>3
    <2>5. QED
      BY <1>1, <2>2, <2>4, Zenon DEF Merged, Has
  <1>4. QED
    BY <1>2, <1>3

\* The frames that upstream sends.
FrameOf(f, kind, id, text, pieces, finish, whole) ==
  f = [kind |-> kind, id |-> id, text |-> text, pieces |-> pieces, finish |-> finish, whole |-> whole]

LEMMA FrameWith ==
  ASSUME NEW f, NEW kind, NEW id, NEW text, NEW pieces, NEW finish, NEW whole, NEW x,
         FrameOf(f, kind, id, text, pieces, finish, whole)
  PROVE  /\ FrameOf([f EXCEPT !.kind = x], x, id, text, pieces, finish, whole)
         /\ FrameOf([f EXCEPT !.id = x], kind, x, text, pieces, finish, whole)
         /\ FrameOf([f EXCEPT !.text = x], kind, id, x, pieces, finish, whole)
         /\ FrameOf([f EXCEPT !.pieces = x], kind, id, text, x, finish, whole)
         /\ FrameOf([f EXCEPT !.finish = x], kind, id, text, pieces, x, whole)
         /\ FrameOf([f EXCEPT !.whole = x], kind, id, text, pieces, finish, x)
  <1>1. FrameOf([f EXCEPT !.kind = x], x, id, text, pieces, finish, whole)
    BY DEF FrameOf
  <1>2. FrameOf([f EXCEPT !.id = x], kind, x, text, pieces, finish, whole)
    BY DEF FrameOf
  <1>3. FrameOf([f EXCEPT !.text = x], kind, id, x, pieces, finish, whole)
    BY DEF FrameOf
  <1>4. FrameOf([f EXCEPT !.pieces = x], kind, id, text, x, finish, whole)
    BY DEF FrameOf
  <1>5. FrameOf([f EXCEPT !.finish = x], kind, id, text, pieces, x, whole)
    BY DEF FrameOf
  <1>6. FrameOf([f EXCEPT !.whole = x], kind, id, text, pieces, finish, x)
    BY DEF FrameOf
  <1>7. QED
    BY <1>1, <1>2, <1>3, <1>4, <1>5, <1>6

LEMMA FrameFields ==
  ASSUME NEW f, NEW kind, NEW id \in {Missing, "a"}, NEW text, NEW pieces, NEW finish, NEW whole \in BOOLEAN,
         FrameOf(f, kind, id, text, pieces, finish, whole)
  PROVE  /\ Shaped(f) /\ f.kind = kind /\ f.text = text /\ f.pieces = pieces
         /\ f.finish = finish /\ f.whole = whole
  <1>1. /\ f.kind = kind /\ f.id = id /\ f.text = text /\ f.pieces = pieces /\ f.finish = finish
        /\ f.whole = whole
    BY DEF FrameOf
  <1>2. Shaped(f)
    BY <1>1, Zenon DEF FrameOf, Shaped
  <1>3. QED
    BY <1>1, <1>2

\* A frame has an id or none.
Ids == {Missing, "a"}

\* A frame of upstream that has no calls.
Sent(f, kind, text, finish) ==
  /\ Shaped(f) /\ f.kind = kind /\ f.text = text /\ f.pieces = <<>>
  /\ f.finish = finish /\ f.whole = FALSE

TextOf(f, id, text) == f = [Frame EXCEPT !.id = id, !.text = text]

LEMMA TextFrameIs ==
  ASSUME NEW id \in Ids, NEW text, NEW f, TextOf(f, id, text)
  PROVE  Sent(f, "data", text, Missing)
  <1> DEFINE none == <<>>
             no == FALSE
  <1>1. FrameOf(Frame, "data", "a", none, none, Missing, no)
    BY Zenon DEF Frame, FrameOf
  <1>2. no \in BOOLEAN /\ "a" \in {Missing, "a"} /\ id \in {Missing, "a"}
    BY DEF Ids
  <1> HIDE DEF none, no
  <1>3. /\ Shaped(f) /\ f.kind = "data" /\ f.text = text /\ f.pieces = none
        /\ f.finish = Missing /\ f.whole = no
    <2> DEFINE a == [Frame EXCEPT !.id = id]
               g == [a EXCEPT !.text = text]
    <2>1. FrameOf(a, "data", id, none, none, Missing, no)
      BY <1>1, FrameWith, Zenon
    <2> HIDE DEF a
    <2>2. f = g
      BY Zenon DEF a, TextOf
    <2>3. FrameOf(g, "data", id, text, none, Missing, no)
      BY <2>1, FrameWith, Zenon
    <2> HIDE DEF g
    <2>4. /\ Shaped(g) /\ g.kind = "data" /\ g.text = text /\ g.pieces = none
          /\ g.finish = Missing /\ g.whole = no
      BY <1>2, <2>3, FrameFields
    <2>5. QED
      BY <2>2, <2>4, Zenon
  <1>4. QED
    BY <1>3, Zenon DEF none, no, Sent

LEMMA PieceFrameIs ==
  ASSUME NEW p
  PROVE  LET f == [Frame EXCEPT !.pieces = p] IN
         /\ Shaped(f) /\ f.kind = "data" /\ f.text = <<>> /\ f.pieces = p
         /\ f.finish = Missing /\ f.whole = FALSE
  <1> DEFINE none == <<>>
             no == FALSE
  <1>1. FrameOf(Frame, "data", "a", none, none, Missing, no)
    BY Zenon DEF Frame, FrameOf
  <1>2. no \in BOOLEAN /\ "a" \in {Missing, "a"}
    OBVIOUS
  <1> HIDE DEF none, no
  <1>3. LET f == [Frame EXCEPT !.pieces = p] IN
        /\ Shaped(f) /\ f.kind = "data" /\ f.text = none /\ f.pieces = p
        /\ f.finish = Missing /\ f.whole = no
    <2> DEFINE f == [Frame EXCEPT !.pieces = p]
    <2>1. FrameOf(f, "data", "a", none, p, Missing, no)
      BY <1>1, FrameWith, Zenon
    <2> HIDE DEF f
    <2>2. /\ Shaped(f) /\ f.kind = "data" /\ f.text = none /\ f.pieces = p
          /\ f.finish = Missing /\ f.whole = no
      BY <1>2, <2>1, FrameFields
    <2>3. QED
      BY <2>2, Zenon DEF f
  <1>4. QED
    BY <1>3, Zenon DEF none, no

OtherOf(f, kind, finish) == f = [Frame EXCEPT !.kind = kind, !.finish = finish]

LEMMA OtherFrameIs ==
  ASSUME NEW kind, NEW finish, NEW f, OtherOf(f, kind, finish)
  PROVE  Sent(f, kind, <<>>, finish)
  <1> DEFINE none == <<>>
             no == FALSE
  <1>1. FrameOf(Frame, "data", "a", none, none, Missing, no)
    BY Zenon DEF Frame, FrameOf
  <1>2. no \in BOOLEAN /\ "a" \in {Missing, "a"}
    OBVIOUS
  <1> HIDE DEF none, no
  <1>3. /\ Shaped(f) /\ f.kind = kind /\ f.text = none /\ f.pieces = none
        /\ f.finish = finish /\ f.whole = no
    <2> DEFINE a == [Frame EXCEPT !.kind = kind]
               g == [a EXCEPT !.finish = finish]
    <2>1. FrameOf(a, kind, "a", none, none, Missing, no)
      BY <1>1, FrameWith, Zenon
    <2> HIDE DEF a
    <2>2. f = g
      BY Zenon DEF a, OtherOf
    <2>3. FrameOf(g, kind, "a", none, none, finish, no)
      BY <2>1, FrameWith, Zenon
    <2> HIDE DEF g
    <2>4. /\ Shaped(g) /\ g.kind = kind /\ g.text = none /\ g.pieces = none
          /\ g.finish = finish /\ g.whole = no
      BY <1>2, <2>3, FrameFields
    <2>5. QED
      BY <2>2, <2>4, Zenon
  <1>4. QED
    BY <1>3, Zenon DEF none, no, Sent

LEMMA WholeFrameIs ==
  ASSUME NEW text, NEW p
  PROVE  LET f == [Frame EXCEPT !.whole = TRUE, !.text = text, !.pieces = p] IN
         /\ Shaped(f) /\ f.kind = "data" /\ f.text = text /\ f.pieces = p
         /\ f.finish = Missing /\ f.whole = TRUE
  <1> DEFINE none == <<>>
             yes == TRUE
             no == FALSE
  <1>1. FrameOf(Frame, "data", "a", none, none, Missing, no)
    BY Zenon DEF Frame, FrameOf
  <1>2. yes \in BOOLEAN /\ no \in BOOLEAN /\ "a" \in {Missing, "a"}
    OBVIOUS
  <1> HIDE DEF none, yes, no
  <1>3. LET f == [Frame EXCEPT !.whole = yes, !.text = text, !.pieces = p] IN
        /\ Shaped(f) /\ f.kind = "data" /\ f.text = text /\ f.pieces = p
        /\ f.finish = Missing /\ f.whole = yes
    <2> DEFINE a == [Frame EXCEPT !.whole = yes]
               b == [a EXCEPT !.text = text]
               f == [b EXCEPT !.pieces = p]
    <2>1. FrameOf(a, "data", "a", none, none, Missing, yes)
      BY <1>1, FrameWith, Zenon
    <2> HIDE DEF a
    <2>2. FrameOf(b, "data", "a", text, none, Missing, yes)
      BY <2>1, FrameWith, Zenon
    <2> HIDE DEF b
    <2>3. FrameOf(f, "data", "a", text, p, Missing, yes)
      BY <2>2, FrameWith, Zenon
    <2> HIDE DEF f
    <2>4. /\ Shaped(f) /\ f.kind = "data" /\ f.text = text /\ f.pieces = p
          /\ f.finish = Missing /\ f.whole = yes
      BY <1>2, <2>3, FrameFields
    <2>5. QED
      BY <2>4, Zenon DEF f, b, a
  <1>4. QED
    BY <1>3, Zenon DEF none, yes, no

\* What is left of a piece when its name is taken away.
LEMMA StripFacts ==
  ASSUME NEW seen, NEW p, p = [index |-> p.index, id |-> p.id, name |-> p.name, args |-> p.args]
  PROVE  LET q == StripName(seen, p)
             i == IF p.index >= 0 THEN p.index ELSE 0
         IN  /\ q.index = p.index /\ q.id = p.id /\ q.args = p.args
             /\ q.name = (IF i \in seen THEN None ELSE p.name)
             /\ SeenAfter(seen, p) = seen \cup {i}
  <1> DEFINE i == IF p.index >= 0 THEN p.index ELSE 0
             r == [p EXCEPT !.name = None]
             q == StripName(seen, p)
  <1>1. r.index = p.index /\ r.id = p.id /\ r.args = p.args /\ r.name = None
    OBVIOUS
  <1>2. q = (IF i \in seen THEN r ELSE p) /\ SeenAfter(seen, p) = seen \cup {i}
    BY Zenon DEF StripName, SeenAfter
  <1> HIDE DEF i, r, q
  <1>3. q.index = p.index /\ q.id = p.id /\ q.args = p.args /\ q.name = (IF i \in seen THEN None ELSE p.name)
    BY <1>1, <1>2
  <1>4. QED
    BY <1>2, <1>3, Zenon DEF i, q

\* How many of one piece have the name of x.
LEMMA NamesOf ==
  ASSUME NEW q, NEW x
  PROVE  Cardinality({k \in DOMAIN <<q>> : <<q>>[k].name = x}) = (IF q.name = x THEN 1 ELSE 0)
  <1> DEFINE ps == <<q>>
             S == {k \in DOMAIN ps : ps[k].name = x}
  <1>1. DOMAIN ps = {1} /\ ps[1] = q
    OBVIOUS
  <1> HIDE DEF ps
  <1>2. CASE q.name = x
    <2>1. S = {1}
      BY <1>1, <1>2
    <2>2. Cardinality({1}) = 1
      BY FS_Singleton
    <2>3. QED
      BY <1>2, <2>1, <2>2 DEF ps
  <1>3. CASE q.name # x
    <2>1. S = {}
      BY <1>1, <1>3
    <2>2. Cardinality({}) = 0
      BY FS_EmptySet
    <2>3. QED
      BY <1>3, <2>1, <2>2 DEF ps
  <1>4. QED
    BY <1>2, <1>3

LEMMA PieceSays ==
  ASSUME NEW c \in Calls, NEW name \in {None, c}
  PROVE  LET p == Piece(c, name) IN
         /\ Says(p, c) /\ p = [index |-> p.index, id |-> p.id, name |-> p.name, args |-> p.args]
  <1> DEFINE p == Piece(c, name)
  <1>1. /\ p.index = (IF style \in {"index", "whole"} THEN c - 1 ELSE -1)
        /\ p.id = (IF style = "id" \/ ~Begun(c) THEN c ELSE None)
        /\ p.name = (IF Begun(c) THEN name ELSE c)
        /\ p.args = (IF Begun(c) THEN <<<<c, wire.got[c]>>>> ELSE <<>>)
    BY PieceFacts
  <1>2. p = [index |-> p.index, id |-> p.id, name |-> p.name, args |-> p.args]
    BY DEF Piece
  <1> HIDE DEF p
  <1>3. p.id \in {c, None} /\ (~Begun(c) => p.id = c)
    BY <1>1, Zenon
  <1>4. p.name \in {c, None} /\ (~Begun(c) => p.name = c)
    BY <1>1, Zenon
  <1>5. Says(p, c)
    BY <1>1, <1>3, <1>4, Zenon DEF Says
  <1>6. QED
    BY <1>2, <1>5 DEF p

\* A piece of c is in the types.
LEMMA SaysTyped ==
  ASSUME NEW c \in Calls, wire.got[c] \in 0..Parts, NEW q, Says(q, c)
  PROVE  q.id \in Calls \cup {None} /\ q.name \in Calls \cup {None} /\ q.args \in Args
  <1>1. Begun(c) => wire.got[c] \in 1..Parts
    BY CallFacts DEF Begun
  <1>2. q.args \in Args
    BY <1>1 DEF Says, Args
  <1>3. QED
    BY <1>2, Zenon DEF Says

\* The call that upstream adds to, as Aggregate has it.
LEMMA AtOf ==
  ASSUME Gathered, Len(agg.order) \in Nat, NEW c \in Calls
  PROVE  At(agg.calls, c - 1) = (IF Begun(c) THEN Call(c) ELSE NoCall) /\ (c - 1 \in DOMAIN agg.calls <=> Begun(c))
  <1> DEFINE m == Len(agg.order)
  <1>1. (Begun(c) <=> c <= m) /\ DOMAIN agg.calls = 0..(m - 1) /\ \A d \in 1..m : agg.calls[d - 1] = Call(d)
    BY DEF Gathered
  <1>2. c \in Nat /\ c > 0 /\ m \in Nat
    BY CallFacts
  <1> HIDE DEF m
  <1>3. (c - 1 \in 0..(m - 1) <=> c <= m) /\ (c \in 1..m <=> c <= m)
    BY <1>2
  <1>4. QED
    BY <1>1, <1>3, Zenon DEF At

\* What the next piece of c makes of the wire.
Onward(c) ==
  /\ WireTyped(wire') /\ wire'.end = "open" /\ wire'.text = wire.text
  /\ wire'.got[c] = wire.got[c] + 1 /\ \A d \in Calls : d # c => wire'.got[d] = wire.got[d]

LEMMA WireGoesOn ==
  ASSUME WireTyped(wire), wire.end = "open", NEW c \in Calls, ~Complete(c),
         wire' = [wire EXCEPT !.frames = @ + 1, !.got[c] = @ + 1]
  PROVE  Onward(c) /\ wire.got[c] \in 0..Parts
  <1> DEFINE k == wire.got[c]
             newGot == [wire.got EXCEPT ![c] = k + 1]
             a == [wire EXCEPT !.frames = wire.frames + 1]
             w == [a EXCEPT !.got = newGot]
  <1>1. /\ wire = [frames |-> wire.frames, text |-> wire.text, got |-> wire.got, end |-> wire.end]
        /\ wire.frames + 1 \in Nat /\ wire.text \in Nat
    BY DEF WireTyped
  <1>2. wire.got \in [Calls -> 0..(Parts + 1)]
    BY DEF WireTyped
  <1>3. k \in 0..Parts /\ k + 1 \in 0..(Parts + 1)
    BY <1>2, CallFacts DEF Complete
  <1>4. newGot \in [Calls -> 0..(Parts + 1)] /\ newGot[c] = k + 1 /\ \A d \in Calls : d # c => newGot[d] = wire.got[d]
    BY <1>2, <1>3
  <1>5. wire' = w
    <2>1. a.got = wire.got
      BY <1>1
    <2>2. wire' = [a EXCEPT !.got = [a.got EXCEPT ![c] = @ + 1]]
      BY Zenon
    <2> HIDE DEF a
    <2>3. QED
      BY <2>1, <2>2, Zenon
  <1> HIDE DEF newGot
  <1>6. a = [frames |-> wire.frames + 1, text |-> wire.text, got |-> wire.got, end |-> wire.end]
    BY <1>1
  <1> HIDE DEF a
  <1>7. w = [frames |-> wire.frames + 1, text |-> wire.text, got |-> newGot, end |-> wire.end]
    BY <1>6
  <1> HIDE DEF w
  <1>8. w.frames = wire.frames + 1 /\ w.text = wire.text /\ w.got = newGot /\ w.end = wire.end
    BY <1>7
  <1>9. WireTyped(w)
    <2>1. wire.end \in {"open", "done", "eof", "broken"}
      OBVIOUS
    <2>2. QED
      BY <1>1, <1>4, <1>7, <2>1 DEF WireTyped
  <1>10. Onward(c)
    BY <1>4, <1>5, <1>8, <1>9, Zenon DEF Onward
  <1>11. QED
    BY <1>3, <1>10

\* A piece of a call, in a delta.
LEMMA PieceFrame ==
  ASSUME StreamInv, StreamsAssumption, NEW c \in Calls, NEW name \in {None, c}, SendPiece(c, name)
  PROVE  StreamInv'
  <1> DEFINE p == Piece(c, name)
             ps == <<p>>
             f == [Frame EXCEPT !.pieces = ps]
             g == Relayed(relay, f)
             i == c - 1
             n == wire.got[c] + 1
             q == StripName(relay.seen, p)
  <1>1. /\ ~Complete(c) /\ (\A d \in Calls : d < c => Begun(d))
        /\ (style = "first" => \A d \in Calls \ {c} : ~Begun(d) \/ Complete(d))
        /\ wire' = [wire EXCEPT !.frames = @ + 1, !.got[c] = @ + 1] /\ Send(f)
    BY Zenon DEF SendPiece
  <1>2. StreamTypeOK /\ Gathered /\ NumberedCalls /\ Mirrored /\ MaxQuiet \in Nat /\ WireTyped(wire) /\ wire.end = "open"
    BY <1>1 DEF StreamInv, StreamsAssumption, Send, StreamTypeOK
  <1>3. Shaped(f) /\ f.kind = "data" /\ f.text = <<>> /\ f.pieces = ps /\ f.finish = Missing /\ f.whole = FALSE
    <2>1. "a" \in Ids
      BY DEF Ids
    <2>2. QED
      BY <2>1, PieceFrameIs, Zenon
  <1>4. Onward(c) /\ wire.got[c] \in 0..Parts
    BY <1>1, <1>2, WireGoesOn
  <1>5. Says(p, c) /\ p = [index |-> p.index, id |-> p.id, name |-> p.name, args |-> p.args]
    BY PieceSays, Zenon
  <1>6. p.index = (IF style \in {"index", "whole"} THEN i ELSE -1)
    BY PieceFacts
  <1>7. p.id \in Calls \cup {None} /\ p.name \in Calls \cup {None} /\ p.args \in Args
    BY <1>4, <1>5, SaysTyped
  <1>8. /\ agg.id \in {Missing, "a"} /\ agg.text \in Seq(Nat) /\ TableTyped(agg.calls) /\ agg.order \in Seq(Int)
        /\ agg.seq \in Int /\ agg.ids \in [Calls -> Int] /\ agg.finish \in Finishes /\ agg.valid \in Nat
        /\ relay.seen \in SUBSET Int /\ relay.valid \in Nat /\ relay.dones \in Nat
        /\ client.text \in Seq(Nat) /\ TableTyped(client.calls) /\ client.names \in [Calls -> Nat]
        /\ client.finish \in Finishes /\ client.errors \in Nat
    BY <1>2, Fields, Zenon
  <1>9. At(agg.calls, i) = (IF Begun(c) THEN Call(c) ELSE NoCall) /\ (i \in DOMAIN agg.calls <=> Begun(c))
    <2>1. Len(agg.order) \in Nat
      BY <1>8
    <2>2. QED
      BY <1>2, <2>1, AtOf
  <1>10. /\ agg' = Aggregated(agg, f) /\ relay' = Relays(relay, f) /\ client' = Took(client, g)
         /\ quiet' = 0 /\ style' = style /\ response' = response
    BY <1>1, Zenon DEF Send
  <1> HIDE DEF p, f
  <1>11. PICK b : Aggregated(agg, f) = MergePieces(b, f.pieces) /\ Extended(b, agg, f.text, f.finish)
    <2>1. f.kind \in {"data", "error"} /\ (f.whole => agg.text = <<>>)
      BY <1>3
    <2>2. QED
      BY <1>2, <1>3, <2>1, AggregatedData, Zenon
  <1>12. agg' = MergePiece(b, p)
    BY <1>3, <1>10, <1>11, MergeOne, Zenon
  <1>13. Same(agg, b) /\ b.text = agg.text /\ b.finish = agg.finish /\ b.valid = agg.valid + 1 /\ b.id \in {Missing, "a"}
    <2>1. agg.text \o <<>> = agg.text
      BY <1>8, NothingThere
    <2>2. QED
      BY <1>3, <1>11, <2>1, Zenon DEF Extended, Same
  <1>14. /\ Slot(b, p) = i /\ c <= Len(agg.order) + 1
         /\ style = "first" => c >= Len(agg.order) /\ \A d \in Calls : d < c => Complete(d)
    BY <1>1, <1>2, <1>13, SlotOfPiece, Zenon DEF p
  <1>15. Merged(At(agg.calls, i), p) = Has(c, n)
    <2>1. wire.got[c] \in 0..(Parts + 1)
      BY <1>4, CallFacts
    <2>2. QED
      BY <1>5, <1>9, <2>1, MergedIs, Zenon
  <1>16. /\ Gathered' /\ NumberedCalls'
         /\ agg'.calls = Put(agg.calls, i, Has(c, n)) /\ DOMAIN agg'.calls = DOMAIN agg.calls \cup {i}
         /\ agg'.text = b.text /\ agg'.finish = b.finish /\ agg'.valid = b.valid /\ agg'.id = b.id
         /\ agg'.order \in Seq(Int) /\ agg'.seq \in Int /\ agg'.ids \in [Calls -> Int]
         /\ agg'.calls \in [DOMAIN agg'.calls -> ToolCalls] /\ DOMAIN agg'.calls \subseteq Int
         /\ agg' = [id |-> agg'.id, text |-> agg'.text, calls |-> agg'.calls, order |-> agg'.order,
                    seq |-> agg'.seq, ids |-> agg'.ids, finish |-> agg'.finish, valid |-> agg'.valid]
    <2>1. n \in 1..(Parts + 1)
      BY <1>4, CallFacts
    <2>2. style \in {"id", "first"} => p.index < 0
      BY <1>6
    <2>3. p.id \in {c, None}
      BY <1>5, Zenon DEF Says
    <2>4. c > Len(agg.order) => p.id = c
      <3>1. Begun(c) <=> c <= Len(agg.order)
        BY <1>2, Zenon DEF Gathered
      <3>2. c > Len(agg.order) => ~Begun(c)
        BY <1>8, <3>1, CallFacts
      <3>3. QED
        BY <1>5, <3>2, Zenon DEF Says
    <2>5. wire'.got[c] = n /\ (\A d \in Calls : d # c => wire'.got[d] = wire.got[d]) /\ wire'.text = wire.text
      BY <1>4, Zenon DEF Onward
    <2>6. b.text = Count(wire'.text)
      BY <1>2, <1>13, <2>5, Zenon DEF Gathered
    <2> HIDE DEF n, i
    <2>7. QED
      BY <1>2, <1>10, <1>12, <1>13, <1>14, <1>15, <2>1, <2>2, <2>3, <2>4, <2>5, <2>6, Gathers DEF n, i
  <1>17. AggregateTyped(agg')
    <2> DEFINE a == agg'
    <2>1. agg.text \in Texts /\ agg.valid + 1 \in Nat
      BY <1>8, Grows, Zenon DEF Texts
    <2>2. TableTyped(agg'.calls)
      BY <1>16 DEF TableTyped
    <2>3. FieldsTyped(a)
      BY <1>8, <1>13, <1>16, <2>1, <2>2, Zenon DEF FieldsTyped
    <2> HIDE DEF a
    <2>4. AggregateTyped(a)
      BY <2>3, AggregateIs
    <2>5. QED
      BY <2>4 DEF a
  <1> DEFINE j == IF p.index >= 0 THEN p.index ELSE 0
  <1>18. /\ q.index = p.index /\ q.id = p.id /\ q.args = p.args
         /\ q.name = (IF j \in relay.seen THEN None ELSE p.name)
         /\ SeenAfter(relay.seen, p) = relay.seen \cup {j}
    BY <1>5, StripFacts, Zenon
  <1>19. j \in Int /\ p.index \in Int
    BY <1>6, CallFacts
  <1>20. relay'.seen = relay.seen \cup {j} /\ relay'.dones = relay.dones /\ RelayTyped(relay')
    <2> DEFINE s == relay'
    <2>1. Remembers(s, relay, f)
      BY <1>2, <1>3, <1>10, RelaysData, Zenon
    <2>2. Stripped(relay.seen, ps).seen = SeenAfter(relay.seen, p)
      BY StripOne, Zenon
    <2>3. s.seen = relay.seen \cup {j} /\ s.dones = relay.dones
      BY <1>3, <1>18, <2>1, <2>2, Zenon DEF Remembers
    <2>4. s.seen \in SUBSET Int /\ relay.valid + 1 \in Nat
      BY <1>8, <1>19, <2>3
    <2> HIDE DEF s
    <2>5. RelayTyped(s)
      BY <1>8, <2>1, <2>3, <2>4, RelayIs, Zenon DEF Remembers
    <2>6. QED
      BY <2>3, <2>5 DEF s
  <1>21. g.kind = "data" /\ g.finish = Missing /\ g.text = <<>> /\ g.pieces = <<q>>
    <2>1. RelayOf(g, relay, f)
      BY <1>3, RelayedData, Zenon
    <2>2. Stripped(relay.seen, ps).out = <<q>>
      BY StripOne, Zenon
    <2>3. QED
      BY <1>3, <2>1, <2>2, Zenon DEF RelayOf
  <1> HIDE DEF g, q, j
  <1>22. /\ client'.text = client.text /\ client'.finish = client.finish /\ client'.errors = client.errors
         /\ client'.calls = Put(client.calls, p.index, Merged(At(client.calls, p.index), q))
         /\ client'.names = [x \in Calls |-> client.names[x] + (IF q.name = x THEN 1 ELSE 0)]
         /\ client' = [text |-> client'.text, calls |-> client'.calls, names |-> client'.names,
                       finish |-> client'.finish, errors |-> client'.errors]
    <2>1. Adds(client', client, g)
      BY <1>2, <1>10, <1>21, TookData, Zenon
    <2>2. TookPieces(client.calls, <<q>>) = Put(client.calls, q.index, Merged(At(client.calls, q.index), q))
      BY TookOne, Zenon
    <2>3. client.text \o <<>> = client.text
      BY <1>8, NothingThere
    <2>4. \A x : Cardinality({k \in DOMAIN <<q>> : <<q>>[k].name = x}) = (IF q.name = x THEN 1 ELSE 0)
      BY NamesOf, Zenon
    <2> DEFINE named(x) == Cardinality({k \in DOMAIN g.pieces : g.pieces[k].name = x})
    <2>5. client'.names = [x \in Calls |-> client.names[x] + (IF q.name = x THEN 1 ELSE 0)]
      <3>1. client'.names = [x \in Calls |-> client.names[x] + named(x)]
        BY <2>1, Zenon DEF Adds
      <3>2. \A x : named(x) = (IF q.name = x THEN 1 ELSE 0)
        BY <1>21, <2>4, ZenonT(60)
      <3> HIDE DEF named
      <3>3. QED
        BY <3>1, <3>2
    <2>6. QED
      BY <1>18, <1>21, <2>1, <2>2, <2>3, <2>5, Zenon DEF Adds
  <1>23. ClientTyped(client')
    <2>1. q.id \in Calls \cup {None} /\ q.name \in Calls \cup {None} /\ q.args \in Args
      BY <1>7, <1>18, Zenon
    <2>2. Merged(At(client.calls, p.index), q) \in ToolCalls
      BY <1>8, <1>19, <2>1, MergedTyped
    <2>3. TableTyped(client'.calls)
      BY <1>8, <1>19, <1>22, <2>2, PutTyped
    <2>4. client'.names \in [Calls -> Nat]
      BY <1>8, <1>22, SMTT(40)
    <2>5. client'.text \in Texts
      BY <1>8, <1>22, Zenon DEF Texts
    <2>6. QED
      BY <1>8, <1>22, <2>3, <2>4, <2>5, ClientIs, Zenon
  <1>24. Mirrored'
    <2> SUFFICES ASSUME style = "index" PROVE Mirrored'
      BY <1>10 DEF Mirrored
    <2>1. p.index = i /\ j = i
      BY <1>6, CallFacts DEF j
    <2>2. /\ relay.seen = DOMAIN agg.calls /\ client.text = agg.text /\ client.finish = agg.finish
          /\ DOMAIN client.calls = DOMAIN agg.calls
          /\ \A k \in DOMAIN agg.calls : client.calls[k] = agg.calls[k]
          /\ \A d \in Calls : client.names[d] = IF Begun(d) THEN 1 ELSE 0
      BY <1>2, Zenon DEF Mirrored
    <2>3. Says(q, c) /\ q.name = (IF Begun(c) THEN None ELSE c)
      <3>1. q.name = (IF Begun(c) THEN None ELSE p.name)
        BY <1>9, <1>18, <2>1, <2>2, Zenon
      <3>2. q.name = (IF Begun(c) THEN None ELSE c)
        BY <1>5, <3>1, Zenon DEF Says
      <3>3. QED
        BY <1>5, <1>18, <3>2, Zenon DEF Says
    <2>4. At(client.calls, i) = At(agg.calls, i)
      BY <2>2, Zenon DEF At
    <2>5. Merged(At(client.calls, i), q) = Has(c, n)
      <3>1. wire.got[c] \in 0..(Parts + 1)
        BY <1>4, CallFacts
      <3>2. QED
        BY <1>9, <2>3, <2>4, <3>1, MergedIs, Zenon
    <2>6. relay'.seen = DOMAIN agg'.calls
      BY <1>16, <1>20, <2>1, <2>2, Zenon
    <2>7. client'.text = agg'.text /\ client'.finish = agg'.finish
      BY <1>13, <1>16, <1>22, <2>2, Zenon
    <2> HIDE DEF i, n
    <2>8. /\ DOMAIN client'.calls = DOMAIN agg'.calls
          /\ \A k \in DOMAIN agg'.calls : client'.calls[k] = agg'.calls[k]
      <3>1. client'.calls = Put(client.calls, i, Has(c, n)) /\ agg'.calls = Put(agg.calls, i, Has(c, n))
        BY <1>16, <1>22, <2>1, <2>5, Zenon
      <3>2. QED
        BY <2>2, <3>1 DEF Put
    <2>9. ASSUME NEW d \in Calls PROVE client'.names[d] = IF wire'.got[d] > 0 THEN 1 ELSE 0
      <3>1. client'.names[d] = client.names[d] + (IF q.name = d THEN 1 ELSE 0) /\ client.names[d] = (IF Begun(d) THEN 1 ELSE 0)
        BY <1>22, <2>2
      <3>2. CASE d = c
        <4>1. wire'.got[c] > 0 /\ c # None
          BY <1>4, CallFacts, SMTT(40) DEF Onward
        <4>2. QED
          BY <2>3, <3>1, <3>2, <4>1
      <3>3. CASE d # c
        <4>1. q.name # d
          BY <2>3, <3>3, CallFacts
        <4>2. wire'.got[d] = wire.got[d]
          BY <1>4, <3>3 DEF Onward
        <4>3. QED
          BY <3>1, <4>1, <4>2 DEF Begun
      <3>4. QED
        BY <3>2, <3>3
    <2>10. QED
      BY <2>6, <2>7, <2>8, <2>9 DEF Mirrored, Begun
  <1>25. quiet' \in 0..MaxQuiet /\ WireTyped(wire') /\ wire'.end = "open"
    BY <1>2, <1>4, <1>10 DEF Onward
  <1>26. QED
    BY <1>2, <1>10, <1>16, <1>17, <1>20, <1>23, <1>24, <1>25, GoesOn, Zenon

-----------------------------------------------------------------------------
\* Text, other frames, and whole messages

LEMMA Counted ==
  /\ Count(0) = <<>> /\ \A n \in Nat : Count(n) \o <<n + 1>> = Count(n + 1)
  <1>1. ASSUME NEW n \in Nat PROVE Count(n) \o <<n + 1>> = Count(n + 1)
    <2> DEFINE s == Count(n)
               one == n + 1
    <2>1. s \in Seq(Nat) /\ Len(s) = n /\ one \in Nat
      BY DEF Count
    <2>2. \A j \in 1..n : s[j] = j
      BY DEF Count
    <2>3. Count(n + 1) = [j \in 1..(n + 1) |-> j]
      BY Zenon DEF Count
    <2> HIDE DEF s
    <2>4. s \o <<one>> = [j \in 1..(n + 1) |-> IF j = n + 1 THEN one ELSE s[j]]
      BY <2>1, SMTT(40)
    <2>5. \A j \in 1..(n + 1) : (IF j = n + 1 THEN one ELSE s[j]) = j
      <3> TAKE j \in 1..(n + 1)
      <3>1. j # n + 1 => j \in 1..n
        OBVIOUS
      <3>2. QED
        BY <2>2, <3>1
    <2>6. s \o <<one>> = Count(n + 1)
      BY <2>3, <2>4, <2>5
    <2>7. QED
      BY <2>6 DEF s
  <1>2. Count(0) = <<>>
    BY DEF Count
  <1>3. QED
    BY <1>1, <1>2

\* What upstream has done, field by field.
WireOf(w, frames, text, got, end) == w = [frames |-> frames, text |-> text, got |-> got, end |-> end]

LEMMA WireWith ==
  ASSUME NEW w, NEW frames, NEW text, NEW got, NEW end, NEW x, WireOf(w, frames, text, got, end)
  PROVE  /\ WireOf([w EXCEPT !.frames = x], x, text, got, end)
         /\ WireOf([w EXCEPT !.text = x], frames, x, got, end)
         /\ WireOf([w EXCEPT !.got = x], frames, text, x, end)
         /\ WireOf([w EXCEPT !.end = x], frames, text, got, x)
  <1>1. WireOf([w EXCEPT !.frames = x], x, text, got, end)
    BY DEF WireOf
  <1>2. WireOf([w EXCEPT !.text = x], frames, x, got, end)
    BY DEF WireOf
  <1>3. WireOf([w EXCEPT !.got = x], frames, text, x, end)
    BY DEF WireOf
  <1>4. WireOf([w EXCEPT !.end = x], frames, text, got, x)
    BY DEF WireOf
  <1>5. QED
    BY <1>1, <1>2, <1>3, <1>4

\* How a stream is, and how it ends.
Ends == {"open", "done", "eof", "broken"}
Ways == {"done", "eof", "broken"}

LEMMA WireFields ==
  ASSUME NEW w, NEW frames \in Nat, NEW text \in Nat, NEW got \in [Calls -> 0..(Parts + 1)],
         NEW end \in Ends, WireOf(w, frames, text, got, end)
  PROVE  WireTyped(w) /\ w.text = text /\ w.got = got /\ w.end = end
  <1>1. w.text = text /\ w.got = got /\ w.end = end
    BY DEF WireOf
  <1>2. WireTyped(w)
    BY DEF WireOf, WireTyped, Ends
  <1>3. QED
    BY <1>1, <1>2

LEMMA WireHas ==
  ASSUME WireTyped(wire)
  PROVE  /\ WireOf(wire, wire.frames, wire.text, wire.got, wire.end)
         /\ wire.frames \in Nat /\ wire.frames + 1 \in Nat /\ wire.text \in Nat /\ wire.text + 1 \in Nat
         /\ wire.got \in [Calls -> 0..(Parts + 1)]
  <1>1. WireOf(wire, wire.frames, wire.text, wire.got, wire.end)
    BY DEF WireTyped, WireOf
  <1>2. wire.frames \in Nat /\ wire.text \in Nat /\ wire.got \in [Calls -> 0..(Parts + 1)]
    BY DEF WireTyped
  <1>3. QED
    BY <1>1, <1>2

\* What upstream has done after a step.
Moved(w, text, got, end) == WireTyped(w) /\ w.text = text /\ w.got = got /\ w.end = end

LEMMA WireMoves ==
  ASSUME WireTyped(wire), wire.end = "open", NEW text \in Nat, NEW got \in [Calls -> 0..(Parts + 1)],
         NEW how \in Ways
  PROVE  LET a == [wire EXCEPT !.frames = wire.frames + 1] IN
         /\ Moved([[a EXCEPT !.text = text] EXCEPT !.got = got], text, got, "open")
         /\ Moved([a EXCEPT !.text = text], text, wire.got, "open")
         /\ Moved(a, wire.text, wire.got, "open")
         /\ Moved([wire EXCEPT !.end = how], wire.text, wire.got, how)
  <1> DEFINE frames == wire.frames + 1
             a == [wire EXCEPT !.frames = frames]
             b == [a EXCEPT !.text = text]
             c == [b EXCEPT !.got = got]
             e == [wire EXCEPT !.end = how]
             open == "open"
  <1>1. /\ WireOf(wire, wire.frames, wire.text, wire.got, open)
        /\ wire.frames \in Nat /\ frames \in Nat /\ wire.text \in Nat
        /\ wire.got \in [Calls -> 0..(Parts + 1)]
    BY WireHas, Zenon
  <1>2. open \in Ends /\ how \in Ends
    BY DEF Ends, Ways
  <1> HIDE DEF open, frames
  <1>3. WireOf(a, frames, wire.text, wire.got, open)
    BY <1>1, WireWith
  <1>4. WireOf(e, wire.frames, wire.text, wire.got, how)
    BY <1>1, WireWith
  <1> HIDE DEF a, e
  <1>5. WireOf(b, frames, text, wire.got, open)
    BY <1>3, WireWith, Zenon
  <1> HIDE DEF b
  <1>6. WireOf(c, frames, text, got, open)
    BY <1>5, WireWith, Zenon
  <1> HIDE DEF c
  <1>7. Moved(c, text, got, open)
    BY <1>1, <1>2, <1>6, WireFields, Zenon DEF Moved
  <1>8. Moved(b, text, wire.got, open)
    BY <1>1, <1>2, <1>5, WireFields, Zenon DEF Moved
  <1>9. Moved(a, wire.text, wire.got, open)
    BY <1>1, <1>2, <1>3, WireFields, Zenon DEF Moved
  <1>10. Moved(e, wire.text, wire.got, how)
    BY <1>1, <1>2, <1>4, WireFields, Zenon DEF Moved
  <1>11. QED
    BY <1>7, <1>8, <1>9, <1>10, Zenon DEF c, b, a, e, open, frames

LEMMA TextFrame ==
  ASSUME StreamInv, StreamsAssumption, NEW id \in {Missing, "a"}, SendText(id)
  PROVE  StreamInv'
  <1> DEFINE text == <<wire.text + 1>>
             f == [Frame EXCEPT !.id = id, !.text = text]
             w == [[wire EXCEPT !.frames = wire.frames + 1] EXCEPT !.text = wire.text + 1]
  <1>1. wire' = w /\ Send(f)
    BY Zenon DEF SendText
  <1>2. WireTyped(wire) /\ wire.end = "open" /\ Gathered
    BY <1>1 DEF StreamInv, StreamTypeOK, Send
  <1>3. wire.text \in Nat /\ wire.text + 1 \in Nat /\ wire.got \in [Calls -> 0..(Parts + 1)]
    BY <1>2, WireHas
  <1>4. Shaped(f) /\ f.kind = "data" /\ f.text = text /\ f.pieces = <<>> /\ f.finish = Missing /\ f.whole = FALSE
    <2>1. id \in Ids
      BY DEF Ids
    <2>2. TextOf(f, id, text)
      BY DEF TextOf
    <2> HIDE DEF text, f
    <2>3. Sent(f, "data", text, Missing)
      BY <2>1, <2>2, TextFrameIs, Zenon
    <2>4. QED
      BY <2>3, Zenon DEF Sent
  <1>5. "done" \in Ways
    BY DEF Ways
  <1>6. WireTyped(w) /\ w.text = wire.text + 1 /\ w.got = wire.got /\ w.end = "open"
    <2>1. Moved(w, wire.text + 1, wire.got, "open")
      BY <1>2, <1>3, <1>5, WireMoves, Zenon
    <2>2. QED
      BY <2>1 DEF Moved
  <1> HIDE DEF w, f
  <1>7. text \in Seq(Nat)
    BY <1>3
  <1>8. agg.text \o text = Count(wire.text + 1)
    BY <1>2, <1>3, Counted, Zenon DEF Gathered
  <1>9. f.finish \in Finishes
    BY <1>4 DEF Finishes
  <1> HIDE DEF text
  <1>10. QED
    BY <1>1, <1>2, <1>4, <1>6, <1>7, <1>8, <1>9, PlainFrame

LEMMA OtherFrames ==
  ASSUME StreamInv, StreamsAssumption, NEW kind, NEW finish \in Finishes, SendOther(kind, finish),
         kind # "data" => finish = Missing
  PROVE  StreamInv'
  <1> DEFINE f == [Frame EXCEPT !.kind = kind, !.finish = finish]
             w == [wire EXCEPT !.frames = wire.frames + 1]
  <1>1. wire' = w /\ Send(f)
    BY Zenon DEF SendOther
  <1>2. WireTyped(wire) /\ wire.end = "open" /\ Gathered /\ StreamTypeOK
    BY <1>1 DEF StreamInv, StreamTypeOK, Send
  <1>3. wire.text \in Nat /\ wire.got \in [Calls -> 0..(Parts + 1)]
    BY <1>2, WireHas
  <1>4. Shaped(f) /\ f.kind = kind /\ f.text = <<>> /\ f.pieces = <<>> /\ f.finish = finish /\ f.whole = FALSE
    <2>1. OtherOf(f, kind, finish)
      BY DEF OtherOf
    <2> HIDE DEF f
    <2>2. Sent(f, kind, <<>>, finish)
      BY <2>1, OtherFrameIs, Zenon
    <2>3. QED
      BY <2>2, Zenon DEF Sent
  <1>5. "done" \in Ways
    BY DEF Ways
  <1>6. WireTyped(w) /\ w.text = wire.text /\ w.got = wire.got /\ w.end = "open"
    <2>1. Moved(w, wire.text, wire.got, "open")
      BY <1>2, <1>3, <1>5, WireMoves, Zenon
    <2>2. QED
      BY <2>1 DEF Moved
  <1> HIDE DEF w, f
  <1>7. CASE kind = "data"
    <2>1. <<>> \in Seq(Nat)
      OBVIOUS
    <2>2. agg.text \o <<>> = Count(wire.text)
      <3>1. agg.text \in Seq(Nat)
        BY <1>2, Fields
      <3>2. agg.text = Count(wire.text)
        BY <1>2 DEF Gathered
      <3>3. QED
        BY <3>1, <3>2, NothingThere, Zenon
    <2>3. QED
      BY <1>1, <1>2, <1>4, <1>6, <1>7, <2>1, <2>2, PlainFrame
  <1>8. CASE kind # "data"
    BY <1>1, <1>2, <1>4, <1>6, <1>8, OtherFrame
  <1>9. QED
    BY <1>7, <1>8

\* A message of its own: the first text, or the first call as a whole.
LEMMA WholeFrame ==
  ASSUME StreamInv, StreamsAssumption, NEW withCall \in BOOLEAN, SendWhole(withCall)
  PROVE  StreamInv'
  <1> DEFINE text == <<1>>
             p == WholeCall(1)
             f == [Frame EXCEPT !.whole = TRUE, !.text = text, !.pieces = IF withCall THEN <<p>> ELSE <<>>]
             got == [c \in Calls |-> IF withCall /\ c = 1 THEN Parts + 1 ELSE 0]
             one == 1
             w == [[[wire EXCEPT !.frames = wire.frames + 1] EXCEPT !.text = one] EXCEPT !.got = got]
             g == Relayed(relay, f)
             n == Parts + 1
  <1>1. /\ (withCall => 1 \in Calls) /\ style = "whole" /\ wire.text = 0 /\ (\A c \in Calls : ~Begun(c))
        /\ wire' = w /\ Send(f)
    BY Zenon DEF SendWhole
  <1>2. /\ WireTyped(wire) /\ wire.end = "open" /\ Gathered /\ NumberedCalls /\ Mirrored /\ StreamTypeOK
        /\ MaxQuiet \in Nat
    BY <1>1 DEF StreamInv, StreamTypeOK, Send, StreamsAssumption
  <1>3. wire.got \in [Calls -> 0..(Parts + 1)] /\ one \in Nat
    BY <1>2, WireHas
  <1>4. got \in [Calls -> 0..(Parts + 1)]
    BY CallFacts
  <1>5. \A c \in Calls : wire.got[c] = 0
    BY <1>1, <1>3, CallFacts DEF Begun
  <1>6. "done" \in Ways
    BY DEF Ways
  <1> HIDE DEF got, f, one
  <1>7. WireTyped(w) /\ w.text = one /\ w.got = got /\ w.end = "open"
    <2>1. Moved(w, one, got, "open")
      BY <1>2, <1>3, <1>4, <1>6, WireMoves, Zenon
    <2>2. QED
      BY <2>1 DEF Moved
  <1> HIDE DEF w
  <1> USE DEF one
  <1>8. /\ Shaped(f) /\ f.kind = "data" /\ f.text = text /\ f.finish = Missing /\ f.whole = TRUE
        /\ f.pieces = IF withCall THEN <<p>> ELSE <<>>
    <2> DEFINE ps == IF withCall THEN <<p>> ELSE <<>>
               yes == [Frame EXCEPT !.whole = TRUE, !.text = text, !.pieces = ps]
    <2>1. "a" \in Ids
      BY DEF Ids
    <2>2. f = yes
      BY DEF f
    <2> HIDE DEF text, ps
    <2>3. /\ Shaped(yes) /\ yes.kind = "data" /\ yes.text = text /\ yes.pieces = ps
          /\ yes.finish = Missing /\ yes.whole = TRUE
      BY <2>1, WholeFrameIs, Zenon
    <2> HIDE DEF yes
    <2>4. QED
      BY <2>2, <2>3, Zenon DEF ps
  <1>9. agg.text = <<>>
    BY <1>1, <1>2, Counted DEF Gathered
  <1>10. text \in Seq(Nat) /\ <<>> \o text = text /\ text = Count(1)
    BY DEF Count
  <1> HIDE DEF text
  <1>11. CASE ~withCall
    <2>1. got = wire.got
      BY <1>3, <1>5, <1>11 DEF got
    <2>2. f.finish \in Finishes /\ f.pieces = <<>>
      BY <1>8, <1>11, Zenon DEF Finishes
    <2>3. agg.text \o f.text = Count(wire'.text)
      BY <1>1, <1>7, <1>8, <1>9, <1>10, Zenon
    <2>4. QED
      BY <1>1, <1>2, <1>7, <1>8, <1>9, <1>10, <2>1, <2>2, <2>3, PlainFrame
  <1>12. CASE withCall
    <2>1. 1 \in Calls /\ f.pieces = <<p>> /\ 1 - 1 = 0
      BY <1>1, <1>8, <1>12
    <2>2. got[1] = n /\ \A d \in Calls : d # 1 => got[d] = wire.got[d]
      BY <1>5, <1>12, <2>1 DEF got
    <2>3. /\ agg' = Aggregated(agg, f) /\ relay' = Relays(relay, f) /\ client' = Took(client, g)
          /\ quiet' = 0 /\ style' = style /\ response' = response
      BY <1>1, Zenon DEF Send
    <2>4. /\ agg.id \in {Missing, "a"} /\ agg.text \in Seq(Nat) /\ TableTyped(agg.calls) /\ agg.order \in Seq(Int)
          /\ agg.seq \in Int /\ agg.ids \in [Calls -> Int] /\ agg.finish \in Finishes /\ agg.valid \in Nat
          /\ relay.seen \in SUBSET Int /\ relay.valid \in Nat /\ relay.dones \in Nat
          /\ client.text \in Seq(Nat) /\ TableTyped(client.calls) /\ client.names \in [Calls -> Nat]
          /\ client.finish \in Finishes /\ client.errors \in Nat
      BY <1>2, Fields, Zenon
    <2>5. PICK b : Aggregated(agg, f) = MergePieces(b, f.pieces) /\ Extended(b, agg, f.text, f.finish)
      <3>1. f.kind \in {"data", "error"} /\ (f.whole => agg.text = <<>>)
        BY <1>8, <1>9
      <3>2. QED
        BY <1>2, <1>8, <3>1, AggregatedData, Zenon
    <2>6. agg' = MergePiece(b, p)
      BY <2>1, <2>3, <2>5, MergeOne, Zenon
    <2>7. Same(agg, b) /\ b.text = Count(1) /\ b.finish = agg.finish /\ b.valid = agg.valid + 1 /\ b.id \in {Missing, "a"}
      BY <1>8, <1>9, <1>10, <2>5, Zenon DEF Extended, Same
    <2>8. p.index = 0 /\ p.id = 1 /\ p.name = 1 /\ p.args = PartsOf(1, Parts)
      BY DEF WholeCall, PartsOf
    <2>9. Slot(b, p) = 0
      BY <2>8 DEF Slot
    <2>10. Merged(At(agg.calls, 0), p) = Has(1, n)
      <3>1. At(agg.calls, 1 - 1) = (IF Begun(1) THEN Call(1) ELSE NoCall)
        <4>1. Len(agg.order) \in Nat
          BY <2>4
        <4>2. QED
          BY <1>2, <2>1, <4>1, AtOf
      <3>2. At(agg.calls, 0) = NoCall
        BY <1>1, <2>1, <3>1
      <3>3. <<>> \o PartsOf(1, Parts) = PartsOf(1, Parts) /\ n - 1 = Parts
        BY CallFacts DEF PartsOf
      <3>4. NoCall.args \o p.args = PartsOf(1, n - 1)
        BY <2>8, <3>3 DEF NoCall
      <3>5. 1 # None
        BY DEF None
      <3>6. QED
        BY <2>8, <3>2, <3>4, <3>5, Zenon DEF Merged, Has
    <2>11. /\ Gathered' /\ NumberedCalls'
           /\ agg'.calls = Put(agg.calls, 0, Has(1, n)) /\ DOMAIN agg'.calls = DOMAIN agg.calls \cup {0}
           /\ agg'.text = b.text /\ agg'.finish = b.finish /\ agg'.valid = b.valid /\ agg'.id = b.id
           /\ agg'.order \in Seq(Int) /\ agg'.seq \in Int /\ agg'.ids \in [Calls -> Int]
           /\ agg'.calls \in [DOMAIN agg'.calls -> ToolCalls] /\ DOMAIN agg'.calls \subseteq Int
           /\ agg' = [id |-> agg'.id, text |-> agg'.text, calls |-> agg'.calls, order |-> agg'.order,
                      seq |-> agg'.seq, ids |-> agg'.ids, finish |-> agg'.finish, valid |-> agg'.valid]
      <3> DEFINE c == 1
      <3>1. c \in Calls /\ c - 1 = 0
        BY <2>1
      <3>2. n \in 1..(Parts + 1) /\ c <= Len(agg.order) + 1
        BY <2>4, CallFacts
      <3>3. style \notin {"id", "first"} /\ style # "first"
        BY <1>1
      <3>4. p.id \in {c, None} /\ (c > Len(agg.order) => p.id = c)
        BY <2>8
      <3>5. wire'.got[c] = n /\ (\A d \in Calls : d # c => wire'.got[d] = wire.got[d]) /\ b.text = Count(wire'.text)
        BY <1>1, <1>7, <2>2, <2>7, Zenon
      <3> HIDE DEF c, n, p
      <3>6. QED
        BY <1>2, <2>3, <2>6, <2>7, <2>9, <2>10, <3>1, <3>2, <3>3, <3>4, <3>5, Gathers
    <2>12. AggregateTyped(agg')
      <3> DEFINE a == agg'
      <3>1. b.text \in Texts /\ agg.valid + 1 \in Nat
        BY <1>10, <2>4, <2>7, Grows, Zenon DEF Texts
      <3>2. TableTyped(agg'.calls)
        BY <2>11 DEF TableTyped
      <3>3. FieldsTyped(a)
        BY <2>4, <2>7, <2>11, <3>1, <3>2, Zenon DEF FieldsTyped
      <3> HIDE DEF a
      <3>4. AggregateTyped(a)
        BY <3>3, AggregateIs
      <3>5. QED
        BY <3>4 DEF a
    <2>13. relay'.seen = relay.seen /\ relay'.dones = relay.dones /\ RelayTyped(relay')
      <3> DEFINE s == relay'
      <3>1. Remembers(s, relay, f)
        BY <1>2, <1>8, <2>3, RelaysData, Zenon
      <3>2. s.seen = relay.seen /\ s.dones = relay.dones
        BY <1>8, <3>1, Zenon DEF Remembers
      <3>3. relay.valid + 1 \in Nat
        BY <2>4, Grows, Zenon
      <3> HIDE DEF s
      <3>4. RelayTyped(s)
        BY <2>4, <3>1, <3>2, <3>3, RelayIs, Zenon DEF Remembers
      <3>5. QED
        BY <3>2, <3>4 DEF s
    <2>14. g.kind = "data" /\ g.finish = Missing /\ g.text = <<>> /\ g.pieces = <<>>
      <3>1. RelayOf(g, relay, f)
        BY <1>8, RelayedData, Zenon
      <3>2. QED
        BY <1>8, <3>1, Zenon DEF RelayOf
    <2> HIDE DEF g
    <2>15. ClientTyped(client')
      <3>1. Adds(client', client, g)
        BY <1>2, <2>3, <2>14, TookData, Zenon
      <3>2. TookPieces(client.calls, <<>>) = client.calls
        BY TookNone
      <3>3. client.text \o <<>> = client.text
        BY <2>4, NothingThere
      <3>4. client'.names \in [Calls -> Nat]
        <4>1. client'.names = [x \in Calls |-> client.names[x] + Cardinality({k \in DOMAIN <<>> : <<>>[k].name = x})]
          BY <2>14, <3>1, ZenonT(60) DEF Adds
        <4>2. client'.names = [x \in Calls |-> client.names[x] + 0]
          BY <4>1, NothingThere
        <4>3. QED
          BY <2>4, <4>2
      <3>5. client.text \in Texts
        BY <2>4, Zenon DEF Texts
      <3>6. QED
        BY <2>4, <2>14, <3>1, <3>2, <3>3, <3>4, <3>5, ClientIs, Zenon DEF Adds
    <2>16. Mirrored'
      BY <1>1, <2>3 DEF Mirrored
    <2>17. QED
      BY <1>1, <1>2, <1>7, <2>3, <2>11, <2>12, <2>13, <2>15, <2>16, GoesOn
  <1>13. QED
    BY <1>11, <1>12

-----------------------------------------------------------------------------
\* The end of the stream

\* The elements of a finite set of numbers, each once, in their order.
LEMMA AscendingIs ==
  ASSUME NEW S \in SUBSET Int, IsFiniteSet(S)
  PROVE  /\ Cardinality(S) \in Nat /\ DOMAIN Ascending(S) = 1..Cardinality(S)
         /\ \A k \in 1..Cardinality(S) : Ascending(S)[k] \in S
         /\ \A j, k \in 1..Cardinality(S) : j < k => Ascending(S)[j] < Ascending(S)[k]
         /\ \A i \in S : \E k \in 1..Cardinality(S) : Ascending(S)[k] = i
  <1> DEFINE n == Cardinality(S)
             Below(i) == {j \in S : j < i}
             rank == [i \in S |-> Cardinality(Below(i))]
             T == 0..(n - 1)
             q == Ascending(S)
  <1>1. n \in Nat
    BY FS_CardinalityType
  <1>2. ASSUME NEW i \in S
        PROVE  IsFiniteSet(Below(i)) /\ Cardinality(Below(i)) \in Nat /\ Cardinality(Below(i)) < n
    <2>1. Below(i) \in SUBSET S /\ i \notin Below(i) /\ i \in S
      OBVIOUS
    <2>2. IsFiniteSet(Below(i)) /\ Cardinality(Below(i)) <= n /\ (n = Cardinality(Below(i)) => S = Below(i))
      BY <2>1, FS_Subset
    <2>3. Cardinality(Below(i)) \in Nat
      BY <2>2, FS_CardinalityType
    <2>4. QED
      BY <1>1, <2>1, <2>2, <2>3
  <1>3. ASSUME NEW i \in S, NEW j \in S, i < j
        PROVE  Cardinality(Below(i)) < Cardinality(Below(j))
    <2>1. Below(i) \cup {i} \in SUBSET Below(j) /\ i \notin Below(i)
      <3>1. i \in Int /\ j \in Int /\ \A x \in S : x \in Int
        OBVIOUS
      <3>2. \A x \in Below(i) : x \in S /\ x < i /\ x # i /\ x < j
        BY <1>3, <3>1
      <3>3. \A x \in Below(i) \cup {i} : x \in Below(j)
        BY <1>3, <3>2
      <3>4. QED
        BY <3>2, <3>3
    <2>2. IsFiniteSet(Below(i)) /\ IsFiniteSet(Below(j)) /\ Cardinality(Below(i)) \in Nat /\ Cardinality(Below(j)) \in Nat
      BY <1>2
    <2>3. Cardinality(Below(i) \cup {i}) = Cardinality(Below(i)) + 1
      BY <2>1, <2>2, FS_AddElement
    <2>4. Cardinality(Below(i) \cup {i}) <= Cardinality(Below(j))
      BY <2>1, <2>2, FS_Subset
    <2>5. QED
      BY <2>2, <2>3, <2>4
  <1>4. \A i \in S : rank[i] = Cardinality(Below(i))
    OBVIOUS
  <1>5. rank \in [S -> T]
    BY <1>1, <1>2
  <1>7. \A k \in 1..n : q[k] = CHOOSE i \in S : Cardinality(Below(i)) = k - 1
    BY DEF Ascending
  <1>8. DOMAIN q = 1..n
    BY DEF Ascending
  <1> HIDE DEF rank, q
  <1>9. \A i, j \in S : rank[i] = rank[j] => i = j
    <2> SUFFICES ASSUME NEW i \in S, NEW j \in S, rank[i] = rank[j] PROVE i = j
      OBVIOUS
    <2>1. Cardinality(Below(i)) = Cardinality(Below(j)) /\ Cardinality(Below(i)) \in Nat
      BY <1>2, <1>4
    <2>2. ~(i < j) /\ ~(j < i)
      <3> HIDE DEF Below
      <3>1. i < j => Cardinality(Below(i)) < Cardinality(Below(j))
        BY <1>3
      <3>2. j < i => Cardinality(Below(j)) < Cardinality(Below(i))
        BY <1>3
      <3>3. QED
        BY <2>1, <3>1, <3>2
    <2>3. QED
      BY <2>2
  <1>10. rank \in Surjection(S, T)
    <2>1. rank \in Injection(S, T)
      BY <1>5, <1>9, Zenon DEF Injection, IsInjective
    <2>2. IsFiniteSet(T) /\ Cardinality(T) = n
      BY <1>1, FS_Interval, SMTT(40)
    <2>3. QED
      BY <2>1, <2>2, FS_Injection
  <1>11. \A t \in T : \E i \in S : rank[i] = t
    BY <1>10, Zenon DEF Surjection
  <1>12. ASSUME NEW k \in 1..n PROVE q[k] \in S /\ rank[q[k]] = k - 1
    <2>1. k - 1 \in T
      BY <1>1
    <2>2. \E i \in S : Cardinality(Below(i)) = k - 1
      BY <1>4, <1>11, <2>1
    <2>3. q[k] \in S /\ Cardinality(Below(q[k])) = k - 1
      <3> HIDE DEF Below
      <3>1. QED
        BY <1>7, <2>2, Zenon
    <2>4. QED
      BY <1>4, <2>3
  <1>13. ASSUME NEW j \in 1..n, NEW k \in 1..n, j < k PROVE q[j] < q[k]
    <2>1. q[j] \in S /\ q[k] \in S /\ rank[q[j]] = j - 1 /\ rank[q[k]] = k - 1
      BY <1>12
    <2>2. q[j] # q[k]
      BY <1>13, <2>1
    <2>3. ~(q[k] < q[j])
      <3> SUFFICES ASSUME q[k] < q[j] PROVE FALSE
        OBVIOUS
      <3> HIDE DEF Below
      <3>1. Cardinality(Below(q[k])) < Cardinality(Below(q[j]))
        BY <1>3, <2>1
      <3>2. k - 1 < j - 1
        BY <1>4, <2>1, <3>1
      <3>3. QED
        BY <1>13, <3>2
    <2>4. q[j] \in Int /\ q[k] \in Int
      BY <2>1
    <2>5. QED
      BY <2>2, <2>3, <2>4
  <1>14. ASSUME NEW i \in S PROVE \E k \in 1..n : q[k] = i
    <2> DEFINE k == rank[i] + 1
    <2>1. rank[i] \in T
      BY <1>5
    <2>2. k \in 1..n /\ k - 1 = rank[i]
      BY <1>1, <2>1
    <2>3. q[k] \in S /\ rank[q[k]] = rank[i]
      BY <1>12, <2>2
    <2>4. q[k] = i
      BY <1>9, <2>3
    <2>5. QED
      BY <2>2, <2>4
  <1>15. QED
    BY <1>1, <1>8, <1>12, <1>13, <1>14, Zenon DEF q

\* An answer that is none.
LEMMA NoAnswer ==
  ASSUME NEW status \in {"none", "ok", "empty", "error"}, NEW r, r = [NoResponse EXCEPT !.status = status]
  PROVE  ResponseTyped(r) /\ r.status = status
  <1> DEFINE none == <<>>
             missing == Missing
  <1>1. none \in Texts /\ none \in Seq(ToolCalls) /\ missing \in Finishes
    BY DEF Texts, Finishes
  <1>2. NoResponse = [status |-> "none", text |-> none, calls |-> none, finish |-> missing]
    BY Zenon DEF NoResponse
  <1> HIDE DEF none, missing
  <1>3. r = [status |-> status, text |-> none, calls |-> none, finish |-> missing]
    BY <1>2
  <1>4. r.status = status /\ r.text = none /\ r.calls = none /\ r.finish = missing
    BY <1>3
  <1>5. r = [status |-> r.status, text |-> r.text, calls |-> r.calls, finish |-> r.finish]
    BY <1>3, <1>4, Zenon
  <1>6. r.status \in {"none", "ok", "empty", "error"} /\ r.text \in Texts /\ r.calls \in Seq(ToolCalls) /\ r.finish \in Finishes
    BY <1>1, <1>4
  <1>7. QED
    BY <1>4, <1>5, <1>6 DEF ResponseTyped

\* The indexes whose calls are answered: where the stream was cut, those of whole calls.
Kept(a, how) == {i \in DOMAIN a.calls : (a.finish = "length" \/ how # "done") => Whole(a.calls[i].args)}

\* What is answered.
AnswerOf(r, a, how) ==
  /\ r.text = a.text /\ r.finish = a.finish
  /\ r.calls = [k \in 1..Cardinality(Kept(a, how)) |-> a.calls[Ascending(Kept(a, how))[k]]]
  /\ r = [status |-> "ok", text |-> r.text, calls |-> r.calls, finish |-> r.finish]

LEMMA AnsweredIs ==
  ASSUME StreamTypeOK, IsFiniteSet(DOMAIN agg.calls), NEW how
  PROVE  /\ ResponseTyped(Answered(agg, how))
         /\ Answered(agg, how).status = "ok" => how # "broken" /\ AnswerOf(Answered(agg, how), agg, how)
  <1> DEFINE r == Answered(agg, how)
             kept == Kept(agg, how)
             calls == [k \in 1..Cardinality(kept) |-> agg.calls[Ascending(kept)[k]]]
             full == [status |-> "ok", text |-> agg.text, finish |-> agg.finish, calls |-> calls]
  <1>1. /\ agg.text \in Texts /\ TableTyped(agg.calls) /\ agg.finish \in Finishes
    BY Fields DEF Texts
  <1>2. CASE how = "broken"
    <2>1. r = [NoResponse EXCEPT !.status = "error"]
      BY <1>2, Zenon DEF Answered
    <2> HIDE DEF r
    <2>2. ResponseTyped(r) /\ r.status = "error"
      BY <2>1, NoAnswer
    <2>3. QED
      BY <2>2 DEF r
  <1>3. CASE how # "broken" /\ agg.valid = 0
    <2>1. r = [NoResponse EXCEPT !.status = "empty"]
      BY <1>3, Zenon DEF Answered
    <2> HIDE DEF r
    <2>2. ResponseTyped(r) /\ r.status = "empty"
      BY <2>1, NoAnswer
    <2>3. QED
      BY <2>2 DEF r
  <1>4. CASE how # "broken" /\ agg.valid # 0
    <2>1. r = full
      BY <1>4, Zenon DEF Answered, Kept
    <2>2. kept \in SUBSET DOMAIN agg.calls /\ DOMAIN agg.calls \in SUBSET Int
      BY <1>1 DEF Kept, TableTyped
    <2>3. IsFiniteSet(kept) /\ kept \in SUBSET Int
      BY <2>2, FS_Subset
    <2> HIDE DEF r, kept
    <2>4. Cardinality(kept) \in Nat /\ \A k \in 1..Cardinality(kept) : Ascending(kept)[k] \in kept
      BY <2>3, AscendingIs
    <2>5. calls \in Seq(ToolCalls)
      <3>1. \A i \in DOMAIN agg.calls : agg.calls[i] \in ToolCalls
        BY <1>1 DEF TableTyped
      <3>2. \A k \in 1..Cardinality(kept) : agg.calls[Ascending(kept)[k]] \in ToolCalls
        BY <2>2, <2>4, <3>1
      <3>3. QED
        BY <2>4, <3>2
    <2>6. calls = [k \in 1..Cardinality(kept) |-> agg.calls[Ascending(kept)[k]]]
      OBVIOUS
    <2> HIDE DEF calls
    <2>7. r.status = "ok" /\ r.text = agg.text /\ r.finish = agg.finish /\ r.calls = calls
      BY <2>1
    <2>8. ResponseTyped(r) /\ r = [status |-> "ok", text |-> r.text, calls |-> r.calls, finish |-> r.finish]
      BY <1>1, <2>1, <2>5, <2>7 DEF ResponseTyped
    <2>9. AnswerOf(r, agg, how)
      BY <2>6, <2>7, <2>8, Zenon DEF AnswerOf, kept
    <2>10. QED
      BY <1>4, <2>8, <2>9 DEF r
  <1>5. QED
    BY <1>2, <1>3, <1>4

\* What is kept are the calls that are ready.
LEMMA KeptAre ==
  ASSUME StreamTypeOK, Gathered, NEW how,
         how = "done" => agg.finish = "length" \/ \A c \in Calls : ~Begun(c) \/ Complete(c)
  PROVE  /\ \A c \in Calls : c - 1 \in Kept(agg, how) <=> c \in Ready
         /\ \A i \in Kept(agg, how) : i + 1 \in Ready /\ agg.calls[i] = Call(i + 1)
  <1> DEFINE m == Len(agg.order)
             cut == agg.finish = "length" \/ how # "done"
  <1>1. m \in Nat /\ WireTyped(wire)
    <2>1. agg.order \in Seq(Int)
      BY Fields
    <2>2. QED
      BY <2>1 DEF StreamTypeOK
  <1>2. /\ \A d \in Calls : Begun(d) <=> d <= m
        /\ \A d \in 1..m : d \in Calls
        /\ DOMAIN agg.calls = 0..(m - 1)
        /\ \A d \in 1..m : agg.calls[d - 1] = Call(d)
    BY DEF Gathered
  <1> HIDE DEF m
  <1>3. ASSUME NEW c \in 1..m
        PROVE  /\ c \in Calls /\ c \in Started /\ agg.calls[c - 1] = Call(c) /\ c - 1 \in DOMAIN agg.calls
               /\ wire.got[c] \in 1..(Parts + 1) /\ Parts \in Nat
               /\ Whole(agg.calls[c - 1].args) <=> wire.got[c] \in {1, Parts + 1}
    <2>1. c \in Calls /\ agg.calls[c - 1] = Call(c) /\ c - 1 \in DOMAIN agg.calls
      BY <1>1, <1>2
    <2>2. Begun(c)
      BY <1>1, <1>2, <2>1
    <2>3. wire.got[c] \in 1..(Parts + 1) /\ Parts \in Nat
      <3>1. wire.got[c] \in 0..(Parts + 1)
        BY <1>1, <2>1 DEF WireTyped
      <3>2. QED
        BY <2>2, <3>1, CallFacts DEF Begun
    <2>4. Len(PartsOf(c, wire.got[c] - 1)) = wire.got[c] - 1
      BY <2>3 DEF PartsOf
    <2>5. agg.calls[c - 1].args = PartsOf(c, wire.got[c] - 1)
      BY <2>1 DEF Call
    <2>6. Whole(agg.calls[c - 1].args) <=> wire.got[c] - 1 \in {0, Parts}
      BY <2>4, <2>5, Zenon DEF Whole
    <2>7. QED
      BY <2>1, <2>2, <2>3, <2>6 DEF Started
  <1>4. ASSUME NEW c \in 1..m PROVE c - 1 \in Kept(agg, how) <=> c \in Ready
    <2>1. /\ c \in Calls /\ c \in Started /\ c - 1 \in DOMAIN agg.calls
          /\ Whole(agg.calls[c - 1].args) <=> wire.got[c] \in {1, Parts + 1}
      BY <1>3
    <2>2. c - 1 \in Kept(agg, how) <=> (cut => wire.got[c] \in {1, Parts + 1})
      BY <2>1, Zenon DEF Kept
    <2>3. ~cut => wire.got[c] = Parts + 1
      BY <2>1 DEF Started, Complete
    <2>4. c \in Ready <=> wire.got[c] \in {1, Parts + 1}
      BY <2>1 DEF Ready
    <2>5. QED
      BY <2>2, <2>3, <2>4
  <1>5. ASSUME NEW c \in Calls, c \notin 1..m PROVE c - 1 \notin Kept(agg, how) /\ c \notin Ready
    <2>1. c \in Nat /\ c > 0 /\ ~(c <= m)
      BY <1>1, <1>5, CallFacts
    <2>2. c - 1 \notin DOMAIN agg.calls
      BY <1>1, <1>2, <2>1
    <2>3. c \notin Started
      BY <1>2, <2>1 DEF Started
    <2>4. QED
      BY <2>2, <2>3 DEF Kept, Ready
  <1>6. ASSUME NEW i \in Kept(agg, how) PROVE i + 1 \in Ready /\ agg.calls[i] = Call(i + 1)
    <2>1. i \in 0..(m - 1)
      BY <1>2 DEF Kept
    <2>2. i + 1 \in 1..m /\ (i + 1) - 1 = i
      BY <1>1, <2>1
    <2>3. QED
      BY <1>3, <1>4, <2>2
  <1>7. QED
    BY <1>4, <1>5, <1>6

LEMMA EndOfStream ==
  ASSUME StreamInv, NEW how \in {"done", "eof", "broken"}, End(how)
  PROVE  StreamInv'
  <1> DEFINE errors == IF EmptyRelay(relay, how) THEN client.errors + 1 ELSE client.errors
             c == [client EXCEPT !.errors = errors]
             dones == IF how = "broken" THEN relay.dones ELSE relay.dones + 1
             s == [relay EXCEPT !.dones = dones]
             w == [wire EXCEPT !.end = how]
             kept == Kept(agg, how)
             n == Cardinality(kept)
  <1>1. /\ wire.end = "open" /\ (how = "done" => agg.finish = "length" \/ \A d \in Calls : ~Begun(d) \/ Complete(d))
        /\ wire' = w /\ response' = Answered(agg, how) /\ agg' = agg /\ style' = style /\ quiet' = quiet
    BY Zenon DEF End
  <1>2. relay' = s
    BY Zenon DEF End, EndRelay
  <1>3. client' = c
    BY Zenon DEF End
  <1>4. StreamTypeOK /\ Gathered /\ NumberedCalls /\ Mirrored /\ Concluded /\ WireTyped(wire)
    BY DEF StreamInv, StreamTypeOK
  <1>5. /\ agg.id \in {Missing, "a"} /\ agg.text \in Seq(Nat) /\ TableTyped(agg.calls) /\ agg.order \in Seq(Int)
        /\ agg.seq \in Int /\ agg.ids \in [Calls -> Int] /\ agg.finish \in Finishes /\ agg.valid \in Nat
        /\ relay.seen \in SUBSET Int /\ relay.valid \in Nat /\ relay.dones \in Nat
        /\ client.text \in Seq(Nat) /\ TableTyped(client.calls) /\ client.names \in [Calls -> Nat]
        /\ client.finish \in Finishes /\ client.errors \in Nat
    BY <1>4, Fields, Zenon
  <1>6. WireTyped(w) /\ w.text = wire.text /\ w.got = wire.got /\ w.end = how
    <2>1. wire.text \in Nat /\ wire.got \in [Calls -> 0..(Parts + 1)]
      BY <1>4, WireHas
    <2>2. how \in Ways
      BY DEF Ways
    <2>3. Moved(w, wire.text, wire.got, how)
      BY <1>1, <1>4, <2>1, <2>2, WireMoves, Zenon
    <2>4. QED
      BY <2>3 DEF Moved
  <1> HIDE DEF w
  <1>7. errors \in Nat /\ dones \in Nat /\ (how # "broken" => dones = relay.dones + 1)
    BY <1>5
  <1> HIDE DEF errors, dones
  <1>8. s.seen = relay.seen /\ s.dones = dones /\ RelayTyped(s)
    <2>1. /\ relay = [seen |-> relay.seen, firstID |-> relay.firstID, valid |-> relay.valid, dones |-> relay.dones]
          /\ relay.firstID \in {Missing, "a"}
      BY <1>4 DEF StreamTypeOK, RelayTyped
    <2>2. s = [seen |-> relay.seen, firstID |-> relay.firstID, valid |-> relay.valid, dones |-> dones]
      BY <2>1
    <2> HIDE DEF s
    <2>3. QED
      BY <1>5, <1>7, <2>1, <2>2 DEF RelayTyped
  <1>9. /\ c.text = client.text /\ c.calls = client.calls /\ c.names = client.names /\ c.finish = client.finish
        /\ ClientTyped(c)
    <2>1. client = [text |-> client.text, calls |-> client.calls, names |-> client.names,
                    finish |-> client.finish, errors |-> client.errors]
      BY <1>4 DEF StreamTypeOK, ClientTyped
    <2>2. c = [text |-> client.text, calls |-> client.calls, names |-> client.names,
               finish |-> client.finish, errors |-> errors]
      BY <2>1
    <2> HIDE DEF c
    <2>3. /\ c.text = client.text /\ c.calls = client.calls /\ c.names = client.names /\ c.finish = client.finish
          /\ c.errors = errors
          /\ c = [text |-> c.text, calls |-> c.calls, names |-> c.names, finish |-> c.finish, errors |-> c.errors]
      BY <2>2
    <2>4. client.text \in Texts
      BY <1>5 DEF Texts
    <2>5. ClientTyped(c)
      BY <1>5, <1>7, <2>3, <2>4, ClientIs, Zenon
    <2>6. QED
      BY <2>3, <2>5
  <1> HIDE DEF c, s
  <1>10. DOMAIN agg.calls = 0..(Len(agg.order) - 1) /\ IsFiniteSet(DOMAIN agg.calls)
    <2>1. DOMAIN agg.calls = 0..(Len(agg.order) - 1) /\ Len(agg.order) - 1 \in Int
      BY <1>4, <1>5 DEF Gathered
    <2>2. QED
      BY <2>1, FS_Interval
  <1>11. /\ ResponseTyped(response')
         /\ response'.status = "ok" => how # "broken" /\ AnswerOf(response', agg, how)
    BY <1>1, <1>4, <1>10, AnsweredIs
  <1>12. /\ \A d \in Calls : d - 1 \in kept <=> d \in Ready
         /\ \A i \in kept : i + 1 \in Ready /\ agg.calls[i] = Call(i + 1)
    BY <1>1, <1>4, KeptAre, Zenon
  <1>13. kept \in SUBSET Int /\ IsFiniteSet(kept)
    <2>1. kept \in SUBSET DOMAIN agg.calls /\ DOMAIN agg.calls \in SUBSET Int
      BY <1>10 DEF Kept
    <2>2. QED
      BY <1>10, <2>1, FS_Subset
  <1> HIDE DEF kept
  <1>14. /\ n \in Nat
         /\ \A k \in 1..n : Ascending(kept)[k] \in kept
         /\ \A j, k \in 1..n : j < k => Ascending(kept)[j] < Ascending(kept)[k]
         /\ \A i \in kept : \E k \in 1..n : Ascending(kept)[k] = i
    BY <1>13, AscendingIs
  <1>15. Ready' = Ready /\ \A d : Call(d)' = Call(d)
    BY <1>1, <1>6, Zenon DEF Ready, Started, Begun, Call, PartsOf
  <1>16. ASSUME response'.status = "ok"
         PROVE  /\ ToSet(response'.calls) = {Call(d) : d \in Ready}
                /\ \A j, k \in DOMAIN response'.calls : j < k => response'.calls[j].id < response'.calls[k].id
                /\ response'.text = [k \in 1..wire'.text |-> k]
    <2>1. /\ response'.text = agg.text
          /\ response'.calls = [k \in 1..n |-> agg.calls[Ascending(kept)[k]]]
      BY <1>11, <1>16, Zenon DEF AnswerOf, kept
    <2>2. response'.text = [k \in 1..wire'.text |-> k]
      BY <1>1, <1>4, <1>6, <2>1, Zenon DEF Gathered, Count
    <2> DEFINE q == Ascending(kept)
               calls == response'.calls
    <2>3. DOMAIN calls = 1..n /\ \A k \in 1..n : calls[k] = Call(q[k] + 1) /\ q[k] + 1 \in Ready
      BY <1>12, <1>14, <2>1
    <2>4. \A d \in Ready : d \in Calls /\ d \in Nat /\ d - 1 \in kept /\ (d - 1) + 1 = d
      <3>1. \A d \in Ready : d \in Calls
        BY DEF Ready, Started
      <3>2. QED
        BY <1>12, <3>1, CallFacts
    <2>5. \A j, k \in DOMAIN calls : j < k => calls[j].id < calls[k].id
      <3>1. \A k \in 1..n : calls[k].id = q[k] + 1
        <4>1. \A x : Call(x).id = x
          BY DEF Call
        <4> HIDE DEF calls, q
        <4>2. QED
          BY <2>3, <4>1, Zenon
      <3>2. \A k \in 1..n : q[k] \in Int
        BY <1>13, <1>14
      <3> HIDE DEF calls, q
      <3>3. QED
        BY <1>14, <2>3, <3>1, <3>2, SMTT(40) DEF q
    <2>6. ToSet(calls) = {Call(d) : d \in Ready}
      <3>1. ToSet(calls) = {calls[k] : k \in 1..n}
        BY <2>3, Zenon DEF ToSet
      <3>2. \A d \in Ready : \E k \in 1..n : calls[k] = Call(d)
        <4> TAKE d \in Ready
        <4>1. PICK k \in 1..n : q[k] = d - 1
          BY <1>14, <2>4
        <4>2. QED
          BY <2>3, <2>4, <4>1
      <3> HIDE DEF calls, q
      <3>3. QED
        BY <2>3, <3>1, <3>2
    <2>7. QED
      BY <2>2, <2>5, <2>6
  <1>17. NoHalfCalls'
    BY <1>15, <1>16, Zenon DEF NoHalfCalls
  <1>18. Concluded'
    <2>1. wire'.end # "open"
      BY <1>1, <1>6
    <2>2. relay.dones = 0
      BY <1>1, <1>4 DEF Concluded
    <2>3. ASSUME response'.status = "ok"
          PROVE  response'.text = agg.text /\ response'.finish = agg.finish /\ relay'.dones = 1
      <3>1. how # "broken" /\ response'.text = agg.text /\ response'.finish = agg.finish
        BY <1>11, <2>3, Zenon DEF AnswerOf
      <3>2. relay'.dones = 0 + 1
        BY <1>2, <1>7, <1>8, <2>2, <3>1
      <3>3. QED
        BY <3>1, <3>2
    <2>4. QED
      BY <1>1, <2>1, <2>3 DEF Concluded
  <1>19. StreamTypeOK'
    BY <1>1, <1>2, <1>3, <1>4, <1>6, <1>8, <1>9, <1>11 DEF StreamTypeOK
  <1>20. Gathered'
    BY <1>1, <1>4, <1>6, Zenon DEF Gathered, Begun, Call, PartsOf
  <1>21. NumberedCalls'
    BY <1>1, <1>4, <1>6, Zenon DEF NumberedCalls, Complete
  <1>22. Mirrored'
    BY <1>1, <1>2, <1>3, <1>4, <1>6, <1>8, <1>9, Zenon DEF Mirrored, Begun
  <1>23. QED
    BY <1>17, <1>18, <1>19, <1>20, <1>21, <1>22 DEF StreamInv

-----------------------------------------------------------------------------
\* The stream as a whole

\* A stream starts empty.
LEMMA StreamStarts ==
  ASSUME StreamInit, StreamsAssumption
  PROVE  StreamInv
  <1> DEFINE none == <<>>
             calls == Empty
             missing == Missing
  <1>1. /\ none \in Seq(Int) /\ none \in Texts /\ none \in Seq(ToolCalls) /\ Len(none) = 0 /\ none = Count(0)
        /\ missing \in Finishes /\ missing \in {Missing, "a"} /\ "stop" \in Finishes
    BY Counted DEF Texts, Finishes
  <1>2. TableTyped(calls) /\ DOMAIN calls = {}
    BY DEF TableTyped, Empty
  <1>3. style \in Styles /\ quiet = 0
    BY DEF StreamInit
  <1>4. wire = [frames |-> 0, text |-> 0, got |-> [c \in Calls |-> 0], end |-> "open"]
    BY DEF StreamInit
  <1>5. agg = [id |-> missing, text |-> none, calls |-> calls, order |-> none, seq |-> 0,
               ids |-> [c \in Calls |-> -1], finish |-> "stop", valid |-> 0]
    BY Zenon DEF StreamInit, FreshAggregate
  <1>6. relay = [seen |-> {}, firstID |-> missing, valid |-> 0, dones |-> 0]
    BY Zenon DEF StreamInit, FreshRelay
  <1>7. client = [text |-> none, calls |-> calls, names |-> [c \in Calls |-> 0], finish |-> "stop", errors |-> 0]
    BY Zenon DEF StreamInit
  <1>8. response = [status |-> "none", text |-> none, calls |-> none, finish |-> missing]
    BY Zenon DEF StreamInit, NoResponse
  <1> HIDE DEF none, calls, missing
  <1>9. WireTyped(wire) /\ wire.text = 0 /\ wire.end = "open" /\ \A c \in Calls : wire.got[c] = 0
    BY <1>4, CallFacts DEF WireTyped
  <1>10. /\ agg.text = none /\ agg.calls = calls /\ agg.order = none /\ agg.seq = 0 /\ agg.finish = "stop"
         /\ \A c \in Calls : agg.ids[c] = -1
    BY <1>5
  <1>11. AggregateTyped(agg)
    <2>1. AggregateTyped([id |-> missing, text |-> none, calls |-> calls, order |-> none, seq |-> 0,
                          ids |-> [c \in Calls |-> -1], finish |-> "stop", valid |-> 0])
      BY <1>1, <1>2 DEF AggregateTyped
    <2>2. QED
      BY <1>5, <2>1, Zenon
  <1>12. RelayTyped(relay) /\ relay.seen = {} /\ relay.dones = 0
    BY <1>1, <1>6 DEF RelayTyped
  <1>13. /\ ClientTyped(client) /\ client.text = none /\ client.calls = calls /\ client.finish = "stop"
         /\ \A c \in Calls : client.names[c] = 0
    BY <1>1, <1>2, <1>7 DEF ClientTyped
  <1>14. ResponseTyped(response) /\ response.status = "none"
    BY <1>1, <1>8 DEF ResponseTyped
  <1>15. StreamTypeOK
    BY <1>3, <1>9, <1>11, <1>12, <1>13, <1>14 DEF StreamTypeOK, StreamsAssumption
  <1>16. Gathered
    <2>1. Len(agg.order) = 0 /\ agg.text = Count(wire.text)
      BY <1>1, <1>9, <1>10, Zenon
    <2>2. \A c \in Calls : Begun(c) <=> c <= 0
      BY <1>9, CallFacts DEF Begun
    <2>3. DOMAIN agg.calls = 0..(0 - 1) /\ 1..0 = {}
      BY <1>2, <1>10
    <2>4. QED
      BY <2>1, <2>2, <2>3 DEF Gathered
  <1>17. NumberedCalls
    <2>1. Len(agg.order) = 0
      BY <1>1, <1>10, Zenon
    <2>2. QED
      BY <1>10, <2>1, CallFacts DEF NumberedCalls
  <1>18. Mirrored
    BY <1>2, <1>9, <1>10, <1>12, <1>13, CallFacts DEF Mirrored, Begun
  <1>19. Concluded /\ NoHalfCalls
    BY <1>12, <1>14 DEF Concluded, NoHalfCalls
  <1>20. QED
    BY <1>15, <1>16, <1>17, <1>18, <1>19 DEF StreamInv

\* Every step of a stream keeps its invariant.
LEMMA StreamSteps ==
  ASSUME StreamInv, StreamsAssumption, [StreamNext]_streamVars
  PROVE  StreamInv'
  <1>1. ASSUME NEW id \in {Missing, "a"}, SendText(id) PROVE StreamInv'
    BY <1>1, TextFrame
  <1>2. ASSUME NEW c \in Calls, SendPiece(c, None) \/ SendPiece(c, c) PROVE StreamInv'
    <2>1. CASE SendPiece(c, None)
      BY <2>1, PieceFrame
    <2>2. CASE SendPiece(c, c)
      BY <2>2, PieceFrame
    <2>3. QED
      BY <1>2, <2>1, <2>2
  <1>3. ASSUME NEW withCall \in BOOLEAN, SendWhole(withCall) PROVE StreamInv'
    BY <1>3, WholeFrame
  <1>4. ASSUME NEW kind \in {"garbage", "comment", "error"}, SendOther(kind, Missing) PROVE StreamInv'
    <2>1. Missing \in Finishes
      BY DEF Finishes
    <2>2. QED
      BY <1>4, <2>1, OtherFrames
  <1>5. ASSUME NEW finish \in {Missing, "stop", "length"}, SendOther("data", finish) PROVE StreamInv'
    <2>1. finish \in Finishes
      BY DEF Finishes
    <2>2. QED
      BY <1>5, <2>1, OtherFrames
  <1>6. ASSUME NEW how \in {"done", "eof", "broken"}, End(how) PROVE StreamInv'
    BY <1>6, EndOfStream
  <1>7. CASE Silence
    <2>1. /\ wire' = wire /\ agg' = agg /\ relay' = relay /\ client' = client /\ response' = response /\ style' = style
      BY <1>7 DEF Silence
    <2>2. quiet' \in 0..MaxQuiet
      BY <1>7 DEF Silence, StreamInv, StreamTypeOK, StreamsAssumption
    <2>3. StreamTypeOK'
      BY <2>1, <2>2 DEF StreamInv, StreamTypeOK
    <2>4. Gathered' /\ NumberedCalls' /\ Mirrored'
      BY <2>1, Zenon DEF StreamInv, Gathered, NumberedCalls, Mirrored, Begun, Complete, Call, PartsOf
    <2>5. Concluded' /\ NoHalfCalls'
      BY <2>1 DEF StreamInv, Concluded, NoHalfCalls, Ready, Started, Begun, Call, PartsOf
    <2>6. QED
      BY <2>3, <2>4, <2>5 DEF StreamInv
  <1>8. CASE IdleCut
    <2>1. End("broken")
      BY <1>8 DEF IdleCut
    <2>2. QED
      BY <1>6, <2>1
  <1>9. CASE UNCHANGED streamVars
    <2>1. /\ wire' = wire /\ agg' = agg /\ relay' = relay /\ client' = client /\ response' = response /\ style' = style
          /\ quiet' = quiet
      BY <1>9 DEF streamVars
    <2>2. StreamTypeOK'
      BY <2>1 DEF StreamInv, StreamTypeOK
    <2>3. Gathered' /\ NumberedCalls' /\ Mirrored'
      BY <2>1, Zenon DEF StreamInv, Gathered, NumberedCalls, Mirrored, Begun, Complete, Call, PartsOf
    <2>4. Concluded' /\ NoHalfCalls'
      BY <2>1 DEF StreamInv, Concluded, NoHalfCalls, Ready, Started, Begun, Call, PartsOf
    <2>5. QED
      BY <2>2, <2>3, <2>4 DEF StreamInv
  <1>10. QED
    BY <1>1, <1>2, <1>3, <1>4, <1>5, <1>6, <1>7, <1>8, <1>9, Zenon DEF StreamNext

\* What the invariant says of the calls.
LEMMA CallsAreOwn ==
  ASSUME StreamInv
  PROVE  EachCallItsOwn
  <1> DEFINE m == Len(agg.order)
  <1>1. agg.order \in Seq(Int) /\ m \in Nat
    BY Fields DEF StreamInv
  <1>2. /\ \A c \in Calls : Begun(c) <=> c <= m
        /\ \A k \in 1..m : k \in Calls /\ agg.order[k] = k - 1
        /\ DOMAIN agg.calls = 0..(m - 1)
        /\ \A c \in 1..m : agg.calls[c - 1] = Call(c)
    BY DEF StreamInv, Gathered
  <1>3. DOMAIN agg.order = 1..m
    BY <1>1
  <1> HIDE DEF m
  <1>4. Started = 1..m
    <2>1. \A c \in Calls : c \in Started <=> c <= m
      BY <1>2 DEF Started
    <2>2. \A c \in Calls : c \in Nat /\ c > 0
      BY CallFacts
    <2>3. Started \subseteq Calls
      BY DEF Started
    <2>4. \A c \in Started : c \in 1..m
      BY <1>1, <2>1, <2>2, <2>3
    <2>5. \A c \in 1..m : c \in Calls /\ c <= m
      BY <1>1, <1>2
    <2>6. \A c \in 1..m : c \in Started
      BY <2>1, <2>5, Zenon
    <2>7. QED
      BY <2>4, <2>6
  <1>5. {agg.calls[i] : i \in DOMAIN agg.calls} = {Call(c) : c \in Started}
    <2>1. \A i \in 0..(m - 1) : i + 1 \in 1..m /\ agg.calls[i] = Call(i + 1)
      <3> TAKE i \in 0..(m - 1)
      <3>1. i + 1 \in 1..m /\ (i + 1) - 1 = i
        BY <1>1
      <3>2. agg.calls[(i + 1) - 1] = Call(i + 1)
        BY <1>2, <3>1, Zenon
      <3>3. QED
        BY <3>1, <3>2, Zenon
    <2>2. \A c \in 1..m : c - 1 \in 0..(m - 1)
      BY <1>1
    <2>3. QED
      BY <1>2, <1>4, <2>1, <2>2
  <1>6. Cardinality(DOMAIN agg.calls) = Cardinality(Started)
    <2>1. Cardinality(0..(m - 1)) = m /\ Cardinality(1..m) = m
      BY <1>1, FS_Interval
    <2>2. QED
      BY <1>2, <1>4, <2>1
  <1>7. ToSet(agg.order) = DOMAIN agg.calls
    <2>1. ToSet(agg.order) = {agg.order[k] : k \in 1..m}
      BY <1>3, Zenon DEF ToSet
    <2>2. \A i \in 0..(m - 1) : i + 1 \in 1..m /\ agg.order[i + 1] = i
      <3> TAKE i \in 0..(m - 1)
      <3>1. i + 1 \in 1..m /\ (i + 1) - 1 = i
        BY <1>1
      <3>2. QED
        BY <1>2, <3>1
    <2>3. \A k \in 1..m : k - 1 \in 0..(m - 1)
      BY <1>1
    <2>4. QED
      BY <1>2, <2>1, <2>2, <2>3
  <1>8. IsInjective(agg.order)
    <2>1. \A j, k \in 1..m : agg.order[j] = agg.order[k] => j = k
      BY <1>1, <1>2
    <2>2. QED
      BY <1>3, <2>1 DEF IsInjective
  <1>9. QED
    BY <1>5, <1>6, <1>7, <1>8 DEF EachCallItsOwn

\* What the invariant says of the two clients.
LEMMA ClientsAgree ==
  ASSUME StreamInv
  PROVE  StreamMatchesAnswer
  <1> SUFFICES ASSUME response.status = "ok", style = "index"
               PROVE  /\ client.text = response.text /\ client.finish = response.finish
                      /\ \A c \in Started : client.names[c] = 1 /\ client.calls[c - 1] = Call(c)
                      /\ relay.dones = 1
    BY DEF StreamMatchesAnswer
  <1>1. response.text = agg.text /\ response.finish = agg.finish /\ relay.dones = 1
    BY DEF StreamInv, Concluded
  <1>2. /\ client.text = agg.text /\ client.finish = agg.finish
        /\ \A i \in DOMAIN agg.calls : client.calls[i] = agg.calls[i]
        /\ \A c \in Calls : client.names[c] = IF Begun(c) THEN 1 ELSE 0
    BY DEF StreamInv, Mirrored
  <1>3. ASSUME NEW c \in Started
        PROVE  client.names[c] = 1 /\ client.calls[c - 1] = Call(c)
    <2>1. c \in Calls /\ Begun(c)
      BY DEF Started
    <2>2. Len(agg.order) \in Nat /\ Gathered
      BY Fields DEF StreamInv
    <2>3. c - 1 \in DOMAIN agg.calls /\ At(agg.calls, c - 1) = Call(c)
      BY <2>1, <2>2, AtOf
    <2>4. agg.calls[c - 1] = Call(c)
      BY <2>3 DEF At
    <2>5. QED
      BY <1>2, <2>1, <2>3, <2>4
  <1>4. QED
    BY <1>1, <1>2, <1>3

LEMMA StreamInvariant ==
  StreamSpec => []StreamInv
  <1>1. StreamInit => StreamInv
    BY StreamStarts, StreamsAssumption
  <1>2. StreamInv /\ [StreamNext]_streamVars => StreamInv'
    BY StreamSteps, StreamsAssumption
  <1>3. QED
    BY <1>1, <1>2, PTL DEF StreamSpec

\* Aggregate and StreamHint keep the state the model gives them.
THEOREM StreamsTypeCorrect ==
  StreamSpec => []StreamTypeOK
  <1>1. StreamInv => StreamTypeOK
    BY DEF StreamInv
  <1>2. QED
    BY <1>1, StreamInvariant, PTL

\* mergeToolCallsChunk: for every number of calls and of parts, and whichever of the styles
\* names them, each call is assembled of its own parts, in order.
THEOREM EachCallAssembled ==
  StreamSpec => []EachCallItsOwn
  <1>1. StreamInv => EachCallItsOwn
    BY CallsAreOwn
  <1>2. QED
    BY <1>1, StreamInvariant, PTL

\* Aggregate, dropTruncatedToolCalls: the answer has the calls that came whole, and no others.
THEOREM NoHalfCallAnswered ==
  StreamSpec => []NoHalfCalls
  <1>1. StreamInv => NoHalfCalls
    BY DEF StreamInv
  <1>2. QED
    BY <1>1, StreamInvariant, PTL

\* Aggregate and StreamHint: the client that waits and the one of the stream get the same answer.
THEOREM BothClientsAgree ==
  StreamSpec => []StreamMatchesAnswer
  <1>1. StreamInv => StreamMatchesAnswer
    BY ClientsAgree
  <1>2. QED
    BY <1>1, StreamInvariant, PTL

=============================================================================
