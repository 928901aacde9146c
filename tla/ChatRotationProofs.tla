------------------------- MODULE ChatRotationProofs -------------------------
(***************************************************************************)
(* Proofs about ChatRotation for any number of requests, accounts,         *)
(* sessions and rotations, and every value of the limits and thresholds.   *)
(*                                                                         *)
(* Moves(r, q) says what every step of the handler of r has in common: it  *)
(* moves r from req[r] to q, takes or gives a slot exactly when it begins  *)
(* or ceases to hold one, changes no binding but its own session's, and    *)
(* comes nearer to its end.  There is one lemma per group of actions, and  *)
(* the theorems follow from Moves and the steps of the environment.        *)
(*                                                                         *)
(* Shape(p, q) says what those steps do to the calls made and the accounts *)
(* tried.  Frugal follows from it: every account called is tried, but for  *)
(* the one a degraded retry owes its second call.  Telling adds what the   *)
(* gate has noted of a WAF that blocks the address.                        *)
(***************************************************************************)
EXTENDS ChatRotation, PoolEntryProofs, FiniteSetTheorems, TLAPS

\* Where a handler holds a slot, and where it has an account.
Holding == {"call", "release", "retry", "unblock", "bind", "stream"}
Serving == Holding \cup {"acquire", "unbind", "waf"}

Placed(q) ==
  /\ q.held <=> q.pc \in Holding
  /\ q.pc \in Serving => q.uid \in UIDs

\* The handler q of a session that no other request uses, and the session's binding b.
Follows(q, b) ==
  /\ q.pc \in PCs \ {"idle", "stream", "done"} => b = q.sticky
  /\ q.pc \in (Serving \ {"waf", "stream"}) => q.sticky \in {NoUID, q.uid}
  /\ q.pc \in {"waf", "rotate"} => q.sticky = NoUID \/ q.last = "content"
  /\ q.pc = "retry" => q.last = "content"
  /\ q.pc = "stream" => b = q.uid
  /\ q.outcome = "success" => q.pc = "done"
  /\ q.pc = "done" /\ q.last # "content" => b = IF q.outcome = "success" THEN q.uid ELSE NoUID

Slots(r, q) ==
  \/ q.held = req[r].held /\ (q.held => q.uid = req[r].uid) /\ inFlight' = inFlight
  \/ ~req[r].held /\ q.held /\ q.uid \in UIDs /\ inFlight' = [inFlight EXCEPT ![q.uid] = @ + 1]
  \/ req[r].held /\ ~q.held /\ req[r].uid \in UIDs /\ inFlight' = [inFlight EXCEPT ![req[r].uid] = @ - 1]

NoFaultOfAccounts ==
  OnlyRequestsAtFault /\ world.env \subseteq {"tick", "expire", "unbind"}

Moves(r, q) ==
  /\ q \in Handler /\ req' = [req EXCEPT ![r] = q] /\ world' = world
  /\ Placed(q) /\ Slots(r, q)
  /\ acct' \in [UIDs -> Entry]
  /\ NoFaultOfAccounts => \A u \in UIDs : Healthy(acct[u]) => Healthy(acct'[u])
  /\ \E b \in UIDs \cup {NoUID} :
       /\ bind' = [bind EXCEPT ![Session(r)] = b]
       /\ Follows(req[r], bind[Session(r)]) => Follows(q, b)
  /\ degraded' \in BOOLEAN /\ waf' \in [hits : SUBSET UIDs, active : BOOLEAN]
  /\ req[r].pc \notin {"idle", "done"} => StepsLeft(q) < StepsLeft(req[r])

IInv == TypeOK /\ \A r \in Requests : Placed(req[r])

-----------------------------------------------------------------------------
(* Types *)

LEMMA PlaceFacts ==
  /\ PCs = {"idle", "pick", "dropSticky", "acquire", "call", "release", "unbind", "waf", "retry",
             "rotate", "unblock", "bind", "stream", "done"}
  /\ MaxRotate \in Nat \ {0} /\ 0 \in 0..(MaxRotate - 1)
  BY RotationAssumption DEF PCs

LEMMA NewRequestType ==
  /\ NewRequest \in Handler
  /\ \A u \in UIDs \cup {NoUID}, b \in BOOLEAN :
       [NewRequest EXCEPT !.pc = "pick", !.sticky = u, !.rewritten = b] \in Handler
  <1>1. <<>> \in Seq(UIDs)
    OBVIOUS
  <1>2. QED
    BY <1>1, PlaceFacts DEF NewRequest, Handler, Outcomes

LEMMA HandlerFacts ==
  ASSUME TypeOK, NEW r \in Requests
  PROVE  /\ req[r] \in Handler /\ world \in World /\ Session(r) \in Keys
         /\ bind[Session(r)] \in UIDs \cup {NoUID} /\ bind = [bind EXCEPT ![Session(r)] = bind[Session(r)]]
         /\ req[r].uid \in UIDs => acct[req[r].uid] \in Entry
  BY WorldAssumption DEF TypeOK, Session, World

\* The steps of a handler that touch nothing but itself.
LEMMA QuietMove ==
  ASSUME TypeOK, NEW r \in Requests, NEW q \in Handler, req' = [req EXCEPT ![r] = q],
         UNCHANGED <<world, acct, inFlight, bind, degraded, waf>>,
         Placed(q), q.held = req[r].held, q.held => q.uid = req[r].uid,
         Follows(req[r], bind[Session(r)]) => Follows(q, bind[Session(r)]),
         StepsLeft(q) < StepsLeft(req[r])
  PROVE  Moves(r, q)
  BY HandlerFacts DEF Moves, Slots, TypeOK

-----------------------------------------------------------------------------
(* Choosing an account *)

LEMMA ChooseMoves ==
  ASSUME IInv, NEW r \in Requests, PickSticky(r) \/ DropSticky(r)
  PROVE  \E q \in Handler : Moves(r, q)
  <1> USE PlaceFacts
  <1>1. req[r] \in Handler /\ TypeOK /\ Placed(req[r])
    BY HandlerFacts DEF IInv
  <1>2. CASE DropSticky(r)
    <2> DEFINE q == [req[r] EXCEPT !.pc = "pick", !.sticky = NoUID]
    <2>1. /\ q \in Handler /\ req' = [req EXCEPT ![r] = q] /\ q.pc = "pick" /\ q.sticky = NoUID
          /\ q.held = req[r].held /\ q.uid = req[r].uid /\ q.i = req[r].i /\ q.outcome = req[r].outcome
      BY <1>1, <1>2 DEF DropSticky, At, Become, Handler
    <2> HIDE DEF q
    <2>2. req[r].pc = "dropSticky" /\ UNCHANGED <<world, acct, inFlight, degraded, waf>>
          /\ bind' = [bind EXCEPT ![Session(r)] = NoUID]
      BY <1>2 DEF DropSticky, At
    <2>3. Placed(q) /\ Slots(r, q)
      BY <1>1, <2>1, <2>2 DEF Placed, Slots, Holding, Serving
    <2>4. Follows(req[r], bind[Session(r)]) => Follows(q, NoUID)
      BY <2>1, <2>2 DEF Follows, Serving, Holding
    <2>5. StepsLeft(q) < StepsLeft(req[r])
      BY <1>1, <2>1, <2>2 DEF StepsLeft, StepsFrom, Handler
    <2>6. QED
      BY <1>1, <2>1, <2>2, <2>3, <2>4, <2>5 DEF Moves, TypeOK
  <1>3. CASE PickSticky(r)
    <2> DEFINE u == req[r].sticky
               dropped == [req[r] EXCEPT !.pc = "dropSticky"]
               chosen == [req[r] EXCEPT !.pc = "acquire", !.uid = u, !.last = "none", !.tried = @ \cup {u}]
    <2>1. /\ req[r].pc = "pick" /\ u \in UIDs /\ u # NoUID
          /\ UNCHANGED <<world, acct, inFlight, bind, degraded, waf>>
          /\ req' = [req EXCEPT ![r] = dropped] \/ req' = [req EXCEPT ![r] = chosen]
      BY <1>1, <1>3 DEF PickSticky, At, Chosen, Become, Handler
    <2>2. /\ dropped \in Handler /\ dropped.pc = "dropSticky" /\ dropped.sticky = u
          /\ dropped.held = req[r].held /\ dropped.uid = req[r].uid /\ dropped.i = req[r].i
          /\ dropped.outcome = req[r].outcome /\ dropped.last = req[r].last
      BY <1>1 DEF Handler
    <2>3. /\ chosen \in Handler /\ chosen.pc = "acquire" /\ chosen.sticky = u /\ chosen.uid = u
          /\ chosen.held = req[r].held /\ chosen.i = req[r].i /\ chosen.outcome = req[r].outcome
      BY <1>1, <2>1 DEF Handler
    <2> HIDE DEF dropped, chosen
    <2>4. CASE req' = [req EXCEPT ![r] = dropped]
      <3>1. Placed(dropped)
        BY <1>1, <2>1, <2>2 DEF Placed, Holding, Serving
      <3>2. Follows(req[r], bind[Session(r)]) => Follows(dropped, bind[Session(r)])
        BY <2>1, <2>2 DEF Follows, Serving, Holding
      <3>3. StepsLeft(dropped) < StepsLeft(req[r])
        BY <1>1, <2>1, <2>2 DEF StepsLeft, StepsFrom, Handler
      <3>4. QED
        BY <1>1, <2>1, <2>2, <2>4, <3>1, <3>2, <3>3, QuietMove
    <2>5. CASE req' = [req EXCEPT ![r] = chosen]
      <3>1. Placed(chosen) /\ ~chosen.held
        BY <1>1, <2>1, <2>3 DEF Placed, Holding, Serving
      <3>2. Follows(req[r], bind[Session(r)]) => Follows(chosen, bind[Session(r)])
        BY <2>1, <2>3 DEF Follows, Serving, Holding
      <3>3. StepsLeft(chosen) < StepsLeft(req[r])
        BY <1>1, <2>1, <2>3 DEF StepsLeft, StepsFrom, Handler
      <3>4. QED
        BY <1>1, <2>1, <2>3, <2>5, <3>1, <3>2, <3>3, QuietMove
    <2>6. QED
      BY <2>1, <2>4, <2>5
  <1>4. QED
    BY <1>2, <1>3

LEMMA PruneKeepsHealth == \A e \in Entry : Healthy(e) => Healthy(PruneExpiredModelCooldowns(e))
  BY DEF Healthy, PruneExpiredModelCooldowns, Entry

LEMMA PickAnyMoves ==
  ASSUME IInv, NEW r \in Requests, PickAny(r), world.pool \subseteq UIDs
  PROVE  \E q \in Handler : Moves(r, q)
  <1> USE PlaceFacts
  <1>1. req[r] \in Handler /\ TypeOK /\ Placed(req[r])
    BY HandlerFacts DEF IInv
  <1>2. /\ req[r].pc = "pick" /\ req[r].sticky = NoUID /\ ~req[r].held
        /\ UNCHANGED <<world, inFlight, bind, degraded, waf>>
        /\ acct' = [u \in UIDs |-> PruneExpiredModelCooldowns(acct[u])]
    BY <1>1 DEF PickAny, At, Placed, Holding
  <1>3. /\ acct' \in [UIDs -> Entry]
        /\ \A u \in UIDs : Healthy(acct[u]) => Healthy(acct'[u])
    BY <1>1, <1>2, PruneType, PruneKeepsHealth DEF TypeOK
  <1> DEFINE none == [req[r] EXCEPT !.pc = "done", !.outcome = "noAccount"]
             chosen(u) == [req[r] EXCEPT !.pc = "acquire", !.uid = u, !.last = "none", !.tried = @ \cup {u}]
  <1>4. \/ req' = [req EXCEPT ![r] = none]
        \/ \E u \in UIDs : req' = [req EXCEPT ![r] = chosen(u)]
    BY DEF PickAny, Chosen, Become, Picks
  <1>5. CASE req' = [req EXCEPT ![r] = none]
    <2>1. /\ none \in Handler /\ none.pc = "done" /\ none.outcome = "noAccount"
          /\ none.held = req[r].held /\ none.i = req[r].i
      BY <1>1, ZenonT(40) DEF Handler, Outcomes
    <2> HIDE DEF none
    <2>2. Placed(none) /\ Slots(r, none)
      BY <1>2, <2>1 DEF Placed, Slots, Holding, Serving
    <2>3. Follows(req[r], bind[Session(r)]) => Follows(none, bind[Session(r)])
      BY <1>2, <2>1 DEF Follows, Serving, Holding
    <2>4. StepsLeft(none) < StepsLeft(req[r])
      BY <1>1, <1>2, <2>1 DEF StepsLeft, StepsFrom, Handler
    <2>5. QED
      BY <1>1, <1>2, <1>3, <1>5, <2>1, <2>2, <2>3, <2>4, HandlerFacts DEF Moves, TypeOK
  <1>6. ASSUME NEW u \in UIDs, req' = [req EXCEPT ![r] = chosen(u)]
        PROVE  \E q \in Handler : Moves(r, q)
    <2> DEFINE q == chosen(u)
    <2>1. /\ q \in Handler /\ q.pc = "acquire" /\ q.uid = u /\ q.sticky = NoUID
          /\ q.held = req[r].held /\ q.i = req[r].i /\ q.outcome = req[r].outcome
      BY <1>1, <1>2 DEF Handler
    <2>2. req' = [req EXCEPT ![r] = q]
      BY <1>6
    <2> HIDE DEF q
    <2>3. Placed(q) /\ Slots(r, q)
      BY <1>2, <2>1 DEF Placed, Slots, Holding, Serving
    <2>4. Follows(req[r], bind[Session(r)]) => Follows(q, bind[Session(r)])
      BY <1>2, <2>1 DEF Follows, Serving, Holding
    <2>5. StepsLeft(q) < StepsLeft(req[r])
      BY <1>1, <1>2, <2>1 DEF StepsLeft, StepsFrom, Handler
    <2>6. QED
      BY <1>1, <1>2, <1>3, <2>1, <2>2, <2>3, <2>4, <2>5, HandlerFacts DEF Moves, TypeOK
  <1>7. QED
    BY <1>4, <1>5, <1>6

\* Where an attempt that failed goes next.
LEMMA AfterFailureFacts ==
  ASSUME NEW q \in Handler
  PROVE  /\ AfterFailure(q) \in {"unbind", "done", "waf", "rotate"}
         /\ AfterFailure(q) = "unbind" <=> q.sticky # NoUID /\ q.sticky = q.uid
         /\ AfterFailure(q) = "done" => q.outcome # "none"
  BY DEF AfterFailure

LEMMA AcquireMoves ==
  ASSUME IInv, NEW r \in Requests, Acquire(r)
  PROVE  \E q \in Handler : Moves(r, q)
  <1> USE PlaceFacts
  <1>1. req[r] \in Handler /\ TypeOK /\ Placed(req[r])
    BY HandlerFacts DEF IInv
  <1>2. req[r].pc = "acquire" /\ ~req[r].held /\ req[r].uid \in UIDs
        /\ UNCHANGED <<world, acct, bind, degraded, waf>>
    BY <1>1 DEF Acquire, At, Placed, Holding, Serving
  <1> DEFINE full == [req[r] EXCEPT !.pc = AfterFailure(req[r])]
             got == [req[r] EXCEPT !.pc = "call", !.held = TRUE]
  <1>3. \/ req' = [req EXCEPT ![r] = full] /\ inFlight' = inFlight
        \/ req' = [req EXCEPT ![r] = got] /\ inFlight' = [inFlight EXCEPT ![req[r].uid] = @ + 1]
    BY DEF Acquire, Become
  <1>4. CASE req' = [req EXCEPT ![r] = full] /\ inFlight' = inFlight
    <2>1. /\ full \in Handler /\ full.pc = AfterFailure(req[r]) /\ full.sticky = req[r].sticky
          /\ full.held = req[r].held /\ full.uid = req[r].uid /\ full.i = req[r].i
          /\ full.outcome = req[r].outcome /\ full.last = req[r].last
      BY <1>1, AfterFailureFacts DEF Handler
    <2> HIDE DEF full
    <2>2. Placed(full)
      BY <1>1, <1>2, <2>1, AfterFailureFacts DEF Placed, Holding, Serving
    <2>3. Follows(req[r], bind[Session(r)]) => Follows(full, bind[Session(r)])
      BY <1>1, <1>2, <2>1, AfterFailureFacts DEF Follows, Serving, Holding
    <2>4. StepsLeft(full) < StepsLeft(req[r])
      BY <1>1, <1>2, <2>1, AfterFailureFacts DEF StepsLeft, StepsFrom, Handler
    <2>5. QED
      BY <1>1, <1>2, <1>4, <2>1, <2>2, <2>3, <2>4, QuietMove
  <1>5. CASE req' = [req EXCEPT ![r] = got] /\ inFlight' = [inFlight EXCEPT ![req[r].uid] = @ + 1]
    <2>1. /\ got \in Handler /\ got.pc = "call" /\ got.sticky = req[r].sticky /\ got.held
          /\ got.uid = req[r].uid /\ got.i = req[r].i /\ got.outcome = req[r].outcome
      BY <1>1 DEF Handler
    <2> HIDE DEF got
    <2>2. Placed(got) /\ Slots(r, got)
      BY <1>2, <1>5, <2>1 DEF Placed, Slots, Holding, Serving
    <2>3. Follows(req[r], bind[Session(r)]) => Follows(got, bind[Session(r)])
      BY <1>2, <2>1 DEF Follows, Serving, Holding
    <2>4. StepsLeft(got) < StepsLeft(req[r])
      BY <1>1, <1>2, <2>1 DEF StepsLeft, StepsFrom, Handler
    <2>5. QED
      BY <1>1, <1>2, <1>5, <2>1, <2>2, <2>3, <2>4, HandlerFacts DEF Moves, TypeOK
  <1>6. QED
    BY <1>3, <1>4, <1>5

-----------------------------------------------------------------------------
(* The end of a call *)

LEMMA PunishedType ==
  ASSUME NEW e \in Entry, NEW kind \in RotatingKinds, NEW m \in Models
  PROVE  Punished(e, kind, m) \in Entry
  <1> USE RotationAssumption, Naturals
  <1>1. HardMax \in Int /\ SoftBase \in Int /\ ResetIn \in Int
        /\ "credit" \in Reasons /\ "rate" \in Reasons /\ "hard" \in CoolKinds /\ "soft" \in CoolKinds
        /\ "dead" \in DisableReasons /\ "banned" \in DisableReasons
    BY DEF Reasons, CoolKinds, DisableReasons
  <1>2. /\ CooldownEntry(e, "hard", HardMax, "credit") \in Entry
        /\ CooldownEntry(e, "soft", SoftBase, "rate") \in Entry
        /\ SoftUntilReset(e, ResetIn, "rate") \in Entry
        /\ LimitModel(e, m, ResetIn) \in Entry /\ SoftBackoff(e, SoftBase, "rate") \in Entry
        /\ DisableEntry(e, "dead") \in Entry /\ DisableEntry(e, "banned") \in Entry
        /\ Failed(e) \in Entry /\ BlockModel(e, m) \in Entry /\ FailedUnexplained(e) \in Entry
    BY <1>1, CooldownType, SoftUntilResetType, ModelRowsType, SoftBackoffType, DisableType, FailedType,
       FailedUnexplainedType
  <1>3. QED
    BY <1>2 DEF Punished, FinalKinds, RotatingKinds

\* No answer that finds fault with the request touches the account.
LEMMA NoFaultNoPunishment ==
  ASSUME NEW e \in Entry, NEW kind \in {"badParams"} \cup FinalKinds, NEW m \in Models
  PROVE  Punished(e, kind, m) = e
  BY DEF Punished, FinalKinds

LEMMA SuccessKeepsHealth == \A e \in Entry : Healthy(e) => Healthy(Succeeded(e))
  BY DEF Healthy, Succeeded, Entry, Active, Never

\* The handler once its call is counted.
LEMMA CalledFacts ==
  ASSUME IInv, NEW r \in Requests, At(r, "call")
  PROVE  /\ req[r].uid \in UIDs /\ req[r].held /\ Account(r) \in Entry
         /\ Called(r) \in Handler /\ Called(r).uid = req[r].uid /\ Called(r).held = req[r].held
         /\ Called(r).sticky = req[r].sticky /\ Called(r).i = req[r].i /\ Called(r).outcome = req[r].outcome
         /\ Called(r).tried = req[r].tried
  <1>1. req[r] \in Handler /\ TypeOK /\ Placed(req[r])
    BY HandlerFacts DEF IInv
  <1>2. req[r].uid \in UIDs /\ req[r].held /\ acct[req[r].uid] \in Entry
    BY <1>1, HandlerFacts DEF Placed, Holding, Serving, At
  <1> DEFINE calls == Append(req[r].calls, req[r].uid)
  <1>3. calls \in Seq(UIDs)
    BY <1>1, <1>2 DEF Handler
  <1>4. Called(r) = [req[r] EXCEPT !.calls = calls]
    BY <1>1 DEF Called, Handler
  <1> HIDE DEF calls
  <1>5. QED
    BY <1>1, <1>2, <1>3, <1>4 DEF Handler, Account

\* A call of r that ends: the account it holds becomes e, and it goes on as q.
LEMMA ReturnedMoves ==
  ASSUME IInv, NEW r \in Requests, NEW e \in Entry, NEW q \in Handler, Returned(r, e, q),
         UNCHANGED <<world, inFlight, bind, waf>>, degraded' \in BOOLEAN,
         q.pc \in {"release", "retry", "unblock"}, q.pc = "retry" => q.last = "content", q.uid = req[r].uid, q.held = req[r].held,
         q.sticky = req[r].sticky, q.i = req[r].i, q.outcome \in {req[r].outcome} \cup (Outcomes \ {"success"}),
         NoFaultOfAccounts => (Healthy(Account(r)) => Healthy(e))
  PROVE  Moves(r, q)
  <1> USE PlaceFacts
  <1>1. req[r] \in Handler /\ TypeOK /\ Placed(req[r]) /\ req[r].pc = "call" /\ req[r].held /\ req[r].uid \in UIDs
    BY HandlerFacts, CalledFacts DEF IInv, Returned, At
  <1>2. /\ req' = [req EXCEPT ![r] = q]
        /\ acct' = [acct EXCEPT ![req[r].uid] = e]
    BY DEF Returned, Become
  <1>3. /\ acct' \in [UIDs -> Entry]
        /\ NoFaultOfAccounts => \A u \in UIDs : Healthy(acct[u]) => Healthy(acct'[u])
    BY <1>1, <1>2 DEF TypeOK, Account
  <1>4. Placed(q) /\ Slots(r, q)
    BY <1>1 DEF Placed, Slots, Holding, Serving
  <1>5. Follows(req[r], bind[Session(r)]) => Follows(q, bind[Session(r)])
    BY <1>1 DEF Follows, Serving, Holding
  <1>6. StepsLeft(q) < StepsLeft(req[r])
    BY <1>1 DEF StepsLeft, StepsFrom, Handler
  <1>7. QED
    BY <1>1, <1>2, <1>3, <1>4, <1>5, <1>6, HandlerFacts DEF Moves, TypeOK

\* Every way a call can end.
LEMMA CallMoves ==
  ASSUME IInv, NEW r \in Requests, Answer(r) \/ ClientLeaves(r)
  PROVE  \E q \in Handler : Moves(r, q)
  <1> USE PlaceFacts
  <1>1. /\ req[r] \in Handler /\ At(r, "call") /\ Account(r) \in Entry /\ degraded \in BOOLEAN
        /\ world \in World /\ Model[r] \in Models /\ req[r].uid \in UIDs
    BY HandlerFacts, CalledFacts, RotationAssumption
       DEF IInv, TypeOK, Answer, ClientLeaves, RefreshFails, TransportFails, AnswerOk, DegradeAndRetry, AnswerFinal,
           AnswerRotating, Returned
  <1>c. PICK c \in Handler, u \in UIDs :
          /\ c = Called(r) /\ u = req[r].uid /\ c.uid = u /\ c.held = req[r].held
          /\ c.sticky = req[r].sticky /\ c.i = req[r].i /\ c.outcome = req[r].outcome
    BY <1>1, CalledFacts
  <1>2. CASE RefreshFails(r)
    <2> DEFINE q == [req[r] EXCEPT !.pc = "release", !.last = "refresh"]
    <2>1. /\ q \in Handler /\ q.pc = "release" /\ q.uid = req[r].uid /\ q.held = req[r].held
          /\ q.sticky = req[r].sticky /\ q.i = req[r].i /\ q.outcome = req[r].outcome
      BY <1>1 DEF Handler
    <2>2. PICK e \in {SessionDied(Account(r)), Failed(Account(r))} : Returned(r, e, q)
      BY <1>2 DEF RefreshFails
    <2>3. e \in Entry
      BY <1>1, SessionType, FailedType
    <2>4. "refresh" \in world.env /\ UNCHANGED <<world, inFlight, bind, degraded, waf>>
      BY <1>2 DEF RefreshFails
    <2>5. ~NoFaultOfAccounts
      BY <2>4 DEF NoFaultOfAccounts
    <2> HIDE DEF q
    <2>6. QED
      BY <1>1, <2>1, <2>2, <2>3, <2>4, <2>5, ReturnedMoves
  <1>3. CASE TransportFails(r)
    <2> DEFINE q == [c EXCEPT !.pc = "release", !.last = "transport"]
               e == FailedUnexplained(Account(r))
    <2>1. /\ q \in Handler /\ q.pc = "release" /\ q.uid = req[r].uid /\ q.held = req[r].held
          /\ q.sticky = req[r].sticky /\ q.i = req[r].i /\ q.outcome = req[r].outcome
      BY <1>c DEF Handler
    <2>2. Returned(r, e, q) /\ "transport" \in world.env /\ UNCHANGED <<world, inFlight, bind, degraded, waf>>
      BY <1>c, <1>3 DEF TransportFails
    <2>3. e \in Entry /\ ~NoFaultOfAccounts
      BY <1>1, <2>2, FailedUnexplainedType DEF NoFaultOfAccounts
    <2> HIDE DEF q, e
    <2>4. QED
      BY <1>1, <2>1, <2>2, <2>3, ReturnedMoves
  <1>4. CASE ClientLeaves(r)
    <2> DEFINE q == [c EXCEPT !.pc = "release", !.last = "cancel", !.outcome = "cancelled"]
               e == FailedUnexplained(Account(r))
    <2>1. /\ q \in Handler /\ q.pc = "release" /\ q.uid = req[r].uid /\ q.held = req[r].held
          /\ q.sticky = req[r].sticky /\ q.i = req[r].i /\ q.outcome \in Outcomes \ {"success"}
      BY <1>c, ZenonT(40) DEF Handler, Outcomes
    <2>2. Returned(r, e, q) /\ "cancel" \in world.env /\ UNCHANGED <<world, inFlight, bind, degraded, waf>>
      BY <1>c, <1>4 DEF ClientLeaves
    <2>3. e \in Entry /\ ~NoFaultOfAccounts
      BY <1>1, <2>2, FailedUnexplainedType DEF NoFaultOfAccounts
    <2> HIDE DEF q, e
    <2>4. QED
      BY <1>1, <2>1, <2>2, <2>3, ReturnedMoves
  <1>5. CASE DegradeAndRetry(r)
    <2> DEFINE q == [c EXCEPT !.pc = "retry", !.last = "content", !.rewritten = TRUE,
                                      !.tried = @ \ {u}]
    <2>1. /\ q \in Handler /\ q.pc = "retry" /\ q.last = "content" /\ q.uid = req[r].uid /\ q.held = req[r].held
          /\ q.sticky = req[r].sticky /\ q.i = req[r].i /\ q.outcome = req[r].outcome
      BY <1>c DEF Handler, Kinds, FinalKinds
    <2>2. Returned(r, Account(r), q) /\ degraded' = TRUE /\ UNCHANGED <<world, inFlight, bind, waf>>
      BY <1>c, <1>5 DEF DegradeAndRetry
    <2> HIDE DEF q
    <2>3. QED
      BY <1>1, <2>1, <2>2, ReturnedMoves
  <1>6. CASE AnswerOk(r)
    <2> DEFINE q == [c EXCEPT !.pc = "unblock", !.last = "ok"]
               e == Succeeded(Account(r))
    <2>1. /\ q \in Handler /\ q.pc = "unblock" /\ q.uid = req[r].uid /\ q.held = req[r].held
          /\ q.sticky = req[r].sticky /\ q.i = req[r].i /\ q.outcome = req[r].outcome
      BY <1>c DEF Handler, Kinds
    <2>2. Returned(r, e, q) /\ UNCHANGED <<world, inFlight, bind, degraded, waf>>
      BY <1>c, <1>6 DEF AnswerOk
    <2>3. e \in Entry /\ (Healthy(Account(r)) => Healthy(e))
      BY <1>1, SuccessType, SuccessKeepsHealth
    <2> HIDE DEF q, e
    <2>4. QED
      BY <1>1, <2>1, <2>2, <2>3, ReturnedMoves
  <1>7. ASSUME NEW kind \in Kinds, AnswerFinal(r, kind)
        PROVE  \E q \in Handler : Moves(r, q)
    <2> DEFINE q == [c EXCEPT !.pc = "release", !.last = kind, !.outcome = kind]
    <2>1. kind \in FinalKinds /\ Returned(r, Punished(Account(r), kind, Model[r]), q)
          /\ UNCHANGED <<world, inFlight, bind, degraded, waf>>
      BY <1>c, <1>7 DEF AnswerFinal
    <2>2. /\ q \in Handler /\ q.pc = "release" /\ q.uid = req[r].uid /\ q.held = req[r].held
          /\ q.sticky = req[r].sticky /\ q.i = req[r].i /\ q.outcome \in Outcomes \ {"success"}
      BY <1>c, <2>1, ZenonT(40) DEF Handler, FinalKinds, Outcomes
    <2>3. Punished(Account(r), kind, Model[r]) = Account(r)
      BY <1>1, <2>1, NoFaultNoPunishment
    <2> HIDE DEF q
    <2>4. QED
      BY <1>1, <2>1, <2>2, <2>3, ReturnedMoves
  <1>8. ASSUME NEW kind \in Kinds, AnswerRotating(r, kind)
        PROVE  \E q \in Handler : Moves(r, q)
    <2> DEFINE q == [c EXCEPT !.pc = "release", !.last = kind]
               e == Punished(Account(r), kind, Model[r])
    <2>1. kind \in RotatingKinds /\ kind \in world.kinds /\ Returned(r, e, q)
          /\ UNCHANGED <<world, inFlight, bind, degraded, waf>>
      BY <1>c, <1>8 DEF AnswerRotating
    <2>2. /\ q \in Handler /\ q.pc = "release" /\ q.uid = req[r].uid /\ q.held = req[r].held
          /\ q.sticky = req[r].sticky /\ q.i = req[r].i /\ q.outcome = req[r].outcome
      BY <1>c, <2>1 DEF Handler
    <2>3. e \in Entry
      BY <1>1, <2>1, PunishedType
    <2>4. NoFaultOfAccounts => e = Account(r)
      <3>1. NoFaultOfAccounts => kind \in {"badParams"} \cup FinalKinds
        BY <2>1 DEF NoFaultOfAccounts, OnlyRequestsAtFault, RotatingKinds
      <3>2. QED
        BY <1>1, <3>1, NoFaultNoPunishment
    <2> HIDE DEF q, e
    <2>5. QED
      BY <1>1, <2>1, <2>2, <2>3, <2>4, ReturnedMoves
  <1>9. world.kinds \subseteq Kinds
    BY <1>1 DEF World
  <1>10. QED
    BY <1>2, <1>3, <1>4, <1>5, <1>6, <1>7, <1>8, <1>9 DEF Answer

-----------------------------------------------------------------------------
(* After a failure, and after a success *)

LEMMA ReleaseMoves ==
  ASSUME IInv, NEW r \in Requests, Release(r)
  PROVE  \E q \in Handler : Moves(r, q)
  <1> USE PlaceFacts
  <1>1. req[r] \in Handler /\ TypeOK /\ Placed(req[r])
    BY HandlerFacts DEF IInv
  <1> DEFINE free == [req[r] EXCEPT !.held = FALSE]
             q == [free EXCEPT !.pc = AfterFailure(free)]
  <1>2. /\ free \in Handler /\ free.uid = req[r].uid /\ free.sticky = req[r].sticky /\ ~free.held
        /\ free.i = req[r].i /\ free.outcome = req[r].outcome /\ free.last = req[r].last
    BY <1>1 DEF Handler
  <1>3. /\ req' = [req EXCEPT ![r] = q] /\ inFlight' = [inFlight EXCEPT ![free.uid] = @ - 1]
        /\ req[r].pc = "release" /\ UNCHANGED <<world, acct, bind, degraded, waf>>
    BY DEF Release, Become, At
  <1> HIDE DEF free
  <1>4. /\ q \in Handler /\ q.pc = AfterFailure(free) /\ q.uid = free.uid /\ q.sticky = free.sticky
        /\ ~q.held /\ q.i = free.i /\ q.outcome = free.outcome /\ q.last = free.last
    BY <1>2, AfterFailureFacts DEF Handler
  <1> HIDE DEF q
  <1>5. req[r].held /\ req[r].uid \in UIDs
    BY <1>1, <1>3 DEF Placed, Holding, Serving
  <1>6. Placed(q) /\ Slots(r, q)
    BY <1>2, <1>3, <1>4, <1>5, AfterFailureFacts DEF Placed, Slots, Holding, Serving
  <1>7. Follows(req[r], bind[Session(r)]) => Follows(q, bind[Session(r)])
    BY <1>2, <1>3, <1>4, AfterFailureFacts DEF Follows, Serving, Holding
  <1>8. StepsLeft(q) < StepsLeft(req[r])
    <2>1. req[r].i \in Int /\ q.i = req[r].i
      BY <1>1, <1>2, <1>4 DEF Handler
    <2>2. StepsFrom(req[r]) = 7 /\ StepsFrom(q) \in Int /\ StepsFrom(q) < 7
      BY <1>2, <1>3, <1>4, AfterFailureFacts DEF StepsFrom
    <2>3. QED
      BY <2>1, <2>2 DEF StepsLeft
  <1>9. QED
    BY <1>1, <1>3, <1>4, <1>6, <1>7, <1>8, HandlerFacts DEF Moves, TypeOK

LEMMA UnbindMoves ==
  ASSUME IInv, NEW r \in Requests, Unbind(r)
  PROVE  \E q \in Handler : Moves(r, q)
  <1> USE PlaceFacts
  <1>1. req[r] \in Handler /\ TypeOK /\ Placed(req[r])
    BY HandlerFacts DEF IInv
  <1> DEFINE loose == [req[r] EXCEPT !.sticky = NoUID]
             q == [loose EXCEPT !.pc = AfterFailure(loose)]
  <1>2. /\ loose \in Handler /\ loose.uid = req[r].uid /\ loose.sticky = NoUID /\ loose.held = req[r].held
        /\ loose.i = req[r].i /\ loose.outcome = req[r].outcome /\ loose.last = req[r].last
    BY <1>1 DEF Handler
  <1>3. /\ req' = [req EXCEPT ![r] = q] /\ bind' = [bind EXCEPT ![Session(r)] = NoUID]
        /\ req[r].pc = "unbind" /\ UNCHANGED <<world, acct, inFlight, degraded, waf>>
    BY DEF Unbind, Become, At
  <1> HIDE DEF loose
  <1>4. /\ q \in Handler /\ q.pc = AfterFailure(loose) /\ q.uid = loose.uid /\ q.sticky = NoUID
        /\ q.held = loose.held /\ q.i = loose.i /\ q.outcome = loose.outcome /\ q.last = loose.last
    BY <1>2, AfterFailureFacts DEF Handler
  <1> HIDE DEF q
  <1>5. ~req[r].held /\ req[r].uid \in UIDs
    BY <1>1, <1>3 DEF Placed, Holding, Serving
  <1>6. Placed(q) /\ Slots(r, q)
    BY <1>2, <1>3, <1>4, <1>5, AfterFailureFacts DEF Placed, Slots, Holding, Serving
  <1>7. Follows(req[r], bind[Session(r)]) => Follows(q, NoUID)
    BY <1>2, <1>3, <1>4, AfterFailureFacts DEF Follows, Serving, Holding
  <1>8. StepsLeft(q) < StepsLeft(req[r])
    <2>1. req[r].i \in Int /\ q.i = req[r].i
      BY <1>1, <1>2, <1>4 DEF Handler
    <2>2. StepsFrom(req[r]) = 6 /\ StepsFrom(q) \in Int /\ StepsFrom(q) < 6
      BY <1>2, <1>3, <1>4, AfterFailureFacts DEF StepsFrom
    <2>3. QED
      BY <2>1, <2>2 DEF StepsLeft
  <1>9. QED
    BY <1>1, <1>3, <1>4, <1>6, <1>7, <1>8, HandlerFacts DEF Moves, TypeOK

LEMMA NoteWafMoves ==
  ASSUME IInv, NEW r \in Requests, NoteWaf(r)
  PROVE  \E q \in Handler : Moves(r, q)
  <1> USE PlaceFacts
  <1>1. req[r] \in Handler /\ TypeOK /\ Placed(req[r])
    BY HandlerFacts DEF IInv
  <1> DEFINE blocked == [req[r] EXCEPT !.pc = "done", !.outcome = "wafBlocked"]
             on == [req[r] EXCEPT !.pc = "rotate"]
             hits == waf.hits \cup {req[r].uid}
             active == waf.active \/ Cardinality(hits) >= WafThreshold
  <1>2. /\ req[r].pc = "waf" /\ ~req[r].held /\ req[r].uid \in UIDs
        /\ UNCHANGED <<world, acct, inFlight, bind, degraded>>
    BY <1>1 DEF NoteWaf, At, Placed, Holding, Serving
  <1>3. waf' \in [hits : SUBSET UIDs, active : BOOLEAN]
    <2>1. waf.hits \subseteq UIDs /\ hits \subseteq UIDs /\ active \in BOOLEAN
      BY <1>1, <1>2 DEF TypeOK
    <2>2. waf' = waf \/ waf' = [hits |-> {}, active |-> active] \/ waf' = [hits |-> hits, active |-> active]
      BY DEF NoteWaf
    <2> HIDE DEF hits, active
    <2>3. QED
      BY <1>1, <2>1, <2>2 DEF TypeOK
  <1>4. /\ blocked \in Handler /\ blocked.pc = "done" /\ blocked.outcome = "wafBlocked" /\ blocked.last = req[r].last
        /\ blocked.uid = req[r].uid /\ blocked.held = req[r].held /\ blocked.i = req[r].i
        /\ blocked.sticky = req[r].sticky
    BY <1>1, ZenonT(40) DEF Handler, Outcomes
  <1>5. /\ on \in Handler /\ on.pc = "rotate" /\ on.outcome = req[r].outcome /\ on.last = req[r].last
        /\ on.uid = req[r].uid /\ on.held = req[r].held /\ on.i = req[r].i /\ on.sticky = req[r].sticky
    BY <1>1 DEF Handler
  <1>6. req' = [req EXCEPT ![r] = blocked] \/ req' = [req EXCEPT ![r] = on]
    BY DEF NoteWaf, Become
  <1> HIDE DEF blocked, on
  <1>7. ASSUME NEW q \in {blocked, on}
        PROVE  /\ Placed(q) /\ Slots(r, q) /\ StepsLeft(q) < StepsLeft(req[r])
               /\ Follows(req[r], bind[Session(r)]) => Follows(q, bind[Session(r)])
    <2>1. Placed(q) /\ Slots(r, q)
      BY <1>1, <1>2, <1>4, <1>5, <1>7 DEF Placed, Slots, Holding, Serving
    <2>2. StepsLeft(q) < StepsLeft(req[r])
      BY <1>1, <1>2, <1>4, <1>5, <1>7 DEF StepsLeft, StepsFrom, Handler
    <2>3. Follows(req[r], bind[Session(r)]) => Follows(q, bind[Session(r)])
      BY <1>1, <1>2, <1>4, <1>5, <1>7 DEF Follows, Serving, Holding
    <2>4. QED
      BY <2>1, <2>2, <2>3
  <1>8. QED
    BY <1>1, <1>2, <1>3, <1>4, <1>5, <1>6, <1>7, HandlerFacts DEF Moves, TypeOK

LEMMA RotateMoves ==
  ASSUME IInv, NEW r \in Requests, Rotate(r) \/ LeaveInPause(r)
  PROVE  \E q \in Handler : Moves(r, q)
  <1> USE PlaceFacts
  <1>1. req[r] \in Handler /\ TypeOK /\ Placed(req[r])
    BY HandlerFacts DEF IInv
  <1> DEFINE again == [req[r] EXCEPT !.pc = "pick", !.i = @ + 1, !.uid = NoUID]
             over(o) == [req[r] EXCEPT !.pc = "done", !.outcome = o]
  <1>2. /\ req[r].pc = "rotate" /\ ~req[r].held
        /\ UNCHANGED <<world, acct, inFlight, bind, degraded, waf>>
        /\ \/ req[r].i + 1 < MaxRotate /\ req' = [req EXCEPT ![r] = again]
           \/ req' = [req EXCEPT ![r] = over("exhausted")]
           \/ req[r].last # "content" /\ req' = [req EXCEPT ![r] = over("cancelled")]
    BY <1>1 DEF Rotate, LeaveInPause, At, Become, Placed, Holding, Serving
  <1>3. CASE req[r].i + 1 < MaxRotate /\ req' = [req EXCEPT ![r] = again]
    <2>1. req[r].i + 1 \in 0..(MaxRotate - 1)
      BY <1>1, <1>3 DEF Handler
    <2>2. /\ again \in Handler /\ again.pc = "pick" /\ again.i = req[r].i + 1 /\ again.outcome = req[r].outcome
          /\ again.held = req[r].held /\ again.sticky = req[r].sticky
      BY <1>1, <2>1 DEF Handler
    <2> HIDE DEF again
    <2>3. Placed(again)
      BY <1>2, <2>2 DEF Placed, Holding, Serving
    <2>4. Follows(req[r], bind[Session(r)]) => Follows(again, bind[Session(r)])
      BY <1>2, <2>2 DEF Follows, Serving, Holding
    <2>5. StepsLeft(again) < StepsLeft(req[r])
      <3>1. StepsFrom(again) <= 12 /\ StepsFrom(again) \in Int /\ StepsFrom(req[r]) = 4
        BY <1>2, <2>2 DEF StepsFrom
      <3>2. req[r].i \in Int
        BY <1>1 DEF Handler
      <3>3. QED
        BY <2>2, <3>1, <3>2 DEF StepsLeft
    <2>6. QED
      BY <1>1, <1>2, <1>3, <2>2, <2>3, <2>4, <2>5, QuietMove
  <1>4. ASSUME NEW o \in {"exhausted", "cancelled"}, req' = [req EXCEPT ![r] = over(o)],
               req[r].last # "content" \/ o = "exhausted"
        PROVE  \E q \in Handler : Moves(r, q)
    <2> DEFINE q == over(o)
    <2>0. o \in Outcomes
      BY <1>4 DEF Outcomes
    <2>1. /\ q \in Handler /\ q.pc = "done" /\ q.outcome = o /\ q.last = req[r].last
          /\ q.held = req[r].held /\ q.i = req[r].i /\ q.sticky = req[r].sticky
      BY <1>1, <2>0 DEF Handler
    <2>2. req' = [req EXCEPT ![r] = q]
      BY <1>4
    <2> HIDE DEF q
    <2>3. Placed(q)
      BY <1>2, <2>1 DEF Placed, Holding, Serving
    <2>4. Follows(req[r], bind[Session(r)]) => Follows(q, bind[Session(r)])
      BY <1>2, <2>1 DEF Follows, Serving, Holding
    <2>5. StepsLeft(q) < StepsLeft(req[r])
      BY <1>1, <1>2, <2>1 DEF StepsLeft, StepsFrom, Handler
    <2>6. QED
      BY <1>1, <1>2, <2>1, <2>2, <2>3, <2>4, <2>5, QuietMove
  <1>5. QED
    BY <1>2, <1>3, <1>4

LEMMA GiveBackMoves ==
  ASSUME IInv, NEW r \in Requests, Retry(r) \/ StreamEnds(r)
  PROVE  \E q \in Handler : Moves(r, q)
  <1> USE PlaceFacts
  <1>1. req[r] \in Handler /\ TypeOK /\ Placed(req[r])
    BY HandlerFacts DEF IInv
  <1> DEFINE on == [req[r] EXCEPT !.pc = "rotate", !.held = FALSE]
             over == [req[r] EXCEPT !.pc = "done", !.held = FALSE, !.outcome = "success"]
  <1>2. /\ on \in Handler /\ on.pc = "rotate" /\ on.outcome = req[r].outcome /\ on.last = req[r].last
        /\ ~on.held /\ on.i = req[r].i /\ on.sticky = req[r].sticky
    BY <1>1 DEF Handler
  <1>0. "success" \in Outcomes
    BY DEF Outcomes
  <1>3. /\ over \in Handler /\ over.pc = "done" /\ over.outcome = "success" /\ over.uid = req[r].uid
        /\ ~over.held /\ over.i = req[r].i
    BY <1>0, <1>1 DEF Handler
  <1>4. /\ inFlight' = [inFlight EXCEPT ![req[r].uid] = @ - 1]
        /\ UNCHANGED <<world, acct, bind, degraded, waf>>
        /\ \/ req[r].pc = "retry" /\ req' = [req EXCEPT ![r] = on]
           \/ req[r].pc = "stream" /\ req' = [req EXCEPT ![r] = over]
    BY DEF Retry, StreamEnds, At, Become
  <1> HIDE DEF on, over
  <1>5. req[r].held /\ req[r].uid \in UIDs
    BY <1>1, <1>4 DEF Placed, Holding, Serving
  <1>6. CASE req[r].pc = "retry" /\ req' = [req EXCEPT ![r] = on]
    <2>1. Placed(on) /\ Slots(r, on)
      BY <1>2, <1>4, <1>5 DEF Placed, Slots, Holding, Serving
    <2>2. Follows(req[r], bind[Session(r)]) => Follows(on, bind[Session(r)])
      BY <1>2, <1>6 DEF Follows, Serving, Holding
    <2>3. StepsLeft(on) < StepsLeft(req[r])
      BY <1>1, <1>2, <1>6 DEF StepsLeft, StepsFrom, Handler
    <2>4. QED
      BY <1>1, <1>2, <1>4, <1>6, <2>1, <2>2, <2>3, HandlerFacts DEF Moves, TypeOK
  <1>7. CASE req[r].pc = "stream" /\ req' = [req EXCEPT ![r] = over]
    <2>1. Placed(over) /\ Slots(r, over)
      BY <1>3, <1>4, <1>5 DEF Placed, Slots, Holding, Serving
    <2>2. Follows(req[r], bind[Session(r)]) => Follows(over, bind[Session(r)])
      BY <1>3, <1>7 DEF Follows, Serving, Holding
    <2>3. StepsLeft(over) < StepsLeft(req[r])
      BY <1>1, <1>3, <1>7 DEF StepsLeft, StepsFrom, Handler
    <2>4. QED
      BY <1>1, <1>3, <1>4, <1>7, <2>1, <2>2, <2>3, HandlerFacts DEF Moves, TypeOK
  <1>8. QED
    BY <1>4, <1>6, <1>7

LEMMA UnblockKeepsHealth == \A e \in Entry, m \in Models : Healthy(e) => Healthy(UnblockModel(e, m))
  BY DEF Healthy, UnblockModel, Entry

LEMMA BindMoves ==
  ASSUME IInv, NEW r \in Requests, ClearModelBlock(r) \/ Bind(r)
  PROVE  \E q \in Handler : Moves(r, q)
  <1> USE PlaceFacts
  <1>1. req[r] \in Handler /\ TypeOK /\ Placed(req[r]) /\ Model[r] \in Models
    BY HandlerFacts, RotationAssumption DEF IInv
  <1>2. CASE ClearModelBlock(r)
    <2> DEFINE q == [req[r] EXCEPT !.pc = "bind"]
               e == UnblockModel(acct[req[r].uid], Model[r])
    <2>1. /\ q \in Handler /\ q.pc = "bind" /\ q.outcome = req[r].outcome /\ q.uid = req[r].uid
          /\ q.held = req[r].held /\ q.i = req[r].i /\ q.sticky = req[r].sticky
      BY <1>1 DEF Handler
    <2>2. /\ req[r].pc = "unblock" /\ req' = [req EXCEPT ![r] = q] /\ acct' = [acct EXCEPT ![req[r].uid] = e]
          /\ UNCHANGED <<world, inFlight, bind, degraded, waf>>
      BY <1>2 DEF ClearModelBlock, At, Become
    <2>3. req[r].uid \in UIDs /\ acct[req[r].uid] \in Entry
      BY <1>1, <2>2, HandlerFacts DEF Placed, Holding, Serving
    <2>4. e \in Entry /\ (Healthy(acct[req[r].uid]) => Healthy(e))
      BY <1>1, <2>3, ModelRowsType, UnblockKeepsHealth
    <2> HIDE DEF q, e
    <2>5. /\ acct' \in [UIDs -> Entry]
          /\ \A u \in UIDs : Healthy(acct[u]) => Healthy(acct'[u])
      BY <1>1, <2>2, <2>3, <2>4 DEF TypeOK
    <2>6. Placed(q) /\ Slots(r, q)
      BY <1>1, <2>1, <2>2, <2>3 DEF Placed, Slots, Holding, Serving
    <2>7. Follows(req[r], bind[Session(r)]) => Follows(q, bind[Session(r)])
      BY <2>1, <2>2 DEF Follows, Serving, Holding
    <2>8. StepsLeft(q) < StepsLeft(req[r])
      BY <1>1, <2>1, <2>2 DEF StepsLeft, StepsFrom, Handler
    <2>9. QED
      BY <1>1, <2>1, <2>2, <2>5, <2>6, <2>7, <2>8, HandlerFacts DEF Moves, TypeOK
  <1>3. CASE Bind(r)
    <2> DEFINE q == [req[r] EXCEPT !.pc = "stream"]
    <2>1. /\ q \in Handler /\ q.pc = "stream" /\ q.outcome = req[r].outcome /\ q.uid = req[r].uid
          /\ q.held = req[r].held /\ q.i = req[r].i /\ q.sticky = req[r].sticky
      BY <1>1 DEF Handler
    <2>2. /\ req[r].pc = "bind" /\ req' = [req EXCEPT ![r] = q]
          /\ bind' = [bind EXCEPT ![Session(r)] = req[r].uid]
          /\ UNCHANGED <<world, acct, inFlight, degraded, waf>>
      BY <1>3 DEF Bind, At, Become
    <2>3. req[r].uid \in UIDs
      BY <1>1, <2>2 DEF Placed, Holding, Serving
    <2> HIDE DEF q
    <2>4. Placed(q) /\ Slots(r, q)
      BY <1>1, <2>1, <2>2, <2>3 DEF Placed, Slots, Holding, Serving
    <2>5. Follows(req[r], bind[Session(r)]) => Follows(q, req[r].uid)
      BY <2>1, <2>2 DEF Follows, Serving, Holding
    <2>6. StepsLeft(q) < StepsLeft(req[r])
      BY <1>1, <2>1, <2>2 DEF StepsLeft, StepsFrom, Handler
    <2>7. QED
      BY <1>1, <2>1, <2>2, <2>3, <2>4, <2>5, <2>6, HandlerFacts DEF Moves, TypeOK
  <1>4. QED
    BY <1>2, <1>3

-----------------------------------------------------------------------------
(* Arrival, and the environment *)

LEMMA BeginMoves ==
  ASSUME IInv, NEW r \in Requests, Begin(r), world.pool \subseteq UIDs
  PROVE  \E q \in Handler : Moves(r, q)
  <1> USE PlaceFacts
  <1>1. req[r] \in Handler /\ TypeOK /\ Placed(req[r]) /\ Session(r) \in Keys /\ degraded \in BOOLEAN
    BY HandlerFacts DEF IInv, TypeOK
  <1> DEFINE rw == Degradable /\ degraded
  <1>2. req[r].pc \in {"idle", "done"} /\ UNCHANGED <<world, acct, inFlight, degraded, waf>>
    BY DEF Begin
  <1>3. Resolve(Session(r), Model[r]) \subseteq UIDs \cup {NoUID}
    BY <1>1 DEF Resolve, TypeOK
  <1>4. rw \in BOOLEAN
    BY <1>1, RotationAssumption
  <1>5. PICK u \in UIDs \cup {NoUID} :
          /\ bind' = [bind EXCEPT ![Session(r)] = u]
          /\ req' = [req EXCEPT ![r] = [NewRequest EXCEPT !.pc = "pick", !.sticky = u, !.rewritten = rw]]
    BY <1>3 DEF Begin, Become
  <1> HIDE DEF rw
  <1> DEFINE q == [NewRequest EXCEPT !.pc = "pick", !.sticky = u, !.rewritten = rw]
  <1>6. /\ q \in Handler /\ q.pc = "pick" /\ q.sticky = u /\ ~q.held /\ q.outcome = "none"
    BY <1>4, <1>5, NewRequestType DEF NewRequest
  <1>7. req' = [req EXCEPT ![r] = q]
    BY <1>5
  <1> HIDE DEF q
  <1>a. ~req[r].held /\ q.held = FALSE /\ req[r].held = FALSE
    <2>1. req[r].held \in BOOLEAN /\ q.held \in BOOLEAN
      BY <1>1, <1>6 DEF Handler
    <2>2. QED
      BY <1>1, <1>2, <1>6, <2>1 DEF Placed, Holding
  <1>8. Placed(q) /\ Slots(r, q)
    <2>1. Placed(q)
      BY <1>6 DEF Placed, Holding, Serving
    <2>2. QED
      BY <1>2, <1>a, <2>1 DEF Slots
  <1>9. Follows(q, u)
    BY <1>6 DEF Follows, Serving, Holding
  <1>10. QED
    BY <1>1, <1>2, <1>5, <1>6, <1>7, <1>8, <1>9 DEF Moves, TypeOK

\* Every step of a handler.
LEMMA HandlerMoves ==
  ASSUME IInv, NEW r \in Requests, Begin(r) \/ Handle(r) \/ ClientLeaves(r) \/ LeaveInPause(r)
  PROVE  \E q \in Handler : Moves(r, q)
  <1>1. world.pool \subseteq UIDs
    BY HandlerFacts DEF IInv, World
  <1>2. CASE Handle(r)
    BY <1>1, <1>2, ChooseMoves, PickAnyMoves, AcquireMoves, CallMoves, ReleaseMoves, UnbindMoves, NoteWafMoves,
       GiveBackMoves, RotateMoves, BindMoves DEF Handle
  <1>3. QED
    BY <1>1, <1>2, BeginMoves, CallMoves, RotateMoves

LEMMA ElapseKeepsHealth == \A e \in Entry : Healthy(e) => Healthy(Elapse(e))
  BY DEF Healthy, Elapse, Entry, Active, Later

\* What the environment may do: no handler moves, no slot is taken, and accounts
\* only recover.
Around ==
  /\ UNCHANGED <<world, inFlight, req>>
  /\ acct' \in [UIDs -> Entry] /\ (\A u \in UIDs : Healthy(acct[u]) => Healthy(acct'[u]))
  /\ bind' \in [Keys -> UIDs \cup {NoUID}] /\ ("unbind" \notin world.env => bind' = bind)
  /\ degraded' \in BOOLEAN /\ waf' \in [hits : SUBSET UIDs, active : BOOLEAN]
  /\ "expire" \notin world.env => waf' = waf

LEMMA EnvironmentAround ==
  ASSUME TypeOK, Tick \/ GateExpires \/ (\E k \in Keys : BindingExpires(k)) \/ UNCHANGED vars
  PROVE  Around
  <1>1. CASE Tick
    BY <1>1, ElapseType, ElapseKeepsHealth DEF Around, Tick, TypeOK
  <1>2. CASE GateExpires
    <2>1. waf' \in [hits : SUBSET UIDs, active : BOOLEAN] /\ degraded' \in BOOLEAN
      <3>1. waf \in [hits : SUBSET UIDs, active : BOOLEAN] /\ degraded \in BOOLEAN
        BY DEF TypeOK
      <3>2. [waf EXCEPT !.active = FALSE] \in [hits : SUBSET UIDs, active : BOOLEAN]
        BY <3>1
      <3>3. \A u : [waf EXCEPT !.hits = @ \ {u}] \in [hits : SUBSET UIDs, active : BOOLEAN]
        BY <3>1
      <3>4. QED
        BY <1>2, <3>1, <3>2, <3>3 DEF GateExpires
    <2>2. QED
      BY <1>2, <2>1 DEF Around, GateExpires, TypeOK
  <1>3. CASE \E k \in Keys : BindingExpires(k)
    BY <1>3 DEF Around, BindingExpires, TypeOK
  <1>4. CASE UNCHANGED vars
    BY <1>4 DEF Around, vars, TypeOK
  <1>5. QED
    BY <1>1, <1>2, <1>3, <1>4

LEMMA StepCases ==
  ASSUME IInv, [Next]_vars
  PROVE  (\E r \in world.clients, q \in Handler : Moves(r, q)) \/ Around
  <1>1. world.clients \subseteq Requests /\ TypeOK
    BY WorldAssumption DEF IInv, TypeOK, World
  <1>2. CASE \E r \in world.clients : Begin(r) \/ Handle(r) \/ ClientLeaves(r) \/ LeaveInPause(r)
    BY <1>1, <1>2, HandlerMoves
  <1>3. CASE Tick \/ GateExpires \/ (\E k \in Keys : BindingExpires(k)) \/ UNCHANGED vars
    BY <1>1, <1>3, EnvironmentAround
  <1>4. QED
    BY <1>2, <1>3 DEF Next

-----------------------------------------------------------------------------
(* Type correctness *)

LEMMA InitIInv == Init => IInv
  <1> SUFFICES ASSUME Init PROVE IInv
    OBVIOUS
  <1>1. TypeOK
    <2>1. acct \in [UIDs -> Entry] /\ inFlight \in [UIDs -> Int] /\ bind \in [Keys -> UIDs \cup {NoUID}]
      BY FreshType DEF Init
    <2>2. req \in [Requests -> Handler]
      BY NewRequestType DEF Init
    <2>3. world \in Worlds /\ degraded \in BOOLEAN /\ waf \in [hits : SUBSET UIDs, active : BOOLEAN]
      BY DEF Init
    <2>4. QED
      BY <2>1, <2>2, <2>3 DEF TypeOK
  <1>2. \A r \in Requests : Placed(req[r])
    BY DEF Init, NewRequest, Placed, Holding, Serving
  <1>3. QED
    BY <1>1, <1>2 DEF IInv

LEMMA MovesKeepsIInv ==
  ASSUME IInv, NEW r \in Requests, NEW q \in Handler, Moves(r, q)
  PROVE  IInv'
  <1>1. TypeOK /\ Session(r) \in Keys
    BY HandlerFacts DEF IInv
  <1>2. inFlight' \in [UIDs -> Int]
    BY <1>1 DEF Moves, Slots, TypeOK
  <1>3. bind' \in [Keys -> UIDs \cup {NoUID}]
    BY <1>1 DEF Moves, TypeOK
  <1>4. req' \in [Requests -> Handler] /\ world' \in Worlds
    BY <1>1 DEF Moves, TypeOK
  <1>5. TypeOK'
    BY <1>2, <1>3, <1>4 DEF Moves, TypeOK
  <1>6. \A s \in Requests : Placed(req'[s])
    BY <1>1 DEF Moves, TypeOK, IInv
  <1>7. QED
    BY <1>5, <1>6 DEF IInv, Placed

LEMMA AroundKeepsIInv == IInv /\ Around => IInv'
  BY DEF IInv, Around, TypeOK, Placed

LEMMA NextIInv == IInv /\ [Next]_vars => IInv'
  <1> SUFFICES ASSUME IInv, [Next]_vars PROVE IInv'
    OBVIOUS
  <1>1. world.clients \subseteq Requests
    BY WorldAssumption DEF IInv, TypeOK, World
  <1>2. QED
    BY <1>1, StepCases, MovesKeepsIInv, AroundKeepsIInv

LEMMA Inductive == Spec => []IInv
  BY InitIInv, NextIInv, PTL DEF Spec

\* Whatever answers come and whoever else runs, every handler, account and shared structure
\* of handler.go, pool and session keeps a value the code can give it.
THEOREM TypeCorrect == Spec => []TypeOK
  <1>1. IInv => TypeOK
    BY DEF IInv
  <1>2. QED
    BY <1>1, Inductive, PTL

-----------------------------------------------------------------------------
(* Slots *)

Holders(u) == {r \in Requests : req[r].held /\ req[r].uid = u}
Counted == \A u \in UIDs : inFlight[u] = Cardinality(Holders(u))

LEMMA MovesKeepsCount ==
  ASSUME IInv, Counted, NEW r \in Requests, NEW q \in Handler, Moves(r, q)
  PROVE  Counted'
  <1> SUFFICES ASSUME NEW u \in UIDs
               PROVE  inFlight'[u] = Cardinality({s \in Requests : req'[s].held /\ req'[s].uid = u})
    BY DEF Counted, Holders
  <1> DEFINE after == {s \in Requests : req'[s].held /\ req'[s].uid = u}
  <1>1. TypeOK /\ IsFiniteSet(Requests)
    BY RotationAssumption DEF IInv
  <1>2. \A s \in Requests : req'[s] = IF s = r THEN q ELSE req[s]
    BY <1>1 DEF Moves, TypeOK
  <1>3. IsFiniteSet(Holders(u)) /\ inFlight[u] = Cardinality(Holders(u)) /\ inFlight[u] \in Int
    BY <1>1, FS_Subset DEF Holders, Counted, TypeOK
  <1>4. CASE q.held = req[r].held /\ (q.held => q.uid = req[r].uid) /\ inFlight' = inFlight
    <2>1. after = Holders(u)
      BY <1>2, <1>4 DEF Holders
    <2>2. QED
      BY <1>3, <1>4, <2>1
  <1>5. CASE ~req[r].held /\ q.held /\ q.uid \in UIDs /\ inFlight' = [inFlight EXCEPT ![q.uid] = @ + 1]
    <2>1. CASE q.uid = u
      <3>1. after = Holders(u) \cup {r} /\ r \notin Holders(u)
        BY <1>2, <1>5, <2>1 DEF Holders
      <3>2. Cardinality(after) = Cardinality(Holders(u)) + 1
        BY <1>3, <3>1, FS_AddElement
      <3>3. inFlight'[u] = inFlight[u] + 1
        BY <1>1, <1>5, <2>1 DEF TypeOK
      <3>4. QED
        BY <1>3, <3>2, <3>3
    <2>2. CASE q.uid # u
      <3>1. after = Holders(u) /\ inFlight'[u] = inFlight[u]
        BY <1>1, <1>2, <1>5, <2>2 DEF Holders, TypeOK
      <3>2. QED
        BY <1>3, <3>1
    <2>3. QED
      BY <2>1, <2>2
  <1>6. CASE req[r].held /\ ~q.held /\ req[r].uid \in UIDs /\ inFlight' = [inFlight EXCEPT ![req[r].uid] = @ - 1]
    <2>1. CASE req[r].uid = u
      <3>1. after = Holders(u) \ {r} /\ r \in Holders(u)
        BY <1>2, <1>6, <2>1 DEF Holders
      <3>2. Cardinality(after) = Cardinality(Holders(u)) - 1
        BY <1>3, <3>1, FS_RemoveElement
      <3>3. inFlight'[u] = inFlight[u] - 1
        BY <1>1, <1>6, <2>1 DEF TypeOK
      <3>4. QED
        BY <1>3, <3>2, <3>3
    <2>2. CASE req[r].uid # u
      <3>1. after = Holders(u) /\ inFlight'[u] = inFlight[u]
        BY <1>1, <1>2, <1>6, <2>2 DEF Holders, TypeOK
      <3>2. QED
        BY <1>3, <3>1
    <2>3. QED
      BY <2>1, <2>2
  <1>7. QED
    BY <1>4, <1>5, <1>6 DEF Moves, Slots

\* However many requests run, rotate, degrade, fail or are left by their clients: the counters
\* of in-flight requests are exactly the slots held, and no finished request holds one.
THEOREM NoSlotLeaks == Spec => []SlotsConserved
  <1>1. Init => Counted
    <2> SUFFICES ASSUME Init, NEW u \in UIDs PROVE inFlight[u] = Cardinality(Holders(u))
      BY DEF Counted
    <2>1. Holders(u) = {}
      BY DEF Holders, Init, NewRequest
    <2>2. QED
      BY <2>1, FS_EmptySet DEF Init
  <1>2. IInv /\ Counted /\ [Next]_vars => Counted'
    <2> SUFFICES ASSUME IInv, Counted, [Next]_vars PROVE Counted'
      OBVIOUS
    <2>1. world.clients \subseteq Requests
      BY WorldAssumption DEF IInv, TypeOK, World
    <2>2. Around => Counted'
      BY DEF Around, Counted, Holders
    <2>3. QED
      BY <2>1, <2>2, StepCases, MovesKeepsCount
  <1>3. IInv /\ Counted => SlotsConserved
    BY DEF IInv, Counted, Holders, SlotsConserved, Placed, Holding
  <1>4. QED
    BY <1>1, <1>2, <1>3, Inductive, PTL DEF Spec

-----------------------------------------------------------------------------
(* Progress, accounts, sessions *)

\* Every step of a handler that has begun brings it nearer to its end, so a request ends after
\* a bounded number of steps of its own.
THEOREM LoopEnds == Spec => EveryStepLeadsOn
  <1> DEFINE A == \A r \in Requests : req[r].pc \notin {"idle", "done"} /\ req'[r] # req[r]
                                      => StepsLeft(req'[r]) < StepsLeft(req[r])
  <1>1. IInv /\ [Next]_vars => A
    <2> SUFFICES ASSUME IInv, [Next]_vars PROVE A
      OBVIOUS
    <2>1. world.clients \subseteq Requests /\ req \in [Requests -> Handler]
      BY WorldAssumption DEF IInv, TypeOK, World
    <2>2. ASSUME NEW r \in Requests, NEW q \in Handler, Moves(r, q) PROVE A
      <3>1. req' = [req EXCEPT ![r] = q] /\ (req[r].pc \notin {"idle", "done"} => StepsLeft(q) < StepsLeft(req[r]))
        BY <2>2 DEF Moves
      <3>2. QED
        BY <2>1, <3>1
    <2>3. CASE Around
      BY <2>3 DEF Around
    <2>4. QED
      BY <2>1, <2>2, <2>3, StepCases
  <1>2. QED
    BY <1>1, Inductive, PTL DEF Spec, EveryStepLeadsOn

\* While upstream finds fault with requests only, no account is cooled, degraded or disabled.
THEOREM NobodyPunished == Spec => []AccountsStayHealthy
  <1>1. Init => AccountsStayHealthy
    BY WorldAssumption DEF Init, AccountsStayHealthy, AllHealthy, Healthy, Fresh, Active, Never, World
  <1>2. IInv /\ AccountsStayHealthy /\ [Next]_vars => AccountsStayHealthy'
    <2> SUFFICES ASSUME IInv, AccountsStayHealthy, [Next]_vars PROVE AccountsStayHealthy'
      OBVIOUS
    <2>1. world.clients \subseteq Requests /\ world.pool \subseteq UIDs
      BY WorldAssumption DEF IInv, TypeOK, World
    <2>2. world' = world /\ (NoFaultOfAccounts => \A u \in UIDs : Healthy(acct[u]) => Healthy(acct'[u]))
      BY <2>1, StepCases DEF Moves, Around
    <2>3. QED
      BY <2>1, <2>2 DEF AccountsStayHealthy, AllHealthy, NoFaultOfAccounts, OnlyRequestsAtFault, Healthy
  <1>3. QED
    BY <1>1, <1>2, Inductive, PTL DEF Spec

Following ==
  OwnSessions /\ "unbind" \notin world.env
  => \A r \in world.clients : Follows(req[r], bind[Session(r)])

\* A session with one request at a time is left with the account that served it, or with none
\* after a failure, so that its next request never starts from an account that failed it.
THEOREM NextStartsRight == Spec => []SessionFollowsOutcome
  <1>1. Init => Following
    <2> SUFFICES ASSUME Init, NEW r \in world.clients PROVE Follows(req[r], bind[Session(r)])
      BY DEF Following
    <2>1. r \in Requests /\ Session(r) \in Keys
      BY WorldAssumption DEF Init, World, Session
    <2>2. req[r] = NewRequest /\ bind[Session(r)] = NoUID
      BY <2>1 DEF Init
    <2>3. QED
      BY <2>2 DEF Follows, NewRequest, Serving, Holding
  <1>2. IInv /\ Following /\ [Next]_vars => Following'
    <2> SUFFICES ASSUME IInv, Following, [Next]_vars PROVE Following'
      OBVIOUS
    <2>1. world.clients \subseteq Requests /\ req \in [Requests -> Handler] /\ bind \in [Keys -> UIDs \cup {NoUID}]
      BY WorldAssumption DEF IInv, TypeOK, World
    <2>2. \A s \in world.clients : Session(s) \in Keys
      BY <2>1, HandlerFacts DEF IInv
    <2>3. ASSUME NEW r \in world.clients, NEW q \in Handler, Moves(r, q)
          PROVE  Following'
      <3>1. PICK b \in UIDs \cup {NoUID} :
              /\ bind' = [bind EXCEPT ![Session(r)] = b]
              /\ Follows(req[r], bind[Session(r)]) => Follows(q, b)
        BY <2>3 DEF Moves
      <3>2. req' = [req EXCEPT ![r] = q] /\ world' = world
        BY <2>3 DEF Moves
      <3>3. SUFFICES ASSUME OwnSessions, "unbind" \notin world.env, NEW s \in world.clients
                     PROVE  Follows(req'[s], bind'[world.key[s]])
        BY <3>2 DEF Following, OwnSessions, Session, Follows
      <3>4. CASE s = r
        <4>1. req'[s] = q /\ bind'[world.key[s]] = b
          BY <2>1, <2>2, <3>1, <3>2, <3>4 DEF Session
        <4>2. Follows(req[r], bind[Session(r)])
          BY <3>3 DEF Following
        <4>3. QED
          BY <3>1, <4>1, <4>2
      <3>5. CASE s # r
        <4>1. Session(s) # Session(r)
          BY <3>3, <3>5 DEF OwnSessions
        <4>2. req'[s] = req[s] /\ bind'[world.key[s]] = bind[Session(s)]
          BY <2>1, <2>2, <3>1, <3>2, <3>5, <4>1 DEF Session
        <4>3. Follows(req[s], bind[Session(s)])
          BY <3>3 DEF Following
        <4>4. QED
          BY <4>2, <4>3
      <3>6. QED
        BY <3>4, <3>5
    <2>4. CASE Around
      BY <2>4 DEF Around, Following, OwnSessions, Session, Follows
    <2>5. QED
      BY <2>3, <2>4, StepCases
  <1>3. Following => SessionFollowsOutcome
    BY DEF Following, Follows, SessionFollowsOutcome, At
  <1>4. QED
    BY <1>1, <1>2, <1>3, Inductive, PTL DEF Spec

-----------------------------------------------------------------------------
(* Calls.  A step of a handler from p to q, seen by what it does to the calls made  *)
(* and to what the choice of an account depends on.                                 *)

Kept(p, q) ==
  q.calls = p.calls /\ q.tried = p.tried /\ q.rewritten = p.rewritten /\ q.i = p.i

Starts(p, q) ==
  q.pc = "pick" /\ q.calls = <<>> /\ q.tried = {} /\ q.i = 0 /\ q.outcome = "none"

Drops(p, q) ==
  /\ Kept(p, q) /\ q.outcome = p.outcome
  /\ \/ p.pc = "pick" /\ q.pc = "dropSticky" /\ q.sticky = p.sticky
     \/ p.pc = "dropSticky" /\ q.pc = "pick" /\ q.sticky = NoUID

Chooses(p, q) ==
  /\ p.pc = "pick" /\ q.pc = "acquire"
  /\ q.tried = p.tried \cup {q.uid}
  /\ IF p.sticky = NoUID THEN q.uid \notin p.tried ELSE q.uid = p.sticky
  /\ q.calls = p.calls /\ q.rewritten = p.rewritten /\ q.i = p.i /\ q.sticky = p.sticky
  /\ q.outcome = p.outcome

\* The steps that keep the account as well.
Proceeds(p, q) ==
  /\ Kept(p, q) /\ q.uid = p.uid /\ q.sticky = p.sticky /\ q.outcome = p.outcome
  /\ \/ <<p.pc, q.pc>> \in {<<"acquire", "call">>, <<"waf", "rotate">>, <<"retry", "rotate">>,
                            <<"unblock", "bind">>, <<"bind", "stream">>}
     \/ <<p.pc, q.pc>> = <<"call", "release">> /\ q.last = "refresh"

Fails(p, q) ==
  /\ p.pc \in {"acquire", "release", "unbind"} /\ q.pc = AfterFailure(q)
  /\ Kept(p, q) /\ q.uid = p.uid /\ q.last = p.last /\ q.outcome = p.outcome
  /\ q.sticky = IF p.pc = "unbind" THEN NoUID ELSE p.sticky

Calls(p, q) ==
  /\ p.pc = "call" /\ q.pc \in {"release", "unblock"} /\ q.calls = Append(p.calls, p.uid)
  /\ q.tried = p.tried /\ q.rewritten = p.rewritten /\ q.i = p.i /\ q.uid = p.uid /\ q.sticky = p.sticky
  /\ q.last \in world.kinds \/ "transport" \in world.env \/ q.outcome = "cancelled"
  /\ (q.pc = "unblock" => q.last = "ok") /\ (q.outcome = "none" => p.outcome = "none")

Degrades(p, q) ==
  /\ p.pc = "call" /\ q.pc = "retry" /\ q.calls = Append(p.calls, p.uid)
  /\ "content" \in world.kinds /\ ~p.rewritten /\ q.rewritten
  /\ q.tried = p.tried \ {p.uid} /\ q.i = p.i /\ q.uid = p.uid /\ q.sticky = p.sticky

Rotates(p, q) ==
  /\ p.pc = "rotate" /\ q.pc = "pick" /\ q.i = p.i + 1
  /\ q.calls = p.calls /\ q.tried = p.tried /\ q.rewritten = p.rewritten /\ q.sticky = p.sticky
  /\ q.outcome = p.outcome

Ends(p, q) == q.pc = "done" /\ Kept(p, q)

Shape(p, q) ==
  \/ Starts(p, q) \/ Drops(p, q) \/ Chooses(p, q) \/ Proceeds(p, q) \/ Fails(p, q)
  \/ Calls(p, q) \/ Degrades(p, q) \/ Rotates(p, q) \/ Ends(p, q)

LEMMA ChooseShape ==
  ASSUME IInv, NEW r \in Requests, Begin(r) \/ PickSticky(r) \/ DropSticky(r) \/ PickAny(r)
  PROVE  Shape(req[r], req'[r])
  <1>1. req[r] \in Handler /\ req \in [Requests -> Handler]
    BY DEF IInv, TypeOK
  <1>2. ASSUME Begin(r) PROVE Starts(req[r], req'[r])
    <2>1. PICK u, w : req' = [req EXCEPT ![r] = [NewRequest EXCEPT !.pc = "pick", !.sticky = u, !.rewritten = w]]
      BY <1>2 DEF Begin, Become
    <2>2. QED
      BY <1>1, <2>1 DEF NewRequest, Starts
  <1>3. ASSUME PickSticky(r) PROVE Drops(req[r], req'[r]) \/ Chooses(req[r], req'[r])
    <2>1. CASE Chosen(r, req[r].sticky)
      BY <1>1, <1>3, <2>1 DEF PickSticky, Become, At, Chosen, Handler, Chooses
    <2>2. CASE Become(r, [req[r] EXCEPT !.pc = "dropSticky"])
      BY <1>1, <1>3, <2>2 DEF PickSticky, Become, At, Handler, Drops, Kept
    <2>3. QED
      BY <1>3, <2>1, <2>2 DEF PickSticky
  <1>4. ASSUME DropSticky(r) PROVE Drops(req[r], req'[r])
    BY <1>1, <1>4 DEF DropSticky, Become, At, Handler, Drops, Kept
  <1>5. ASSUME PickAny(r) PROVE Chooses(req[r], req'[r]) \/ Ends(req[r], req'[r])
    <2>1. ASSUME NEW u \in Picks(r), Chosen(r, u) PROVE Chooses(req[r], req'[r])
      <3>1. u \notin req[r].tried
        BY <2>1 DEF Picks
      <3>2. QED
        BY <1>1, <1>5, <2>1, <3>1 DEF PickAny, Become, At, Chosen, Handler, Chooses
    <2>2. CASE Become(r, [req[r] EXCEPT !.pc = "done", !.outcome = "noAccount"])
      BY <1>1, <2>2 DEF Become, Handler, Ends, Kept
    <2>3. QED
      BY <1>5, <2>1, <2>2 DEF PickAny
  <1>6. QED
    BY <1>2, <1>3, <1>4, <1>5 DEF Shape

LEMMA CallShape ==
  ASSUME IInv, NEW r \in Requests, Acquire(r) \/ Answer(r) \/ ClientLeaves(r)
  PROVE  Shape(req[r], req'[r])
  <1>1. req[r] \in Handler /\ req \in [Requests -> Handler] /\ world.kinds \subseteq Kinds
    BY HandlerFacts DEF IInv, TypeOK, World
  <1>2. ASSUME Acquire(r) PROVE Proceeds(req[r], req'[r]) \/ Fails(req[r], req'[r])
    <2>1. CASE Become(r, [req[r] EXCEPT !.pc = AfterFailure(req[r])])
      BY <1>1, <1>2, <2>1 DEF Acquire, Become, At, Handler, Fails, Kept, AfterFailure
    <2>2. CASE Become(r, [req[r] EXCEPT !.pc = "call", !.held = TRUE])
      BY <1>1, <1>2, <2>2 DEF Acquire, Become, At, Handler, Proceeds, Kept
    <2>3. QED
      BY <1>2, <2>1, <2>2 DEF Acquire
  <1>3. ASSUME RefreshFails(r) PROVE Proceeds(req[r], req'[r])
    BY <1>1, <1>3 DEF RefreshFails, Returned, Become, At, Handler, Proceeds, Kept
  <1>4. ASSUME TransportFails(r) PROVE Calls(req[r], req'[r])
    BY <1>1, <1>4 DEF TransportFails, Returned, Become, At, Calls, Called, Handler
  <1>5. ASSUME ClientLeaves(r) PROVE Calls(req[r], req'[r])
    BY <1>1, <1>5 DEF ClientLeaves, Returned, Become, At, Calls, Called, Handler
  <1>6. ASSUME DegradeAndRetry(r) PROVE Degrades(req[r], req'[r])
    BY <1>1, <1>6 DEF DegradeAndRetry, Returned, Become, At, Degrades, Called, Handler
  <1>7. ASSUME AnswerOk(r) PROVE Calls(req[r], req'[r])
    BY <1>1, <1>7 DEF AnswerOk, Returned, Become, At, Calls, Called, Handler
  <1>8. ASSUME NEW kind \in world.kinds, AnswerFinal(r, kind) PROVE Calls(req[r], req'[r])
    BY <1>1, <1>8 DEF AnswerFinal, Returned, Become, At, Calls, Called, Handler, FinalKinds
  <1>9. ASSUME NEW kind \in world.kinds, AnswerRotating(r, kind) PROVE Calls(req[r], req'[r])
    BY <1>1, <1>9 DEF AnswerRotating, Returned, Become, At, Calls, Called, Handler
  <1>10. QED
    BY <1>2, <1>3, <1>4, <1>5, <1>6, <1>7, <1>8, <1>9 DEF Answer, Shape

LEMMA FailureShape ==
  ASSUME IInv, NEW r \in Requests, Release(r) \/ Unbind(r) \/ NoteWaf(r) \/ Retry(r)
  PROVE  Shape(req[r], req'[r])
  <1>1. req[r] \in Handler /\ req \in [Requests -> Handler]
    BY DEF IInv, TypeOK
  <1>2. ASSUME Release(r) PROVE Fails(req[r], req'[r])
    BY <1>1, <1>2 DEF Release, Become, At, Handler, Fails, Kept, AfterFailure
  <1>3. ASSUME Unbind(r) PROVE Fails(req[r], req'[r])
    BY <1>1, <1>3 DEF Unbind, Become, At, Handler, Fails, Kept, AfterFailure
  <1>4. ASSUME NoteWaf(r) PROVE Proceeds(req[r], req'[r]) \/ Ends(req[r], req'[r])
    BY <1>1, <1>4 DEF NoteWaf, Become, At, Handler, Proceeds, Ends, Kept
  <1>5. ASSUME Retry(r) PROVE Proceeds(req[r], req'[r])
    BY <1>1, <1>5 DEF Retry, Become, At, Handler, Proceeds, Kept
  <1>6. QED
    BY <1>2, <1>3, <1>4, <1>5 DEF Shape

LEMMA LastShape ==
  ASSUME IInv, NEW r \in Requests,
         Rotate(r) \/ LeaveInPause(r) \/ ClearModelBlock(r) \/ Bind(r) \/ StreamEnds(r)
  PROVE  Shape(req[r], req'[r])
  <1>1. req[r] \in Handler /\ req \in [Requests -> Handler]
    BY DEF IInv, TypeOK
  <1>2. ASSUME Rotate(r) PROVE Rotates(req[r], req'[r]) \/ Ends(req[r], req'[r])
    BY <1>1, <1>2 DEF Rotate, Become, At, Handler, Rotates, Ends, Kept
  <1>3. ASSUME LeaveInPause(r) PROVE Ends(req[r], req'[r])
    BY <1>1, <1>3 DEF LeaveInPause, Become, At, Handler, Ends, Kept
  <1>4. ASSUME ClearModelBlock(r) \/ Bind(r) PROVE Proceeds(req[r], req'[r])
    BY <1>1, <1>4 DEF ClearModelBlock, Bind, Become, At, Handler, Proceeds, Kept
  <1>5. ASSUME StreamEnds(r) PROVE Ends(req[r], req'[r])
    BY <1>1, <1>5 DEF StreamEnds, Become, At, Handler, Ends, Kept
  <1>6. QED
    BY <1>2, <1>3, <1>4, <1>5 DEF Shape

LEMMA HandlerShape ==
  ASSUME IInv, NEW r \in Requests, Begin(r) \/ Handle(r) \/ ClientLeaves(r) \/ LeaveInPause(r)
  PROVE  Shape(req[r], req'[r]) /\ (NoteWaf(r) \/ (req[r].pc # "waf" /\ waf' = waf))
  <1>1. Shape(req[r], req'[r])
    BY ChooseShape, CallShape, FailureShape, LastShape DEF Handle
  <1>2. NoteWaf(r) \/ (req[r].pc # "waf" /\ waf' = waf)
    <2>1. CASE Begin(r) \/ PickSticky(r) \/ DropSticky(r) \/ PickAny(r)
      BY <2>1 DEF Begin, PickSticky, DropSticky, PickAny, At
    <2>2. CASE Acquire(r) \/ ClientLeaves(r) \/ RefreshFails(r) \/ TransportFails(r) \/ AnswerOk(r) \/ DegradeAndRetry(r)
      BY <2>2 DEF Acquire, ClientLeaves, RefreshFails, TransportFails, AnswerOk, DegradeAndRetry, Returned, At
    <2>3. CASE \E kind \in world.kinds : AnswerFinal(r, kind) \/ AnswerRotating(r, kind)
      BY <2>3 DEF AnswerFinal, AnswerRotating, Returned, At
    <2>4. CASE Release(r) \/ Unbind(r) \/ Retry(r) \/ Rotate(r) \/ LeaveInPause(r)
      BY <2>4 DEF Release, Unbind, Retry, Rotate, LeaveInPause, At
    <2>5. CASE ClearModelBlock(r) \/ Bind(r) \/ StreamEnds(r)
      BY <2>5 DEF ClearModelBlock, Bind, StreamEnds, At
    <2>6. CASE Answer(r)
      BY <2>2, <2>3, <2>6 DEF Answer
    <2>7. QED
      BY <2>1, <2>2, <2>4, <2>5, <2>6 DEF Handle
  <1>3. QED
    BY <1>1, <1>2

-----------------------------------------------------------------------------
(* How often a request calls *)

\* The accounts called; those of them it may choose again; whether it is about to call one again.
Spent(q) == {q.calls[k] : k \in DOMAIN q.calls}
Owed(q) == Spent(q) \ q.tried
Twice(q) == q.pc \in {"acquire", "call"} /\ q.uid \in Spent(q)
Again(q) == Owed(q) # {} \/ Twice(q) \/ Repeats(q) # {}

\* A call for each rotation that began.
OneEach(q) ==
  /\ Len(q.calls) <= q.i + 1
  /\ q.pc \in {"pick", "dropSticky", "acquire", "call"} => Len(q.calls) <= q.i

\* The sticky account is the one in hand, and once called and failed it is given up.
StickyOnce(q) ==
  /\ q.pc \in {"acquire", "call"} => q.uid \in q.tried
  /\ q.pc \in {"acquire", "call", "release", "unbind", "retry"} => q.sticky \in {NoUID, q.uid}
  /\ q.pc = "waf" => q.sticky = NoUID
  /\ q.pc \in {"retry", "rotate", "pick", "dropSticky"} /\ q.sticky # NoUID /\ q.sticky \in Spent(q)
     => q.sticky \notin q.tried

\* An account is called again once at most: it is owed, or being called, or has been.
AgainOnce(q) ==
  /\ \A u, v \in Owed(q) : u = v
  /\ Owed(q) # {} => Repeats(q) = {} /\ ~Twice(q)
  /\ Twice(q) => Repeats(q) = {}
  /\ \A k, l \in Repeats(q) : k = l
  /\ Again(q) => q.rewritten /\ "content" \in world.kinds

Frugal(q) == OneEach(q) /\ StickyOnce(q) /\ AgainOnce(q)

\* What one more call adds.
LEMMA AppendCalls ==
  ASSUME NEW p \in Handler, NEW q \in Handler, p.uid \in UIDs, q.calls = Append(p.calls, p.uid)
  PROVE  /\ Len(p.calls) \in Nat /\ Len(q.calls) = Len(p.calls) + 1
         /\ Spent(q) = Spent(p) \cup {p.uid}
         /\ Repeats(q) = Repeats(p) \cup IF p.uid \in Spent(p) THEN {Len(p.calls) + 1} ELSE {}
  <1> DEFINE s == p.calls
             n == Len(s)
             u == p.uid
  <1>1. s \in Seq(UIDs) /\ n \in Nat /\ DOMAIN s = 1..n
    BY DEF Handler
  <1>2. Len(q.calls) = n + 1 /\ DOMAIN q.calls = 1..(n + 1)
    BY <1>1
  <1>3. q.calls[n + 1] = u /\ \A k \in 1..n : q.calls[k] = s[k]
    BY <1>1
  <1> HIDE DEF s, n, u
  <1>4. Spent(q) = Spent(p) \cup {u}
    <2>1. Spent(p) = {s[k] : k \in 1..n}
      BY <1>1 DEF Spent, s
    <2>2. Spent(q) = {q.calls[k] : k \in 1..(n + 1)}
      BY <1>2 DEF Spent
    <2>3. 1..(n + 1) = (1..n) \cup {n + 1}
      BY <1>1
    <2>4. QED
      BY <1>3, <2>1, <2>2, <2>3, ZenonT(40)
  <1>5. Repeats(q) = Repeats(p) \cup IF u \in Spent(p) THEN {n + 1} ELSE {}
    <2>1. Repeats(p) = {k \in 1..n : \E j \in 1..(k - 1) : s[j] = s[k]}
      BY <1>1 DEF Repeats, s
    <2>2. Repeats(q) = {k \in 1..(n + 1) : \E j \in 1..(k - 1) : q.calls[j] = q.calls[k]}
      BY <1>2 DEF Repeats
    <2>3. \A k \in 1..n : k \in Repeats(q) <=> k \in Repeats(p)
      <3>1. \A k \in 1..n : k \in 1..(n + 1) /\ 1..(k - 1) \subseteq 1..n
        BY <1>1
      <3>2. QED
        BY <1>3, <2>1, <2>2, <3>1
    <2>4. n + 1 \in Repeats(q) <=> u \in Spent(p)
      <3>1. n + 1 \in 1..(n + 1) /\ n + 1 \notin 1..n /\ 1..((n + 1) - 1) = 1..n
        BY <1>1
      <3>2. n + 1 \in Repeats(q) <=> \E j \in 1..((n + 1) - 1) : q.calls[j] = q.calls[n + 1]
        <4>1. \A k \in 1..(n + 1) : k \in Repeats(q) <=> \E j \in 1..(k - 1) : q.calls[j] = q.calls[k]
          BY <2>2
        <4>2. QED
          BY <3>1, <4>1
      <3>3. n + 1 \in Repeats(q) <=> \E j \in 1..n : s[j] = u
        BY <1>3, <3>1, <3>2
      <3>4. QED
        BY <1>1, <3>3 DEF Spent, s
    <2>5. 1..(n + 1) = (1..n) \cup {n + 1} /\ n + 1 \notin 1..n
      BY <1>1
    <2>6. QED
      BY <2>1, <2>2, <2>3, <2>4, <2>5
  <1>6. QED
    BY <1>1, <1>2, <1>4, <1>5 DEF s, n, u

\* What is said of the calls alone is kept with them.
LEMMA SameCalls ==
  ASSUME NEW p, NEW q, q.calls = p.calls
  PROVE  Spent(q) = Spent(p) /\ Repeats(q) = Repeats(p)
  BY DEF Spent, Repeats

LEMMA ShapeKeepsOneEach ==
  ASSUME NEW p \in Handler, NEW q \in Handler, p.pc = "call" => p.uid \in UIDs, Frugal(p), Shape(p, q)
  PROVE  OneEach(q)
  <1>1. p.i \in Nat /\ Len(p.calls) \in Nat /\ OneEach(p)
    BY RotationAssumption DEF Handler, Frugal
  <1>2. CASE Starts(p, q)
    BY <1>2 DEF Starts, OneEach
  <1>3. CASE Calls(p, q) \/ Degrades(p, q)
    BY <1>1, <1>3, AppendCalls DEF Calls, Degrades, OneEach
  <1>4. CASE Drops(p, q) \/ Chooses(p, q) \/ Proceeds(p, q) \/ Rotates(p, q) \/ Ends(p, q)
    BY <1>1, <1>4 DEF Drops, Chooses, Proceeds, Rotates, Ends, Kept, OneEach
  <1>5. CASE Fails(p, q)
    BY <1>1, <1>5 DEF Fails, Kept, OneEach, AfterFailure
  <1>6. QED
    BY <1>2, <1>3, <1>4, <1>5 DEF Shape

LEMMA ShapeKeepsStickyOnce ==
  ASSUME NEW p \in Handler, NEW q \in Handler, p.pc = "call" => p.uid \in UIDs, Frugal(p), Shape(p, q)
  PROVE  StickyOnce(q)
  <1>1. StickyOnce(p)
    BY DEF Frugal
  <1>2. CASE Starts(p, q)
    BY <1>2 DEF Starts, StickyOnce, Spent
  <1>3. CASE Calls(p, q)
    BY <1>1, <1>3 DEF Calls, StickyOnce
  <1>4. CASE Degrades(p, q)
    BY <1>1, <1>4 DEF Degrades, StickyOnce
  <1>5. CASE Drops(p, q)
    BY <1>1, <1>5, SameCalls DEF Drops, Kept, StickyOnce
  <1>6. CASE Chooses(p, q)
    BY <1>1, <1>6 DEF Chooses, StickyOnce
  <1>7. CASE Proceeds(p, q)
    BY <1>1, <1>7, SameCalls DEF Proceeds, Kept, StickyOnce
  <1>8. CASE Fails(p, q)
    BY <1>1, <1>8, SameCalls DEF Fails, Kept, StickyOnce, AfterFailure
  <1>9. CASE Rotates(p, q)
    BY <1>1, <1>9, SameCalls DEF Rotates, StickyOnce
  <1>10. CASE Ends(p, q)
    BY <1>10 DEF Ends, StickyOnce
  <1>11. QED
    BY <1>2, <1>3, <1>4, <1>5, <1>6, <1>7, <1>8, <1>9, <1>10 DEF Shape

LEMMA ShapeKeepsAgainOnce ==
  ASSUME NEW p \in Handler, NEW q \in Handler, p.pc = "call" => p.uid \in UIDs, Frugal(p), Shape(p, q)
  PROVE  AgainOnce(q)
  <1>1. StickyOnce(p) /\ AgainOnce(p)
    BY DEF Frugal
  <1>2. CASE Starts(p, q)
    <2>1. Spent(q) = {} /\ Repeats(q) = {}
      BY <1>2 DEF Starts, Spent, Repeats
    <2>2. QED
      BY <2>1 DEF AgainOnce, Again, Owed, Twice
  <1>3. CASE Calls(p, q)
    <2>1. p.uid \in p.tried
      BY <1>1, <1>3 DEF Calls, StickyOnce
    <2>2. Owed(q) = Owed(p) /\ ~Twice(q) /\ (Repeats(q) # {} => Again(p))
      BY <1>3, <2>1, AppendCalls DEF Calls, Owed, Twice, Again
    <2>3. CASE Twice(p)
      <3>1. Repeats(p) = {} /\ Owed(p) = {}
        BY <1>1, <2>3 DEF AgainOnce
      <3>2. \A k, l \in Repeats(q) : k = l
        BY <1>3, <3>1, AppendCalls DEF Calls
      <3>3. QED
        BY <1>1, <1>3, <2>2, <3>1, <3>2 DEF AgainOnce, Again, Calls
    <2>4. CASE ~Twice(p)
      <3>1. Repeats(q) = Repeats(p)
        <4>1. p.uid \in UIDs /\ p.uid \notin Spent(p) /\ q.calls = Append(p.calls, p.uid)
          BY <1>3, <2>4 DEF Calls, Twice
        <4>2. Repeats(q) = Repeats(p) \cup IF p.uid \in Spent(p) THEN {Len(p.calls) + 1} ELSE {}
          BY <4>1, AppendCalls
        <4>3. QED
          BY <4>1, <4>2
      <3>2. QED
        BY <1>1, <1>3, <2>2, <3>1 DEF AgainOnce, Again, Calls
    <2>5. QED
      BY <2>3, <2>4
  <1>4. CASE Degrades(p, q)
    <2>1. ~Again(p)
      BY <1>1, <1>4 DEF AgainOnce, Degrades
    <2>2. Spent(p) \subseteq p.tried /\ p.uid \notin Spent(p) /\ Repeats(p) = {}
      BY <1>4, <2>1 DEF Again, Owed, Twice, Degrades
    <2>3. Spent(q) = Spent(p) \cup {p.uid} /\ Repeats(q) = {}
      BY <1>4, <2>2, AppendCalls DEF Degrades
    <2>4. Owed(q) \subseteq {p.uid} /\ ~Twice(q)
      BY <1>4, <2>2, <2>3 DEF Owed, Degrades, Twice
    <2>5. QED
      BY <1>4, <2>3, <2>4 DEF AgainOnce, Again, Degrades
  <1>5. CASE Chooses(p, q)
    <2>1. Spent(q) = Spent(p) /\ Repeats(q) = Repeats(p) /\ ~Twice(p) /\ q.rewritten = p.rewritten
      BY <1>5, SameCalls DEF Chooses, Twice
    <2>2. Owed(q) = Owed(p) \ {q.uid}
      BY <1>5, <2>1 DEF Chooses, Owed
    <2>3. Twice(q) => q.uid \in Owed(p)
      <3>1. SUFFICES ASSUME Twice(q) PROVE q.uid \in Spent(p) /\ q.uid \notin p.tried
        BY DEF Owed
      <3>2. q.uid \in Spent(p)
        BY <2>1, <3>1 DEF Twice
      <3>3. q.uid \notin p.tried
        BY <1>1, <1>5, <3>2 DEF Chooses, StickyOnce
      <3>4. QED
        BY <3>2, <3>3
    <2>4. QED
      BY <1>1, <2>1, <2>2, <2>3 DEF AgainOnce, Again
  <1>6. CASE Drops(p, q) \/ Proceeds(p, q) \/ Fails(p, q) \/ Rotates(p, q) \/ Ends(p, q)
    <2>1. q.calls = p.calls /\ q.tried = p.tried /\ q.rewritten = p.rewritten
      BY <1>6 DEF Drops, Proceeds, Fails, Rotates, Ends, Kept
    <2>2. Spent(q) = Spent(p) /\ Repeats(q) = Repeats(p) /\ Owed(q) = Owed(p)
      BY <2>1, SameCalls DEF Owed
    <2>3. Twice(q) => Twice(p)
      BY <1>6, <2>2 DEF Drops, Proceeds, Fails, Rotates, Ends, Twice, AfterFailure
    <2>4. QED
      BY <1>1, <2>1, <2>2, <2>3 DEF AgainOnce, Again
  <1>7. QED
    BY <1>2, <1>3, <1>4, <1>5, <1>6 DEF Shape

AllFrugal == \A r \in Requests : Frugal(req[r])

LEMMA FrugalInit == Init => AllFrugal
  <1> SUFFICES ASSUME Init, NEW r \in Requests PROVE Frugal(req[r])
    BY DEF AllFrugal
  <1>1. req[r] = NewRequest
    BY DEF Init
  <1>2. Spent(NewRequest) = {} /\ Repeats(NewRequest) = {}
    BY DEF Spent, Repeats, NewRequest
  <1>3. OneEach(NewRequest) /\ StickyOnce(NewRequest)
    BY DEF OneEach, StickyOnce, NewRequest
  <1>4. AgainOnce(NewRequest)
    BY <1>2 DEF AgainOnce, Again, Owed, Twice
  <1>5. QED
    BY <1>1, <1>3, <1>4 DEF Frugal

\* Every step either is one of the environment, or takes the handler of one request on.
LEMMA StepShapes ==
  ASSUME IInv, [Next]_vars
  PROVE  \/ Around
         \/ \E r \in world.clients, q \in Handler :
              /\ req' = [req EXCEPT ![r] = q] /\ world' = world
              /\ Shape(req[r], q) /\ (NoteWaf(r) \/ (req[r].pc # "waf" /\ waf' = waf))
  <1>1. world.clients \subseteq Requests /\ TypeOK /\ req \in [Requests -> Handler]
    BY WorldAssumption DEF IInv, TypeOK, World
  <1>2. ASSUME NEW r \in world.clients, Begin(r) \/ Handle(r) \/ ClientLeaves(r) \/ LeaveInPause(r)
        PROVE  \E q \in Handler :
                 /\ req' = [req EXCEPT ![r] = q] /\ world' = world
                 /\ Shape(req[r], q) /\ (NoteWaf(r) \/ (req[r].pc # "waf" /\ waf' = waf))
    <2>1. PICK q \in Handler : Moves(r, q)
      BY <1>1, <1>2, HandlerMoves
    <2>2. req' = [req EXCEPT ![r] = q] /\ world' = world /\ req'[r] = q
      BY <1>1, <2>1 DEF Moves
    <2>3. QED
      BY <1>1, <1>2, <2>2, HandlerShape
  <1>3. CASE Tick \/ GateExpires \/ (\E k \in Keys : BindingExpires(k)) \/ UNCHANGED vars
    BY <1>1, <1>3, EnvironmentAround
  <1>4. QED
    BY <1>2, <1>3 DEF Next

LEMMA FrugalNext == IInv /\ AllFrugal /\ [Next]_vars => AllFrugal'
  <1> SUFFICES ASSUME IInv, AllFrugal, [Next]_vars PROVE AllFrugal'
    OBVIOUS
  <1>1. world.clients \subseteq Requests /\ req \in [Requests -> Handler]
    BY WorldAssumption DEF IInv, TypeOK, World
  <1>2. CASE Around
    BY <1>2, SMTT(30) DEF Around, AllFrugal, Frugal, OneEach, StickyOnce, AgainOnce, Again, Owed, Twice, Spent, Repeats
  <1>3. ASSUME NEW r \in world.clients, NEW q \in Handler, req' = [req EXCEPT ![r] = q], world' = world,
               Shape(req[r], q)
        PROVE  AllFrugal'
    <2>1. Frugal(q)
      <3>1. req[r] \in Handler /\ Frugal(req[r]) /\ (req[r].pc = "call" => req[r].uid \in UIDs)
        BY <1>1 DEF AllFrugal, IInv, Placed, Serving, Holding
      <3>2. QED
        BY <1>3, <3>1, ShapeKeepsOneEach, ShapeKeepsStickyOnce, ShapeKeepsAgainOnce DEF Frugal
    <2>2. \A s \in Requests : Frugal(req'[s])
      BY <1>1, <1>3, <2>1 DEF AllFrugal
    <2>3. QED
      BY <1>3, <2>2, ZenonT(40) DEF AllFrugal, Frugal, OneEach, StickyOnce, AgainOnce, Again, Owed, Twice, Spent, Repeats
  <1>4. QED
    BY <1>2, <1>3, StepShapes

LEMMA FrugalAlways == Spec => [](IInv /\ AllFrugal)
  BY FrugalInit, FrugalNext, Inductive, PTL DEF Spec

\* However requests compete for slots, lose their sticky accounts and rotate: a request calls
\* upstream once per rotation at most, and the same account twice only in the one retry with
\* the neutral prompt.
THEOREM OneCallARotation == Spec => []CallsBounded
  <1>1. AllFrugal => CallsBounded
    BY DEF AllFrugal, Frugal, OneEach, AgainOnce, Again, CallsBounded
  <1>2. QED
    BY <1>1, FrugalAlways, PTL

-----------------------------------------------------------------------------
(* A WAF that refuses every call *)

\* The worlds of WafAmplification.
Refused == world.kinds \subseteq WafKinds /\ world.env \cap {"expire", "transport"} = {}

\* A request has noted every call but the one it is about to note, and stops when told.
Noting(q) ==
  /\ q.pc # "retry"
  /\ q.pc = "waf" => q.outcome = "none" /\ q.last \in WafKinds
  /\ ~waf.active /\ q.pc \notin {"idle", "done"} /\ q.outcome = "none"
     => Spent(q) \subseteq waf.hits \cup
          (IF q.pc \in {"release", "unbind", "waf"} /\ q.last \in WafKinds THEN {q.uid} ELSE {})

\* It has calls left wherever it may still make one.
Sparing(q) ==
  /\ Len(q.calls) <= WafThreshold
  /\ q.pc \in {"pick", "dropSticky", "acquire", "call", "rotate"} => Len(q.calls) < WafThreshold
  /\ q.pc \in {"release", "unbind"} /\ q.outcome = "none" /\ q.last \notin WafKinds
     => Len(q.calls) < WafThreshold

Telling ==
  Refused => /\ IsFiniteSet(waf.hits) /\ (~waf.active => Cardinality(waf.hits) < WafThreshold)
             /\ \A r \in Requests : Noting(req[r]) /\ Sparing(req[r])

\* Calls to different accounts are no more than the accounts.
LEMMA DistinctCalls ==
  ASSUME NEW q \in Handler, Repeats(q) = {}, NEW S, IsFiniteSet(S), Spent(q) \subseteq S
  PROVE  Len(q.calls) <= Cardinality(S)
  <1> DEFINE s == q.calls
             n == Len(s)
  <1>1. s \in Seq(UIDs) /\ n \in Nat /\ DOMAIN s = 1..n
    BY DEF Handler
  <1>2. s \in [1..n -> S]
    <2>1. \A k \in 1..n : s[k] \in S
      BY <1>1 DEF Spent
    <2>2. s \in [1..n -> UIDs]
      BY <1>1
    <2>3. QED
      BY <2>1, <2>2
  <1>3. \A j, k \in 1..n : j < k => s[j] # s[k]
    <2>1. \A k \in 1..n : \A j \in 1..(k - 1) : s[j] # s[k]
      BY <1>1 DEF Repeats
    <2>2. \A j, k \in 1..n : j < k => j \in 1..(k - 1)
      BY <1>1
    <2>3. QED
      BY <2>1, <2>2
  <1> HIDE DEF s
  <1>4. \A j, k \in 1..n : s[j] = s[k] => j = k
    <2>1. \A j, k \in 1..n : j = k \/ j < k \/ k < j
      BY <1>1
    <2>2. QED
      BY <1>3, <2>1
  <1>5. s \in Injection(1..n, S)
    BY <1>2, <1>4 DEF Injection, IsInjective
  <1>6. Cardinality(1..n) <= Cardinality(S) /\ Cardinality(1..n) = n
    <2>1. IsFiniteSet(1..n) /\ Cardinality(1..n) = IF 1 > n THEN 0 ELSE n - 1 + 1
      BY <1>1, FS_Interval
    <2>2. Cardinality(1..n) <= Cardinality(S)
      BY <1>5, FS_Injection
    <2>3. QED
      BY <1>1, <2>1, <2>2
  <1>7. QED
    BY <1>6 DEF s

\* Where nothing degrades, no account is called twice.
LEMMA RefusedOnce ==
  ASSUME NEW q, Refused, Frugal(q)
  PROVE  Repeats(q) = {}
  BY DEF Refused, WafKinds, Frugal, AgainOnce, Again

LEMMA ShapeKeepsNoting ==
  ASSUME NEW p \in Handler, NEW q \in Handler, p.pc = "call" => p.uid \in UIDs, Refused,
         Noting(p), Shape(p, q), p.pc # "waf"
  PROVE  Noting(q)
  <1>0. "content" \notin world.kinds /\ p.pc # "retry" /\ "transport" \notin world.env
    BY DEF Refused, WafKinds, Noting
  <1>1. CASE Starts(p, q)
    BY <1>1 DEF Starts, Noting, Spent
  <1>2. CASE Calls(p, q)
    <2>1. Spent(q) = Spent(p) \cup {p.uid} /\ q.uid = p.uid
      BY <1>2, AppendCalls DEF Calls
    <2>2. q.pc = "release" \/ q.pc = "unblock"
      BY <1>2 DEF Calls
    <2>3. q.outcome = "none" => q.last \in WafKinds
      BY <1>0, <1>2 DEF Calls, Refused
    <2>4. ~waf.active /\ q.outcome = "none" => Spent(p) \subseteq waf.hits
      BY <1>2 DEF Noting, Calls
    <2>5. q.pc = "unblock" => q.outcome # "none"
      BY <1>2, <2>3 DEF Calls, WafKinds
    <2>6. QED
      BY <2>1, <2>2, <2>3, <2>4, <2>5 DEF Noting
  <1>3. CASE Drops(p, q) \/ Chooses(p, q) \/ Rotates(p, q) \/ Ends(p, q)
    BY <1>3, SameCalls DEF Drops, Chooses, Rotates, Ends, Kept, Noting
  <1>4. CASE Proceeds(p, q)
    BY <1>0, <1>4, SameCalls DEF Proceeds, Kept, Noting
  <1>5. CASE Fails(p, q)
    BY <1>5, SameCalls DEF Fails, Kept, Noting, AfterFailure
  <1>6. QED
    BY <1>0, <1>1, <1>2, <1>3, <1>4, <1>5 DEF Shape, Degrades

LEMMA ShapeKeepsSparing ==
  ASSUME NEW p \in Handler, NEW q \in Handler, p.pc = "call" => p.uid \in UIDs, Refused,
         Noting(p), Sparing(p), Shape(p, q), p.pc # "waf"
  PROVE  Sparing(q)
  <1>0. /\ "content" \notin world.kinds /\ p.pc # "retry" /\ "transport" \notin world.env
        /\ Len(p.calls) \in Nat /\ WafThreshold \in Nat /\ 0 < WafThreshold
    BY RotationAssumption DEF Refused, WafKinds, Noting, Handler
  <1>1. CASE Starts(p, q)
    BY <1>0, <1>1 DEF Starts, Sparing
  <1>2. CASE Calls(p, q)
    <2>1. Len(q.calls) = Len(p.calls) + 1 /\ Len(p.calls) < WafThreshold
      BY <1>2, AppendCalls DEF Calls, Sparing
    <2>2. q.pc \in {"release", "unblock"}
      BY <1>2 DEF Calls
    <2>3. q.outcome = "none" => q.last \in WafKinds
      BY <1>0, <1>2 DEF Calls, Refused
    <2>4. QED
      BY <1>0, <2>1, <2>2, <2>3 DEF Sparing
  <1>3. CASE Drops(p, q) \/ Chooses(p, q) \/ Rotates(p, q) \/ Ends(p, q)
    BY <1>3 DEF Drops, Chooses, Rotates, Ends, Kept, Sparing
  <1>4. CASE Proceeds(p, q)
    BY <1>0, <1>4 DEF Proceeds, Kept, Sparing
  <1>5. CASE Fails(p, q)
    BY <1>5 DEF Fails, Kept, Sparing, AfterFailure
  <1>6. QED
    BY <1>0, <1>1, <1>2, <1>3, <1>4, <1>5 DEF Shape, Degrades

LEMMA TellingInit == Init => Telling
  <1> SUFFICES ASSUME Init PROVE Telling
    OBVIOUS
  <1>1. \A r \in Requests : req[r] = NewRequest
    BY DEF Init
  <1>2. Noting(NewRequest) /\ Sparing(NewRequest)
    BY RotationAssumption DEF Noting, Sparing, NewRequest
  <1>3. IsFiniteSet(waf.hits) /\ Cardinality(waf.hits) < WafThreshold
    BY FS_EmptySet, RotationAssumption DEF Init
  <1>4. QED
    BY <1>1, <1>2, <1>3 DEF Telling

LEMMA TellingNext == IInv /\ AllFrugal /\ Telling /\ [Next]_vars => Telling'
  <1> SUFFICES ASSUME IInv, AllFrugal, Telling, Refused, [Next]_vars, world' = world
               PROVE  Telling'
    <2>1. [Next]_vars /\ IInv => world' = world
      BY StepShapes DEF Around
    <2>2. QED
      BY <2>1 DEF Telling, Refused
  <1>1. /\ world.clients \subseteq Requests /\ req \in [Requests -> Handler]
        /\ waf.hits \subseteq UIDs /\ WafThreshold \in Nat /\ 0 < WafThreshold
    BY WorldAssumption, RotationAssumption DEF IInv, TypeOK, World
  <1>2. CASE Around
    <2>1. waf' = waf /\ req' = req
      BY <1>2 DEF Around, Refused
    <2>2. QED
      BY <2>1 DEF Telling, Noting, Sparing, Spent, Refused
  <1>3. ASSUME NEW r \in world.clients, NEW q \in Handler, req' = [req EXCEPT ![r] = q], Shape(req[r], q),
               req[r].pc # "waf", waf' = waf
        PROVE  Telling'
    <2>1. /\ req[r] \in Handler /\ Noting(req[r]) /\ Sparing(req[r])
          /\ req[r].pc = "call" => req[r].uid \in UIDs
      BY <1>1 DEF Telling, IInv, Placed, Serving, Holding
    <2>2. Noting(q) /\ Sparing(q)
      BY <1>3, <2>1, ShapeKeepsNoting, ShapeKeepsSparing
    <2>3. \A s \in Requests : Noting(req'[s]) /\ Sparing(req'[s])
      BY <1>1, <1>3, <2>2 DEF Telling
    <2>4. QED
      BY <1>3, <2>3 DEF Telling, Noting, Sparing, Spent, Refused
  <1>4. ASSUME NEW r \in world.clients, NEW q \in Handler, req' = [req EXCEPT ![r] = q], NoteWaf(r)
        PROVE  Telling'
    <2> DEFINE hits == waf.hits \cup {req[r].uid}
               active == waf.active \/ Cardinality(hits) >= WafThreshold
    <2>1. /\ req[r] \in Handler /\ req[r].pc = "waf" /\ req[r].uid \in UIDs
          /\ Frugal(req[r]) /\ Noting(req[r]) /\ Sparing(req[r]) /\ waf.active \in BOOLEAN
          /\ IsFiniteSet(waf.hits) /\ (~waf.active => Cardinality(waf.hits) < WafThreshold)
      BY <1>1, <1>4 DEF Telling, AllFrugal, IInv, TypeOK, Placed, Serving, Holding, NoteWaf, At
    <2>2. IsFiniteSet(hits) /\ Cardinality(hits) \in Nat
      BY <2>1, FS_AddElement, FS_CardinalityType
    <2>3. /\ waf' = IF waf.active THEN waf ELSE [hits |-> IF active THEN {} ELSE hits, active |-> active]
          /\ q = IF active THEN [req[r] EXCEPT !.pc = "done", !.outcome = "wafBlocked"]
                 ELSE [req[r] EXCEPT !.pc = "rotate"]
      BY <1>1, <1>4 DEF NoteWaf, Become
    <2>4. /\ q.calls = req[r].calls /\ q.outcome \in Outcomes /\ Spent(q) = Spent(req[r])
          /\ q.pc = IF active THEN "done" ELSE "rotate"
      BY <2>1, <2>3 DEF Handler, Outcomes, Spent
    <2>5. active \in BOOLEAN /\ waf'.active = active
      BY <2>1, <2>3
    <2>6. ~active => ~waf.active /\ waf'.hits = hits /\ Cardinality(hits) < WafThreshold
      BY <1>1, <2>2, <2>3
    <2>7. ~active => Spent(q) \subseteq hits /\ Len(q.calls) < WafThreshold
      <3>1. SUFFICES ASSUME ~active PROVE Spent(q) \subseteq hits /\ Len(q.calls) < WafThreshold
        OBVIOUS
      <3>2. Spent(req[r]) \subseteq hits
        BY <2>1, <2>6, <3>1 DEF Noting
      <3>3. Len(req[r].calls) <= Cardinality(hits) /\ Len(req[r].calls) \in Nat
        BY <2>1, <2>2, <3>2, RefusedOnce, DistinctCalls DEF Handler
      <3>4. QED
        BY <1>1, <2>2, <2>4, <2>6, <3>1, <3>2, <3>3
    <2>8. IsFiniteSet(waf'.hits) /\ (~waf'.active => Cardinality(waf'.hits) < WafThreshold)
      BY <2>1, <2>2, <2>3, <2>5, <2>6, FS_EmptySet
    <2> HIDE DEF active, hits
    <2>9. Sparing(q)
      BY <2>1, <2>4, <2>7 DEF Sparing
    <2>10. Noting(q)'
      <3>1. Spent(q)' = Spent(q)
        BY DEF Spent
      <3>2. QED
        BY <2>4, <2>5, <2>6, <2>7, <3>1 DEF Noting
    <2>11. ASSUME NEW s \in Requests, s # r PROVE Noting(req[s])' /\ Sparing(req'[s])
      <3>1. req'[s] = req[s] /\ Noting(req[s]) /\ Sparing(req[s])
        BY <1>1, <1>4, <2>11 DEF Telling
      <3>2. ~waf'.active => ~waf.active /\ waf.hits \subseteq waf'.hits
        BY <2>5, <2>6 DEF hits
      <3>3. QED
        BY <3>1, <3>2 DEF Noting, Spent
    <2>12. \A s \in Requests : Noting(req[s])' /\ Sparing(req'[s])
      <3>1. req'[r] = q
        BY <1>1, <1>4
      <3>2. QED
        BY <2>9, <2>10, <2>11, <3>1 DEF Noting, Spent
    <2>13. QED
      BY <2>8, <2>12 DEF Telling, Sparing
  <1>5. QED
    BY <1>2, <1>3, <1>4, StepShapes

\* While the WAF refuses every call that gets through and the window lasts, no request spends more
\* calls than it takes to tell, however many requests note their calls in whatever order.
THEOREM WafToldInTime == Spec => []WafAmplification
  <1>1. Telling => WafAmplification
    BY DEF Telling, Refused, WafAmplification, Sparing
  <1>2. QED
    BY <1>1, TellingInit, TellingNext, FrugalAlways, PTL DEF Spec

=============================================================================
