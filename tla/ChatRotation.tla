---------------------------- MODULE ChatRotation ----------------------------
(***************************************************************************)
(* Concurrent chat requests (src/internal/server/handler.go, backoff.go,   *)
(* degrade.go, wafip.go): each request resolves its session's account, and *)
(* then at most MaxRotate times picks an account, takes a slot of it,      *)
(* calls upstream and, when the call fails, punishes the account, gives    *)
(* the slot back, unbinds the session and turns to another account.        *)
(*                                                                         *)
(* An action is what one request does between two points where others can  *)
(* get in: a region under the pool's, the session router's or a gate's     *)
(* lock.  Slots are indivisible here (module Leases implements that), any  *)
(* healthy account may be picked (the pick of AccountPool), and the        *)
(* members of the pool are fixed.  The upstream and the clients are the    *)
(* environment: any answer can come, and a client can go away during the   *)
(* call and in the pause between two rotations.                            *)
(***************************************************************************)
EXTENDS PoolEntry, Sequences

CONSTANTS
  Requests,       \* request slots; a slot serves one request after another
  UIDs,           \* accounts
  Keys,           \* sticky session keys
  Model,          \* [Requests -> Models]: model a request asks for
  MaxInFlight,    \* slots of an account, 0 for no limit
  MaxRotate,      \* rotations of a request
  Degradable,     \* prompt mode is passthrough or append
  WafThreshold,   \* accounts hit by a WAF 403 that make it an IP-level block
  SoftBase,       \* soft_rate, and the 60s of a 404 or a WAF page, ticks
  ResetIn,        \* reset instant of a rate limit, ticks from now
  Worlds          \* surroundings a behaviour may have, see `world'

ASSUME RotationAssumption ==
  /\ IsFiniteSet(Requests) /\ MaxInFlight \in Nat /\ MaxRotate \in Nat \ {0} /\ WafThreshold \in Nat \ {0}
  /\ Degradable \in BOOLEAN
  /\ SoftBase \in Nat \ {0} /\ ResetIn \in Int
  /\ Model \in [Requests -> Models]

NoUID == "none"

\* Answers that end a request at once, and answers that make it rotate.
FinalKinds == {"content", "prompt", "image"}
RotatingKinds ==
  {"hardCredit", "rateReset", "modelLimit", "rateLimit", "waf", "sessionDead", "notFound",
   "banned", "trial", "server", "modelBlocked", "client", "badParams", "wafReset"}
WafKinds == {"waf", "wafReset"}      \* without and with a Retry-After header
Kinds == {"ok"} \cup FinalKinds \cup RotatingKinds
Events == {"tick", "expire", "unbind", "cancel", "refresh", "transport"}
World ==
  [clients : SUBSET Requests, pool : SUBSET UIDs, key : [Requests -> Keys],
   kinds : SUBSET Kinds, env : SUBSET Events]

ASSUME WorldAssumption == Worlds \subseteq World

VARIABLES
  world,        \* what stays as it is in a behaviour: the clients, the accounts of the pool,
                \* each client's session, the kinds of answers and the other events there are
  acct,         \* the pool's entries
  inFlight,     \* slots taken of each account
  bind,         \* the session router's bindings
  degraded,     \* degradeGate is active
  waf,          \* wafIPGate: accounts hit in the window, and whether it is active
  req           \* what each request's handler holds

vars == <<world, acct, inFlight, bind, degraded, waf, req>>

PCs == {"idle", "pick", "dropSticky", "acquire", "call", "release", "unbind", "waf", "retry",
        "rotate", "unblock", "bind", "stream", "done"}
Outcomes == {"none", "success", "content", "prompt", "image", "wafBlocked", "noAccount",
             "exhausted", "cancelled"}

Handler ==
  [pc : PCs, i : 0..(MaxRotate - 1), tried : SUBSET UIDs, sticky : UIDs \cup {NoUID},
   uid : UIDs \cup {NoUID}, held : BOOLEAN, rewritten : BOOLEAN,
   last : Kinds \cup {"none", "transport", "refresh", "cancel"}, outcome : Outcomes,
   calls : Seq(UIDs)]      \* history: the accounts called, in order

\* Every handler and every shared structure holds a value the code can give it.
TypeOK ==
  /\ world \in Worlds
  /\ acct \in [UIDs -> Entry]
  /\ inFlight \in [UIDs -> Int]
  /\ bind \in [Keys -> UIDs \cup {NoUID}]
  /\ degraded \in BOOLEAN
  /\ waf \in [hits : SUBSET UIDs, active : BOOLEAN]
  /\ req \in [Requests -> Handler]

NewRequest ==
  [pc |-> "idle", i |-> 0, tried |-> {}, sticky |-> NoUID, uid |-> NoUID, held |-> FALSE,
   rewritten |-> FALSE, last |-> "none", outcome |-> "none", calls |-> <<>>]

Init ==
  /\ world \in Worlds
  /\ acct = [u \in UIDs |-> Fresh]
  /\ inFlight = [u \in UIDs |-> 0]
  /\ bind = [k \in Keys |-> NoUID]
  /\ degraded = FALSE
  /\ waf = [hits |-> {}, active |-> FALSE]
  /\ req = [r \in Requests |-> NewRequest]

Session(r) == world.key[r]
At(r, pc) == req[r].pc = pc
Become(r, state) == req' = [req EXCEPT ![r] = state]

Full(u) == MaxInFlight > 0 /\ inFlight[u] >= MaxInFlight
Available(u, m) == HealthyForModel(acct[u], m) /\ ~Full(u)
-----------------------------------------------------------------------------
(* Arrival: ResolveForModel and the degradation gate *)

\* The account the session is bound to or else is bound to now: one no session
\* is bound to when there is one.
Resolve(k, m) ==
  LET usable == {u \in world.pool : Available(u, m)}
      bound == {bind[j] : j \in Keys \ {k}}
  IN  IF bind[k] \in usable THEN {bind[k]}
      ELSE IF usable = {} THEN {NoUID}
      ELSE IF usable \ bound # {} THEN usable \ bound ELSE usable

Begin(r) ==
  /\ req[r].pc \in {"idle", "done"}
  /\ \E u \in Resolve(Session(r), Model[r]) :
       /\ bind' = [bind EXCEPT ![Session(r)] = u]
       /\ Become(r, [NewRequest EXCEPT !.pc = "pick", !.sticky = u,
                                       !.rewritten = Degradable /\ degraded])
  /\ UNCHANGED <<world, acct, inFlight, degraded, waf>>
-----------------------------------------------------------------------------
(* Choosing an account and taking a slot of it *)

Chosen(r, u) ==
  Become(r, [req[r] EXCEPT !.pc = "acquire", !.uid = u, !.last = "none", !.tried = @ \cup {u}])

\* PickByUIDForModel of the sticky account, which needs not be untried.
PickSticky(r) ==
  LET u == req[r].sticky
  IN  /\ At(r, "pick") /\ u # NoUID
      /\ IF Available(u, Model[r]) THEN Chosen(r, u)
         ELSE Become(r, [req[r] EXCEPT !.pc = "dropSticky"])
      /\ UNCHANGED <<world, acct, inFlight, bind, degraded, waf>>

\* unbindSticky before an ordinary pick.
DropSticky(r) ==
  /\ At(r, "dropSticky")
  /\ bind' = [bind EXCEPT ![Session(r)] = NoUID]
  /\ Become(r, [req[r] EXCEPT !.pc = "pick", !.sticky = NoUID])
  /\ UNCHANGED <<world, acct, inFlight, degraded, waf>>

\* Accounts pick can return: healthy ones, or the cooled ones that recover first.
Picks(r) ==
  LET free == {u \in world.pool \ req[r].tried : ~Full(u)}
      healthy == {u \in free : HealthyForModel(acct[u], Model[r])}
      cooled == {u \in free : FallbackEligible(acct[u])}
  IN  IF healthy # {} THEN healthy
      ELSE {u \in cooled : \A v \in cooled : Expiry(acct[u]) <= Expiry(acct[v])}

PickAny(r) ==
  /\ At(r, "pick") /\ req[r].sticky = NoUID
  /\ IF Picks(r) # {} THEN \E u \in Picks(r) : Chosen(r, u)
     ELSE Become(r, [req[r] EXCEPT !.pc = "done", !.outcome = "noAccount"])
  /\ acct' = [u \in UIDs |-> PruneExpiredModelCooldowns(acct[u])]
  /\ UNCHANGED <<world, inFlight, bind, degraded, waf>>

\* Mutant: the sticky account is kept when it fails.
AfterFailureKeepSticky(q) ==
  IF q.outcome # "none" THEN "done" ELSE IF q.last \in WafKinds THEN "waf" ELSE "rotate"

\* Where an attempt that failed goes next, once it holds no slot.
AfterFailure(q) ==
  IF q.sticky # NoUID /\ q.sticky = q.uid THEN "unbind"
  ELSE IF q.outcome # "none" THEN "done"
  ELSE IF q.last \in WafKinds THEN "waf" ELSE "rotate"

\* Mutant: losing the race for the slot does not count as a rotation.
AcquireSpin(r) ==
  LET u == req[r].uid
  IN  /\ At(r, "acquire")
      /\ IF Full(u)
         THEN /\ Become(r, [req[r] EXCEPT !.pc = "pick", !.tried = @ \ {u}])
              /\ UNCHANGED inFlight
         ELSE /\ inFlight' = [inFlight EXCEPT ![u] = @ + 1]
              /\ Become(r, [req[r] EXCEPT !.pc = "call", !.held = TRUE])
      /\ UNCHANGED <<world, acct, bind, degraded, waf>>

\* Full: the last slot went to another request since the pick.
Acquire(r) ==
  LET u == req[r].uid
  IN  /\ At(r, "acquire")
      /\ IF Full(u)
         THEN /\ Become(r, [req[r] EXCEPT !.pc = AfterFailure(req[r])])
              /\ UNCHANGED inFlight
         ELSE /\ inFlight' = [inFlight EXCEPT ![u] = @ + 1]
              /\ Become(r, [req[r] EXCEPT !.pc = "call", !.held = TRUE])
      /\ UNCHANGED <<world, acct, bind, degraded, waf>>
-----------------------------------------------------------------------------
(* The call and what its answer does to the account *)

\* Mutant: a malformed request is counted as an unexplained failure.
PunishedForRequest(e, kind, m) == FailedUnexplained(e)

\* applyErrorPolicy.
Punished(e, kind, m) ==
  CASE kind = "hardCredit" -> CooldownEntry(e, "hard", HardMax, "credit")
    [] kind \in {"rateReset", "wafReset"} -> SoftUntilReset(e, ResetIn, "rate")
    [] kind = "modelLimit" -> LimitModel(e, m, ResetIn)
    [] kind \in {"rateLimit", "waf"} -> SoftBackoff(e, SoftBase, "rate")
    [] kind = "sessionDead" -> DisableEntry(e, "dead")
    [] kind = "banned" -> DisableEntry(e, "banned")
    [] kind \in {"notFound", "trial"} -> CooldownEntry(e, "soft", SoftBase, "rate")
    [] kind = "server" -> Failed(e)
    [] kind = "modelBlocked" -> BlockModel(e, m)
    [] kind = "client" -> FailedUnexplained(e)
    [] kind \in {"badParams"} \cup FinalKinds -> e

\* The call of r to the account it holds ends; the account becomes e.
Returned(r, e, q) ==
  /\ At(r, "call")
  /\ acct' = [acct EXCEPT ![req[r].uid] = e]
  /\ Become(r, q)

Called(r) == [req[r] EXCEPT !.calls = Append(@, req[r].uid)]
Account(r) == acct[req[r].uid]

\* The token had to be refreshed before the call and could not be.
RefreshFails(r) ==
  /\ "refresh" \in world.env /\ At(r, "call")
  /\ \E e \in {SessionDied(Account(r)), Failed(Account(r))} :
       Returned(r, e, [req[r] EXCEPT !.pc = "release", !.last = "refresh"])
  /\ UNCHANGED <<world, inFlight, bind, degraded, waf>>

TransportFails(r) ==
  /\ "transport" \in world.env
  /\ Returned(r, FailedUnexplained(Account(r)), [Called(r) EXCEPT !.pc = "release", !.last = "transport"])
  /\ UNCHANGED <<world, inFlight, bind, degraded, waf>>

\* The client goes away during the call, which then fails as a transport error;
\* the request ends in the pause before the next rotation.
ClientLeaves(r) ==
  /\ "cancel" \in world.env
  /\ Returned(r, FailedUnexplained(Account(r)),
              [Called(r) EXCEPT !.pc = "release", !.last = "cancel", !.outcome = "cancelled"])
  /\ UNCHANGED <<world, inFlight, bind, degraded, waf>>

\* The first content block of a request is taken for a false positive of the
\* client's system prompt: degrade and try again with the neutral prompt.
DegradeAndRetry(r) ==
  /\ "content" \in world.kinds /\ Degradable /\ ~req[r].rewritten
  /\ Returned(r, Account(r), [Called(r) EXCEPT !.pc = "retry", !.last = "content", !.rewritten = TRUE,
                                             !.tried = @ \ {req[r].uid}])
  /\ degraded' = TRUE
  /\ UNCHANGED <<world, inFlight, bind, waf>>

AnswerFinal(r, kind) ==
  /\ kind \in world.kinds \cap FinalKinds
  /\ kind = "content" => ~Degradable \/ req[r].rewritten
  /\ Returned(r, Punished(Account(r), kind, Model[r]),
              [Called(r) EXCEPT !.pc = "release", !.last = kind, !.outcome = kind])
  /\ UNCHANGED <<world, inFlight, bind, degraded, waf>>

AnswerRotating(r, kind) ==
  /\ kind \in world.kinds \cap RotatingKinds
  /\ Returned(r, Punished(Account(r), kind, Model[r]),
              [Called(r) EXCEPT !.pc = "release", !.last = kind])
  /\ UNCHANGED <<world, inFlight, bind, degraded, waf>>

AnswerOk(r) ==
  /\ "ok" \in world.kinds
  /\ Returned(r, Succeeded(Account(r)), [Called(r) EXCEPT !.pc = "unblock", !.last = "ok"])
  /\ UNCHANGED <<world, inFlight, bind, degraded, waf>>
-----------------------------------------------------------------------------
(* After a failure *)

\* releaseHeld, which fail() calls first.
Release(r) ==
  LET q == [req[r] EXCEPT !.held = FALSE]
  IN  /\ At(r, "release")
      /\ inFlight' = [inFlight EXCEPT ![q.uid] = @ - 1]
      /\ Become(r, [q EXCEPT !.pc = AfterFailure(q)])
      /\ UNCHANGED <<world, acct, bind, degraded, waf>>

\* unbindSticky of the account that failed.
Unbind(r) ==
  LET q == [req[r] EXCEPT !.sticky = NoUID]
  IN  /\ At(r, "unbind")
      /\ bind' = [bind EXCEPT ![Session(r)] = NoUID]
      /\ Become(r, [q EXCEPT !.pc = AfterFailure(q)])
      /\ UNCHANGED <<world, acct, inFlight, degraded, waf>>

\* Mutant: the call that makes it an IP-level block still rotates.
NoteWafLate(r) ==
  LET hits == waf.hits \cup {req[r].uid}
      active == waf.active \/ Cardinality(hits) >= WafThreshold
  IN  /\ At(r, "waf")
      /\ waf' = [hits |-> IF active THEN {} ELSE hits, active |-> active]
      /\ Become(r, IF waf.active THEN [req[r] EXCEPT !.pc = "done", !.outcome = "wafBlocked"]
                   ELSE [req[r] EXCEPT !.pc = "rotate"])
      /\ UNCHANGED <<world, acct, inFlight, bind, degraded>>

\* noteWaf: enough accounts hit in the window make it an IP-level block, and the
\* rotation stops at once.
NoteWaf(r) ==
  LET hits == waf.hits \cup {req[r].uid}
      active == waf.active \/ Cardinality(hits) >= WafThreshold
  IN  /\ At(r, "waf")
      /\ waf' = IF waf.active THEN waf
                ELSE [hits |-> IF active THEN {} ELSE hits, active |-> active]
      /\ Become(r, IF active THEN [req[r] EXCEPT !.pc = "done", !.outcome = "wafBlocked"]
                   ELSE [req[r] EXCEPT !.pc = "rotate"])
      /\ UNCHANGED <<world, acct, inFlight, bind, degraded>>

\* Mutant: the degraded retry goes on without giving the slot back.
RetryHolding(r) ==
  /\ At(r, "retry")
  /\ Become(r, [req[r] EXCEPT !.pc = "rotate"])
  /\ UNCHANGED <<world, acct, inFlight, bind, degraded, waf>>

\* The degraded retry gives the slot back and rotates without a pause.
Retry(r) ==
  /\ At(r, "retry")
  /\ inFlight' = [inFlight EXCEPT ![req[r].uid] = @ - 1]
  /\ Become(r, [req[r] EXCEPT !.pc = "rotate", !.held = FALSE])
  /\ UNCHANGED <<world, acct, bind, degraded, waf>>

Rotate(r) ==
  /\ At(r, "rotate")
  /\ Become(r, IF req[r].i + 1 < MaxRotate
               THEN [req[r] EXCEPT !.pc = "pick", !.i = @ + 1, !.uid = NoUID]
               ELSE [req[r] EXCEPT !.pc = "done", !.outcome = "exhausted"])
  /\ UNCHANGED <<world, acct, inFlight, bind, degraded, waf>>

\* rotateBackoff is interrupted; the degraded retry does not pause.
LeaveInPause(r) ==
  /\ "cancel" \in world.env
  /\ At(r, "rotate") /\ req[r].last # "content"
  /\ Become(r, [req[r] EXCEPT !.pc = "done", !.outcome = "cancelled"])
  /\ UNCHANGED <<world, acct, inFlight, bind, degraded, waf>>
-----------------------------------------------------------------------------
(* After a success *)

\* BlockModelClear.
ClearModelBlock(r) ==
  /\ At(r, "unblock")
  /\ acct' = [acct EXCEPT ![req[r].uid] = UnblockModel(@, Model[r])]
  /\ Become(r, [req[r] EXCEPT !.pc = "bind"])
  /\ UNCHANGED <<world, inFlight, bind, degraded, waf>>

Bind(r) ==
  /\ At(r, "bind")
  /\ bind' = [bind EXCEPT ![Session(r)] = req[r].uid]
  /\ Become(r, [req[r] EXCEPT !.pc = "stream"])
  /\ UNCHANGED <<world, acct, inFlight, degraded, waf>>

\* The body has been passed on (or has failed on the way); the deferred release
\* gives the slot back.
StreamEnds(r) ==
  /\ At(r, "stream")
  /\ inFlight' = [inFlight EXCEPT ![req[r].uid] = @ - 1]
  /\ Become(r, [req[r] EXCEPT !.pc = "done", !.held = FALSE, !.outcome = "success"])
  /\ UNCHANGED <<world, acct, bind, degraded, waf>>
-----------------------------------------------------------------------------
(* The environment: time, session expiry *)

Tick ==
  /\ "tick" \in world.env
  /\ acct' = [u \in UIDs |-> Elapse(acct[u])]
  /\ UNCHANGED <<world, inFlight, bind, degraded, waf, req>>

\* The window or the activation of a gate runs out.
GateExpires ==
  /\ "expire" \in world.env
  /\ \/ degraded' = FALSE /\ UNCHANGED waf
     \/ waf' \in {[waf EXCEPT !.active = FALSE]} \cup {[waf EXCEPT !.hits = @ \ {u}] : u \in waf.hits}
        /\ UNCHANGED degraded
  /\ UNCHANGED <<world, acct, inFlight, bind, req>>

\* A binding outlives its TTL.
BindingExpires(k) ==
  /\ "unbind" \in world.env
  /\ bind' = [bind EXCEPT ![k] = NoUID]
  /\ UNCHANGED <<world, acct, inFlight, degraded, waf, req>>

\* What the handler of r does by itself, given that upstream answers.
Answer(r) ==
  \/ RefreshFails(r) \/ TransportFails(r) \/ AnswerOk(r) \/ DegradeAndRetry(r)
  \/ \E kind \in world.kinds : AnswerFinal(r, kind) \/ AnswerRotating(r, kind)

Handle(r) ==
  \/ PickSticky(r) \/ DropSticky(r) \/ PickAny(r) \/ Acquire(r) \/ Answer(r)
  \/ Release(r) \/ Unbind(r) \/ NoteWaf(r) \/ Retry(r) \/ Rotate(r)
  \/ ClearModelBlock(r) \/ Bind(r) \/ StreamEnds(r)

Next ==
  \/ \E r \in world.clients : Begin(r) \/ Handle(r) \/ ClientLeaves(r) \/ LeaveInPause(r)
  \/ Tick \/ GateExpires
  \/ \E k \in Keys : BindingExpires(k)

Spec == Init /\ [][Next]_vars

-----------------------------------------------------------------------------
(* Safety *)

\* No path of the handler (success, any error, the degraded retry, a client
\* that leaves) loses or doubles a slot: the counters are exactly the slots
\* held, and a finished request holds none.
SlotsConserved ==
  /\ \A u \in UIDs :
       inFlight[u] = Cardinality({r \in Requests : req[r].held /\ req[r].uid = u})
  /\ \A r \in Requests : req[r].pc \in {"pick", "rotate", "done"} => ~req[r].held

\* The calls to accounts that had been called before.
Repeats(q) == {k \in DOMAIN q.calls : \E j \in 1..(k - 1) : q.calls[j] = q.calls[k]}

\* A request calls upstream once per rotation, and no account twice: a sticky
\* account, which is picked whether tried or not, is not picked again after it
\* failed.  The one exception is the degraded retry, once.
CallsBounded ==
  \A r \in Requests :
    /\ Len(req[r].calls) <= req[r].i + 1
    /\ Repeats(req[r]) # {} => req[r].rewritten
    /\ \A k, l \in Repeats(req[r]) : k = l

\* wafip.go: while the WAF refuses every call that gets through and the window lasts,
\* no request spends more calls than it takes to tell, however requests interleave.
WafAmplification ==
  world.kinds \subseteq WafKinds /\ world.env \cap {"expire", "transport"} = {}
  => \A r \in Requests : Len(req[r].calls) <= WafThreshold

AllHealthy == \A u \in world.pool : Healthy(acct[u])
OnlyRequestsAtFault == world.kinds \subseteq {"ok", "badParams"} \cup FinalKinds

\* When upstream only ever finds fault with requests, no account is lost to
\* anyone: no sequence of them cools, bans, degrades or disables one.
AccountsStayHealthy ==
  OnlyRequestsAtFault /\ world.env \subseteq {"tick", "expire", "unbind"} => AllHealthy

OwnSessions == \A r, s \in world.clients : Session(r) = Session(s) => r = s

\* handler.go, fail and Bind: of a session with one request at a time, success
\* leaves it with the account that served it and failure leaves it with none, so
\* its next request never starts from an account that failed it, whatever
\* rotations lie between and whatever other sessions do.
SessionFollowsOutcome ==
  OwnSessions /\ "unbind" \notin world.env
  => \A r \in world.clients :
       At(r, "done") /\ req[r].last # "content"
       => bind[Session(r)] = IF req[r].outcome = "success" THEN req[r].uid ELSE NoUID
-----------------------------------------------------------------------------
(* Termination *)

\* What is left of an attempt, from one place of the handler to the end of it.
StepsFrom(q) ==
  CASE q.pc = "pick" -> IF q.sticky # NoUID THEN 12 ELSE 10
    [] q.pc = "dropSticky" -> 11
    [] q.pc = "acquire" -> 9
    [] q.pc = "call" -> 8
    [] q.pc = "release" -> 7
    [] q.pc = "unbind" -> 6
    [] q.pc \in {"waf", "retry"} -> 5
    [] q.pc = "rotate" -> 4
    [] q.pc = "unblock" -> 3
    [] q.pc = "bind" -> 2
    [] q.pc = "stream" -> 1
    [] OTHER -> 0
StepsLeft(q) == 13 * (MaxRotate - q.i) + StepsFrom(q)

\* handler.go, the rotation loop: whatever a request meets (a full account, any answer,
\* the degraded retry, a client that leaves) brings it nearer to its end; no account or
\* slot it competes for can keep it going round.
EveryStepLeadsOn ==
  [][\A r \in Requests :
       req[r].pc \notin {"idle", "done"} /\ req'[r] # req[r]
       => StepsLeft(req'[r]) < StepsLeft(req[r])]_vars
=============================================================================
