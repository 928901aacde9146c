------------------------------ MODULE Autoclaw ------------------------------
(***************************************************************************)
(* The AutoClaw upstream (src/internal/autoclaw: subsystem.go, pool.go,    *)
(* client.go, credentials.go): a small pool of its own, whose accounts     *)
(* have an access token for hours and a refresh token that upstream        *)
(* replaces whenever it is used.                                           *)
(*                                                                         *)
(* Chat requests and the daily sign-in share accounts and credentials.     *)
(* Every access to a credential or to an account's health takes a lock for *)
(* itself only, so the pc of an actor stops between any two of them: to    *)
(* ask whether the token is due, to read the refresh token, to spend it,   *)
(* to store the new tokens, to save them, and to read the token to use     *)
(* are six steps that others interleave with.                              *)
(*                                                                         *)
(* TOKENS are numbered as upstream issues them.  accepted is the refresh   *)
(* token upstream would take (0 after it revoked the login); an access     *)
(* token may be refused once it has been superseded, is due, or revoked.   *)
(*                                                                         *)
(* TIME.  Cooldowns and breakers end, and tokens become due, whenever they *)
(* like; how long they last is left out.  The failure counter stops at the *)
(* threshold, beyond which it only lengthens the breaker.                  *)
(*                                                                         *)
(* BOUNDS.  Tokens after MaxDue do not become due; MaxRestarts restarts.   *)
(***************************************************************************)
EXTENDS Naturals, FiniteSets

CONSTANTS
  N,            \* accounts, numbered by their place in accts
  Requests,     \* concurrent chat requests
  Job,          \* the sign-in run; signinMu lets one run at a time
  Threshold,    \* BreakerThreshold
  Worlds,       \* who runs, how calls fail, whose tokens age, what goes wrong
  MaxDue,
  MaxRestarts

Kinds == {"credit", "soft", "auth", "server", "client"}

Faults ==
  { "lost",     \* upstream spends the refresh token, the answer is not understood
    "steady",   \* upstream answers a refresh without a new refresh token
    "revoke",   \* the login ends: expired, or the account was used elsewhere
    "disk",     \* a credential cannot be saved
    "crash" }

ASSUME AutoclawAssumption ==
  /\ N \in Nat \ {0} /\ Threshold \in Nat \ {0}
  /\ MaxDue \in Nat /\ MaxRestarts \in Nat
  /\ Job \notin Requests
  /\ Worlds \subseteq [actors : SUBSET (Requests \cup {Job}), kinds : SUBSET Kinds,
                        aging : SUBSET Nat, faults : SUBSET Faults]

Accounts == 0..(N - 1)
Actors == Requests \cup {Job}

VARIABLES
  world,
  acct,         \* health of every account
  rr,           \* where the next Pick starts
  cred,         \* credentials in memory: access and refresh token
  file,         \* credentials on disk
  accepted,     \* upstream: the refresh token it takes
  issued,       \* upstream: tokens issued
  due,          \* access tokens up to this one are inside the refresh skew
  act,          \* where each actor is
  restarts,
  passed,       \* history: picks in a row that passed an account over
  lost,         \* history: accounts whose refresh token is gone for good
  unsaved       \* history: accounts with a save that failed

pool == <<acct, rr, passed>>
tokens == <<cred, accepted, issued, lost>>
disk == <<file, unsaved>>
vars == <<world, pool, tokens, disk, due, act, restarts>>

Fresh == [cool |-> "none", broken |-> FALSE, fails |-> 0, relogin |-> FALSE]
Idle == [pc |-> "idle", a |-> 0, tried |-> {}, tries |-> 0, again |-> FALSE, tok |-> 0, ref |-> 0]

TokenPCs == {"check", "snap", "refresh", "store", "save", "read"}
PCs == TokenPCs \cup {"idle", "pick", "next", "call", "serve", "task"}

Health == [cool : {"none", "soft", "credit"}, broken : BOOLEAN,
           fails : 0..Threshold, relogin : BOOLEAN]
Credentials == [access : Nat, refresh : Nat]
Actor == [pc : PCs, a : Accounts, tried : SUBSET Accounts, tries : 0..3,
          again : BOOLEAN, tok : Nat, ref : Nat]

\* The search for an account starts inside the pool, and all else is well formed.
TypeOK ==
  /\ world \in Worlds
  /\ acct \in [Accounts -> Health]
  /\ rr \in Accounts
  /\ cred \in [Accounts -> Credentials] /\ file \in [Accounts -> Credentials]
  /\ accepted \in [Accounts -> Nat] /\ issued \in [Accounts -> Nat]
  /\ due \in [Accounts -> Nat]
  /\ act \in [Actors -> Actor]
  /\ restarts \in Nat
  /\ passed \in [Accounts -> Nat]
  /\ lost \subseteq Accounts /\ unsaved \subseteq Accounts

Init ==
  LET login == [a \in Accounts |-> [access |-> 1, refresh |-> 1]]
  IN  /\ world \in Worlds
      /\ acct = [a \in Accounts |-> Fresh] /\ rr = 0
      /\ cred = login /\ file = login
      /\ accepted = [a \in Accounts |-> 1] /\ issued = [a \in Accounts |-> 1]
      /\ due = [a \in Accounts |-> 0]
      /\ act = [x \in Actors |-> Idle]
      /\ restarts = 0
      /\ passed = [a \in Accounts |-> 0] /\ lost = {} /\ unsaved = {}
-----------------------------------------------------------------------------
(* The pool *)

Usable(a) == acct[a].cool = "none" /\ ~acct[a].broken /\ ~acct[a].relogin

\* NoteError.  A 429 and missing credits cool and clear the counter; everything
\* else counts, and a server error at the threshold opens the breaker.
Noted(h, kind) ==
  LET n == IF h.fails < Threshold THEN h.fails + 1 ELSE h.fails
  IN  [h EXCEPT !.cool = IF kind \in {"soft", "credit"} THEN kind ELSE @,
                !.fails = IF kind \in {"soft", "credit"} THEN 0 ELSE n,
                !.broken = @ \/ (kind = "server" /\ n >= Threshold),
                !.relogin = @ \/ kind = "auth"]

NoteError(a, kind) == acct' = [acct EXCEPT ![a] = Noted(@, kind)]
NoteSuccess(a) == acct' = [acct EXCEPT ![a].fails = 0]

\* Places from where the search starts to account a.
Dist(a) == IF a >= rr THEN a - rr ELSE (a + N) - rr

\* The place after a.
After(a) == IF a + 1 = N THEN 0 ELSE a + 1

\* The account Pick returns: the first usable one, from rr on, not in exclude.
Eligible(exclude) == {a \in Accounts : a \notin exclude /\ Usable(a)}
First(exclude) == {a \in Eligible(exclude) : \A b \in Eligible(exclude) : Dist(a) <= Dist(b)}

\* Mutant: the next search starts at the account just chosen.
AdvanceNot(a, exclude) ==
  /\ rr' = a
  /\ passed' = [b \in Accounts |-> IF b \in Eligible(exclude) \ {a} THEN passed[b] + 1 ELSE 0]

Advance(a, exclude) ==
  /\ rr' = After(a)
  /\ passed' = [b \in Accounts |-> IF b \in Eligible(exclude) \ {a} THEN passed[b] + 1 ELSE 0]
\* Upstream may refuse an access token that is not the newest, is due, or whose
\* login has ended.
MayRefuse(a, token) == token < issued[a] \/ token <= due[a] \/ accepted[a] = 0

\* How a call with the token may fail.
Failures(a, token) == {k \in world.kinds : k = "auth" => MayRefuse(a, token)}
-----------------------------------------------------------------------------
(* Chat: which account next *)

Goto(x, pc) == act' = [act EXCEPT ![x].pc = pc]
Leave(x) == act' = [act EXCEPT ![x] = Idle]

\* With no usable account the request is refused and nothing changes.
Start(r) ==
  LET n == Cardinality(Eligible({}))
  IN  /\ r \in world.actors /\ act[r].pc = "idle" /\ n > 0
      /\ act' = [act EXCEPT ![r] = [Idle EXCEPT !.pc = "pick", !.tries = IF n > 3 THEN 3 ELSE n]]
      /\ UNCHANGED <<world, pool, tokens, disk, due, restarts>>

Pick(r) ==
  LET tried == act[r].tried
  IN  /\ act[r].pc = "pick" /\ act[r].tries > 0
      /\ \E a \in First(tried) :
           /\ Advance(a, tried)
           /\ act' = [act EXCEPT ![r] = [Idle EXCEPT !.pc = "check", !.a = a,
                                           !.tries = act[r].tries - 1, !.tried = tried \cup {a}]]
      /\ UNCHANGED <<world, acct, tokens, disk, due, restarts>>

\* The attempts are used up, or Pick returns nil: the last error is answered.
GiveUp(r) ==
  /\ act[r].pc = "pick" /\ (act[r].tries = 0 \/ First(act[r].tried) = {})
  /\ Leave(r)
  /\ UNCHANGED <<world, pool, tokens, disk, due, restarts>>
-----------------------------------------------------------------------------
(* Sign-in: every account in turn *)

SigninStart ==
  /\ Job \in world.actors /\ act[Job].pc = "idle"
  /\ Goto(Job, "next")
  /\ UNCHANGED <<world, pool, tokens, disk, due, restarts>>

SigninNext ==
  /\ act[Job].pc = "next"
  /\ IF act[Job].tried = Accounts
     THEN Leave(Job)
     ELSE \E a \in Accounts \ act[Job].tried :
            /\ \A b \in Accounts \ act[Job].tried : a <= b
            /\ act' = [act EXCEPT ![Job] = [Idle EXCEPT !.a = a, !.tried = act[Job].tried \cup {a},
                           !.pc = IF acct[a].relogin THEN "next" ELSE "check"]]
  /\ UNCHANGED <<world, pool, tokens, disk, due, restarts>>

\* Only the answer to TaskList is noted: a failed TaskComplete or Wallets is not.
SigninTask ==
  /\ act[Job].pc = "task"
  /\ Goto(Job, "next")
  /\ \/ UNCHANGED acct
     \/ \E kind \in Failures(act[Job].a, act[Job].tok) : NoteError(act[Job].a, kind)
  /\ UNCHANGED <<world, rr, passed, tokens, disk, due, restarts>>
-----------------------------------------------------------------------------
(* ensureToken *)

\* Where an actor goes on that cannot have a token.
Resume(x) == IF x = Job THEN "next" ELSE "pick"

NeedsRefresh(x) ==
  /\ act[x].pc = "check"
  /\ Goto(x, IF cred[act[x].a].access <= due[act[x].a] THEN "snap" ELSE "read")
  /\ UNCHANGED <<world, pool, tokens, disk, due, restarts>>

RefreshSnapshot(x) ==
  /\ act[x].pc = "snap"
  /\ act' = [act EXCEPT ![x].pc = "refresh", ![x].tok = cred[act[x].a].refresh]
  /\ UNCHANGED <<world, pool, tokens, disk, due, restarts>>

\* Upstream takes the refresh token it accepts and issues tokens.
Issue(a, rotates) ==
  /\ issued' = [issued EXCEPT ![a] = @ + 1]
  /\ accepted' = IF rotates THEN [accepted EXCEPT ![a] = issued[a] + 1] ELSE accepted

RefreshAnswered(x) ==
  LET a == act[x].a
  IN  /\ act[x].pc = "refresh" /\ act[x].tok = accepted[a]
      /\ \E rotates \in IF "steady" \in world.faults THEN BOOLEAN ELSE {TRUE} :
           /\ Issue(a, rotates)
           /\ act' = [act EXCEPT ![x].pc = "store", ![x].tok = issued[a] + 1,
                                 ![x].ref = IF rotates THEN issued[a] + 1 ELSE 0]
      /\ UNCHANGED <<world, pool, cred, lost, disk, due, restarts>>

\* Any other token is refused with a 401; or the call fails without effect; or
\* the tokens issued do not arrive.
RefreshFails(x) ==
  LET a == act[x].a
  IN  /\ act[x].pc = "refresh"
      /\ act' = [act EXCEPT ![x].pc = Resume(x), ![x].again = FALSE, ![x].tok = 0]
      /\ \/ /\ act[x].tok # accepted[a]
            /\ NoteError(a, "auth")
            /\ UNCHANGED tokens
         \/ /\ \E kind \in world.kinds \ {"auth"} : NoteError(a, kind)
            /\ UNCHANGED tokens
         \/ /\ "lost" \in world.faults /\ act[x].tok = accepted[a]
            /\ \E kind \in {"auth", "client", "server"} : NoteError(a, kind)
            /\ Issue(a, TRUE)
            /\ lost' = lost \cup {a}
            /\ UNCHANGED cred
      /\ UNCHANGED <<world, rr, passed, disk, due, restarts>>

\* Mutant: keeps the refresh token that was spent.
StoreAccessOnly(x) ==
  /\ act[x].pc = "store"
  /\ cred' = [cred EXCEPT ![act[x].a].access = act[x].tok]
  /\ Goto(x, "save")
  /\ UNCHANGED <<world, pool, accepted, issued, lost, disk, due, restarts>>

Store(x) ==
  /\ act[x].pc = "store"
  /\ cred' = [cred EXCEPT ![act[x].a] =
                [access |-> act[x].tok, refresh |-> IF act[x].ref > 0 THEN act[x].ref ELSE @.refresh]]
  /\ act' = [act EXCEPT ![x].pc = "save", ![x].tok = 0, ![x].ref = 0]
  /\ UNCHANGED <<world, pool, accepted, issued, lost, disk, due, restarts>>

\* SaveAtomic writes what the credential holds by now; a failure is only logged.
SaveAtomic(x) ==
  LET a == act[x].a
  IN  /\ act[x].pc = "save"
      /\ Goto(x, "read")
      /\ \/ file' = [file EXCEPT ![a] = cred[a]] /\ UNCHANGED unsaved
         \/ "disk" \in world.faults /\ unsaved' = unsaved \cup {a} /\ UNCHANGED file
      /\ UNCHANGED <<world, pool, tokens, due, restarts>>

ReadToken(x) ==
  /\ act[x].pc = "read"
  /\ act' = [act EXCEPT ![x].pc = IF x = Job THEN "task" ELSE "call",
                        ![x].tok = cred[act[x].a].access]
  /\ UNCHANGED <<world, pool, tokens, disk, due, restarts>>
-----------------------------------------------------------------------------
(* Chat: the call *)

CallAnswered(r) ==
  /\ act[r].pc = "call" /\ ~act[r].again
  /\ act' = [act EXCEPT ![r].pc = "serve", ![r].tok = 0]
  /\ UNCHANGED <<world, pool, tokens, disk, due, restarts>>

\* A client error is the request's fault and ends it; other errors turn to the
\* next account; a 401 goes back to ensureToken with this one.
CallFails(r) ==
  LET a == act[r].a
  IN  /\ act[r].pc = "call" /\ ~act[r].again
      /\ \E kind \in Failures(a, act[r].tok) :
           /\ NoteError(a, kind)
           /\ CASE kind = "client" -> Leave(r)
                [] kind = "auth" -> act' = [act EXCEPT ![r].pc = "check", ![r].again = TRUE, ![r].tok = 0]
                [] OTHER -> act' = [act EXCEPT ![r].pc = "pick", ![r].tok = 0]
      /\ UNCHANGED <<world, rr, passed, tokens, disk, due, restarts>>

\* Mutant: the retry goes out, and its refusal is treated like the first.
RetryForever(r) ==
  /\ act[r].pc = "call" /\ act[r].again
  /\ act' = [act EXCEPT ![r].pc = "check", ![r].tok = 0]
  /\ UNCHANGED <<world, pool, tokens, disk, due, restarts>>

\* The retry after a 401 is made under the context of the first call, which has
\* been cancelled: it fails before it reaches upstream, and nothing is noted.
RetryCancelled(r) ==
  /\ act[r].pc = "call" /\ act[r].again
  /\ act' = [act EXCEPT ![r].pc = "pick", ![r].again = FALSE, ![r].tok = 0]
  /\ UNCHANGED <<world, pool, tokens, disk, due, restarts>>

\* The answer has been passed on, whatever became of the client.
Served(r) ==
  /\ act[r].pc = "serve"
  /\ NoteSuccess(act[r].a)
  /\ Leave(r)
  /\ UNCHANGED <<world, rr, passed, tokens, disk, due, restarts>>
-----------------------------------------------------------------------------
(* Surroundings *)

CoolingEnds(a) ==
  /\ acct[a].cool # "none"
  /\ acct' = [acct EXCEPT ![a].cool = "none"]
  /\ UNCHANGED <<world, rr, passed, tokens, disk, due, act, restarts>>

BreakerEnds(a) ==
  /\ acct[a].broken
  /\ acct' = [acct EXCEPT ![a].broken = FALSE]
  /\ UNCHANGED <<world, rr, passed, tokens, disk, due, act, restarts>>

TokenAges(a) ==
  /\ a \in world.aging
  /\ due[a] < issued[a] /\ issued[a] <= MaxDue
  /\ due' = [due EXCEPT ![a] = issued[a]]
  /\ UNCHANGED <<world, pool, tokens, disk, act, restarts>>

LoginEnds(a) ==
  /\ "revoke" \in world.faults /\ accepted[a] # 0
  /\ accepted' = [accepted EXCEPT ![a] = 0]
  /\ lost' = lost \cup {a}
  /\ UNCHANGED <<world, pool, cred, issued, disk, due, act, restarts>>

\* The process is killed and started again: LoadDir and NewPool.
Restart ==
  /\ "crash" \in world.faults /\ restarts < MaxRestarts
  /\ restarts' = restarts + 1
  /\ acct' = [a \in Accounts |-> Fresh] /\ rr' = 0
  /\ passed' = [a \in Accounts |-> 0]
  /\ cred' = file
  /\ lost' = lost \cup {a \in Accounts : file[a].refresh # accepted[a]}
  /\ act' = [x \in Actors |-> Idle]
  /\ UNCHANGED <<world, accepted, issued, disk, due>>

EnsureToken(x) ==
  \/ NeedsRefresh(x) \/ RefreshSnapshot(x) \/ RefreshAnswered(x) \/ RefreshFails(x)
  \/ Store(x) \/ SaveAtomic(x) \/ ReadToken(x)

\* Everything a request does once it has started.
Chat(r) ==
  \/ Pick(r) \/ GiveUp(r) \/ EnsureToken(r)
  \/ CallAnswered(r) \/ CallFails(r) \/ RetryCancelled(r) \/ Served(r)

Signin == SigninNext \/ SigninTask \/ EnsureToken(Job)

Next ==
  \/ \E r \in Requests : Start(r) \/ Chat(r)
  \/ SigninStart \/ Signin
  \/ \E a \in Accounts : CoolingEnds(a) \/ BreakerEnds(a) \/ TokenAges(a) \/ LoginEnds(a)
  \/ Restart

Spec == Init /\ [][Next]_vars

\* Handlers and the sign-in run are goroutines, and every call of theirs returns:
\* the HTTP client has a timeout that covers the body as well.
FairSpec == Spec /\ (\A r \in Requests : WF_vars(Chat(r))) /\ WF_vars(Signin)
-----------------------------------------------------------------------------
(* Properties *)

\* Round robin: an account that could serve is not passed over by N picks in a
\* row, though requests that turn to another account move the place the next
\* search starts at (Pool.Pick).
NobodyPassedOver == \A a \in Accounts : passed[a] < N

\* The refresh token upstream takes is never dropped: unless it was lost on the
\* way, revoked, or a save failed, it is in the file, or an actor holds it and is
\* about to store or save it - whoever else refreshes or saves at the same time
\* (Refresh, SaveAtomic).
TokenSafe(a) ==
  \/ cred[a].refresh = accepted[a]
  \/ \E x \in Actors : act[x].pc = "store" /\ act[x].a = a /\ act[x].ref = accepted[a]

TokenSaved(a) ==
  \/ file[a].refresh = accepted[a]
  \/ \E x \in Actors : act[x].pc = "store" /\ act[x].a = a /\ act[x].ref = accepted[a]
  \/ \E x \in Actors : act[x].pc = "save" /\ act[x].a = a

RefreshTokenKept ==
  \A a \in Accounts \ lost : TokenSafe(a) /\ (a \in unsaved \/ TokenSaved(a))

\* Every request and every sign-in run ends.
EverybodyEnds == \A x \in Actors : (act[x].pc # "idle") ~> (act[x].pc = "idle")

=============================================================================
