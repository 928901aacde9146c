------------------------------ MODULE Sessions ------------------------------
(***************************************************************************)
(* Sticky sessions (src/internal/session/session.go) and their mirror in   *)
(* Redis (src/internal/redisstore/redisstore.go), used by the chat handler *)
(* as ChatRotation describes it.                                           *)
(*                                                                         *)
(* A request resolves its session in up to two critical sections: it reads *)
(* the binding under the read lock, and then either touches it under the   *)
(* write lock, or re-checks and assigns.  The pool's answer about usable   *)
(* accounts is taken before the first and again inside the second.  Later  *)
(* the request unbinds or binds the session.  A change of a binding is     *)
(* mirrored: touch, Bind, Unbind and gcOnce submit the write after they    *)
(* gave up the lock, in a step of its own, only an assignment submits it   *)
(* inside; and a submitted write is a goroutine, so that writes of one key *)
(* reach Redis in any order.  The mirror is read once, at the start.       *)
(*                                                                         *)
(* TIME.  A tick is long for a write (5 s at most) and for the steps of a  *)
(* resolution or a change, and short for a binding's TTL (30 min): the     *)
(* clock does not move while one is under way.  A request lasts for ticks. *)
(*                                                                         *)
(* DATA.  hashIndex spreads keys over accounts: here any of the candidates *)
(* may be chosen.  Redis drops a row when its TTL is over.                 *)
(*                                                                         *)
(* BOUNDS.  The clock stops at a world's "until", MaxNow at most.           *)
(***************************************************************************)
EXTENDS Naturals

CONSTANTS
  Keys, UIDs, NoUID,
  Requests,
  TTL,       \* Config.TTL, in ticks
  MaxNow,    \* bound on the clock
  Worlds     \* which keys, requests and events take part

Events == {"pool", "unbind", "restart", "redis"}

ASSUME SessionsAssumption ==
  /\ NoUID \notin UIDs /\ Keys # {}
  /\ TTL \in Nat \ {0} /\ MaxNow \in Nat
  /\ Worlds \subseteq [keys : SUBSET Keys, requests : SUBSET Requests, events : SUBSET Events, until : 0..MaxNow]

VARIABLES
  world,     \* what may happen in this behaviour
  now,
  avail,     \* what AvailableForModel answers
  entries,   \* Router.entries
  req,       \* the requests
  connected, \* the store is Redis, not Noop
  closed,    \* store.Close: later writes are dropped
  writes,    \* submitted to Redis, not executed
  rows,      \* what Redis has
  swept,     \* keys whose DelBind the garbage collection has still to submit
  tangled,   \* keys whose last change met one to another account on its way to Redis
  lastUse    \* when a request last used an account for a session

store == <<connected, closed, writes, rows>>
mirrorVars == <<store, swept, tangled>>
sessionsVars == <<world, now, avail, entries, req, mirrorVars, lastUse>>

Unbound == [uid |-> NoUID, at |-> 0]
NoRow == [uid |-> NoUID, until |-> 0]
Bindings == [uid : UIDs \cup {NoUID}, at : Nat]
Rows == [uid : UIDs \cup {NoUID}, until : Nat]
Writes == [key : Keys, uid : UIDs \cup {NoUID}]  \* NoUID: DelBind

\* fresh: nothing the resolution depends on has changed since it began.
Idle == [pc |-> "idle", key |-> CHOOSE k \in Keys : TRUE, uid |-> NoUID, avail |-> {}, fresh |-> FALSE]
RequestStates ==
  [pc : {"idle", "touch", "touched", "assign", "serve", "bound", "unbound"}, key : Keys, uid : UIDs \cup {NoUID},
   avail : SUBSET UIDs, fresh : BOOLEAN]

\* Bindings, rows and requests are well formed, and a write waits for Redis only
\* while there is one.
SessionsTypeOK ==
  /\ world \in Worlds /\ now \in Nat /\ avail \in SUBSET UIDs
  /\ entries \in [Keys -> Bindings] /\ req \in [Requests -> RequestStates]
  /\ connected \in BOOLEAN /\ closed \in BOOLEAN
  /\ writes \in SUBSET Writes /\ rows \in [Keys -> Rows]
  /\ lastUse \in [Keys -> [UIDs -> Nat]]
  /\ swept \in SUBSET Keys /\ tangled \in SUBSET Keys
  /\ writes # {} => connected

SessionsInit ==
  /\ world \in Worlds /\ now = 0 /\ avail = UIDs
  /\ entries = [k \in Keys |-> Unbound]
  /\ req = [r \in Requests |-> Idle]
  /\ connected = TRUE /\ closed = FALSE /\ writes = {} /\ rows = [k \in Keys |-> NoRow]
  /\ swept = {} /\ tangled = {}
  /\ lastUse = [k \in Keys |-> [u \in UIDs |-> 0]]

Bound(k) == entries[k].uid # NoUID
Expired(k) == now - entries[k].at > TTL
Resolving(r) == req[r].pc \in {"touch", "assign"}

\* The map is changed and unlocked, SetBind or DelBind not called yet.
Mirroring(r) == req[r].pc \in {"touched", "bound", "unbound"}

\* The accounts in the changes of k that are on their way to Redis.
UnderWay(k) ==
  {u \in UIDs \cup {NoUID} :
     \/ [key |-> k, uid |-> u] \in writes
     \/ \E r \in Requests : Mirroring(r) /\ req[r].key = k /\ req[r].uid = u
     \/ k \in swept /\ u = NoUID}

\* The sessions ks change to u: while a change to another account is on its way, they
\* are tangled; otherwise they are not, whatever they were before.
Tangle(ks, u) == tangled' = (tangled \ ks) \cup {k \in ks : UnderWay(k) \ {NoUID, u} # {}}

\* goWrite: a write is submitted unless the store is gone or closed.
Submit(k, us) ==
  /\ writes' = IF connected /\ ~closed THEN writes \cup {[key |-> k, uid |-> u] : u \in us}
                                       ELSE writes
  /\ UNCHANGED <<connected, closed, rows>>

\* The session changes under everyone who resolved it, or is about to.
Disturb(rs, ks) == [r \in Requests |-> IF rs[r].key \in ks THEN [rs[r] EXCEPT !.fresh = FALSE] ELSE rs[r]]

-----------------------------------------------------------------------------
(* ResolveForModel *)

\* availableSet, then the look at the binding under the read lock.
ResolveRead(r, k) ==
  LET hit == Bound(k) /\ ~Expired(k) /\ entries[k].uid \in avail
  IN  /\ req[r].pc = "idle"
      /\ req' = [req EXCEPT ![r] =
                   [pc |-> IF hit THEN "touch" ELSE "assign", key |-> k,
                    uid |-> IF hit THEN entries[k].uid ELSE NoUID, avail |-> avail, fresh |-> TRUE]]
      /\ UNCHANGED <<world, now, avail, entries, mirrorVars, lastUse>>

\* The request has its account and renews the binding; one that began before the last
\* change may change the session for the others.
Resolved(r, k, u, pc) ==
  /\ entries' = [entries EXCEPT ![k] = [uid |-> u, at |-> now]]
  /\ lastUse' = [lastUse EXCEPT ![k][u] = now]
  /\ LET done == [req EXCEPT ![r].pc = pc, ![r].uid = u]
     IN  req' = IF req[r].fresh THEN done ELSE Disturb(done, {k})

\* touch writes the account read a moment ago, whatever is bound by now.
Touch(r) ==
  LET k == req[r].key
  IN  /\ req[r].pc = "touch"
      /\ Resolved(r, k, req[r].uid, "touched")
      /\ Tangle({k}, req[r].uid)
      /\ UNCHANGED <<world, now, avail, store, swept>>

\* Mutant: the second section assigns without looking again.
NoRecheck(r) == FALSE

\* The re-check: another request has bound the session in the meantime.
RecheckHit(r) == LET k == req[r].key IN Bound(k) /\ ~Expired(k) /\ entries[k].uid \in req[r].avail

Recheck(r) ==
  LET k == req[r].key
  IN  /\ req[r].pc = "assign" /\ RecheckHit(r)
      /\ Resolved(r, k, entries[k].uid, "serve")
      /\ UNCHANGED <<world, now, avail, mirrorVars>>

\* Accounts nobody is bound to come first.  A binding that cannot be used is deleted
\* before; one that expired stays until it is overwritten, and counts as bound.
Candidates(k) ==
  LET rest == IF Expired(k) THEN Keys ELSE Keys \ {k}
      idle == avail \ {entries[j].uid : j \in rest}
  IN  IF idle # {} THEN idle ELSE avail

\* DelBind before SetBind, both under the lock: an expired binding goes over to another
\* account.
Assign(r) ==
  LET k == req[r].key
  IN  /\ req[r].pc = "assign" /\ ~RecheckHit(r)
      /\ \E u \in Candidates(k) :
           /\ Resolved(r, k, u, "serve")
           /\ Tangle({k}, u)
           /\ Submit(k, IF Bound(k) /\ Expired(k) /\ entries[k].uid # u THEN {NoUID, u} ELSE {u})
      /\ UNCHANGED <<world, now, avail, swept>>

\* No account at all.  What cannot be used is deleted here but not in the mirror.
AssignNone(r) ==
  LET k == req[r].key
  IN  /\ req[r].pc = "assign" /\ ~RecheckHit(r) /\ avail = {}
      /\ entries' = [entries EXCEPT ![k] = IF Expired(k) THEN @ ELSE Unbound]
      /\ req' = [req EXCEPT ![r].pc = "serve"]
      /\ UNCHANGED <<world, now, avail, mirrorVars, lastUse>>

-----------------------------------------------------------------------------
(* The end of the request, the garbage collection *)

\* Mutant: a binding that follows a success is not mirrored.
BindUnmirrored(r, u) ==
  LET k == req[r].key
  IN  /\ req[r].pc = "serve"
      /\ entries' = [entries EXCEPT ![k] = [uid |-> u, at |-> now]]
      /\ lastUse' = [lastUse EXCEPT ![k][u] = now]
      /\ req' = Disturb([req EXCEPT ![r] = Idle], {k})
      /\ Tangle({k}, u)
      /\ UNCHANGED <<world, now, avail, store, swept>>

\* The session follows the account that succeeded.
Bind(r, u) ==
  LET k == req[r].key
  IN  /\ req[r].pc = "serve"
      /\ entries' = [entries EXCEPT ![k] = [uid |-> u, at |-> now]]
      /\ lastUse' = [lastUse EXCEPT ![k][u] = now]
      /\ req' = Disturb([req EXCEPT ![r].pc = "bound", ![r].uid = u], {k})
      /\ Tangle({k}, u)
      /\ UNCHANGED <<world, now, avail, store, swept>>

\* The sticky account failed; the request goes on with others.
Unbind(r) ==
  LET k == req[r].key
  IN  /\ req[r].pc = "serve" /\ req[r].uid # NoUID /\ "unbind" \in world.events
      /\ entries' = [entries EXCEPT ![k] = Unbound]
      /\ req' = Disturb([req EXCEPT ![r].pc = IF Bound(k) THEN "unbound" ELSE "serve",
                                    ![r].uid = NoUID], {k})
      /\ IF Bound(k) THEN Tangle({k}, NoUID) ELSE UNCHANGED tangled
      /\ UNCHANGED <<world, now, avail, store, swept, lastUse>>

\* The call of SetBind or DelBind that touch, Bind and Unbind end with.
Mirror(r) ==
  /\ Mirroring(r)
  /\ Submit(req[r].key, {req[r].uid})
  /\ req' = [req EXCEPT ![r] = IF @.pc = "bound" THEN Idle ELSE [@ EXCEPT !.pc = "serve"]]
  /\ UNCHANGED <<world, now, avail, entries, swept, tangled, lastUse>>

\* Every account failed.
GiveUp(r) ==
  /\ req[r].pc = "serve"
  /\ req' = [req EXCEPT ![r] = Idle]
  /\ UNCHANGED <<world, now, avail, entries, mirrorVars, lastUse>>

\* gcOnce, up to where it gives up the lock; one loop calls it.
CollectGarbage ==
  LET old == {k \in Keys : Bound(k) /\ Expired(k)}
  IN  /\ swept = {} /\ old # {}
      /\ entries' = [k \in Keys |-> IF k \in old THEN Unbound ELSE entries[k]]
      /\ req' = Disturb(req, old)
      /\ swept' = old /\ Tangle(old, NoUID)
      /\ UNCHANGED <<world, now, avail, store, lastUse>>

\* gcOnce's DelBind of one key.
SubmitSwept(k) ==
  /\ k \in swept /\ swept' = swept \ {k}
  /\ Submit(k, {NoUID})
  /\ UNCHANGED <<world, now, avail, entries, req, tangled, lastUse>>

-----------------------------------------------------------------------------
(* Redis, and the process *)

\* Mutant: a row outlives the binding it stands for.
LongRow(w) == IF w.uid = NoUID THEN NoRow ELSE [uid |-> w.uid, until |-> now + 3 * TTL]

Row(w) == IF w.uid = NoUID THEN NoRow ELSE [uid |-> w.uid, until |-> now + TTL]

\* The goroutine of one write; a write that fails is forgotten.
Execute(w) ==
  /\ w \in writes
  /\ writes' = writes \ {w}
  /\ \/ rows' = [rows EXCEPT ![w.key] = Row(w)]
     \/ "redis" \in world.events /\ UNCHANGED rows
  /\ UNCHANGED <<world, now, avail, entries, req, connected, closed, swept, tangled, lastUse>>

\* The signal: Close waits for what was submitted, requests go on for a while.
Close ==
  /\ "restart" \in world.events /\ ~closed
  /\ closed' = TRUE
  /\ UNCHANGED <<world, now, avail, entries, req, connected, writes, rows, swept, tangled, lastUse>>

Live(k) == rows[k].uid # NoUID /\ now < rows[k].until

\* New and LoadFromStore: every row Redis answers with is a binding used just now.
Loaded(ks) == [k \in Keys |-> IF k \in ks THEN [uid |-> rows[k].uid, at |-> now] ELSE Unbound]

\* The process ends, killed or after Close, and starts again.  Without Redis at the
\* start it works without a mirror (Noop) until the next start; a row whose read
\* fails is skipped.
RestartServer ==
  /\ "restart" \in world.events /\ (closed => writes = {})
  /\ \E up \in IF "redis" \in world.events THEN BOOLEAN ELSE {TRUE} :
       /\ connected' = up
       /\ \E ks \in SUBSET {k \in Keys : up /\ Live(k)} :
            /\ "redis" \notin world.events => \A k \in Keys : Live(k) => k \in ks
            /\ entries' = Loaded(ks)
  /\ closed' = FALSE /\ writes' = {} /\ swept' = {} /\ tangled' = {}
  /\ req' = [r \in Requests |-> Idle]
  /\ UNCHANGED <<world, now, avail, rows, lastUse>>

-----------------------------------------------------------------------------
(* The environment *)

\* Accounts cool down, fill up and recover.
PoolChanges ==
  /\ "pool" \in world.events
  /\ avail' \in SUBSET UIDs \ {avail}
  /\ req' = Disturb(req, Keys)
  /\ UNCHANGED <<world, now, entries, mirrorVars, lastUse>>

Tick ==
  /\ now < world.until /\ writes = {} /\ swept = {}
  /\ \A r \in Requests : ~Resolving(r) /\ ~Mirroring(r)
  /\ now' = now + 1
  /\ req' = Disturb(req, Keys)
  /\ UNCHANGED <<world, avail, entries, mirrorVars, lastUse>>

Request(r) ==
  \/ \E k \in world.keys : ResolveRead(r, k)
  \/ Touch(r) \/ Recheck(r) \/ Assign(r) \/ AssignNone(r)
  \/ \E u \in UIDs : Bind(r, u)
  \/ Unbind(r) \/ Mirror(r) \/ GiveUp(r)

SessionsNext ==
  \/ \E r \in world.requests : Request(r)
  \/ CollectGarbage \/ Close \/ RestartServer \/ PoolChanges \/ Tick
  \/ \E k \in swept : SubmitSwept(k)
  \/ \E w \in writes : Execute(w)

SessionsSpec == SessionsInit /\ [][SessionsNext]_sessionsVars

-----------------------------------------------------------------------------
(* Properties *)

\* session.go, ResolveForModel: "avoid double assignment by concurrent requests of one
\* key".  Requests that resolved a session since it, the clock and the pool last
\* changed were all sent to the same account, however their critical sections
\* interleaved.
ResolvesAgree ==
  \A q, r \in Requests :
    /\ req[q].pc \in {"touched", "serve"} /\ req[q].fresh
    /\ req[r].pc \in {"touched", "serve"} /\ req[r].fresh
    /\ req[q].key = req[r].key
    => req[q].uid = req[r].uid

\* session.go, New, LoadFromStore and SetBind: a binding may outlive a restart with a
\* full TTL of its own, but the row it came from has had the same TTL: no session is
\* sent to an account because of a use two TTLs ago, whatever writes and restarts
\* happened in between.
StaleBindingBounded ==
  [][\A r \in Requests :
       req[r].pc = "idle" /\ req'[r].pc = "touch"
         => now - lastUse[req'[r].key][req'[r].uid] < 2 * TTL]_sessionsVars

\* session.go: "every change of a binding is mirrored".  Once nothing of it is on its way
\* to Redis, a row and the binding of its session name one account, unless changes to two
\* accounts overlapped, from the change of the map over the call of the store to the write,
\* Redis failed or the store was closed: every step that binds mirrors.
MirrorContradictsOnlyRaces ==
  \A k \in Keys :
    connected /\ ~closed /\ "redis" \notin world.events /\ k \notin tangled /\ Bound(k) /\ Live(k)
      => rows[k].uid = entries[k].uid \/ UnderWay(k) # {}

=============================================================================
