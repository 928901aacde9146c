---------------------------- MODULE Credentials ----------------------------
(***************************************************************************)
(* The credentials of one account: its auth file (src/internal/auth/       *)
(* auth.go), the objects parsed from it, the refreshes that change them    *)
(* (src/internal/upstream/client.go, RefreshToken, called by the chat      *)
(* handler, the check-in and the keepalive), and the watcher that reloads  *)
(* the directory (src/internal/pool/watch.go, pool.go SyncToDir).          *)
(*                                                                         *)
(* A reload parses a new object and puts it into the pool; whoever took    *)
(* the old one goes on with it, refreshes it and saves it to the same      *)
(* file.  A refresh reads the tokens under the object's lock, asks without *)
(* it, and writes the answer back under it.                                *)
(*                                                                         *)
(* UPSTREAM (external).  A refresh issues a new pair and leaves the old    *)
(* pairs alone, as the comments at the source's guard say.  Tokens are     *)
(* numbered as they are issued; born says when, and Life is how long       *)
(* an access token is good for.  A refresh may fail, and an answer may     *)
(* lack the refresh token, name another domain, or state an expiry that is *)
(* none: 0 (missing), or ten years and more.                               *)
(*                                                                         *)
(* NUMBERS.  Times are in ticks, and so is the width of an int64 of        *)
(* nanoseconds (Word, 584 years), in which RefreshToken computes an        *)
(* answer's expiry: it wraps.                                              *)
(*                                                                         *)
(* TIME.  A tick is as long as a refresh may last (30 s).  From taking the *)
(* account to calling upstream with it, at most one passes.                *)
(*                                                                         *)
(* BOUNDS.  MaxTokens issued, MaxObjects parsed; a world's end of the clock  *)
(* (MaxNow at most), number of edits and restarts.                         *)
(***************************************************************************)
EXTENDS Integers, Sequences

CONSTANTS
  Users,        \* requests and jobs that use the account
  Life,         \* of an access token, as upstream states it
  MaxExpiry,    \* refreshTokenExpiresInMax
  Word,         \* 2^64 ns
  OddExpiries,  \* what else upstream may state
  Skew,         \* RefreshSkew, checkinRefreshSkew
  MaxNow, MaxTokens, MaxObjects,
  Worlds        \* who takes part, and what may happen

Kinds == {"request", "checkin", "keepalive"}
Events ==
  { "refuse",      \* a refresh fails
    "odd",         \* an answer lacks a field, or has an expiry out of range
    "wrap",        \* an answer's expiry, in nanoseconds, is out of an int64's range
    "move",        \* an answer names another domain
    "disk",        \* the auth file cannot be written
    "unreadable",  \* the auth file cannot be read for a moment
    "early" }      \* the file changes before the watcher has its baseline
Realms == {"cn", "global"}

\* An int64, from a number of nanoseconds.
Int64(n) == IF 2 * (n % Word) < Word THEN n % Word ELSE (n % Word) - Word

Wraps(n) == 2 * n >= Word

ASSUME ExpiryAssumption ==
  /\ Life \in Nat
  /\ MaxExpiry \in Nat /\ Life < MaxExpiry
  /\ Word \in Nat /\ ~Wraps(MaxExpiry)
  /\ OddExpiries \subseteq Nat /\ \A n \in OddExpiries : n = 0 \/ n >= MaxExpiry

ASSUME CredentialsAssumption ==
  /\ Skew \in Nat /\ Skew > 1 /\ Life > Skew
  /\ MaxNow \in Nat /\ MaxTokens \in Nat \ {0} /\ MaxObjects \in Nat
  /\ Worlds \subseteq [kind : [Users -> Kinds \cup {"none"}], events : SUBSET Events,
                       realms : SUBSET (Realms \cup {""}), doms : SUBSET Realms, edits : Nat,
                       restarts : Nat, gates : SUBSET BOOLEAN, until : 0..MaxNow]

VARIABLES
  world,
  now,
  born,      \* when each token was issued
  disk,      \* the auth file
  objs,      \* the Auth objects parsed so far
  member,    \* the object the pool has, 0 without one
  user,      \* the users of the account
  watcher,   \* StartAuthDirWatch, and the load at the start
  gate,      \* globalEnabled
  edits, restarts

vars == <<world, now, born, disk, objs, member, user, watcher, gate, edits, restarts>>

Tokens == 1..Len(born)
\* Auth, without names: access token, refresh token, ExpiresAt, realm, domain.
Creds == [at : Nat, rt : Nat, exp : Int, realm : Realms \cup {""}, dom : Realms]
Answers == [at : Nat, rt : BOOLEAN, expiry : Nat, dom : Realms \cup {""}]
Nothing == [at |-> 0, rt |-> FALSE, expiry |-> 0, dom |-> ""]

\* The file carries its modification time: every write is a new one.
Files == [there : BOOLEAN, cred : Creds, stamp : Nat]
\* armed: the watcher has its baseline; read: what LoadDir found, none or one.
Watchers ==
  [pc : {"read", "migrate", "sync", "baseline", "wait"}, armed : BOOLEAN, last : Nat, read : Seq(Creds)]
Starting == [pc |-> "read", armed |-> FALSE, last |-> 0, read |-> <<>>]
UserStates ==
  [pc : {"idle", "refresh", "asked", "answered", "save", "call"}, obj : Nat, at : Nat, rt : Nat,
   answer : Answers, age : 0..1]
Idle == [pc |-> "idle", obj |-> 0, at |-> 0, rt |-> 0, answer |-> Nothing, age |-> 0]

\* Objects and the file hold tokens that were issued, the pool has an object that exists,
\* and whoever uses the account has one too.
TypeOK ==
  /\ world \in Worlds /\ now \in Nat /\ born \in Seq(Nat)
  /\ disk \in Files /\ objs \in Seq(Creds) /\ member \in 0..Len(objs)
  /\ user \in [Users -> UserStates] /\ watcher \in Watchers
  /\ gate \in BOOLEAN /\ edits \in Nat /\ restarts \in Nat
  /\ disk.cred.at \in Tokens /\ \A o \in DOMAIN objs : objs[o].at \in Tokens
  /\ \A u \in Users : user[u].pc # "idle" => user[u].obj \in DOMAIN objs

Init ==
  /\ world \in Worlds
  /\ now = 0 /\ born = <<0>> /\ objs = <<>> /\ member = 0
  /\ \E r \in world.realms, d \in world.doms :
       disk = [there |-> TRUE, stamp |-> 1,
               cred |-> [at |-> 1, rt |-> 1, exp |-> Life, realm |-> r, dom |-> d]]
  /\ user = [u \in Users |-> Idle]
  /\ watcher = Starting
  /\ gate \in world.gates
  /\ edits = 0 /\ restarts = 0

-----------------------------------------------------------------------------
(* Auth *)

NeedsRefresh(c, within) == c.exp <= 0 \/ now + within >= c.exp

\* Realm: the escape hatch makes every account a CN one.
Realm(c, open) == IF open /\ (c.realm = "global" \/ c.dom = "global") THEN "global" ELSE "cn"

\* Mutant: the realm is filled in as the escape hatch routes the account.
BackfilledAsRouted(c) == [c EXCEPT !.realm = IF c.realm # "" THEN c.realm ELSE Realm(c, gate)]

\* BackfillRealm goes by the domain and not by Realm.
Backfilled(c) == [c EXCEPT !.realm = IF c.realm # "" THEN c.realm ELSE c.dom]

\* SaveAtomic: tmp and rename, over whatever is there by now, or over nothing.
SaveAtomic(c) ==
  \/ disk' = [there |-> TRUE, cred |-> c, stamp |-> disk.stamp + 1]
  \/ "disk" \in world.events /\ UNCHANGED disk

-----------------------------------------------------------------------------
(* A user takes the account, refreshes it when it is due, and calls upstream *)

Kind(u) == world.kind[u]
Obj(u) == objs[user[u].obj]
Go(u, pc) == user' = [user EXCEPT ![u].pc = pc]
Done(u) == user' = [user EXCEPT ![u] = Idle]

\* The pick, or the walk over the pool's accounts; the keepalive refreshes what it finds.
Take(u) ==
  LET due == Kind(u) = "keepalive" \/ NeedsRefresh(objs[member], Skew)
  IN  /\ Kind(u) # "none" /\ user[u].pc = "idle" /\ member # 0
      /\ user' = [user EXCEPT ![u] = [Idle EXCEPT !.obj = member, !.pc = IF due THEN "refresh" ELSE "call"]]
      /\ UNCHANGED <<world, now, born, disk, objs, member, watcher, gate, edits, restarts>>

\* RefreshToken, first section.
Ask(u) ==
  /\ user[u].pc = "refresh"
  /\ user' = [user EXCEPT ![u].pc = "asked", ![u].at = Obj(u).at, ![u].rt = Obj(u).rt]
  /\ UNCHANGED <<world, now, born, disk, objs, member, watcher, gate, edits, restarts>>

\* What an answer may state as its expiry.
Expiries(w) == {Life} \cup {n \in OddExpiries : (IF Wraps(n) THEN "wrap" ELSE "odd") \in w.events}

\* Upstream issues a pair.
Answer(u) ==
  LET n == Len(born) + 1
      odd == "odd" \in world.events
  IN  /\ user[u].pc = "asked" /\ n <= MaxTokens
      /\ born' = Append(born, now)
      /\ \E rt \in {TRUE} \cup {~odd},
            x \in Expiries(world),
            d \in {""} \cup (IF "move" \in world.events THEN Realms ELSE {}) :
           user' = [user EXCEPT ![u].pc = "answered",
                                ![u].answer = [at |-> n, rt |-> rt, expiry |-> x, dom |-> d]]
      /\ UNCHANGED <<world, now, disk, objs, member, watcher, gate, edits, restarts>>

\* The refresh failed.  A request turns to another account, the keepalive to the next
\* one; the check-in goes on while the token is good.
Refused(u) ==
  /\ user[u].pc = "asked" /\ "refuse" \in world.events
  /\ IF Kind(u) = "checkin" /\ ~NeedsRefresh(Obj(u), 0) THEN Go(u, "call") ELSE Done(u)
  /\ UNCHANGED <<world, now, born, disk, objs, member, watcher, gate, edits, restarts>>

\* Another refresh of the same object has been written back in the meantime.
Superseded(u) == Obj(u).at # user[u].at /\ Obj(u).rt # user[u].rt

\* Mutant: any expiry of an answer is taken.
TrustingExpiry(old, a) == IF a.expiry > 0 THEN now + Int64(a.expiry) ELSE old

\* An expiry that is missing stays the old one, and so does one that is ten years or more
\* once it is an int64: a larger one may have become a time in the past, or any time.
NewExpiry(old, a) ==
  IF a.expiry > 0 /\ Int64(a.expiry) < MaxExpiry THEN now + Int64(a.expiry) ELSE old

Refreshed(c, a, n) ==
  [c EXCEPT !.at = a.at, !.rt = IF a.rt THEN n ELSE @, !.exp = NewExpiry(@, a),
            !.dom = IF a.dom = "" THEN @ ELSE a.dom]

\* RefreshToken, second section.
WriteBack(u) ==
  LET a == user[u].answer
  IN  /\ user[u].pc = "answered"
      /\ objs' = IF Superseded(u) THEN objs ELSE [objs EXCEPT ![user[u].obj] = Refreshed(@, a, a.at)]
      /\ Go(u, "save")
      /\ UNCHANGED <<world, now, born, disk, member, watcher, gate, edits, restarts>>

\* BackfillRealm and SaveAtomic; a failed write is logged.  The keepalive is done then.
Save(u) ==
  LET c == Backfilled(Obj(u))
  IN  /\ user[u].pc = "save"
      /\ objs' = [objs EXCEPT ![user[u].obj] = c]
      /\ SaveAtomic(c)
      /\ IF Kind(u) = "keepalive" THEN Done(u) ELSE Go(u, "call")
      /\ UNCHANGED <<world, now, born, member, watcher, gate, edits, restarts>>

\* The call goes out with the token the object has by now.
Call(u) ==
  /\ user[u].pc = "call"
  /\ Done(u)
  /\ UNCHANGED <<world, now, born, disk, objs, member, watcher, gate, edits, restarts>>

-----------------------------------------------------------------------------
(* The directory *)

\* Mutant: the fingerprint is one of names.
FingerprintOfNames == IF disk.there THEN 1 ELSE 0

Fingerprint == IF disk.there THEN disk.stamp ELSE 0

\* A tick of the watcher.  The fingerprint is remembered before the directory is read.
Check ==
  /\ watcher.pc = "wait" /\ Fingerprint # watcher.last
  /\ watcher' = [watcher EXCEPT !.pc = "read", !.last = Fingerprint]
  /\ UNCHANGED <<world, now, born, disk, objs, member, user, gate, edits, restarts>>

\* LoadDir reads and parses the file; one that cannot be read is left out.
Read ==
  /\ watcher.pc = "read"
  /\ \/ /\ disk.there
        /\ watcher' = [watcher EXCEPT !.read = <<disk.cred>>,
                          !.pc = IF disk.cred.realm = "" THEN "migrate" ELSE "sync"]
     \/ /\ ~disk.there \/ "unreadable" \in world.events
        /\ watcher' = [watcher EXCEPT !.read = <<>>, !.pc = "sync"]
  /\ UNCHANGED <<world, now, born, disk, objs, member, user, gate, edits, restarts>>

\* LoadDir saves the realm it has filled in, over the file as it is by now.
Migrate ==
  LET c == Backfilled(watcher.read[1])
  IN  /\ watcher.pc = "migrate"
      /\ watcher' = [watcher EXCEPT !.pc = "sync", !.read = <<c>>]
      /\ SaveAtomic(c)
      /\ UNCHANGED <<world, now, born, objs, member, user, gate, edits, restarts>>

\* SyncToDir: the new object takes the old one's place; without a file the account goes.
\* The load at the start is followed by the watcher's baseline.
Sync ==
  /\ watcher.pc = "sync" /\ Len(objs) + Len(watcher.read) <= MaxObjects
  /\ objs' = objs \o watcher.read
  /\ member' = IF watcher.read = <<>> THEN 0 ELSE Len(objs')
  /\ watcher' = [watcher EXCEPT !.pc = IF watcher.armed THEN "wait" ELSE "baseline",
                                !.read = <<>>]
  /\ UNCHANGED <<world, now, born, disk, user, gate, edits, restarts>>

Baseline ==
  /\ watcher.pc = "baseline"
  /\ watcher' = [watcher EXCEPT !.pc = "wait", !.last = Fingerprint, !.armed = TRUE]
  /\ UNCHANGED <<world, now, born, disk, objs, member, user, gate, edits, restarts>>

\* The operator logs the account in again; older login tools write no realm.
Login ==
  LET n == Len(born) + 1
  IN  /\ edits < world.edits /\ n <= MaxTokens
      /\ watcher.armed \/ "early" \in world.events
      /\ born' = Append(born, now) /\ edits' = edits + 1
      /\ \E r \in world.realms, d \in world.doms :
           disk' = [there |-> TRUE, stamp |-> disk.stamp + 1,
                    cred |-> [at |-> n, rt |-> n, exp |-> now + Life, realm |-> r, dom |-> d]]
      /\ UNCHANGED <<world, now, objs, member, user, watcher, gate, restarts>>

\* The operator removes the account.
Remove ==
  /\ edits < world.edits /\ disk.there
  /\ watcher.armed \/ "early" \in world.events
  /\ disk' = [disk EXCEPT !.there = FALSE] /\ edits' = edits + 1
  /\ UNCHANGED <<world, now, born, objs, member, user, watcher, gate, restarts>>

\* The process is killed and started again, with the escape hatch as configured now.
Restart ==
  /\ restarts < world.restarts
  /\ restarts' = restarts + 1
  /\ objs' = <<>> /\ member' = 0 /\ user' = [u \in Users |-> Idle]
  /\ watcher' = Starting
  /\ gate' \in world.gates
  /\ UNCHANGED <<world, now, born, disk, edits>>

Tick ==
  /\ now < world.until /\ \A u \in Users : user[u].pc # "idle" => user[u].age = 0
  /\ now' = now + 1
  /\ user' = [u \in Users |-> IF user[u].pc = "idle" THEN user[u] ELSE [user[u] EXCEPT !.age = 1]]
  /\ UNCHANGED <<world, born, disk, objs, member, watcher, gate, edits, restarts>>

Use(u) == Ask(u) \/ Answer(u) \/ Refused(u) \/ WriteBack(u) \/ Save(u) \/ Call(u)
Watch == Check \/ Read \/ Migrate \/ Sync \/ Baseline

Next ==
  \/ \E u \in Users : Take(u) \/ Use(u)
  \/ Watch \/ Login \/ Remove \/ Restart \/ Tick

Spec == Init /\ [][Next]_vars

\* The watcher's ticker and LoadDir go on, and a refresh that was asked for ends (its
\* timeout); nothing makes anybody use the account.
FairSpec == Spec /\ WF_vars(Watch) /\ \A u \in Users : WF_vars(Use(u))

-----------------------------------------------------------------------------
(* Properties *)

\* How far ahead of its token an expiry may be: what upstream stated, and up to ten years
\* once an expiry that wrapped has slipped through.
Reach(w) == IF "wrap" \in w.events THEN MaxExpiry ELSE Life

\* An object never takes a token for good for longer than it is, but for the time one
\* refresh may last: a token and the expiry beside it come from one answer, or the expiry
\* is an older one's, whichever refreshes, reloads and saves overlapped.  Where answers
\* state expiries that wrap, the bound is refreshTokenExpiresInMax.
ExpiryHonest ==
  \A c \in {disk.cred} \cup {objs[o] : o \in DOMAIN objs} : c.exp <= born[c.at] + Reach(world) + 1

\* auth.go, BackfillRealm: files without a realm get their domain's, in every copy, also
\* from a run whose escape hatch routes every account as a CN one: opening it again finds
\* the accounts where they were.
RealmFollowsDomain ==
  world.realms = {""} /\ "move" \notin world.events
    => \A c \in {disk.cred} \cup {objs[o] : o \in DOMAIN objs} : c.realm \in {"", c.dom}

\* watch.go: "polling cannot miss a change".  Once the directory is left alone the pool
\* has what the file has, and nothing when there is no file; as long as the file can be
\* read and written, and the load at the start is not overtaken by a change.
PoolFollowsDirectory ==
  (world.events \cap {"unreadable", "disk", "early"} = {})
    => <>[](IF disk.there THEN member # 0 /\ objs[member] = disk.cred ELSE member = 0)
=============================================================================
