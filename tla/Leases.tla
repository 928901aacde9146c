------------------------------- MODULE Leases -------------------------------
(***************************************************************************)
(* In-flight leases of the pool (src/internal/pool/pool.go: Acquire,       *)
(* Release, SyncToDir).  Requests take a slot of an account before they    *)
(* call upstream and give it back when they are done with that account.    *)
(*                                                                         *)
(* The counter is an atomic of the entry object, and it is touched after   *)
(* the pool lock is dropped: Acquire and Release look the entry up under   *)
(* the read lock, then load and compare-and-swap its counter.  Meanwhile   *)
(* the directory watcher may drop the account and add it again, which      *)
(* makes a new entry object; gen[u] numbers the objects of account u.      *)
(*                                                                         *)
(* BOUND.  An account is re-added at most MaxGen times.                    *)
(***************************************************************************)
EXTENDS Integers, FiniteSets

CONSTANTS
  Requests,     \* concurrent chat requests
  Accounts,     \* accounts
  MaxInFlight,  \* [Accounts -> Nat]: inFlightLimit of an account, 0 for no limit
  MaxGen        \* bound on re-additions

ASSUME LeaseAssumption ==
  /\ IsFiniteSet(Requests)
  /\ MaxInFlight \in [Accounts -> Nat]
  /\ MaxGen \in Nat

Entries == Accounts \X (0..MaxGen)
NoLease == <<>>

VARIABLES
  present,      \* accounts in byUID
  gen,          \* the entry object byUID holds (or held last) for an account
  inFlight,     \* the counter of every entry object
  req,          \* where each request is: pc, account, entry looked up, value loaded
  lease         \* history: the entry whose counter a request's Acquire raised

leasesVars == <<present, gen, inFlight, req, lease>>

AcquirePCs == {"lookup", "load", "cas"}
ReleasePCs == {"relLookup", "relLoad", "relCas"}

\* Every counter is a natural number, whatever gives slots back twice or to
\* another entry object.
LeasesTypeOK ==
  /\ present \subseteq Accounts
  /\ gen \in [Accounts -> 0..MaxGen]
  /\ inFlight \in [Entries -> Nat]
  /\ req \in [Requests -> [pc : {"idle", "held"} \cup AcquirePCs \cup ReleasePCs,
                           uid : Accounts, e : Entries, cur : Nat]]
  /\ lease \in [Requests -> Entries \cup {NoLease}]

LeasesInit ==
  /\ present = Accounts
  /\ gen = [u \in Accounts |-> 0]
  /\ inFlight = [e \in Entries |-> 0]
  /\ \E u \in Accounts :
       req = [r \in Requests |-> [pc |-> "idle", uid |-> u, e |-> <<u, 0>>, cur |-> 0]]
  /\ lease = [r \in Requests |-> NoLease]

Limit == [e \in Entries |-> MaxInFlight[e[1]]]
-----------------------------------------------------------------------------
(* Acquire *)

\* The handler picked account u; since then it may have left the pool.
Start(r, u) ==
  /\ req[r].pc = "idle"
  /\ req' = [req EXCEPT ![r].pc = "lookup", ![r].uid = u]
  /\ UNCHANGED <<present, gen, inFlight, lease>>

AcquireLookup(r) ==
  /\ req[r].pc = "lookup"
  /\ LET u == req[r].uid
     IN  req' = IF u \in present
                THEN [req EXCEPT ![r].pc = "load", ![r].e = <<u, gen[u]>>]
                ELSE [req EXCEPT ![r].pc = "idle"]
  /\ UNCHANGED <<present, gen, inFlight, lease>>

\* Load: full means the caller is refused; without a limit the counter is
\* raised at once.
AcquireLoad(r) ==
  LET e == req[r].e
  IN  /\ req[r].pc = "load"
      /\ IF Limit[e] = 0
         THEN /\ inFlight' = [inFlight EXCEPT ![e] = @ + 1]
              /\ lease' = [lease EXCEPT ![r] = e]
              /\ req' = [req EXCEPT ![r].pc = "held"]
         ELSE /\ req' = IF inFlight[e] >= Limit[e]
                        THEN [req EXCEPT ![r].pc = "idle"]
                        ELSE [req EXCEPT ![r].pc = "cas", ![r].cur = inFlight[e]]
              /\ UNCHANGED <<inFlight, lease>>
      /\ UNCHANGED <<present, gen>>

\* Mutant: stores the raised value without comparing.
AcquireStore(r) ==
  LET e == req[r].e
  IN  /\ req[r].pc = "cas"
      /\ inFlight' = [inFlight EXCEPT ![e] = req[r].cur + 1]
      /\ lease' = [lease EXCEPT ![r] = e]
      /\ req' = [req EXCEPT ![r].pc = "held"]
      /\ UNCHANGED <<present, gen>>

AcquireCAS(r) ==
  LET e == req[r].e
  IN  /\ req[r].pc = "cas"
      /\ IF inFlight[e] = req[r].cur
         THEN /\ inFlight' = [inFlight EXCEPT ![e] = req[r].cur + 1]
              /\ lease' = [lease EXCEPT ![r] = e]
              /\ req' = [req EXCEPT ![r].pc = "held"]
         ELSE /\ req' = [req EXCEPT ![r].pc = "load"]
              /\ UNCHANGED <<inFlight, lease>>
      /\ UNCHANGED <<present, gen>>
-----------------------------------------------------------------------------
(* Release: the account is looked up again, so the entry may be another *)

Finish(r) ==
  /\ req[r].pc = "held"
  /\ req' = [req EXCEPT ![r].pc = "relLookup"]
  /\ UNCHANGED <<present, gen, inFlight, lease>>

\* An account that left the pool has no counter to lower.
ReleaseLookup(r) ==
  /\ req[r].pc = "relLookup"
  /\ LET u == req[r].uid
     IN  IF u \in present
         THEN /\ req' = [req EXCEPT ![r].pc = "relLoad", ![r].e = <<u, gen[u]>>]
              /\ UNCHANGED lease
         ELSE /\ req' = [req EXCEPT ![r].pc = "idle"]
              /\ lease' = [lease EXCEPT ![r] = NoLease]
  /\ UNCHANGED <<present, gen, inFlight>>

ReleaseLoad(r) ==
  LET e == req[r].e
  IN  /\ req[r].pc = "relLoad"
      /\ IF inFlight[e] = 0
         THEN /\ req' = [req EXCEPT ![r].pc = "idle"]
              /\ lease' = [lease EXCEPT ![r] = NoLease]
         ELSE /\ req' = [req EXCEPT ![r].pc = "relCas", ![r].cur = inFlight[e]]
              /\ UNCHANGED lease
      /\ UNCHANGED <<present, gen, inFlight>>

\* Mutant: gives up when another request changed the counter meanwhile.
ReleaseOnce(r) ==
  LET e == req[r].e
  IN  /\ req[r].pc = "relCas"
      /\ inFlight' = IF inFlight[e] = req[r].cur
                     THEN [inFlight EXCEPT ![e] = req[r].cur - 1] ELSE inFlight
      /\ lease' = [lease EXCEPT ![r] = NoLease]
      /\ req' = [req EXCEPT ![r].pc = "idle"]
      /\ UNCHANGED <<present, gen>>

\* Mutant: stores the lowered value without comparing.
ReleaseStore(r) ==
  LET e == req[r].e
  IN  /\ req[r].pc = "relCas"
      /\ inFlight' = [inFlight EXCEPT ![e] = req[r].cur - 1]
      /\ lease' = [lease EXCEPT ![r] = NoLease]
      /\ req' = [req EXCEPT ![r].pc = "idle"]
      /\ UNCHANGED <<present, gen>>

ReleaseCAS(r) ==
  LET e == req[r].e
  IN  /\ req[r].pc = "relCas"
      /\ IF inFlight[e] = req[r].cur
         THEN /\ inFlight' = [inFlight EXCEPT ![e] = req[r].cur - 1]
              /\ lease' = [lease EXCEPT ![r] = NoLease]
              /\ req' = [req EXCEPT ![r].pc = "idle"]
         ELSE /\ req' = [req EXCEPT ![r].pc = "relLoad"]
              /\ UNCHANGED <<inFlight, lease>>
      /\ UNCHANGED <<present, gen>>
-----------------------------------------------------------------------------
\* The watcher aligns the pool with the accounts found; one that was away gets
\* a new entry object.
SyncEntries(found) ==
  /\ \A u \in found \ present : gen[u] < MaxGen
  /\ present' = found
  /\ gen' = [u \in Accounts |-> IF u \in found \ present THEN gen[u] + 1 ELSE gen[u]]
  /\ UNCHANGED <<inFlight, req, lease>>

Step(r) ==
  \/ AcquireLookup(r) \/ AcquireLoad(r) \/ AcquireCAS(r)
  \/ ReleaseLookup(r) \/ ReleaseLoad(r) \/ ReleaseCAS(r)

LeasesNext ==
  \/ \E r \in Requests : Step(r) \/ Finish(r) \/ \E u \in Accounts : Start(r, u)
  \/ \E found \in SUBSET Accounts : SyncEntries(found)

LeasesSpec == LeasesInit /\ [][LeasesNext]_leasesVars
-----------------------------------------------------------------------------
(* Safety *)

Holders(e) == {r \in Requests : lease[r] = e}
HoldersOf(u) == {r \in Requests : lease[r] # NoLease /\ lease[r][1] = u}

\* The lookups and compare-and-swap loops implement indivisible slots: no
\* update is lost, no counter passes its limit or goes below zero.
Slots == INSTANCE InFlightSlots WITH used <- inFlight
SlotsSpec == Slots!Spec

\* Capacity is never lost: however requests, removals and re-additions of an
\* account interleave, the entry now in the pool counts no slot that no
\* request of it holds, so an idle account is never refused as full.
NoPhantomLease ==
  \A u \in present :
    inFlight[<<u, gen[u]>>] <= Cardinality(Holders(<<u, gen[u]>>))

WithinLimit(u) == MaxInFlight[u] > 0 => Cardinality(HoldersOf(u)) <= MaxInFlight[u]

\* As long as an account has not come back after it left, it never serves more
\* requests than its limit, however their loads and swaps interleave.
HeldUntilReadded == \A u \in Accounts : gen[u] = 0 => WithinLimit(u)
=============================================================================
