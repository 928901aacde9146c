-------------------------- MODULE PoolPersistence --------------------------
(***************************************************************************)
(* How the pool's state survives (src/internal/pool/persist.go, pool.go,   *)
(* src/internal/redisstore/redisstore.go, src/cmd/server/main.go).         *)
(*                                                                         *)
(* The memory is the authority.  A mutator marks it dirty; the flusher     *)
(* (every 5 s), Flush and Close write a dirty memory to state.json, and    *)
(* SyncToDir writes whatever mark there is.  Each successful write also    *)
(* submits a snapshot to Redis, which a goroutine of its own writes some   *)
(* time later: snapshots may overtake one another.  A start takes what     *)
(* state.json has, unless the snapshot is at least as new.                 *)
(*                                                                         *)
(* DATA.  The state of all accounts is a version: 0 is the state of an     *)
(* empty pool, and every change makes a version never used before.  What   *)
(* the file keeps of an entry is PoolEntry's Filed and Loaded.             *)
(*                                                                         *)
(* TIME.  stamp is the file's mtime and the snapshot's saved_at.  The code *)
(* takes saved_at right after the write; one stamp for both and a new one  *)
(* for every write keeps the order of all comparisons, with a clock that   *)
(* does not go back.                                                       *)
(*                                                                         *)
(* BOUNDS.  At most MaxVersion changes and MaxRestarts restarts.           *)
(***************************************************************************)
EXTENDS Naturals

CONSTANTS
  MaxVersion,   \* changes of the state
  MaxRestarts,  \* restarts of the process
  FaultSets     \* what may go wrong: a behaviour has the faults of one of these

Faults ==
  { "disk",     \* a write of state.json fails
    "redis",    \* a write to Redis fails, or Redis is out of reach at a start
    "crash",    \* the process is killed
    "torn",     \* state.json is there but cannot be read after a crash
    "volume" }  \* state.json is gone after the process ended

ASSUME PersistenceAssumption ==
  /\ MaxVersion \in Nat /\ MaxRestarts \in Nat
  /\ FaultSets \subseteq SUBSET Faults

VARIABLES
  faults,       \* what may go wrong in this behaviour
  phase,        \* of the process
  mem,          \* version in memory
  last,         \* newest version there ever was
  dirty,
  clock,        \* stamp of the last write of state.json
  file,         \* state.json
  torn,         \* state.json cannot be read
  mirror,       \* the snapshot in Redis
  pending,      \* snapshots submitted and not yet written
  online,       \* the store is Redis, not Noop
  restarts

copies == <<clock, file, torn, pending>>
vars == <<faults, phase, mem, last, dirty, copies, mirror, online, restarts>>

\* main: listening; the signal's Flush done; store.Close waits for the writes;
\* the server shuts down; p.Close done; the process is gone.
Phases == {"up", "flushed", "draining", "closed", "exiting", "down"}
Running == phase # "down"

Copy == [data : Nat, stamp : Nat]
NoCopy == [data |-> 0, stamp |-> 0]

\* Versions and stamps are numbers, and once the store is closed no write to Redis
\* waits to be executed, whoever goes on saving (goWrite's check of done).
TypeOK ==
  /\ faults \in FaultSets /\ phase \in Phases
  /\ mem \in Nat /\ last \in Nat /\ clock \in Nat /\ restarts \in Nat
  /\ dirty \in BOOLEAN /\ torn \in BOOLEAN /\ online \in BOOLEAN
  /\ file \in Copy /\ mirror \in Copy /\ pending \in SUBSET Copy
  /\ phase \in {"closed", "exiting", "down"} => pending = {}

Init ==
  /\ faults \in FaultSets
  /\ phase = "up" /\ mem = 0 /\ last = 0 /\ dirty = FALSE /\ clock = 0
  /\ file = NoCopy /\ torn = FALSE /\ mirror = NoCopy /\ pending = {}
  /\ online = TRUE /\ restarts = 0
-----------------------------------------------------------------------------
(* Saving *)

\* goWrite takes no new write once Close has begun.
Accepting == online /\ phase \in {"up", "flushed"}

\* saveLocked: a write that fails is logged and leaves everything as it was.
Save(version) ==
  \/ LET copy == [data |-> version, stamp |-> clock + 1]
     IN  /\ clock' = clock + 1
         /\ file' = copy /\ torn' = FALSE
         /\ pending' = IF Accepting THEN pending \cup {copy} ELSE pending
  \/ "disk" \in faults /\ UNCHANGED copies

\* Flush: the mark is taken away before the write.
Flush ==
  /\ dirty' = FALSE
  /\ IF dirty THEN Save(mem) ELSE UNCHANGED copies

\* Mutant: a mutator that forgets the mark.
MutateUnmarked ==
  /\ Running /\ last < MaxVersion
  /\ mem' = last + 1 /\ last' = last + 1
  /\ UNCHANGED <<faults, phase, dirty, copies, mirror, online, restarts>>

\* Any mutator of the pool.
Mutate ==
  /\ Running /\ last < MaxVersion
  /\ mem' = last + 1 /\ last' = last + 1 /\ dirty' = TRUE
  /\ UNCHANGED <<faults, phase, copies, mirror, online, restarts>>

\* SyncToDir drops accounts whose files are gone, and saves at once.  Accounts it
\* adds have no state yet, and nothing is written for them.
SyncToDir ==
  /\ Running /\ last < MaxVersion
  /\ mem' = last + 1 /\ last' = last + 1
  /\ Save(mem')
  /\ UNCHANGED <<faults, phase, dirty, mirror, online, restarts>>

FlusherTick ==
  /\ phase \in {"up", "flushed", "draining", "closed"} /\ dirty
  /\ Flush
  /\ UNCHANGED <<faults, phase, mem, last, mirror, online, restarts>>

\* A write to Redis is executed, in no particular order.
MirrorWrite(copy) ==
  /\ phase \in {"up", "flushed", "draining"}
  /\ pending' = pending \ {copy}
  /\ \/ mirror' = copy
     \/ "redis" \in faults /\ mirror' = mirror
  /\ UNCHANGED <<faults, phase, mem, last, dirty, clock, file, torn, online, restarts>>
-----------------------------------------------------------------------------
(* The end of the process *)

StopAtSignal ==
  /\ phase = "up" /\ phase' = "flushed"
  /\ Flush
  /\ UNCHANGED <<faults, mem, last, mirror, online, restarts>>

CloseStore ==
  /\ phase = "flushed" /\ phase' = "draining"
  /\ UNCHANGED <<faults, mem, last, dirty, copies, mirror, online, restarts>>

\* store.Close returns: all writes are done, or it has waited for 10 s.
Drained ==
  /\ phase = "draining" /\ phase' = "closed"
  /\ pending = {} \/ "redis" \in faults
  /\ pending' = {}
  /\ UNCHANGED <<faults, mem, last, dirty, clock, file, torn, mirror, online, restarts>>

\* The deferred p.Close of main, after ListenAndServe has returned.
ClosePool ==
  /\ phase = "closed" /\ phase' = "exiting"
  /\ Flush
  /\ UNCHANGED <<faults, mem, last, mirror, online, restarts>>

Exit ==
  /\ phase = "exiting" /\ phase' = "down"
  /\ UNCHANGED <<faults, mem, last, dirty, copies, mirror, online, restarts>>

\* saveLocked renames without syncing, so a file may come out unreadable.
Crash ==
  /\ "crash" \in faults /\ Running
  /\ phase' = "down" /\ pending' = {}
  /\ \/ torn' = torn
     \/ "torn" \in faults /\ file # NoCopy /\ torn' = TRUE
  /\ UNCHANGED <<faults, mem, last, dirty, clock, file, mirror, online, restarts>>

LoseVolume ==
  /\ "volume" \in faults /\ ~Running
  /\ file' = NoCopy /\ torn' = FALSE
  /\ UNCHANGED <<faults, phase, mem, last, dirty, clock, mirror, pending, online, restarts>>
-----------------------------------------------------------------------------
(* The start: load, then RestoreFromSnapshot *)

OnDisk == IF torn THEN 0 ELSE file.data

SnapshotAlways == mirror # NoCopy

\* The snapshot is adopted: there is no local file, or it is not newer.
SnapshotWins == mirror # NoCopy /\ (file = NoCopy \/ ~(file.stamp > mirror.stamp))

\* Mutant: adopts the snapshot without the mark.
RestartUnmarked ==
  /\ ~Running /\ restarts < MaxRestarts
  /\ phase' = "up" /\ restarts' = restarts + 1
  /\ online' = TRUE /\ dirty' = FALSE
  /\ mem' = IF SnapshotWins THEN mirror.data ELSE OnDisk
  /\ UNCHANGED <<faults, last, copies, mirror>>

\* The store is Noop for good if Redis is out of reach at the start; the read of
\* the snapshot may fail on its own.
Restart ==
  /\ ~Running /\ restarts < MaxRestarts
  /\ phase' = "up" /\ restarts' = restarts + 1
  /\ \E store, read \in BOOLEAN :
       /\ read => store
       /\ read \/ "redis" \in faults
       /\ online' = store
       /\ dirty' = (read /\ SnapshotWins)
       /\ mem' = IF read /\ SnapshotWins THEN mirror.data ELSE OnDisk
  /\ UNCHANGED <<faults, last, copies, mirror>>
-----------------------------------------------------------------------------
Next ==
  \/ Mutate \/ SyncToDir \/ FlusherTick
  \/ \E copy \in pending : MirrorWrite(copy)
  \/ StopAtSignal \/ CloseStore \/ Drained \/ ClosePool \/ Exit
  \/ Crash \/ LoseVolume \/ Restart

Spec == Init /\ [][Next]_vars

\* The flusher's ticker fires for as long as the process runs.
FairSpec == Spec /\ WF_vars(FlusherTick)
-----------------------------------------------------------------------------
(* Correctness *)

\* persist.go, adoptSnapshot and every mutator: a memory that state.json does not
\* have is marked, so that some flush will write it; as long as no write fails.
UnsavedIsDirty == Running /\ "disk" \notin faults => mem = OnDisk \/ dirty

\* What has been written to state.json is never lost to a crash, to snapshots
\* that overtake one another or to a restart that adopts one: the memory is never
\* older than the file, unless the volume loses the file or its contents.
NothingSavedIsLost ==
  Running /\ faults \cap {"torn", "volume"} = {} => mem >= file.data

\* A node that starts on an empty volume starts from the snapshot in Redis, if it
\* can be read.
StartsFromMirror ==
  [][~Running /\ Running' /\ file = NoCopy /\ "redis" \notin faults
     => mem' = mirror.data]_vars

\* README, state persistence: every change is on disk in the end, and so is a
\* snapshot a start has adopted, if the process stays up and writes succeed.
EverySaved ==
  "disk" \notin faults
  => \A v \in 1..MaxVersion :
       Running /\ mem = v ~> OnDisk >= v \/ phase \in {"exiting", "down"}
=============================================================================
