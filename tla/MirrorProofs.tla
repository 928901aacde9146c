---------------------------- MODULE MirrorProofs ----------------------------
(***************************************************************************)
(* Proofs about what Redis mirrors: the pool's state (PoolPersistence), for*)
(* any number of changes and restarts and every set of faults; the sticky  *)
(* sessions (Sessions), for any sessions, requests, accounts and TTL.      *)
(*                                                                         *)
(* Ordered is what makes adopting a snapshot safe although snapshots       *)
(* overtake one another: as long as the volume keeps the file, no snapshot *)
(* is newer than the file, and one as new has the same contents.           *)
(*                                                                         *)
(* Agreed is what makes two critical sections do: whatever a request read  *)
(* that nothing has disturbed since is still what is bound.  Recent bounds *)
(* by the last use how long a binding, and the row that stands for it, can *)
(* last; Mirrored says which writes of a session may still be waiting.     *)
(***************************************************************************)
EXTENDS PoolPersistence, Sessions, TLAPS

Snapshots == pending \cup {mirror}

\* Nothing is newer than the newest version and the last stamp.
Known ==
  /\ mem <= last
  /\ \A c \in Snapshots \cup {file} : c.data <= last /\ c.stamp <= clock

FileKept == faults \cap {"torn", "volume"} = {}

Ordered ==
  FileKept =>
    /\ ~torn
    /\ Running => mem >= file.data
    /\ \A c \in Snapshots : /\ c.stamp <= file.stamp
                            /\ c.stamp = file.stamp => c.data = file.data

IInv == TypeOK /\ Known /\ Ordered

LEMMA CopyType == NoCopy \in Copy /\ NoCopy.data = 0 /\ NoCopy.stamp = 0
  BY DEF NoCopy, Copy

LEMMA InitIInv == Init => IInv
  <1> SUFFICES ASSUME Init PROVE IInv
    OBVIOUS
  <1>1. TypeOK
    BY CopyType DEF Init, TypeOK, Phases
  <1>2. Known /\ Ordered
    BY CopyType DEF Init, Known, Ordered, Snapshots
  <1>3. QED
    BY <1>1, <1>2 DEF IInv

\* A write of the version in memory, be it one just made or the one there was.
LEMMA SaveIInv ==
  ASSUME IInv, Running, Save(mem'), mem' \in Nat, last' \in Nat, mem' <= last', last <= last',
         mem' >= mem, mem' = last' \/ mem' = mem,
         phase' \in Phases, dirty' \in BOOLEAN, UNCHANGED <<faults, mirror, online, restarts>>,
         phase' \in {"closed", "exiting", "down"} => pending = {},
         Accepting => phase' \in {"up", "flushed"},
         phase' # "down"
  PROVE  IInv'
  <1> DEFINE new == [data |-> mem', stamp |-> clock + 1]
  <1> USE DEF IInv
  <1>1. CASE UNCHANGED copies
    <2>1. TypeOK'
      <3>1. UNCHANGED <<clock, file, torn, pending, mirror, faults, restarts, online>>
        BY <1>1 DEF copies
      <3>2. phase' \in {"closed", "exiting", "down"} => pending' = {}
        BY <3>1
      <3>3. /\ faults' \in FaultSets /\ clock' \in Nat /\ restarts' \in Nat
            /\ torn' \in BOOLEAN /\ online' \in BOOLEAN
            /\ file' \in Copy /\ mirror' \in Copy /\ pending' \in SUBSET Copy
        BY <3>1 DEF TypeOK, Copy
      <3>4. QED
        BY <3>2, <3>3 DEF TypeOK
    <2>2. Known'
      <3>1. \A c \in Snapshots \cup {file} : c \in Copy
        BY DEF TypeOK, Snapshots
      <3>2. QED
        BY <1>1, <3>1 DEF TypeOK, Known, Snapshots, copies, Copy
    <2>3. Ordered'
      BY <1>1 DEF TypeOK, Ordered, FileKept, Running, Snapshots, copies, Copy
    <2>4. QED
      BY <2>1, <2>2, <2>3
  <1>2. CASE /\ clock' = clock + 1 /\ file' = new /\ torn' = FALSE
             /\ pending' = IF Accepting THEN pending \cup {new} ELSE pending
    <2>1. /\ new \in Copy /\ new.data = mem' /\ new.stamp = clock + 1 /\ clock \in Nat
          /\ \A c \in Snapshots \cup {file} : c \in Copy /\ c.data <= last /\ c.stamp <= clock
          /\ \A c \in Snapshots' : c = new \/ c \in Snapshots
      BY <1>2 DEF TypeOK, Known, Snapshots, Copy
    <2> HIDE DEF new
    <2>2. TypeOK'
      <3>1. phase' \in {"closed", "exiting", "down"} => pending' = {}
        BY <1>2 DEF TypeOK, Accepting, Phases
      <3>2. /\ faults' \in FaultSets /\ clock' \in Nat /\ restarts' \in Nat
            /\ online' \in BOOLEAN /\ mirror' \in Copy
        BY <1>2, <2>1 DEF TypeOK
      <3>3. torn' \in BOOLEAN /\ file' \in Copy /\ pending' \in SUBSET Copy
        BY <1>2, <2>1 DEF TypeOK
      <3>4. QED
        BY <3>1, <3>2, <3>3 DEF TypeOK
    <2>3. Known'
      BY <1>2, <2>1 DEF TypeOK, Known, Copy
    <2>4. \A c \in Snapshots' : c.stamp <= new.stamp /\ (c.stamp = new.stamp => c.data = new.data)
      <3>1. \A c \in Snapshots : c.stamp < new.stamp
        BY <2>1 DEF Copy
      <3>2. QED
        BY <2>1, <3>1 DEF Copy
    <2>5. Ordered'
      BY <1>2, <2>1, <2>4 DEF Ordered, Copy
    <2>6. QED
      BY <2>2, <2>3, <2>5
  <1>3. QED
    BY <1>1, <1>2 DEF Save

\* Flush writes the version in memory or nothing.
LEMMA FlushIInv ==
  ASSUME IInv, Running, Flush, phase' \in Phases, phase' # "down",
         UNCHANGED <<faults, mem, last, mirror, online, restarts>>,
         phase' \in {"closed", "exiting", "down"} => pending = {},
         Accepting => phase' \in {"up", "flushed"}
  PROVE  IInv'
  <1>1. mem \in Nat /\ last \in Nat /\ mem <= last /\ dirty' \in BOOLEAN
    BY DEF IInv, TypeOK, Known, Flush
  <1>2. CASE dirty
    BY <1>1, <1>2, SaveIInv DEF Flush
  <1>3. CASE ~dirty
    <2>1. UNCHANGED copies
      BY <1>3 DEF Flush
    <2>2. TypeOK' /\ Known' /\ Ordered'
      BY <1>1, <2>1 DEF IInv, TypeOK, Known, Ordered, FileKept, Running, Snapshots, copies, Phases
    <2>3. QED
      BY <2>2 DEF IInv
  <1>4. QED
    BY <1>2, <1>3

LEMMA StepIInv == IInv /\ [Next]_vars => IInv'
  <1> SUFFICES ASSUME IInv, [Next]_vars PROVE IInv'
    OBVIOUS
  <1>0. /\ TypeOK /\ Known /\ Ordered
        /\ \A c \in Snapshots \cup {file} : c \in Copy
        /\ \A c \in Copy : c.data \in Nat /\ c.stamp \in Nat
    BY DEF IInv, TypeOK, Snapshots, Copy
  <1>1. CASE Mutate
    BY <1>0, <1>1 DEF Mutate, IInv, TypeOK, Known, Ordered, FileKept, Running, Snapshots, copies
  <1>2. CASE SyncToDir
    <2>1. mem' = last + 1 /\ last' = last + 1 /\ mem \in Nat /\ last \in Nat /\ mem <= last
      BY <1>0, <1>2 DEF SyncToDir, TypeOK, Known
    <2>2. phase \in Phases /\ dirty \in BOOLEAN /\ Running /\ Save(mem')
          /\ UNCHANGED <<faults, phase, dirty, mirror, online, restarts>>
      BY <1>0, <1>2 DEF SyncToDir, TypeOK
    <2>3. mem' \in Nat /\ last' \in Nat /\ mem' <= last' /\ last <= last' /\ mem' >= mem
      BY <2>1
    <2>4. phase' \in Phases /\ dirty' \in BOOLEAN /\ phase' # "down"
      BY <2>2 DEF Running
    <2>5. Accepting => phase' \in {"up", "flushed"}
      BY <2>2 DEF Accepting
    <2>6. phase' \in {"closed", "exiting", "down"} => pending = {}
      BY <1>0, <2>2 DEF TypeOK
    <2>7. QED
      BY <2>1, <2>2, <2>3, <2>4, <2>5, <2>6, SaveIInv
  <1>3. CASE FlusherTick
    BY <1>0, <1>3, FlushIInv DEF FlusherTick, Running, TypeOK, Accepting
  <1>4. CASE \E copy \in pending : MirrorWrite(copy)
    <2>1. PICK copy \in pending : MirrorWrite(copy)
      BY <1>4
    <2>2. \A c \in Snapshots' : c \in Snapshots
      BY <2>1 DEF MirrorWrite, Snapshots
    <2>3. TypeOK'
      BY <1>0, <2>1 DEF MirrorWrite, TypeOK
    <2>4. Known' /\ Ordered'
      BY <1>0, <2>1, <2>2 DEF MirrorWrite, Known, Ordered, FileKept, Running
    <2>5. QED
      BY <2>3, <2>4 DEF IInv
  <1>5. CASE StopAtSignal
    BY <1>0, <1>5, FlushIInv DEF StopAtSignal, Running, Accepting, Phases
  <1>6. CASE CloseStore \/ Drained \/ Exit
    <2>1. Snapshots' \subseteq Snapshots
      BY <1>6 DEF CloseStore, Drained, Exit, Snapshots, copies
    <2>2. TypeOK'
      BY <1>0, <1>6 DEF CloseStore, Drained, Exit, TypeOK, Phases, copies
    <2>3. Known' /\ Ordered'
      BY <1>0, <1>6, <2>1
         DEF CloseStore, Drained, Exit, Known, Ordered, FileKept, Running, copies
    <2>4. QED
      BY <2>2, <2>3 DEF IInv
  <1>7. CASE ClosePool
    <2>1. pending = {} /\ phase = "closed" /\ phase' = "exiting"
      BY <1>0, <1>7 DEF ClosePool, TypeOK
    <2>2. QED
      BY <1>7, <2>1, FlushIInv DEF ClosePool, Running, Accepting, Phases
  <1>8. CASE Crash
    <2>1. Snapshots' \subseteq Snapshots
      BY <1>8 DEF Crash, Snapshots
    <2>2. TypeOK'
      BY <1>0, <1>8 DEF Crash, TypeOK, Phases
    <2>3. Known' /\ Ordered'
      BY <1>0, <1>8, <2>1 DEF Crash, Known, Ordered, FileKept, Running
    <2>4. QED
      BY <2>2, <2>3 DEF IInv
  <1>9. CASE LoseVolume
    <2>1. TypeOK'
      BY <1>0, <1>9, CopyType DEF LoseVolume, TypeOK
    <2>2. Known'
      BY <1>0, <1>9, CopyType DEF LoseVolume, Known, TypeOK, Snapshots
    <2>3. Ordered'
      BY <1>9 DEF LoseVolume, Ordered, FileKept
    <2>4. QED
      BY <2>1, <2>2, <2>3 DEF IInv
  <1>10. CASE Restart
    <2>1. /\ phase = "down" /\ phase' = "up" /\ UNCHANGED <<faults, last, copies, mirror>>
          /\ restarts' = restarts + 1
      BY <1>10 DEF Restart, Running
    <2> PICK up \in BOOLEAN, read \in BOOLEAN :
          /\ online' = up /\ dirty' = (read /\ SnapshotWins)
          /\ mem' = IF read /\ SnapshotWins THEN mirror.data ELSE OnDisk
      BY <1>10 DEF Restart
    <2> online' \in BOOLEAN /\ dirty' \in BOOLEAN
      OBVIOUS
    <2>2. /\ mirror \in Snapshots /\ mirror \in Copy /\ file \in Copy
          /\ mem' \in {mirror.data, file.data, 0}
      BY <1>0, <2>1 DEF OnDisk, Snapshots
    <2>3. TypeOK'
      BY <1>0, <2>1, <2>2 DEF TypeOK, Phases, copies
    <2>4. Known'
      <3>1. mem' <= last
        BY <1>0, <2>2 DEF Known, TypeOK
      <3>2. QED
        BY <1>0, <2>1, <3>1 DEF Known, Snapshots, copies
    <2>5. Ordered'
      <3>1. ASSUME FileKept PROVE mem' = file.data
        <4>1. CASE read /\ SnapshotWins
          <5>1. ~(file.stamp > mirror.stamp)
            BY <1>0, <2>2, <4>1, CopyType DEF SnapshotWins
          <5>2. mirror.stamp <= file.stamp /\ (mirror.stamp = file.stamp => mirror.data = file.data)
            BY <1>0, <2>2, <3>1 DEF Ordered
          <5>3. QED
            BY <1>0, <2>1, <2>2, <4>1, <5>1, <5>2
        <4>2. CASE ~(read /\ SnapshotWins)
          BY <1>0, <2>1, <3>1, <4>2 DEF Ordered, OnDisk
        <4>3. QED
          BY <4>1, <4>2
      <3>2. QED
        BY <1>0, <2>1, <2>2, <3>1 DEF Ordered, FileKept, Snapshots, copies
    <2>6. QED
      BY <2>3, <2>4, <2>5 DEF IInv
  <1>11. CASE UNCHANGED vars
    BY <1>0, <1>11 DEF vars, copies, IInv, TypeOK, Known, Ordered, FileKept, Running, Snapshots
  <1>12. QED
    BY <1>1, <1>2, <1>3, <1>4, <1>5, <1>6, <1>7, <1>8, <1>9, <1>10, <1>11 DEF Next

\* No write to Redis is left behind once the store is closed.
THEOREM TypeCorrect == Spec => []TypeOK
  BY InitIInv, StepIInv, PTL DEF Spec, IInv

\* What has been written to state.json outlives crashes, restarts and snapshots
\* that overtake one another, unless the volume loses it.
THEOREM SavedIsKept == Spec => []NothingSavedIsLost
  <1>1. IInv => NothingSavedIsLost
    BY DEF IInv, Ordered, FileKept, NothingSavedIsLost
  <1>2. QED
    BY <1>1, InitIInv, StepIInv, PTL DEF Spec
-----------------------------------------------------------------------------
\* A save that cannot fail leaves the file with the version saved.
LEMMA SaveOnDisk ==
  ASSUME NEW version, "disk" \notin faults, Save(version)
  PROVE  OnDisk' = version
  BY DEF Save, OnDisk

\* As long as writes succeed, what state.json does not have is marked dirty.
THEOREM UnsavedMarked == Spec => []UnsavedIsDirty
  <1>1. Init => UnsavedIsDirty
    BY CopyType DEF Init, UnsavedIsDirty, OnDisk
  <1>2. UnsavedIsDirty /\ [Next]_vars => UnsavedIsDirty'
    <2> SUFFICES ASSUME UnsavedIsDirty, [Next]_vars, "disk" \notin faults', Running'
                 PROVE  (mem = OnDisk \/ dirty)'
      BY DEF UnsavedIsDirty
    <2>1. ASSUME Running, Flush, mem' = mem, faults' = faults PROVE mem' = OnDisk'
      <3>1. CASE dirty
        BY <2>1, <3>1, SaveOnDisk DEF Flush
      <3>2. CASE ~dirty
        BY <2>1, <3>2 DEF Flush, UnsavedIsDirty, OnDisk, copies
      <3>3. QED
        BY <3>1, <3>2
    <2>2. CASE Mutate
      BY <2>2 DEF Mutate
    <2>3. CASE SyncToDir
      BY <2>3, SaveOnDisk DEF SyncToDir
    <2>4. CASE FlusherTick \/ StopAtSignal \/ ClosePool
      BY <2>1, <2>4 DEF FlusherTick, StopAtSignal, ClosePool, Running
    <2>5. CASE \E copy \in pending : MirrorWrite(copy)
      BY <2>5 DEF MirrorWrite, UnsavedIsDirty, Running, OnDisk
    <2>6. CASE CloseStore \/ Drained
      BY <2>6 DEF CloseStore, Drained, UnsavedIsDirty, Running, OnDisk, copies
    <2>7. CASE Exit \/ Crash \/ LoseVolume
      BY <2>7 DEF Exit, Crash, LoseVolume, Running
    <2>8. CASE Restart
      BY <2>8 DEF Restart, OnDisk, copies
    <2>9. CASE UNCHANGED vars
      BY <2>9 DEF vars, copies, UnsavedIsDirty, Running, OnDisk
    <2>10. QED
      BY <2>2, <2>3, <2>4, <2>5, <2>6, <2>7, <2>8, <2>9 DEF Next
  <1>3. QED
    BY <1>1, <1>2, PTL DEF Spec
-----------------------------------------------------------------------------
\* Without a state file a start has the state of the snapshot, which is the empty
\* pool if there is none.
THEOREM EmptyVolumeStartsFromMirror == Spec => StartsFromMirror
  <1>1. ASSUME [Next]_vars, ~Running, Running', file = NoCopy, "redis" \notin faults
        PROVE  mem' = mirror.data
    <2>1. Restart
      BY <1>1 DEF Next, Mutate, SyncToDir, FlusherTick, MirrorWrite, StopAtSignal, CloseStore,
                  Drained, ClosePool, Exit, Crash, LoseVolume, Running, vars
    <2>2. mem' = IF SnapshotWins THEN mirror.data ELSE OnDisk
      BY <1>1, <2>1 DEF Restart
    <2>3. CASE mirror = NoCopy
      BY <1>1, <2>2, <2>3, CopyType DEF OnDisk
    <2>4. CASE mirror # NoCopy
      BY <1>1, <2>2, <2>4 DEF SnapshotWins
    <2>5. QED
      BY <2>3, <2>4
  <1>2. QED
    BY <1>1, PTL DEF Spec, StartsFromMirror
-----------------------------------------------------------------------------
(* Sessions: the invariant *)

\* A request knows the account it is about to touch or has touched, and none while it has to look
\* again; one that bound or unbound its session no longer agrees with anyone.
Named == \A r \in Requests : /\ req[r].pc \in {"touch", "touched"} => req[r].uid \in UIDs
                             /\ req[r].pc = "assign" => req[r].uid = NoUID
                             /\ req[r].pc \in {"bound", "unbound"} => ~req[r].fresh

Usable(k, u) == entries[k].uid = u /\ u \in avail /\ ~Expired(k)

\* What an undisturbed request has read still holds.
Agreed ==
  \A r \in Requests :
    req[r].pc # "idle" /\ req[r].fresh =>
      /\ req[r].avail = avail
      /\ req[r].pc \in {"touch", "touched", "serve"} /\ req[r].uid # NoUID
           => Usable(req[r].key, req[r].uid)
      /\ req[r].pc = "serve" /\ req[r].uid = NoUID => avail = {}

\* While Redis does not fail and no two changes of a session overlapped, every change that is on its
\* way to the row is for the account that is bound, or deletes.
Orderly(k) == connected /\ ~closed /\ "redis" \notin world.events /\ k \notin tangled
Mirrored ==
  \A k \in Keys :
    Orderly(k) /\ Bound(k) =>
      /\ UnderWay(k) \subseteq {NoUID, entries[k].uid}
      /\ Live(k) => rows[k].uid = entries[k].uid \/ UnderWay(k) # {}

\* A binding was used or loaded less than a TTL after its use; a row lasts a TTL from the use; a
\* change that is on its way is for a use of now.
Recent ==
  /\ \A k \in Keys, u \in UIDs : lastUse[k][u] <= now
  /\ \A k \in Keys : Bound(k) => entries[k].at < lastUse[k][entries[k].uid] + TTL
  /\ \A k \in Keys : rows[k].uid # NoUID => rows[k].until <= lastUse[k][rows[k].uid] + TTL
  /\ \A k \in Keys : \A u \in UnderWay(k) : u # NoUID => lastUse[k][u] = now

SessionsInv == SessionsTypeOK /\ Named /\ Agreed /\ Mirrored /\ Recent

-----------------------------------------------------------------------------
(* Sessions: what the steps have in common *)

LEMMA Empty ==
  /\ Unbound \in Bindings /\ NoRow \in Rows /\ Unbound.uid = NoUID /\ NoRow.uid = NoUID
  /\ Idle \in RequestStates /\ Idle.pc = "idle" /\ ~Idle.fresh
  BY SessionsAssumption DEF Unbound, NoRow, Bindings, Rows, Idle, RequestStates

LEMMA Disturbed ==
  ASSUME NEW rs \in [Requests -> RequestStates], NEW ks
  PROVE  /\ Disturb(rs, ks) \in [Requests -> RequestStates]
         /\ \A s \in Requests :
              /\ Disturb(rs, ks)[s].pc = rs[s].pc /\ Disturb(rs, ks)[s].key = rs[s].key
              /\ Disturb(rs, ks)[s].uid = rs[s].uid /\ Disturb(rs, ks)[s].avail = rs[s].avail
              /\ rs[s].key \in ks => ~Disturb(rs, ks)[s].fresh
              /\ rs[s].key \notin ks => Disturb(rs, ks)[s] = rs[s]
              /\ Disturb(rs, ks)[s].fresh => rs[s].fresh
  <1>1. \A s \in Requests : rs[s] \in RequestStates
    OBVIOUS
  <1>2. \A s \in Requests : Disturb(rs, ks)[s] = IF rs[s].key \in ks THEN [rs[s] EXCEPT !.fresh = FALSE] ELSE rs[s]
    BY DEF Disturb
  <1>3. \A s \in Requests : [rs[s] EXCEPT !.fresh = FALSE] \in RequestStates
    BY <1>1 DEF RequestStates
  <1>4. Disturb(rs, ks) \in [Requests -> RequestStates]
    BY <1>3 DEF Disturb
  <1>5. QED
    BY <1>1, <1>2, <1>4 DEF RequestStates

LEMMA SubmitTypes ==
  ASSUME SessionsTypeOK, NEW k \in Keys, NEW us \in SUBSET (UIDs \cup {NoUID}), Submit(k, us)
  PROVE  /\ writes' \in SUBSET Writes /\ (writes' # {} => connected')
         /\ UNCHANGED <<connected, closed, rows>>
  <1>1. \A u \in us : [key |-> k, uid |-> u] \in Writes
    BY DEF Writes
  <1>2. QED
    BY <1>1 DEF Submit, SessionsTypeOK

\* Where requests come to no new call of the store, the same changes are on their way.
SameCalls(s) == /\ Mirroring(s)' <=> Mirroring(s)
                /\ Mirroring(s) => req'[s].key = req[s].key /\ req'[s].uid = req[s].uid

LEMMA CalmUnderWay ==
  ASSUME UNCHANGED <<writes, swept>>, \A s \in Requests : SameCalls(s)
  PROVE  \A j \in Keys : UnderWay(j)' = UnderWay(j)
  BY DEF UnderWay, SameCalls

\* A request that changed the map has the change on its way.
LEMMA ChangedUnderWay ==
  ASSUME UNCHANGED <<writes, swept>>, NEW r \in Requests, NEW k, NEW u \in UIDs \cup {NoUID},
         ~Mirroring(r), Mirroring(r)', req'[r].key = k, req'[r].uid = u,
         \A s \in Requests \ {r} : SameCalls(s)
  PROVE  \A j \in Keys : UnderWay(j)' = UnderWay(j) \cup {v \in {u} : j = k}
  <1>1. ASSUME NEW j \in Keys, NEW v \in UIDs \cup {NoUID}
        PROVE  v \in UnderWay(j)' <=> v \in UnderWay(j) \/ (v = u /\ j = k)
    BY DEF UnderWay, SameCalls
  <1>2. \A j \in Keys : UnderWay(j) \subseteq UIDs \cup {NoUID} /\ UnderWay(j)' \subseteq UIDs \cup {NoUID}
    BY DEF UnderWay
  <1>3. QED
    BY <1>1, <1>2

\* What a submission adds to what is on its way: nothing to a store that is gone or closed.
LEMMA SubmittedUnderWay ==
  ASSUME NEW k \in Keys, NEW us \in SUBSET (UIDs \cup {NoUID}), Submit(k, us),
         UNCHANGED swept, \A s \in Requests : SameCalls(s)
  PROVE  \A j \in Keys : UnderWay(j)' = UnderWay(j) \cup {v \in us : j = k /\ connected /\ ~closed}
  <1>1. ASSUME NEW j \in Keys, NEW v \in UIDs \cup {NoUID}
        PROVE  [key |-> j, uid |-> v] \in writes'
               <=> \/ [key |-> j, uid |-> v] \in writes
                   \/ v \in us /\ j = k /\ connected /\ ~closed
    <2>1. \A u \in us : [key |-> j, uid |-> v] = [key |-> k, uid |-> u] <=> j = k /\ v = u
      OBVIOUS
    <2>2. QED
      BY <2>1 DEF Submit
  <1>2. ASSUME NEW j \in Keys, NEW v \in UIDs \cup {NoUID}
        PROVE  v \in UnderWay(j)' <=> v \in UnderWay(j) \/ (v \in us /\ j = k /\ connected /\ ~closed)
    BY <1>1 DEF UnderWay, SameCalls
  <1>3. \A j \in Keys : UnderWay(j) \subseteq UIDs \cup {NoUID} /\ UnderWay(j)' \subseteq UIDs \cup {NoUID}
    BY DEF UnderWay
  <1>4. QED
    BY <1>2, <1>3

\* The sessions ks go over to u, or to nobody, and what is on its way follows.
Leads(j, u) ==
  /\ entries'[j].uid = u /\ UnderWay(j)' \subseteq UnderWay(j) \cup {NoUID, u}
  /\ u = NoUID => lastUse'[j] = lastUse[j]
  /\ u # NoUID => /\ entries'[j].at = now /\ lastUse'[j] = [lastUse[j] EXCEPT ![u] = now]
                  /\ Orderly(j)' => /\ UnderWay(j) \subseteq {NoUID, u}
                                    /\ Live(j) => rows[j].uid = u \/ UnderWay(j)' # {}
Rests(j) ==
  /\ entries'[j] = entries[j] /\ lastUse'[j] = lastUse[j] /\ (j \in tangled' <=> j \in tangled)
  /\ UnderWay(j)' \subseteq UnderWay(j)
  /\ connected /\ ~closed => UnderWay(j) \subseteq UnderWay(j)'

LEMMA MirrorKeeps ==
  ASSUME SessionsTypeOK, SessionsTypeOK', Mirrored, Recent, NEW ks \in SUBSET Keys, NEW u \in UIDs \cup {NoUID},
         UNCHANGED <<world, now, connected, closed, rows>>,
         \A j \in ks : Leads(j, u), \A j \in Keys \ ks : Rests(j)
  PROVE  Mirrored' /\ Recent'
  <1>1. \A j \in Keys : (Live(j)' <=> Live(j)) /\ (Bound(j)' <=> entries'[j].uid # NoUID)
    BY DEF Live, Bound
  <1>2. NoUID \notin UIDs /\ TTL \in Nat /\ TTL > 0
    BY SessionsAssumption
  <1>3. /\ now \in Nat /\ lastUse \in [Keys -> [UIDs -> Nat]] /\ rows \in [Keys -> Rows]
        /\ entries' \in [Keys -> Bindings] /\ lastUse' \in [Keys -> [UIDs -> Nat]]
    BY DEF SessionsTypeOK
  <1>4. Mirrored'
    <2>1. ASSUME NEW j \in Keys, Orderly(j)', Bound(j)'
          PROVE  /\ UnderWay(j)' \subseteq {NoUID, entries'[j].uid}
                 /\ Live(j)' => rows'[j].uid = entries'[j].uid \/ UnderWay(j)' # {}
      <3>1. CASE j \in ks
        BY <1>1, <2>1, <3>1 DEF Leads
      <3>2. CASE j \notin ks
        <4>1. Orderly(j) /\ Bound(j) /\ entries'[j] = entries[j] /\ UnderWay(j)' = UnderWay(j)
          BY <2>1, <3>2 DEF Rests, Orderly, Bound
        <4>2. QED
          BY <1>1, <4>1 DEF Mirrored
      <3>3. QED
        BY <3>1, <3>2
    <2>2. QED
      BY <2>1 DEF Mirrored
  <1>5. \A j \in Keys, v \in UIDs : /\ lastUse'[j][v] = lastUse[j][v] \/ lastUse'[j][v] = now
                                   /\ lastUse[j][v] <= now
    <2>1. ASSUME NEW j \in Keys, NEW v \in UIDs PROVE lastUse'[j][v] = lastUse[j][v] \/ lastUse'[j][v] = now
      <3>1. lastUse[j] \in [UIDs -> Nat]
        BY <1>3
      <3>2. \/ lastUse'[j] = lastUse[j]
            \/ lastUse'[j] = [lastUse[j] EXCEPT ![u] = now]
        BY DEF Leads, Rests
      <3>3. QED
        BY <3>1, <3>2
    <2>2. QED
      BY <2>1 DEF Recent
  <1>6. \A j \in Keys, v \in UIDs : lastUse'[j][v] <= now /\ lastUse[j][v] <= lastUse'[j][v]
                                   /\ lastUse[j][v] \in Nat /\ lastUse'[j][v] \in Nat
    BY <1>3, <1>5
  <1>7. ASSUME NEW j \in Keys, Bound(j)' PROVE entries'[j].at < lastUse'[j][entries'[j].uid] + TTL
    <2>1. CASE j \in ks
      <3>1. u \in UIDs /\ entries'[j].at = now /\ entries'[j].uid = u /\ lastUse'[j] = [lastUse[j] EXCEPT ![u] = now]
        BY <1>1, <1>7, <2>1 DEF Leads
      <3>2. lastUse[j] \in [UIDs -> Nat]
        BY <1>3
      <3>3. lastUse'[j][u] = now
        BY <3>1, <3>2
      <3>4. QED
        BY <1>2, <1>3, <3>1, <3>3
    <2>2. CASE j \notin ks
      BY <1>7, <2>2 DEF Rests, Recent, Bound
    <2>3. QED
      BY <2>1, <2>2
  <1>8. ASSUME NEW j \in Keys, rows'[j].uid # NoUID PROVE rows'[j].until <= lastUse'[j][rows'[j].uid] + TTL
    <2>1. rows[j].uid \in UIDs /\ rows[j].until \in Nat /\ rows' = rows
      BY <1>3, <1>8 DEF Rows
    <2>2. rows[j].until <= lastUse[j][rows[j].uid] + TTL
      BY <1>8 DEF Recent
    <2>3. QED
      BY <1>2, <1>6, <2>1, <2>2
  <1>9. ASSUME NEW j \in Keys, NEW v \in UnderWay(j)', v # NoUID PROVE lastUse'[j][v] = now
    <2>1. v \in UIDs
      BY <1>9 DEF UnderWay
    <2>2. CASE v \in UnderWay(j)
      BY <1>5, <1>9, <2>1, <2>2 DEF Recent
    <2>3. CASE v \notin UnderWay(j)
      <3>1. v = u /\ lastUse'[j] = [lastUse[j] EXCEPT ![u] = now] /\ lastUse[j] \in [UIDs -> Nat]
        BY <1>3, <1>9, <2>3 DEF Leads, Rests
      <3>2. QED
        BY <2>1, <3>1
    <2>4. QED
      BY <2>2, <2>3
  <1>10. QED
    BY <1>4, <1>6, <1>7, <1>8, <1>9 DEF Recent

\* After a change that is not tangled, nothing under way goes elsewhere.
LEMMA TangleExact ==
  ASSUME NEW ks \in SUBSET Keys, NEW u, Tangle(ks, u)
  PROVE  /\ \A j \in ks : j \notin tangled' => UnderWay(j) \subseteq {NoUID, u}
         /\ \A j \in Keys \ ks : j \in tangled' <=> j \in tangled
         /\ tangled \in SUBSET Keys => tangled' \in SUBSET Keys
  BY DEF Tangle

LEMMA TangleOne ==
  ASSUME NEW k \in Keys, NEW u, Tangle({k}, u)
  PROVE  /\ k \notin tangled' => UnderWay(k) \subseteq {NoUID, u}
         /\ \A j \in Keys \ {k} : j \in tangled' <=> j \in tangled
         /\ tangled \in SUBSET Keys => tangled' \in SUBSET Keys
  BY DEF Tangle

LEMMA RestsKeep ==
  ASSUME SessionsTypeOK, SessionsTypeOK', Mirrored, Recent,
         UNCHANGED <<world, now, connected, closed, rows>>, \A j \in Keys : Rests(j)
  PROVE  Mirrored' /\ Recent'
  <1>1. /\ {} \in SUBSET Keys /\ NoUID \in UIDs \cup {NoUID}
        /\ \A j \in {} : Leads(j, NoUID)
        /\ \A j \in Keys \ {} : Rests(j)
    OBVIOUS
  <1>2. QED
    BY <1>1, MirrorKeeps

-----------------------------------------------------------------------------
(* Sessions: the requests *)

\* A request has its account, and those that nothing has disturbed agree.
LEMMA ResolvedAgrees ==
  ASSUME SessionsTypeOK, Named, Agreed, NEW r \in Requests, NEW k \in Keys, NEW u \in UIDs,
         NEW p \in {"touched", "serve"}, Resolved(r, k, u, p), k = req[r].key,
         req[r].pc \in {"touch", "assign"}, UNCHANGED <<now, avail>>,
         req[r].fresh => u \in avail /\ \A v : Usable(k, v) => v = u
  PROVE  /\ req' \in [Requests -> RequestStates] /\ Named' /\ Agreed'
         /\ req'[r].pc = p /\ req'[r].key = k /\ req'[r].uid = u
         /\ \A s \in Requests \ {r} : SameCalls(s)
  <1> DEFINE done == [req EXCEPT ![r].pc = p, ![r].uid = u]
             q == [req[r] EXCEPT !.pc = p, !.uid = u]
  <1>1. /\ req \in [Requests -> RequestStates] /\ entries \in [Keys -> Bindings] /\ k \in Keys
        /\ now \in Nat /\ req[r] \in RequestStates
    BY DEF SessionsTypeOK, RequestStates
  <1>2. /\ q \in RequestStates /\ q.pc = p /\ q.uid = u /\ q.key = k /\ q.avail = req[r].avail
        /\ q.fresh = req[r].fresh
    BY <1>1 DEF RequestStates
  <1>3. done = [req EXCEPT ![r] = q]
    BY <1>1
  <1>4. done \in [Requests -> RequestStates] /\ done[r] = q /\ \A s \in Requests : s # r => done[s] = req[s]
    BY <1>1, <1>2, <1>3
  <1>5. /\ entries'[k].uid = u /\ entries'[k].at = now /\ ~Expired(k)'
        /\ \A j \in Keys : j # k => entries'[j] = entries[j] /\ (Expired(j)' <=> Expired(j))
    <2>1. /\ entries'[k].uid = u /\ entries'[k].at = now
          /\ \A j \in Keys : j # k => entries'[j] = entries[j]
      BY <1>1 DEF Resolved
    <2>2. ~(now - now > TTL) /\ now' = now
      BY <1>1, SessionsAssumption
    <2>3. QED
      BY <2>1, <2>2 DEF Expired
  <1>6. req' = IF req[r].fresh THEN done ELSE Disturb(done, {k})
    BY DEF Resolved
  <1> HIDE DEF done, q
  <1>7. /\ req' \in [Requests -> RequestStates]
        /\ \A s \in Requests :
             /\ req'[s].pc = done[s].pc /\ req'[s].key = done[s].key /\ req'[s].uid = done[s].uid
             /\ req'[s].avail = done[s].avail
             /\ req'[s].fresh => done[s].fresh
             /\ req'[s].fresh /\ done[s].key = k => req[r].fresh
    <2>1. CASE req[r].fresh
      BY <1>4, <1>6, <2>1
    <2>2. CASE ~req[r].fresh
      BY <1>4, <1>6, <2>2, Disturbed
    <2>3. QED
      BY <2>1, <2>2
  <1>8. Named'
    BY <1>2, <1>4, <1>7 DEF Named
  <1>9. ASSUME NEW s \in Requests, req'[s].pc # "idle", req'[s].fresh
        PROVE  /\ req'[s].avail = avail'
               /\ req'[s].pc \in {"touch", "touched", "serve"} /\ req'[s].uid # NoUID
                    => Usable(req[s].key, req[s].uid)'
               /\ req'[s].pc = "serve" /\ req'[s].uid = NoUID => avail' = {}
    <2>0. now' = now /\ avail' = avail
      OBVIOUS
    <2>1. CASE s = r
      <3>1. req[r].fresh /\ req'[s].key = k /\ req'[s].uid = u /\ req'[s].avail = req[r].avail
        BY <1>2, <1>4, <1>7, <1>9, <2>1
      <3>2. req[r].avail = avail /\ u \in avail
        <4>1. req[r].pc # "idle"
          OBVIOUS
        <4>2. QED
          BY <3>1, <4>1 DEF Agreed
      <3>3. Usable(k, u)'
        BY <1>5, <2>0, <3>2 DEF Usable
      <3>4. QED
        BY <2>0, <2>1, <3>1, <3>2, <3>3, SessionsAssumption
    <2>2. CASE s # r
      <3>1. /\ req[s].pc # "idle" /\ req[s].fresh /\ req'[s].pc = req[s].pc /\ req'[s].key = req[s].key
            /\ req'[s].uid = req[s].uid /\ req'[s].avail = req[s].avail /\ req[s].key \in Keys
        BY <1>1, <1>4, <1>7, <1>9, <2>2 DEF RequestStates
      <3>2. /\ req[s].avail = avail
            /\ req[s].pc \in {"touch", "touched", "serve"} /\ req[s].uid # NoUID
                 => Usable(req[s].key, req[s].uid)
            /\ req[s].pc = "serve" /\ req[s].uid = NoUID => avail = {}
        BY <3>1 DEF Agreed
      <3>3. CASE req[s].key # k
        BY <1>5, <2>0, <3>1, <3>2, <3>3 DEF Usable
      <3>4. CASE req[s].key = k
        <4>1. req[r].fresh
          BY <1>4, <1>7, <1>9, <2>2, <3>4
        <4>2. Usable(k, req[s].uid) => req[s].uid = u
          BY <4>1
        <4>3. u \in avail
          BY <4>1
        <4>4. QED
          BY <1>5, <2>0, <3>1, <3>2, <3>4, <4>2, <4>3 DEF Usable
      <3>5. QED
        BY <3>3, <3>4
    <2>3. QED
      BY <2>1, <2>2
  <1>10. Agreed'
    BY <1>9 DEF Agreed
  <1>11. /\ req'[r].pc = p /\ req'[r].key = k /\ req'[r].uid = u
         /\ \A s \in Requests \ {r} : SameCalls(s)
    BY <1>2, <1>4, <1>7 DEF SameCalls, Mirroring
  <1>12. QED
    BY <1>7, <1>8, <1>10, <1>11

\* A step that disturbs every session it changes leaves the others in agreement.
LEMMA DisturbedAgrees ==
  ASSUME SessionsTypeOK, Named, Agreed, NEW ks,
         NEW rs \in [Requests -> RequestStates], req' = Disturb(rs, ks),
         \A s \in Requests : \/ rs[s] = req[s] \/ rs[s].pc = "idle"
                             \/ rs[s].pc \in {"serve", "bound", "unbound"} /\ rs[s].key \in ks,
         \A j \in Keys : j \notin ks => entries'[j] = entries[j],
         (now' = now /\ avail' = avail) \/ ks = Keys
  PROVE  req' \in [Requests -> RequestStates] /\ Named' /\ Agreed'
  <1>1. /\ req' \in [Requests -> RequestStates]
        /\ \A s \in Requests :
             /\ req'[s].pc = rs[s].pc /\ req'[s].key = rs[s].key /\ req'[s].uid = rs[s].uid
             /\ req'[s].avail = rs[s].avail
             /\ rs[s].key \in ks => ~req'[s].fresh
             /\ rs[s].key \notin ks => req'[s] = rs[s]
             /\ req'[s].fresh => rs[s].fresh
    BY Disturbed
  <1>2. Named'
    BY <1>1 DEF Named
  <1>3. ASSUME NEW s \in Requests, req'[s].pc # "idle", req'[s].fresh
        PROVE  /\ req'[s].avail = avail'
               /\ req'[s].pc \in {"touch", "touched", "serve"} /\ req'[s].uid # NoUID
                    => Usable(req[s].key, req[s].uid)'
               /\ req'[s].pc = "serve" /\ req'[s].uid = NoUID => avail' = {}
    <2>1. rs[s].key \notin ks /\ req'[s] = rs[s] /\ rs[s] = req[s] /\ req[s].key \in Keys
      BY <1>1, <1>3 DEF RequestStates
    <2>2. now' = now /\ avail' = avail /\ entries'[req[s].key] = entries[req[s].key]
      BY <2>1
    <2>3. QED
      BY <1>3, <2>1, <2>2 DEF Agreed, Usable, Expired
  <1>4. QED
    BY <1>1, <1>2, <1>3 DEF Agreed

LEMMA RequestFacts ==
  ASSUME SessionsTypeOK, NEW r \in Requests
  PROVE  /\ req[r] \in RequestStates /\ req[r].key \in Keys /\ req[r].uid \in UIDs \cup {NoUID}
         /\ req \in [Requests -> RequestStates]
  BY DEF SessionsTypeOK, RequestStates

\* Where the bindings and what is on its way stay as they are.
LEMMA QuietKeeps ==
  ASSUME SessionsTypeOK, SessionsTypeOK', Mirrored, Recent, UNCHANGED <<world, now, entries, mirrorVars, lastUse>>,
         \A s \in Requests : SameCalls(s)
  PROVE  Mirrored' /\ Recent'
  <1>1. UNCHANGED <<world, now, entries, connected, closed, writes, rows, swept, tangled, lastUse>>
    BY DEF mirrorVars, store
  <1>2. \A j \in Keys : UnderWay(j)' = UnderWay(j)
    BY <1>1, CalmUnderWay
  <1>3. \A j \in Keys : Rests(j)
    BY <1>1, <1>2 DEF Rests
  <1>4. QED
    BY <1>1, <1>3, RestsKeep

LEMMA ReadKeeps ==
  ASSUME SessionsInv, NEW r \in Requests, NEW k \in Keys, ResolveRead(r, k)
  PROVE  SessionsInv'
  <1> USE DEF SessionsInv
  <1> DEFINE hit == Bound(k) /\ ~Expired(k) /\ entries[k].uid \in avail
             p == IF hit THEN "touch" ELSE "assign"
             u == IF hit THEN entries[k].uid ELSE NoUID
             q == [pc |-> p, key |-> k, uid |-> u, avail |-> avail, fresh |-> TRUE]
  <1>1. /\ req' = [req EXCEPT ![r] = q] /\ UNCHANGED <<world, now, avail, entries, mirrorVars, lastUse>>
        /\ UNCHANGED <<connected, closed, writes, rows, swept, tangled>> /\ req[r].pc = "idle"
    BY DEF ResolveRead, mirrorVars, store
  <1>2. /\ p \in {"touch", "assign"} /\ u \in UIDs \cup {NoUID} /\ avail \in SUBSET UIDs
        /\ (p = "touch" => u \in UIDs /\ Usable(k, u)) /\ (p = "assign" => u = NoUID)
    BY DEF SessionsTypeOK, Usable
  <1> HIDE DEF p, u
  <1>3. q \in RequestStates /\ q.pc = p /\ q.key = k /\ q.uid = u /\ q.avail = avail
    BY <1>2 DEF RequestStates
  <1> HIDE DEF q
  <1>4. req' \in [Requests -> RequestStates] /\ req'[r] = q /\ \A s \in Requests : s # r => req'[s] = req[s]
    BY <1>1, <1>3, RequestFacts
  <1>5. SessionsTypeOK'
    BY <1>1, <1>4 DEF SessionsTypeOK
  <1>6. Named'
    BY <1>2, <1>3, <1>4 DEF Named
  <1>7. Agreed'
    BY <1>1, <1>2, <1>3, <1>4 DEF Agreed, Usable, Expired
  <1>8. \A s \in Requests : SameCalls(s)
    BY <1>1, <1>2, <1>3, <1>4 DEF SameCalls, Mirroring
  <1>9. QED
    BY <1>1, <1>5, <1>6, <1>7, <1>8, QuietKeeps

\* A step that binds the session of one request to an account.
Binds(k, u) ==
  /\ entries' = [entries EXCEPT ![k] = [uid |-> u, at |-> now]]
  /\ lastUse' = [lastUse EXCEPT ![k][u] = now]
  /\ UNCHANGED <<world, now, avail, connected, closed, rows, swept>>

LEMMA BindingTypes ==
  ASSUME SessionsTypeOK, NEW k \in Keys, NEW u \in UIDs, Binds(k, u)
  PROVE  /\ entries' \in [Keys -> Bindings] /\ lastUse' \in [Keys -> [UIDs -> Nat]]
         /\ entries'[k].uid = u /\ entries'[k].at = now /\ lastUse'[k] = [lastUse[k] EXCEPT ![u] = now]
         /\ \A j \in Keys : j # k => entries'[j] = entries[j] /\ lastUse'[j] = lastUse[j]
  <1>1. /\ now \in Nat /\ entries \in [Keys -> Bindings] /\ lastUse \in [Keys -> [UIDs -> Nat]]
    BY DEF SessionsTypeOK
  <1>2. [uid |-> u, at |-> now] \in Bindings
    BY <1>1 DEF Bindings
  <1>3. [lastUse[k] EXCEPT ![u] = now] \in [UIDs -> Nat]
    BY <1>1
  <1>4. QED
    BY <1>1, <1>2, <1>3 DEF Binds

\* The map goes to u, and the change to u is on its way or was there before.
LEMMA BindingKeeps ==
  ASSUME SessionsTypeOK, SessionsTypeOK', Mirrored, Recent, NEW k \in Keys, NEW u \in UIDs, Binds(k, u),
         \A j \in Keys \ {k} : /\ j \in tangled' <=> j \in tangled
                               /\ UnderWay(j)' = UnderWay(j),
         UnderWay(k)' \subseteq UnderWay(k) \cup {NoUID, u},
         \/ entries[k].uid = u /\ UnderWay(k)' = UnderWay(k) /\ (k \in tangled' <=> k \in tangled)
         \/ Tangle({k}, u) /\ (connected /\ ~closed => u \in UnderWay(k)')
  PROVE  Mirrored' /\ Recent'
  <1>1. /\ entries'[k].uid = u /\ entries'[k].at = now /\ lastUse'[k] = [lastUse[k] EXCEPT ![u] = now]
        /\ \A j \in Keys : j # k => entries'[j] = entries[j] /\ lastUse'[j] = lastUse[j]
        /\ UNCHANGED <<world, now, connected, closed, rows>> /\ u # NoUID
    BY BindingTypes, SessionsAssumption DEF Binds
  <1>2. ASSUME Orderly(k)'
        PROVE  UnderWay(k) \subseteq {NoUID, u} /\ (Live(k) => rows[k].uid = u \/ UnderWay(k)' # {})
    <2>1. CASE entries[k].uid = u /\ UnderWay(k)' = UnderWay(k) /\ (k \in tangled' <=> k \in tangled)
      <3>1. Orderly(k) /\ Bound(k)
        BY <1>1, <1>2, <2>1 DEF Orderly, Bound
      <3>2. QED
        BY <2>1, <3>1 DEF Mirrored
    <2>2. CASE Tangle({k}, u) /\ (connected /\ ~closed => u \in UnderWay(k)')
      <3>1. k \notin tangled' /\ connected /\ ~closed
        BY <1>1, <1>2 DEF Orderly
      <3>2. UnderWay(k) \subseteq {NoUID, u}
        BY <2>2, <3>1, TangleOne
      <3>3. QED
        BY <2>2, <3>1, <3>2
    <2>3. QED
      BY <2>1, <2>2
  <1>3. \A j \in {k} : Leads(j, u)
    BY <1>1, <1>2 DEF Leads
  <1>4. \A j \in Keys \ {k} : Rests(j)
    BY <1>1 DEF Rests
  <1>5. QED
    BY <1>1, <1>3, <1>4, MirrorKeeps

LEMMA TouchKeeps ==
  ASSUME SessionsInv, NEW r \in Requests, Touch(r)
  PROVE  SessionsInv'
  <1> USE DEF SessionsInv
  <1>0. PICK k \in Keys, u \in UIDs : req[r].key = k /\ req[r].uid = u
    BY RequestFacts DEF Touch, Named
  <1>1. req[r].key = k /\ req[r].uid = u /\ req[r].pc = "touch"
    BY <1>0 DEF Touch
  <1>2. /\ Resolved(r, k, u, "touched") /\ Tangle({k}, u)
        /\ UNCHANGED <<world, now, avail, connected, closed, writes, rows, swept>>
    BY <1>1 DEF Touch, store
  <1>3. req[r].fresh => u \in avail /\ \A v : Usable(k, v) => v = u
    BY <1>1, SessionsAssumption DEF Agreed, Usable
  <1>4. Binds(k, u)
    BY <1>2 DEF Binds, Resolved
  <1>5. /\ req' \in [Requests -> RequestStates] /\ Named' /\ Agreed'
        /\ req'[r].pc = "touched" /\ req'[r].key = k /\ req'[r].uid = u
        /\ \A s \in Requests \ {r} : SameCalls(s)
    BY <1>1, <1>2, <1>3, ResolvedAgrees
  <1>6. \A j \in Keys : UnderWay(j)' = UnderWay(j) \cup {v \in {u} : j = k}
    <2>1. ~Mirroring(r) /\ Mirroring(r)' /\ u \in UIDs \cup {NoUID}
      BY <1>1, <1>5 DEF Mirroring
    <2>2. QED
      BY <1>2, <1>5, <2>1, ChangedUnderWay
  <1>7. SessionsTypeOK'
    BY <1>1, <1>2, <1>4, <1>5, BindingTypes, TangleOne DEF SessionsTypeOK
  <1>8. Mirrored' /\ Recent'
    <2>1. \A j \in Keys \ {k} : (j \in tangled' <=> j \in tangled) /\ UnderWay(j)' = UnderWay(j)
      BY <1>1, <1>2, <1>6, TangleOne
    <2>2. UnderWay(k)' \subseteq UnderWay(k) \cup {NoUID, u} /\ u \in UnderWay(k)'
      BY <1>1, <1>6
    <2>3. QED
      BY <1>1, <1>2, <1>4, <1>7, <2>1, <2>2, BindingKeeps
  <1>9. QED
    BY <1>5, <1>7, <1>8

LEMMA RecheckKeeps ==
  ASSUME SessionsInv, NEW r \in Requests, Recheck(r)
  PROVE  SessionsInv'
  <1> USE DEF SessionsInv
  <1> DEFINE k == req[r].key
             u == entries[k].uid
  <1>1. k \in Keys /\ u \in UIDs /\ req[r].pc = "assign" /\ u \in req[r].avail
    BY RequestFacts DEF Recheck, RecheckHit, Bound, SessionsTypeOK, Bindings
  <1>2. /\ Resolved(r, k, u, "serve")
        /\ UNCHANGED <<world, now, avail, connected, closed, writes, rows, swept, tangled>>
    BY DEF Recheck, mirrorVars, store
  <1>3. req[r].fresh => u \in avail /\ \A v : Usable(k, v) => v = u
    BY <1>1 DEF Agreed, Usable
  <1>4. Binds(k, u)
    BY <1>2 DEF Binds, Resolved
  <1>5. entries[k].uid = u
    OBVIOUS
  <1> HIDE DEF k, u
  <1>6. /\ req' \in [Requests -> RequestStates] /\ Named' /\ Agreed' /\ req'[r].pc = "serve"
        /\ \A s \in Requests \ {r} : SameCalls(s)
    BY <1>1, <1>2, <1>3, ResolvedAgrees DEF k
  <1>7. \A j \in Keys : UnderWay(j)' = UnderWay(j)
    <2>1. \A s \in Requests : SameCalls(s)
      BY <1>1, <1>6 DEF SameCalls, Mirroring
    <2>2. QED
      BY <1>2, <2>1, CalmUnderWay
  <1>8. SessionsTypeOK'
    BY <1>1, <1>2, <1>4, <1>6, BindingTypes DEF SessionsTypeOK
  <1>9. Mirrored' /\ Recent'
    BY <1>1, <1>2, <1>4, <1>5, <1>7, <1>8, BindingKeeps
  <1>10. QED
    BY <1>6, <1>8, <1>9

LEMMA AssignKeeps ==
  ASSUME SessionsInv, NEW r \in Requests, Assign(r)
  PROVE  SessionsInv'
  <1> USE DEF SessionsInv
  <1>0. PICK k \in Keys : req[r].key = k
    BY RequestFacts
  <1>1. /\ req[r].key = k /\ avail \subseteq UIDs /\ NoUID \notin UIDs /\ entries[k].uid \in UIDs \cup {NoUID}
        /\ req[r].pc = "assign" /\ ~RecheckHit(r) /\ UNCHANGED <<world, now, avail, swept>>
    BY <1>0, SessionsAssumption DEF Assign, SessionsTypeOK, Bindings
  <1>2. PICK u \in Candidates(k) :
          /\ Resolved(r, k, u, "serve") /\ Tangle({k}, u)
          /\ \E us \in {{NoUID, u}, {u}} : Submit(k, us)
    BY <1>1 DEF Assign
  <1>3. PICK us \in {{NoUID, u}, {u}} : Submit(k, us)
    BY <1>2
  <1>4. u \in avail /\ u \in UIDs /\ u \in us /\ us \in SUBSET (UIDs \cup {NoUID}) /\ us \subseteq {NoUID, u}
    BY <1>1 DEF Candidates
  <1>5. req[r].fresh => \A v : ~Usable(k, v)
    <2>1. req[r].fresh => req[r].avail = avail
      BY <1>1 DEF Agreed
    <2>2. QED
      BY <1>1, <2>1 DEF RecheckHit, Usable, Bound
  <1>6. /\ writes' \in SUBSET Writes /\ (writes' # {} => connected') /\ UNCHANGED <<connected, closed, rows>>
    BY <1>1, <1>3, <1>4, SubmitTypes
  <1>7. Binds(k, u)
    BY <1>1, <1>2, <1>6 DEF Binds, Resolved
  <1>8. /\ req' \in [Requests -> RequestStates] /\ Named' /\ Agreed' /\ req'[r].pc = "serve"
        /\ \A s \in Requests \ {r} : SameCalls(s)
    BY <1>1, <1>2, <1>4, <1>5, ResolvedAgrees
  <1>9. \A j \in Keys : UnderWay(j)' = UnderWay(j) \cup {v \in us : j = k /\ connected /\ ~closed}
    <2>1. \A s \in Requests : SameCalls(s)
      BY <1>1, <1>8 DEF SameCalls, Mirroring
    <2>2. QED
      BY <1>1, <1>3, <1>4, <2>1, SubmittedUnderWay
  <1>10. SessionsTypeOK'
    BY <1>1, <1>2, <1>4, <1>6, <1>7, <1>8, BindingTypes, TangleOne DEF SessionsTypeOK
  <1>11. Mirrored' /\ Recent'
    <2>1. \A j \in Keys \ {k} : (j \in tangled' <=> j \in tangled) /\ UnderWay(j)' = UnderWay(j)
      <3>1. \A j \in Keys \ {k} : j \in tangled' <=> j \in tangled
        BY <1>2, TangleOne
      <3>2. \A j \in Keys \ {k} : UnderWay(j)' = UnderWay(j)
        BY <1>9
      <3>3. QED
        BY <3>1, <3>2
    <2>2. UnderWay(k)' \subseteq UnderWay(k) \cup {NoUID, u} /\ (connected /\ ~closed => u \in UnderWay(k)')
      BY <1>1, <1>4, <1>9
    <2>3. QED
      BY <1>1, <1>2, <1>4, <1>7, <1>10, <2>1, <2>2, BindingKeeps
  <1>12. QED
    BY <1>8, <1>10, <1>11

\* The session follows the account that succeeded.
LEMMA BindKeeps ==
  ASSUME SessionsInv, NEW r \in Requests, NEW u \in UIDs, Bind(r, u)
  PROVE  SessionsInv'
  <1> USE DEF SessionsInv
  <1>0. PICK k \in Keys : req[r].key = k
    BY RequestFacts DEF Bind
  <1> DEFINE q == [req[r] EXCEPT !.pc = "bound", !.uid = u]
             rs == [req EXCEPT ![r] = q]
  <1>1. req[r].key = k /\ req[r] \in RequestStates /\ req \in [Requests -> RequestStates] /\ req[r].pc = "serve"
    BY <1>0, RequestFacts DEF Bind
  <1>2. q \in RequestStates /\ q.pc = "bound" /\ q.key = k /\ q.uid = u
    BY <1>1 DEF RequestStates
  <1>3. rs = [req EXCEPT ![r].pc = "bound", ![r].uid = u]
    BY <1>1
  <1>4. /\ Binds(k, u) /\ req' = Disturb(rs, {k}) /\ Tangle({k}, u)
        /\ UNCHANGED <<now, avail, world, connected, closed, writes, rows, swept>>
    BY <1>1, <1>3 DEF Bind, Binds, store
  <1>5. rs \in [Requests -> RequestStates] /\ rs[r] = q /\ \A s \in Requests : s # r => rs[s] = req[s]
    BY <1>1, <1>2
  <1> HIDE DEF rs, q
  <1>6. req' \in [Requests -> RequestStates] /\ Named' /\ Agreed'
    <2>1. \A s \in Requests : rs[s] = req[s] \/ (rs[s].pc \in {"serve", "bound", "unbound"} /\ rs[s].key \in {k})
      BY <1>2, <1>5
    <2>2. \A j \in Keys : j \notin {k} => entries'[j] = entries[j]
      BY <1>1, <1>4, BindingTypes
    <2>3. QED
      BY <1>4, <1>5, <2>1, <2>2, DisturbedAgrees
  <1>7. \A j \in Keys : UnderWay(j)' = UnderWay(j) \cup {v \in {u} : j = k}
    <2>1. /\ ~Mirroring(r) /\ Mirroring(r)' /\ req'[r].key = k /\ req'[r].uid = u
          /\ \A s \in Requests \ {r} : SameCalls(s)
      BY <1>1, <1>2, <1>4, <1>5, Disturbed DEF Mirroring, SameCalls
    <2>2. u \in UIDs \cup {NoUID} /\ UNCHANGED <<writes, swept>>
      BY <1>4
    <2>3. QED
      BY <2>1, <2>2, ChangedUnderWay
  <1>8. SessionsTypeOK'
    BY <1>1, <1>4, <1>6, BindingTypes, TangleOne DEF SessionsTypeOK
  <1>9. Mirrored' /\ Recent'
    <2>1. \A j \in Keys \ {k} : (j \in tangled' <=> j \in tangled) /\ UnderWay(j)' = UnderWay(j)
      <3>1. \A j \in Keys \ {k} : j \in tangled' <=> j \in tangled
        BY <1>4, TangleOne
      <3>2. \A j \in Keys \ {k} : UnderWay(j)' = UnderWay(j)
        BY <1>7
      <3>3. QED
        BY <3>1, <3>2
    <2>2. UnderWay(k)' \subseteq UnderWay(k) \cup {NoUID, u} /\ u \in UnderWay(k)'
      BY <1>1, <1>7
    <2>3. QED
      BY <1>1, <1>4, <1>8, <2>1, <2>2, BindingKeeps
  <1>10. QED
    BY <1>6, <1>8, <1>9

\* A step that forgets the bindings of some sessions, with nothing or a deletion on its way.
Drops(ks) ==
  /\ entries' = [j \in Keys |-> IF j \in ks THEN Unbound ELSE entries[j]]
  /\ UNCHANGED <<world, now, lastUse, connected, closed, rows>>
  /\ \A j \in ks : UnderWay(j)' \subseteq UnderWay(j) \cup {NoUID}
  /\ \A j \in Keys \ ks : UnderWay(j)' = UnderWay(j) /\ (j \in tangled' <=> j \in tangled)

LEMMA DroppingTypes ==
  ASSUME SessionsTypeOK, NEW ks, Drops(ks)
  PROVE  entries' \in [Keys -> Bindings]
  BY Empty DEF Drops, SessionsTypeOK

LEMMA DroppingKeeps ==
  ASSUME SessionsTypeOK, SessionsTypeOK', Mirrored, Recent, NEW ks \in SUBSET Keys, Drops(ks)
  PROVE  Mirrored' /\ Recent'
  <1>1. \A j \in Keys : entries'[j] = IF j \in ks THEN Unbound ELSE entries[j]
    BY DEF Drops
  <1>2. \A j \in ks : Leads(j, NoUID)
    BY <1>1, Empty DEF Leads, Drops
  <1>3. \A j \in Keys \ ks : Rests(j)
    BY <1>1 DEF Rests, Drops
  <1>4. QED
    BY <1>2, <1>3, MirrorKeeps DEF Drops

LEMMA NoneKeeps ==
  ASSUME SessionsInv, NEW r \in Requests, AssignNone(r)
  PROVE  SessionsInv'
  <1> USE DEF SessionsInv
  <1> DEFINE k == req[r].key
             ks == IF Expired(k) THEN {} ELSE {k}
             q == [req[r] EXCEPT !.pc = "serve"]
  <1>1. /\ k \in Keys /\ ks \in SUBSET Keys /\ req[r].pc = "assign" /\ avail = {} /\ avail' = avail
        /\ UNCHANGED <<world, now, connected, closed, writes, rows, swept, tangled, lastUse>>
        /\ entries \in [Keys -> Bindings]
    BY RequestFacts DEF AssignNone, SessionsTypeOK, mirrorVars, store
  <1>2. entries' = [j \in Keys |-> IF j \in ks THEN Unbound ELSE entries[j]]
    BY <1>1 DEF AssignNone
  <1>3. q \in RequestStates /\ q.pc = "serve" /\ q.uid = NoUID /\ q.avail = req[r].avail /\ q.fresh = req[r].fresh
    BY <1>1, RequestFacts DEF RequestStates, Named
  <1>4. req' = [req EXCEPT ![r] = q]
    BY RequestFacts DEF AssignNone
  <1> HIDE DEF k, ks, q
  <1>5. req' \in [Requests -> RequestStates] /\ req'[r] = q /\ \A s \in Requests : s # r => req'[s] = req[s]
    BY <1>3, <1>4, RequestFacts
  <1>6. Drops(ks)
    <2>1. \A s \in Requests : SameCalls(s)
      BY <1>1, <1>3, <1>5 DEF SameCalls, Mirroring
    <2>2. \A j \in Keys : UnderWay(j)' = UnderWay(j)
      BY <1>1, <2>1, CalmUnderWay
    <2>3. QED
      BY <1>1, <1>2, <2>2 DEF Drops
  <1>7. Named'
    BY <1>3, <1>5 DEF Named
  <1>8. Agreed'
    <2>1. \A s \in Requests : req[s].pc # "idle" /\ req[s].fresh =>
            /\ req[s].avail = avail
            /\ req[s].pc \in {"touch", "touched", "serve"} => req[s].uid = NoUID
      BY <1>1 DEF Agreed, Usable
    <2>2. QED
      BY <1>1, <1>3, <1>5, <2>1 DEF Agreed
  <1>9. SessionsTypeOK'
    BY <1>1, <1>5, <1>6, DroppingTypes DEF SessionsTypeOK
  <1>10. QED
    BY <1>1, <1>6, <1>7, <1>8, <1>9, DroppingKeeps

LEMMA UnbindKeeps ==
  ASSUME SessionsInv, NEW r \in Requests, Unbind(r)
  PROVE  SessionsInv'
  <1> USE DEF SessionsInv
  <1> DEFINE k == req[r].key
             p == IF Bound(k) THEN "unbound" ELSE "serve"
             q == [req[r] EXCEPT !.pc = p, !.uid = NoUID]
             rs == [req EXCEPT ![r] = q]
  <1>1. /\ k \in Keys /\ req \in [Requests -> RequestStates] /\ req[r] \in RequestStates
        /\ entries \in [Keys -> Bindings] /\ req[r].pc = "serve"
    BY RequestFacts DEF SessionsTypeOK, Unbind
  <1>2. q \in RequestStates /\ q.pc = p /\ q.key = k /\ q.uid = NoUID /\ p \in {"unbound", "serve"}
    BY <1>1 DEF RequestStates
  <1>3. rs = [req EXCEPT ![r].pc = p, ![r].uid = NoUID]
    BY <1>1
  <1>4. /\ req' = Disturb(rs, {k}) /\ entries' = [entries EXCEPT ![k] = Unbound]
        /\ UNCHANGED <<world, now, avail, connected, closed, writes, rows, swept, lastUse>>
        /\ Tangle({k}, NoUID) \/ (UNCHANGED tangled /\ p = "serve")
        /\ p = "unbound" => Tangle({k}, NoUID)
    BY <1>3 DEF Unbind, store
  <1>5. rs \in [Requests -> RequestStates] /\ rs[r] = q /\ \A s \in Requests : s # r => rs[s] = req[s]
    BY <1>1, <1>2
  <1>6. entries' = [j \in Keys |-> IF j \in {k} THEN Unbound ELSE entries[j]]
    BY <1>1, <1>4
  <1> HIDE DEF k, p, q, rs
  <1>7. /\ req'[r].pc = p /\ req'[r].key = k /\ req'[r].uid = NoUID
        /\ \A s \in Requests \ {r} : SameCalls(s)
    BY <1>2, <1>4, <1>5, Disturbed DEF SameCalls, Mirroring
  <1>8. \A j \in Keys : UnderWay(j) \subseteq UnderWay(j)' /\ UnderWay(j)' \subseteq UnderWay(j) \cup {v \in {NoUID} : j = k}
    <2>1. CASE p = "unbound"
      <3>1. ~Mirroring(r) /\ Mirroring(r)'
        BY <1>1, <1>7, <2>1 DEF Mirroring
      <3>2. NoUID \in UIDs \cup {NoUID} /\ UNCHANGED <<writes, swept>>
        BY <1>4
      <3>3. \A j \in Keys : UnderWay(j)' = UnderWay(j) \cup {v \in {NoUID} : j = k}
        BY <1>7, <2>1, <3>1, <3>2, ChangedUnderWay
      <3>4. QED
        BY <3>3
    <2>2. CASE p = "serve"
      <3>1. \A s \in Requests : SameCalls(s)
        BY <1>1, <1>7, <2>2 DEF SameCalls, Mirroring
      <3>2. QED
        BY <1>4, <3>1, CalmUnderWay
    <2>3. QED
      BY <1>2, <2>1, <2>2
  <1>9. tangled' \in SUBSET Keys /\ \A j \in Keys \ {k} : j \in tangled' <=> j \in tangled
    BY <1>1, <1>4, TangleOne DEF SessionsTypeOK
  <1>10. Drops({k})
    BY <1>1, <1>4, <1>6, <1>8, <1>9 DEF Drops
  <1>11. req' \in [Requests -> RequestStates] /\ Named' /\ Agreed'
    <2>1. \A s \in Requests : rs[s] = req[s] \/ (rs[s].pc \in {"serve", "bound", "unbound"} /\ rs[s].key \in {k})
      BY <1>2, <1>5
    <2>2. \A j \in Keys : j \notin {k} => entries'[j] = entries[j]
      BY <1>6
    <2>3. QED
      BY <1>4, <1>5, <2>1, <2>2, DisturbedAgrees
  <1>12. SessionsTypeOK'
    BY <1>4, <1>9, <1>10, <1>11, DroppingTypes DEF SessionsTypeOK
  <1>13. QED
    BY <1>1, <1>10, <1>11, <1>12, DroppingKeeps

LEMMA GarbageKeeps ==
  ASSUME SessionsInv, CollectGarbage
  PROVE  SessionsInv'
  <1> USE DEF SessionsInv
  <1> DEFINE old == {k \in Keys : Bound(k) /\ Expired(k)}
  <1>1. entries' = [j \in Keys |-> IF j \in old THEN Unbound ELSE entries[j]]
    BY DEF CollectGarbage
  <1>2. /\ req' = Disturb(req, old) /\ swept = {} /\ swept' = old /\ Tangle(old, NoUID)
        /\ UNCHANGED <<world, now, avail, connected, closed, writes, rows, lastUse>> /\ old \in SUBSET Keys
        /\ req \in [Requests -> RequestStates]
    BY DEF CollectGarbage, store, SessionsTypeOK
  <1> HIDE DEF old
  <1>3. \A s \in Requests : SameCalls(s)
    BY <1>2, Disturbed DEF SameCalls, Mirroring
  <1>4. \A j \in Keys : /\ UnderWay(j)' \subseteq UnderWay(j) \cup {NoUID}
                        /\ j \notin old => UnderWay(j)' = UnderWay(j)
    BY <1>2, <1>3 DEF UnderWay, SameCalls
  <1>5. tangled' \in SUBSET Keys /\ \A j \in Keys \ old : j \in tangled' <=> j \in tangled
    BY <1>2, TangleExact DEF SessionsTypeOK
  <1>6. Drops(old)
    BY <1>1, <1>2, <1>4, <1>5 DEF Drops
  <1>7. req' \in [Requests -> RequestStates] /\ Named' /\ Agreed'
    <2>1. \A j \in Keys : j \notin old => entries'[j] = entries[j]
      BY <1>1
    <2>2. QED
      BY <1>2, <2>1, DisturbedAgrees
  <1>8. SessionsTypeOK'
    BY <1>2, <1>5, <1>6, <1>7, DroppingTypes DEF SessionsTypeOK
  <1>9. QED
    BY <1>2, <1>6, <1>7, <1>8, DroppingKeeps

\* A submission takes what was on its way from the caller to a goroutine.
LEMMA MovedKeeps ==
  ASSUME SessionsTypeOK, SessionsTypeOK', Mirrored, Recent,
         UNCHANGED <<world, now, entries, connected, closed, rows, tangled, lastUse>>,
         \A j \in Keys : /\ UnderWay(j)' \subseteq UnderWay(j)
                         /\ connected /\ ~closed => UnderWay(j) \subseteq UnderWay(j)'
  PROVE  Mirrored' /\ Recent'
  <1>1. \A j \in Keys : Rests(j)
    BY DEF Rests
  <1>2. QED
    BY <1>1, RestsKeep

LEMMA WrittenIs ==
  ASSUME NEW k \in Keys, NEW u \in UIDs \cup {NoUID}, Submit(k, {u}), NEW j \in Keys, NEW v
  PROVE  [key |-> j, uid |-> v] \in writes'
           <=> [key |-> j, uid |-> v] \in writes \/ (j = k /\ v = u /\ connected /\ ~closed)
  <1>1. [key |-> j, uid |-> v] = [key |-> k, uid |-> u] <=> j = k /\ v = u
    OBVIOUS
  <1>2. QED
    BY <1>1 DEF Submit

LEMMA MirrorCallKeeps ==
  ASSUME SessionsInv, NEW r \in Requests, Mirror(r)
  PROVE  SessionsInv'
  <1> USE DEF SessionsInv
  <1> DEFINE k == req[r].key
             u == req[r].uid
             q == IF req[r].pc = "bound" THEN Idle ELSE [req[r] EXCEPT !.pc = "serve"]
  <1>1. /\ k \in Keys /\ u \in UIDs \cup {NoUID} /\ req[r] \in RequestStates /\ req \in [Requests -> RequestStates]
        /\ req[r].pc \in {"touched", "bound", "unbound"} /\ Mirroring(r)
    BY RequestFacts DEF Mirror, Mirroring
  <1>2. /\ Submit(k, {u}) /\ req' = [req EXCEPT ![r] = q]
        /\ UNCHANGED <<world, now, avail, entries, swept, tangled, lastUse>>
    BY DEF Mirror
  <1>3. /\ q \in RequestStates /\ q.pc \in {"idle", "serve"} /\ (q.fresh => req[r].fresh)
        /\ q.pc = "serve" => q.key = k /\ q.uid = u /\ q.avail = req[r].avail /\ req[r].pc # "bound"
    BY <1>1, Empty DEF RequestStates
  <1>4. /\ writes' \in SUBSET Writes /\ (writes' # {} => connected') /\ UNCHANGED <<connected, closed, rows>>
    BY <1>1, <1>2, SubmitTypes
  <1> HIDE DEF q
  <1>5. req' \in [Requests -> RequestStates] /\ req'[r] = q /\ \A s \in Requests : s # r => req'[s] = req[s]
    BY <1>1, <1>2, <1>3
  <1>6. SessionsTypeOK'
    BY <1>2, <1>4, <1>5 DEF SessionsTypeOK
  <1>7. Named'
    BY <1>3, <1>5 DEF Named
  <1>8. Agreed'
    <2>1. ASSUME NEW s \in Requests, req'[s].pc # "idle", req'[s].fresh
          PROVE  /\ req'[s].avail = avail'
                 /\ req'[s].pc \in {"touch", "touched", "serve"} /\ req'[s].uid # NoUID
                      => Usable(req[s].key, req[s].uid)'
                 /\ req'[s].pc = "serve" /\ req'[s].uid = NoUID => avail' = {}
      <3>1. CASE s # r
        BY <1>2, <1>5, <2>1, <3>1 DEF Agreed, Usable, Expired
      <3>2. CASE s = r
        <4>1. req[r].fresh /\ req[r].pc = "touched" /\ u \in UIDs /\ req'[r].key = k /\ req'[r].uid = u
          BY <1>1, <1>3, <1>5, <2>1, <3>2 DEF Named
        <4>2. req[r].avail = avail /\ Usable(k, u)
          BY <4>1, SessionsAssumption DEF Agreed
        <4>3. QED
          BY <1>2, <1>3, <1>5, <2>1, <3>2, <4>1, <4>2, SessionsAssumption DEF Usable, Expired
      <3>3. QED
        BY <3>1, <3>2
    <2>2. QED
      BY <2>1 DEF Agreed
  <1> HIDE DEF k, u
  <1>9. ASSUME NEW j \in Keys, NEW v \in UIDs \cup {NoUID}
        PROVE  /\ v \in UnderWay(j)' => v \in UnderWay(j)
               /\ connected /\ ~closed /\ v \in UnderWay(j) => v \in UnderWay(j)'
    <2>1. [key |-> j, uid |-> v] \in writes'
            <=> [key |-> j, uid |-> v] \in writes \/ (j = k /\ v = u /\ connected /\ ~closed)
      BY <1>1, <1>2, WrittenIs
    <2>2. ~Mirroring(r)' /\ \A s \in Requests : s # r => (Mirroring(s)' <=> Mirroring(s))
      BY <1>3, <1>5 DEF Mirroring
    <2>3. Mirroring(r) /\ req[r].key = k /\ req[r].uid = u
      BY <1>1 DEF k, u
    <2>4. QED
      BY <1>2, <1>5, <2>1, <2>2, <2>3 DEF UnderWay
  <1>10. \A j \in Keys : /\ UnderWay(j)' \subseteq UnderWay(j)
                         /\ connected /\ ~closed => UnderWay(j) \subseteq UnderWay(j)'
    <2>1. \A j \in Keys : UnderWay(j) \subseteq UIDs \cup {NoUID} /\ UnderWay(j)' \subseteq UIDs \cup {NoUID}
      BY DEF UnderWay
    <2>2. QED
      BY <1>9, <2>1
  <1>11. QED
    BY <1>2, <1>4, <1>6, <1>7, <1>8, <1>10, MovedKeeps

LEMMA SweepKeeps ==
  ASSUME SessionsInv, NEW k \in swept, SubmitSwept(k)
  PROVE  SessionsInv'
  <1> USE DEF SessionsInv
  <1>1. /\ k \in Keys /\ Submit(k, {NoUID}) /\ swept' = swept \ {k}
        /\ UNCHANGED <<world, now, avail, entries, req, tangled, lastUse>>
    BY DEF SubmitSwept, SessionsTypeOK
  <1>2. /\ writes' \in SUBSET Writes /\ (writes' # {} => connected') /\ UNCHANGED <<connected, closed, rows>>
    BY <1>1, SubmitTypes
  <1>3. SessionsTypeOK'
    BY <1>1, <1>2 DEF SessionsTypeOK
  <1>4. Named' /\ Agreed'
    BY <1>1 DEF Named, Agreed, Usable, Expired
  <1>5. ASSUME NEW j \in Keys, NEW v \in UIDs \cup {NoUID}
        PROVE  /\ v \in UnderWay(j)' => v \in UnderWay(j)
               /\ connected /\ ~closed /\ v \in UnderWay(j) => v \in UnderWay(j)'
    <2>1. [key |-> j, uid |-> v] \in writes'
            <=> [key |-> j, uid |-> v] \in writes \/ (j = k /\ v = NoUID /\ connected /\ ~closed)
      BY <1>1, WrittenIs
    <2>2. QED
      BY <1>1, <2>1 DEF UnderWay, Mirroring
  <1>6. \A j \in Keys : /\ UnderWay(j)' \subseteq UnderWay(j)
                        /\ connected /\ ~closed => UnderWay(j) \subseteq UnderWay(j)'
    <2>1. \A j \in Keys : UnderWay(j) \subseteq UIDs \cup {NoUID} /\ UnderWay(j)' \subseteq UIDs \cup {NoUID}
      BY DEF UnderWay
    <2>2. QED
      BY <1>5, <2>1
  <1>7. QED
    BY <1>1, <1>2, <1>3, <1>4, <1>6, MovedKeeps

LEMMA GiveUpKeeps ==
  ASSUME SessionsInv, NEW r \in Requests, GiveUp(r)
  PROVE  SessionsInv'
  <1> USE DEF SessionsInv
  <1>1. /\ req' = [req EXCEPT ![r] = Idle] /\ UNCHANGED <<world, now, avail, entries, mirrorVars, lastUse>>
        /\ UNCHANGED <<connected, closed, writes, rows, swept, tangled>> /\ req[r].pc = "serve"
    BY DEF GiveUp, mirrorVars, store
  <1>2. req' \in [Requests -> RequestStates] /\ req'[r].pc = "idle" /\ \A s \in Requests : s # r => req'[s] = req[s]
    BY <1>1, Empty, RequestFacts
  <1>3. SessionsTypeOK'
    BY <1>1, <1>2 DEF SessionsTypeOK
  <1>4. Named' /\ Agreed'
    BY <1>1, <1>2 DEF Named, Agreed, Usable, Expired
  <1>5. \A s \in Requests : SameCalls(s)
    BY <1>1, <1>2 DEF SameCalls, Mirroring
  <1>6. QED
    BY <1>1, <1>3, <1>4, <1>5, QuietKeeps

-----------------------------------------------------------------------------
(* Sessions: Redis, the process, the environment *)

\* The row a write leaves lasts a TTL from the use the write was for.
LEMMA ExecuteKeeps ==
  ASSUME SessionsInv, NEW w \in writes, Execute(w)
  PROVE  SessionsInv'
  <1> USE DEF SessionsInv
  <1>1. /\ writes' = writes \ {w}
        /\ UNCHANGED <<world, now, avail, entries, req, connected, closed, swept, tangled, lastUse>>
        /\ w \in Writes /\ now \in Nat /\ rows \in [Keys -> Rows] /\ TTL \in Nat /\ NoUID \notin UIDs
    BY SessionsAssumption DEF Execute, SessionsTypeOK
  <1>2. w.key \in Keys /\ w.uid \in UIDs \cup {NoUID} /\ w = [key |-> w.key, uid |-> w.uid]
    BY <1>1 DEF Writes
  <1>3. /\ Row(w) \in Rows /\ Row(w).uid = w.uid
        /\ w.uid # NoUID => Row(w).until = now + TTL
    BY <1>1, <1>2, Empty DEF Row, Rows
  <1>4. /\ rows' \in [Keys -> Rows] /\ \A k \in Keys : k # w.key => rows'[k] = rows[k]
        /\ rows'[w.key] = Row(w) \/ (rows' = rows /\ "redis" \in world.events)
    BY <1>1, <1>2, <1>3 DEF Execute
  <1>5. SessionsTypeOK'
    BY <1>1, <1>4 DEF SessionsTypeOK
  <1>6. Named' /\ Agreed'
    BY <1>1 DEF Named, Agreed, Usable, Expired
  <1>a. /\ \A j \in Keys : UnderWay(j)' \subseteq UnderWay(j)
        /\ \A j \in Keys : j # w.key => UnderWay(j)' = UnderWay(j)
        /\ w.uid \in UnderWay(w.key)
    <2>1. ASSUME NEW j \in Keys, NEW v PROVE [key |-> j, uid |-> v] = w => j = w.key
      BY <1>2
    <2>2. QED
      BY <1>1, <1>2, <2>1 DEF UnderWay, Mirroring
  <1>7. Mirrored'
    <2>1. ASSUME NEW j \in Keys, Orderly(j)', Bound(j)'
          PROVE  /\ UnderWay(j)' \subseteq {NoUID, entries'[j].uid}
                 /\ Live(j)' => rows'[j].uid = entries'[j].uid \/ UnderWay(j)' # {}
      <3>1. Orderly(j) /\ Bound(j)
        BY <1>1, <2>1 DEF Orderly, Bound
      <3>2. /\ UnderWay(j) \subseteq {NoUID, entries[j].uid}
            /\ Live(j) => rows[j].uid = entries[j].uid \/ UnderWay(j) # {}
        BY <3>1 DEF Mirrored
      <3>3. CASE j # w.key
        <4>1. rows'[j] = rows[j] /\ (Live(j)' <=> Live(j))
          BY <1>1, <1>4, <3>3 DEF Live
        <4>2. QED
          BY <1>1, <1>a, <3>2, <3>3, <4>1
      <3>4. CASE j = w.key
        <4>1. rows'[j].uid = w.uid /\ w.uid \in {NoUID, entries[j].uid}
          BY <1>1, <1>3, <1>4, <1>a, <3>1, <3>2, <3>4 DEF Orderly
        <4>2. QED
          BY <1>1, <1>a, <3>2, <4>1 DEF Live
      <3>5. QED
        BY <3>3, <3>4
    <2>2. QED
      BY <2>1 DEF Mirrored
  <1>8. Recent'
    <2>1. \A k \in Keys : rows'[k].uid # NoUID => rows'[k].until <= lastUse[k][rows'[k].uid] + TTL
      <3>1. w.uid # NoUID => lastUse[w.key][w.uid] = now
        BY <1>2, <1>a DEF Recent
      <3>2. \A k \in Keys : rows[k].uid # NoUID => rows[k].until <= lastUse[k][rows[k].uid] + TTL
        BY DEF Recent
      <3>3. rows'[w.key].uid # NoUID => rows'[w.key].until <= lastUse[w.key][rows'[w.key].uid] + TTL
        <4>1. CASE rows'[w.key] = Row(w)
          BY <1>1, <1>3, <3>1, <4>1
        <4>2. CASE rows' = rows
          BY <1>2, <3>2, <4>2
        <4>3. QED
          BY <1>4, <4>1, <4>2
      <3>4. QED
        BY <1>4, <3>2, <3>3
    <2>2. \A k \in Keys : \A u \in UnderWay(k)' : u # NoUID => lastUse[k][u] = now
      BY <1>a DEF Recent
    <2>3. QED
      BY <1>1, <2>1, <2>2 DEF Recent, Bound
  <1>9. QED
    BY <1>5, <1>6, <1>7, <1>8

LEMMA CloseKeeps ==
  ASSUME SessionsInv, Close
  PROVE  SessionsInv'
  <1> USE DEF SessionsInv
  <1>1. closed' = TRUE /\ UNCHANGED <<world, now, avail, entries, req, connected, writes, rows, swept, tangled, lastUse>>
    BY DEF Close
  <1>2. \A j \in Keys : UnderWay(j)' = UnderWay(j)
    BY <1>1 DEF UnderWay, Mirroring
  <1>3. SessionsTypeOK' /\ Named' /\ Agreed' /\ Recent'
    BY <1>1, <1>2 DEF SessionsTypeOK, Named, Agreed, Recent, Usable, Expired, Bound
  <1>4. Mirrored'
    BY <1>1 DEF Mirrored, Orderly
  <1>5. QED
    BY <1>3, <1>4

\* A row that is loaded was used less than a TTL ago; nothing else is left of the process before.
LEMMA RestartKeeps ==
  ASSUME SessionsInv, RestartServer
  PROVE  SessionsInv'
  <1> USE DEF SessionsInv
  <1>1. /\ closed' = FALSE /\ writes' = {} /\ swept' = {} /\ tangled' = {} /\ req' = [r \in Requests |-> Idle]
        /\ UNCHANGED <<world, now, avail, rows, lastUse>> /\ connected' \in BOOLEAN
    BY DEF RestartServer
  <1>2. PICK ks \in SUBSET {k \in Keys : Live(k)} : entries' = Loaded(ks)
    BY DEF RestartServer
  <1>3. /\ rows \in [Keys -> Rows] /\ now \in Nat /\ TTL \in Nat /\ TTL > 0 /\ lastUse \in [Keys -> [UIDs -> Nat]]
    BY SessionsAssumption DEF SessionsTypeOK
  <1>4. \A k \in Keys : /\ k \in ks => entries'[k].uid = rows[k].uid /\ entries'[k].at = now
                        /\ k \notin ks => entries'[k].uid = NoUID
    BY <1>2, Empty DEF Loaded
  <1>5. entries' \in [Keys -> Bindings]
    <2>1. \A k \in Keys : [uid |-> rows[k].uid, at |-> now] \in Bindings
      BY <1>3 DEF Rows, Bindings
    <2>2. QED
      BY <1>2, <2>1, Empty DEF Loaded
  <1>6. SessionsTypeOK'
    BY <1>1, <1>5, Empty DEF SessionsTypeOK
  <1>7. Named' /\ Agreed'
    BY <1>1, Empty DEF Named, Agreed
  <1>a. \A k \in Keys : UnderWay(k)' = {}
    BY <1>1, Empty DEF UnderWay, Mirroring
  <1>8. Mirrored'
    <2>1. \A k \in Keys : Bound(k)' => rows[k].uid = entries'[k].uid
      BY <1>4 DEF Bound
    <2>2. QED
      BY <1>1, <1>a, <2>1 DEF Mirrored
  <1>9. Recent'
    <2>1. ASSUME NEW k \in Keys, Bound(k)'
          PROVE  entries'[k].at < lastUse[k][entries'[k].uid] + TTL
      <3>1. k \in ks /\ entries'[k].uid = rows[k].uid /\ entries'[k].at = now
        BY <1>4, <2>1 DEF Bound
      <3>2. rows[k].uid # NoUID /\ now < rows[k].until /\ rows[k].until \in Nat /\ rows[k].uid \in UIDs
        BY <1>2, <1>3, <3>1 DEF Live, Rows
      <3>3. rows[k].until <= lastUse[k][rows[k].uid] + TTL /\ lastUse[k][rows[k].uid] \in Nat
        BY <1>3, <3>2 DEF Recent
      <3>4. QED
        BY <1>3, <3>1, <3>2, <3>3
    <2>2. QED
      BY <1>1, <1>a, <2>1 DEF Recent
  <1>10. QED
    BY <1>6, <1>7, <1>8, <1>9

\* The pool and the clock disturb everyone; the clock waits for what is on its way.
LEMMA AroundKeeps ==
  ASSUME SessionsInv, PoolChanges \/ Tick
  PROVE  SessionsInv'
  <1> USE DEF SessionsInv
  <1>1. /\ req' = Disturb(req, Keys) /\ UNCHANGED <<world, entries, lastUse>>
        /\ UNCHANGED <<connected, closed, writes, rows, swept, tangled>>
    BY DEF PoolChanges, Tick, mirrorVars, store
  <1>2. req \in [Requests -> RequestStates]
    BY DEF SessionsTypeOK
  <1>3. req' \in [Requests -> RequestStates] /\ Named' /\ Agreed'
    BY <1>1, <1>2, DisturbedAgrees
  <1>4. \A j \in Keys : UnderWay(j)' = UnderWay(j)
    <2>1. \A s \in Requests : SameCalls(s)
      BY <1>1, <1>2, Disturbed DEF SameCalls, Mirroring
    <2>2. QED
      BY <1>1, <2>1, CalmUnderWay
  <1>5. /\ now \in Nat /\ now' \in Nat /\ avail' \in SUBSET UIDs
        /\ now' = now \/ (now' = now + 1 /\ \A j \in Keys : UnderWay(j) = {})
    <2>1. CASE PoolChanges
      BY <2>1 DEF PoolChanges, SessionsTypeOK
    <2>2. CASE Tick
      BY <2>2 DEF Tick, SessionsTypeOK, UnderWay
    <2>3. QED
      BY <2>1, <2>2
  <1>6. SessionsTypeOK'
    BY <1>1, <1>3, <1>5 DEF SessionsTypeOK
  <1>7. Mirrored'
    <2>1. \A k \in Keys : (Orderly(k)' <=> Orderly(k)) /\ (Bound(k)' <=> Bound(k)) /\ (Live(k)' => Live(k))
      <3>1. \A k \in Keys : rows[k].until \in Nat
        BY DEF SessionsTypeOK, Rows
      <3>2. QED
        BY <1>1, <1>5, <3>1 DEF Orderly, Bound, Live
    <2>2. QED
      BY <1>1, <1>4, <2>1 DEF Mirrored
  <1>8. Recent'
    <2>1. \A k \in Keys, u \in UIDs : lastUse[k][u] \in Nat
      BY DEF SessionsTypeOK
    <2>2. \A k \in Keys, u \in UIDs : lastUse[k][u] <= now'
      BY <1>5, <2>1 DEF Recent
    <2>3. \A k \in Keys : \A u \in UnderWay(k)' : u # NoUID => lastUse[k][u] = now'
      BY <1>4, <1>5 DEF Recent
    <2>4. QED
      BY <1>1, <2>2, <2>3 DEF Recent, Bound
  <1>9. QED
    BY <1>3, <1>6, <1>7, <1>8

LEMMA SessionsInitInv == SessionsInit => SessionsInv
  <1> SUFFICES ASSUME SessionsInit PROVE SessionsInv
    OBVIOUS
  <1>1. SessionsTypeOK
    BY Empty DEF SessionsInit, SessionsTypeOK
  <1>2. Named /\ Agreed
    BY Empty DEF SessionsInit, Named, Agreed
  <1>3. \A k \in Keys : UnderWay(k) = {}
    BY Empty DEF SessionsInit, UnderWay, Mirroring
  <1>4. Mirrored /\ Recent
    BY <1>3, Empty, SessionsAssumption DEF SessionsInit, Mirrored, Recent, Bound
  <1>5. QED
    BY <1>1, <1>2, <1>4 DEF SessionsInv

LEMMA SessionsNextInv == SessionsInv /\ [SessionsNext]_sessionsVars => SessionsInv'
  <1> SUFFICES ASSUME SessionsInv, [SessionsNext]_sessionsVars PROVE SessionsInv'
    OBVIOUS
  <1>1. world.requests \subseteq Requests /\ world.keys \subseteq Keys
    BY SessionsAssumption DEF SessionsInv, SessionsTypeOK
  <1>2. CASE \E r \in world.requests : Request(r)
    <2>1. PICK r \in Requests : Request(r)
      BY <1>1, <1>2
    <2>2. QED
      BY <1>1, <2>1, ReadKeeps, TouchKeeps, RecheckKeeps, AssignKeeps, NoneKeeps, BindKeeps, UnbindKeeps,
         MirrorCallKeeps, GiveUpKeeps DEF Request
  <1>3. CASE CollectGarbage \/ Close \/ RestartServer \/ PoolChanges \/ Tick
    BY <1>3, GarbageKeeps, CloseKeeps, RestartKeeps, AroundKeeps
  <1>4. CASE \E k \in swept : SubmitSwept(k)
    BY <1>4, SweepKeeps
  <1>5. CASE \E w \in writes : Execute(w)
    BY <1>5, ExecuteKeeps
  <1>6. CASE UNCHANGED sessionsVars
    <2>1. UNCHANGED <<world, now, avail, entries, req, connected, closed, writes, rows, swept, tangled, lastUse>>
      BY <1>6 DEF sessionsVars, mirrorVars, store
    <2>2. \A j \in Keys : UnderWay(j)' = UnderWay(j)
      BY <2>1 DEF UnderWay, Mirroring
    <2>3. QED
      BY <2>1, <2>2 DEF SessionsInv, SessionsTypeOK, Named, Agreed, Usable, Expired, Mirrored, Orderly, Bound, Live, Recent
  <1>7. QED
    BY <1>2, <1>3, <1>4, <1>5, <1>6 DEF SessionsNext

LEMMA SessionsInductive == SessionsSpec => []SessionsInv
  BY SessionsInitInv, SessionsNextInv, PTL DEF SessionsSpec

LEMMA StillIdle ==
  ASSUME SessionsTypeOK, NEW r \in Requests, NEW rs, NEW ks, rs[r] = req[r]
  PROVE  Disturb(rs, ks)[r].pc = req[r].pc
  <1>1. rs[r] \in RequestStates
    BY DEF SessionsTypeOK
  <1>2. Disturb(rs, ks)[r] = IF rs[r].key \in ks THEN [rs[r] EXCEPT !.fresh = FALSE] ELSE rs[r]
    BY DEF Disturb
  <1>3. QED
    BY <1>1, <1>2 DEF RequestStates

\* A request comes to touch a binding only by having read it.
LEMMA OnlyReadsTouch ==
  ASSUME SessionsInv, [SessionsNext]_sessionsVars, NEW r \in Requests, req[r].pc = "idle", req'[r].pc = "touch"
  PROVE  \E k \in Keys : ResolveRead(r, k)
  <1>1. req \in [Requests -> RequestStates] /\ world.requests \subseteq Requests /\ world.keys \subseteq Keys
    BY SessionsAssumption DEF SessionsInv, SessionsTypeOK
  <1>2. ASSUME NEW s \in Requests, Request(s) PROVE \E k \in Keys : ResolveRead(r, k)
    <2>1. CASE \E k \in world.keys : ResolveRead(s, k)
      <3>1. s # r => req'[r] = req[r]
        BY <1>1, <2>1 DEF ResolveRead
      <3>2. QED
        BY <1>1, <2>1, <3>1
    <2>2. CASE ~\E k \in world.keys : ResolveRead(s, k)
      <3>1. s # r /\ (Touch(s) \/ Recheck(s) \/ Assign(s) \/ AssignNone(s) \/ Unbind(s) \/ GiveUp(s) \/ Mirror(s)
                      \/ \E u \in UIDs : Bind(s, u))
        BY <1>2, <2>2 DEF Request, Touch, Recheck, Assign, AssignNone, Unbind, Mirror, Mirroring, GiveUp, Bind
      <3>2. \E rs, ks : rs[r] = req[r] /\ (req' = rs \/ req' = Disturb(rs, ks))
        <4>1. CASE Touch(s) \/ Recheck(s) \/ Assign(s)
          <5>1. PICK u, p : Resolved(s, req[s].key, u, p)
            BY <4>1 DEF Touch, Recheck, Assign
          <5> DEFINE done == [req EXCEPT ![s].pc = p, ![s].uid = u]
          <5>2. done[r] = req[r] /\ (req' = done \/ req' = Disturb(done, {req[s].key}))
            BY <1>1, <3>1, <5>1 DEF Resolved
          <5>3. QED
            BY <5>2
        <4>2. CASE AssignNone(s) \/ GiveUp(s) \/ Mirror(s)
          BY <1>1, <3>1, <4>2 DEF AssignNone, GiveUp, Mirror
        <4>3. CASE Unbind(s)
          <5> DEFINE rs == [req EXCEPT ![s].pc = IF Bound(req[s].key) THEN "unbound" ELSE "serve", ![s].uid = NoUID]
          <5>1. rs[r] = req[r] /\ req' = Disturb(rs, {req[s].key})
            BY <1>1, <3>1, <4>3 DEF Unbind
          <5>2. QED
            BY <5>1
        <4>4. CASE \E u \in UIDs : Bind(s, u)
          <5>a. PICK u : Bind(s, u)
            BY <4>4
          <5> DEFINE rs == [req EXCEPT ![s].pc = "bound", ![s].uid = u]
          <5>1. rs[r] = req[r] /\ req' = Disturb(rs, {req[s].key})
            BY <1>1, <3>1, <5>a DEF Bind
          <5>2. QED
            BY <5>1
        <4>5. QED
          BY <3>1, <4>1, <4>2, <4>3, <4>4
      <3>3. req'[r].pc = req[r].pc
        BY <3>2, StillIdle DEF SessionsInv
      <3>4. QED
        BY <3>3
    <2>3. QED
      BY <2>1, <2>2
  <1>3. CASE \E s \in world.requests : Request(s)
    BY <1>1, <1>2, <1>3
  <1>4. CASE ~\E s \in world.requests : Request(s)
    <2>1. \/ req' = req \/ req' = [s \in Requests |-> Idle]
          \/ \E ks : req' = Disturb(req, ks)
      BY <1>4 DEF SessionsNext, CollectGarbage, SubmitSwept, Close, RestartServer, PoolChanges, Tick, Execute, sessionsVars
    <2>2. req'[r].pc = "idle"
      BY <2>1, StillIdle, Empty DEF SessionsInv
    <2>3. QED
      BY <2>2
  <1>5. QED
    BY <1>3, <1>4

\* session.go and redisstore.go: bindings, rows and requests are well formed, and a write waits for
\* Redis only while there is one.
THEOREM SessionsTypeCorrect == SessionsSpec => []SessionsTypeOK
  BY SessionsInductive, PTL DEF SessionsInv

\* ResolveForModel: requests of one session that nothing has disturbed since they resolved it were sent
\* to one account, for any number of them and whatever the order of their critical sections.
THEOREM OneAccountASession == SessionsSpec => []ResolvesAgree
  <1>1. SessionsInv => ResolvesAgree
    <2> SUFFICES ASSUME SessionsInv, NEW q \in Requests, NEW r \in Requests,
                        req[q].pc \in {"touched", "serve"}, req[q].fresh,
                        req[r].pc \in {"touched", "serve"}, req[r].fresh,
                        req[q].key = req[r].key
                 PROVE  req[q].uid = req[r].uid
      BY DEF ResolvesAgree
    <2>1. /\ req[q].uid # NoUID => Usable(req[q].key, req[q].uid)
          /\ req[q].uid = NoUID => avail = {}
          /\ req[r].uid # NoUID => Usable(req[r].key, req[r].uid)
          /\ req[r].uid = NoUID => avail = {}
      BY SessionsAssumption DEF SessionsInv, Named, Agreed
    <2>2. QED
      BY <2>1 DEF Usable
  <1>2. QED
    BY <1>1, SessionsInductive, PTL

\* touch, Bind, Unbind, gcOnce and the goroutines of SetBind and DelBind: a row contradicts the binding
\* only by changes that overlapped between the map and Redis, a store that failed or one that was closed.
THEOREM MirrorFollows == SessionsSpec => []MirrorContradictsOnlyRaces
  <1>1. SessionsInv => MirrorContradictsOnlyRaces
    BY DEF SessionsInv, Mirrored, Orderly, MirrorContradictsOnlyRaces
  <1>2. QED
    BY <1>1, SessionsInductive, PTL

\* ResolveForModel, SetBind and LoadFromStore: for any TTL, a session is never sent to an account for a
\* use two TTLs ago, however often its binding was written, loaded and written again.
THEOREM StaleBindingsEnd == SessionsSpec => StaleBindingBounded
  <1>1. SessionsInv /\ [SessionsNext]_sessionsVars =>
          [\A r \in Requests :
             req[r].pc = "idle" /\ req'[r].pc = "touch"
               => now - lastUse[req'[r].key][req'[r].uid] < 2 * TTL]_sessionsVars
    <2> SUFFICES ASSUME SessionsInv, [SessionsNext]_sessionsVars, NEW r \in Requests,
                        req[r].pc = "idle", req'[r].pc = "touch"
                 PROVE  now - lastUse[req'[r].key][req'[r].uid] < 2 * TTL
      OBVIOUS
    <2>1. PICK k \in Keys : ResolveRead(r, k)
      BY OnlyReadsTouch
    <2> DEFINE u == entries[k].uid
    <2>2. /\ Bound(k) /\ ~Expired(k) /\ req'[r].key = k /\ req'[r].uid = u
      BY <2>1 DEF ResolveRead, SessionsInv, SessionsTypeOK
    <2>3. /\ now \in Nat /\ entries[k].at \in Nat /\ u \in UIDs /\ lastUse[k][u] \in Nat /\ TTL \in Nat
          /\ entries[k].at < lastUse[k][u] + TTL /\ now - entries[k].at <= TTL
      BY <2>2, SessionsAssumption DEF SessionsInv, SessionsTypeOK, Bindings, Recent, Bound, Expired
    <2>4. QED
      BY <2>2, <2>3
  <1>2. QED
    BY <1>1, SessionsInductive, PTL DEF SessionsSpec, StaleBindingBounded

=============================================================================
