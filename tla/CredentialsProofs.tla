-------------------------- MODULE CredentialsProofs --------------------------
(***************************************************************************)
(* Proofs about Credentials for any number of users of an account, edits   *)
(* and restarts, and any life of a token.                                  *)
(*                                                                         *)
(* What makes ExpiryHonest inductive is that every copy of the credentials *)
(* (the file, the objects, what a reload has just parsed) is Good, which   *)
(* bounds its expiry by the clock too, and that an answer on its way to    *)
(* the object is at most one tick old (Using).  Nothing about the order of *)
(* refreshes, saves and reloads is needed.  TakenReach is what the guard   *)
(* of RefreshToken does for an expiry computed in an int64.                *)
(***************************************************************************)
EXTENDS Credentials, SequenceTheorems, TLAPS

Given == Realms \cup {""}      \* what a file or an answer may name

Good(c, b, n, wd) ==
  /\ c \in Creds /\ c.at \in 1..Len(b)
  /\ c.exp <= n + Reach(wd) /\ c.exp <= b[c.at] + Reach(wd) + 1

Using(s, objects, b, n, wd) ==
  /\ s \in UserStates
  /\ s.pc # "idle" => s.obj \in 1..objects
  /\ s.pc = "answered" => /\ s.answer.at \in 1..Len(b) /\ n <= b[s.answer.at] + s.age
                          /\ s.answer.expiry \in Expiries(wd)

Found(w, b, n, wd) ==
  /\ w \in Watchers
  /\ (w.read = <<>> /\ w.pc # "migrate") \/ \E c \in Creds : w.read = <<c>> /\ Good(c, b, n, wd)

Filed(d, b, n, wd) == d \in Files /\ Good(d.cred, b, n, wd)
Parsed(os, b, n, wd) == os \in Seq(Creds) /\ \A o \in 1..Len(os) : Good(os[o], b, n, wd)

IInv ==
  /\ world \in Worlds /\ now \in Nat /\ born \in Seq(Nat)
  /\ Filed(disk, born, now, world) /\ Parsed(objs, born, now, world) /\ member \in 0..Len(objs)
  /\ \A u \in Users : Using(user[u], Len(objs), born, now, world)
  /\ user \in [Users -> UserStates]
  /\ Found(watcher, born, now, world)
  /\ gate \in BOOLEAN /\ edits \in Nat /\ restarts \in Nat

-----------------------------------------------------------------------------
(* Credentials stay good while tokens are issued and time passes *)

LEMMA LifeType == Life \in Nat
  BY ExpiryAssumption

LEMMA ReachType == \A wd : Reach(wd) \in Nat /\ Life <= Reach(wd)
  BY ExpiryAssumption DEF Reach

LEMMA Int64Type ==
  ASSUME NEW n \in Nat
  PROVE  /\ Word \in Nat /\ Int64(n) \in Int
         /\ ~Wraps(n) => Int64(n) = n
  <1>1. Word \in Nat /\ MaxExpiry \in Nat /\ 2 * MaxExpiry < Word /\ Word > 0
    BY ExpiryAssumption DEF Wraps
  <1>2. n % Word \in Nat
    BY <1>1
  <1>3. n < Word => n % Word = n
    BY <1>1
  <1>4. QED
    BY <1>1, <1>2, <1>3 DEF Int64, Wraps

\* What is taken of a stated expiry reaches no further than it may: of the odd ones only
\* those that wrap come below ten years.
LEMMA TakenReach ==
  ASSUME NEW wd, NEW x \in Nat, x \in Expiries(wd), x > 0, Int64(x) < MaxExpiry
  PROVE  Int64(x) \in Int /\ Int64(x) <= Reach(wd)
  <1>1. Life \in Nat /\ MaxExpiry \in Nat /\ Life < MaxExpiry /\ 2 * MaxExpiry < Word /\ Word \in Nat
    BY ExpiryAssumption DEF Wraps
  <1>2. CASE x = Life
    <2>1. ~Wraps(Life)
      BY <1>1 DEF Wraps
    <2>2. Int64(x) = Life
      BY <1>1, <1>2, <2>1, Int64Type
    <2>3. QED
      BY <1>1, <2>2, ReachType
  <1>3. CASE x # Life /\ Wraps(x)
    <2>1. Reach(wd) = MaxExpiry
      BY <1>3 DEF Expiries, Reach
    <2>2. QED
      BY <1>1, <2>1, Int64Type
  <1>4. CASE x # Life /\ ~Wraps(x)
    <2>1. x >= MaxExpiry
      BY <1>4, ExpiryAssumption DEF Expiries
    <2>2. QED
      BY <1>1, <1>4, <2>1, Int64Type
  <1>5. QED
    BY <1>2, <1>3, <1>4

LEMMA WorldFacts ==
  ASSUME world \in Worlds
  PROVE  world.gates \subseteq BOOLEAN /\ world.realms \subseteq Given /\ world.doms \subseteq Realms
  BY CredentialsAssumption DEF Given

LEMMA IssuedFacts ==
  ASSUME NEW b \in Seq(Nat), NEW n \in Nat
  PROVE  /\ Append(b, n) \in Seq(Nat) /\ Len(b) \in Nat /\ Len(Append(b, n)) = Len(b) + 1
         /\ Append(b, n)[Len(b) + 1] = n
         /\ \A i \in 1..Len(b) : Append(b, n)[i] = b[i] /\ b[i] \in Nat
         /\ Len(b) + 1 \in Nat /\ Len(b) + 1 \in 1..Len(Append(b, n)) /\ \A age \in 0..1 : n <= n + age
  <1>1. /\ Append(b, n) \in Seq(Nat) /\ Len(b) \in Nat /\ Len(Append(b, n)) = Len(b) + 1
        /\ Append(b, n)[Len(b) + 1] = n
        /\ \A i \in 1..Len(b) : Append(b, n)[i] = b[i] /\ b[i] \in Nat
    BY AppendProperties, LenProperties
  <1>2. QED
    BY <1>1

LEMMA GoodGrows ==
  ASSUME NEW b \in Seq(Nat), NEW n \in Nat, NEW wd, NEW c, Good(c, b, n, wd)
  PROVE  Good(c, Append(b, n), n, wd) /\ Good(c, b, n + 1, wd)
  <1>1. c.at \in 1..Len(b) /\ c.exp \in Int /\ b[c.at] \in Nat /\ Reach(wd) \in Nat
    BY IssuedFacts, ReachType DEF Good, Creds
  <1>2. c.at \in 1..Len(Append(b, n)) /\ Append(b, n)[c.at] = b[c.at]
    BY <1>1, IssuedFacts
  <1>3. QED
    BY <1>1, <1>2 DEF Good

LEMMA FoundGrows ==
  ASSUME NEW b \in Seq(Nat), NEW n \in Nat, NEW wd, NEW w, Found(w, b, n, wd)
  PROVE  Found(w, Append(b, n), n, wd) /\ Found(w, b, n + 1, wd)
  BY GoodGrows DEF Found

LEMMA UsingGrows ==
  ASSUME NEW b \in Seq(Nat), NEW n \in Nat, NEW wd, NEW l \in Nat, NEW s, Using(s, l, b, n, wd)
  PROVE  /\ Using(s, l, Append(b, n), n, wd) /\ Using(s, l + 1, b, n, wd)
         /\ s.pc # "idle" /\ s.age = 0 => Using([s EXCEPT !.age = 1], l, b, n + 1, wd)
         /\ s.pc = "idle" => Using(s, l, b, n + 1, wd)
  <1>1. Using(s, l, Append(b, n), n, wd)
    <2>1. CASE s.pc = "answered"
      BY <2>1, IssuedFacts DEF Using
    <2>2. CASE s.pc # "answered"
      BY <2>2 DEF Using
    <2>3. QED
      BY <2>1, <2>2
  <1>2. Using(s, l + 1, b, n, wd)
    BY DEF Using
  <1>3. ASSUME s.pc # "idle", s.age = 0 PROVE Using([s EXCEPT !.age = 1], l, b, n + 1, wd)
    <2> DEFINE t == [s EXCEPT !.age = 1]
    <2>1. t \in UserStates /\ t.pc = s.pc /\ t.obj = s.obj /\ t.answer = s.answer /\ t.age = 1
      BY DEF Using, UserStates
    <2> HIDE DEF t
    <2>2. s.pc = "answered" => s.answer.at \in 1..Len(b) /\ n + 1 <= b[s.answer.at] + 1
      <3>1. s.pc = "answered" => s.answer.at \in 1..Len(b) /\ n <= b[s.answer.at] + 0 /\ b[s.answer.at] \in Nat
        BY <1>3, IssuedFacts DEF Using
      <3>2. QED
        BY <3>1
    <2>3. t.pc = "answered" => /\ t.answer.at \in 1..Len(b) /\ n + 1 <= b[t.answer.at] + t.age
                               /\ t.answer.expiry \in Expiries(wd)
      BY <2>1, <2>2 DEF Using
    <2>4. t.pc # "idle" => t.obj \in 1..l
      BY <2>1 DEF Using
    <2>5. Using(t, l, b, n + 1, wd)
      BY <2>1, <2>3, <2>4 DEF Using
    <2>6. QED
      BY <2>5 DEF t
  <1>4. s.pc = "idle" => Using(s, l, b, n + 1, wd)
    BY DEF Using
  <1>5. QED
    BY <1>1, <1>2, <1>3, <1>4

\* Filling in the realm changes nothing else.
LEMMA BackfilledGood ==
  ASSUME NEW b, NEW n, NEW wd, NEW c, Good(c, b, n, wd)
  PROVE  Good(Backfilled(c), b, n, wd)
  BY DEF Good, Backfilled, Creds, Realms

\* The file after SaveAtomic.
LEMMA SavedGood ==
  ASSUME NEW c, Filed(disk, born, now, world), Good(c, born, now, world), SaveAtomic(c)
  PROVE  Filed(disk', born, now, world)
  <1>1. c \in Creds /\ disk.stamp + 1 \in Nat
    BY DEF Filed, Files, Good
  <1>2. CASE disk' = [there |-> TRUE, cred |-> c, stamp |-> disk.stamp + 1]
    <2>1. disk' \in Files /\ (disk').cred = c
      BY <1>1, <1>2 DEF Files
    <2>2. QED
      BY <2>1 DEF Filed
  <1>3. CASE disk' = disk
    BY <1>3 DEF Filed
  <1>4. QED
    BY <1>2, <1>3 DEF SaveAtomic

LEMMA LoadedGood ==
  ASSUME NEW b, NEW n, NEW wd, NEW os, NEW c, Parsed(os, b, n, wd), Good(c, b, n, wd)
  PROVE  Parsed(os \o <<c>>, b, n, wd) /\ Len(os \o <<c>>) = Len(os) + 1 /\ Len(os) \in Nat
  <1>1. os \in Seq(Creds) /\ c \in Creds /\ <<c>> \in Seq(Creds) /\ Len(<<c>>) = 1 /\ Len(os) \in Nat /\ <<c>>[1] = c
    BY LenProperties DEF Parsed, Good
  <1>2. /\ os \o <<c>> \in Seq(Creds) /\ Len(os \o <<c>>) = Len(os) + 1
        /\ \A i \in 1..(Len(os) + 1) : (os \o <<c>>)[i] = IF i <= Len(os) THEN os[i] ELSE c
    <2>1. \A i \in 1..(Len(os) + 1) : ~(i <= Len(os)) => i - Len(os) = 1
      BY <1>1
    <2>2. QED
      BY <1>1, <2>1, ConcatProperties
  <1>3. QED
    BY <1>1, <1>2 DEF Parsed

\* An object that is replaced by good credentials.
LEMMA ReplacedGood ==
  ASSUME NEW b, NEW n, NEW wd, NEW os, NEW c, NEW o \in 1..Len(os), Parsed(os, b, n, wd), Good(c, b, n, wd)
  PROVE  Parsed([os EXCEPT ![o] = c], b, n, wd) /\ Len([os EXCEPT ![o] = c]) = Len(os)
  <1>1. os \in Seq(Creds) /\ c \in Creds
    BY DEF Parsed, Good
  <1>2. /\ [os EXCEPT ![o] = c] \in Seq(Creds) /\ Len([os EXCEPT ![o] = c]) = Len(os)
        /\ \A i \in 1..Len(os) : [os EXCEPT ![o] = c][i] = IF i = o THEN c ELSE os[i]
    BY <1>1, ExceptSeq
  <1>3. QED
    BY <1>2 DEF Parsed

-----------------------------------------------------------------------------
(* Users of the account *)

LEMMA IdleUsing == \A l, b, n, wd : Using(Idle, l, b, n, wd)
  BY DEF Using, Idle, UserStates, Nothing, Answers, Realms

LEMMA QuietStep ==
  ASSUME IInv, NEW u \in Users, NEW s, Using(s, Len(objs), born, now, world), user' = [user EXCEPT ![u] = s],
         UNCHANGED <<world, now, born, disk, objs, member, watcher, gate, edits, restarts>>
  PROVE  IInv'
  <1>1. s \in UserStates
    BY DEF Using
  <1>2. \A v \in Users : Using(user'[v], Len(objs), born, now, world)
    BY DEF IInv
  <1>3. user' \in [Users -> UserStates]
    BY <1>1 DEF IInv
  <1>4. QED
    BY <1>2, <1>3 DEF IInv, Filed, Parsed, Found, Using, Good

\* Where a user goes whose answer need not be on its way.
LEMMA GoUsing ==
  ASSUME NEW l, NEW b, NEW n, NEW wd, NEW s, Using(s, l, b, n, wd), s.pc # "idle",
         NEW pc \in {"save", "call", "refresh"}
  PROVE  Using([s EXCEPT !.pc = pc], l, b, n, wd)
  <1> DEFINE t == [s EXCEPT !.pc = pc]
  <1>1. t \in UserStates /\ t.pc = pc /\ t.obj = s.obj
    BY DEF Using, UserStates
  <1> HIDE DEF t
  <1>2. Using(t, l, b, n, wd)
    BY <1>1 DEF Using
  <1>3. QED
    BY <1>2 DEF t

LEMMA TakeKeeps ==
  ASSUME IInv, NEW u \in Users, Take(u)
  PROVE  IInv'
  <1>1. PICK pc \in {"refresh", "call"} : user' = [user EXCEPT ![u] = [Idle EXCEPT !.obj = member, !.pc = pc]]
    BY DEF Take
  <1> DEFINE s == [Idle EXCEPT !.obj = member, !.pc = pc]
  <1>2. member \in Nat /\ member \in 1..Len(objs)
    BY LenProperties DEF Take, IInv, Parsed
  <1>a. Idle \in UserStates
    BY IdleUsing DEF Using
  <1>3. s \in UserStates /\ s.obj = member /\ s.pc = pc
    BY <1>2, <1>a DEF UserStates
  <1>4. user' = [user EXCEPT ![u] = s]
    BY <1>1
  <1> HIDE DEF s
  <1>5. Using(s, Len(objs), born, now, world)
    BY <1>2, <1>3 DEF Using
  <1>6. QED
    BY <1>4, <1>5, QuietStep DEF Take

LEMMA AskKeeps ==
  ASSUME IInv, NEW u \in Users, Ask(u)
  PROVE  IInv'
  <1> DEFINE s == [user[u] EXCEPT !.pc = "asked", !.at = Obj(u).at, !.rt = Obj(u).rt]
  <1>1. user[u] \in UserStates /\ user[u].obj \in 1..Len(objs)
    BY DEF Ask, IInv, Using
  <1>2. Obj(u).at \in Nat /\ Obj(u).rt \in Nat
    BY <1>1 DEF Obj, IInv, Parsed, Good, Creds
  <1>3. s \in UserStates /\ s.pc = "asked" /\ s.obj = user[u].obj
    BY <1>1, <1>2 DEF UserStates
  <1>4. user' = [user EXCEPT ![u] = s]
    BY DEF Ask
  <1> HIDE DEF s
  <1>5. Using(s, Len(objs), born, now, world)
    BY <1>1, <1>3 DEF Using
  <1>6. QED
    BY <1>4, <1>5, QuietStep DEF Ask

LEMMA RefusedKeeps ==
  ASSUME IInv, NEW u \in Users, Refused(u) \/ Call(u)
  PROVE  IInv'
  <1>1. Using(user[u], Len(objs), born, now, world) /\ user[u].pc # "idle"
    BY DEF IInv, Refused, Call
  <1>2. \/ user' = [user EXCEPT ![u] = Idle]
        \/ user' = [user EXCEPT ![u] = [user[u] EXCEPT !.pc = "call"]]
    BY DEF Refused, Call, Go, Done
  <1>3. QED
    BY <1>1, <1>2, IdleUsing, GoUsing, QuietStep DEF Refused, Call

\* A pair is issued: born now, at most one tick before it is written back.
LEMMA AnswerKeeps ==
  ASSUME IInv, NEW u \in Users, Answer(u)
  PROVE  IInv'
  <1>1. PICK rt \in BOOLEAN, x \in Expiries(world), d \in Given :
          user' = [user EXCEPT ![u].pc = "answered",
                               ![u].answer = [at |-> Len(born) + 1, rt |-> rt, expiry |-> x, dom |-> d]]
    BY DEF Answer, Given
  <1> DEFINE a == [at |-> Len(born) + 1, rt |-> rt, expiry |-> x, dom |-> d]
             s == [user[u] EXCEPT !.pc = "answered", !.answer = a]
  <1>2. /\ born' = Append(born, now) /\ born \in Seq(Nat) /\ now \in Nat
        /\ UNCHANGED <<world, now, disk, objs, member, watcher, gate, edits, restarts>>
    BY DEF Answer, IInv
  <1>3. /\ born' \in Seq(Nat) /\ Len(born) + 1 \in 1..Len(born') /\ born'[Len(born) + 1] = now
        /\ Len(born) + 1 \in Nat
    BY <1>2, IssuedFacts
  <1>4. a \in Answers /\ a.at = Len(born) + 1 /\ a.expiry \in Expiries(world)
    <2>1. x \in Nat
      BY ExpiryAssumption DEF Expiries
    <2>2. a \in Answers
      BY <1>3, <2>1 DEF Answers, Given
    <2>3. QED
      BY <2>2 DEF Expiries
  <1> HIDE DEF a
  <1>5. user[u] \in UserStates /\ user[u].obj \in 1..Len(objs) /\ user[u].age \in 0..1
    BY DEF Answer, IInv, Using, UserStates
  <1>6. s \in UserStates /\ s.pc = "answered" /\ s.obj = user[u].obj /\ s.answer = a /\ s.age = user[u].age
    BY <1>4, <1>5 DEF UserStates
  <1>7. user' = [user EXCEPT ![u] = s]
    BY <1>1 DEF a
  <1> HIDE DEF s
  <1>8. Using(s, Len(objs), born', now, world)
    <2>1. s.answer.at \in 1..Len(born') /\ born'[s.answer.at] = now
      BY <1>3, <1>4, <1>6
    <2>a. now <= now + s.age
      BY <1>2, <1>5, <1>6, IssuedFacts
    <2>2. QED
      BY <1>5, <1>6, <1>4, <2>1, <2>a DEF Using
  <1>9. \A v \in Users : Using(user'[v], Len(objs), born', now, world)
    BY <1>2, <1>7, <1>8, UsingGrows, LenProperties DEF IInv, Parsed
  <1>10. user' \in [Users -> UserStates]
    BY <1>6, <1>7 DEF IInv
  <1>11. Filed(disk, born', now, world) /\ Found(watcher, born', now, world) /\ Parsed(objs, born', now, world)
    BY <1>2, GoodGrows, FoundGrows DEF IInv, Filed, Parsed
  <1>12. QED
    BY <1>2, <1>3, <1>9, <1>10, <1>11 DEF IInv

\* What an answer at most one tick old makes of the credentials, whether it has an expiry or not.
LEMMA RefreshedGood ==
  ASSUME NEW b \in Seq(Nat), now \in Nat, NEW c, Good(c, b, now, world), NEW a \in Answers,
         a.at \in 1..Len(b), now <= b[a.at] + 1, a.expiry \in Expiries(world)
  PROVE  Good(Refreshed(c, a, a.at), b, now, world)
  <1> DEFINE rt == IF a.rt THEN a.at ELSE c.rt
             exp == NewExpiry(c.exp, a)
             dom == IF a.dom = "" THEN c.dom ELSE a.dom
             d == [c EXCEPT !.at = a.at, !.rt = rt, !.exp = exp, !.dom = dom]
  <1>1. c \in Creds /\ a.at \in Nat /\ a.expiry \in Nat /\ b[a.at] \in Nat /\ Reach(world) \in Nat
    BY IssuedFacts, ReachType DEF Good, Answers
  <1>2. exp \in Int /\ exp <= now + Reach(world)
    <2>1. c.exp \in Int /\ c.exp <= now + Reach(world)
      BY <1>1 DEF Creds, Good
    <2>2. CASE a.expiry > 0 /\ Int64(a.expiry) < MaxExpiry
      <3>1. Int64(a.expiry) \in Int /\ Int64(a.expiry) <= Reach(world)
        BY <1>1, <2>2, TakenReach
      <3>2. QED
        BY <1>1, <2>2, <3>1 DEF NewExpiry
    <2>3. CASE ~(a.expiry > 0 /\ Int64(a.expiry) < MaxExpiry)
      BY <2>1, <2>3 DEF NewExpiry
    <2>4. QED
      BY <2>2, <2>3
  <1>3. rt \in Nat /\ dom \in Realms
    BY <1>1 DEF Creds, Answers
  <1>4. Refreshed(c, a, a.at) = d
    BY <1>1 DEF Refreshed, Creds
  <1> HIDE DEF rt, exp, dom
  <1>5. d \in Creds /\ d.at = a.at /\ d.exp = exp
    BY <1>1, <1>2, <1>3 DEF Creds
  <1> HIDE DEF d
  <1>6. exp <= b[a.at] + Reach(world) + 1
    BY <1>1, <1>2, SMTT(30)
  <1>7. Good(d, b, now, world)
    BY <1>2, <1>5, <1>6 DEF Good
  <1>8. QED
    BY <1>4, <1>7

LEMMA WriteBackKeeps ==
  ASSUME IInv, NEW u \in Users, WriteBack(u)
  PROVE  IInv'
  <1> DEFINE s == [user[u] EXCEPT !.pc = "save"]
             c == Refreshed(Obj(u), user[u].answer, user[u].answer.at)
  <1>1. /\ Using(user[u], Len(objs), born, now, world) /\ user[u].pc = "answered" /\ user' = [user EXCEPT ![u] = s]
        /\ born \in Seq(Nat) /\ now \in Nat /\ Parsed(objs, born, now, world)
        /\ UNCHANGED <<world, now, born, disk, member, watcher, gate, edits, restarts>>
    BY DEF IInv, WriteBack, Go
  <1>2. Using(s, Len(objs), born, now, world)
    BY <1>1, GoUsing
  <1>3. user[u].obj \in 1..Len(objs) /\ Good(Obj(u), born, now, world)
    BY <1>1 DEF Using, Parsed, Obj
  <1>4. Good(c, born, now, world)
    <2>1. /\ user[u].answer \in Answers /\ user[u].answer.at \in 1..Len(born)
          /\ now <= born[user[u].answer.at] + user[u].age /\ user[u].age \in 0..1
          /\ user[u].answer.expiry \in Expiries(world)
      BY <1>1 DEF Using, UserStates
    <2>2. now <= born[user[u].answer.at] + 1
      <3>1. \A x \in Nat, age \in 0..1 : now <= x + age => now <= x + 1
        BY <1>1
      <3>2. QED
        BY <1>1, <2>1, <3>1, IssuedFacts, SMTT(30)
    <2>3. QED
      BY <1>1, <1>3, <2>1, <2>2, RefreshedGood
  <1>5. \/ objs' = objs
        \/ objs' = [objs EXCEPT ![user[u].obj] = c]
    BY DEF WriteBack, Obj
  <1> HIDE DEF c
  <1>6. Parsed(objs', born, now, world) /\ Len(objs') = Len(objs)
    BY <1>1, <1>3, <1>4, <1>5, ReplacedGood
  <1>7. s \in UserStates
    BY <1>2 DEF Using
  <1> HIDE DEF s
  <1>8. QED
    BY <1>1, <1>2, <1>6, <1>7 DEF IInv, Filed, Found

LEMMA SaveKeeps ==
  ASSUME IInv, NEW u \in Users, Save(u)
  PROVE  IInv'
  <1> DEFINE s == [user[u] EXCEPT !.pc = "call"]
             c == Backfilled(Obj(u))
  <1>1. /\ Using(user[u], Len(objs), born, now, world) /\ user[u].pc = "save"
        /\ user' = [user EXCEPT ![u] = s] \/ user' = [user EXCEPT ![u] = Idle]
        /\ Parsed(objs, born, now, world) /\ Filed(disk, born, now, world)
        /\ objs' = [objs EXCEPT ![user[u].obj] = c] /\ SaveAtomic(c)
        /\ UNCHANGED <<world, now, born, member, watcher, gate, edits, restarts>>
    BY DEF IInv, Save, Go, Done
  <1>2. Using(s, Len(objs), born, now, world) /\ Using(Idle, Len(objs), born, now, world)
    BY <1>1, GoUsing, IdleUsing
  <1>3. user[u].obj \in 1..Len(objs) /\ Good(c, born, now, world)
    BY <1>1, BackfilledGood DEF Using, Parsed, Obj
  <1> HIDE DEF c
  <1>4. Parsed(objs', born, now, world) /\ Len(objs') = Len(objs)
    <2>1. Parsed(objs, born, now, world)
      BY <1>1
    <2>2. /\ Parsed([objs EXCEPT ![user[u].obj] = c], born, now, world)
          /\ Len([objs EXCEPT ![user[u].obj] = c]) = Len(objs)
      BY <1>3, <2>1, ReplacedGood
    <2>3. QED
      BY <1>1, <2>2
  <1>5. Filed(disk', born, now, world)
    BY <1>1, <1>3, SavedGood
  <1>6. s \in UserStates /\ Idle \in UserStates
    BY <1>2 DEF Using
  <1> HIDE DEF s
  <1>7. QED
    BY <1>1, <1>2, <1>4, <1>5, <1>6 DEF IInv, Found

-----------------------------------------------------------------------------
(* The directory *)

\* Steps of the watcher that leave the file and the objects alone.
LEMMA WatcherStep ==
  ASSUME IInv, Found(watcher', born, now, world),
         UNCHANGED <<world, now, born, objs, member, user, gate, edits, restarts>>, Filed(disk', born, now, world)
  PROVE  IInv'
  BY DEF IInv, Parsed

LEMMA FingerprintType == IInv => Fingerprint \in Nat
  BY DEF IInv, Filed, Files, Fingerprint

LEMMA WatchKeeps ==
  ASSUME IInv, Check \/ Read \/ Migrate \/ Baseline
  PROVE  IInv'
  <1>1. watcher \in Watchers /\ Filed(disk, born, now, world) /\ Fingerprint \in Nat /\ Found(watcher, born, now, world)
    BY FingerprintType DEF IInv, Found
  <1>2. CASE Check
    <2> DEFINE w == [watcher EXCEPT !.pc = "read", !.last = Fingerprint]
    <2>1. w \in Watchers /\ w.pc = "read" /\ w.read = watcher.read /\ watcher' = w
      BY <1>1, <1>2 DEF Check, Watchers
    <2> HIDE DEF w
    <2>2. QED
      BY <1>1, <1>2, <2>1, WatcherStep DEF Check, Found
  <1>3. CASE Read
    <2>1. disk.cred \in Creds /\ Good(disk.cred, born, now, world)
      BY <1>1 DEF Filed, Good
    <2> DEFINE some(pc) == [watcher EXCEPT !.read = <<disk.cred>>, !.pc = pc]
               none == [watcher EXCEPT !.read = <<>>, !.pc = "sync"]
    <2>2. none \in Watchers /\ none.pc = "sync" /\ none.read = <<>>
      <3>1. <<>> \in Seq(Creds)
        OBVIOUS
      <3>2. QED
        BY <1>1, <3>1 DEF Watchers
    <2>3. ASSUME NEW pc \in {"migrate", "sync"}
          PROVE  some(pc) \in Watchers /\ some(pc).pc = pc /\ some(pc).read = <<disk.cred>>
      <3>1. <<disk.cred>> \in Seq(Creds)
        BY <2>1
      <3>2. QED
        BY <1>1, <3>1 DEF Watchers
    <2>4. watcher' = none \/ \E pc \in {"migrate", "sync"} : watcher' = some(pc)
      BY <1>3 DEF Read
    <2> HIDE DEF none, some
    <2>5. Found(watcher', born, now, world)
      BY <2>1, <2>2, <2>3, <2>4 DEF Found
    <2>6. QED
      BY <1>1, <1>3, <2>5, WatcherStep DEF Read
  <1>4. CASE Migrate
    <2>1. PICK c \in Creds : watcher.read = <<c>> /\ Good(c, born, now, world)
      BY <1>1, <1>4 DEF Migrate, Found
    <2> DEFINE d == Backfilled(c)
               w == [watcher EXCEPT !.pc = "sync", !.read = <<d>>]
    <2>2. watcher' = w /\ SaveAtomic(d)
      BY <1>4, <2>1 DEF Migrate
    <2>3. Good(d, born, now, world) /\ d \in Creds
      BY <2>1, BackfilledGood DEF Good
    <2> HIDE DEF d
    <2>4. w \in Watchers /\ w.pc = "sync" /\ w.read = <<d>>
      <3>1. <<d>> \in Seq(Creds)
        BY <2>3
      <3>2. QED
        BY <1>1, <3>1 DEF Watchers
    <2>5. Filed(disk', born, now, world)
      BY <1>1, <2>2, <2>3, SavedGood
    <2> HIDE DEF w
    <2>6. QED
      BY <1>4, <2>2, <2>3, <2>4, <2>5, WatcherStep DEF Migrate, Found
  <1>5. CASE Baseline
    <2> DEFINE w == [watcher EXCEPT !.pc = "wait", !.last = Fingerprint, !.armed = TRUE]
    <2>1. w \in Watchers /\ w.pc = "wait" /\ w.read = watcher.read /\ watcher' = w /\ watcher.pc = "baseline"
      BY <1>1, <1>5 DEF Baseline, Watchers
    <2> HIDE DEF w
    <2>2. QED
      BY <1>1, <1>5, <2>1, WatcherStep DEF Baseline, Found
  <1>6. QED
    BY <1>2, <1>3, <1>4, <1>5

LEMMA SyncKeeps == IInv /\ Sync => IInv'
  <1> SUFFICES ASSUME IInv, Sync PROVE IInv'
    OBVIOUS
  <1> DEFINE w(pc) == [watcher EXCEPT !.pc = pc, !.read = <<>>]
  <1>1. /\ watcher \in Watchers /\ Parsed(objs, born, now, world) /\ Len(objs) \in Nat /\ now \in Nat /\ born \in Seq(Nat)
        /\ UNCHANGED <<world, now, born, disk, user, gate, edits, restarts>>
    BY LenProperties DEF IInv, Found, Parsed, Sync
  <1>2. \E pc \in {"wait", "baseline"} : watcher' = w(pc)
    BY DEF Sync
  <1>3. \A pc \in {"wait", "baseline"} : w(pc) \in Watchers /\ w(pc).pc = pc /\ w(pc).read = <<>>
    <2>1. <<>> \in Seq(Creds)
      OBVIOUS
    <2>2. QED
      BY <1>1, <2>1 DEF Watchers
  <1> HIDE DEF w
  <1>4. Found(watcher', born, now, world)
    BY <1>2, <1>3 DEF Found
  <1>5. CASE watcher.read = <<>>
    <2>1. objs' = objs /\ member' = 0
      BY <1>1, <1>5, ConcatEmptySeq DEF Sync, Parsed
    <2>2. QED
      BY <1>1, <1>4, <2>1 DEF IInv, Filed
  <1>6. ASSUME NEW c \in Creds, watcher.read = <<c>>, Good(c, born, now, world)
        PROVE  IInv'
    <2>1. objs' = objs \o <<c>> /\ member' = Len(objs')
      BY <1>6 DEF Sync
    <2>2. Parsed(objs', born, now, world) /\ Len(objs') = Len(objs) + 1
      BY <1>1, <1>6, <2>1, LoadedGood
    <2>3. member' \in 0..Len(objs')
      BY <1>1, <2>1, <2>2
    <2>4. \A u \in Users : Using(user[u], Len(objs) + 1, born, now, world)
      BY <1>1, UsingGrows DEF IInv
    <2>5. QED
      BY <1>1, <1>4, <2>2, <2>3, <2>4 DEF IInv, Filed
  <1>7. QED
    BY <1>5, <1>6 DEF IInv, Found

-----------------------------------------------------------------------------
(* The operator, the process, the clock *)

LEMMA LoginKeeps == IInv /\ Login => IInv'
  <1> SUFFICES ASSUME IInv, Login PROVE IInv'
    OBVIOUS
  <1>1. /\ born' = Append(born, now) /\ born \in Seq(Nat) /\ now \in Nat /\ edits' = edits + 1 /\ edits \in Nat
        /\ disk \in Files
        /\ UNCHANGED <<world, now, objs, member, user, watcher, gate, restarts>>
    BY DEF IInv, Login, Filed
  <1>2. PICK r \in Given, d \in Realms :
          disk' = [there |-> TRUE, stamp |-> disk.stamp + 1,
                   cred |-> [at |-> Len(born) + 1, rt |-> Len(born) + 1, exp |-> now + Life, realm |-> r, dom |-> d]]
    BY WorldFacts DEF Login, IInv
  <1> DEFINE c == [at |-> Len(born) + 1, rt |-> Len(born) + 1, exp |-> now + Life, realm |-> r, dom |-> d]
  <1>3. Good(c, Append(born, now), now, world)
    <2>1. /\ Len(born) + 1 \in 1..Len(Append(born, now)) /\ Append(born, now)[Len(born) + 1] = now
          /\ Len(born) + 1 \in Nat
      BY <1>1, IssuedFacts
    <2>2. /\ now + Life \in Int /\ now + Life <= now + Reach(world)
          /\ now + Life <= now + Reach(world) + 1
      <3>1. \A n, l, m \in Nat : l <= m => n + l \in Int /\ n + l <= n + m /\ n + l <= n + m + 1
        OBVIOUS
      <3>2. QED
        BY <1>1, <3>1, LifeType, ReachType
    <2>3. c \in Creds /\ c.at = Len(born) + 1 /\ c.exp = now + Life
      BY <2>1, <2>2 DEF Creds, Given
    <2> HIDE DEF c
    <2>4. QED
      BY <2>1, <2>2, <2>3 DEF Good
  <1>4. disk' = [there |-> TRUE, stamp |-> disk.stamp + 1, cred |-> c]
    BY <1>2
  <1> HIDE DEF c
  <1>5. Filed(disk', born', now, world)
    <2>a. c \in Creds
      BY <1>3 DEF Good
    <2>1. c \in Creds /\ disk.stamp + 1 \in Nat
      BY <1>1, <2>a DEF Files
    <2>2. disk' \in Files /\ (disk').cred = c
      BY <1>4, <2>1 DEF Files
    <2>3. QED
      BY <1>1, <1>3, <2>2 DEF Filed
  <1>6. Found(watcher, born', now, world) /\ Parsed(objs, born', now, world) /\ born' \in Seq(Nat)
    BY <1>1, GoodGrows, FoundGrows, IssuedFacts DEF IInv, Parsed
  <1>7. \A u \in Users : Using(user[u], Len(objs), born', now, world)
    BY <1>1, UsingGrows, LenProperties DEF IInv, Parsed
  <1>8. edits' \in Nat
    BY <1>1
  <1>9. QED
    BY <1>1, <1>5, <1>6, <1>7, <1>8 DEF IInv

LEMMA RemoveKeeps == IInv /\ Remove => IInv'
  <1> SUFFICES ASSUME IInv, Remove PROVE IInv'
    OBVIOUS
  <1>1. disk \in Files /\ Filed(disk, born, now, world) /\ edits \in Nat
    BY DEF IInv, Filed
  <1> DEFINE d == [disk EXCEPT !.there = FALSE]
  <1>2. d \in Files /\ d.cred = disk.cred
    BY <1>1 DEF Files
  <1>3. disk' = d /\ edits' = edits + 1 /\ UNCHANGED <<world, now, born, objs, member, user, watcher, gate, restarts>>
    BY DEF Remove
  <1> HIDE DEF d
  <1>4. Filed(disk', born, now, world)
    BY <1>1, <1>2, <1>3 DEF Filed
  <1>5. QED
    BY <1>1, <1>3, <1>4 DEF IInv, Found, Parsed

LEMMA StartingFound == \A b, n, wd : Found(Starting, b, n, wd) /\ Parsed(<<>>, b, n, wd) /\ Len(<<>>) = 0
  BY DEF Found, Starting, Watchers, Parsed

LEMMA RestartKeeps == IInv /\ Restart => IInv'
  <1> SUFFICES ASSUME IInv, Restart PROVE IInv'
    OBVIOUS
  <1>1. /\ objs' = <<>> /\ member' = 0 /\ user' = [u \in Users |-> Idle] /\ watcher' = Starting
        /\ gate' \in BOOLEAN /\ restarts' \in Nat /\ UNCHANGED <<world, now, born, disk, edits>>
    BY WorldFacts DEF Restart, IInv
  <1>2. Idle \in UserStates
    BY IdleUsing DEF Using
  <1>3. user' \in [Users -> UserStates] /\ \A u \in Users : Using(user'[u], 0, born, now, world)
    BY <1>1, <1>2, IdleUsing
  <1>4. QED
    BY <1>1, <1>3, StartingFound DEF IInv, Filed

LEMMA TickKeeps == IInv /\ Tick => IInv'
  <1> SUFFICES ASSUME IInv, Tick PROVE IInv'
    OBVIOUS
  <1>1. /\ now' = now + 1 /\ now \in Nat /\ born \in Seq(Nat) /\ Len(objs) \in Nat
        /\ UNCHANGED <<world, born, disk, objs, member, watcher, gate, edits, restarts>>
    BY LenProperties DEF IInv, Tick, Parsed
  <1>2. user' = [u \in Users |-> IF user[u].pc = "idle" THEN user[u] ELSE [user[u] EXCEPT !.age = 1]]
    BY DEF Tick
  <1>3. \A u \in Users : Using(user'[u], Len(objs), born, now + 1, world)
    <2> TAKE u \in Users
    <2>1. Using(user[u], Len(objs), born, now, world) /\ (user[u].pc # "idle" => user[u].age = 0)
      BY DEF IInv, Tick
    <2>2. QED
      BY <1>1, <1>2, <2>1, UsingGrows
  <1>4. user' \in [Users -> UserStates]
    BY <1>2, <1>3 DEF Using
  <1>5. Found(watcher, born, now + 1, world) /\ Parsed(objs, born, now + 1, world) /\ Filed(disk, born, now + 1, world)
    BY <1>1, GoodGrows, FoundGrows DEF IInv, Parsed, Filed
  <1>6. QED
    BY <1>1, <1>3, <1>4, <1>5 DEF IInv

-----------------------------------------------------------------------------
(* Theorems *)

LEMMA InitIInv == Init => IInv
  <1> SUFFICES ASSUME Init PROVE IInv
    OBVIOUS
  <1>1. world \in Worlds /\ now = 0 /\ born = <<0>> /\ objs = <<>> /\ member = 0 /\ watcher = Starting
        /\ gate \in BOOLEAN /\ edits = 0 /\ restarts = 0 /\ user = [u \in Users |-> Idle]
    BY WorldFacts DEF Init
  <1>2. PICK r \in Given, d \in Realms :
          disk = [there |-> TRUE, stamp |-> 1, cred |-> [at |-> 1, rt |-> 1, exp |-> Life, realm |-> r, dom |-> d]]
    BY WorldFacts DEF Init
  <1> DEFINE c == [at |-> 1, rt |-> 1, exp |-> Life, realm |-> r, dom |-> d]
  <1>3. c \in Creds /\ c.at = 1 /\ c.exp = Life
    <2>1. Life \in Int
      BY LifeType
    <2>2. QED
      BY <2>1 DEF Creds, Given
  <1>4. disk \in Files /\ disk.cred = c
    BY <1>2, <1>3 DEF Files
  <1> HIDE DEF c
  <1>5. Good(c, <<0>>, 0, world)
    <2>1. Len(<<0>>) = 1 /\ <<0>>[1] = 0
      OBVIOUS
    <2>2. Life <= 0 + Reach(world) /\ Life <= 0 + Reach(world) + 1 /\ 1 \in 1..1
      BY LifeType, ReachType
    <2>3. QED
      BY <1>3, <2>1, <2>2 DEF Good
  <1>6. born \in Seq(Nat)
    <2>1. <<0>> \in Seq(Nat)
      OBVIOUS
    <2>2. QED
      BY <1>1, <2>1
  <1>7. user \in [Users -> UserStates] /\ \A u \in Users : Using(user[u], 0, born, now, world)
    <2>1. Idle \in UserStates
      BY IdleUsing DEF Using
    <2>2. QED
      BY <1>1, <2>1, IdleUsing
  <1>8. Filed(disk, born, now, world)
    BY <1>1, <1>4, <1>5 DEF Filed
  <1>9. QED
    BY <1>1, <1>6, <1>7, <1>8, StartingFound DEF IInv

LEMMA NextIInv == IInv /\ [Next]_vars => IInv'
  <1> SUFFICES ASSUME IInv, [Next]_vars PROVE IInv'
    OBVIOUS
  <1>1. ASSUME NEW u \in Users, Take(u) \/ Use(u) PROVE IInv'
    BY <1>1, TakeKeeps, AskKeeps, AnswerKeeps, RefusedKeeps, WriteBackKeeps, SaveKeeps DEF Use
  <1>2. CASE Watch
    BY <1>2, WatchKeeps, SyncKeeps DEF Watch
  <1>3. CASE Login \/ Remove \/ Restart \/ Tick
    BY <1>3, LoginKeeps, RemoveKeeps, RestartKeeps, TickKeeps
  <1>4. CASE UNCHANGED vars
    BY <1>4 DEF vars, IInv, Filed, Parsed, Found, Using, Good
  <1>5. QED
    BY <1>1, <1>2, <1>3, <1>4 DEF Next

LEMMA Inductive == Spec => []IInv
  BY InitIInv, NextIInv, PTL DEF Spec

\* auth.go and client.go: the file and every object hold tokens that were issued, the pool an
\* object that exists, and whoever uses the account has one too.
THEOREM TypeCorrect == Spec => []TypeOK
  <1>1. IInv => TypeOK
    <2> SUFFICES ASSUME IInv PROVE TypeOK
      OBVIOUS
    <2>1. DOMAIN objs = 1..Len(objs)
      BY LenProperties DEF IInv, Parsed
    <2>2. QED
      BY <2>1 DEF IInv, TypeOK, Filed, Parsed, Found, Using, Good, Tokens
  <1>2. QED
    BY <1>1, Inductive, PTL

\* RefreshToken, SaveAtomic, LoadDir and SyncToDir: in whatever order refreshes, saves and
\* reloads overlap, no copy of the credentials outlives its token by more than a refresh takes
\* as long as no answer's expiry wraps, and none reaches further than ten years when some do.
THEOREM ExpiriesHonest == Spec => []ExpiryHonest
  <1>1. IInv => ExpiryHonest
    <2> SUFFICES ASSUME IInv PROVE ExpiryHonest
      OBVIOUS
    <2>1. DOMAIN objs = 1..Len(objs)
      BY LenProperties DEF IInv, Parsed
    <2>2. QED
      BY <2>1 DEF IInv, ExpiryHonest, Filed, Parsed, Good
  <1>2. QED
    BY <1>1, Inductive, PTL

-----------------------------------------------------------------------------
(* The realm *)

Homely == world.realms = {""} /\ "move" \notin world.events
Home(c) == c.realm = "" \/ c.realm = c.dom
Moved(s) == s.pc = "answered" /\ s.answer.dom # ""

AtHome ==
  Homely =>
    /\ Home(disk.cred) /\ \A o \in 1..Len(objs) : Home(objs[o])
    /\ \A c \in Creds : watcher.read = <<c>> => Home(c)
    /\ \A u \in Users : ~Moved(user[u])

LEMMA BackfilledHome == \A c \in Creds : Home(c) => Home(Backfilled(c))
  <1> SUFFICES ASSUME NEW c \in Creds, Home(c) PROVE Home(Backfilled(c))
    OBVIOUS
  <1> DEFINE r == IF c.realm # "" THEN c.realm ELSE c.dom
             d == [c EXCEPT !.realm = r]
  <1>1. Backfilled(c) = d /\ r = c.dom
    BY DEF Backfilled, Home
  <1> HIDE DEF r
  <1>2. d.realm = r /\ d.dom = c.dom
    BY DEF Creds
  <1> HIDE DEF d
  <1>3. QED
    BY <1>1, <1>2 DEF Home

LEMMA RefreshedHome ==
  \A c \in Creds, a \in Answers : Home(c) /\ a.dom = "" => Home(Refreshed(c, a, a.at))
  <1> SUFFICES ASSUME NEW c \in Creds, NEW a \in Answers, Home(c), a.dom = ""
               PROVE  Home(Refreshed(c, a, a.at))
    OBVIOUS
  <1> DEFINE rt == IF a.rt THEN a.at ELSE c.rt
             exp == NewExpiry(c.exp, a)
             dom == IF a.dom = "" THEN c.dom ELSE a.dom
             d == [c EXCEPT !.at = a.at, !.rt = rt, !.exp = exp, !.dom = dom]
  <1>1. Refreshed(c, a, a.at) = d
    BY DEF Refreshed, Creds
  <1>2. dom = c.dom
    OBVIOUS
  <1> HIDE DEF rt, exp, dom
  <1>3. d.realm = c.realm /\ d.dom = dom
    BY DEF Creds
  <1> HIDE DEF d
  <1>4. QED
    BY <1>1, <1>2, <1>3 DEF Home

LEMMA ObjectFacts ==
  ASSUME IInv, NEW u \in Users, user[u].pc # "idle"
  PROVE  /\ user[u] \in UserStates /\ user[u].obj \in 1..Len(objs) /\ Obj(u) \in Creds
         /\ objs \in Seq(Creds) /\ user \in [Users -> UserStates] /\ disk \in Files
         /\ AtHome /\ Homely => Home(Obj(u))
  BY DEF IInv, Using, Parsed, Obj, Good, Filed, AtHome

\* The users: whatever they read is at home, and so is what they write.
LEMMA UsersAtHome ==
  ASSUME IInv, AtHome, NEW u \in Users, Take(u) \/ Use(u)
  PROVE  AtHome'
  <1>1. world' = world /\ user \in [Users -> UserStates] /\ watcher' = watcher
    BY DEF Take, Use, Ask, Answer, Refused, WriteBack, Save, Call, IInv
  <1>2. SUFFICES ASSUME Homely
                 PROVE  /\ Home(disk'.cred) /\ \A o \in 1..Len(objs') : Home(objs'[o])
                        /\ \A v \in Users : ~Moved(user'[v])
    BY <1>1 DEF AtHome, Homely, Home, Moved
  <1>3. /\ Home(disk.cred) /\ \A o \in 1..Len(objs) : Home(objs[o])
        /\ \A v \in Users : ~Moved(user[v])
    BY <1>2 DEF AtHome
  <1>4. ~Moved(Idle)
    BY DEF Moved, Idle
  <1>5. ASSUME NEW s \in UserStates, user' = [user EXCEPT ![u] = s], ~Moved(s)
        PROVE  \A v \in Users : ~Moved(user'[v])
    BY <1>1, <1>3, <1>5
  <1>6. ASSUME NEW s \in UserStates, NEW pc \in {"save", "call", "refresh", "asked"}
        PROVE  [s EXCEPT !.pc = pc] \in UserStates /\ [s EXCEPT !.pc = pc].pc = pc
    BY DEF UserStates
  <1>7. Idle \in UserStates
    BY IdleUsing DEF Using
  <1>8. CASE Take(u)
    <2>1. PICK pc \in {"refresh", "call"} : user' = [user EXCEPT ![u] = [Idle EXCEPT !.obj = member, !.pc = pc]]
      BY <1>8 DEF Take
    <2> DEFINE s == [Idle EXCEPT !.obj = member, !.pc = pc]
    <2>2. member \in Nat
      BY LenProperties DEF IInv, Parsed
    <2>3. s \in UserStates /\ s.pc = pc
      BY <1>7, <2>2 DEF UserStates
    <2>4. user' = [user EXCEPT ![u] = s]
      BY <2>1
    <2> HIDE DEF s
    <2>5. ~Moved(s)
      BY <2>3 DEF Moved
    <2>6. QED
      BY <1>3, <1>5, <1>8, <2>3, <2>4, <2>5 DEF Take
  <1>9. CASE Ask(u)
    <2>1. user[u].pc # "idle"
      BY <1>9 DEF Ask
    <2> DEFINE s == [user[u] EXCEPT !.pc = "asked", !.at = Obj(u).at, !.rt = Obj(u).rt]
    <2>2. Obj(u).at \in Nat /\ Obj(u).rt \in Nat
      BY <2>1, ObjectFacts DEF Creds
    <2>3. s \in UserStates /\ s.pc = "asked"
      BY <2>1, <2>2, ObjectFacts DEF UserStates
    <2>4. user' = [user EXCEPT ![u] = s]
      BY <1>9 DEF Ask
    <2> HIDE DEF s
    <2>5. ~Moved(s)
      BY <2>3 DEF Moved
    <2>6. QED
      BY <1>3, <1>5, <1>9, <2>3, <2>4, <2>5 DEF Ask
  <1>10. CASE Answer(u)
    <2>1. user[u].pc # "idle" /\ "move" \notin world.events
      BY <1>2, <1>10 DEF Answer, Homely
    <2>2. PICK rt \in BOOLEAN, x \in Expiries(world) :
            user' = [user EXCEPT ![u].pc = "answered",
                                 ![u].answer = [at |-> Len(born) + 1, rt |-> rt, expiry |-> x, dom |-> ""]]
      BY <1>10, <2>1 DEF Answer
    <2> DEFINE a == [at |-> Len(born) + 1, rt |-> rt, expiry |-> x, dom |-> ""]
               s == [user[u] EXCEPT !.pc = "answered", !.answer = a]
    <2>3. Len(born) + 1 \in Nat /\ x \in Nat
      BY LenProperties, ExpiryAssumption DEF IInv, Expiries
    <2>4. a \in Answers /\ a.dom = ""
      BY <2>3 DEF Answers
    <2>5. user' = [user EXCEPT ![u] = s]
      BY <2>2
    <2> HIDE DEF a
    <2>6. s \in UserStates /\ s.answer = a
      BY <2>1, <2>4, ObjectFacts DEF UserStates
    <2> HIDE DEF s
    <2>7. ~Moved(s)
      BY <2>4, <2>6 DEF Moved
    <2>8. QED
      BY <1>3, <1>5, <1>10, <2>5, <2>6, <2>7 DEF Answer
  <1>11. CASE Refused(u) \/ Call(u)
    <2>1. user[u].pc # "idle" /\ disk' = disk /\ objs' = objs
      BY <1>11 DEF Refused, Call
    <2>2. user' = [user EXCEPT ![u] = Idle] \/ user' = [user EXCEPT ![u] = [user[u] EXCEPT !.pc = "call"]]
      BY <1>11 DEF Refused, Call, Go, Done
    <2>3. ~Moved([user[u] EXCEPT !.pc = "call"])
      BY <2>1, <1>6, ObjectFacts DEF Moved
    <2>4. QED
      BY <1>3, <1>4, <1>5, <1>6, <1>7, <2>1, <2>2, <2>3, ObjectFacts
  <1>12. CASE WriteBack(u)
    <2> DEFINE c == Refreshed(Obj(u), user[u].answer, user[u].answer.at)
    <2>1. /\ user[u].pc = "answered" /\ user' = [user EXCEPT ![u] = [user[u] EXCEPT !.pc = "save"]] /\ disk' = disk
          /\ objs' = objs \/ objs' = [objs EXCEPT ![user[u].obj] = c]
      BY <1>12 DEF WriteBack, Go, Obj
    <2>2. user[u].answer \in Answers /\ user[u].answer.dom = ""
      BY <1>3, <2>1, ObjectFacts DEF Moved, UserStates
    <2>3. Home(c)
      BY <1>2, <2>1, <2>2, ObjectFacts, RefreshedHome
    <2> HIDE DEF c
    <2>4. Len(objs') = Len(objs) /\ \A o \in 1..Len(objs') : objs'[o] = objs[o] \/ objs'[o] = c
      BY <2>1, ObjectFacts, ExceptSeq
    <2>5. ~Moved([user[u] EXCEPT !.pc = "save"])
      BY <2>1, <1>6, ObjectFacts DEF Moved
    <2>6. QED
      BY <1>3, <1>5, <1>6, <2>1, <2>3, <2>4, <2>5, ObjectFacts
  <1>13. CASE Save(u)
    <2> DEFINE c == Backfilled(Obj(u))
    <2>1. /\ user[u].pc = "save" /\ objs' = [objs EXCEPT ![user[u].obj] = c] /\ SaveAtomic(c)
          /\ \/ user' = [user EXCEPT ![u] = Idle]
             \/ user' = [user EXCEPT ![u] = [user[u] EXCEPT !.pc = "call"]]
      BY <1>13 DEF Save, Go, Done
    <2>2. Home(c) /\ c \in Creds
      BY <1>2, <2>1, ObjectFacts, BackfilledHome, BackfilledGood DEF IInv, Parsed, Good, Obj
    <2> HIDE DEF c
    <2>3. Len(objs') = Len(objs) /\ \A o \in 1..Len(objs') : objs'[o] = objs[o] \/ objs'[o] = c
      BY <2>1, <2>2, ObjectFacts, ExceptSeq
    <2>4. ~Moved([user[u] EXCEPT !.pc = "call"])
      BY <2>1, <1>6, ObjectFacts DEF Moved
    <2>5. disk'.cred = disk.cred \/ disk'.cred = c
      BY <2>1 DEF SaveAtomic
    <2>6. QED
      BY <1>3, <1>4, <1>5, <1>6, <1>7, <2>1, <2>2, <2>3, <2>4, <2>5, ObjectFacts
  <1>14. QED
    BY <1>8, <1>9, <1>10, <1>11, <1>12, <1>13 DEF Use

\* The watcher reads what is at home, and fills in a realm that is at home.
LEMMA WatchAtHome ==
  ASSUME IInv, AtHome, Watch
  PROVE  AtHome'
  <1>1. world' = world /\ user' = user
    BY DEF Watch, Check, Read, Migrate, Sync, Baseline
  <1>2. SUFFICES ASSUME Homely
                 PROVE  /\ Home(disk'.cred) /\ \A o \in 1..Len(objs') : Home(objs'[o])
                        /\ \A c \in Creds : watcher'.read = <<c>> => Home(c)
    BY <1>1 DEF AtHome, Homely, Home, Moved
  <1>3. /\ Home(disk.cred) /\ \A o \in 1..Len(objs) : Home(objs[o])
        /\ \A c \in Creds : watcher.read = <<c>> => Home(c)
    BY <1>2 DEF AtHome
  <1>4. watcher \in Watchers /\ objs \in Seq(Creds) /\ disk.cred \in Creds
    BY DEF IInv, Found, Parsed, Filed, Files
  <1>5. CASE Check \/ Baseline
    <2>1. watcher'.read = watcher.read /\ disk' = disk /\ objs' = objs
      BY <1>4, <1>5 DEF Check, Baseline, Watchers
    <2>2. QED
      BY <1>3, <2>1
  <1>6. CASE Read
    <2>1. watcher'.read \in {<<disk.cred>>, <<>>} /\ disk' = disk /\ objs' = objs
      BY <1>4, <1>6 DEF Read, Watchers
    <2>2. \A c \in Creds : <<c>> # <<>> /\ (<<c>> = <<disk.cred>> => c = disk.cred)
      BY <1>4
    <2>3. QED
      BY <1>3, <2>1, <2>2
  <1>7. CASE Migrate
    <2>1. PICK c \in Creds : watcher.read = <<c>> /\ Good(c, born, now, world)
      BY <1>7 DEF Migrate, Found, IInv
    <2> DEFINE d == Backfilled(c)
    <2>2. watcher' = [watcher EXCEPT !.pc = "sync", !.read = <<d>>] /\ SaveAtomic(d) /\ objs' = objs
      BY <1>7, <2>1 DEF Migrate
    <2>3. Home(d)
      BY <1>3, <2>1, BackfilledHome
    <2>4. d \in Creds
      BY <2>1, BackfilledGood DEF Good
    <2> HIDE DEF d
    <2>5. watcher'.read = <<d>>
      BY <1>4, <2>2 DEF Watchers
    <2>6. disk'.cred = disk.cred \/ disk'.cred = d
      BY <2>2 DEF SaveAtomic
    <2>7. \A e \in Creds : <<e>> = <<d>> => e = d
      BY <2>4
    <2>8. QED
      BY <1>3, <2>2, <2>3, <2>5, <2>6, <2>7
  <1>8. CASE Sync
    <2>1. watcher'.read = <<>> /\ disk' = disk /\ objs' = objs \o watcher.read
      BY <1>4, <1>8 DEF Sync, Watchers
    <2>2. \A c \in Creds : <<c>> # <<>>
      OBVIOUS
    <2>3. \A o \in 1..Len(objs') : Home(objs'[o])
      <3>1. CASE watcher.read = <<>>
        BY <1>3, <1>4, <2>1, <3>1, ConcatEmptySeq
      <3>2. ASSUME NEW c \in Creds, watcher.read = <<c>>
            PROVE  \A o \in 1..Len(objs') : Home(objs'[o])
        <4>1. Home(c)
          BY <1>3, <3>2
        <4>2. \A o \in 1..Len(objs') : (o \in 1..Len(objs) /\ objs'[o] = objs[o]) \/ objs'[o] = c
          BY <1>4, <2>1, <3>2, LenProperties
        <4>3. QED
          BY <1>3, <4>1, <4>2
      <3>3. QED
        BY <3>1, <3>2 DEF IInv, Found
    <2>4. QED
      BY <1>3, <2>1, <2>2, <2>3
  <1>9. QED
    BY <1>5, <1>6, <1>7, <1>8 DEF Watch

Unnamed(r) == r = ""
LEMMA HomelyUnnamed == \A r : Homely /\ r \in world.realms => Unnamed(r)
  BY Zenon DEF Homely, Unnamed

LEMMA OutsideAtHome ==
  ASSUME IInv, AtHome, Login \/ Remove \/ Restart \/ Tick
  PROVE  AtHome'
  <1>1. world' = world
    BY DEF Login, Remove, Restart, Tick
  <1>2. SUFFICES ASSUME Homely
                 PROVE  /\ Home(disk'.cred) /\ \A o \in 1..Len(objs') : Home(objs'[o])
                        /\ \A c \in Creds : watcher'.read = <<c>> => Home(c)
                        /\ \A u \in Users : ~Moved(user'[u])
    BY <1>1 DEF AtHome, Homely, Home, Moved
  <1>3. /\ Home(disk.cred) /\ \A o \in 1..Len(objs) : Home(objs[o])
        /\ \A c \in Creds : watcher.read = <<c>> => Home(c)
        /\ \A u \in Users : ~Moved(user[u])
    BY <1>2 DEF AtHome
  <1>4. CASE Login
    <2>1. PICK r \in world.realms, d \in world.doms :
            disk' = [there |-> TRUE, stamp |-> disk.stamp + 1,
                     cred |-> [at |-> Len(born) + 1, rt |-> Len(born) + 1, exp |-> now + Life,
                               realm |-> r, dom |-> d]]
      BY <1>4 DEF Login
    <2>2. disk'.cred.realm = r
      BY <2>1
    <2>3. Unnamed(disk'.cred.realm)
      BY <1>2, <2>2, HomelyUnnamed
    <2>4. Home(disk'.cred)
      BY <2>3, Zenon DEF Home, Unnamed
    <2>5. QED
      BY <1>3, <1>4, <2>4 DEF Login
  <1>5. CASE Remove
    <2>1. disk \in Files
      BY DEF IInv, Filed
    <2>2. disk'.cred = disk.cred
      BY <1>5, <2>1 DEF Remove, Files
    <2>3. QED
      BY <1>3, <1>5, <2>2 DEF Remove
  <1>6. CASE Restart
    <2>1. ~Moved(Idle)
      BY DEF Moved, Idle
    <2>2. \A c \in Creds : Starting.read # <<c>>
      BY DEF Starting
    <2>3. Len(<<>>) = 0
      OBVIOUS
    <2>4. QED
      BY <1>3, <1>6, <2>1, <2>2, <2>3 DEF Restart
  <1>7. CASE Tick
    <2>1. ASSUME NEW u \in Users PROVE ~Moved(user'[u])
      <3>1. PICK s \in UserStates : s = user[u]
        BY DEF IInv
      <3>2. /\ [s EXCEPT !.age = 1].pc = s.pc /\ [s EXCEPT !.age = 1].answer = s.answer
            /\ user'[u] = s \/ user'[u] = [s EXCEPT !.age = 1]
        BY <1>7, <3>1 DEF Tick, UserStates
      <3>3. QED
        BY <1>3, <3>1, <3>2, ZenonT(40) DEF Moved
    <2>2. QED
      BY <1>3, <1>7, <2>1 DEF Tick
  <1>8. QED
    BY <1>4, <1>5, <1>6, <1>7

LEMMA InitAtHome == Init => AtHome
  <1> SUFFICES ASSUME Init, Homely
               PROVE  /\ Home(disk.cred) /\ \A o \in 1..Len(objs) : Home(objs[o])
                      /\ \A c \in Creds : watcher.read = <<c>> => Home(c)
                      /\ \A u \in Users : ~Moved(user[u])
    BY DEF AtHome
  <1>1. PICK r \in world.realms, d \in world.doms :
          disk = [there |-> TRUE, stamp |-> 1,
                  cred |-> [at |-> 1, rt |-> 1, exp |-> Life, realm |-> r, dom |-> d]]
    BY DEF Init
  <1>2. disk.cred.realm = r
    BY <1>1
  <1>3. Unnamed(disk.cred.realm)
    BY <1>2, HomelyUnnamed
  <1>4. Home(disk.cred)
    BY <1>3, Zenon DEF Home, Unnamed
  <1>5. ~Moved(Idle)
    BY DEF Moved, Idle
  <1>6. \A c \in Creds : Starting.read # <<c>>
    BY DEF Starting
  <1>7. objs = <<>> /\ Len(<<>>) = 0 /\ watcher = Starting /\ \A u \in Users : user[u] = Idle
    BY DEF Init
  <1>8. QED
    BY <1>4, <1>5, <1>6, <1>7

\* BackfillRealm, LoadDir's migration and RefreshToken: accounts that name no realm are filed
\* under their domain's, in the file and in every object, whatever the escape hatch says and
\* however saves, reloads and restarts overlap, as long as no answer names another domain.
THEOREM RealmsFollowDomains == Spec => []RealmFollowsDomain
  <1>1. IInv /\ AtHome /\ [Next]_vars => AtHome'
    <2> SUFFICES ASSUME IInv, AtHome, [Next]_vars PROVE AtHome'
      OBVIOUS
    <2>1. CASE UNCHANGED vars
      BY <2>1 DEF vars, AtHome, Homely, Home, Moved
    <2>2. QED
      BY <2>1, UsersAtHome, WatchAtHome, OutsideAtHome DEF Next
  <1>2. IInv /\ AtHome => RealmFollowsDomain
    <2> SUFFICES ASSUME IInv, AtHome, Homely
                 PROVE  \A c \in {disk.cred} \cup {objs[o] : o \in DOMAIN objs} : Home(c)
      BY Zenon DEF RealmFollowsDomain, Homely, Home
    <2>1. DOMAIN objs = 1..Len(objs)
      BY LenProperties DEF IInv, Parsed
    <2>2. QED
      BY <2>1 DEF AtHome
  <1>3. QED
    BY <1>1, <1>2, InitAtHome, InitIInv, Inductive, PTL DEF Spec
=============================================================================
