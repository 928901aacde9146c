--------------------------- MODULE UpstreamProofs ---------------------------
(***************************************************************************)
(* Theorems about what the gateway knows of upstream's models (Catalog)    *)
(* and about what it asks upstream and hears from it (Conversation).       *)
(*                                                                         *)
(* CATALOG.  All but the type follow from CatalogInv:                      *)
(*   - a model that somebody is looking up, or that was missed, has no     *)
(*     better entry than the document's, so writing the document's over it *)
(*     takes nothing away (InHand);                                        *)
(*   - a file that was saved, or read, is what is in memory (Saved);       *)
(*   - a fresh miss of a model the document has is one the fetch has still *)
(*     to go through (HeldBack).                                           *)
(*                                                                         *)
(* CONVERSATION.  TurnsAreRequests follows from TurnInv: a history is only *)
(* added to, so what the user said stays where it was said (Logged), and a *)
(* request carries the identifier of the last thing said (Asked).          *)
(* RequestFaultsEndHere goes through the rules of Classify: none that      *)
(* stands before the three that end a request takes a fault of it.         *)
(*                                                                         *)
(* CallsHaveResults, WhatIsSaidArrives and FingerprintsStayHere follow     *)
(* from SentInv.  A history is Sound: no call has the identifier of        *)
(* another, no two results are of one call, and a result comes behind its  *)
(* call before anybody says something again.  To know the first of it of   *)
(* the next answer, the calls so far are the first of CallIDs (Numbered);  *)
(* to know the others of the next result, no tool is at work but for the   *)
(* last message with calls (Expects).  A request is as sound as the        *)
(* history and says the same (Carries): prompts take away or put in front  *)
(* what nobody says.  Repacking puts the results of a sound history behind *)
(* their calls (Packs, for each of its prefixes), in blocks (OwnAreABlock) *)
(* that cleaning up makes of one length with the calls (CleanupMeets);     *)
(* the other passes change messages one by one, and nothing of this        *)
(* (Faithful).                                                             *)
(***************************************************************************)
EXTENDS Catalog, Conversation, FiniteSetTheorems, SequenceTheorems, WellFoundedInduction, TLAPS

USE CatalogAssumption

-----------------------------------------------------------------------------
\* Functions from a part of a set.

LEMMA PartialFacts ==
  ASSUME NEW S, NEW T, NEW f
  PROVE  f \in Partial(S, T) <=> DOMAIN f \subseteq S /\ f \in [DOMAIN f -> T]
  BY DEF Partial

LEMMA Added ==
  ASSUME NEW S, NEW T, NEW f \in Partial(S, T), NEW m \in S, NEW v \in T
  PROVE  LET g == With(f, m, v) IN
         /\ g \in Partial(S, T)
         /\ DOMAIN g = {m} \cup DOMAIN f /\ g[m] = v
         /\ \A n \in DOMAIN f \ {m} : g[n] = f[n]
  BY PartialFacts DEF With

LEMMA Joined ==
  ASSUME NEW S, NEW T, NEW f \in Partial(S, T), NEW h \in Partial(S, T)
  PROVE  Merged(h, f) \in Partial(S, T)
  BY PartialFacts DEF Merged

LEMMA Restricted ==
  ASSUME NEW S, NEW T, NEW f \in Partial(S, T), NEW D
  PROVE  LET g == Only(f, D) IN
         /\ g \in Partial(S, T)
         /\ DOMAIN g = DOMAIN f \cap D
         /\ \A n \in DOMAIN g : g[n] = f[n]
  BY PartialFacts DEF Only

LEMMA NothingPartial ==
  ASSUME NEW S, NEW T
  PROVE  Nothing \in Partial(S, T) /\ DOMAIN Nothing = {}
  BY PartialFacts DEF Nothing

LEMMA Wider ==
  ASSUME NEW S, NEW T, NEW U, T \subseteq U, NEW f \in Partial(S, T)
  PROVE  f \in Partial(S, U)
  BY PartialFacts

-----------------------------------------------------------------------------
\* model.json and what is known.

LEMMA KnownTyped ==
  ASSUME TypeOK
  PROVE  FromFile \in Partial(Models, Caps) /\ Loaded \in Partial(Models, Caps)
  <1>1. file.entries \in Partial(Models, Caps \cup {"invalid"})
    BY DEF TypeOK, Files
  <1> DEFINE good == {m \in DOMAIN file.entries : file.entries[m] \in Caps}
  <1>2. Only(file.entries, good) \in Partial(Models, Caps)
    BY <1>1, PartialFacts DEF Only
  <1>3. FromFile \in Partial(Models, Caps)
    BY <1>2 DEF FromFile
  <1>4. QED
    BY <1>3 DEF Loaded, TypeOK

\* A pair is no empty function.
LEMMA PairIsSomething ==
  ASSUME NEW p \in Models \X Fields
  PROVE  p # Nothing
  BY DEF Nothing

-----------------------------------------------------------------------------
\* The invariant.

\* The entry of m is no better than the document's.
Worse(m) ==
  m \in DOMAIN Loaded => Loaded[m] = "context" \/ (m \in DOMAIN Doc /\ Loaded[m] = Doc[m])

InHand ==
  /\ \A l \in Listers : lister[l].at # Nothing => Worse(lister[l].at[1])
  /\ \A l \in Listers : lister[l].pc = "put" => lister[l].at[1] \in DOMAIN Doc
  /\ \A m \in DOMAIN negatives \cup fetcher.missed : Worse(m)

Saved ==
  /\ ~unsaved /\ cat.loaded => FromFile = cat.entries
  /\ unsaved => cat.loaded

HeldBack ==
  /\ fetcher.pc = "fetching" => ~doc
  /\ doc => \A m \in DOMAIN Doc :
       negativeFresh(m)
       => \/ fetcher.pc = "arrived"
          \/ fetcher.pc = "backfill" /\ m \in fetcher.missed \cup fetcher.put

CatalogInv == TypeOK /\ InHand /\ Saved /\ HeldBack /\ ListedStaysKnown

-----------------------------------------------------------------------------
\* Steps.

\* What is kept of a table whose values are all sound is the table.
LEMMA AllKept ==
  ASSUME NEW S, NEW T, NEW f \in Partial(S, T)
  PROVE  Only(f, {m \in DOMAIN f : f[m] \in T}) = f
  <1> DEFINE g == Only(f, {m \in DOMAIN f : f[m] \in T})
  <1>1. f \in [DOMAIN f -> T]
    BY PartialFacts
  <1>2. DOMAIN f \cap {m \in DOMAIN f : f[m] \in T} = DOMAIN f
    BY <1>1
  <1>3. g = [m \in DOMAIN f |-> f[m]]
    BY <1>2 DEF Only
  <1>4. QED
    BY <1>1, <1>3

\* A put adds the document's entry, in memory and, unless the save fails, in the file.
LEMMA PutStep ==
  ASSUME TypeOK, world \in Worlds, NEW m \in DOMAIN Doc, Put(m)
  PROVE  /\ cat' \in [loaded : BOOLEAN, entries : Partial(Models, Caps)] /\ cat'.loaded
         /\ file' \in Files /\ unsaved' \in BOOLEAN
         /\ Loaded' = With(Loaded, m, Doc[m])
         /\ Saved'
  <1> DEFINE entries == With(Loaded, m, Doc[m])
  <1>1. m \in Models /\ Doc[m] \in Caps
    BY PartialFacts
  <1>2. entries \in Partial(Models, Caps)
    BY <1>1, KnownTyped, Added
  <1>3. entries \in Partial(Models, Caps \cup {"invalid"})
    BY <1>2, Wider
  <1>4. cat' = [loaded |-> TRUE, entries |-> entries]
    BY DEF Put
  <1>5. PICK works \in world.disk :
          /\ unsaved' = ~works
          /\ file' = IF works THEN [state |-> "good", entries |-> entries] ELSE file
    BY DEF Put, Written
  <1>6. works \in BOOLEAN
    BY <1>5
  <1>7. unsaved' \in BOOLEAN /\ file' \in Files
    BY <1>3, <1>5, <1>6 DEF TypeOK, Files
  <1>8. Loaded' = entries
    BY <1>4 DEF Loaded
  <1>9. Saved'
    <2>1. CASE works
      <3>1. FromFile' = Only(entries, {n \in DOMAIN entries : entries[n] \in Caps})
        BY <1>5, <2>1 DEF FromFile
      <3>2. FromFile' = entries
        BY <1>2, <3>1, AllKept
      <3>3. QED
        BY <1>4, <1>5, <2>1, <3>2 DEF Saved
    <2>2. CASE ~works
      BY <1>4, <1>5, <2>2 DEF Saved
    <2>3. QED
      BY <2>1, <2>2
  <1>10. QED
    BY <1>2, <1>4, <1>7, <1>8, <1>9

LEMMA FirstIsOne ==
  ASSUME NEW todo \in SUBSET (Models \X Fields), todo # {}
  PROVE  First(todo) \in todo
  <1> DEFINE Is(p) == p[2] = "output" => <<p[1], "context">> \notin todo
  <1>1. PICK q \in todo : TRUE
    OBVIOUS
  <1>2. \E p \in todo : Is(p)
    <2>1. CASE Is(q)
      BY <1>1, <2>1
    <2>2. CASE ~Is(q)
      <3>1. <<q[1], "context">> \in todo /\ Is(<<q[1], "context">>)
        BY <2>2
      <3>2. QED
        BY <3>1
    <2>3. QED
      BY <2>1, <2>2
  <1>3. QED
    BY <1>2 DEF First

\* A directory and its levels are of models.
LEMMA DirectoryTyped ==
  ASSUME NEW r, NEW v3 \in [says : Directories, cli : SUBSET Models],
         NEW enterprise \in [says : Directories, cli : SUBSET Models]
  PROVE  /\ Directory(r, v3, enterprise) \in Directories
         /\ Levels(r, v3, enterprise) \subseteq Models
  <1>1. /\ v3.says \in Partial(Models, Entries) /\ enterprise.says \in Partial(Models, Entries)
        /\ Chat(v3.says) \in Partial(Models, Entries)
        /\ Only(Chat(enterprise.says), enterprise.cli) \in Partial(Models, Entries)
    <2>1. v3.says \in Partial(Models, Entries) /\ enterprise.says \in Partial(Models, Entries)
      BY DEF Directories
    <2>2. \A d \in Partial(Models, Entries) : Chat(d) \in Partial(Models, Entries)
      BY Restricted DEF Chat
    <2>3. QED
      BY <2>1, <2>2, Restricted
  <1>2. Directory(r, v3, enterprise) \in Partial(Models, Entries)
    BY <1>1, Joined DEF Directory
  <1>3. \A d \in Partial(Models, Entries) : WithLevels(d) \subseteq Models
    BY PartialFacts DEF WithLevels
  <1>4. QED
    BY <1>1, <1>2, <1>3 DEF Directories, Levels

\* Who has taken a directory goes on with models.
LEMMA TakeTyped ==
  ASSUME TypeOK, NEW l \in Listers, NEW d \in Directories, Take(l, d)
  PROVE  /\ lister' \in [Listers -> Listings]
         /\ lister'[l].at = Nothing /\ lister'[l].pc \in {"ask", "walk"}
         /\ \A k \in Listers \ {l} : lister'[k] = lister[k]
  <1> DEFINE ids == IF lister[l].call = "infos" THEN lister[l].ids ELSE DOMAIN d
  <1>1. /\ lister \in [Listers -> Listings] /\ lister[l] \in Listings
    BY DEF TypeOK
  <1>2. ids \subseteq Models
    BY <1>1, PartialFacts DEF Directories, Listings
  <1>3. Unknown(ids, d) \subseteq Models \X Fields
    BY <1>2 DEF Unknown
  <1>4. Nothing \in Directories
    BY NothingPartial DEF Directories
  <1> DEFINE next == IF lister[l].call = "names" THEN [Away EXCEPT !.pc = "ask", !.call = "infos", !.ids = ids]
                     ELSE [Away EXCEPT !.pc = "walk", !.call = lister[l].call, !.todo = Unknown(ids, d)]
  <1>5. next \in Listings /\ next.at = Nothing /\ next.pc \in {"ask", "walk"}
    BY <1>1, <1>2, <1>3, <1>4, ZenonT(40) DEF Away, Listings, Calls
  <1>6. lister' = [lister EXCEPT ![l] = next]
    BY DEF Take
  <1>7. QED
    BY <1>1, <1>5, <1>6

-----------------------------------------------------------------------------
\* The state keeps its type.

LEMMA InitInv == Init => CatalogInv
  <1> SUFFICES ASSUME Init PROVE CatalogInv
    OBVIOUS
  <1>1. /\ Nothing \in Directories /\ Nothing \in Partial(Models, Caps)
        /\ Nothing \in Partial(Models, Caps \cup {"invalid"}) /\ Nothing \in Partial(Models, 1..0)
        /\ DOMAIN Nothing = {}
    BY NothingPartial DEF Directories
  <1>2. file \in Files
    <2>1. world \in Worlds /\ file \in {[state |-> "absent", entries |-> Nothing]} \cup world.edits
      BY DEF Init
    <2>2. [state |-> "absent", entries |-> Nothing] \in Files
      BY <1>1 DEF Files
    <2>3. QED
      BY <2>1, <2>2
  <1>3. Away \in Listings /\ Away.at = Nothing /\ Away.pc = "idle"
    BY <1>1 DEF Away, Listings, Calls
  <1>4. TypeOK
    <2>1. /\ world \in Worlds /\ dir \in [Realms -> Directories] /\ cooling \in [Realms -> BOOLEAN]
          /\ efforts \in [Realms -> SUBSET Models]
      BY <1>1 DEF Init, Empty, Calmed, NoLevels
    <2>2. /\ cat \in [loaded : BOOLEAN, entries : Partial(Models, Caps)]
          /\ negatives \in Partial(Models, 1..noted) /\ noted \in Nat /\ dayAgo \in 0..noted
      BY <1>1 DEF Init, Unloaded
    <2>3. /\ fetcher \in [pc : {"idle", "fetching", "arrived", "backfill"},
                          missed : SUBSET Models, put : SUBSET Models]
          /\ {doc, recent, unsaved} \subseteq BOOLEAN
          /\ spent \in [listings : Nat, restarts : Nat] /\ listed \subseteq Models \X Fields
      BY DEF Init, Resting
    <2>4. /\ lister \in [Listers -> Listings]
          /\ \A l \in Listers : lister[l].at = Nothing /\ lister[l].pc = "idle"
      BY <1>3 DEF Init, AllAway
    <2>5. QED
      BY <1>2, <2>1, <2>2, <2>3, <2>4 DEF TypeOK
  <1>5. InHand
    BY <1>1, <1>3 DEF Init, InHand, AllAway, Resting
  <1>6. Saved /\ HeldBack /\ ListedStaysKnown
    BY DEF Init, Saved, HeldBack, ListedStaysKnown, Unloaded, Resting
  <1>7. QED
    BY <1>4, <1>5, <1>6 DEF CatalogInv

\* A listing's steps up to the windows.
LEMMA DirectorySteps ==
  ASSUME TypeOK, NEW l \in Listers,
         List(l) \/ Ask(l) \/ Probe(l) \/ NoteFailure(l) \/ Keep(l) \/ Walked(l)
  PROVE  /\ TypeOK'
         /\ UNCHANGED <<world, catalogue, fetching, listed>>
         /\ \A k \in Listers : lister'[k].at # Nothing => lister'[k] = lister[k]
         /\ \A k \in Listers : lister'[k].pc = "put" => lister'[k] = lister[k]
  <1> USE DEF directories, catalogue, misses, fetching
  <1> DEFINE r == Realm(lister[l].call)
  <1>1. /\ lister \in [Listers -> Listings] /\ lister[l] \in Listings
        /\ r \in Realms /\ dir[r] \in Directories /\ lister[l].got \in Directories
    BY DEF TypeOK, Realm, Realms, Listings
  <1>2. Nothing \in Directories /\ Nothing \in Partial(Models, Entries)
    BY NothingPartial DEF Directories
  <1>3. Away \in Listings /\ Away.at = Nothing /\ Away.pc = "idle"
    BY <1>2 DEF Away, Listings, Calls
  <1>4. ASSUME NEW d \in Directories, Take(l, d)
        PROVE  /\ lister' \in [Listers -> Listings]
               /\ \A k \in Listers :
                    lister'[k].pc \in {"negative", "lookup", "put", "ensure"} <=> lister'[k].at # Nothing
               /\ \A k \in Listers : lister'[k].at # Nothing => lister'[k] = lister[k]
               /\ \A k \in Listers : lister'[k].pc = "put" => lister'[k] = lister[k]
    BY <1>4, TakeTyped DEF TypeOK
  <1>5. CASE List(l)
    <2>1. /\ lister' = [lister EXCEPT ![l] = [Away EXCEPT !.pc = "ask"]]
          /\ spent' = [spent EXCEPT !.listings = spent.listings + 1]
          /\ UNCHANGED <<world, directories, catalogue, fetching, listed>>
      BY <1>5 DEF List
    <2>2. [Away EXCEPT !.pc = "ask"] \in Listings /\ [Away EXCEPT !.pc = "ask"].at = Nothing
          /\ [Away EXCEPT !.pc = "ask"].pc = "ask"
      BY <1>2 DEF Away, Listings, Calls
    <2>3. spent' \in [listings : Nat, restarts : Nat]
      BY <2>1 DEF TypeOK
    <2>4. QED
      BY <1>1, <2>1, <2>2, <2>3 DEF TypeOK
  <1>6. CASE Ask(l)
    <2>1. CASE \E d \in Directories : Take(l, d)
      BY <1>4, <1>6, <2>1 DEF Ask, TypeOK
    <2>2. CASE To(l, "probe") /\ lister[l].pc = "ask"
      <3>1. lister' = [lister EXCEPT ![l].pc = "probe"]
        BY <2>2 DEF To
      <3>2. lister' \in [Listers -> Listings] /\ lister[l].at = Nothing
        BY <1>1, <2>2, <3>1 DEF Listings, TypeOK
      <3>3. /\ lister'[l].at = Nothing /\ lister'[l].pc = "probe"
            /\ \A k \in Listers \ {l} : lister'[k] = lister[k]
        BY <1>1, <3>1, <3>2 DEF Listings
      <3>4. QED
        BY <1>6, <3>2, <3>3, SMTT(30) DEF Ask, TypeOK
    <2>3. QED
      BY <1>1, <1>2, <1>6, <2>1, <2>2 DEF Ask
  <1>7. CASE Probe(l)
    <2>1. PICK v3 \in world.answers, enterprise \in world.answers :
            /\ lister' = [lister EXCEPT ![l].pc = "keep", ![l].got = Directory(r, v3, enterprise)]
            /\ LET new == Levels(r, v3, enterprise)
               IN efforts' = IF new = {} THEN efforts ELSE [efforts EXCEPT ![r] = new]
      BY <1>7 DEF Probe
    <2>2. Directory(r, v3, enterprise) \in Directories /\ Levels(r, v3, enterprise) \subseteq Models
      BY DirectoryTyped DEF TypeOK
    <2>3. efforts' \in [Realms -> SUBSET Models]
      BY <1>1, <2>1, <2>2 DEF TypeOK
    <2>4. lister[l].pc = "probe" /\ lister[l].at = Nothing
      BY <1>7 DEF Probe, TypeOK
    <2>5. /\ lister' \in [Listers -> Listings]
          /\ lister'[l].at = Nothing /\ lister'[l].pc = "keep"
          /\ \A k \in Listers \ {l} : lister'[k] = lister[k]
      BY <1>1, <2>1, <2>2, <2>4 DEF Listings
    <2>6. UNCHANGED <<world, dir, cooling, catalogue, fetching, spent, listed>>
      BY <1>7 DEF Probe
    <2>7. QED
      BY <2>3, <2>5, <2>6, SMTT(30) DEF TypeOK
  <1>8. CASE NoteFailure(l)
    <2>1. /\ dir' \in [Realms -> Directories] /\ cooling' \in [Realms -> BOOLEAN]
      BY <1>1, <1>2, <1>8 DEF NoteFailure, TypeOK
    <2>2. QED
      BY <1>2, <1>4, <1>8, <2>1 DEF NoteFailure, TypeOK
  <1>9. CASE Keep(l)
    <2>1. /\ dir' \in [Realms -> Directories] /\ cooling' \in [Realms -> BOOLEAN]
      BY <1>1, <1>2, <1>9 DEF Keep, TypeOK
    <2>2. QED
      BY <1>1, <1>4, <1>9, <2>1 DEF Keep, TypeOK
  <1>10. CASE Walked(l)
    <2> DEFINE next == IF lister[l].call = "list" THEN [Away EXCEPT !.pc = "ask", !.call = "names"] ELSE Away
    <2>1. lister' = [lister EXCEPT ![l] = next]
      BY <1>10 DEF Walked
    <2>2. next \in Listings /\ next.at = Nothing /\ next.pc \in {"idle", "ask"}
      BY <1>2 DEF Away, Listings, Calls
    <2>3. QED
      BY <1>1, <1>10, <2>1, <2>2 DEF Walked, TypeOK
  <1>11. QED
    BY <1>5, <1>6, <1>7, <1>8, <1>9, <1>10

-----------------------------------------------------------------------------
\* What is known only grows.

LEMMA SameKnown ==
  ASSUME Loaded' = Loaded
  PROVE  /\ \A m : Worse(m) => Worse(m)'
         /\ \A p : Has(Loaded, p[1], p[2]) => Has(Loaded', p[1], p[2])
  BY DEF Worse

LEMMA MoreKnown ==
  ASSUME TypeOK, NEW n \in DOMAIN Doc, Worse(n), Loaded' = With(Loaded, n, Doc[n])
  PROVE  /\ \A m : Worse(m) => Worse(m)'
         /\ \A p : Has(Loaded, p[1], p[2]) => Has(Loaded', p[1], p[2])
         /\ \A f : Has(Doc, n, f) => Has(Loaded', n, f)
  <1>1. n \in Models /\ Doc[n] \in Caps /\ Loaded \in Partial(Models, Caps)
    BY PartialFacts, KnownTyped
  <1>2. /\ DOMAIN Loaded' = {n} \cup DOMAIN Loaded /\ Loaded'[n] = Doc[n]
        /\ \A m \in DOMAIN Loaded \ {n} : Loaded'[m] = Loaded[m]
    BY DEF With
  <1>3. ASSUME NEW m, Worse(m) PROVE Worse(m)'
    BY <1>2, <1>3 DEF Worse
  <1>4. ASSUME NEW p, Has(Loaded, p[1], p[2]) PROVE Has(Loaded', p[1], p[2])
    BY <1>2, <1>4 DEF Has, Worse
  <1>5. ASSUME NEW f, Has(Doc, n, f) PROVE Has(Loaded', n, f)
    BY <1>2, <1>5 DEF Has
  <1>6. QED
    BY <1>3, <1>4, <1>5

\* What is about to be read from the file is what the file has.
LEMMA ReadIn ==
  ASSUME TypeOK, Saved, cat' = [loaded |-> TRUE, entries |-> Loaded], UNCHANGED <<file, unsaved>>
  PROVE  /\ cat' \in [loaded : BOOLEAN, entries : Partial(Models, Caps)]
         /\ Loaded' = Loaded /\ Saved'
  BY KnownTyped DEF Saved, Loaded, FromFile

LEMMA AnswerStep ==
  ASSUME TypeOK, NEW l \in Listers, NEW p \in Models \X Fields, NEW real \in BOOLEAN,
         Settled(l, p, real)
  PROVE  /\ lister' \in [Listers -> Listings]
         /\ lister'[l].at = Nothing /\ lister'[l].pc = "walk"
         /\ \A k \in Listers \ {l} : lister'[k] = lister[k]
         /\ listed' \subseteq Models \X Fields
         /\ listed' = IF real THEN listed \cup {p} ELSE listed
  <1>1. lister \in [Listers -> Listings] /\ lister[l] \in Listings 
    BY DEF TypeOK
  <1>2. lister' = [lister EXCEPT ![l].pc = "walk", ![l].at = Nothing, ![l].todo = lister[l].todo \ {p}]
    BY DEF Settled
  <1>3. /\ lister'[l].at = Nothing /\ lister'[l].pc = "walk"
        /\ \A k \in Listers \ {l} : lister'[k] = lister[k]
    BY <1>1, <1>2 DEF Listings
  <1>4. lister' \in [Listers -> Listings]
    <2>1. [lister[l] EXCEPT !.pc = "walk", !.at = Nothing, !.todo = lister[l].todo \ {p}] \in Listings
      BY <1>1 DEF Listings
    <2>2. lister' = [lister EXCEPT ![l] =
            [lister[l] EXCEPT !.pc = "walk", !.at = Nothing, !.todo = lister[l].todo \ {p}]]
      BY <1>1, <1>2 DEF Listings
    <2>3. QED
      BY <1>1, <2>1, <2>2
  <1>5. QED
    BY <1>3, <1>4 DEF Settled, TypeOK

-----------------------------------------------------------------------------
\* The invariant is kept by every action.

LEMMA BeforeWindows ==
  ASSUME CatalogInv, NEW l \in Listers,
         List(l) \/ Ask(l) \/ Probe(l) \/ NoteFailure(l) \/ Keep(l) \/ Walked(l)
  PROVE  CatalogInv'
  <1> USE DEF CatalogInv
  <1>1. /\ TypeOK'
        /\ UNCHANGED <<world, cat, file, unsaved, negatives, noted, dayAgo, doc, fetcher, listed>>
        /\ \A k \in Listers : lister'[k].at # Nothing => lister'[k] = lister[k]
        /\ \A k \in Listers : lister'[k].pc = "put" => lister'[k] = lister[k]
    BY DirectorySteps DEF catalogue, misses, fetching
  <1>2. Loaded' = Loaded /\ FromFile' = FromFile
    BY <1>1 DEF Loaded, FromFile
  <1>3. InHand'
    BY <1>1, <1>2, SameKnown DEF InHand
  <1>4. Saved' /\ HeldBack' /\ ListedStaysKnown'
    BY <1>1, <1>2 DEF Saved, HeldBack, negativeFresh, ListedStaysKnown
  <1>5. QED
    BY <1>1, <1>3, <1>4

LEMMA AskCatalogue ==
  ASSUME CatalogInv, NEW l \in Listers, ReadCatalogue(l)
  PROVE  CatalogInv'
  <1> USE DEF CatalogInv
  <1> DEFINE p == First(lister[l].todo)
  <1>1. /\ lister \in [Listers -> Listings] /\ lister[l] \in Listings
        /\ lister[l].todo # {} /\ lister[l].pc = "walk"
        /\ cat' = [loaded |-> TRUE, entries |-> Loaded]
        /\ UNCHANGED <<world, dir, cooling, efforts, file, unsaved, negatives, noted, dayAgo,
                       doc, fetcher, recent, spent>>
    BY DEF ReadCatalogue, TypeOK, directories, misses, fetching
  <1>2. p \in Models \X Fields /\ p # Nothing
    BY <1>1, FirstIsOne, PairIsSomething DEF Listings
  <1>3. /\ cat' \in [loaded : BOOLEAN, entries : Partial(Models, Caps)]
        /\ Loaded' = Loaded /\ Saved'
    BY <1>1, ReadIn
  <1>4. HeldBack'
    BY <1>1 DEF HeldBack, negativeFresh
  <1>5. CASE Has(Loaded, p[1], p[2])
    <2>1. Settled(l, p, TRUE)
      BY <1>5 DEF ReadCatalogue
    <2>2. /\ lister' \in [Listers -> Listings]
          /\ lister'[l].at = Nothing /\ lister'[l].pc = "walk"
          /\ \A k \in Listers \ {l} : lister'[k] = lister[k]
          /\ listed' \subseteq Models \X Fields /\ listed' = listed \cup {p}
      BY <1>2, <2>1, AnswerStep
    <2>3. TypeOK'
      BY <1>1, <1>3, <2>2 DEF TypeOK
    <2>4. InHand'
      BY <1>1, <1>3, <2>2, SameKnown DEF InHand
    <2>5. ListedStaysKnown'
      BY <1>3, <1>5, <2>2 DEF ListedStaysKnown
    <2>6. QED
      BY <1>3, <1>4, <2>3, <2>4, <2>5
  <1>6. CASE ~Has(Loaded, p[1], p[2])
    <2>1. lister' = [lister EXCEPT ![l].pc = "negative", ![l].at = p] /\ listed' = listed
      BY <1>6 DEF ReadCatalogue
    <2>2. /\ lister' \in [Listers -> Listings]
          /\ lister'[l].at = p /\ lister'[l].pc = "negative"
          /\ \A k \in Listers \ {l} : lister'[k] = lister[k]
      BY <1>1, <1>2, <2>1 DEF Listings
    <2>3. TypeOK'
      BY <1>1, <1>2, <1>3, <2>1, <2>2 DEF TypeOK
    <2>4. Worse(p[1])
      BY <1>2, <1>6, KnownTyped, PartialFacts DEF Has, Worse, Caps, Fields
    <2>5. InHand'
      BY <1>1, <1>3, <2>2, <2>4, SameKnown DEF InHand
    <2>6. ListedStaysKnown'
      BY <1>3, <2>1 DEF ListedStaysKnown
    <2>7. QED
      BY <1>3, <1>4, <2>3, <2>5, <2>6
  <1>7. QED
    BY <1>5, <1>6

LEMMA AskNegatives ==
  ASSUME CatalogInv, NEW l \in Listers, CheckNegative(l)
  PROVE  CatalogInv'
  <1> USE DEF CatalogInv
  <1>1. /\ lister \in [Listers -> Listings] /\ lister[l] \in Listings /\ lister[l].pc = "negative"
        /\ lister[l].at \in Models \X Fields
        /\ UNCHANGED <<world, dir, cooling, efforts, cat, file, unsaved, negatives, noted, dayAgo,
                       doc, fetcher, recent, spent>>
    BY DEF CheckNegative, TypeOK, Listings, directories, catalogue, misses, fetching
  <1>2. Loaded' = Loaded /\ FromFile' = FromFile
    BY <1>1 DEF Loaded, FromFile
  <1>3. /\ lister' \in [Listers -> Listings] /\ listed' = listed
        /\ \/ lister'[l].at = Nothing /\ lister'[l].pc = "walk"
           \/ lister'[l].at = lister[l].at /\ lister'[l].pc = "lookup"
        /\ \A k \in Listers \ {l} : lister'[k] = lister[k]
    <2>1. CASE Settled(l, lister[l].at, FALSE)
      BY <1>1, <2>1, AnswerStep
    <2>2. CASE To(l, "lookup") /\ listed' = listed
      BY <1>1, <2>2 DEF To, Listings
    <2>3. QED
      BY <2>1, <2>2 DEF CheckNegative
  <1>4. TypeOK'
    BY <1>1, <1>3 DEF TypeOK
  <1>5. InHand'
    BY <1>1, <1>2, <1>3, SameKnown DEF InHand
  <1>6. Saved' /\ HeldBack' /\ ListedStaysKnown'
    BY <1>1, <1>2, <1>3 DEF Saved, HeldBack, negativeFresh, ListedStaysKnown
  <1>7. QED
    BY <1>4, <1>5, <1>6

\* A miss adds its model, with the latest number, and may drop others.
LEMMA MissNoted ==
  ASSUME TypeOK, NEW m \in Models, NoteMiss(m)
  PROVE  /\ negatives' \in Partial(Models, 1..noted') /\ noted' \in Nat /\ dayAgo' \in 0..noted'
         /\ DOMAIN negatives' \subseteq DOMAIN negatives \cup {m}
         /\ \A n \in DOMAIN negatives' \ {m} : negatives'[n] = negatives[n]
         /\ dayAgo' = dayAgo
  <1>1. noted' \in Nat /\ noted <= noted' /\ dayAgo' = dayAgo
    BY DEF NoteMiss, TypeOK
  <1> DEFINE T == 1..noted'
  <1> DEFINE new == Missed(m)
  <1>2. /\ new \in Partial(Models, T)
        /\ DOMAIN new = DOMAIN negatives \cup {m}
        /\ \A n \in DOMAIN new \ {m} : new[n] = negatives[n]
    <2>1. negatives \in Partial(Models, 1..noted) /\ 1..noted \subseteq T
      BY <1>1 DEF TypeOK
    <2>2. negatives \in Partial(Models, T)
      BY <2>1, Wider
    <2>3. CASE m \in DOMAIN negatives
      BY <2>2, <2>3 DEF Missed
    <2>4. CASE m \notin DOMAIN negatives
      <3>1. noted + 1 \in T /\ new = With(negatives, m, noted + 1)
        BY <2>4 DEF Missed, NoteMiss, TypeOK
      <3> HIDE DEF T
      <3>2. QED
        BY <2>2, <2>4, <3>1, PartialFacts DEF With
    <2>5. QED
      BY <2>3, <2>4
  <1> DEFINE fresh == {n \in DOMAIN new : new[n] > dayAgo}
  <1> DEFINE young == Young(new)
  <1>3. /\ young \in Partial(Models, T) /\ DOMAIN young \subseteq DOMAIN new
        /\ \A n \in DOMAIN young : young[n] = new[n]
    <2>1. young = Only(new, fresh) \/ young = new
      BY DEF Young
    <2> HIDE DEF new, young, fresh, T
    <2>2. QED
      BY <1>2, <2>1, PartialFacts DEF Only
  <1> DEFINE newest == {k \in DOMAIN young : Cardinality({n \in DOMAIN young : young[n] > young[k]}) < SoftCap}
  <1>4. /\ Newest(young) \in Partial(Models, T) /\ DOMAIN Newest(young) \subseteq DOMAIN young
        /\ \A n \in DOMAIN Newest(young) : Newest(young)[n] = young[n]
    <2>1. Newest(young) = Only(young, newest) \/ Newest(young) = young
      BY DEF Newest
    <2> HIDE DEF young, newest, T
    <2>2. QED
      BY <1>3, <2>1, PartialFacts DEF Only
  <1>5. negatives' = Newest(young)
    BY DEF NoteMiss
  <1>6. QED
    <2> HIDE DEF young, new
    <2>1. QED
      BY <1>1, <1>2, <1>3, <1>4, <1>5 DEF TypeOK

LEMMA AskDocument ==
  ASSUME CatalogInv, NEW l \in Listers, Lookup(l)
  PROVE  CatalogInv'
  <1> USE DEF CatalogInv
  <1> DEFINE m == lister[l].at[1]
  <1>1. /\ lister \in [Listers -> Listings] /\ lister[l] \in Listings /\ lister[l].pc = "lookup"
        /\ lister[l].at \in Models \X Fields /\ lister[l].at # Nothing /\ m \in Models /\ Worse(m)
        /\ UNCHANGED <<world, dir, cooling, efforts, cat, file, unsaved, doc, fetcher, recent,
                       spent, listed>>
    BY DEF Lookup, TypeOK, Listings, InHand, directories, catalogue
  <1>2. Loaded' = Loaded /\ FromFile' = FromFile
    BY <1>1 DEF Loaded, FromFile
  <1>3. ASSUME NEW pc \in {"put", "ensure"}, To(l, pc)
        PROVE  /\ lister' \in [Listers -> Listings]
               /\ lister'[l].at = lister[l].at /\ lister'[l].pc = pc
               /\ \A k \in Listers \ {l} : lister'[k] = lister[k]
    BY <1>1, <1>3 DEF To, Listings
  <1>4. Saved' /\ ListedStaysKnown'
    BY <1>1, <1>2 DEF Saved, ListedStaysKnown
  <1>5. CASE doc /\ m \in DOMAIN Doc
    <2>1. To(l, "put") /\ UNCHANGED <<negatives, noted, dayAgo>>
      BY <1>5 DEF Lookup, misses
    <2>2. TypeOK'
      BY <1>1, <1>3, <2>1 DEF TypeOK
    <2>3. InHand'
      BY <1>1, <1>2, <1>3, <1>5, <2>1, SameKnown DEF InHand
    <2>4. HeldBack'
      BY <1>1, <2>1 DEF HeldBack, negativeFresh
    <2>5. QED
      BY <1>4, <2>2, <2>3, <2>4
  <1>6. CASE ~(doc /\ m \in DOMAIN Doc)
    <2>1. To(l, "ensure") /\ NoteMiss(m)
      BY <1>6 DEF Lookup
    <2>2. /\ negatives' \in Partial(Models, 1..noted') /\ noted' \in Nat /\ dayAgo' \in 0..noted'
          /\ DOMAIN negatives' \subseteq DOMAIN negatives \cup {m}
          /\ \A n \in DOMAIN negatives' \ {m} : negatives'[n] = negatives[n]
          /\ dayAgo' = dayAgo
      BY <1>1, <2>1, MissNoted
    <2>3. TypeOK'
      BY <1>1, <1>3, <2>1, <2>2 DEF TypeOK
    <2>4. InHand'
      BY <1>1, <1>2, <1>3, <2>1, <2>2, SameKnown DEF InHand
    <2>5. HeldBack'
      BY <1>1, <1>6, <2>2 DEF HeldBack, negativeFresh
    <2>6. QED
      BY <1>4, <2>3, <2>4, <2>5
  <1>7. QED
    BY <1>5, <1>6

LEMMA PutAnswer ==
  ASSUME CatalogInv, NEW l \in Listers, PutFound(l)
  PROVE  CatalogInv'
  <1> USE DEF CatalogInv
  <1> DEFINE p == lister[l].at
  <1> DEFINE real == Has(Doc, p[1], p[2])
  <1>1. /\ lister \in [Listers -> Listings] /\ lister[l] \in Listings /\ lister[l].pc = "put"
        /\ p \in Models \X Fields /\ p[1] \in DOMAIN Doc /\ Worse(p[1])
        /\ Put(p[1]) /\ Settled(l, p, real) /\ real \in BOOLEAN
        /\ UNCHANGED <<world, dir, cooling, efforts, negatives, noted, dayAgo, doc, fetcher, recent, spent>>
    BY DEF PutFound, TypeOK, Listings, InHand, directories, misses, fetching, Has
  <1>2. /\ cat' \in [loaded : BOOLEAN, entries : Partial(Models, Caps)]
        /\ file' \in Files /\ unsaved' \in BOOLEAN
        /\ Loaded' = With(Loaded, p[1], Doc[p[1]]) /\ Saved'
    BY <1>1, PutStep DEF TypeOK
  <1>3. /\ \A m : Worse(m) => Worse(m)'
        /\ \A q : Has(Loaded, q[1], q[2]) => Has(Loaded', q[1], q[2])
        /\ real => Has(Loaded', p[1], p[2])
    BY <1>1, <1>2, MoreKnown
  <1>4. /\ lister' \in [Listers -> Listings]
        /\ lister'[l].at = Nothing /\ lister'[l].pc = "walk"
        /\ \A k \in Listers \ {l} : lister'[k] = lister[k]
        /\ listed' \subseteq Models \X Fields
        /\ listed' = IF real THEN listed \cup {p} ELSE listed
    <2> HIDE DEF real, p
    <2>1. QED
      BY <1>1, AnswerStep
  <1>5. TypeOK'
    BY <1>1, <1>2, <1>4 DEF TypeOK
  <1>6. InHand'
    BY <1>1, <1>3, <1>4 DEF InHand
  <1>7. HeldBack'
    BY <1>1 DEF HeldBack, negativeFresh
  <1>8. ListedStaysKnown'
    <2> HIDE DEF real
    <2>1. QED
      BY <1>3, <1>4 DEF ListedStaysKnown
  <1>9. QED
    BY <1>2, <1>5, <1>6, <1>7, <1>8

LEMMA BeginFetch ==
  ASSUME CatalogInv, NEW l \in Listers, ensureDocAsync(l)
  PROVE  CatalogInv'
  <1> USE DEF CatalogInv
  <1>1. /\ lister \in [Listers -> Listings] /\ lister[l] \in Listings /\ lister[l].pc = "ensure"
        /\ lister[l].at \in Models \X Fields
        /\ Settled(l, lister[l].at, FALSE)
        /\ UNCHANGED <<world, dir, cooling, efforts, cat, file, unsaved, negatives, noted, dayAgo,
                       doc, spent>>
        /\ IF doc \/ recent THEN UNCHANGED <<fetcher, recent>>
           ELSE fetcher' = [fetcher EXCEPT !.pc = "fetching"] /\ recent' = TRUE
    BY DEF ensureDocAsync, TypeOK, Listings, directories, catalogue, misses
  <1>2. Loaded' = Loaded /\ FromFile' = FromFile
    BY <1>1 DEF Loaded, FromFile
  <1>3. /\ lister' \in [Listers -> Listings] /\ listed' = listed
        /\ lister'[l].at = Nothing /\ lister'[l].pc = "walk"
        /\ \A k \in Listers \ {l} : lister'[k] = lister[k]
    BY <1>1, AnswerStep
  <1>4. /\ fetcher' \in [pc : {"idle", "fetching", "arrived", "backfill"},
                         missed : SUBSET Models, put : SUBSET Models]
        /\ recent' \in BOOLEAN /\ fetcher'.missed = fetcher.missed
        /\ fetcher' = fetcher \/ (fetcher'.pc = "fetching" /\ ~doc)
    <2>1. CASE doc \/ recent
      BY <1>1, <2>1 DEF TypeOK
    <2>2. CASE ~doc /\ ~recent
      <3>1. fetcher' = [fetcher EXCEPT !.pc = "fetching"] /\ recent' = TRUE
        BY <1>1, <2>2
      <3>2. QED
        BY <2>2, <3>1 DEF TypeOK
    <2>3. QED
      BY <2>1, <2>2 DEF TypeOK
  <1>5. TypeOK'
    BY <1>1, <1>3, <1>4 DEF TypeOK
  <1>6. InHand'
    BY <1>1, <1>2, <1>3, <1>4, SameKnown DEF InHand
  <1>7. Saved' /\ HeldBack' /\ ListedStaysKnown'
    BY <1>1, <1>2, <1>3, <1>4 DEF Saved, HeldBack, negativeFresh, ListedStaysKnown
  <1>8. QED
    BY <1>5, <1>6, <1>7

\* The goroutine that fetches the document.
LEMMA FetchSteps ==
  ASSUME CatalogInv, FetchFails \/ DocArrives \/ CopyMisses \/ BackfillForget \/ BackfillEnds
  PROVE  CatalogInv'
  <1> USE DEF CatalogInv
  <1>1. UNCHANGED <<world, dir, cooling, efforts, cat, file, unsaved, noted, dayAgo, recent,
                    lister, spent, listed>>
    BY DEF FetchFails, DocArrives, CopyMisses, BackfillForget, BackfillEnds, directories, catalogue, misses
  <1>2. Loaded' = Loaded /\ FromFile' = FromFile
    BY <1>1 DEF Loaded, FromFile
  <1>3. Saved' /\ ListedStaysKnown'
    BY <1>1, <1>2 DEF Saved, ListedStaysKnown
  <1>4. DOMAIN negatives \subseteq Models /\ fetcher.put \subseteq Models /\ fetcher.missed \subseteq Models
    BY PartialFacts DEF TypeOK
  <1>5. SUFFICES TypeOK' /\ InHand' /\ HeldBack'
    BY <1>3
  <1>6. CASE FetchFails
    <2>1. /\ fetcher.pc = "fetching" /\ ~doc /\ fetcher' = Resting /\ UNCHANGED <<doc, negatives>>
      BY <1>6 DEF FetchFails, misses, HeldBack
    <2>2. TypeOK'
      BY <1>1, <2>1 DEF TypeOK, Resting
    <2>3. InHand' /\ HeldBack'
      BY <1>1, <1>2, <2>1, SameKnown DEF InHand, HeldBack, Resting
    <2>4. QED
      BY <2>2, <2>3
  <1>7. CASE DocArrives
    <2>1. /\ fetcher' = [fetcher EXCEPT !.pc = "arrived"] /\ doc' = TRUE /\ UNCHANGED negatives
      BY <1>7 DEF DocArrives, misses
    <2>2. TypeOK'
      BY <1>1, <2>1 DEF TypeOK
    <2>3. fetcher'.missed = fetcher.missed /\ fetcher'.pc = "arrived"
      BY <2>1 DEF TypeOK
    <2>4. InHand' /\ HeldBack'
      BY <1>1, <1>2, <2>1, <2>3, SameKnown DEF InHand, HeldBack
    <2>5. QED
      BY <2>2, <2>4
  <1>8. CASE CopyMisses
    <2>1. /\ fetcher' = [pc |-> "backfill", missed |-> DOMAIN negatives, put |-> {}]
          /\ UNCHANGED <<doc, negatives>>
      BY <1>8 DEF CopyMisses, misses
    <2>2. TypeOK'
      BY <1>1, <1>4, <2>1 DEF TypeOK
    <2>3. InHand' /\ HeldBack'
      BY <1>1, <1>2, <2>1, SameKnown DEF InHand, HeldBack, negativeFresh
    <2>4. QED
      BY <2>2, <2>3
  <1>9. CASE BackfillForget
    <2>1. /\ fetcher.pc = "backfill" /\ fetcher' = [fetcher EXCEPT !.put = {}] /\ UNCHANGED doc
          /\ negatives' = Only(negatives, DOMAIN negatives \ fetcher.put)
      BY <1>9 DEF BackfillForget
    <2>2. /\ negatives' \in Partial(Models, 1..noted)
          /\ DOMAIN negatives' = DOMAIN negatives \ fetcher.put
          /\ \A n \in DOMAIN negatives' : negatives'[n] = negatives[n]
      BY <2>1, PartialFacts, SMTT(30) DEF Only, TypeOK
    <2>3. TypeOK'
      BY <1>1, <2>1, <2>2 DEF TypeOK
    <2>4. fetcher'.missed = fetcher.missed /\ fetcher'.pc = "backfill" /\ fetcher'.put = {}
      BY <2>1 DEF TypeOK
    <2>5. InHand' /\ HeldBack'
      BY <1>1, <1>2, <2>1, <2>2, <2>4, SameKnown DEF InHand, HeldBack, negativeFresh
    <2>6. QED
      BY <2>3, <2>5
  <1>10. CASE BackfillEnds
    <2>1. /\ fetcher.pc = "backfill" /\ fetcher.put = {} /\ fetcher.missed \cap DOMAIN Doc = {}
          /\ fetcher' = Resting /\ UNCHANGED <<doc, negatives>>
      BY <1>10 DEF BackfillEnds, misses
    <2>2. TypeOK'
      BY <1>1, <2>1 DEF TypeOK, Resting
    <2>3. InHand' /\ HeldBack'
      BY <1>1, <1>2, <2>1, SameKnown DEF InHand, HeldBack, negativeFresh, Resting
    <2>4. QED
      BY <2>2, <2>3
  <1>11. QED
    BY <1>6, <1>7, <1>8, <1>9, <1>10

LEMMA BackfillOne ==
  ASSUME CatalogInv, BackfillPut
  PROVE  CatalogInv'
  <1> USE DEF CatalogInv
  <1>1. /\ fetcher.pc = "backfill" /\ fetcher.put = {}
        /\ UNCHANGED <<world, dir, cooling, efforts, negatives, noted, dayAgo, doc, recent, lister,
                       spent, listed>>
    BY DEF BackfillPut, directories, misses
  <1>2. PICK m \in fetcher.missed \cap DOMAIN Doc :
          Put(m) /\ fetcher' = [fetcher EXCEPT !.missed = fetcher.missed \ {m}, !.put = {m}]
    BY DEF BackfillPut
  <1>3. m \in DOMAIN Doc /\ m \in Models /\ Worse(m)
    BY <1>2, PartialFacts DEF InHand
  <1>4. /\ cat' \in [loaded : BOOLEAN, entries : Partial(Models, Caps)]
        /\ file' \in Files /\ unsaved' \in BOOLEAN
        /\ Loaded' = With(Loaded, m, Doc[m]) /\ Saved'
    BY <1>2, <1>3, PutStep DEF TypeOK
  <1>5. /\ \A n : Worse(n) => Worse(n)'
        /\ \A p : Has(Loaded, p[1], p[2]) => Has(Loaded', p[1], p[2])
    BY <1>3, <1>4, MoreKnown
  <1>6. /\ fetcher' \in [pc : {"idle", "fetching", "arrived", "backfill"},
                         missed : SUBSET Models, put : SUBSET Models]
        /\ fetcher'.pc = "backfill" /\ fetcher'.missed = fetcher.missed \ {m} /\ fetcher'.put = {m}
    BY <1>1, <1>2, <1>3 DEF TypeOK
  <1>7. TypeOK'
    BY <1>1, <1>4, <1>6 DEF TypeOK
  <1>8. InHand' /\ HeldBack' /\ ListedStaysKnown'
    BY <1>1, <1>5, <1>6 DEF InHand, HeldBack, negativeFresh, ListedStaysKnown
  <1>9. QED
    BY <1>4, <1>7, <1>8

LEMMA TimeGoesBy ==
  ASSUME CatalogInv, TimePasses
  PROVE  CatalogInv'
  <1> USE DEF CatalogInv
  <1>1. UNCHANGED <<world, efforts, cat, file, unsaved, negatives, noted, doc, fetcher, lister,
                    spent, listed>>
    BY DEF TimePasses, catalogue
  <1>2. Loaded' = Loaded /\ FromFile' = FromFile
    BY <1>1 DEF Loaded, FromFile
  <1>3. dayAgo' \in 0..noted /\ dayAgo' >= dayAgo
    <2>1. ASSUME NEW m \in DOMAIN negatives, negatives[m] > dayAgo, dayAgo' = negatives[m]
          PROVE  dayAgo' \in 0..noted /\ dayAgo' >= dayAgo
      <3>1. negatives[m] \in 1..noted
        BY PartialFacts DEF TypeOK
      <3>2. QED
        BY <2>1, <3>1 DEF TypeOK
    <2>2. dayAgo' = dayAgo => dayAgo' \in 0..noted /\ dayAgo' >= dayAgo
      BY DEF TypeOK
    <2>3. QED
      BY <2>1, <2>2 DEF TimePasses
  <1>4. /\ dir' \in [Realms -> Directories] /\ cooling' \in [Realms -> BOOLEAN] /\ recent' \in BOOLEAN
    <2>1. Nothing \in Directories
      BY NothingPartial DEF Directories
    <2>2. /\ dir' = dir \/ \E r \in Realms : dir' = [dir EXCEPT ![r] = Nothing]
          /\ cooling' = cooling \/ \E r \in Realms : cooling' = [cooling EXCEPT ![r] = FALSE]
          /\ recent' \in {recent, FALSE}
      BY DEF TimePasses
    <2>3. dir' \in [Realms -> Directories]
      BY <2>1, <2>2 DEF TypeOK
    <2>4. cooling' \in [Realms -> BOOLEAN]
      BY <2>2 DEF TypeOK
    <2>5. recent' \in BOOLEAN
      BY <2>2 DEF TypeOK
    <2>6. QED
      BY <2>3, <2>4, <2>5
  <1>5. TypeOK'
    BY <1>1, <1>3, <1>4 DEF TypeOK
  <1>6. \A m : negativeFresh(m)' => negativeFresh(m)
    <2>1. SUFFICES ASSUME NEW m, negativeFresh(m)' PROVE negativeFresh(m)
      OBVIOUS
    <2>2. m \in DOMAIN negatives /\ negatives[m] > dayAgo' /\ negatives[m] \in 1..noted
      BY <1>1, <2>1, PartialFacts DEF negativeFresh, TypeOK
    <2>3. QED
      BY <1>3, <2>2 DEF negativeFresh, TypeOK
  <1>7. InHand'
    BY <1>1, <1>2, SameKnown DEF InHand
  <1>8. Saved' /\ HeldBack' /\ ListedStaysKnown'
    BY <1>1, <1>2, <1>6 DEF Saved, HeldBack, ListedStaysKnown
  <1>9. QED
    BY <1>5, <1>7, <1>8

LEMMA StartAgain ==
  ASSUME CatalogInv, Restart
  PROVE  CatalogInv'
  <1> USE DEF CatalogInv
  <1>1. /\ Nothing \in Directories /\ Nothing \in Partial(Models, Caps)
        /\ Nothing \in Partial(Models, 1..0) /\ DOMAIN Nothing = {}
    BY NothingPartial DEF Directories
  <1>2. Away \in Listings /\ Away.at = Nothing /\ Away.pc = "idle"
    BY <1>1 DEF Away, Listings, Calls
  <1>3. file' \in Files
    BY DEF Restart, TypeOK
  <1>4. /\ world' = world /\ dir' \in [Realms -> Directories] /\ cooling' \in [Realms -> BOOLEAN]
        /\ efforts' \in [Realms -> SUBSET Models]
    BY <1>1 DEF Restart, Empty, Calmed, NoLevels
  <1>5. /\ cat' \in [loaded : BOOLEAN, entries : Partial(Models, Caps)] /\ ~cat'.loaded
        /\ negatives' \in Partial(Models, 1..noted') /\ DOMAIN negatives' = {}
        /\ noted' \in Nat /\ dayAgo' \in 0..noted'
    BY <1>1 DEF Restart, Unloaded
  <1>6. /\ fetcher' \in [pc : {"idle", "fetching", "arrived", "backfill"},
                         missed : SUBSET Models, put : SUBSET Models]
        /\ {doc', recent', unsaved'} \subseteq BOOLEAN /\ ~unsaved' /\ ~doc'
        /\ fetcher'.pc = "idle" /\ fetcher'.missed = {}
    BY DEF Restart, Resting
  <1>7. /\ lister' \in [Listers -> Listings]
        /\ \A l \in Listers : lister'[l].at = Nothing /\ lister'[l].pc = "idle"
    BY <1>2 DEF Restart, AllAway
  <1>8. spent' \in [listings : Nat, restarts : Nat] /\ listed' \subseteq Models \X Fields
    <2>1. spent' = [spent EXCEPT !.restarts = spent.restarts + 1] /\ listed' \in {{}, listed}
      BY DEF Restart
    <2>2. QED
      BY <2>1 DEF TypeOK
  <1>9. TypeOK'
    BY <1>3, <1>4, <1>5, <1>6, <1>7, <1>8 DEF TypeOK
  <1>10. InHand' /\ Saved' /\ HeldBack'
    BY <1>5, <1>6, <1>7 DEF InHand, Saved, HeldBack
  <1>11. ListedStaysKnown'
    <2>1. CASE unsaved \/ file' # file
      BY <2>1 DEF Restart, ListedStaysKnown
    <2>2. CASE ~unsaved /\ file' = file
      <3>1. listed' = listed
        BY <2>2 DEF Restart
      <3>2. Loaded' = Loaded
        BY <1>5, <2>2 DEF Saved, Loaded, FromFile
      <3>3. QED
        BY <3>1, <3>2 DEF ListedStaysKnown
    <2>3. QED
      BY <2>1, <2>2
  <1>12. QED
    BY <1>9, <1>10, <1>11

LEMMA StepInv == CatalogInv /\ [Next]_vars => CatalogInv'
  <1> SUFFICES ASSUME CatalogInv, [Next]_vars PROVE CatalogInv'
    OBVIOUS
  <1>1. ASSUME UNCHANGED vars PROVE CatalogInv'
    <2>1. UNCHANGED <<world, dir, cooling, efforts, cat, file, unsaved, negatives, noted, dayAgo,
                      doc, fetcher, recent, lister, spent, listed>>
      BY <1>1 DEF vars, directories, catalogue, misses, fetching
    <2>2. TypeOK'
      BY <2>1 DEF CatalogInv, TypeOK
    <2>3. Loaded' = Loaded /\ FromFile' = FromFile
      BY <2>1 DEF Loaded, FromFile
    <2>4. InHand'
      BY <2>1, <2>3, SameKnown DEF CatalogInv, InHand
    <2>5. Saved' /\ HeldBack' /\ ListedStaysKnown'
      BY <2>1, <2>3 DEF CatalogInv, Saved, HeldBack, negativeFresh, ListedStaysKnown
    <2>6. QED
      BY <2>2, <2>4, <2>5 DEF CatalogInv
  <1>2. ASSUME NEW l \in Listers,
               \/ List(l) \/ Ask(l) \/ Probe(l) \/ NoteFailure(l) \/ Keep(l) \/ Walked(l)
               \/ ReadCatalogue(l) \/ CheckNegative(l) \/ Lookup(l) \/ PutFound(l) \/ ensureDocAsync(l)
        PROVE  CatalogInv'
    BY <1>2, BeforeWindows, AskCatalogue, AskNegatives, AskDocument, PutAnswer, BeginFetch
  <1>3. CASE FetchFails \/ DocArrives \/ CopyMisses \/ BackfillForget \/ BackfillEnds
    BY <1>3, FetchSteps
  <1>4. CASE BackfillPut \/ TimePasses \/ Restart
    BY <1>4, BackfillOne, TimeGoesBy, StartAgain
  <1>5. QED
    BY <1>1, <1>2, <1>3, <1>4 DEF Next

-----------------------------------------------------------------------------
\* Listings, probes, the catalogue and the fetch keep their types, and a lister has a
\* window in hand exactly while it looks one up.
THEOREM CatalogTypeCorrect == Spec => []TypeOK
  BY InitInv, StepInv, PTL DEF Spec, CatalogInv

\* For any document and any number of listers, a model the document has is not withheld as
\* a miss once the fetch has gone through the misses (backfillMisses, lookup).
THEOREM FetchedIsServed == Spec => []KnownIsServed
  <1>1. CatalogInv => KnownIsServed
    BY DEF CatalogInv, HeldBack, KnownIsServed
  <1>2. QED
    BY <1>1, InitInv, StepInv, PTL DEF Spec

\* What was listed from model.json or models.dev stays known, whoever overwrites its entry
\* and through restarts (put, saveLocked, initLocked).
THEOREM NothingForgotten == Spec => []ListedStaysKnown
  BY InitInv, StepInv, PTL DEF Spec, CatalogInv

\* A failed probe leaves cn's list and the effort levels as they are (fetchDynamicModels,
\* FetchModels, fetchGlobalModelsOnce).
THEOREM FailuresTakeNothing == Spec => FailureTakesNothingAway
  <1> DEFINE Held == \/ spent'.restarts # spent.restarts
                     \/ /\ cooling'["cn"] /\ ~cooling["cn"] => dir'["cn"] = dir["cn"]
                        /\ \A r \in Realms : efforts[r] # {} => efforts'[r] # {}
  <1>1. CatalogInv /\ [Next]_vars => [Held]_vars
    <2> SUFFICES ASSUME CatalogInv, Next PROVE Held
      OBVIOUS
    <2> USE DEF directories, catalogue, misses, fetching
    <2>1. /\ TypeOK /\ cooling \in [Realms -> BOOLEAN] /\ dir \in [Realms -> Directories]
          /\ efforts \in [Realms -> SUBSET Models] /\ "cn" \in Realms /\ "global" \in Realms
      BY DEF CatalogInv, TypeOK, Realms
    <2>2. ASSUME NEW l \in Listers, Probe(l) PROVE Held
      BY <2>1, <2>2 DEF Probe
    <2>3. ASSUME NEW l \in Listers, NoteFailure(l) PROVE Held
      BY <2>1, <2>3 DEF NoteFailure
    <2>4. ASSUME NEW l \in Listers, Keep(l) PROVE Held
      BY <2>1, <2>4 DEF Keep
    <2>5. CASE TimePasses
      BY <2>1, <2>5 DEF TimePasses
    <2>6. CASE Restart
      BY <2>1, <2>6 DEF Restart, TypeOK
    <2>7. ASSUME NEW l \in Listers,
                 \/ List(l) \/ Ask(l) \/ Walked(l)
                 \/ ReadCatalogue(l) \/ CheckNegative(l) \/ Lookup(l) \/ PutFound(l) \/ ensureDocAsync(l)
          PROVE  Held
      <3>1. UNCHANGED <<dir, cooling, efforts>>
        BY <2>7 DEF List, Ask, Walked, ReadCatalogue, CheckNegative, Lookup, PutFound, ensureDocAsync
      <3>2. QED
        BY <3>1
    <2>8. CASE FetchFails \/ DocArrives \/ CopyMisses \/ BackfillPut \/ BackfillForget \/ BackfillEnds
      <3>1. UNCHANGED <<dir, cooling, efforts>>
        BY <2>8 DEF FetchFails, DocArrives, CopyMisses, BackfillPut, BackfillForget, BackfillEnds
      <3>2. QED
        BY <3>1
    <2>9. QED
      BY <2>2, <2>3, <2>4, <2>5, <2>6, <2>7, <2>8 DEF Next
  <1>2. QED
    BY <1>1, InitInv, StepInv, PTL DEF Spec, FailureTakesNothingAway

HIDE CatalogAssumption

-----------------------------------------------------------------------------
\* The rules of Classify: for a fault of the request, one of the kinds that end it is found.

Finals == {"ContentBlocked", "PromptTooLong", "ImageInvalid"}

\* No rule that stands before those three takes a fault of the request.
LEMMA OtherRulesPass ==
  ASSUME NEW a, OfTheRequest(a)
  PROVE  /\ ~IsModelBlocked(a) /\ ~IsSessionDead(a) /\ ~IsWafBlocked(a)
         /\ ~Says(a, {"credit"}) /\ ~Says(a, {"rate"}) /\ ~Says(a, {"illegal", "trial"})
         /\ a.status \in {400, 404, 413}
         /\ a.status = 404 => IsPromptTooLong(a)
         /\ IsPromptTooLong(a) \/ IsImageInvalid(a) \/ Says(a, {"policy"})
  <1>1. /\ a.words \subseteq {"prompt", "image", "policy"}
        /\ a.code \notin {11102, 12153} /\ 12153 \notin a.digits
        /\ \/ a.status = 400 /\ (a.words # {} \/ a.code = 11135)
           \/ a.status \in {404, 413} /\ ("prompt" \in a.words \/ (a.code = 11115 /\ ~a.spaced))
    BY DEF OfTheRequest
  <1>2. a.status \in {400, 404, 413}
    BY <1>1
  <1>3. ~Says(a, {"credit"}) /\ ~Says(a, {"rate"}) /\ ~Says(a, {"illegal", "trial"})
    BY <1>1 DEF Says
  <1>4. ~Says(a, {"session"}) /\ ~Says(a, {"no_service"})
    BY <1>1 DEF Says
  <1>5. ~IsModelBlocked(a) /\ ~IsSessionDead(a) /\ ~IsWafBlocked(a)
    BY <1>1, <1>2, <1>4 DEF IsModelBlocked, IsSessionDead, IsWafBlocked, Mentions
  <1>6. a.status \in {404, 413} => IsPromptTooLong(a)
    BY <1>1 DEF IsPromptTooLong, Says, Compact
  <1>7. ASSUME a.status = 400
        PROVE  IsPromptTooLong(a) \/ IsImageInvalid(a) \/ Says(a, {"policy"})
    <2>1. CASE a.code = 11135
      BY <1>7, <2>1 DEF IsImageInvalid, CodeMarker
    <2>2. CASE a.words # {}
      BY <1>1, <1>7, <2>2 DEF IsImageInvalid, IsPromptTooLong, Says
    <2> QED
      BY <1>1, <1>7, <2>1, <2>2
  <1> QED
    BY <1>2, <1>3, <1>4, <1>5, <1>6, <1>7

\* Which rule is found, from the rules alone: the first of three that holds, when none of the others does.
LEMMA FirstOfThree ==
  ASSUME NEW a, OfTheRequest(a)
  PROVE  Classify(a) \in Finals
  <1> DEFINE r == Rules(a)
  <1> HIDE DEF r
  <1>1. DOMAIN r = 1..17
    BY DEF Rules, r
  <1>2. /\ r[9] = <<"PromptTooLong", IsPromptTooLong(a)>>
        /\ r[13] = <<"ImageInvalid", IsImageInvalid(a)>>
        /\ r[14] = <<"ContentBlocked", a.status >= 400 /\ Says(a, {"policy"})>>
    BY DEF Rules, r
  <1>3. /\ ~IsModelBlocked(a) /\ ~IsSessionDead(a) /\ ~IsWafBlocked(a)
        /\ ~Says(a, {"illegal", "trial"}) /\ ~Says(a, {"credit"}) /\ ~Says(a, {"rate"})
        /\ ~(a.status >= 500) /\ a.status # 402 /\ a.status # 429
    BY OtherRulesPass
  <1>4. /\ a.status >= 400 /\ (a.status = 404 => IsPromptTooLong(a))
        /\ IsPromptTooLong(a) \/ IsImageInvalid(a) \/ Says(a, {"policy"})
    BY OtherRulesPass
  <1>5. ~r[1][2]
    <2>1. r[1] = <<"ModelBlocked", IsModelBlocked(a)>>
      BY DEF Rules, r
    <2> QED
      BY <1>3, <2>1
  <1>6. ~r[2][2]
    <2>1. r[2] = <<"HardCredit", a.status = 402>>
      BY DEF Rules, r
    <2>2. r[2] = <<"HardCredit", FALSE>>
      BY <1>3, <2>1, Zenon
    <2> QED
      BY <2>2
  <1>7. ~r[3][2]
    <2>1. r[3] = <<"SessionDead", IsSessionDead(a)>>
      BY DEF Rules, r
    <2> QED
      BY <1>3, <2>1
  <1>8. ~r[4][2]
    <2>1. r[4] = <<"AccountFault", Says(a, {"illegal", "trial"})>>
      BY DEF Rules, r
    <2> QED
      BY <1>3, <2>1
  <1>9. ~r[5][2]
    <2>1. r[5] = <<"HardCredit", IsCreditLimit(a)>>
      BY DEF Rules, r
    <2>2. ~IsCreditLimit(a)
      BY <1>3 DEF IsCreditLimit
    <2> QED
      BY <2>1, <2>2
  <1>10. ~r[6][2]
    <2>1. r[6] = <<"SoftRate", a.status = 429>>
      BY DEF Rules, r
    <2>2. r[6] = <<"SoftRate", FALSE>>
      BY <1>3, <2>1, Zenon
    <2> QED
      BY <2>2
  <1>11. ~r[7][2]
    <2>1. r[7] = <<"HardCredit", Says(a, {"credit"})>>
      BY DEF Rules, r
    <2> QED
      BY <1>3, <2>1
  <1>12. ~r[8][2]
    <2>1. r[8] = <<"SoftRate", Says(a, {"rate"})>>
      BY DEF Rules, r
    <2> QED
      BY <1>3, <2>1
  <1>13. ~r[11][2]
    <2>1. r[11] = <<"Server", a.status >= 500>>
      BY DEF Rules, r
    <2>2. (a.status >= 500) = FALSE
      BY <1>3
    <2>3. r[11] = <<"Server", FALSE>>
      BY <2>1, <2>2, Zenon
    <2> QED
      BY <2>3
  <1>14. ~r[12][2]
    <2>1. r[12] = <<"WafBlock", IsWafBlocked(a)>>
      BY DEF Rules, r
    <2> QED
      BY <1>3, <2>1
  <1>15. /\ IsPromptTooLong(a) => r[9][2]
         /\ IsImageInvalid(a) => r[13][2]
         /\ Says(a, {"policy"}) => r[14][2]
    <2>1. ASSUME IsPromptTooLong(a) PROVE r[9] = <<"PromptTooLong", TRUE>>
      BY <1>2, <2>1, Zenon
    <2>2. ASSUME IsImageInvalid(a) PROVE r[13] = <<"ImageInvalid", TRUE>>
      BY <1>2, <2>2, Zenon
    <2>3. ASSUME Says(a, {"policy"}) PROVE r[14] = <<"ContentBlocked", TRUE>>
      BY <1>2, <1>4, <2>3, Zenon
    <2>4. ASSUME NEW p, NEW x, p = <<x, TRUE>> PROVE p[2] = TRUE
      BY <2>4
    <2> QED
      BY <2>1, <2>2, <2>3, <2>4, Zenon
  <1>17. ~r[10][2] \/ r[9][2]
    <2>1. r[10] = <<"NotFound", a.status = 404>>
      BY DEF Rules, r
    <2>2. ASSUME a.status # 404 PROVE ~r[10][2]
      <3>1. r[10] = <<"NotFound", FALSE>>
        BY <2>1, <2>2, Zenon
      <3> QED
        BY <3>1
    <2> QED
      BY <1>4, <1>15, <2>2, Zenon
  <1>18. r[9][2] \/ r[13][2] \/ r[14][2]
    BY <1>4, <1>15
  <1>19. /\ \A j \in 1..8 : ~r[j][2]
         /\ ~r[11][2] /\ ~r[12][2]
    BY <1>5, <1>6, <1>7, <1>8, <1>9, <1>10, <1>11, <1>12, <1>13, <1>14
  <1> DEFINE FirstHit(i) == i \in DOMAIN r /\ r[i][2] /\ \A j \in 1..(i - 1) : ~r[j][2]
  <1>20. \A i \in 1..17 : FirstHit(i) => i \in {9, 13, 14}
    <2> SUFFICES ASSUME NEW i \in 1..17, FirstHit(i) PROVE i \in {9, 13, 14}
      OBVIOUS
    <2>1. i \notin 1..8 /\ i # 11 /\ i # 12
      BY <1>19
    <2>2. i # 10
      BY <1>17
    <2>3. i <= 14
      <3>1. ASSUME i > 14 PROVE FALSE
        <4>1. 9 \in 1..(i - 1) /\ 13 \in 1..(i - 1) /\ 14 \in 1..(i - 1)
          BY <3>1
        <4> QED
          BY <1>18, <4>1
      <3> QED
        BY <3>1
    <2> HIDE DEF FirstHit
    <2> QED
      BY <2>1, <2>2, <2>3
  <1>21. \E i \in DOMAIN r : FirstHit(i)
    <2>1. CASE r[9][2]
      <3>1. \A j \in 1..8 : ~r[j][2]
        <4> QED BY <1>19
      <3>2. FirstHit(9)
        BY <1>1, <2>1, <3>1
      <3> QED
        BY <1>1, <3>2
    <2>2. CASE ~r[9][2] /\ r[13][2]
      <3>1. \A j \in 1..12 : ~r[j][2]
        BY <1>19, <1>17, <2>2
      <3>2. FirstHit(13)
        BY <1>1, <2>2, <3>1
      <3> QED
        BY <1>1, <3>2
    <2>3. CASE ~r[9][2] /\ ~r[13][2] /\ r[14][2]
      <3>1. \A j \in 1..13 : ~r[j][2]
        BY <1>19, <1>17, <2>3
      <3>2. FirstHit(14)
        BY <1>1, <2>3, <3>1
      <3> QED
        BY <1>1, <3>2
    <2> QED
      BY <1>18, <2>1, <2>2, <2>3
  <1>22. FirstRule(r) = r[CHOOSE i \in DOMAIN r : r[i][2] /\ \A j \in 1..(i - 1) : ~r[j][2]][1]
    BY DEF FirstRule
  <1> DEFINE found == CHOOSE i \in DOMAIN r : r[i][2] /\ \A j \in 1..(i - 1) : ~r[j][2]
  <1>23. found \in {9, 13, 14}
    <2>1. found \in DOMAIN r /\ FirstHit(found)
      BY <1>21
    <2> QED
      BY <1>1, <1>20, <2>1
  <1>24. Classify(a) = r[found][1]
    BY <1>22 DEF Classify, r
  <1> HIDE DEF found
  <1> QED
    BY <1>2, <1>23, <1>24 DEF Finals

\* A request's fault costs the account nothing, is told with status 400, and has a hint.
LEMMA FinalsAreHarmless ==
  ASSUME NEW a, Classify(a) \in Finals
  PROVE  /\ IsFinal(a) /\ Penalty(a) = "nothing" /\ Told(a)[1] = 400
         /\ \A image, catalog : Hint(a, image, catalog) # NoHint
  <1>1. IsFinal(a) /\ Penalty(a) = "nothing"
    BY DEF IsFinal, Penalty, Finals
  <1>2. Told(a)[1] = 400
    BY DEF Told, Finals
  <1>3. ASSUME NEW image, NEW catalog PROVE Hint(a, image, catalog) # NoHint
    BY DEF Hint, NoHint, Finals
  <1> QED
    BY <1>1, <1>2, <1>3

-----------------------------------------------------------------------------
\* The turns of a history

\* Of what the user said up to message i, how many messages.
Nth(h, i) == Cardinality({j \in UserAt(h) : j <= i})

LEMMA UsersFinite ==
  ASSUME NEW h \in Seq(Messages)
  PROVE  /\ UserAt(h) \subseteq 1..Len(h) /\ IsFiniteSet(UserAt(h)) /\ Len(h) \in Nat
         /\ Cardinality(UserAt(h)) \in Nat
         /\ \A i : IsFiniteSet({j \in UserAt(h) : j <= i}) /\ Nth(h, i) \in Nat
  <1>1. UserAt(h) \subseteq 1..Len(h) /\ Len(h) \in Nat
    BY LenProperties DEF UserAt
  <1>2. IsFiniteSet(1..Len(h))
    BY <1>1, FS_Interval
  <1>3. IsFiniteSet(UserAt(h))
    BY <1>1, <1>2, FS_Subset
  <1>4. ASSUME NEW i PROVE IsFiniteSet({j \in UserAt(h) : j <= i})
    BY <1>3, FS_Subset
  <1> QED
    BY <1>1, <1>3, <1>4, FS_CardinalityType DEF Nth

LEMMA TurnIsNatural ==
  ASSUME history \in Seq(Messages)
  PROVE  Turn \in Nat
  BY UsersFinite DEF Turn
-----------------------------------------------------------------------------
\* Types

LEMMA MessageBuilt ==
  ASSUME NEW role \in Roles, NEW content \in Texts, NEW image \in Texts, NEW calls \in Seq(ToolCalls),
         NEW of \in Texts, NEW rc \in Texts, NEW r \in Texts
  PROVE  [role |-> role, content |-> content, image |-> image, calls |-> calls, of |-> of,
          reasoning_content |-> rc, reasoning |-> r] \in Messages
  BY DEF Messages

LEMMA MessageFields ==
  ASSUME NEW m \in Messages
  PROVE  /\ m.role \in Roles /\ m.content \in Texts /\ m.image \in Texts /\ m.calls \in Seq(ToolCalls)
         /\ m.of \in Texts /\ m.reasoning_content \in Texts /\ m.reasoning \in Texts
         /\ m = [role |-> m.role, content |-> m.content, image |-> m.image, calls |-> m.calls, of |-> m.of,
                 reasoning_content |-> m.reasoning_content, reasoning |-> m.reasoning]
  BY DEF Messages

LEMMA MessageTyped ==
  ASSUME NEW role \in Roles, NEW text \in Texts
  PROVE  Message(role, text) \in Messages /\ Message(role, text).role = role
  <1>1. <<>> \in Seq(ToolCalls) /\ Absent \in Texts
    BY EmptySeq, BodiesAssumption
  <1>2. Message(role, text) = [role |-> role, content |-> text, image |-> Absent, calls |-> <<>>, of |-> Absent,
                               reasoning_content |-> Absent, reasoning |-> Absent]
    BY DEF Message
  <1> DEFINE none == <<>>
  <1>3. none \in Seq(ToolCalls)
    BY <1>1
  <1> HIDE DEF none
  <1>4. [role |-> role, content |-> text, image |-> Absent, calls |-> none, of |-> Absent,
         reasoning_content |-> Absent, reasoning |-> Absent] \in Messages
    BY <1>1, <1>3, MessageBuilt
  <1>5. Message(role, text) \in Messages
    BY <1>2, <1>4 DEF none
  <1> QED
    BY <1>2, <1>5

LEMMA ResultTyped ==
  ASSUME NEW i \in Texts
  PROVE  [Message("tool", "plain") EXCEPT !.of = i] \in Messages
  <1> DEFINE m == Message("tool", "plain")
  <1>1. m \in Messages
    BY MessageTyped, BodiesAssumption DEF Roles
  <1>2. [m EXCEPT !.of = i] = [role |-> m.role, content |-> m.content, image |-> m.image, calls |-> m.calls,
                               of |-> i, reasoning_content |-> m.reasoning_content, reasoning |-> m.reasoning]
    BY <1>1, MessageFields
  <1> HIDE DEF m
  <1>3. [m EXCEPT !.of = i] \in Messages
    BY <1>1, <1>2, MessageFields, MessageBuilt
  <1> QED
    BY <1>3 DEF m

LEMMA ImageFinite ==
  ASSUME NEW n \in Nat, NEW f, DOMAIN f = 1..n
  PROVE  IsFiniteSet({f[i] : i \in 1..n})
  <1> DEFINE T == {f[i] : i \in 1..n}
             g == [i \in 1..n |-> f[i]]
  <1>1. g \in Surjection(1..n, T)
    BY DEF Surjection
  <1>2. IsFiniteSet(1..n)
    BY FS_Interval
  <1> HIDE DEF T, g
  <1>3. IsFiniteSet(T)
    BY <1>1, <1>2, FS_Surjection
  <1> QED
    BY <1>3 DEF T

LEMMA IdsFinite ==
  ASSUME NEW m \in Messages
  PROVE  IsFiniteSet(IdsOf(m)) /\ IdsOf(m) \subseteq Texts
  <1> DEFINE n == Len(m.calls)
             f == [i \in 1..n |-> m.calls[i].id]
             T == {f[i] : i \in 1..n}
  <1>1. m.calls \in Seq(ToolCalls)
    BY DEF Messages
  <1>2. n \in Nat /\ DOMAIN m.calls = 1..n /\ \A i \in 1..n : m.calls[i] \in ToolCalls
    BY <1>1, LenProperties, ElementOfSeq
  <1>3. \A i \in 1..n : f[i] = m.calls[i].id
    OBVIOUS
  <1>4. DOMAIN f = 1..n
    OBVIOUS
  <1>5. IsFiniteSet(T)
    <2> HIDE DEF f, n
    <2> QED
      BY <1>2, <1>4, ImageFinite
  <1>6. IdsOf(m) \subseteq T
    <2> HIDE DEF f, n
    <2> QED
      BY <1>2, <1>3 DEF IdsOf, ToSet
  <1>7. IdsOf(m) \subseteq Texts
    BY <1>2 DEF IdsOf, ToSet, ToolCalls
  <1> HIDE DEF T
  <1> QED
    BY <1>5, <1>6, <1>7, FS_Subset

LEMMA CalledFinite ==
  ASSUME NEW h \in Seq(Messages)
  PROVE  Cardinality(Called(h)) \in Nat
  <1> DEFINE n == Len(h)
             f == [i \in 1..n |-> IdsOf(h[i])]
             T == {f[i] : i \in 1..n}
  <1>1. n \in Nat /\ DOMAIN h = 1..n /\ \A i \in 1..n : h[i] \in Messages
    BY LenProperties, ElementOfSeq
  <1>2. DOMAIN f = 1..n /\ \A i \in 1..n : f[i] = IdsOf(h[i])
    OBVIOUS
  <1> HIDE DEF n, f
  <1>3. IsFiniteSet(T)
    BY <1>1, <1>2, ImageFinite
  <1>4. \A t \in T : IsFiniteSet(t)
    BY <1>1, <1>2, IdsFinite
  <1>5. Called(h) \subseteq UNION T
    BY <1>1, <1>2 DEF Called, ToSet
  <1> HIDE DEF T
  <1>6. IsFiniteSet(UNION T)
    BY <1>3, <1>4, FS_UNION
  <1> QED
    BY <1>5, <1>6, FS_Subset, FS_CardinalityType

LEMMA KeptTyped ==
  ASSUME TalkTypeOK, NEW m \in Replies, Used + Len(m.calls) <= Len(CallIDs)
  PROVE  Kept(m) \in Messages /\ Kept(m).role = "assistant"
  <1>1. m \in Messages /\ m.role = "assistant"
    BY ConversationAssumption
  <1>2. Used \in Nat
    BY CalledFinite DEF TalkTypeOK, Used
  <1> DEFINE n == Len(m.calls)
             calls == [i \in DOMAIN m.calls |-> [m.calls[i] EXCEPT !.id = CallIDs[Used + i]]]
  <1>3. n \in Nat /\ DOMAIN m.calls = 1..n /\ \A i \in 1..n : m.calls[i] \in ToolCalls
    BY <1>1, LenProperties, ElementOfSeq DEF Messages
  <1>4. CallIDs \in [1..Len(CallIDs) -> Texts] /\ Len(CallIDs) \in Nat
    BY ConversationAssumption, LenProperties
  <1>5. \A i \in 1..n : CallIDs[Used + i] \in Texts
    BY <1>2, <1>3, <1>4
  <1>6. calls \in [1..n -> ToolCalls]
    BY <1>3, <1>5 DEF ToolCalls
  <1>7. calls \in Seq(ToolCalls)
    BY <1>3, <1>6, SeqDef
  <1>8. Kept(m) = [m EXCEPT !.reasoning_content = IF client.keeps = "reasoning_content" THEN m.reasoning ELSE Absent,
                            !.reasoning = IF client.keeps = "reasoning" THEN @ ELSE Absent,
                            !.calls = calls]
    BY DEF Kept
  <1> HIDE DEF calls
  <1> DEFINE rc == IF client.keeps = "reasoning_content" THEN m.reasoning ELSE Absent
             r == IF client.keeps = "reasoning" THEN m.reasoning ELSE Absent
  <1>9. rc \in Texts /\ r \in Texts
    BY <1>1, MessageFields, BodiesAssumption
  <1>10. Kept(m) = [role |-> m.role, content |-> m.content, image |-> m.image, calls |-> calls, of |-> m.of,
                    reasoning_content |-> rc, reasoning |-> r]
    BY <1>1, <1>8, MessageFields
  <1> HIDE DEF rc, r
  <1> QED
    BY <1>1, <1>7, <1>9, <1>10, MessageFields, MessageBuilt

\* What a client that speaks leaves alone.
LEMMA SpeaksTyped ==
  ASSUME TalkTypeOK, NEW m \in Messages, Speaks(m)
  PROVE  history' \in Seq(Messages)
  BY AppendProperties DEF Speaks, TalkTypeOK

LEMMA InitTyped ==
  ASSUME TalkInit
  PROVE  TalkTypeOK
  <1>1. /\ NoRequest.at = "none" /\ NoRequest.rotation = 0 /\ NoRequest.tried = {}
    BY DEF NoRequest
  <1>2. client \in Clients /\ client.opening \in Seq(Messages) /\ client.talks \in Nat /\ client.talks >= 1 /\ MaxRotate \in Nat
    BY ConversationAssumption DEF TalkInit, TalkNames
  <1>3. talk \in 1..client.talks
    BY <1>2 DEF TalkInit
  <1>4. /\ history \in Seq(Messages) /\ waiting \subseteq Texts /\ gate \in BOOLEAN
        /\ well \subseteq client.accounts /\ \A e \in log : e.talk \in 1..talk /\ e.turn \in Nat
    BY <1>2 DEF TalkInit
  <1>5. DOMAIN request = DOMAIN NoRequest /\ request.at = "none" /\ request.rotation = 0 /\ request.tried = {}
    BY <1>1 DEF TalkInit
  <1>6. request.rotation \in 0..MaxRotate /\ request.tried \subseteq client.accounts /\ request.at \in Places
    BY <1>2, <1>5 DEF Places
  <1> QED
    BY <1>2, <1>3, <1>4, <1>5, <1>6 DEF TalkTypeOK

LEMMA NextTyped ==
  ASSUME TalkTypeOK, [TalkNext]_talkVars
  PROVE  TalkTypeOK'
  <1>1. CASE Say
    <2>1. PICK m \in Said : Speaks(m)
      BY <1>1 DEF Say
    <2>2. history' \in Seq(Messages)
      BY <2>1, SpeaksTyped, ConversationAssumption
    <2> QED
      BY <1>1, <2>2 DEF Say, TalkTypeOK
  <1>2. CASE Return
    <2>1. PICK i \in waiting : Speaks([Message("tool", "plain") EXCEPT !.of = i]) /\ waiting' = waiting \ {i}
      BY <1>2 DEF Return
    <2>2. [Message("tool", "plain") EXCEPT !.of = i] \in Messages
      BY ResultTyped DEF TalkTypeOK
    <2>3. history' \in Seq(Messages)
      BY <2>1, <2>2, SpeaksTyped
    <2> QED
      BY <1>2, <2>1, <2>3 DEF Return, TalkTypeOK
  <1>3. CASE Fail
    BY <1>3 DEF Fail, TalkTypeOK
  <1>4. CASE Notice
    <2>1. history' \in Seq(Messages)
      BY <1>4, MessageTyped, SpeaksTyped, BodiesAssumption DEF Notice, Roles
    <2> QED
      BY <1>4, <2>1 DEF Notice, TalkTypeOK
  <1>5. CASE NewTalk
    <2>1. client.talks \in Nat /\ client.opening \in Seq(Messages)
      BY ConversationAssumption DEF TalkTypeOK, TalkNames
    <2> QED
      BY <1>5, <2>1 DEF NewTalk, TalkTypeOK
  <1>6. CASE Send
    <2>1. /\ DOMAIN request' = DOMAIN NoRequest /\ request'.at = "picking"
          /\ request'.rotation = 0 /\ request'.tried = {}
      BY <1>6 DEF Send, NoRequest
    <2> QED
      BY <1>6, <2>1, ConversationAssumption DEF Send, TalkTypeOK, Places
  <1>7. CASE Call
    <2>1. PICK u \in Pickable, remote \in Tables :
            \E known, sent, key :
              /\ request' = [request EXCEPT !.at = "calling", !.uid = u, !.tried = @ \cup {u}, !.rotation = @ + 1,
                                            !.sent = sent, !.known = known, !.key = key]
              /\ log' = log \cup {[talk |-> talk, turn |-> Turn, id |-> request.id]}
      BY <1>7 DEF Call
    <2>2. /\ DOMAIN request' = DOMAIN NoRequest /\ request'.at = "calling"
          /\ request'.rotation = request.rotation + 1 /\ request'.tried = request.tried \cup {u}
      BY <2>1 DEF TalkTypeOK, NoRequest
    <2>3. u \in client.accounts
      BY DEF Pickable, TalkTypeOK
    <2>4. Turn \in Nat
      BY TurnIsNatural DEF TalkTypeOK
    <2>5. \A e \in log' : e.talk \in 1..talk /\ e.turn \in Nat
      <3>1. talk \in 1..talk
        BY ConversationAssumption DEF TalkTypeOK, TalkNames
      <3> QED
        BY <2>1, <2>4, <3>1 DEF TalkTypeOK
    <2> QED
      BY <1>7, <2>2, <2>3, <2>5, ConversationAssumption DEF Call, TalkTypeOK, Places
  <1>8. CASE Succeed
    <2>1. PICK m \in Replies : Used + Len(m.calls) <= Len(CallIDs) /\ Speaks(Kept(m)) /\ waiting' = IdsOf(Kept(m))
      BY <1>8 DEF Succeed
    <2>2. history' \in Seq(Messages) /\ waiting' \subseteq Texts
      BY <2>1, KeptTyped, SpeaksTyped, IdsFinite
    <2>3. NoRequest.at = "none" /\ NoRequest.rotation = 0 /\ NoRequest.tried = {}
      BY DEF NoRequest
    <2> QED
      BY <1>8, <2>2, <2>3, ConversationAssumption DEF Succeed, TalkTypeOK, Places
  <1>9. CASE Refuse
    <2>1. PICK a \in Refusals : Degrade(a) \/ Finish(a) \/ Rotate(a)
      BY <1>9 DEF Refuse
    <2>2. CASE Degrade(a)
      <3>1. /\ DOMAIN request' = DOMAIN NoRequest /\ request'.at = "picking"
            /\ request'.rotation = request.rotation /\ request'.tried = request.tried \ {request.uid}
        BY <2>2 DEF Degrade, TalkTypeOK, NoRequest
      <3> QED
        BY <1>9, <2>2, <3>1 DEF Degrade, Refuse, TalkTypeOK, Places
    <2>3. CASE Finish(a)
      <3>1. /\ DOMAIN request' = DOMAIN NoRequest /\ request'.at = "none"
            /\ request'.rotation = 0 /\ request'.tried = {}
        BY <2>3 DEF Finish, Ended, NoRequest
      <3>2. well' \subseteq client.accounts /\ gate' \in BOOLEAN
        BY <2>3 DEF Finish, Judge, TalkTypeOK
      <3> QED
        BY <1>9, <3>1, <3>2, ConversationAssumption DEF Refuse, TalkTypeOK, Places
    <2>4. CASE Rotate(a)
      <3>1. /\ DOMAIN request' = DOMAIN NoRequest /\ request'.at = "picking"
            /\ request'.rotation = request.rotation /\ request'.tried = request.tried
        BY <2>4 DEF Rotate, TalkTypeOK, NoRequest
      <3>2. well' \subseteq client.accounts /\ gate' \in BOOLEAN
        BY <2>4 DEF Rotate, Judge, TalkTypeOK
      <3> QED
        BY <1>9, <3>1, <3>2 DEF Refuse, TalkTypeOK, Places
    <2> QED
      BY <2>1, <2>2, <2>3, <2>4
  <1>10. CASE Unreachable
    <2>1. /\ DOMAIN request' = DOMAIN NoRequest /\ request'.at = "picking"
          /\ request'.rotation = request.rotation /\ request'.tried = request.tried
      BY <1>10 DEF Unreachable, TalkTypeOK, NoRequest
    <2> QED
      BY <1>10, <2>1 DEF Unreachable, TalkTypeOK, Places
  <1>11. CASE GiveUp
    <2>1. /\ DOMAIN request' = DOMAIN NoRequest /\ request'.at = "none"
          /\ request'.rotation = 0 /\ request'.tried = {}
      BY <1>11 DEF GiveUp, Ended, NoRequest
    <2> QED
      BY <1>11, <2>1, ConversationAssumption DEF GiveUp, TalkTypeOK, Places
  <1>12. CASE Midnight
    BY <1>12 DEF Midnight, TalkTypeOK
  <1>13. CASE Recover
    BY <1>13 DEF Recover, TalkTypeOK
  <1>14. CASE UNCHANGED talkVars
    BY <1>14 DEF talkVars, TalkTypeOK
  <1> QED
    BY <1>1, <1>2, <1>3, <1>4, <1>5, <1>6, <1>7, <1>8, <1>9, <1>10, <1>11, <1>12, <1>13, <1>14 DEF TalkNext

\* What one message more changes.
LEMMA Appended ==
  ASSUME NEW h \in Seq(Messages), NEW m \in Messages
  PROVE  /\ UserAt(Append(h, m)) = UserAt(h) \cup (IF m.role = "user" THEN {Len(h) + 1} ELSE {})
         /\ \A i \in UserAt(h) : Append(h, m)[i] = h[i] /\ Nth(Append(h, m), i) = Nth(h, i)
         /\ Append(h, m)[Len(h) + 1] = m
  <1> DEFINE g == Append(h, m)
  <1>1. /\ g \in Seq(Messages) /\ Len(g) = Len(h) + 1 /\ Len(h) \in Nat
        /\ \A i \in 1..Len(h) : g[i] = h[i]
        /\ g[Len(h) + 1] = m
        /\ DOMAIN h = 1..Len(h) /\ DOMAIN g = 1..(Len(h) + 1)
    BY AppendProperties, LenProperties
  <1> HIDE DEF g
  <1>2. UserAt(g) = UserAt(h) \cup (IF m.role = "user" THEN {Len(h) + 1} ELSE {})
    BY <1>1 DEF UserAt
  <1>3. ASSUME NEW i \in UserAt(h)
        PROVE  g[i] = h[i] /\ Nth(g, i) = Nth(h, i)
    <2>1. i \in 1..Len(h) /\ UserAt(h) \subseteq 1..Len(h)
      BY <1>1 DEF UserAt
    <2>2. {j \in UserAt(g) : j <= i} = {j \in UserAt(h) : j <= i}
      BY <1>1, <1>2, <2>1
    <2> QED
      BY <1>1, <2>1, <2>2 DEF Nth
  <1> QED
    BY <1>1, <1>2, <1>3 DEF g

\* A later message of the user is a later turn.
LEMMA LaterIsMore ==
  ASSUME NEW h \in Seq(Messages), NEW i \in UserAt(h), NEW j \in UserAt(h)
  PROVE  Nth(h, i) = Nth(h, j) <=> i = j
  <1>1. ASSUME NEW a \in UserAt(h), NEW b \in UserAt(h), a < b
        PROVE  Nth(h, a) < Nth(h, b)
    <2> DEFINE A == {k \in UserAt(h) : k <= a}
               B == {k \in UserAt(h) : k <= b}
    <2>1. UserAt(h) \subseteq Nat /\ a \in Nat /\ b \in Nat
      BY UsersFinite
    <2>2. A \subseteq B /\ b \in B /\ b \notin A
      BY <1>1, <2>1
    <2>3. IsFiniteSet(B)
      BY UsersFinite
    <2> HIDE DEF A, B
    <2>4. /\ Cardinality(A) <= Cardinality(B) /\ (Cardinality(A) = Cardinality(B) => A = B)
      BY <2>2, <2>3, FS_Subset
    <2>5. Cardinality(A) \in Nat /\ Cardinality(B) \in Nat
      BY <2>2, <2>3, FS_Subset, FS_CardinalityType
    <2>6. Cardinality(A) < Cardinality(B)
      BY <2>2, <2>4, <2>5
    <2> QED
      BY <2>6 DEF A, B, Nth
  <1>2. i \in Nat /\ j \in Nat /\ Nth(h, i) \in Nat /\ Nth(h, j) \in Nat
    <2>1. UserAt(h) \subseteq 1..Len(h) /\ Len(h) \in Nat /\ \A k : Nth(h, k) \in Nat
      BY UsersFinite
    <2> QED
      BY <2>1
  <1>3. CASE i < j
    BY <1>1, <1>2, <1>3
  <1>4. CASE j < i
    BY <1>1, <1>2, <1>4
  <1> QED
    BY <1>2, <1>3, <1>4

LEMMA LeastNumber ==
  ASSUME NEW T \in SUBSET Nat, T # {}
  PROVE  \E n \in T : \A m \in T : n <= m
  <1> DEFINE R == {ss \in Nat \X Nat : ss[1] < ss[2]}
  <1>1. IsWellFoundedOn(R, Nat)
    BY NatLessThanWellFounded, Zenon DEF OpToRel
  <1>2. \A x, y \in Nat : y < x => <<y, x>> \in R
    OBVIOUS
  <1> HIDE DEF R
  <1>3. PICK x \in T : \A y \in T : ~(<<y, x>> \in R)
    BY <1>1, WFMin
  <1>4. \A y \in T : ~(y < x) /\ y \in Nat /\ x \in Nat
    BY <1>2, <1>3
  <1> QED
    BY <1>4

\* What the user says last.
Latest(h) == CHOOSE i \in UserAt(h) : \A j \in UserAt(h) : j <= i

LEMMA LatestIsLast ==
  ASSUME NEW h \in Seq(Messages), UserAt(h) # {}
  PROVE  /\ Latest(h) \in UserAt(h) /\ \A j \in UserAt(h) : j <= Latest(h)
         /\ Nth(h, Latest(h)) = Cardinality(UserAt(h))
  <1> DEFINE n == Len(h)
             T == {n - i : i \in UserAt(h)}
  <1>1. n \in Nat /\ UserAt(h) \subseteq 1..n
    BY UsersFinite
  <1> HIDE DEF n
  <1>2. T \in SUBSET Nat /\ T # {}
    BY <1>1
  <1>3. PICK t \in T : \A u \in T : t <= u
    BY <1>2, LeastNumber
  <1>4. PICK i \in UserAt(h) : t = n - i
    BY <1>3
  <1>5. \A j \in UserAt(h) : j <= i
    <2> TAKE j \in UserAt(h)
    <2>1. n - i <= n - j
      BY <1>3, <1>4
    <2> QED
      BY <1>1, <2>1
  <1>6. Latest(h) \in UserAt(h) /\ \A j \in UserAt(h) : j <= Latest(h)
    BY <1>5 DEF Latest
  <1>7. {j \in UserAt(h) : j <= Latest(h)} = UserAt(h)
    BY <1>6
  <1> QED
    BY <1>6, <1>7 DEF Nth

-----------------------------------------------------------------------------
\* The identifier of a turn

Placed(i, m) == <<i>> \o Signature(m)
TalkName(t) == IF client.named = "no" THEN Blank ELSE TalkNames[t]
TurnID(h, i) == <<"derived", TalkName(talk), Placed(i, h[i])>>

LEMMA PlacedFirst ==
  ASSUME NEW i, NEW m \in Messages, Signature(m) # <<>>
  PROVE  Placed(i, m)[1] = i /\ Placed(i, m) # <<>>
  BY DEF Signature, Placed

LEMMA NameOfTalk ==
  ASSUME TalkTypeOK
  PROVE  ExtractKey(Body) = TalkName(talk)
  <1>1. client.named \in {"no", "metadata", "body", "cache_key"} /\ talk \in {1, 2}
    BY ConversationAssumption DEF TalkTypeOK, TalkNames
  <1>2. TalkNames[talk] # Blank
    <2>1. "talk1" # Blank /\ "talk2" # Blank
      BY Zenon DEF Blank
    <2> QED
      BY <1>1, <2>1 DEF TalkNames
  <1>3. /\ Body.metadata_id = Name("metadata") /\ Body.conversation_id = Name("body")
        /\ Body.prompt_cache_key = Name("cache_key")
    BY DEF Body
  <1> QED
    BY <1>1, <1>2, <1>3 DEF ExtractKey, ResolveConversationID, FirstOf, Name, TalkName

\* Nobody says nothing.
Spoken == \A i \in UserAt(history) : Signature(history[i]) # <<>>

\* A request carries the identifier of the turn it was made in.
Asked ==
  client.header = Blank /\ request.at # "none" =>
    UserAt(history) # {} /\ request.id = TurnID(history, Latest(history))

\* What the log says of the present conversation, of any, and of two calls of one.
EnteredHere(e) == \E i \in UserAt(history) : e.id = TurnID(history, i) /\ e.turn = Nth(history, i)
Logged ==
  client.header = Blank =>
    /\ \A e \in log : e.id[2] = TalkName(e.talk)
    /\ \A e \in log : e.talk = talk => EnteredHere(e)
    /\ \A e, f \in log : e.talk = f.talk => (e.id = f.id <=> e.turn = f.turn)

TurnInv == TalkTypeOK /\ Spoken /\ Asked /\ Logged

LEMMA RequestIDIsTurnID ==
  ASSUME TalkTypeOK, Spoken, client.header = Blank, UserAt(history) # {}
  PROVE  RequestID(Body) = TurnID(history, Latest(history))
  <1> DEFINE last == Latest(history)
  <1>1. last \in UserAt(history)
    BY LatestIsLast DEF TalkTypeOK
  <1>2. Signature(history[last]) # <<>> /\ history[last] \in Messages
    BY <1>1, LenProperties, ElementOfSeq DEF Spoken, TalkTypeOK, UserAt
  <1>3. Body.messages = history
    BY DEF Body
  <1>4. TurnKey(Body) = Placed(last, history[last])
    BY <1>2, <1>3 DEF TurnKey, Latest, Placed
  <1>5. TurnKey(Body) # <<>>
    BY <1>2, <1>4, PlacedFirst
  <1> HIDE DEF last
  <1>6. RequestID(Body) = <<"derived", ExtractKey(Body), TurnKey(Body)>>
    BY <1>5 DEF RequestID
  <1> QED
    BY <1>4, <1>6, NameOfTalk DEF TurnID, last

LEMMA TurnIDsDiffer ==
  ASSUME TalkTypeOK, Spoken, NEW i \in UserAt(history), NEW j \in UserAt(history)
  PROVE  /\ TurnID(history, i) = TurnID(history, j) <=> i = j
         /\ TurnID(history, i)[2] = TalkName(talk)
  <1>1. \A k \in UserAt(history) : Signature(history[k]) # <<>> /\ history[k] \in Messages
    BY LenProperties, ElementOfSeq DEF Spoken, TalkTypeOK, UserAt
  <1>2. Placed(i, history[i])[1] = i /\ Placed(j, history[j])[1] = j
    BY <1>1, PlacedFirst
  <1> QED
    BY <1>2 DEF TurnID

\* A history that only gets longer keeps what was logged of its turns.
LEMMA SpeakingKeepsTurns ==
  ASSUME TurnInv, NEW m \in Messages, Speaks(m), m.role = "user" => Signature(m) # <<>>,
         UNCHANGED <<client, talk, log>>
  PROVE  Spoken' /\ Logged'
  <1>1. history \in Seq(Messages) /\ history' = Append(history, m)
    BY DEF TurnInv, TalkTypeOK, Speaks
  <1>2. /\ UserAt(history') = UserAt(history) \cup (IF m.role = "user" THEN {Len(history) + 1} ELSE {})
        /\ \A i \in UserAt(history) : history'[i] = history[i] /\ Nth(history', i) = Nth(history, i)
        /\ history'[Len(history) + 1] = m
    BY <1>1, Appended
  <1>3. Spoken'
    BY <1>2 DEF TurnInv, Spoken
  <1>4. \A t : TalkName(t)' = TalkName(t)
    BY DEF TalkName
  <1>5. \A i \in UserAt(history) : TurnID(history, i)' = TurnID(history, i)
    BY <1>2, <1>4 DEF TurnID
  <1>6. \A e \in log : EnteredHere(e) => EnteredHere(e)'
    BY <1>2, <1>5 DEF EnteredHere
  <1>7. Logged'
    BY <1>4, <1>6 DEF TurnInv, Logged
  <1> QED
    BY <1>3, <1>7

LEMMA TurnInvInit ==
  ASSUME TalkInit
  PROVE  TurnInv
  <1>1. TalkTypeOK
    BY InitTyped
  <1>2. UserAt(history) = {}
    <2>1. \A i \in DOMAIN history : Instructs(history[i])
      BY ConversationAssumption DEF TalkInit
    <2> QED
      BY <2>1 DEF UserAt, Instructs
  <1>3. request.at = "none"
    BY DEF TalkInit, NoRequest
  <1> QED
    BY <1>1, <1>2, <1>3 DEF TurnInv, Spoken, Asked, Logged, TalkInit

\* What Asked and Logged say of a step that leaves the conversation and the log.
LEMMA QuietTurns ==
  ASSUME TurnInv, TalkTypeOK', UNCHANGED <<client, talk, history, log>>,
         (request'.at # "none") => (request.at # "none" /\ request'.id = request.id)
  PROVE  TurnInv'
  <1>1. Spoken' /\ Logged'
    BY DEF TurnInv, Spoken, Logged, EnteredHere, TurnID, TalkName
  <1>2. Asked'
    BY DEF TurnInv, Asked, TurnID, TalkName
  <1> QED
    BY <1>1, <1>2 DEF TurnInv

LEMMA TurnInvNext ==
  ASSUME TurnInv, [TalkNext]_talkVars
  PROVE  TurnInv'
  <1>1. TalkTypeOK /\ TalkTypeOK'
    BY NextTyped DEF TurnInv
  <1>2. ASSUME NEW m \in Messages, Speaks(m), m.role = "user" => Signature(m) # <<>>,
               UNCHANGED <<client, talk, log>>, request'.at = "none"
        PROVE  TurnInv'
    BY <1>1, <1>2, SpeakingKeepsTurns DEF TurnInv, Asked
  <1>3. CASE Say
    <2>1. PICK m \in Said : Speaks(m)
      BY <1>3 DEF Say
    <2>2. m \in Messages /\ Signature(m) # <<>>
      BY ConversationAssumption
    <2> QED
      BY <1>2, <1>3, <2>1, <2>2 DEF Say, Idle
  <1>4. CASE Return
    <2>1. PICK i \in waiting : Speaks([Message("tool", "plain") EXCEPT !.of = i])
      BY <1>4 DEF Return
    <2>2. [Message("tool", "plain") EXCEPT !.of = i] \in Messages
      BY <1>1, ResultTyped DEF TalkTypeOK
    <2>3. [Message("tool", "plain") EXCEPT !.of = i].role = "tool"
      BY DEF Message
    <2> QED
      BY <1>2, <1>4, <2>1, <2>2, <2>3 DEF Return, Idle
  <1>5. CASE Fail
    BY <1>1, <1>5, QuietTurns DEF Fail
  <1>6. CASE Notice
    <2>1. Message("developer", "plain") \in Messages /\ Message("developer", "plain").role = "developer"
      BY MessageTyped, BodiesAssumption DEF Roles
    <2> QED
      BY <1>2, <1>6, <2>1 DEF Notice, Idle
  <1>7. CASE NewTalk
    <2>1. UserAt(history') = {}
      <3>1. \A i \in DOMAIN history' : Instructs(history'[i])
        BY <1>1, <1>7, ConversationAssumption DEF NewTalk, TalkTypeOK
      <3> QED
        BY <3>1 DEF UserAt, Instructs
    <2>2. \A e \in log : e.talk \in 1..talk /\ talk \in Nat
      BY <1>1, ConversationAssumption DEF TalkTypeOK, TalkNames
    <2>3. Spoken' /\ Asked'
      BY <1>7, <2>1 DEF NewTalk, Spoken, Asked
    <2>4. \A t : TalkName(t)' = TalkName(t)
      BY <1>7 DEF NewTalk, TalkName
    <2>5. Logged'
      BY <1>7, <2>2, <2>4 DEF NewTalk, TurnInv, Logged
    <2> QED
      BY <1>1, <2>3, <2>5 DEF TurnInv
  <1>8. CASE Send
    <2>1. UNCHANGED <<client, talk, history, log>> /\ request'.at = "picking" /\ request'.id = RequestID(Body)
      BY <1>8 DEF Send, NoRequest
    <2>2. UserAt(history) # {}
      BY <1>8, FS_EmptySet DEF Send, Turn
    <2>3. Spoken' /\ Logged'
      BY <2>1 DEF TurnInv, Spoken, Logged, EnteredHere, TurnID, TalkName
    <2>4. Asked'
      <3>1. client.header = Blank => RequestID(Body) = TurnID(history, Latest(history))
        BY <1>1, <2>2, RequestIDIsTurnID DEF TurnInv
      <3> QED
        BY <2>1, <2>2, <3>1 DEF Asked, TurnID, TalkName
    <2> QED
      BY <1>1, <2>3, <2>4 DEF TurnInv
  <1>9. CASE Call
    <2> DEFINE new == [talk |-> talk, turn |-> Turn, id |-> request.id]
    <2>1. /\ request'.at = "calling" /\ request'.id = request.id /\ request.at = "picking"
          /\ log' = log \cup {new} /\ UNCHANGED <<client, talk, history>>
      BY <1>1, <1>9 DEF Call, TalkTypeOK, NoRequest
    <2>2. Spoken' /\ Asked'
      BY <2>1 DEF TurnInv, Spoken, Asked, TurnID, TalkName
    <2>3. ASSUME client.header = Blank
          PROVE  /\ EnteredHere(new) /\ new.id[2] = TalkName(talk)
                 /\ \A e \in log : e.talk = talk => (e.id = new.id <=> e.turn = new.turn)
      <3> DEFINE last == Latest(history)
      <3>1. last \in UserAt(history) /\ new.id = TurnID(history, last) /\ new.turn = Nth(history, last)
        BY <1>1, <2>1, <2>3, LatestIsLast DEF TurnInv, Asked, Turn, TalkTypeOK
      <3> HIDE DEF last, new
      <3>2. EnteredHere(new) /\ new.id[2] = TalkName(talk)
        BY <1>1, <3>1, TurnIDsDiffer DEF EnteredHere, TurnInv
      <3>3. ASSUME NEW e \in log, e.talk = talk
            PROVE  e.id = new.id <=> e.turn = new.turn
        <4>1. PICK i \in UserAt(history) : e.id = TurnID(history, i) /\ e.turn = Nth(history, i)
          BY <2>3, <3>3 DEF TurnInv, Logged, EnteredHere
        <4>2. TurnID(history, i) = TurnID(history, last) <=> i = last
          BY <1>1, <3>1, TurnIDsDiffer DEF TurnInv
        <4>3. Nth(history, i) = Nth(history, last) <=> i = last
          BY <1>1, <3>1, LaterIsMore DEF TalkTypeOK
        <4> QED
          BY <3>1, <4>1, <4>2, <4>3
      <3> QED
        BY <3>2, <3>3
    <2>4. \A t : TalkName(t)' = TalkName(t)
      BY <2>1 DEF TalkName
    <2>5. \A e : EnteredHere(e)' = EnteredHere(e)
      BY <2>1 DEF EnteredHere, TurnID, TalkName
    <2>6. new.talk = talk
      OBVIOUS
    <2> HIDE DEF new
    <2>7. Logged'
      BY <2>1, <2>3, <2>4, <2>5, <2>6 DEF Logged, TurnInv
    <2> QED
      BY <1>1, <2>2, <2>7 DEF TurnInv
  <1>10. CASE Succeed
    <2>1. PICK m \in Replies : Used + Len(m.calls) <= Len(CallIDs) /\ Speaks(Kept(m))
      BY <1>10 DEF Succeed
    <2>2. Kept(m) \in Messages /\ Kept(m).role = "assistant"
      BY <1>1, <2>1, KeptTyped
    <2>3. request'.at = "none"
      BY <1>10 DEF Succeed, NoRequest
    <2> QED
      BY <1>2, <1>10, <2>1, <2>2, <2>3 DEF Succeed
  <1>11. CASE Refuse
    <2>1. PICK a \in Refusals : Degrade(a) \/ Finish(a) \/ Rotate(a)
      BY <1>11 DEF Refuse
    <2>2. request.at = "calling"
      BY <1>11 DEF Refuse
    <2>3. CASE Degrade(a)
      BY <1>1, <1>11, <2>2, <2>3, QuietTurns DEF Degrade, Refuse, TalkTypeOK, NoRequest
    <2>4. CASE Finish(a)
      BY <1>1, <1>11, <2>4, QuietTurns DEF Finish, Ended, Refuse, NoRequest
    <2>5. CASE Rotate(a)
      BY <1>1, <1>11, <2>2, <2>5, QuietTurns DEF Rotate, Refuse, TalkTypeOK, NoRequest
    <2> QED
      BY <2>1, <2>3, <2>4, <2>5
  <1>12. CASE Unreachable
    BY <1>1, <1>12, QuietTurns DEF Unreachable, TalkTypeOK, NoRequest
  <1>13. CASE GiveUp
    BY <1>1, <1>13, QuietTurns DEF GiveUp, Ended, NoRequest
  <1>14. CASE Midnight
    BY <1>1, <1>14, QuietTurns DEF Midnight
  <1>15. CASE Recover
    BY <1>1, <1>15, QuietTurns DEF Recover
  <1>16. CASE UNCHANGED talkVars
    BY <1>1, <1>16, QuietTurns DEF talkVars
  <1> QED
    BY <1>3, <1>4, <1>5, <1>6, <1>7, <1>8, <1>9, <1>10, <1>11, <1>12, <1>13, <1>14, <1>15, <1>16 DEF TalkNext

LEMMA TurnInvCounts == TurnInv => OneTurnOneRequest
  <1> SUFFICES ASSUME TurnInv, client.header = Blank, NEW e \in log, NEW f \in log,
                      e.talk = f.talk \/ client.named # "no"
               PROVE  (e.id = f.id) <=> (e.talk = f.talk /\ e.turn = f.turn)
    BY DEF OneTurnOneRequest
  <1>1. CASE e.talk = f.talk
    BY <1>1 DEF TurnInv, Logged
  <1>2. CASE e.talk # f.talk
    <2>1. e.talk \in {1, 2} /\ f.talk \in {1, 2}
      BY ConversationAssumption, SMTT(30) DEF TurnInv, TalkTypeOK, TalkNames
    <2>2. TalkNames[e.talk] # TalkNames[f.talk]
      BY <1>2, <2>1 DEF TalkNames
    <2>3. e.id[2] = TalkNames[e.talk] /\ f.id[2] = TalkNames[f.talk]
      BY <1>2 DEF TurnInv, Logged, TalkName
    <2> QED
      BY <1>2, <2>2, <2>3
  <1> QED
    BY <1>1, <1>2

\* A conversation's messages, its request and its log are well typed.
THEOREM ConversationTypeCorrect == TalkSpec => []TalkTypeOK
  <1>1. TalkInit => TalkTypeOK
    BY InitTyped
  <1>2. TalkTypeOK /\ [TalkNext]_talkVars => TalkTypeOK'
    BY NextTyped
  <1> QED
    BY <1>1, <1>2, PTL DEF TalkSpec

\* session/ids.go, client.go: X-Conversation-Request-ID is the same for all calls of a turn and for
\* no others, for every client that sends no identifier of its own, however long it talks.
THEOREM TurnsAreRequests == TalkSpec => []OneTurnOneRequest
  <1>1. TalkInit => TurnInv
    BY TurnInvInit
  <1>2. TurnInv /\ [TalkNext]_talkVars => TurnInv'
    BY TurnInvNext
  <1> QED
    BY <1>1, <1>2, TurnInvCounts, PTL DEF TalkSpec

\* handler.go, applyErrorPolicy: what upstream says of the request alone, whatever else it says,
\* ends the request, costs no account, and is told with status 400 and a hint.
THEOREM RequestFaultsEndHere == TalkSpec => RequestFaultsStayHere
  <1> DEFINE Good == request'.last # request.last /\ OfTheRequest(request'.last) =>
                       /\ well' = well
                       /\ request'.at = "none" /\ Told(request'.last)[1] = 400
                       /\ Hint(request'.last, HasImagePart(request.body), "images") # NoHint
  <1>1. ASSUME TalkTypeOK, TalkNext, request'.last # request.last, OfTheRequest(request'.last)
        PROVE  Good
    <2>1. \E a \in Refusals : Finish(a) /\ request'.last = a
      <3>1. ~OfTheRequest(NoAnswer)
        BY DEF OfTheRequest, NoAnswer, Answer
      <3>2. NoRequest.last = NoAnswer
        BY DEF NoRequest
      <3>3. ~(Say \/ Return \/ Fail \/ Notice \/ NewTalk \/ Midnight \/ Recover)
        BY <1>1 DEF Say, Return, Fail, Notice, NewTalk, Midnight, Recover
      <3>4. ~Send
        BY <1>1, <3>1, <3>2 DEF Send, NoRequest
      <3>5. ~Call
        BY <1>1 DEF Call, TalkTypeOK, NoRequest
      <3>6. ~Succeed
        BY <1>1, <3>1, <3>2 DEF Succeed
      <3>7. ~Unreachable
        BY <1>1, <3>1 DEF Unreachable, TalkTypeOK, NoRequest
      <3>8. ~GiveUp
        BY <1>1 DEF GiveUp, Ended, NoRequest
      <3>9. PICK a \in Refusals : Degrade(a) \/ Finish(a) \/ Rotate(a)
        BY <1>1, <3>3, <3>4, <3>5, <3>6, <3>7, <3>8 DEF TalkNext, Refuse
      <3>10. ~Degrade(a)
        BY <1>1 DEF Degrade, TalkTypeOK, NoRequest
      <3>11. ~Rotate(a)
        <4>1. ASSUME Rotate(a) PROVE request'.last = a /\ ~IsFinal(a)
          BY <1>1, <4>1 DEF Rotate, TalkTypeOK, NoRequest
        <4> QED
          BY <1>1, <4>1, FirstOfThree, FinalsAreHarmless
      <3>12. Finish(a) => request'.last = a
        BY DEF Finish, Ended, NoRequest
      <3> QED
        BY <3>9, <3>10, <3>11, <3>12
    <2>2. PICK a \in Refusals : Finish(a) /\ request'.last = a
      BY <2>1
    <2>3. /\ IsFinal(a) /\ Penalty(a) = "nothing" /\ Told(a)[1] = 400
          /\ Hint(a, HasImagePart(request.body), "images") # NoHint
      BY <1>1, <2>2, FirstOfThree, FinalsAreHarmless
    <2>4. well' = well
      BY <2>2, <2>3 DEF Finish, Judge
    <2>5. request'.at = "none"
      BY <2>2 DEF Finish, Ended, NoRequest
    <2> QED
      BY <2>2, <2>3, <2>4, <2>5
  <1>2. TalkTypeOK /\ [TalkNext]_talkVars => [Good]_talkVars
    BY <1>1 DEF talkVars
  <1>3. TalkSpec => []TalkTypeOK
    BY ConversationTypeCorrect
  <1> QED
    BY <1>2, <1>3, PTL DEF TalkSpec, RequestFaultsStayHere

-----------------------------------------------------------------------------
\* Lemmas on sequences that are built element by element.

\* Induction, over the numbers up to n.
LEMMA UpTo ==
  ASSUME NEW n \in Nat, NEW T, 0 \in T, \A k \in 1..n : k - 1 \in T => k \in T
  PROVE  0..n \subseteq T
  <1> DEFINE Missing == {k \in 0..n : k \notin T}
  <1>1. SUFFICES ASSUME Missing # {} PROVE FALSE
    OBVIOUS
  <1>2. PICK x \in Missing : \A y \in Missing : x <= y
    <2>1. Missing \in SUBSET Nat
      OBVIOUS
    <2> HIDE DEF Missing
    <2>2. QED
      BY <1>1, <2>1, LeastNumber
  <1>3. x \in 1..n /\ x - 1 \in 0..n /\ ~(x <= x - 1)
    BY <1>2
  <1>4. x - 1 \in T
    BY <1>2, <1>3
  <1>5. QED
    BY <1>2, <1>3, <1>4

\* What goes from one value to the next has all of them.
Goes(f, n, S, first, G) ==
  f \in [0..n -> S] /\ f[0] = first /\ \A k \in 1..n : f[k] = G[k][f[k - 1]]
LEMMA Recursion ==
  ASSUME NEW n \in Nat, NEW S, NEW first \in S, NEW G \in [1..n -> [S -> S]]
  PROVE  \E f : Goes(f, n, S, first, G)
  <1> DEFINE T == {k \in 0..n : \E f : Goes(f, k, S, first, G)}
  <1>1. 0 \in T
    <2> DEFINE g == [k \in 0..0 |-> first]
    <2>1. g \in [0..0 -> S] /\ g[0] = first /\ 1..0 = {}
      OBVIOUS
    <2>2. Goes(g, 0, S, first, G)
      BY <2>1 DEF Goes
    <2> HIDE DEF g
    <2>3. QED
      BY <2>2
  <1>2. ASSUME NEW k \in 1..n, k - 1 \in T PROVE k \in T
    <2>1. PICK f : Goes(f, k - 1, S, first, G)
      BY <1>2
    <2>2. f \in [0..(k - 1) -> S] /\ f[0] = first /\ \A j \in 1..(k - 1) : f[j] = G[j][f[j - 1]]
      BY <2>1 DEF Goes
    <2> DEFINE g == [j \in 0..k |-> IF j = k THEN G[k][f[k - 1]] ELSE f[j]]
    <2>3. f[k - 1] \in S /\ G[k] \in [S -> S] /\ G[k][f[k - 1]] \in S
      BY <2>2
    <2>4. \A j \in 0..k : g[j] = IF j = k THEN G[k][f[k - 1]] ELSE f[j]
      OBVIOUS
    <2>5. \A j \in 0..k : j # k => j \in 0..(k - 1) /\ f[j] \in S
      BY <2>2
    <2>6. g \in [0..k -> S]
      BY <2>3, <2>5
    <2> HIDE DEF g
    <2>7. g[0] = first
      BY <2>2, <2>4
    <2>8. ASSUME NEW j \in 1..k PROVE g[j] = G[j][g[j - 1]]
      <3>1. g[j - 1] = f[j - 1]
        BY <2>4
      <3>2. CASE j = k
        BY <2>4, <3>1, <3>2
      <3>3. CASE j # k
        <4>1. j \in 1..(k - 1) /\ g[j] = f[j]
          BY <2>4, <3>3
        <4>2. QED
          BY <2>2, <3>1, <4>1
      <3>4. QED
        BY <3>2, <3>3
    <2>9. Goes(g, k, S, first, G)
      BY <2>6, <2>7, <2>8 DEF Goes
    <2>10. QED
      BY <2>9
  <1>3. n \in T
    <2> HIDE DEF T
    <2>1. 0..n \subseteq T
      BY <1>1, <1>2, UpTo
    <2>2. QED
      BY <2>1
  <1>4. QED
    BY <1>3

LEMMA AmongUnfold ==
  ASSUME NEW s, NEW T, NEW f,
         f = [n \in 0..Len(s) |->
               IF n = 0 THEN <<>> ELSE IF s[n] \in T THEN Append(f[n - 1], s[n]) ELSE f[n - 1]]
  PROVE  AmongFirst(s, T) = [n \in 0..Len(s) |->
           IF n = 0 THEN <<>>
           ELSE IF s[n] \in T THEN Append(AmongFirst(s, T)[n - 1], s[n]) ELSE AmongFirst(s, T)[n - 1]]
  BY Zenon DEF AmongFirst

\* AmongFirst has a value for every number of elements.
LEMMA AmongFirstFacts ==
  ASSUME NEW S, NEW s \in Seq(S), NEW T
  PROVE  /\ DOMAIN AmongFirst(s, T) = 0..Len(s)
         /\ AmongFirst(s, T)[0] = <<>>
         /\ \A n \in 1..Len(s) :
              AmongFirst(s, T)[n] =
                IF s[n] \in T THEN Append(AmongFirst(s, T)[n - 1], s[n]) ELSE AmongFirst(s, T)[n - 1]
  <1> DEFINE N == Len(s)
             All == Seq(S)
             Step(n, x) == IF s[n] \in T THEN Append(x, s[n]) ELSE x
             G == [n \in 1..N |-> [x \in All |-> Step(n, x)]]
  <1>1. N \in Nat /\ <<>> \in All
    OBVIOUS
  <1>2. \A n \in 1..N, x \in All : Step(n, x) \in All
    <2>1. \A n \in 1..N : s[n] \in S
      OBVIOUS
    <2>2. QED
      BY <2>1
  <1> HIDE DEF N, All, Step
  <1>3. G \in [1..N -> [All -> All]]
    BY <1>2
  <1>4. \A n \in 1..N, x \in All : G[n][x] = Step(n, x)
    OBVIOUS
  <1> HIDE DEF G
  <1>5. PICK f \in [0..N -> All] : f[0] = <<>> /\ \A k \in 1..N : f[k] = G[k][f[k - 1]]
    <2>1. \E f : Goes(f, N, All, <<>>, G)
      BY <1>1, <1>3, Recursion
    <2>2. QED
      BY <2>1 DEF Goes
  <1>6. \A k \in 1..N : k # 0 /\ f[k - 1] \in All /\ f[k] = Step(k, f[k - 1])
    BY <1>1, <1>4, <1>5
  <1>7. f = [n \in 0..N |-> IF n = 0 THEN <<>> ELSE Step(n, f[n - 1])]
    <2>1. \A n \in 0..N : f[n] = IF n = 0 THEN <<>> ELSE Step(n, f[n - 1])
      BY <1>1, <1>5, <1>6
    <2>2. QED
      BY <1>5, <2>1
  <1>8. f = [n \in 0..Len(s) |->
              IF n = 0 THEN <<>> ELSE IF s[n] \in T THEN Append(f[n - 1], s[n]) ELSE f[n - 1]]
    BY <1>7, Zenon DEF N, Step
  <1>9. AmongFirst(s, T) = [n \in 0..Len(s) |->
           IF n = 0 THEN <<>>
           ELSE IF s[n] \in T THEN Append(AmongFirst(s, T)[n - 1], s[n]) ELSE AmongFirst(s, T)[n - 1]]
    BY <1>8, AmongUnfold
  <1> DEFINE P == AmongFirst(s, T)
  <1>10. \A n \in 0..N : P[n] = IF n = 0 THEN <<>> ELSE IF s[n] \in T THEN Append(P[n - 1], s[n]) ELSE P[n - 1]
    BY <1>9, Zenon DEF N
  <1>11. DOMAIN P = 0..N
    BY <1>9, Zenon DEF N
  <1> HIDE DEF P
  <1>12. P[0] = <<>> /\ \A n \in 1..N : P[n] = IF s[n] \in T THEN Append(P[n - 1], s[n]) ELSE P[n - 1]
    BY <1>1, <1>10
  <1>13. QED
    BY <1>11, <1>12 DEF P, N

\* Where the elements of t stand in s: in their order, at the places in K.
Thinned(t, s, n, K) ==
  \E at \in [1..Len(t) -> 1..n] :
    /\ \A j, k \in 1..Len(t) : j < k => at[j] < at[k]
    /\ \A j \in 1..Len(t) : t[j] = s[at[j]] /\ at[j] \in K
    /\ \A i \in 1..n : i \in K => \E j \in 1..Len(t) : at[j] = i

LEMMA ThinnedGrows ==
  ASSUME NEW S, NEW s \in Seq(S), NEW t \in Seq(S), NEW K, NEW n \in 1..Len(s), Thinned(t, s, n - 1, K)
  PROVE  Thinned(IF n \in K THEN Append(t, s[n]) ELSE t, s, n, K)
  <1> DEFINE u == IF n \in K THEN Append(t, s[n]) ELSE t
  <1>1. PICK at \in [1..Len(t) -> 1..(n - 1)] :
          /\ \A j, k \in 1..Len(t) : j < k => at[j] < at[k]
          /\ \A j \in 1..Len(t) : t[j] = s[at[j]] /\ at[j] \in K
          /\ \A i \in 1..(n - 1) : i \in K => \E j \in 1..Len(t) : at[j] = i
    BY DEF Thinned
  <1>2. Len(t) \in Nat /\ n \in Nat /\ s[n] \in S /\ \A i \in 1..n : i # n => i \in 1..(n - 1)
    OBVIOUS
  <1>3. \A j \in 1..Len(t) : at[j] \in 1..n /\ at[j] < n
    BY <1>1, <1>2
  <1>4. CASE n \in K
    <2> DEFINE v == Append(t, s[n])
               to == [j \in 1..(Len(t) + 1) |-> IF j = Len(t) + 1 THEN n ELSE at[j]]
    <2>1. Len(v) = Len(t) + 1 /\ v[Len(t) + 1] = s[n] /\ \A j \in 1..Len(t) : v[j] = t[j]
      BY <1>2
    <2>2. \A j \in 1..(Len(t) + 1) : j # Len(t) + 1 => j \in 1..Len(t)
      BY <1>2
    <2>3. to \in [1..(Len(t) + 1) -> 1..n]
      BY <1>2, <1>3, <2>2
    <2>4. to[Len(t) + 1] = n /\ \A j \in 1..Len(t) : to[j] = at[j]
      BY <1>2
    <2> HIDE DEF v, to
    <2>5. ASSUME NEW j \in 1..(Len(t) + 1), NEW k \in 1..(Len(t) + 1), j < k PROVE to[j] < to[k]
      <3>1. j \in 1..Len(t) /\ to[j] = at[j] /\ at[j] \in 1..(n - 1)
        BY <1>1, <1>2, <2>4, <2>5
      <3>2. CASE k = Len(t) + 1
        BY <1>3, <2>4, <3>1, <3>2
      <3>3. CASE k # Len(t) + 1
        BY <1>1, <2>2, <2>4, <2>5, <3>1, <3>3
      <3>4. QED
        BY <3>2, <3>3
    <2>6. \A j \in 1..(Len(t) + 1) : v[j] = s[to[j]] /\ to[j] \in K
      BY <1>1, <1>4, <2>1, <2>2, <2>4
    <2>7. ASSUME NEW i \in 1..n, i \in K PROVE \E j \in 1..(Len(t) + 1) : to[j] = i
      <3>1. CASE i = n
        BY <1>2, <2>4, <3>1
      <3>2. CASE i # n
        <4>1. PICK j \in 1..Len(t) : at[j] = i
          BY <1>1, <1>2, <2>7, <3>2
        <4>2. QED
          BY <1>2, <2>4, <4>1
      <3>3. QED
        BY <3>1, <3>2
    <2>8. Thinned(v, s, n, K)
      <3> DEFINE m == Len(t) + 1
      <3>1. to \in [1..m -> 1..n] /\ Len(v) = m
        BY <2>1, <2>3
      <3> HIDE DEF m
      <3>2. \A j, k \in 1..m : j < k => to[j] < to[k]
        BY <2>5 DEF m
      <3>3. \A j \in 1..m : v[j] = s[to[j]] /\ to[j] \in K
        BY <2>6 DEF m
      <3>4. \A i \in 1..n : i \in K => \E j \in 1..m : to[j] = i
        BY <2>7 DEF m
      <3>5. QED
        BY <3>1, <3>2, <3>3, <3>4, ZenonT(40) DEF Thinned
    <2>9. QED
      BY <1>4, <2>8 DEF v
  <1>5. CASE n \notin K
    <2>1. at \in [1..Len(t) -> 1..n]
      BY <1>1, <1>3
    <2>2. \A i \in 1..n : i \in K => \E j \in 1..Len(t) : at[j] = i
      BY <1>1, <1>2, <1>5
    <2>3. Thinned(t, s, n, K)
      BY <1>1, <2>1, <2>2 DEF Thinned
    <2>4. QED
      BY <1>5, <2>3
  <1>6. QED
    BY <1>4, <1>5

LEMMA AmongThins ==
  ASSUME NEW S, NEW s \in Seq(S), NEW T
  PROVE  Among(s, T) \in Seq(S) /\ Thinned(Among(s, T), s, Len(s), {i \in 1..Len(s) : s[i] \in T})
  <1> DEFINE K == {i \in 1..Len(s) : s[i] \in T}
             P == AmongFirst(s, T)
             Good == {n \in 0..Len(s) : P[n] \in Seq(S) /\ Thinned(P[n], s, n, K)}
  <1>1. /\ P[0] = <<>>
        /\ \A n \in 1..Len(s) : P[n] = IF n \in K THEN Append(P[n - 1], s[n]) ELSE P[n - 1]
    BY AmongFirstFacts
  <1>2. Len(s) \in Nat
    OBVIOUS
  <1>3. 0 \in Good
    <2> DEFINE none == [j \in 1..0 |-> 0]
    <2>1. none \in [1..Len(<<>>) -> 1..0] /\ Len(<<>>) = 0 /\ 1..0 = {}
      OBVIOUS
    <2>2. Thinned(<<>>, s, 0, K)
      BY <2>1 DEF Thinned
    <2>3. P[0] \in Seq(S)
      BY <1>1
    <2>4. Thinned(P[0], s, 0, K)
      BY <1>1, <2>2
    <2> HIDE DEF P, K
    <2>5. QED
      BY <1>2, <2>3, <2>4
  <1> HIDE DEF K, P
  <1>4. ASSUME NEW n \in 1..Len(s), n - 1 \in Good PROVE n \in Good
    <2>1. P[n - 1] \in Seq(S) /\ Thinned(P[n - 1], s, n - 1, K) /\ s[n] \in S
      BY <1>4
    <2>2. P[n] = IF n \in K THEN Append(P[n - 1], s[n]) ELSE P[n - 1]
      BY <1>1
    <2>3. P[n] \in Seq(S) /\ Thinned(P[n], s, n, K)
      <3> DEFINE before == P[n - 1]
      <3>1. before \in Seq(S) /\ Thinned(before, s, n - 1, K)
        BY <2>1
      <3> HIDE DEF before
      <3>2. Thinned(IF n \in K THEN Append(before, s[n]) ELSE before, s, n, K)
        BY <3>1, ThinnedGrows
      <3>3. (IF n \in K THEN Append(before, s[n]) ELSE before) \in Seq(S)
        BY <2>1, <3>1
      <3>4. QED
        BY <2>2, <3>2, <3>3 DEF before
    <2>4. QED
      BY <2>3
  <1>5. Len(s) \in Good
    <2> HIDE DEF Good
    <2>1. 0..Len(s) \subseteq Good
      BY <1>2, <1>3, <1>4, UpTo
    <2>2. QED
      BY <1>2, <2>1
  <1>6. QED
    BY <1>5 DEF Among, P, K

\* What is left has the elements that are in T, and is s if all are.
LEMMA AmongFacts ==
  ASSUME NEW S, NEW s \in Seq(S), NEW T
  PROVE  /\ Among(s, T) \in Seq(S)
         /\ ToSet(Among(s, T)) = ToSet(s) \cap T
         /\ ToSet(s) \subseteq T => Among(s, T) = s
  <1> DEFINE t == Among(s, T)
             K == {i \in 1..Len(s) : s[i] \in T}
  <1>1. t \in Seq(S) /\ Thinned(t, s, Len(s), K)
    BY AmongThins
  <1> HIDE DEF t
  <1>2. PICK at \in [1..Len(t) -> 1..Len(s)] :
          /\ \A j, k \in 1..Len(t) : j < k => at[j] < at[k]
          /\ \A j \in 1..Len(t) : t[j] = s[at[j]] /\ at[j] \in K
          /\ \A i \in 1..Len(s) : i \in K => \E j \in 1..Len(t) : at[j] = i
    BY <1>1 DEF Thinned
  <1>3. DOMAIN t = 1..Len(t) /\ DOMAIN s = 1..Len(s) /\ Len(t) \in Nat /\ Len(s) \in Nat
    BY <1>1
  <1>4. ToSet(t) = ToSet(s) \cap T
    <2>1. ASSUME NEW x \in ToSet(t) PROVE x \in ToSet(s) \cap T
      BY <1>2, <1>3, <2>1 DEF ToSet
    <2>2. ASSUME NEW x \in ToSet(s), x \in T PROVE x \in ToSet(t)
      <3>1. PICK i \in 1..Len(s) : x = s[i]
        BY <1>3 DEF ToSet
      <3>2. PICK j \in 1..Len(t) : at[j] = i
        BY <1>2, <2>2, <3>1
      <3>3. QED
        BY <1>2, <1>3, <3>1, <3>2 DEF ToSet
    <2>3. QED
      BY <2>1, <2>2
  <1>5. ASSUME ToSet(s) \subseteq T PROVE t = s
    <2> DEFINE P == AmongFirst(s, T)
               Good == {n \in 0..Len(s) : P[n] \in Seq(S) /\ Len(P[n]) = n /\ \A i \in 1..n : P[n][i] = s[i]}
    <2>1. \A n \in 1..Len(s) : s[n] \in T /\ s[n] \in S
      BY <1>3, <1>5 DEF ToSet
    <2>2. P[0] = <<>> /\ \A n \in 1..Len(s) : P[n] = Append(P[n - 1], s[n])
      BY <2>1, AmongFirstFacts
    <2> HIDE DEF P
    <2>3. 0 \in Good
      <3>1. P[0] \in Seq(S) /\ Len(P[0]) = 0 /\ 1..0 = {}
        BY <2>2
      <3>2. QED
        BY <1>3, <3>1
    <2>4. ASSUME NEW n \in 1..Len(s), n - 1 \in Good PROVE n \in Good
      <3> DEFINE before == P[n - 1]
      <3>1. before \in Seq(S) /\ Len(before) = n - 1 /\ \A i \in 1..(n - 1) : before[i] = s[i]
        BY <2>4
      <3> HIDE DEF before
      <3>2. P[n] = Append(before, s[n]) /\ s[n] \in S
        BY <2>1, <2>2 DEF before
      <3>3. P[n] \in Seq(S) /\ Len(P[n]) = n /\ P[n][n] = s[n] /\ \A i \in 1..(n - 1) : P[n][i] = before[i]
        BY <1>3, <3>1, <3>2
      <3>4. \A i \in 1..n : P[n][i] = s[i]
        BY <1>3, <3>1, <3>3
      <3>5. QED
        BY <1>3, <3>3, <3>4
    <2>5. Len(s) \in Good
      <3> HIDE DEF Good
      <3>1. 0..Len(s) \subseteq Good
        BY <1>3, <2>3, <2>4, UpTo
      <3>2. QED
        BY <1>3, <3>1
    <2>6. t = P[Len(s)]
      BY DEF t, Among, P
    <2>7. QED
      BY <1>1, <1>3, <2>5, <2>6
  <1>6. QED
    BY <1>1, <1>4, <1>5 DEF t

-----------------------------------------------------------------------------
\* Repacking, message by message.

GroupStates ==
  [out : Seq(Messages), open : BOOLEAN, want : SUBSET Texts, results : Seq(Messages), between : Seq(Messages)]

\* A message that is a result the open group wants, and one that has to wait for its end.
Joins(g, m) == g.open /\ m.role = "tool" /\ m.of \in g.want
Waits(g, m) == g.open /\ m.role # "tool" /\ g.results # <<>> /\ ~HasCalls(m)

LEMMA CallFields ==
  ASSUME NEW m \in Messages
  PROVE  /\ \A c \in ToSet(m.calls) : c \in ToolCalls /\ c.id \in Texts /\ c.args \in Texts
         /\ IdsOf(m) \subseteq Texts
  <1>1. m.calls \in Seq(ToolCalls)
    BY MessageFields
  <1>2. \A c \in ToSet(m.calls) : c \in ToolCalls
    BY <1>1 DEF ToSet
  <1>3. \A c \in ToSet(m.calls) : c.id \in Texts /\ c.args \in Texts
    BY <1>2 DEF ToolCalls
  <1>4. IdsOf(m) \subseteq Texts
    BY <1>3 DEF IdsOf
  <1>5. QED
    BY <1>2, <1>3, <1>4

LEMMA StepShape ==
  ASSUME NEW g \in GroupStates, NEW m \in Messages
  PROVE  LET q == RepackStep(g, m)
         IN /\ q \in GroupStates
            /\ Joins(g, m) => q = [g EXCEPT !.results = Append(g.results, m)]
            /\ ~Joins(g, m) /\ Waits(g, m) => q = [g EXCEPT !.between = Append(g.between, m)]
            /\ ~Joins(g, m) /\ ~Waits(g, m) =>
                 q = [out |-> Append(g.out \o g.results \o g.between, m), open |-> HasCalls(m),
                      want |-> IF HasCalls(m) THEN IdsOf(m) ELSE {}, results |-> <<>>, between |-> <<>>]
  <1> DEFINE q == RepackStep(g, m)
  <1>1. /\ g.out \in Seq(Messages) /\ g.open \in BOOLEAN /\ g.want \in SUBSET Texts
        /\ g.results \in Seq(Messages) /\ g.between \in Seq(Messages)
    BY DEF GroupStates
  <1>2. g.out \o g.results \o g.between \in Seq(Messages) /\ HasCalls(m) \in BOOLEAN /\ IdsOf(m) \in SUBSET Texts
    BY <1>1, CallFields DEF HasCalls
  <1>3. ASSUME Joins(g, m)
        PROVE  q = [g EXCEPT !.results = Append(g.results, m)] /\ q \in GroupStates
    <2>1. q = [g EXCEPT !.results = Append(g.results, m)]
      BY <1>3 DEF Joins, RepackStep
    <2>2. Append(g.results, m) \in Seq(Messages)
      BY <1>1
    <2>3. QED
      BY <2>1, <2>2 DEF GroupStates
  <1>4. ASSUME ~Joins(g, m), Waits(g, m)
        PROVE  q = [g EXCEPT !.between = Append(g.between, m)] /\ q \in GroupStates
    <2>1. q = [g EXCEPT !.between = Append(g.between, m)]
      BY <1>4 DEF Joins, Waits, RepackStep
    <2>2. Append(g.between, m) \in Seq(Messages)
      BY <1>1
    <2>3. QED
      BY <2>1, <2>2 DEF GroupStates
  <1>5. ASSUME ~Joins(g, m), ~Waits(g, m)
        PROVE  /\ q = [out |-> Append(g.out \o g.results \o g.between, m), open |-> HasCalls(m),
                       want |-> IF HasCalls(m) THEN IdsOf(m) ELSE {}, results |-> <<>>, between |-> <<>>]
               /\ q \in GroupStates
    <2>1. q = OutsideGroup(CloseGroup(g), m)
      BY <1>5 DEF Joins, Waits, RepackStep
    <2>2. q = [out |-> Append(g.out \o g.results \o g.between, m), open |-> HasCalls(m),
               want |-> IF HasCalls(m) THEN IdsOf(m) ELSE {}, results |-> <<>>, between |-> <<>>]
      BY <2>1 DEF OutsideGroup, CloseGroup
    <2>3. Append(g.out \o g.results \o g.between, m) \in Seq(Messages)
      BY <1>2
    <2>4. <<>> \in Seq(Messages) /\ (IF HasCalls(m) THEN IdsOf(m) ELSE {}) \in SUBSET Texts
      BY <1>2
    <2>5. QED
      BY <1>2, <2>2, <2>3, <2>4 DEF GroupStates
  <1>6. QED
    BY <1>3, <1>4, <1>5

LEMMA GroupsUnfold ==
  ASSUME NEW s, NEW f, f = [n \in 0..Len(s) |-> IF n = 0 THEN NoGroup ELSE RepackStep(f[n - 1], s[n])]
  PROVE  Groups(s) = [n \in 0..Len(s) |-> IF n = 0 THEN NoGroup ELSE RepackStep(Groups(s)[n - 1], s[n])]
  BY Zenon DEF Groups

LEMMA GroupsFacts ==
  ASSUME NEW s \in Seq(Messages)
  PROVE  /\ Groups(s)[0] = NoGroup
         /\ \A n \in 0..Len(s) : Groups(s)[n] \in GroupStates
         /\ \A n \in 1..Len(s) : Groups(s)[n] = RepackStep(Groups(s)[n - 1], s[n])
  <1> DEFINE N == Len(s)
             Step(n, g) == RepackStep(g, s[n])
             G == [n \in 1..N |-> [g \in GroupStates |-> Step(n, g)]]
  <1>1. N \in Nat /\ NoGroup \in GroupStates
    BY DEF NoGroup, GroupStates
  <1>2. \A n \in 1..N, g \in GroupStates : Step(n, g) \in GroupStates
    <2>1. \A n \in 1..N : s[n] \in Messages
      OBVIOUS
    <2>2. QED
      BY <2>1, StepShape
  <1> HIDE DEF N, Step
  <1>3. G \in [1..N -> [GroupStates -> GroupStates]]
    BY <1>2
  <1>4. \A n \in 1..N, g \in GroupStates : G[n][g] = Step(n, g)
    OBVIOUS
  <1> HIDE DEF G
  <1>5. PICK f \in [0..N -> GroupStates] : f[0] = NoGroup /\ \A k \in 1..N : f[k] = G[k][f[k - 1]]
    <2>1. \E f : Goes(f, N, GroupStates, NoGroup, G)
      BY <1>1, <1>3, Recursion
    <2>2. QED
      BY <2>1 DEF Goes
  <1>6. \A k \in 1..N : k # 0 /\ f[k - 1] \in GroupStates /\ f[k] = Step(k, f[k - 1])
    BY <1>1, <1>4, <1>5
  <1>7. f = [n \in 0..N |-> IF n = 0 THEN NoGroup ELSE Step(n, f[n - 1])]
    <2>1. \A n \in 0..N : f[n] = IF n = 0 THEN NoGroup ELSE Step(n, f[n - 1])
      BY <1>1, <1>5, <1>6
    <2>2. QED
      BY <1>5, <2>1
  <1>8. f = [n \in 0..Len(s) |-> IF n = 0 THEN NoGroup ELSE RepackStep(f[n - 1], s[n])]
    BY <1>7, Zenon DEF N, Step
  <1> DEFINE P == Groups(s)
  <1>9. P = [n \in 0..Len(s) |-> IF n = 0 THEN NoGroup ELSE RepackStep(P[n - 1], s[n])]
    BY <1>8, GroupsUnfold
  <1>10. \A n \in 0..N : P[n] = IF n = 0 THEN NoGroup ELSE Step(n, P[n - 1])
    BY <1>9, Zenon DEF N, Step
  <1> HIDE DEF P
  <1>11. P[0] = NoGroup /\ \A n \in 1..N : P[n] = Step(n, P[n - 1])
    BY <1>1, <1>10
  <1>12. \A n \in 0..N : P[n] \in GroupStates
    <2> DEFINE Good == {n \in 0..N : P[n] \in GroupStates}
    <2>1. 0 \in Good
      BY <1>1, <1>11
    <2>2. \A n \in 1..N : n - 1 \in Good => n \in Good
      BY <1>1, <1>2, <1>11
    <2> HIDE DEF Good
    <2>3. 0..N \subseteq Good
      BY <1>1, <2>1, <2>2, UpTo
    <2>4. QED
      BY <2>3 DEF Good
  <1>13. QED
    BY <1>11, <1>12 DEF P, N, Step

-----------------------------------------------------------------------------
\* Calls and results, as a client keeps them and as upstream wants them.

Heads(s) == {i \in DOMAIN s : HasCalls(s[i])}
Results(s) == {k \in DOMAIN s : s[k].role = "tool"}
Talks(m) == m.role \in {"user", "assistant"}

\* No two calls have one identifier, no two results one call.
Once(s) ==
  /\ \A i, j \in Heads(s) : i # j => IdsOf(s[i]) \cap IdsOf(s[j]) = {}
  /\ \A k, l \in Results(s) : k # l => s[k].of # s[l].of

\* A result comes before anybody says something again, and whatever else comes between it and its
\* call is behind another result.
Near(s, i, k) ==
  /\ i < k /\ s[k].of \in IdsOf(s[i]) /\ s[i + 1].role = "tool"
  /\ \A j \in (i + 1)..(k - 1) : ~Talks(s[j])
Sound(s) == Once(s) /\ \A k \in Results(s) : \E i \in Heads(s) : Near(s, i, k)

\* Nothing but results between a result and its call.
Behind(s, i, k) == i < k /\ s[k].of \in IdsOf(s[i]) /\ \A j \in (i + 1)..k : s[j].role = "tool"
Packed(s) == Once(s) /\ \A k \in Results(s) : \E i \in Heads(s) : Behind(s, i, k)

\* A result for each call, and no other.
Met(s) ==
  /\ \A i \in Heads(s) :
       LET n == Cardinality(IdsOf(s[i]))
       IN i + n <= Len(s) /\ (\A j \in (i + 1)..(i + n) : s[j].role = "tool")
          /\ {s[j].of : j \in (i + 1)..(i + n)} = IdsOf(s[i])
  /\ \A k \in Results(s) : \E i \in Heads(s) : i < k /\ k <= i + Cardinality(IdsOf(s[i]))

LEMMA IndexFacts ==
  ASSUME NEW s \in Seq(Messages)
  PROVE  /\ Len(s) \in Nat /\ DOMAIN s = 1..Len(s)
         /\ \A i \in 1..Len(s) : s[i] \in Messages
         /\ \A i \in Heads(s) : i \in 1..Len(s) /\ i \in Nat /\ HasCalls(s[i])
         /\ \A k \in Results(s) : k \in 1..Len(s) /\ k \in Nat /\ s[k].role = "tool"
         /\ ToSet(s) = {s[i] : i \in 1..Len(s)}
  <1>1. Len(s) \in Nat /\ DOMAIN s = 1..Len(s) /\ \A i \in 1..Len(s) : s[i] \in Messages
    OBVIOUS
  <1>2. QED
    BY <1>1 DEF Heads, Results, ToSet

\* A message that shares nothing with those of a sequence may stand anywhere in it.
Apart(m, x) ==
  /\ HasCalls(m) /\ HasCalls(x) => IdsOf(m) \cap IdsOf(x) = {}
  /\ m.role = "tool" /\ x.role = "tool" => m.of # x.of

\* One message among others.
Into(a, m, b) == a \o <<m>> \o b
Parts(s, a, b) == s = a \o b
Comes(t, a, m, b) == t = Into(a, m, b)

LEMMA Inserted ==
  ASSUME NEW a \in Seq(Messages), NEW b \in Seq(Messages), NEW m \in Messages,
         NEW s, Parts(s, a, b), Once(s), \A x \in ToSet(s) : Apart(m, x), NEW t, Comes(t, a, m, b)
  PROVE  Once(t) /\ ToSet(t) = ToSet(s) \cup {m}
  <1> DEFINE n == Len(a) + 1
             Old(k) == IF k < n THEN k ELSE k - 1
  <1>0. s = a \o b /\ t = a \o <<m>> \o b
    BY DEF Into, Parts, Comes
  <1>1. s \in Seq(Messages) /\ t \in Seq(Messages) /\ n \in Nat /\ n >= 1 /\ Len(s) \in Nat
    BY <1>0
  <1>2. Len(t) = Len(s) + 1 /\ n <= Len(t)
    BY <1>0
  <1>3. t[n] = m /\ \A k \in 1..Len(t) : k # n => Old(k) \in 1..Len(s) /\ t[k] = s[Old(k)]
    <2>1. t[n] = m
      BY <1>0
    <2>2. ASSUME NEW k \in 1..Len(t), k # n PROVE Old(k) \in 1..Len(s) /\ t[k] = s[Old(k)]
      <3>1. Len(s) = Len(a) + Len(b) /\ Len(a) \in Nat /\ Len(b) \in Nat
        BY <1>0
      <3>2. CASE k < n
        BY <1>0, <3>1, <3>2
      <3>3. CASE k > n
        BY <1>0, <1>2, <3>1, <3>3
      <3>4. QED
        BY <2>2, <3>1, <3>2, <3>3
    <2>3. QED
      BY <2>1, <2>2
  <1>4. \A k \in 1..Len(s) : \E l \in 1..Len(t) : l # n /\ Old(l) = k
    <2> SUFFICES ASSUME NEW k \in 1..Len(s) PROVE \E l \in 1..Len(t) : l # n /\ Old(l) = k
      OBVIOUS
    <2>1. CASE k < n
      BY <1>1, <1>2, <2>1, SMTT(30)
    <2>2. CASE k >= n
      <3>1. k + 1 \in 1..Len(t) /\ k + 1 # n /\ Old(k + 1) = k
        BY <1>1, <1>2, <2>2
      <3>2. QED
        BY <3>1
    <2>3. QED
      BY <1>1, <2>1, <2>2
  <1>5. \A k, l \in 1..Len(t) : k # n /\ l # n /\ k # l => Old(k) # Old(l)
    BY <1>1, <1>2
  <1>6. \A k \in 1..Len(s) : Apart(m, s[k])
    BY <1>1, IndexFacts
  <1>7. Once(s) /\ DOMAIN s = 1..Len(s) /\ DOMAIN t = 1..Len(t)
    BY <1>1
  <1> HIDE DEF n, Old
  <1>8. ASSUME NEW i \in Heads(t), NEW j \in Heads(t), i # j PROVE IdsOf(t[i]) \cap IdsOf(t[j]) = {}
    <2>1. i \in 1..Len(t) /\ j \in 1..Len(t) /\ HasCalls(t[i]) /\ HasCalls(t[j])
      BY <1>7 DEF Heads
    <2>2. CASE i = n
      BY <1>3, <1>6, <1>8, <2>1, <2>2 DEF Apart
    <2>3. CASE j = n
      BY <1>3, <1>6, <1>8, <2>1, <2>3 DEF Apart
    <2>4. CASE i # n /\ j # n
      <3>1. Old(i) \in Heads(s) /\ Old(j) \in Heads(s) /\ Old(i) # Old(j)
        BY <1>3, <1>5, <1>7, <1>8, <2>1, <2>4 DEF Heads
      <3>2. QED
        BY <1>3, <1>7, <2>1, <2>4, <3>1 DEF Once
    <2>5. QED
      BY <2>2, <2>3, <2>4
  <1>9. ASSUME NEW i \in Results(t), NEW j \in Results(t), i # j PROVE t[i].of # t[j].of
    <2>1. i \in 1..Len(t) /\ j \in 1..Len(t) /\ t[i].role = "tool" /\ t[j].role = "tool"
      BY <1>7 DEF Results
    <2>2. CASE i = n
      BY <1>3, <1>6, <1>9, <2>1, <2>2 DEF Apart
    <2>3. CASE j = n
      BY <1>3, <1>6, <1>9, <2>1, <2>3 DEF Apart
    <2>4. CASE i # n /\ j # n
      <3>1. Old(i) \in Results(s) /\ Old(j) \in Results(s) /\ Old(i) # Old(j)
        BY <1>3, <1>5, <1>7, <1>9, <2>1, <2>4 DEF Results
      <3>2. QED
        BY <1>3, <1>7, <2>1, <2>4, <3>1 DEF Once
    <2>5. QED
      BY <2>2, <2>3, <2>4
  <1>10. ToSet(t) = ToSet(s) \cup {m}
    <2>1. ToSet(t) = {t[k] : k \in 1..Len(t)} /\ ToSet(s) = {s[k] : k \in 1..Len(s)}
      BY <1>7 DEF ToSet
    <2>2. n \in 1..Len(t)
      BY <1>1, <1>2
    <2>3. \A k \in 1..Len(t) : t[k] \in ToSet(s) \cup {m}
      BY <1>3, <2>1
    <2>4. \A k \in 1..Len(s) : s[k] \in ToSet(t)
      BY <1>3, <1>4, <2>1
    <2>5. m \in ToSet(t)
      BY <1>3, <2>1, <2>2
    <2>6. QED
      BY <2>1, <2>3, <2>4, <2>5
  <1>11. QED
    BY <1>8, <1>9, <1>10 DEF Once

-----------------------------------------------------------------------------
\* What is kept of a longer sequence.

LEMMA SamePrefix ==
  ASSUME NEW S, NEW s \in Seq(S), NEW t \in Seq(S), NEW T, NEW n \in Nat, n <= Len(s), n <= Len(t),
         \A i \in 1..n : s[i] = t[i]
  PROVE  AmongFirst(s, T)[n] = AmongFirst(t, T)[n]
  <1> DEFINE P == AmongFirst(s, T)
             Q == AmongFirst(t, T)
             Good == {k \in 0..n : P[k] = Q[k]}
  <1>1. P[0] = <<>> /\ \A k \in 1..Len(s) : P[k] = IF s[k] \in T THEN Append(P[k - 1], s[k]) ELSE P[k - 1]
    BY AmongFirstFacts
  <1>2. Q[0] = <<>> /\ \A k \in 1..Len(t) : Q[k] = IF t[k] \in T THEN Append(Q[k - 1], t[k]) ELSE Q[k - 1]
    BY AmongFirstFacts
  <1> HIDE DEF P, Q
  <1>3. \A k \in 1..n : k \in 1..Len(s) /\ k \in 1..Len(t) /\ s[k] = t[k]
    OBVIOUS
  <1>4. 0 \in Good
    BY <1>1, <1>2
  <1>5. ASSUME NEW k \in 1..n, k - 1 \in Good PROVE k \in Good
    <2>1. P[k - 1] = Q[k - 1] /\ k \in 0..n
      BY <1>5
    <2>2. P[k] = Q[k]
      BY <1>1, <1>2, <1>3, <2>1, Zenon
    <2>3. QED
      BY <2>1, <2>2
  <1>6. n \in Good
    <2> HIDE DEF Good
    <2>1. 0..n \subseteq Good
      BY <1>4, <1>5, UpTo
    <2>2. QED
      BY <2>1
  <1>7. QED
    BY <1>6 DEF P, Q

LEMMA AmongAppend ==
  ASSUME NEW S, NEW s \in Seq(S), NEW x \in S, NEW T
  PROVE  Among(Append(s, x), T) = IF x \in T THEN Append(Among(s, T), x) ELSE Among(s, T)
  <1> DEFINE t == Append(s, x)
             n == Len(s)
  <1>1. /\ t \in Seq(S) /\ Len(t) = n + 1 /\ n \in Nat /\ t[n + 1] = x /\ n <= Len(t)
        /\ \A i \in 1..n : t[i] = s[i]
    OBVIOUS
  <1> HIDE DEF t
  <1>2. AmongFirst(s, T)[n] = AmongFirst(t, T)[n]
    BY <1>1, SamePrefix
  <1>3. AmongFirst(t, T)[n + 1] =
          IF t[n + 1] \in T THEN Append(AmongFirst(t, T)[(n + 1) - 1], t[n + 1]) ELSE AmongFirst(t, T)[(n + 1) - 1]
    <2>1. n + 1 \in 1..Len(t)
      BY <1>1
    <2>2. QED
      BY <1>1, <2>1, AmongFirstFacts
  <1>4. (n + 1) - 1 = n
    BY <1>1
  <1>5. QED
    BY <1>1, <1>2, <1>3, <1>4, Zenon DEF Among, t

LEMMA AmongInto ==
  ASSUME NEW S, NEW a \in Seq(S), NEW b \in Seq(S), NEW m \in S, NEW T, m \notin T,
         NEW x, Parts(x, a, b), NEW y, Comes(y, a, m, b)
  PROVE  Among(y, T) = Among(x, T)
  <1> DEFINE n == Len(a)
             l == Len(b)
             P == AmongFirst(x, T)
             Q == AmongFirst(y, T)
             Good == {k \in 0..l : Q[n + k + 1] = P[n + k]}
  <1>0. x = a \o b /\ y = a \o <<m>> \o b
    BY DEF Parts, Comes, Into
  <1>1. /\ x \in Seq(S) /\ y \in Seq(S) /\ n \in Nat /\ l \in Nat /\ Len(x) = n + l /\ Len(y) = n + l + 1
        /\ y[n + 1] = m /\ \A i \in 1..n : x[i] = y[i]
    BY <1>0
  <1>2. \A k \in 1..l : x[n + k] = b[k] /\ y[n + k + 1] = b[k]
    BY <1>0
  <1> HIDE DEF n, l
  <1>3. /\ \A k \in 1..(n + l) : P[k] = IF x[k] \in T THEN Append(P[k - 1], x[k]) ELSE P[k - 1]
        /\ \A k \in 1..(n + l + 1) : Q[k] = IF y[k] \in T THEN Append(Q[k - 1], y[k]) ELSE Q[k - 1]
    <2>0. x \in Seq(S) /\ y \in Seq(S)
      BY <1>1
    <2>1. \A k \in 1..Len(x) : P[k] = IF x[k] \in T THEN Append(P[k - 1], x[k]) ELSE P[k - 1]
      BY <2>0, AmongFirstFacts
    <2>2. \A k \in 1..Len(y) : Q[k] = IF y[k] \in T THEN Append(Q[k - 1], y[k]) ELSE Q[k - 1]
      BY <2>0, AmongFirstFacts
    <2> HIDE DEF P, Q
    <2>3. QED
      BY <1>1, <2>1, <2>2
  <1>4. P[n] = Q[n]
    <2>1. n \in Nat /\ n <= Len(x) /\ n <= Len(y) /\ x \in Seq(S) /\ y \in Seq(S)
      BY <1>1
    <2>2. \A i \in 1..n : x[i] = y[i]
      BY <1>1
    <2>3. AmongFirst(x, T)[n] = AmongFirst(y, T)[n]
      BY <2>1, <2>2, SamePrefix
    <2>4. QED
      BY <2>3
  <1> HIDE DEF P, Q
  <1>5. 0 \in Good
    <2>1. n + 1 \in 1..(n + l + 1) /\ (n + 1) - 1 = n /\ n + 0 + 1 = n + 1 /\ n + 0 = n
      BY <1>1
    <2>2. Q[n + 1] = Q[n]
      BY <1>1, <1>3, <2>1
    <2>3. QED
      BY <1>1, <1>4, <2>1, <2>2
  <1>6. ASSUME NEW k \in 1..l, k - 1 \in Good PROVE k \in Good
    <2>1. Q[n + (k - 1) + 1] = P[n + (k - 1)]
      BY <1>6
    <2>2. /\ n + (k - 1) + 1 = n + k /\ n + (k - 1) = (n + k) - 1 /\ (n + k + 1) - 1 = n + k
          /\ n + k \in 1..(n + l) /\ n + k + 1 \in 1..(n + l + 1) /\ k \in 0..l
      BY <1>1
    <2>3. Q[n + k] = P[(n + k) - 1] /\ x[n + k] = y[n + k + 1]
      BY <1>2, <2>1, <2>2
    <2>4. Q[n + k + 1] = P[n + k]
      <3>1. P[n + k] = IF x[n + k] \in T THEN Append(P[(n + k) - 1], x[n + k]) ELSE P[(n + k) - 1]
        BY <1>3, <2>2
      <3>2. Q[n + k + 1] = IF y[n + k + 1] \in T THEN Append(Q[(n + k + 1) - 1], y[n + k + 1]) ELSE Q[(n + k + 1) - 1]
        BY <1>3, <2>2
      <3>3. QED
        BY <2>2, <2>3, <3>1, <3>2
    <2>5. QED
      BY <2>2, <2>4
  <1>7. l \in Good
    <2> HIDE DEF Good
    <2>1. 0..l \subseteq Good
      BY <1>1, <1>5, <1>6, UpTo
    <2>2. QED
      BY <1>1, <2>1
  <1>8. Q[n + l + 1] = P[n + l]
    BY <1>7
  <1>9. QED
    BY <1>1, <1>8 DEF Among, P, Q

-----------------------------------------------------------------------------
\* Repacking keeps every message, and puts results behind their calls.

All(g) == g.out \o g.results \o g.between

\* The open group: its message with calls is the last one put out.
Grouped(g) ==
  /\ g.open => Len(g.out) \in Heads(g.out) /\ g.want = IdsOf(g.out[Len(g.out)])
  /\ ~g.open => g.results = <<>> /\ g.between = <<>>
  /\ \A k \in 1..Len(g.results) : g.results[k].role = "tool" /\ g.results[k].of \in g.want
  /\ \A k \in 1..Len(g.between) : g.between[k].role # "tool"
PutBehind(s) == \A k \in Results(s) : \E i \in Heads(s) : Behind(s, i, k)

\* While its results come, the group of a message with calls is open.
Expected(s, n, i) ==
  i <= n /\ (\A j \in (i + 1)..n : ~Talks(s[j])) /\ (i < n => s[i + 1].role = "tool")
Expecting(s, n, g) ==
  \A i \in Heads(s) :
    Expected(s, n, i) => g.open /\ g.want = IdsOf(s[i]) /\ (i < n => g.results # <<>>)

\* What is said stays in its order.
Talkers == {m \in Messages : Talks(m)}

Packs(s, n, g) ==
  /\ ToSet(All(g)) = {s[k] : k \in 1..n} /\ Once(All(g))
  /\ Among(All(g), Talkers) = AmongFirst(s, Talkers)[n]
  /\ PutBehind(g.out) /\ Grouped(g) /\ Expecting(s, n, g)

LEMMA GroupFields ==
  ASSUME NEW g \in GroupStates
  PROVE  /\ g.out \in Seq(Messages) /\ g.open \in BOOLEAN /\ g.want \in SUBSET Texts
         /\ g.results \in Seq(Messages) /\ g.between \in Seq(Messages) /\ All(g) \in Seq(Messages)
  <1>1. /\ g.out \in Seq(Messages) /\ g.open \in BOOLEAN /\ g.want \in SUBSET Texts
        /\ g.results \in Seq(Messages) /\ g.between \in Seq(Messages)
    BY DEF GroupStates
  <1>2. QED
    BY <1>1 DEF All

\* A group that ends has its results behind its calls.
LEMMA ClosingPacks ==
  ASSUME NEW g \in GroupStates, PutBehind(g.out), Grouped(g)
  PROVE  PutBehind(All(g))
  <1> DEFINE a == g.out
             b == g.results
             c == g.between
             t == All(g)
  <1>1. a \in Seq(Messages) /\ b \in Seq(Messages) /\ c \in Seq(Messages) /\ t \in Seq(Messages)
    BY GroupFields
  <1>2. t = a \o b \o c
    BY DEF All
  <1>3. Grouped(g) /\ PutBehind(a)
    OBVIOUS
  <1> HIDE DEF a, b, c, t
  <1>4. Len(t) = Len(a) + Len(b) + Len(c) /\ Len(a) \in Nat /\ Len(b) \in Nat /\ Len(c) \in Nat
    BY <1>1, <1>2
  <1>5. /\ \A k \in 1..Len(a) : t[k] = a[k]
        /\ \A k \in (Len(a) + 1)..(Len(a) + Len(b)) : t[k] = b[k - Len(a)] /\ k - Len(a) \in 1..Len(b)
        /\ \A k \in (Len(a) + Len(b) + 1)..Len(t) :
             t[k] = c[k - Len(a) - Len(b)] /\ k - Len(a) - Len(b) \in 1..Len(c)
    BY <1>1, <1>2, <1>4
  <1>6. /\ \A k \in 1..Len(b) : g.open /\ b[k].role = "tool" /\ b[k].of \in g.want
        /\ \A k \in 1..Len(c) : c[k].role # "tool"
        /\ g.open => Len(a) \in Heads(a) /\ g.want = IdsOf(a[Len(a)])
    BY <1>1, <1>3, GroupFields DEF Grouped, a, b, c
  <1>7. \A i \in Heads(a) : i \in Heads(t) /\ i \in 1..Len(a)
    BY <1>1, <1>4, <1>5 DEF Heads
  <1>8. SUFFICES ASSUME NEW k \in Results(t) PROVE \E i \in Heads(t) : Behind(t, i, k)
    BY DEF PutBehind, t
  <1>9. k \in 1..Len(t) /\ t[k].role = "tool"
    BY <1>1 DEF Results
  <1>10. CASE k <= Len(a)
    <2>1. k \in Results(a)
      BY <1>1, <1>4, <1>5, <1>9, <1>10 DEF Results
    <2>2. PICK i \in Heads(a) : Behind(a, i, k)
      BY <1>3, <2>1 DEF PutBehind
    <2>3. i \in 1..Len(a) /\ k \in 1..Len(a) /\ \A j \in (i + 1)..k : j \in 1..Len(a) /\ t[j] = a[j]
      BY <1>4, <1>5, <1>7, <1>9, <1>10
    <2>4. Behind(t, i, k)
      BY <1>5, <2>2, <2>3 DEF Behind
    <2>5. QED
      BY <1>7, <2>4
  <1>11. CASE k > Len(a) /\ k <= Len(a) + Len(b)
    <2>1. k \in (Len(a) + 1)..(Len(a) + Len(b))
      BY <1>4, <1>9, <1>11
    <2>2. g.open /\ t[k].of \in g.want
      BY <1>5, <1>6, <2>1
    <2>3. Len(a) \in Heads(t) /\ t[Len(a)] = a[Len(a)] /\ Len(a) < k
      BY <1>5, <1>6, <1>7, <1>11, <2>2
    <2>4. \A j \in (Len(a) + 1)..k : t[j].role = "tool"
      <3> SUFFICES ASSUME NEW j \in (Len(a) + 1)..k PROVE t[j].role = "tool"
        OBVIOUS
      <3>1. j \in (Len(a) + 1)..(Len(a) + Len(b))
        BY <1>4, <2>1
      <3>2. QED
        BY <1>5, <1>6, <3>1
    <2>5. Behind(t, Len(a), k)
      BY <1>6, <2>2, <2>3, <2>4 DEF Behind
    <2>6. QED
      BY <2>3, <2>5
  <1>12. CASE k > Len(a) + Len(b)
    <2>1. k \in (Len(a) + Len(b) + 1)..Len(t)
      BY <1>4, <1>9, <1>12
    <2>2. QED
      BY <1>5, <1>6, <1>9, <2>1
  <1>13. QED
    BY <1>4, <1>9, <1>10, <1>11, <1>12

\* What comes in is apart from what came before.
LEMMA NextIsApart ==
  ASSUME NEW s \in Seq(Messages), Once(s), NEW n \in 1..Len(s), NEW S, S = {s[k] : k \in 1..(n - 1)}
  PROVE  \A x \in S : Apart(s[n], x)
  <1> SUFFICES ASSUME NEW k \in 1..(n - 1) PROVE Apart(s[n], s[k])
    OBVIOUS
  <1>1. k \in DOMAIN s /\ n \in DOMAIN s /\ k # n
    OBVIOUS
  <1>2. QED
    BY <1>1 DEF Apart, Once, Heads, Results

\* A result finds its group open.
LEMMA ResultJoins ==
  ASSUME NEW s \in Seq(Messages), Sound(s), NEW n \in 1..Len(s), NEW g \in GroupStates, Expecting(s, n - 1, g),
         s[n].role = "tool"
  PROVE  Joins(g, s[n])
  <1>1. n \in Results(s) /\ Len(s) \in Nat
    BY DEF Results
  <1>2. PICK i \in Heads(s) : Near(s, i, n)
    BY <1>1 DEF Sound
  <1>3. i \in 1..Len(s) /\ i < n
    BY <1>2, IndexFacts DEF Near
  <1>4. Expected(s, n - 1, i)
    BY <1>2, <1>3 DEF Expected, Near
  <1>5. QED
    BY <1>2, <1>4 DEF Expecting, Joins, Near

\* One more of them may come in anywhere.
LEMMA OneMore ==
  ASSUME NEW s \in Seq(Messages), Once(s), NEW n \in 1..Len(s),
         NEW x, Once(x), ToSet(x) = {s[k] : k \in 1..(n - 1)}, Among(x, Talkers) = AmongFirst(s, Talkers)[n - 1],
         NEW a \in Seq(Messages), NEW b \in Seq(Messages), Talks(s[n]) => b = <<>>,
         Parts(x, a, b), NEW y, Comes(y, a, s[n], b)
  PROVE  ToSet(y) = {s[k] : k \in 1..n} /\ Once(y) /\ Among(y, Talkers) = AmongFirst(s, Talkers)[n]
  <1> DEFINE m == s[n]
  <1>1. m \in Messages /\ Comes(y, a, m, b)
    OBVIOUS
  <1>2. \A z \in ToSet(x) : Apart(m, z)
    BY NextIsApart
  <1>3. {s[k] : k \in 1..n} = {s[k] : k \in 1..(n - 1)} \cup {m}
    OBVIOUS
  <1>6. AmongFirst(s, Talkers)[n] =
          IF m \in Talkers THEN Append(AmongFirst(s, Talkers)[n - 1], m) ELSE AmongFirst(s, Talkers)[n - 1]
    BY AmongFirstFacts
  <1>7. Talks(m) => b = <<>>
    OBVIOUS
  <1> HIDE DEF m
  <1>4. Once(y) /\ ToSet(y) = ToSet(x) \cup {m}
    BY <1>1, <1>2, Inserted
  <1>8. CASE m \in Talkers
    <2>1. b = <<>> /\ a \in Seq(Messages)
      BY <1>7, <1>8 DEF Talkers
    <2>2. x = a /\ y = Append(a, m)
      BY <1>1, <2>1 DEF Parts, Comes, Into
    <2>3. Among(y, Talkers) = Append(Among(x, Talkers), m)
      BY <1>1, <1>8, <2>1, <2>2, AmongAppend
    <2>4. QED
      BY <1>3, <1>4, <1>6, <1>8, <2>3
  <1>9. CASE m \notin Talkers
    <2>1. Among(y, Talkers) = Among(x, Talkers)
      BY <1>1, <1>9, AmongInto
    <2>2. QED
      BY <1>3, <1>4, <1>6, <1>9, <2>1
  <1>10. QED
    BY <1>8, <1>9

LEMMA CallerTalks ==
  ASSUME NEW m, HasCalls(m)
  PROVE  m.role = "assistant" /\ m.role # "tool" /\ Talks(m)
  BY DEF HasCalls, Talks

LEMMA PutBehindGrows ==
  ASSUME NEW s \in Seq(Messages), NEW m \in Messages, PutBehind(s), m.role # "tool"
  PROVE  PutBehind(Append(s, m))
  <1> DEFINE t == Append(s, m)
  <1>1. /\ t \in Seq(Messages) /\ Len(t) = Len(s) + 1 /\ Len(s) \in Nat /\ t[Len(t)] = m
        /\ \A k \in 1..Len(s) : t[k] = s[k]
    OBVIOUS
  <1> HIDE DEF t
  <1>2. SUFFICES ASSUME NEW k \in Results(t) PROVE \E i \in Heads(t) : Behind(t, i, k)
    BY DEF PutBehind, t
  <1>3. k \in 1..Len(s) /\ s[k].role = "tool" /\ k \in Results(s)
    BY <1>1 DEF Results
  <1>4. PICK i \in Heads(s) : Behind(s, i, k)
    BY <1>3 DEF PutBehind
  <1>5. i \in 1..Len(s) /\ \A j \in (i + 1)..k : j \in 1..Len(s) /\ t[j] = s[j]
    BY <1>1, <1>3, IndexFacts
  <1>6. i \in Heads(t) /\ Behind(t, i, k)
    BY <1>1, <1>3, <1>4, <1>5 DEF Heads, Behind
  <1>7. QED
    BY <1>6

LEMMA JoiningPacks ==
  ASSUME NEW s \in Seq(Messages), Sound(s), NEW n \in 1..Len(s), NEW g \in GroupStates, Packs(s, n - 1, g),
         Joins(g, s[n])
  PROVE  Packs(s, n, RepackStep(g, s[n]))
  <1> DEFINE m == s[n]
             q == RepackStep(g, m)
  <1>1. m \in Messages /\ Once(s) /\ m.role = "tool" /\ m.of \in g.want /\ g.open
    BY DEF Sound, Joins
  <1>2. q \in GroupStates /\ q = [g EXCEPT !.results = Append(g.results, m)]
    BY <1>1, StepShape
  <1>3. /\ g.out \in Seq(Messages) /\ g.results \in Seq(Messages) /\ g.between \in Seq(Messages)
        /\ All(g) \in Seq(Messages)
    BY GroupFields
  <1>4. /\ q.out = g.out /\ q.open = g.open /\ q.want = g.want /\ q.between = g.between
        /\ q.results = Append(g.results, m)
    BY <1>2 DEF GroupStates
  <1>5. /\ ToSet(All(q)) = {s[k] : k \in 1..n} /\ Once(All(q))
        /\ Among(All(q), Talkers) = AmongFirst(s, Talkers)[n]
    <2>1. All(q) = Into(g.out \o g.results, m, g.between)
      <3> DEFINE a == g.out
                 b == g.results
                 c == g.between
      <3>1. a \in Seq(Messages) /\ b \in Seq(Messages) /\ c \in Seq(Messages) /\ m \in Messages
        BY <1>1, <1>3
      <3>2. All(q) = a \o Append(b, m) \o c
        BY <1>4 DEF All
      <3> HIDE DEF a, b, c, m, q
      <3>3. a \o Append(b, m) \o c = Into(a \o b, m, c)
        BY <3>1 DEF Into
      <3>4. QED
        BY <3>2, <3>3 DEF a, b, c
    <2>2. (g.out \o g.results) \o g.between = All(g) /\ g.out \o g.results \in Seq(Messages)
      BY <1>3 DEF All
    <2> DEFINE x == All(g)
               y == All(q)
               a == g.out \o g.results
               b == g.between
    <2>3. Parts(x, a, b) /\ Comes(y, a, s[n], b) /\ a \in Seq(Messages) /\ b \in Seq(Messages)
      BY <1>3, <2>1, <2>2 DEF Parts, Comes
    <2>4. /\ Once(x) /\ ToSet(x) = {s[k] : k \in 1..(n - 1)}
          /\ Among(x, Talkers) = AmongFirst(s, Talkers)[n - 1]
      BY DEF Packs
    <2>7. ~Talks(s[n])
      BY <1>1 DEF Talks
    <2> HIDE DEF x, y, a, b
    <2>5. ToSet(y) = {s[k] : k \in 1..n} /\ Once(y) /\ Among(y, Talkers) = AmongFirst(s, Talkers)[n]
      BY <1>1, <2>3, <2>4, <2>7, OneMore
    <2>6. QED
      BY <2>5 DEF y
  <1>6. PutBehind(q.out)
    BY <1>4 DEF Packs
  <1>7. Grouped(q)
    <2>1. Len(q.results) = Len(g.results) + 1 /\ q.results[Len(g.results) + 1] = m /\ Len(g.results) \in Nat
      BY <1>1, <1>3, <1>4
    <2>2. \A k \in 1..Len(g.results) : q.results[k] = g.results[k]
      BY <1>1, <1>3, <1>4
    <2>3. \A k \in 1..Len(q.results) : k \in 1..Len(g.results) \/ k = Len(g.results) + 1
      BY <2>1
    <2>4. \A k \in 1..Len(q.results) : q.results[k].role = "tool" /\ q.results[k].of \in q.want
      BY <1>1, <1>4, <2>1, <2>2, <2>3, SMTT(120) DEF Packs, Grouped
    <2>5. QED
      BY <1>1, <1>4, <2>4 DEF Packs, Grouped
  <1>8. Expecting(s, n, q)
    <2> SUFFICES ASSUME NEW i \in Heads(s), Expected(s, n, i)
                 PROVE  q.open /\ q.want = IdsOf(s[i]) /\ (i < n => q.results # <<>>)
      BY DEF Expecting
    <2>1. i \in 1..Len(s) /\ i # n
      BY <1>1, IndexFacts, CallerTalks
    <2>2. Expected(s, n - 1, i)
      BY <2>1 DEF Expected
    <2>3. g.open /\ g.want = IdsOf(s[i])
      BY <2>2 DEF Packs, Expecting
    <2>4. q.results # <<>>
      <3> DEFINE r == g.results
      <3>1. r \in Seq(Messages) /\ m \in Messages /\ q.results = Append(r, m)
        BY <1>1, <1>3, <1>4
      <3> HIDE DEF r, m, q
      <3>2. Append(r, m) # <<>>
        BY <3>1, AppendProperties
      <3>3. QED
        BY <3>1, <3>2
    <2>5. QED
      BY <1>4, <2>3, <2>4
  <1>9. QED
    BY <1>5, <1>6, <1>7, <1>8 DEF Packs

LEMMA WaitingPacks ==
  ASSUME NEW s \in Seq(Messages), Sound(s), NEW n \in 1..Len(s), NEW g \in GroupStates, Packs(s, n - 1, g),
         ~Joins(g, s[n]), Waits(g, s[n])
  PROVE  Packs(s, n, RepackStep(g, s[n]))
  <1> DEFINE m == s[n]
             q == RepackStep(g, m)
             none == <<>>
  <1>1. m \in Messages /\ Once(s) /\ m.role # "tool" /\ ~HasCalls(m) /\ g.open /\ g.results # none
    BY DEF Sound, Waits
  <1>2. q \in GroupStates /\ q = [g EXCEPT !.between = Append(g.between, m)]
    BY <1>1, StepShape
  <1>3. /\ g.out \in Seq(Messages) /\ g.results \in Seq(Messages) /\ g.between \in Seq(Messages)
        /\ All(g) \in Seq(Messages) /\ none \in Seq(Messages)
    BY GroupFields
  <1>4. /\ q.out = g.out /\ q.open = g.open /\ q.want = g.want /\ q.results = g.results
        /\ q.between = Append(g.between, m)
    BY <1>2 DEF GroupStates
  <1>5. /\ ToSet(All(q)) = {s[k] : k \in 1..n} /\ Once(All(q))
        /\ Among(All(q), Talkers) = AmongFirst(s, Talkers)[n]
    <2>1. All(q) = Into(All(g), m, none)
      <3> DEFINE a == g.out
                 b == g.results
                 c == g.between
      <3>1. a \in Seq(Messages) /\ b \in Seq(Messages) /\ c \in Seq(Messages) /\ m \in Messages
        BY <1>1, <1>3
      <3>2. All(q) = a \o b \o Append(c, m) /\ All(g) = a \o b \o c
        BY <1>4 DEF All
      <3> HIDE DEF a, b, c, m, q
      <3>3. a \o b \o Append(c, m) = Into(a \o b \o c, m, <<>>)
        BY <3>1 DEF Into
      <3>4. QED
        BY <3>2, <3>3 DEF none
    <2>2. All(g) \o none = All(g)
      BY <1>3
    <2> DEFINE x == All(g)
               y == All(q)
    <2>3. Parts(x, x, none) /\ Comes(y, x, s[n], none) /\ x \in Seq(Messages)
      BY <1>3, <2>1, <2>2 DEF Parts, Comes
    <2>4. /\ Once(x) /\ ToSet(x) = {s[k] : k \in 1..(n - 1)}
          /\ Among(x, Talkers) = AmongFirst(s, Talkers)[n - 1]
      BY DEF Packs
    <2>7. Talks(s[n]) => none = <<>>
      OBVIOUS
    <2> HIDE DEF x, y, none
    <2>5. ToSet(y) = {s[k] : k \in 1..n} /\ Once(y) /\ Among(y, Talkers) = AmongFirst(s, Talkers)[n]
      BY <1>1, <1>3, <2>3, <2>4, <2>7, OneMore, SMTT(60)
    <2>6. QED
      BY <2>5 DEF y
  <1>6. PutBehind(q.out)
    BY <1>4 DEF Packs
  <1>7. Grouped(q)
    <2>1. Len(q.between) = Len(g.between) + 1 /\ q.between[Len(g.between) + 1] = m /\ Len(g.between) \in Nat
      BY <1>1, <1>3, <1>4
    <2>2. \A k \in 1..Len(g.between) : q.between[k] = g.between[k]
      BY <1>1, <1>3, <1>4
    <2>3. \A k \in 1..Len(q.between) : k \in 1..Len(g.between) \/ k = Len(g.between) + 1
      BY <2>1
    <2>4. \A k \in 1..Len(q.between) : q.between[k].role # "tool"
      BY <1>1, <1>4, <2>1, <2>2, <2>3 DEF Packs, Grouped
    <2>5. QED
      BY <1>1, <1>4, <2>4 DEF Packs, Grouped
  <1>8. Expecting(s, n, q)
    <2> SUFFICES ASSUME NEW i \in Heads(s), Expected(s, n, i)
                 PROVE  q.open /\ q.want = IdsOf(s[i]) /\ (i < n => q.results # <<>>)
      BY DEF Expecting
    <2>1. i \in 1..Len(s) /\ i # n
      BY <1>1, IndexFacts
    <2>2. Expected(s, n - 1, i)
      BY <2>1 DEF Expected
    <2>3. g.open /\ g.want = IdsOf(s[i])
      BY <2>2 DEF Packs, Expecting
    <2>4. QED
      BY <1>1, <1>4, <2>3
  <1>9. QED
    BY <1>5, <1>6, <1>7, <1>8 DEF Packs

LEMMA PassingPacks ==
  ASSUME NEW s \in Seq(Messages), Sound(s), NEW n \in 1..Len(s), NEW g \in GroupStates, Packs(s, n - 1, g),
         ~Joins(g, s[n]), ~Waits(g, s[n])
  PROVE  Packs(s, n, RepackStep(g, s[n]))
  <1> DEFINE m == s[n]
             q == RepackStep(g, m)
             none == <<>>
  <1>1. m \in Messages /\ Once(s) /\ m.role # "tool"
    BY ResultJoins DEF Sound, Packs
  <1>2. q \in GroupStates /\
        q = [out |-> Append(All(g), m), open |-> HasCalls(m), want |-> IF HasCalls(m) THEN IdsOf(m) ELSE {},
             results |-> none, between |-> none]
    BY <1>1, StepShape DEF All
  <1>3. All(g) \in Seq(Messages) /\ none \in Seq(Messages)
    BY GroupFields
  <1>4. /\ q.out = Append(All(g), m) /\ q.open = HasCalls(m) /\ (HasCalls(m) => q.want = IdsOf(m))
        /\ q.results = none /\ q.between = none
    BY <1>2
  <1>5. /\ ToSet(All(q)) = {s[k] : k \in 1..n} /\ Once(All(q))
        /\ Among(All(q), Talkers) = AmongFirst(s, Talkers)[n]
    <2>1. All(q) = Into(All(g), m, none)
      <3> DEFINE a == All(g)
      <3>1. a \in Seq(Messages) /\ m \in Messages
        BY <1>1, <1>3
      <3>2. All(q) = Append(a, m) \o <<>> \o <<>>
        BY <1>4 DEF All
      <3> HIDE DEF a, m, q
      <3>3. Append(a, m) \o <<>> \o <<>> = Into(a, m, <<>>)
        BY <3>1 DEF Into
      <3>4. QED
        BY <3>2, <3>3 DEF a, none
    <2>2. All(g) \o none = All(g)
      BY <1>3
    <2> DEFINE x == All(g)
               y == All(q)
    <2>3. Parts(x, x, none) /\ Comes(y, x, s[n], none) /\ x \in Seq(Messages)
      BY <1>3, <2>1, <2>2 DEF Parts, Comes
    <2>4. /\ Once(x) /\ ToSet(x) = {s[k] : k \in 1..(n - 1)}
          /\ Among(x, Talkers) = AmongFirst(s, Talkers)[n - 1]
      BY DEF Packs
    <2>7. Talks(s[n]) => none = <<>>
      OBVIOUS
    <2> HIDE DEF x, y, none
    <2>5. ToSet(y) = {s[k] : k \in 1..n} /\ Once(y) /\ Among(y, Talkers) = AmongFirst(s, Talkers)[n]
      <3>1. none \in Seq(Messages) /\ Once(s)
        BY <1>1, <1>3
      <3> HIDE DEF q
      <3>2. QED
        BY <2>3, <2>4, <2>7, <3>1, OneMore
    <2>6. QED
      BY <2>5 DEF y
  <1>6. PutBehind(q.out)
    <2>1. PutBehind(All(g))
      BY ClosingPacks DEF Packs
    <2>2. QED
      BY <1>1, <1>3, <1>4, <2>1, PutBehindGrows
  <1>7. Grouped(q)
    <2>1. Len(q.out) \in DOMAIN q.out /\ q.out[Len(q.out)] = m
      BY <1>1, <1>3, <1>4
    <2>2. q.open => Len(q.out) \in Heads(q.out) /\ q.want = IdsOf(q.out[Len(q.out)])
      BY <1>4, <2>1 DEF Heads
    <2>3. Len(q.results) = 0 /\ Len(q.between) = 0
      BY <1>4
    <2>4. QED
      BY <1>4, <2>2, <2>3 DEF Grouped
  <1>8. Expecting(s, n, q)
    <2> SUFFICES ASSUME NEW i \in Heads(s), Expected(s, n, i)
                 PROVE  q.open /\ q.want = IdsOf(s[i]) /\ (i < n => q.results # <<>>)
      BY DEF Expecting
    <2>1. i \in 1..Len(s) /\ HasCalls(s[i]) /\ i <= n
      BY IndexFacts DEF Expected
    <2>2. CASE i = n
      BY <1>4, <2>1, <2>2
    <2>3. CASE i # n
      <3>1. i < n - 1
        BY <1>1, <2>1, <2>3 DEF Expected
      <3>2. Expected(s, n - 1, i)
        BY <2>1, <3>1 DEF Expected
      <3>3. g.open /\ g.results # <<>>
        BY <3>1, <3>2 DEF Packs, Expecting
      <3>4. HasCalls(m)
        BY <1>1, <3>3 DEF Waits
      <3>5. Talks(m)
        BY <3>4, CallerTalks
      <3>6. n \in (i + 1)..n
        BY <2>1, <3>1
      <3>7. QED
        BY <3>5, <3>6 DEF Expected
    <2>4. QED
      BY <2>2, <2>3
  <1>9. QED
    BY <1>5, <1>6, <1>7, <1>8 DEF Packs

LEMMA AmongNone ==
  ASSUME NEW s \in Seq(Messages), Len(s) = 0, NEW T
  PROVE  Among(s, T) = <<>>
  <1>1. \A x \in Seq(Messages) : \A U : AmongFirst(x, U)[0] = <<>>
    BY AmongFirstFacts
  <1>2. QED
    BY <1>1 DEF Among

\* What the client sends is put in order, whole.
LEMMA RepackPacks ==
  ASSUME NEW s \in Seq(Messages), Sound(s)
  PROVE  /\ Repack(s) \in Seq(Messages) /\ ToSet(Repack(s)) = ToSet(s) /\ Packed(Repack(s))
         /\ Among(Repack(s), Talkers) = Among(s, Talkers)
  <1> DEFINE Good == {n \in 0..Len(s) : Packs(s, n, Groups(s)[n])}
  <1>1. /\ Len(s) \in Nat /\ Groups(s)[0] = NoGroup
        /\ \A n \in 0..Len(s) : Groups(s)[n] \in GroupStates
        /\ \A n \in 1..Len(s) : Groups(s)[n] = RepackStep(Groups(s)[n - 1], s[n])
    BY GroupsFacts
  <1>2. 0 \in Good
    <2> DEFINE none == <<>>
    <2>1. All(NoGroup) = none /\ DOMAIN none = {}
      BY DEF All, NoGroup
    <2>2. ToSet(All(NoGroup)) = {s[k] : k \in 1..0} /\ Once(All(NoGroup))
      BY <2>1 DEF ToSet, Once, Heads, Results
    <2>3. PutBehind(NoGroup.out) /\ Grouped(NoGroup)
      BY <2>1 DEF NoGroup, PutBehind, Results, Grouped
    <2>4. Expecting(s, 0, NoGroup)
      BY IndexFacts DEF Expecting, Expected
    <2>5. Among(none, Talkers) = <<>> /\ AmongFirst(s, Talkers)[0] = <<>>
      <3>1. none \in Seq(Messages) /\ Len(none) = 0
        OBVIOUS
      <3> HIDE DEF none
      <3>2. Among(none, Talkers) = <<>>
        BY <3>1, AmongNone
      <3>3. AmongFirst(s, Talkers)[0] = <<>>
        BY AmongFirstFacts
      <3>4. QED
        BY <3>2, <3>3 DEF none
    <2>6. QED
      BY <1>1, <2>1, <2>2, <2>3, <2>4, <2>5 DEF Packs
  <1>3. ASSUME NEW n \in 1..Len(s), n - 1 \in Good PROVE n \in Good
    <2> DEFINE g == Groups(s)[n - 1]
    <2>1. g \in GroupStates /\ Packs(s, n - 1, g) /\ Groups(s)[n] = RepackStep(g, s[n])
      BY <1>1, <1>3
    <2> HIDE DEF g
    <2>2. Packs(s, n, RepackStep(g, s[n]))
      BY <2>1, JoiningPacks, WaitingPacks, PassingPacks
    <2>3. QED
      BY <1>1, <2>1, <2>2
  <1> HIDE DEF Good
  <1>4. Len(s) \in Good
    <2>1. 0..Len(s) \subseteq Good
      BY <1>1, <1>2, <1>3, UpTo
    <2>2. QED
      BY <1>1, <2>1
  <1> DEFINE g == Groups(s)[Len(s)]
  <1>5. g \in GroupStates /\ Packs(s, Len(s), g)
    BY <1>1, <1>4 DEF Good
  <1>6. Repack(s) = All(g)
    BY DEF Repack, CloseGroup, All
  <1> HIDE DEF g
  <1>7. PutBehind(All(g)) /\ Once(All(g)) /\ All(g) \in Seq(Messages)
    BY <1>5, ClosingPacks, GroupFields DEF Packs
  <1>8. ToSet(All(g)) = ToSet(s)
    BY <1>5, IndexFacts DEF Packs
  <1>9. Among(All(g), Talkers) = Among(s, Talkers)
    BY <1>5 DEF Packs, Among
  <1>10. QED
    BY <1>6, <1>7, <1>8, <1>9 DEF Packed, PutBehind

-----------------------------------------------------------------------------
\* The results of one message's calls are a block behind it, and the calls without one are left out.

Own(s, i) == {k \in Results(s) : s[k].of \in IdsOf(s[i])}

LEMMA OwnAreBehind ==
  ASSUME NEW s \in Seq(Messages), Packed(s), NEW i \in Heads(s), NEW k \in Own(s, i)
  PROVE  i < k /\ k \in 1..Len(s) /\ (i + 1)..k \subseteq Own(s, i)
  <1>1. i \in 1..Len(s) /\ HasCalls(s[i]) /\ s[i].role = "assistant" /\ k \in Results(s) /\ k \in 1..Len(s)
        /\ Len(s) \in Nat /\ DOMAIN s = 1..Len(s)
    BY IndexFacts DEF Own, HasCalls
  <1>2. \A j \in Results(s), h \in Heads(s) : Behind(s, h, j) /\ s[j].of \in IdsOf(s[i]) => h = i
    <2> SUFFICES ASSUME NEW j \in Results(s), NEW h \in Heads(s), Behind(s, h, j), s[j].of \in IdsOf(s[i]), h # i
                 PROVE  FALSE
      OBVIOUS
    <2>1. s[j].of \in IdsOf(s[h]) \cap IdsOf(s[i])
      BY DEF Behind
    <2>2. QED
      BY <2>1 DEF Packed, Once
  <1>3. PICK h \in Heads(s) : Behind(s, h, k)
    BY <1>1 DEF Packed
  <1>4. Behind(s, i, k)
    BY <1>1, <1>2, <1>3 DEF Own
  <1>5. ASSUME NEW j \in (i + 1)..k PROVE j \in Own(s, i)
    <2>1. j \in 1..Len(s) /\ i < j /\ s[j].role = "tool" /\ j \in Results(s)
      BY <1>1, <1>4, <1>5 DEF Behind, Results
    <2>2. PICK g \in Heads(s) : Behind(s, g, j)
      BY <2>1 DEF Packed
    <2>3. g \in 1..Len(s) /\ s[g].role = "assistant"
      BY IndexFacts DEF HasCalls
    <2>4. ~(g < i)
      BY <1>1, <2>1, <2>2, <2>3 DEF Behind
    <2>5. ~(g > i)
      <3>1. SUFFICES ASSUME g > i PROVE FALSE
        OBVIOUS
      <3>2. g \in (i + 1)..k
        BY <1>1, <1>5, <2>2, <2>3, <3>1 DEF Behind
      <3>3. QED
        BY <1>4, <2>3, <3>2 DEF Behind
    <2>6. g = i
      BY <1>1, <2>3, <2>4, <2>5
    <2>7. QED
      BY <2>1, <2>2, <2>6 DEF Behind, Own
  <1>6. QED
    BY <1>1, <1>4, <1>5 DEF Behind

LEMMA OwnAreABlock ==
  ASSUME NEW s \in Seq(Messages), Packed(s), NEW i \in Heads(s)
  PROVE  \E n \in Nat : /\ i + n <= Len(s) /\ Own(s, i) = (i + 1)..(i + n)
                        /\ Cardinality({s[k].of : k \in (i + 1)..(i + n)}) = n
  <1> DEFINE K == Own(s, i)
             Missing == {j \in (i + 1)..(Len(s) + 1) : j \notin K}
  <1>1. i \in 1..Len(s) /\ Len(s) \in Nat
    BY IndexFacts
  <1>2. \A k \in K : i < k /\ k \in 1..Len(s) /\ (i + 1)..k \subseteq K
    BY OwnAreBehind
  <1> HIDE DEF K
  <1>3. Missing \subseteq Nat /\ Missing # {}
    <2>1. Len(s) + 1 \in Missing
      BY <1>1, <1>2
    <2>2. QED
      BY <1>1, <2>1
  <1>4. PICK x \in Missing : \A y \in Missing : x <= y
    <2> HIDE DEF Missing
    <2>1. QED
      BY <1>3, LeastNumber
  <1> DEFINE n == x - (i + 1)
  <1>5. n \in Nat /\ i + n <= Len(s) /\ x = i + n + 1
    BY <1>1, <1>4
  <1>6. K = (i + 1)..(i + n)
    <2>1. ASSUME NEW k \in K PROVE k \in (i + 1)..(i + n)
      <3>1. ~(x <= k)
        BY <1>1, <1>2, <1>4, <2>1
      <3>2. QED
        BY <1>1, <1>2, <1>5, <2>1, <3>1
    <2>2. ASSUME NEW k \in (i + 1)..(i + n), k \notin K PROVE FALSE
      <3>1. k \in Missing /\ ~(x <= k)
        BY <1>1, <1>5, <2>2
      <3>2. QED
        BY <1>4, <3>1
    <2>3. QED
      BY <2>1, <2>2
  <1> DEFINE T == {s[k].of : k \in (i + 1)..(i + n)}
             f == [p \in 1..n |-> s[i + p].of]
  <1> HIDE DEF n
  <1>7. Cardinality(T) = n
    <2>1. \A p \in 1..n : i + p \in (i + 1)..(i + n) /\ f[p] = s[i + p].of
      BY <1>1, <1>5
    <2>2. \A k \in (i + 1)..(i + n) : k - i \in 1..n /\ i + (k - i) = k
      BY <1>1, <1>5
    <2>3. f \in [1..n -> T]
      BY <2>1
    <2>4. \A t \in T : \E p \in 1..n : f[p] = t
      BY <2>1, <2>2
    <2>5. \A p, q \in 1..n : f[p] = f[q] => p = q
      <3> SUFFICES ASSUME NEW p \in 1..n, NEW q \in 1..n, p # q PROVE f[p] # f[q]
        OBVIOUS
      <3>1. i + p \in Results(s) /\ i + q \in Results(s) /\ i + p # i + q
        BY <1>1, <1>6, <2>1 DEF K, Own
      <3>2. s[i + p].of # s[i + q].of
        BY <3>1 DEF Packed, Once
      <3>3. QED
        BY <2>1, <3>2
    <2> HIDE DEF f, T
    <2>6. f \in Bijection(1..n, T)
      <3>1. f \in Injection(1..n, T)
        BY <2>3, <2>5 DEF Injection, IsInjective
      <3>2. f \in Surjection(1..n, T)
        BY <2>3, <2>4 DEF Surjection
      <3>3. QED
        BY <3>1, <3>2 DEF Bijection
    <2>7. QED
      BY <1>5, <2>6, FS_CountingElements DEF ExistsBijection
  <1>8. QED
    BY <1>5, <1>6, <1>7 DEF K

\* What cleaning up makes of one message.
Trimmed(m, keep) ==
  IF m.role = "assistant"
  THEN [m EXCEPT !.calls = Among(m.calls, {c \in ToSet(m.calls) : c.id \in keep})] ELSE m

LEMMA TrimmedFacts ==
  ASSUME NEW m \in Messages, NEW keep, {Absent, Blank} \cap keep = {}
  PROVE  LET n == Trimmed(m, keep)
         IN /\ n \in Messages /\ n.role = m.role /\ n.of = m.of /\ n.content = m.content /\ n.image = m.image
            /\ HasCalls(n) => HasCalls(m)
            /\ m.role = "assistant" => IdsOf(n) = IdsOf(m) \cap keep
            /\ m.role = "assistant" /\ IdsOf(n) # {} => HasCalls(n)
  <1> DEFINE n == Trimmed(m, keep)
             T == {c \in ToSet(m.calls) : c.id \in keep}
             calls == Among(m.calls, T)
             none == <<>>
  <1>1. m.calls \in Seq(ToolCalls)
    BY MessageFields
  <1>2. calls \in Seq(ToolCalls) /\ ToSet(calls) = ToSet(m.calls) \cap T
    BY <1>1, AmongFacts
  <1>3. CASE m.role # "assistant"
    BY <1>3 DEF Trimmed
  <1>4. CASE m.role = "assistant"
    <2>1. n = [m EXCEPT !.calls = calls]
      BY <1>4 DEF Trimmed
    <2>2. /\ n = [role |-> m.role, content |-> m.content, image |-> m.image, calls |-> calls, of |-> m.of,
                  reasoning_content |-> m.reasoning_content, reasoning |-> m.reasoning]
      <3> HIDE DEF calls
      <3>1. QED
        BY <2>1, MessageFields
    <2>3. n \in Messages
      <3> HIDE DEF calls, n
      <3>1. QED
        BY <1>2, <2>2, MessageFields, MessageBuilt
    <2>4. n.calls = calls /\ n.role = m.role /\ n.of = m.of /\ n.content = m.content /\ n.image = m.image
      <3> HIDE DEF calls
      <3>1. QED
        BY <2>2
    <2>5. ToSet(n.calls) = T
      BY <1>2, <2>4
    <2>6. ToSet(none) = {} /\ \A s \in Seq(ToolCalls) : s # none => ToSet(s) # {}
      <3>1. ToSet(none) = {}
        BY DEF ToSet
      <3>2. ASSUME NEW s \in Seq(ToolCalls), s # none PROVE ToSet(s) # {}
        <4>1. Len(s) \in Nat \ {0} /\ DOMAIN s = 1..Len(s)
          BY <3>2, EmptySeq
        <4>2. 1 \in DOMAIN s
          BY <4>1
        <4>3. QED
          BY <4>2 DEF ToSet
      <3>3. QED
        BY <3>1, <3>2
    <2> HIDE DEF n, calls, none
    <2>7. IdsOf(n) = IdsOf(m) \cap keep
      BY <2>5 DEF IdsOf
    <2>8. HasCalls(n) => HasCalls(m)
      <3>1. SUFFICES ASSUME n.calls # none PROVE m.calls # none
        BY <1>4, <2>4 DEF HasCalls, none
      <3>2. T # {}
        BY <1>2, <2>4, <2>5, <2>6, <3>1
      <3>3. QED
        BY <2>6, <3>2
    <2>9. IdsOf(n) # {} => n.calls # none
      BY <2>6 DEF IdsOf
    <2>10. QED
      BY <1>4, <2>3, <2>4, <2>7, <2>8, <2>9 DEF HasCalls, none, n
  <1>5. QED
    BY <1>3, <1>4

\* The results are those of calls that are there.
LEMMA ResultsBelong ==
  ASSUME NEW s \in Seq(Messages), \A k \in Results(s) : \E i \in Heads(s) : s[k].of \in IdsOf(s[i])
  PROVE  /\ Answered(s) = {s[k].of : k \in Results(s)} /\ Answered(s) \subseteq Called(s)
         /\ {Absent, Blank} \cap Answered(s) = {}
         /\ \A i \in Heads(s) : IdsOf(s[i]) \subseteq Called(s)
  <1>1. \A k \in Results(s) : s[k].of \notin {Absent, Blank} /\ s[k] \in ToSet(s) /\ s[k].role = "tool"
    BY IndexFacts DEF IdsOf
  <1>2. \A i \in Heads(s) : IdsOf(s[i]) \subseteq Called(s)
    BY IndexFacts DEF Called, HasCalls
  <1>3. Answered(s) = {s[k].of : k \in Results(s)}
    <2>1. \A m \in ToSet(s) : m.role = "tool" => \E k \in Results(s) : m = s[k]
      BY IndexFacts DEF Results
    <2>2. QED
      BY <1>1, <2>1 DEF Answered
  <1>4. QED
    BY <1>1, <1>2, <1>3

\* What is put in order is cleaned up to a result for each call.
LEMMA CleanupMeets ==
  ASSUME NEW s \in Seq(Messages), Packed(s)
  PROVE  LET t == Cleanup(s)
         IN /\ t \in Seq(Messages) /\ Len(t) = Len(s) /\ Met(t)
            /\ \A i \in 1..Len(s) : /\ t[i].role = s[i].role /\ t[i].of = s[i].of
                                    /\ t[i].content = s[i].content /\ t[i].image = s[i].image
            /\ Answered(s) \subseteq Called(s)
  <1> DEFINE t == Cleanup(s)
             keep == Called(s) \cap Answered(s)
  <1>1. \A k \in Results(s) : \E i \in Heads(s) : s[k].of \in IdsOf(s[i])
    BY DEF Packed, Behind
  <1>2. /\ Answered(s) = {s[k].of : k \in Results(s)} /\ Answered(s) \subseteq Called(s)
        /\ {Absent, Blank} \cap Answered(s) = {}
        /\ \A i \in Heads(s) : IdsOf(s[i]) \subseteq Called(s)
    BY <1>1, ResultsBelong
  <1>3. Len(s) \in Nat /\ DOMAIN s = 1..Len(s) /\ \A i \in 1..Len(s) : s[i] \in Messages
    BY IndexFacts
  <1>4. CASE Called(s) \cup Answered(s) = {}
    <2>1. t = s
      BY <1>4 DEF Cleanup
    <2>2. Results(s) = {}
      BY <1>2, <1>4
    <2>3. \A i \in Heads(s) : IdsOf(s[i]) = {}
      BY <1>2, <1>4
    <2>4. Met(s)
      <3>1. Cardinality({}) = 0
        BY FS_EmptySet
      <3>2. ASSUME NEW i \in Heads(s)
            PROVE  LET n == Cardinality(IdsOf(s[i]))
                   IN i + n <= Len(s) /\ (\A j \in (i + 1)..(i + n) : s[j].role = "tool")
                      /\ {s[j].of : j \in (i + 1)..(i + n)} = IdsOf(s[i])
        <4>1. i \in 1..Len(s) /\ i + 0 = i /\ (i + 1)..i = {}
          BY IndexFacts
        <4>2. IdsOf(s[i]) = {} /\ Cardinality(IdsOf(s[i])) = 0
          BY <2>3, <3>1
        <4>3. QED
          BY <1>3, <4>1, <4>2
      <3>3. QED
        BY <2>2, <3>2, Zenon DEF Met
    <2>5. QED
      BY <1>2, <2>1, <2>4
  <1>5. CASE Called(s) \cup Answered(s) # {}
    <2> DEFINE U == {m \in ToSet(s) : m.role = "tool" => m.of \in keep}
               Trim(m) == Trimmed(m, keep)
    <2>1. ToSet(s) \subseteq U
      <3>1. ASSUME NEW m \in ToSet(s), m.role = "tool" PROVE m.of \in keep
        <4>1. PICK k \in Results(s) : m = s[k]
          BY <1>3, <3>1, IndexFacts DEF Results
        <4>2. QED
          BY <1>2, <4>1
      <3>2. QED
        BY <3>1
    <2>2. Among(s, U) = s
      <3> HIDE DEF U
      <3>1. QED
        BY <2>1, AmongFacts
    <2>3. t = [i \in DOMAIN s |-> Trimmed(s[i], keep)]
      <3>1. t = [i \in DOMAIN Among(s, U) |-> Trimmed(Among(s, U)[i], keep)]
        BY <1>5, Zenon DEF Cleanup, Each, Trimmed
      <3>2. QED
        BY <2>2, <3>1, Zenon
    <2> HIDE DEF t, keep, U
    <2>4. {Absent, Blank} \cap keep = {}
      BY <1>2 DEF keep
    <2>5. \A i \in 1..Len(s) : t[i] = Trimmed(s[i], keep)
      BY <1>3, <2>3
    <2>6. ASSUME NEW i \in 1..Len(s)
          PROVE  /\ t[i] \in Messages /\ t[i].role = s[i].role /\ t[i].of = s[i].of /\ t[i].content = s[i].content
                 /\ t[i].image = s[i].image /\ (HasCalls(t[i]) => HasCalls(s[i]))
                 /\ s[i].role = "assistant" => IdsOf(t[i]) = IdsOf(s[i]) \cap keep
                 /\ s[i].role = "assistant" /\ IdsOf(t[i]) # {} => HasCalls(t[i])
      <3> DEFINE m == s[i]
      <3>1. m \in Messages /\ t[i] = Trimmed(m, keep)
        BY <1>3, <2>5
      <3> HIDE DEF m
      <3>2. QED
        BY <2>4, <3>1, TrimmedFacts DEF m
    <2>7. t \in Seq(Messages) /\ Len(t) = Len(s)
      <3>1. t \in [1..Len(s) -> Messages]
        BY <1>3, <2>3, <2>6
      <3>2. QED
        BY <1>3, <3>1
    <2>8. DOMAIN t = 1..Len(s) /\ Results(t) = Results(s) /\ Heads(t) \subseteq Heads(s)
      BY <1>3, <2>6, <2>7 DEF Results, Heads
    <2>9. ASSUME NEW i \in Heads(s)
          PROVE  /\ IdsOf(t[i]) = {s[k].of : k \in Own(s, i)}
                 /\ Own(s, i) # {} => i \in Heads(t)
      <3>1. i \in 1..Len(s) /\ s[i].role = "assistant"
        BY IndexFacts DEF HasCalls
      <3>2. IdsOf(t[i]) = IdsOf(s[i]) \cap keep
        BY <2>6, <3>1
      <3>3. IdsOf(t[i]) = {s[k].of : k \in Own(s, i)}
        BY <1>2, <3>2 DEF keep, Own
      <3>4. ASSUME Own(s, i) # {} PROVE HasCalls(t[i])
        <4>1. PICK k : k \in Own(s, i)
          BY <3>4
        <4>2. s[k].of \in IdsOf(t[i])
          BY <3>3, <4>1
        <4>3. IdsOf(t[i]) # {}
          BY <4>2
        <4>4. QED
          BY <2>6, <3>1, <4>3
      <3>5. QED
        BY <2>8, <3>1, <3>3, <3>4 DEF Heads
    <2>10. ASSUME NEW i \in Heads(s)
           PROVE  LET n == Cardinality(IdsOf(t[i]))
                  IN /\ n \in Nat /\ i + n <= Len(s) /\ Own(s, i) = (i + 1)..(i + n)
                     /\ {s[k].of : k \in (i + 1)..(i + n)} = IdsOf(t[i])
      <3>1. PICK n \in Nat : /\ i + n <= Len(s) /\ Own(s, i) = (i + 1)..(i + n)
                             /\ Cardinality({s[k].of : k \in (i + 1)..(i + n)}) = n
        BY OwnAreABlock
      <3>2. IdsOf(t[i]) = {s[k].of : k \in (i + 1)..(i + n)}
        BY <2>9, <3>1
      <3>3. Cardinality(IdsOf(t[i])) = n
        BY <3>1, <3>2
      <3>4. QED
        BY <3>1, <3>2, <3>3
    <2>11. Met(t)
      <3>1. ASSUME NEW i \in Heads(t)
            PROVE  LET n == Cardinality(IdsOf(t[i]))
                   IN i + n <= Len(t) /\ (\A j \in (i + 1)..(i + n) : t[j].role = "tool")
                      /\ {t[j].of : j \in (i + 1)..(i + n)} = IdsOf(t[i])
        <4> DEFINE n == Cardinality(IdsOf(t[i]))
        <4>1. i \in Heads(s) /\ i \in 1..Len(s)
          BY <2>8, IndexFacts
        <4>2. n \in Nat /\ i + n <= Len(s) /\ Own(s, i) = (i + 1)..(i + n)
              /\ {s[k].of : k \in (i + 1)..(i + n)} = IdsOf(t[i])
          BY <2>10, <4>1
        <4> HIDE DEF n
        <4>3. \A j \in (i + 1)..(i + n) : j \in 1..Len(s) /\ s[j].role = "tool"
          BY <1>3, <4>1, <4>2, IndexFacts DEF Own
        <4>4. \A j \in (i + 1)..(i + n) : t[j].role = "tool" /\ t[j].of = s[j].of
          BY <2>6, <4>3
        <4>5. {t[j].of : j \in (i + 1)..(i + n)} = {s[j].of : j \in (i + 1)..(i + n)}
          BY <4>4
        <4>6. QED
          BY <2>7, <4>2, <4>4, <4>5 DEF n
      <3>2. ASSUME NEW k \in Results(t)
            PROVE  \E i \in Heads(t) : i < k /\ k <= i + Cardinality(IdsOf(t[i]))
        <4>1. k \in Results(s)
          BY <2>8, <3>2
        <4>2. PICK i \in Heads(s) : s[k].of \in IdsOf(s[i])
          BY <1>1, <4>1
        <4>3. k \in Own(s, i)
          BY <4>1, <4>2 DEF Own
        <4>4. i \in Heads(t) /\ i < k
          BY <2>9, <4>3, OwnAreBehind
        <4>5. k <= i + Cardinality(IdsOf(t[i]))
          <5> DEFINE n == Cardinality(IdsOf(t[i]))
          <5>1. n \in Nat /\ k \in (i + 1)..(i + n) /\ i \in Nat
            BY <2>10, <4>3, IndexFacts
          <5> HIDE DEF n
          <5>2. k <= i + n
            BY <5>1
          <5>3. QED
            BY <5>2 DEF n
        <4>6. QED
          BY <4>4, <4>5
      <3>3. QED
        BY <3>1, <3>2, Zenon DEF Met
    <2>12. QED
      BY <1>2, <2>6, <2>7, <2>11 DEF t
  <1>6. QED
    BY <1>4, <1>5

-----------------------------------------------------------------------------
\* What is heard of a conversation depends on what is said, and on its order.

View(m) == <<m.role, Clean(m.content), m.image # Absent>>
Speakers == {"user", "assistant"}
Speech(s) == Among(s, Talkers)

LEMMA AmongAgree ==
  ASSUME NEW S, NEW s \in Seq(S), NEW T, NEW U, \A i \in 1..Len(s) : s[i] \in T <=> s[i] \in U
  PROVE  Among(s, T) = Among(s, U)
  <1> DEFINE P == AmongFirst(s, T)
             Q == AmongFirst(s, U)
             n == Len(s)
             Good == {k \in 0..n : P[k] = Q[k]}
  <1>1. P[0] = <<>> /\ \A k \in 1..n : P[k] = IF s[k] \in T THEN Append(P[k - 1], s[k]) ELSE P[k - 1]
    BY AmongFirstFacts
  <1>2. Q[0] = <<>> /\ \A k \in 1..n : Q[k] = IF s[k] \in U THEN Append(Q[k - 1], s[k]) ELSE Q[k - 1]
    BY AmongFirstFacts
  <1>3. n \in Nat /\ \A k \in 1..n : s[k] \in T <=> s[k] \in U
    OBVIOUS
  <1> HIDE DEF P, Q, n
  <1>4. 0 \in Good
    BY <1>1, <1>2, <1>3
  <1>5. ASSUME NEW k \in 1..n, k - 1 \in Good PROVE k \in Good
    <2>1. P[k - 1] = Q[k - 1] /\ k \in 0..n
      BY <1>3, <1>5
    <2>2. P[k] = Q[k]
      BY <1>1, <1>2, <1>3, <2>1, Zenon
    <2>3. QED
      BY <2>1, <2>2
  <1>6. n \in Good
    <2> HIDE DEF Good
    <2>1. 0..n \subseteq Good
      BY <1>3, <1>4, <1>5, UpTo
    <2>2. QED
      BY <1>3, <2>1
  <1>7. QED
    BY <1>6 DEF P, Q, n, Among

LEMMA HeardFacts ==
  ASSUME NEW s \in Seq(Messages)
  PROVE  Heard(s, Speakers) = [i \in DOMAIN Speech(s) |-> View(Speech(s)[i])] /\ Speech(s) \in Seq(Messages)
  <1> DEFINE T == {m \in ToSet(s) : m.role \in Speakers}
             h == Among(s, T)
  <1>1. \A i \in 1..Len(s) : s[i] \in T <=> s[i] \in Talkers
    BY IndexFacts DEF Talkers, Talks, Speakers
  <1>2. h = Speech(s)
    <2> HIDE DEF T
    <2>1. QED
      BY <1>1, AmongAgree DEF Speech
  <1>3. Heard(s, Speakers) = [i \in DOMAIN h |-> View(h[i])]
    BY Zenon DEF Heard, Each, View
  <1>4. Speech(s) \in Seq(Messages)
    BY AmongFacts DEF Speech
  <1> HIDE DEF h
  <1>5. QED
    BY <1>2, <1>3, <1>4

\* One after the other, the same is said.
Voices(s, t) ==
  /\ Len(s) = Len(t)
  /\ \A i \in 1..Len(s) : (Talks(s[i]) <=> Talks(t[i])) /\ (Talks(s[i]) => View(s[i]) = View(t[i]))

\* Two sequences that look the same.
Alike(x, y) == Len(x) = Len(y) /\ \A j \in 1..Len(x) : View(x[j]) = View(y[j])

LEMMA AlikeGrow ==
  ASSUME NEW x \in Seq(Messages), NEW y \in Seq(Messages), Alike(x, y), NEW m \in Messages, NEW n \in Messages,
         View(m) = View(n)
  PROVE  Alike(Append(x, m), Append(y, n))
  <1> DEFINE u == Append(x, m)
             v == Append(y, n)
  <1>1. Len(u) = Len(x) + 1 /\ u[Len(x) + 1] = m /\ (\A j \in 1..Len(x) : u[j] = x[j]) /\ Len(x) \in Nat
    OBVIOUS
  <1>2. Len(v) = Len(y) + 1 /\ v[Len(y) + 1] = n /\ (\A j \in 1..Len(y) : v[j] = y[j])
    OBVIOUS
  <1> HIDE DEF u, v
  <1>3. \A j \in 1..Len(u) : j # Len(x) + 1 => j \in 1..Len(x)
    BY <1>1
  <1>4. QED
    BY <1>1, <1>2, <1>3 DEF Alike, u, v

LEMMA VoicesHeard ==
  ASSUME NEW s \in Seq(Messages), NEW t \in Seq(Messages), Voices(s, t)
  PROVE  Heard(s, Speakers) = Heard(t, Speakers)
  <1> DEFINE P == AmongFirst(s, Talkers)
             Q == AmongFirst(t, Talkers)
             n == Len(s)
             Good == {k \in 0..n : P[k] \in Seq(Messages) /\ Q[k] \in Seq(Messages) /\ Alike(P[k], Q[k])}
  <1>1. P[0] = <<>> /\ \A k \in 1..Len(s) : P[k] = IF s[k] \in Talkers THEN Append(P[k - 1], s[k]) ELSE P[k - 1]
    BY AmongFirstFacts
  <1>2. Q[0] = <<>> /\ \A k \in 1..Len(t) : Q[k] = IF t[k] \in Talkers THEN Append(Q[k - 1], t[k]) ELSE Q[k - 1]
    BY AmongFirstFacts
  <1>3. /\ n \in Nat /\ Len(s) = n /\ Len(t) = n
        /\ \A k \in 1..n : /\ s[k] \in Messages /\ t[k] \in Messages /\ (s[k] \in Talkers <=> t[k] \in Talkers)
                           /\ s[k] \in Talkers => View(s[k]) = View(t[k])
    BY IndexFacts DEF Voices, Talkers
  <1> HIDE DEF P, Q, n
  <1>4. 0 \in Good
    <2>1. P[0] \in Seq(Messages) /\ Q[0] \in Seq(Messages)
      BY <1>1, <1>2
    <2>2. Len(P[0]) = 0 /\ Len(Q[0]) = 0 /\ 1..0 = {}
      BY <1>1, <1>2
    <2>3. Alike(P[0], Q[0])
      BY <2>2 DEF Alike
    <2>4. QED
      BY <1>3, <2>1, <2>3
  <1>5. ASSUME NEW k \in 1..n, k - 1 \in Good PROVE k \in Good
    <2> DEFINE p == P[k - 1]
               q == Q[k - 1]
    <2>1. p \in Seq(Messages) /\ q \in Seq(Messages) /\ Alike(p, q) /\ k \in 0..n
      BY <1>3, <1>5
    <2>2. P[k] = (IF s[k] \in Talkers THEN Append(p, s[k]) ELSE p) /\ Q[k] = (IF t[k] \in Talkers THEN Append(q, t[k]) ELSE q)
      BY <1>1, <1>2, <1>3
    <2> HIDE DEF p, q
    <2>3. CASE s[k] \in Talkers
      <3>1. s[k] \in Messages /\ t[k] \in Messages /\ View(s[k]) = View(t[k]) /\ t[k] \in Talkers
        BY <1>3, <2>3
      <3>2. Append(p, s[k]) \in Seq(Messages) /\ Append(q, t[k]) \in Seq(Messages)
        BY <2>1, <3>1
      <3>3. Alike(Append(p, s[k]), Append(q, t[k]))
        BY <2>1, <3>1, AlikeGrow
      <3>4. P[k] = Append(p, s[k]) /\ Q[k] = Append(q, t[k])
        BY <2>2, <2>3, <3>1, Zenon
      <3>5. QED
        BY <2>1, <3>2, <3>3, <3>4, Zenon
    <2>4. CASE s[k] \notin Talkers
      <3>1. P[k] = p /\ Q[k] = q
        BY <1>3, <2>2, <2>4
      <3>2. QED
        BY <2>1, <3>1
    <2>5. QED
      BY <2>3, <2>4
  <1>6. n \in Good
    <2> HIDE DEF Good
    <2>1. 0..n \subseteq Good
      BY <1>3, <1>4, <1>5, UpTo
    <2>2. QED
      BY <1>3, <2>1
  <1>7. Speech(s) = P[n] /\ Speech(t) = Q[n]
    BY <1>3 DEF P, Q, Speech, Among
  <1>8. Speech(s) \in Seq(Messages) /\ Speech(t) \in Seq(Messages) /\ Alike(Speech(s), Speech(t))
    BY <1>6, <1>7
  <1>9. DOMAIN Speech(s) = DOMAIN Speech(t) /\ \A j \in DOMAIN Speech(s) : View(Speech(s)[j]) = View(Speech(t)[j])
    <2> DEFINE x == Speech(s)
               y == Speech(t)
    <2>1. x \in Seq(Messages) /\ y \in Seq(Messages) /\ Alike(x, y)
      BY <1>8
    <2> HIDE DEF x, y
    <2>2. DOMAIN x = DOMAIN y /\ \A j \in DOMAIN x : View(x[j]) = View(y[j])
      BY <2>1 DEF Alike
    <2>3. QED
      BY <2>2 DEF x, y
  <1>10. QED
    BY <1>9, HeardFacts

-----------------------------------------------------------------------------
\* Passes that change messages one by one, and none that matters here.

Faithful(m, n) ==
  /\ (m.role = "tool" <=> n.role = "tool") /\ (m.role = "assistant" <=> n.role = "assistant")
  /\ (Talks(m) <=> Talks(n)) /\ (HasCalls(m) <=> HasCalls(n))
  /\ IdsOf(n) = IdsOf(m) /\ n.of = m.of
  /\ Talks(m) => View(m) = View(n)
AllFaithful(s, t) == Len(s) = Len(t) /\ \A i \in 1..Len(s) : Faithful(s[i], t[i])

LEMMA FaithfulKeeps ==
  ASSUME NEW s \in Seq(Messages), NEW t \in Seq(Messages), AllFaithful(s, t)
  PROVE  /\ Voices(s, t) /\ Answered(t) = Answered(s) /\ Called(t) = Called(s)
         /\ Sound(s) => Sound(t)
         /\ Met(s) => Met(t)
  <1>1. Len(t) = Len(s) /\ Len(s) \in Nat /\ DOMAIN s = 1..Len(s) /\ DOMAIN t = 1..Len(s)
    BY IndexFacts DEF AllFaithful
  <1>2. \A i \in 1..Len(s) :
          /\ (s[i].role = "tool" <=> t[i].role = "tool") /\ (s[i].role = "assistant" <=> t[i].role = "assistant")
          /\ (Talks(s[i]) <=> Talks(t[i])) /\ (HasCalls(s[i]) <=> HasCalls(t[i]))
          /\ IdsOf(t[i]) = IdsOf(s[i]) /\ t[i].of = s[i].of
    BY DEF AllFaithful, Faithful
  <1>3. Voices(s, t)
    BY <1>1 DEF AllFaithful, Faithful, Voices
  <1>4. Heads(t) = Heads(s) /\ Results(t) = Results(s)
    BY <1>1, <1>2 DEF Heads, Results
  <1>5. /\ \A i \in Heads(s) : i \in 1..Len(s) /\ IdsOf(t[i]) = IdsOf(s[i])
        /\ \A k \in Results(s) : k \in 1..Len(s) /\ t[k].of = s[k].of
    BY <1>2, IndexFacts
  <1>6. Answered(t) = Answered(s)
    <2>1. \A x : x \in Answered(s) <=> x \notin {Absent, Blank} /\ \E k \in Results(s) : s[k].of = x
      BY <1>1 DEF Answered, ToSet, Results
    <2>2. \A x : x \in Answered(t) <=> x \notin {Absent, Blank} /\ \E k \in Results(t) : t[k].of = x
      BY <1>1 DEF Answered, ToSet, Results
    <2>3. \A x : x \in Answered(s) <=> x \in Answered(t)
      <3>1. \A x : (\E k \in Results(s) : s[k].of = x) <=> (\E k \in Results(t) : t[k].of = x)
        BY <1>4, <1>5
      <3>2. QED
        BY <2>1, <2>2, <3>1
    <2>4. QED
      BY <2>3
  <1>7. Called(t) = Called(s)
    <2>1. \A x : x \in Called(s) <=> \E k \in 1..Len(s) : s[k].role = "assistant" /\ x \in IdsOf(s[k])
      BY <1>1 DEF Called, ToSet
    <2>2. \A x : x \in Called(t) <=> \E k \in 1..Len(s) : t[k].role = "assistant" /\ x \in IdsOf(t[k])
      BY <1>1 DEF Called, ToSet
    <2>3. QED
      BY <1>2, <2>1, <2>2
  <1>8. ASSUME Sound(s) PROVE Sound(t)
    <2>1. Once(t)
      BY <1>4, <1>5, <1>8 DEF Sound, Once
    <2>2. ASSUME NEW k \in Results(t) PROVE \E i \in Heads(t) : Near(t, i, k)
      <3>1. PICK i \in Heads(s) : Near(s, i, k)
        BY <1>4, <1>8, <2>2 DEF Sound
      <3>2. i \in 1..Len(s) /\ k \in 1..Len(s) /\ i < k
        BY <1>4, <1>5, <2>2, <3>1 DEF Near
      <3>3. i + 1 \in 1..Len(s) /\ \A j \in (i + 1)..(k - 1) : j \in 1..Len(s)
        BY <1>1, <3>2
      <3>4. Near(t, i, k)
        BY <1>2, <1>4, <1>5, <2>2, <3>1, <3>2, <3>3 DEF Near
      <3>5. QED
        BY <1>4, <3>4
    <2>3. QED
      BY <2>1, <2>2 DEF Sound
  <1>9. ASSUME Met(s) PROVE Met(t)
    <2>1. ASSUME NEW i \in Heads(t)
          PROVE  LET n == Cardinality(IdsOf(t[i]))
                 IN i + n <= Len(t) /\ (\A j \in (i + 1)..(i + n) : t[j].role = "tool")
                    /\ {t[j].of : j \in (i + 1)..(i + n)} = IdsOf(t[i])
      <3> DEFINE n == Cardinality(IdsOf(s[i]))
      <3>1. i \in Heads(s) /\ i \in 1..Len(s) /\ n = Cardinality(IdsOf(t[i])) /\ IdsOf(t[i]) = IdsOf(s[i])
        BY <1>4, <1>5, <2>1
      <3>2. n \in Nat
        <4>1. s[i] \in Messages
          BY <3>1, IndexFacts
        <4>2. QED
          BY <4>1, IdsFinite, FS_CardinalityType
      <3>3. /\ i + n <= Len(s) /\ (\A j \in (i + 1)..(i + n) : s[j].role = "tool")
            /\ {s[j].of : j \in (i + 1)..(i + n)} = IdsOf(s[i])
        BY <1>9, <3>1 DEF Met
      <3> HIDE DEF n
      <3>4. \A j \in (i + 1)..(i + n) : j \in 1..Len(s)
        BY <1>1, <3>1, <3>2, <3>3
      <3>5. \A j \in (i + 1)..(i + n) : t[j].role = "tool" /\ t[j].of = s[j].of
        BY <1>2, <3>3, <3>4
      <3>6. {t[j].of : j \in (i + 1)..(i + n)} = {s[j].of : j \in (i + 1)..(i + n)}
        BY <3>5
      <3>7. QED
        BY <1>1, <3>1, <3>3, <3>5, <3>6
    <2>2. \A k \in Results(t) : \E i \in Heads(t) : i < k /\ k <= i + Cardinality(IdsOf(t[i]))
      BY <1>4, <1>5, <1>9 DEF Met
    <2>3. QED
      BY <2>1, <2>2, Zenon DEF Met
  <1>10. QED
    BY <1>3, <1>6, <1>7, <1>8, <1>9

\* Each message by itself.
LEMMA RoleFaithful ==
  ASSUME NEW m \in Messages
  PROVE  LET n == [m EXCEPT !.role = IF @ = "developer" THEN "system" ELSE @]
         IN n \in Messages /\ Faithful(m, n)
  <1> DEFINE role == IF m.role = "developer" THEN "system" ELSE m.role
             n == [m EXCEPT !.role = role]
  <1>1. role \in Roles
    BY MessageFields DEF Roles
  <1> HIDE DEF role
  <1>2. n = [role |-> role, content |-> m.content, image |-> m.image, calls |-> m.calls, of |-> m.of,
             reasoning_content |-> m.reasoning_content, reasoning |-> m.reasoning]
    BY MessageFields
  <1>3. n \in Messages
    <2> HIDE DEF n
    <2>1. QED
      BY <1>1, <1>2, MessageFields, MessageBuilt
  <1>4. n.role = role /\ n.content = m.content /\ n.image = m.image /\ n.calls = m.calls /\ n.of = m.of
    BY <1>2
  <1> HIDE DEF n
  <1>5. IdsOf(n) = IdsOf(m)
    BY <1>4 DEF IdsOf
  <1>6. Faithful(m, n)
    BY <1>4, <1>5, Zenon DEF Faithful, Talks, HasCalls, View, role
  <1>7. QED
    BY <1>3, <1>6 DEF n, role

LEMMA ImageFaithful ==
  ASSUME NEW m \in Messages
  PROVE  LET n == [m EXCEPT !.image = IF @ = "string" THEN "object" ELSE @]
         IN n \in Messages /\ Faithful(m, n)
  <1> DEFINE image == IF m.image = "string" THEN "object" ELSE m.image
             n == [m EXCEPT !.image = image]
  <1>1. image \in Texts /\ (image # Absent <=> m.image # Absent)
    BY MessageFields, BodiesAssumption DEF Absent
  <1> HIDE DEF image
  <1>2. n = [role |-> m.role, content |-> m.content, image |-> image, calls |-> m.calls, of |-> m.of,
             reasoning_content |-> m.reasoning_content, reasoning |-> m.reasoning]
    BY MessageFields
  <1>3. n \in Messages
    <2> HIDE DEF n
    <2>1. QED
      BY <1>1, <1>2, MessageFields, MessageBuilt
  <1>4. n.role = m.role /\ n.content = m.content /\ n.image = image /\ n.calls = m.calls /\ n.of = m.of
    BY <1>2
  <1> HIDE DEF n
  <1>5. IdsOf(n) = IdsOf(m)
    BY <1>4 DEF IdsOf
  <1>6. View(m) = View(n)
    <2>1. (n.image # Absent) = (m.image # Absent)
      BY <1>1, <1>4
    <2>2. QED
      BY <1>4, <2>1, Zenon DEF View
  <1>7. Faithful(m, n)
    BY <1>4, <1>5, <1>6, Zenon DEF Faithful, Talks, HasCalls
  <1>8. QED
    BY <1>3, <1>7 DEF n, image

LEMMA CleanFacts ==
  ASSUME NEW text \in Texts
  PROVE  Clean(text) \in Texts /\ Clean(Clean(text)) = Clean(text) /\ Clean(text) # Marked
  BY BodiesAssumption DEF Clean, Marked, Masked

\* A message with other fields.
LEMMA OtherReasoning ==
  ASSUME NEW m \in Messages, NEW rc, NEW r
  PROVE  [m EXCEPT !.reasoning_content = rc, !.reasoning = r] =
           [role |-> m.role, content |-> m.content, image |-> m.image, calls |-> m.calls, of |-> m.of,
            reasoning_content |-> rc, reasoning |-> r]
  <1> DEFINE p == [m EXCEPT !.reasoning_content = rc]
             n == [p EXCEPT !.reasoning = r]
  <1>1. p = [role |-> m.role, content |-> m.content, image |-> m.image, calls |-> m.calls, of |-> m.of,
             reasoning_content |-> rc, reasoning |-> m.reasoning]
    BY MessageFields
  <1>2. [m EXCEPT !.reasoning_content = rc, !.reasoning = r] = n
    OBVIOUS
  <1> HIDE DEF p
  <1>3. n = [role |-> m.role, content |-> m.content, image |-> m.image, calls |-> m.calls, of |-> m.of,
             reasoning_content |-> rc, reasoning |-> r]
    BY <1>1
  <1> HIDE DEF n
  <1>4. QED
    BY <1>2, <1>3

LEMMA OtherTexts ==
  ASSUME NEW m \in Messages, NEW content, NEW rc, NEW calls
  PROVE  [m EXCEPT !.content = content, !.reasoning_content = rc, !.calls = calls] =
           [role |-> m.role, content |-> content, image |-> m.image, calls |-> calls, of |-> m.of,
            reasoning_content |-> rc, reasoning |-> m.reasoning]
  <1> DEFINE p == [m EXCEPT !.content = content]
             q == [p EXCEPT !.reasoning_content = rc]
             n == [q EXCEPT !.calls = calls]
  <1>1. p = [role |-> m.role, content |-> content, image |-> m.image, calls |-> m.calls, of |-> m.of,
             reasoning_content |-> m.reasoning_content, reasoning |-> m.reasoning]
    BY MessageFields
  <1>2. [m EXCEPT !.content = content, !.reasoning_content = rc, !.calls = calls] = n
    OBVIOUS
  <1> HIDE DEF p
  <1>3. q = [role |-> m.role, content |-> content, image |-> m.image, calls |-> m.calls, of |-> m.of,
             reasoning_content |-> rc, reasoning |-> m.reasoning]
    BY <1>1
  <1> HIDE DEF q
  <1>4. n = [role |-> m.role, content |-> content, image |-> m.image, calls |-> calls, of |-> m.of,
             reasoning_content |-> rc, reasoning |-> m.reasoning]
    BY <1>3
  <1> HIDE DEF n
  <1>5. QED
    BY <1>2, <1>4

LEMMA BackfillFaithful ==
  ASSUME NEW m \in Messages
  PROVE  LET n == IF m.role = "assistant" THEN Backfilled(m) ELSE m
         IN n \in Messages /\ Faithful(m, n)
  <1> DEFINE rc == IF IsString(m.reasoning_content) THEN m.reasoning_content
                   ELSE IF IsString(m.reasoning) THEN m.reasoning ELSE Blank
             r == IF HasText(m.reasoning) THEN m.reasoning ELSE IF rc # Blank THEN rc ELSE Space
             n == [m EXCEPT !.reasoning_content = rc, !.reasoning = r]
  <1>1. rc \in Texts
    <2>1. Blank \in Texts
      BY BodiesAssumption
    <2>2. QED
      BY <2>1, MessageFields
  <1> HIDE DEF rc
  <1>2. r \in Texts
    <2>1. Space \in Texts
      BY BodiesAssumption
    <2>2. QED
      BY <1>1, <2>1, MessageFields
  <1>3. Backfilled(m) = n
    BY Zenon DEF Backfilled, rc
  <1> HIDE DEF r
  <1>4. n = [role |-> m.role, content |-> m.content, image |-> m.image, calls |-> m.calls, of |-> m.of,
             reasoning_content |-> rc, reasoning |-> r]
    BY OtherReasoning
  <1>5. n \in Messages
    <2> HIDE DEF n
    <2>1. QED
      BY <1>1, <1>2, <1>4, MessageFields, MessageBuilt
  <1>6. n.role = m.role /\ n.content = m.content /\ n.image = m.image /\ n.calls = m.calls /\ n.of = m.of
    BY <1>4
  <1> HIDE DEF n
  <1>7. IdsOf(n) = IdsOf(m)
    BY <1>6 DEF IdsOf
  <1>8. Faithful(m, n)
    BY <1>6, <1>7, Zenon DEF Faithful, Talks, HasCalls, View
  <1>9. Faithful(m, m)
    BY DEF Faithful
  <1>10. QED
    BY <1>3, <1>5, <1>8, <1>9

LEMMA SanitizedFaithful ==
  ASSUME NEW m \in Messages
  PROVE  LET n == Sanitized(m)
         IN /\ n \in Messages /\ Faithful(m, n)
            /\ n.content # Marked /\ n.reasoning_content # Marked /\ \A c \in ToSet(n.calls) : c.args # Marked
  <1> DEFINE content == Clean(m.content)
             rc == Clean(m.reasoning_content)
             calls == [i \in DOMAIN m.calls |-> [m.calls[i] EXCEPT !.args = Clean(@)]]
             n == [m EXCEPT !.content = content, !.reasoning_content = rc, !.calls = calls]
             none == <<>>
  <1>1. content \in Texts /\ rc \in Texts /\ content # Marked /\ rc # Marked /\ Clean(content) = Clean(m.content)
    BY MessageFields, CleanFacts
  <1>2. m.calls \in Seq(ToolCalls) /\ Len(m.calls) \in Nat /\ DOMAIN m.calls = 1..Len(m.calls)
    BY MessageFields
  <1>3. ASSUME NEW i \in DOMAIN m.calls
        PROVE  calls[i] \in ToolCalls /\ calls[i].id = m.calls[i].id /\ calls[i].args # Marked
    <2> DEFINE c == m.calls[i]
               args == Clean(c.args)
    <2>1. c \in ToolCalls /\ calls[i] = [c EXCEPT !.args = args]
      BY <1>2, <1>3
    <2>2. c.args \in Texts /\ c.id \in Texts
      BY <2>1 DEF ToolCalls
    <2>3. args \in Texts /\ args # Marked
      BY <2>2, CleanFacts
    <2> HIDE DEF c, args, calls
    <2>4. calls[i] = [id |-> c.id, args |-> args]
      BY <2>1 DEF ToolCalls
    <2>5. QED
      BY <2>2, <2>3, <2>4 DEF ToolCalls, c
  <1>4. DOMAIN calls = DOMAIN m.calls
    OBVIOUS
  <1>5. calls \in Seq(ToolCalls)
    <2>1. calls \in [1..Len(m.calls) -> ToolCalls]
      BY <1>2, <1>3
    <2> HIDE DEF calls
    <2>2. QED
      BY <1>2, <2>1
  <1>6. Sanitized(m) = n
    BY Zenon DEF Sanitized, Each
  <1> HIDE DEF content, rc, calls
  <1>7. n = [role |-> m.role, content |-> content, image |-> m.image, calls |-> calls, of |-> m.of,
             reasoning_content |-> rc, reasoning |-> m.reasoning]
    BY OtherTexts
  <1>8. n \in Messages
    <2> HIDE DEF n
    <2>1. QED
      BY <1>1, <1>5, <1>7, MessageFields, MessageBuilt
  <1>9. n.role = m.role /\ n.content = content /\ n.image = m.image /\ n.calls = calls /\ n.of = m.of
        /\ n.reasoning_content = rc
    BY <1>7
  <1> HIDE DEF n
  <1>10. IdsOf(n) = IdsOf(m)
    <2>1. {c.id : c \in ToSet(calls)} = {c.id : c \in ToSet(m.calls)}
      BY <1>3, <1>4 DEF ToSet
    <2>2. QED
      BY <1>9, <2>1 DEF IdsOf
  <1>11. calls = none <=> m.calls = none
    BY <1>2, <1>4, <1>5
  <1> HIDE DEF none
  <1>12. View(m) = View(n)
    BY <1>1, <1>9, Zenon DEF View
  <1>13. HasCalls(m) <=> HasCalls(n)
    BY <1>9, <1>11, Zenon DEF HasCalls, none
  <1>14. Faithful(m, n)
    BY <1>9, <1>10, <1>12, <1>13, Zenon DEF Faithful, Talks
  <1>15. \A c \in ToSet(n.calls) : c.args # Marked
    BY <1>3, <1>4, <1>9 DEF ToSet
  <1>16. QED
    BY <1>1, <1>6, <1>8, <1>9, <1>14, <1>15

-----------------------------------------------------------------------------
\* What a pass makes of all messages.

LEMMA EachFaithful ==
  ASSUME NEW s \in Seq(Messages), NEW t, t = [i \in DOMAIN s |-> t[i]],
         \A i \in DOMAIN s : t[i] \in Messages /\ Faithful(s[i], t[i])
  PROVE  t \in Seq(Messages) /\ AllFaithful(s, t) /\ DOMAIN t = DOMAIN s
  <1>1. Len(s) \in Nat /\ DOMAIN s = 1..Len(s)
    BY IndexFacts
  <1>2. DOMAIN t = DOMAIN s
    OBVIOUS
  <1>3. t \in [1..Len(s) -> Messages]
    BY <1>1
  <1>4. t \in Seq(Messages) /\ Len(t) = Len(s)
    BY <1>1, <1>3
  <1>5. QED
    BY <1>1, <1>2, <1>4 DEF AllFaithful

LEMMA RolesPass ==
  ASSUME NEW s \in Seq(Messages)
  PROVE  NormalizeRoles(s) \in Seq(Messages) /\ AllFaithful(s, NormalizeRoles(s))
  <1> DEFINE t == NormalizeRoles(s)
  <1>1. t = [i \in DOMAIN s |-> [s[i] EXCEPT !.role = IF @ = "developer" THEN "system" ELSE @]]
    BY Zenon DEF NormalizeRoles, Each
  <1> HIDE DEF t
  <1>2. \A i \in DOMAIN s : t[i] \in Messages /\ Faithful(s[i], t[i])
    <2> SUFFICES ASSUME NEW i \in DOMAIN s PROVE t[i] \in Messages /\ Faithful(s[i], t[i])
      OBVIOUS
    <2>1. s[i] \in Messages /\ t[i] = [s[i] EXCEPT !.role = IF @ = "developer" THEN "system" ELSE @]
      BY <1>1, IndexFacts
    <2>2. QED
      BY <2>1, RoleFaithful
  <1>3. t = [i \in DOMAIN s |-> t[i]]
    BY <1>1
  <1>4. QED
    BY <1>2, <1>3, EachFaithful DEF t

LEMMA ImagesPass ==
  ASSUME NEW s \in Seq(Messages)
  PROVE  NormalizeImageURL(s) \in Seq(Messages) /\ AllFaithful(s, NormalizeImageURL(s))
  <1> DEFINE t == NormalizeImageURL(s)
  <1>1. t = [i \in DOMAIN s |-> [s[i] EXCEPT !.image = IF @ = "string" THEN "object" ELSE @]]
    BY Zenon DEF NormalizeImageURL, Each
  <1> HIDE DEF t
  <1>2. \A i \in DOMAIN s : t[i] \in Messages /\ Faithful(s[i], t[i])
    <2> SUFFICES ASSUME NEW i \in DOMAIN s PROVE t[i] \in Messages /\ Faithful(s[i], t[i])
      OBVIOUS
    <2>1. s[i] \in Messages /\ t[i] = [s[i] EXCEPT !.image = IF @ = "string" THEN "object" ELSE @]
      BY <1>1, IndexFacts
    <2>2. QED
      BY <2>1, ImageFaithful
  <1>3. t = [i \in DOMAIN s |-> t[i]]
    BY <1>1
  <1>4. QED
    BY <1>2, <1>3, EachFaithful DEF t

LEMMA BackfillPass ==
  ASSUME NEW s \in Seq(Messages), NEW t,
         t = [i \in DOMAIN s |-> IF s[i].role = "assistant" THEN Backfilled(s[i]) ELSE s[i]]
  PROVE  t \in Seq(Messages) /\ AllFaithful(s, t)
  <1>1. \A i \in DOMAIN s : t[i] \in Messages /\ Faithful(s[i], t[i])
    <2> SUFFICES ASSUME NEW i \in DOMAIN s PROVE t[i] \in Messages /\ Faithful(s[i], t[i])
      OBVIOUS
    <2>1. s[i] \in Messages /\ t[i] = IF s[i].role = "assistant" THEN Backfilled(s[i]) ELSE s[i]
      BY IndexFacts
    <2>2. QED
      BY <2>1, BackfillFaithful
  <1>2. QED
    BY <1>1, EachFaithful

LEMMA SanitizePass ==
  ASSUME NEW s \in Seq(Messages), NEW t, t = Each(Sanitized, s)
  PROVE  /\ t \in Seq(Messages) /\ AllFaithful(s, t)
         /\ \A m \in ToSet(t) : /\ m.content # Marked /\ m.reasoning_content # Marked
                                /\ \A c \in ToSet(m.calls) : c.args # Marked
  <1>1. t = [i \in DOMAIN s |-> Sanitized(s[i])]
    BY Zenon DEF Each
  <1>2. ASSUME NEW i \in DOMAIN s
        PROVE  /\ t[i] \in Messages /\ Faithful(s[i], t[i])
               /\ t[i].content # Marked /\ t[i].reasoning_content # Marked
               /\ \A c \in ToSet(t[i].calls) : c.args # Marked
    <2>1. s[i] \in Messages /\ t[i] = Sanitized(s[i])
      BY <1>1, IndexFacts
    <2>2. QED
      BY <2>1, SanitizedFaithful
  <1>3. t = [i \in DOMAIN s |-> t[i]]
    BY <1>1
  <1>4. t \in Seq(Messages) /\ AllFaithful(s, t) /\ DOMAIN t = DOMAIN s
    BY <1>2, <1>3, EachFaithful
  <1>5. QED
    BY <1>2, <1>4 DEF ToSet

LEMMA AnsweredSame ==
  ASSUME NEW s \in Seq(Messages), NEW t \in Seq(Messages), Len(t) = Len(s),
         \A i \in 1..Len(s) : t[i].role = s[i].role /\ t[i].of = s[i].of
  PROVE  Answered(t) = Answered(s)
  <1>1. DOMAIN s = 1..Len(s) /\ DOMAIN t = 1..Len(s)
    BY IndexFacts
  <1>2. \A x : x \in Answered(s) <=> x \notin {Absent, Blank} /\ \E k \in 1..Len(s) : s[k].role = "tool" /\ s[k].of = x
    BY <1>1 DEF Answered, ToSet
  <1>3. \A x : x \in Answered(t) <=> x \notin {Absent, Blank} /\ \E k \in 1..Len(s) : t[k].role = "tool" /\ t[k].of = x
    BY <1>1 DEF Answered, ToSet
  <1>4. \A x : x \in Answered(s) <=> x \in Answered(t)
    <2>1. \A x : (\E k \in 1..Len(s) : s[k].role = "tool" /\ s[k].of = x)
                 <=> (\E k \in 1..Len(s) : t[k].role = "tool" /\ t[k].of = x)
      OBVIOUS
    <2>2. QED
      BY <1>2, <1>3, <2>1
  <1>5. QED
    BY <1>4

\* A sound conversation, paired, has a result for each call, and nothing is lost.
LEMMA PairedMeets ==
  ASSUME NEW s \in Seq(Messages), Sound(s)
  PROVE  LET t == Paired(s)
         IN /\ t \in Seq(Messages) /\ Met(t)
            /\ Heard(t, Speakers) = Heard(s, Speakers)
            /\ Answered(t) = Answered(s) /\ Answered(s) \subseteq Called(s)
  <1> DEFINE a == NormalizeRoles(s)
             b == NormalizeImageURL(a)
             c == Repack(b)
             t == Cleanup(c)
  <1>1. a \in Seq(Messages) /\ AllFaithful(s, a)
    BY RolesPass
  <1>2. Sound(a) /\ Heard(a, Speakers) = Heard(s, Speakers) /\ Answered(a) = Answered(s) /\ Called(a) = Called(s)
    <2> HIDE DEF a
    <2>1. QED
      BY <1>1, FaithfulKeeps, VoicesHeard
  <1> HIDE DEF a
  <1>3. b \in Seq(Messages) /\ AllFaithful(a, b)
    BY <1>1, ImagesPass
  <1> HIDE DEF b
  <1>4. Sound(b) /\ Heard(b, Speakers) = Heard(a, Speakers) /\ Answered(b) = Answered(a) /\ Called(b) = Called(a)
    BY <1>1, <1>2, <1>3, FaithfulKeeps, VoicesHeard
  <1>5. c \in Seq(Messages) /\ ToSet(c) = ToSet(b) /\ Packed(c) /\ Among(c, Talkers) = Among(b, Talkers)
    BY <1>3, <1>4, RepackPacks
  <1> HIDE DEF c
  <1>6. Answered(c) = Answered(b) /\ Called(c) = Called(b)
    BY <1>5, Zenon DEF Answered, Called
  <1>7. Heard(c, Speakers) = Heard(b, Speakers)
    <2>1. Heard(c, Speakers) = [i \in DOMAIN Speech(c) |-> View(Speech(c)[i])]
      BY <1>5, HeardFacts
    <2>2. Heard(b, Speakers) = [i \in DOMAIN Speech(b) |-> View(Speech(b)[i])]
      BY <1>3, HeardFacts
    <2>3. Speech(c) = Speech(b)
      BY <1>5 DEF Speech
    <2>4. QED
      BY <2>1, <2>2, <2>3, Zenon
  <1>8. /\ t \in Seq(Messages) /\ Len(t) = Len(c) /\ Met(t) /\ Answered(c) \subseteq Called(c)
        /\ \A i \in 1..Len(c) : /\ t[i].role = c[i].role /\ t[i].of = c[i].of
                                /\ t[i].content = c[i].content /\ t[i].image = c[i].image
    BY <1>5, CleanupMeets
  <1>9. t = Paired(s)
    BY Zenon DEF Paired, a, b, c
  <1> HIDE DEF t
  <1>10. Answered(t) = Answered(c)
    BY <1>5, <1>8, AnsweredSame
  <1>11. Heard(t, Speakers) = Heard(c, Speakers)
    <2>1. \A i \in 1..Len(c) : Talks(t[i]) <=> Talks(c[i])
      BY <1>8 DEF Talks
    <2>2. \A i \in 1..Len(c) : View(c[i]) = View(t[i])
      BY <1>8, Zenon DEF View
    <2>3. Voices(c, t)
      BY <1>8, <2>1, <2>2 DEF Voices
    <2>4. QED
      BY <1>5, <1>8, <2>3, VoicesHeard
  <1>12. QED
    BY <1>2, <1>4, <1>6, <1>7, <1>8, <1>9, <1>10, <1>11

-----------------------------------------------------------------------------
\* PrepareBody: what is sent.

Holds(b, msgs) == "messages" \in DOMAIN b /\ b.messages = msgs

LEMMA FieldsPass ==
  ASSUME NEW b, NEW msgs, Holds(b, msgs), NEW default, NEW known
  PROVE  /\ Holds(Streamed(b), msgs) /\ Holds(TranslateMaxCompletionTokens(b), msgs)
         /\ Holds(NormalizeToolChoice(b), msgs) /\ Holds(InjectThinking(b, default), msgs)
         /\ Holds(NormalizeReasoningEffort(b, known), msgs)
  <1>1. \A c : Holds(c, msgs) => \A v : Holds([c EXCEPT !.reasoning_effort = v], msgs)
    BY DEF Holds
  <1>2. \A c : Holds(c, msgs) => \A v : Holds([c EXCEPT !.thinking = v], msgs)
    BY DEF Holds
  <1>3. \A c : Holds(c, msgs) => \A v : Holds([c EXCEPT !.tool_choice = v], msgs)
    BY DEF Holds
  <1>4. Holds(Streamed(b), msgs)
    BY DEF Holds, Streamed
  <1>5. Holds(TranslateMaxCompletionTokens(b), msgs)
    BY DEF Holds, TranslateMaxCompletionTokens
  <1>6. Holds([b EXCEPT !.tool_choice = Absent, !.tools = FALSE], msgs)
    BY DEF Holds
  <1>7. Holds(NormalizeToolChoice(b), msgs)
    BY <1>3, <1>6 DEF NormalizeToolChoice
  <1>8. Holds([b EXCEPT !.reasoning_effort = Absent, !.reasoningEffort = Absent], msgs)
    BY DEF Holds
  <1>9. \A c : Holds(c, msgs) => Holds(EnsureEffort(c, default), msgs)
    BY <1>1 DEF EnsureEffort
  <1>10. Holds(InjectThinking(b, default), msgs)
    BY <1>2, <1>8, <1>9 DEF InjectThinking
  <1>11. \A v : Holds([b EXCEPT !.reasoningEffort = v], msgs)
    BY DEF Holds
  <1>12. Holds(NormalizeReasoningEffort(b, known), msgs)
    <2> DEFINE key == IF b.reasoning_effort # Absent THEN "reasoning_effort" ELSE "reasoningEffort"
    <2>1. \A v : Holds([b EXCEPT ![key] = v], msgs)
      BY <1>1, <1>11
    <2>2. NormalizeReasoningEffort(b, known) =
            IF b[key] \in Efforts /\ known.efforts # {}
            THEN [b EXCEPT ![key] = Nearest(b[key], known.efforts)] ELSE b
      BY Zenon DEF NormalizeReasoningEffort
    <2> HIDE DEF key
    <2>3. QED
      BY <2>1, <2>2
  <1>13. QED
    BY <1>4, <1>5, <1>7, <1>10, <1>12

\* What makes a list of messages fit to be sent in place of another.
Fit(s, t) ==
  /\ t \in Seq(Messages) /\ Met(t) /\ Heard(t, Speakers) = Heard(s, Speakers) /\ Answered(t) = Answered(s)
NoMark(msgs) ==
  \A m \in ToSet(msgs) :
    m.content # Marked /\ m.reasoning_content # Marked /\ \A c \in ToSet(m.calls) : c.args # Marked

LEMMA FaithfulFits ==
  ASSUME NEW s, NEW t, Fit(s, t), NEW u \in Seq(Messages), AllFaithful(t, u)
  PROVE  Fit(s, u)
  <1>1. t \in Seq(Messages) /\ Met(t) /\ Heard(t, Speakers) = Heard(s, Speakers) /\ Answered(t) = Answered(s)
    BY DEF Fit
  <1>2. Voices(t, u) /\ Answered(u) = Answered(t) /\ Met(u)
    BY <1>1, FaithfulKeeps
  <1>3. Heard(u, Speakers) = Heard(t, Speakers)
    BY <1>1, <1>2, VoicesHeard
  <1>4. QED
    BY <1>1, <1>2, <1>3 DEF Fit

LEMMA PrepareFits ==
  ASSUME NEW b, NEW s \in Seq(Messages), Sound(s), Holds(b, s), NEW sanitize, NEW known
  PROVE  LET p == PrepareBody(b, sanitize, known)
         IN "messages" \in DOMAIN p /\ Fit(s, p.messages) /\ (sanitize => NoMark(p.messages))
  <1> DEFINE one == Streamed(b)
             two == TranslateMaxCompletionTokens(one)
             three == NormalizeToolChoice(two)
             four == [three EXCEPT !.messages = Paired(@)]
             five == InjectThinking(four, known.default)
             six == NormalizeReasoningEffort(five, known)
             seven == BackfillReasoning(six)
             eight == IF sanitize THEN [seven EXCEPT !.messages = Each(Sanitized, @)] ELSE seven
             msgs == Paired(s)
  <1>1. PrepareBody(b, sanitize, known) = eight
    BY Zenon DEF PrepareBody
  <1>2. Holds(one, s)
    BY FieldsPass
  <1> HIDE DEF one
  <1>3. Holds(two, s)
    BY <1>2, FieldsPass
  <1> HIDE DEF two
  <1>4. Holds(three, s)
    BY <1>3, FieldsPass
  <1> HIDE DEF three, msgs
  <1>5. Holds(four, msgs)
    <2>1. four = [three EXCEPT !.messages = msgs]
      BY <1>4 DEF Holds, msgs
    <2> HIDE DEF four
    <2>2. QED
      BY <1>4, <2>1 DEF Holds
  <1> HIDE DEF four
  <1>6. Holds(five, msgs)
    BY <1>5, FieldsPass
  <1> HIDE DEF five
  <1>7. Holds(six, msgs)
    BY <1>6, FieldsPass
  <1> HIDE DEF six
  <1>8. Fit(s, msgs)
    BY PairedMeets DEF Fit, msgs
  <1>9. "messages" \in DOMAIN seven /\ Fit(s, seven.messages)
    <2> DEFINE filled == [i \in DOMAIN msgs |-> IF msgs[i].role = "assistant" THEN Backfilled(msgs[i]) ELSE msgs[i]]
    <2>1. filled \in Seq(Messages) /\ AllFaithful(msgs, filled)
      <3>1. msgs \in Seq(Messages)
        BY <1>8 DEF Fit
      <3>2. QED
        BY <3>1, BackfillPass
    <2> HIDE DEF filled
    <2>2. Fit(s, filled)
      BY <1>8, <2>1, FaithfulFits
    <2>3. seven = six \/ seven = [six EXCEPT !.messages = filled]
      <3>1. six.messages = msgs
        BY <1>7 DEF Holds
      <3>2. seven = six \/ seven = [six EXCEPT !.messages =
                                      [i \in DOMAIN six.messages |->
                                        IF six.messages[i].role = "assistant" THEN Backfilled(six.messages[i])
                                        ELSE six.messages[i]]]
        BY Zenon DEF BackfillReasoning, Each
      <3>3. QED
        BY <3>1, <3>2, Zenon DEF filled
    <2> HIDE DEF seven
    <2>4. CASE seven = six
      BY <1>7, <1>8, <2>4 DEF Holds
    <2>5. CASE seven = [six EXCEPT !.messages = filled]
      <3>1. "messages" \in DOMAIN seven /\ seven.messages = filled
        BY <1>7, <2>5 DEF Holds
      <3>2. QED
        BY <2>2, <3>1
    <2>6. QED
      BY <2>3, <2>4, <2>5
  <1> HIDE DEF seven
  <1>10. CASE sanitize
    <2> DEFINE given == seven.messages
               cleaned == Each(Sanitized, given)
    <2>1. given \in Seq(Messages)
      BY <1>9 DEF Fit
    <2>2. eight = [seven EXCEPT !.messages = cleaned]
      BY <1>10, Zenon
    <2> HIDE DEF eight, cleaned
    <2>3. "messages" \in DOMAIN eight /\ eight.messages = cleaned
      BY <1>9, <2>2
    <2> HIDE DEF given
    <2>4. cleaned = Each(Sanitized, given)
      BY DEF cleaned
    <2>5. cleaned \in Seq(Messages) /\ AllFaithful(given, cleaned) /\ NoMark(cleaned)
      BY <2>1, <2>4, SanitizePass DEF NoMark
    <2>6. Fit(s, given)
      BY <1>9 DEF given
    <2>7. Fit(s, cleaned)
      BY <2>5, <2>6, FaithfulFits
    <2>8. QED
      BY <1>1, <2>3, <2>5, <2>7 DEF eight
  <1>11. CASE ~sanitize
    BY <1>1, <1>9, <1>11
  <1>12. QED
    BY <1>10, <1>11

-----------------------------------------------------------------------------
\* A message put in front of what is said.

Neutral(m) == ~Talks(m) /\ m.role # "tool"

LEMMA InFront ==
  ASSUME NEW a \in Seq(Messages), NEW b \in Seq(Messages), NEW m \in Messages, Neutral(m),
         \A i \in 1..Len(a) : Neutral(a[i]), NEW x, Parts(x, a, b), NEW y, Comes(y, a, m, b)
  PROVE  /\ x \in Seq(Messages) /\ y \in Seq(Messages) /\ Len(y) = Len(x) + 1
         /\ \A k \in (Len(a) + 1)..Len(x) : y[k + 1] = x[k]
         /\ \A i \in Heads(x) \cup Results(x) : i \in (Len(a) + 1)..Len(x)
         /\ \A i \in 1..Len(x) : (i \in Heads(x) <=> i + 1 \in Heads(y)) /\ (i \in Results(x) <=> i + 1 \in Results(y))
         /\ \A i \in Heads(y) \cup Results(y) : i - 1 \in (Len(a) + 1)..Len(x)
  <1>1. x = a \o b /\ y = a \o <<m>> \o b
    BY DEF Parts, Comes, Into
  <1> DEFINE n == Len(a)
             l == Len(b)
  <1>2. /\ x \in Seq(Messages) /\ y \in Seq(Messages) /\ n \in Nat /\ l \in Nat /\ Len(x) = n + l /\ Len(y) = n + l + 1
        /\ DOMAIN x = 1..(n + l) /\ DOMAIN y = 1..(n + l + 1)
    BY <1>1
  <1>3. /\ \A k \in 1..n : x[k] = a[k] /\ y[k] = a[k]
        /\ y[n + 1] = m
    BY <1>1
  <1>4. \A k \in (n + 1)..(n + l) : y[k + 1] = x[k]
    BY <1>1
  <1>5. \A k \in 1..n : Neutral(a[k])
    OBVIOUS
  <1> HIDE DEF n, l
  <1>6. \A z : Neutral(z) => ~HasCalls(z) /\ z.role # "tool"
    BY DEF Neutral, Talks, HasCalls
  <1>7. \A k \in 1..n : ~HasCalls(x[k]) /\ x[k].role # "tool" /\ ~HasCalls(y[k]) /\ y[k].role # "tool"
    BY <1>3, <1>5, <1>6
  <1>8. ~HasCalls(y[n + 1]) /\ y[n + 1].role # "tool"
    BY <1>3, <1>6
  <1>9. \A i \in Heads(x) \cup Results(x) : i \in (n + 1)..(n + l)
    BY <1>2, <1>7 DEF Heads, Results
  <1>10. \A i \in Heads(y) \cup Results(y) : i - 1 \in (n + 1)..(n + l)
    <2> SUFFICES ASSUME NEW i \in Heads(y) \cup Results(y) PROVE i - 1 \in (n + 1)..(n + l)
      OBVIOUS
    <2>1. i \in 1..(n + l + 1) /\ (HasCalls(y[i]) \/ y[i].role = "tool")
      BY <1>2 DEF Heads, Results
    <2>2. i # n + 1 /\ i \notin 1..n
      BY <1>7, <1>8, <2>1
    <2>3. QED
      BY <1>2, <2>1, <2>2
  <1>11. \A i \in 1..(n + l) : (i \in Heads(x) <=> i + 1 \in Heads(y)) /\ (i \in Results(x) <=> i + 1 \in Results(y))
    <2> SUFFICES ASSUME NEW i \in 1..(n + l)
                 PROVE  (i \in Heads(x) <=> i + 1 \in Heads(y)) /\ (i \in Results(x) <=> i + 1 \in Results(y))
      OBVIOUS
    <2>1. CASE i > n
      <3>1. y[i + 1] = x[i] /\ i + 1 \in DOMAIN y /\ i \in DOMAIN x
        BY <1>2, <1>4, <2>1
      <3>2. QED
        BY <3>1 DEF Heads, Results
    <2>2. CASE i <= n
      <3>1. i \notin Heads(x) /\ i \notin Results(x)
        BY <1>2, <1>9, <2>2
      <3>2. ~((i + 1) - 1 \in (n + 1)..(n + l))
        BY <1>2, <2>2
      <3>3. i + 1 \notin Heads(y) /\ i + 1 \notin Results(y)
        BY <1>10, <3>2
      <3>4. QED
        BY <3>1, <3>3
    <2>3. QED
      BY <1>2, <2>1, <2>2
  <1>12. QED
    BY <1>2, <1>4, <1>9, <1>10, <1>11 DEF n

\* The calls that a sequence of messages has results of.
LEMMA AnsweredAre ==
  ASSUME NEW s
  PROVE  \A z : z \in Answered(s) <=> z \notin {Absent, Blank} /\ \E k \in Results(s) : s[k].of = z
  <1>1. \A x : x \in ToSet(s) <=> \E k \in DOMAIN s : x = s[k]
    BY Zenon DEF ToSet
  <1>2. \A z : z \in {m.of : m \in {n \in ToSet(s) : n.role = "tool"}} <=> \E k \in Results(s) : s[k].of = z
    BY <1>1 DEF Results
  <1>3. QED
    BY <1>2 DEF Answered

LEMMA FrontKeeps ==
  ASSUME NEW a \in Seq(Messages), NEW b \in Seq(Messages), NEW m \in Messages, Neutral(m),
         \A i \in 1..Len(a) : Neutral(a[i]), NEW x, Parts(x, a, b), NEW y, Comes(y, a, m, b)
  PROVE  /\ x \in Seq(Messages) /\ y \in Seq(Messages)
         /\ Heard(y, Speakers) = Heard(x, Speakers) /\ Answered(y) = Answered(x)
         /\ Sound(x) => Sound(y)
         /\ Met(x) => Met(y)
  <1> DEFINE n == Len(a)
  <1>1. /\ x \in Seq(Messages) /\ y \in Seq(Messages) /\ Len(y) = Len(x) + 1
        /\ \A k \in (n + 1)..Len(x) : y[k + 1] = x[k]
        /\ \A i \in Heads(x) \cup Results(x) : i \in (n + 1)..Len(x)
        /\ \A i \in 1..Len(x) : (i \in Heads(x) <=> i + 1 \in Heads(y)) /\ (i \in Results(x) <=> i + 1 \in Results(y))
        /\ \A i \in Heads(y) \cup Results(y) : i - 1 \in (n + 1)..Len(x)
    BY InFront
  <1>2. n \in Nat /\ Len(x) \in Nat
    BY <1>1, IndexFacts
  <1> HIDE DEF n
  <1>3. Heard(y, Speakers) = Heard(x, Speakers)
    <2>1. m \notin Talkers
      BY DEF Talkers, Neutral
    <2>2. Speech(y) = Speech(x)
      BY <2>1, AmongInto DEF Speech
    <2>3. Heard(x, Speakers) = [i \in DOMAIN Speech(x) |-> View(Speech(x)[i])]
      BY <1>1, HeardFacts
    <2>4. Heard(y, Speakers) = [i \in DOMAIN Speech(y) |-> View(Speech(y)[i])]
      BY <1>1, HeardFacts
    <2>5. QED
      BY <2>2, <2>3, <2>4, Zenon
  <1>4. \A i \in Heads(y) : i - 1 \in Heads(x) /\ i \in Nat /\ y[i] = x[i - 1] /\ i \in 1..Len(y)
    <2> SUFFICES ASSUME NEW i \in Heads(y) PROVE i - 1 \in Heads(x) /\ i \in Nat /\ y[i] = x[i - 1] /\ i \in 1..Len(y)
      OBVIOUS
    <2>1. i \in 1..Len(y) /\ i \in Nat /\ i - 1 \in (n + 1)..Len(x) /\ (i - 1) + 1 = i
      BY <1>1, IndexFacts
    <2>2. i - 1 \in 1..Len(x)
      BY <1>2, <2>1
    <2>3. QED
      BY <1>1, <2>1, <2>2
  <1>5. \A i \in Results(y) : i - 1 \in Results(x) /\ i \in Nat /\ y[i] = x[i - 1] /\ i \in 1..Len(y)
    <2> SUFFICES ASSUME NEW i \in Results(y) PROVE i - 1 \in Results(x) /\ i \in Nat /\ y[i] = x[i - 1] /\ i \in 1..Len(y)
      OBVIOUS
    <2>1. i \in 1..Len(y) /\ i \in Nat /\ i - 1 \in (n + 1)..Len(x) /\ (i - 1) + 1 = i
      BY <1>1, IndexFacts
    <2>2. i - 1 \in 1..Len(x)
      BY <1>2, <2>1
    <2>3. QED
      BY <1>1, <2>1, <2>2
  <1>6. /\ \A i \in Heads(x) : i + 1 \in Heads(y) /\ y[i + 1] = x[i] /\ i \in (n + 1)..Len(x)
        /\ \A i \in Results(x) : i + 1 \in Results(y) /\ y[i + 1] = x[i] /\ i \in (n + 1)..Len(x)
    <2>1. \A i \in (n + 1)..Len(x) : i \in 1..Len(x)
      BY <1>2
    <2>2. QED
      BY <1>1, <2>1
  <1>7. Answered(y) = Answered(x)
    <2>1. \A z : z \in Answered(x) <=> z \notin {Absent, Blank} /\ \E k \in Results(x) : x[k].of = z
      BY AnsweredAre, Zenon
    <2>2. \A z : z \in Answered(y) <=> z \notin {Absent, Blank} /\ \E k \in Results(y) : y[k].of = z
      BY AnsweredAre, Zenon
    <2>3. \A z : (\E k \in Results(x) : x[k].of = z) <=> (\E k \in Results(y) : y[k].of = z)
      BY <1>5, <1>6
    <2>4. \A z : z \in Answered(y) <=> z \in Answered(x)
      BY <2>1, <2>2, <2>3
    <2>5. QED
      BY <2>4
  <1>8. ASSUME Sound(x) PROVE Sound(y)
    <2>1. Once(x)
      BY <1>8 DEF Sound
    <2>2. Once(y)
      <3>1. ASSUME NEW i \in Heads(y), NEW j \in Heads(y), i # j PROVE IdsOf(y[i]) \cap IdsOf(y[j]) = {}
        <4>1. i - 1 \in Heads(x) /\ j - 1 \in Heads(x) /\ i - 1 # j - 1 /\ y[i] = x[i - 1] /\ y[j] = x[j - 1]
          BY <1>4, <3>1
        <4>2. QED
          BY <2>1, <4>1 DEF Once
      <3>2. ASSUME NEW k \in Results(y), NEW l \in Results(y), k # l PROVE y[k].of # y[l].of
        <4>1. k - 1 \in Results(x) /\ l - 1 \in Results(x) /\ k - 1 # l - 1 /\ y[k] = x[k - 1] /\ y[l] = x[l - 1]
          BY <1>5, <3>2
        <4>2. QED
          BY <2>1, <4>1 DEF Once
      <3>3. QED
        BY <3>1, <3>2 DEF Once
    <2>3. ASSUME NEW k \in Results(y) PROVE \E i \in Heads(y) : Near(y, i, k)
      <3>1. k - 1 \in Results(x) /\ k \in Nat /\ y[k] = x[k - 1] /\ k \in 1..Len(y)
        BY <1>5
      <3>2. PICK i \in Heads(x) : Near(x, i, k - 1)
        BY <1>8, <3>1 DEF Sound
      <3>3. i + 1 \in Heads(y) /\ y[i + 1] = x[i] /\ i \in (n + 1)..Len(x) /\ k - 1 \in (n + 1)..Len(x) /\ i < k - 1
        BY <1>6, <3>1, <3>2 DEF Near
      <3>4. i + 1 \in (n + 1)..Len(x)
        BY <1>2, <3>3
      <3>5. y[(i + 1) + 1].role = "tool"
        BY <1>1, <3>2, <3>4 DEF Near
      <3>6. ASSUME NEW j \in ((i + 1) + 1)..(k - 1) PROVE ~Talks(y[j])
        <4>1. j - 1 \in (i + 1)..((k - 1) - 1) /\ j - 1 \in (n + 1)..Len(x) /\ (j - 1) + 1 = j
          BY <1>2, <3>3
        <4>2. y[j] = x[j - 1] /\ ~Talks(x[j - 1])
          BY <1>1, <3>2, <4>1 DEF Near
        <4>3. QED
          BY <4>2
      <3>7. Near(y, i + 1, k)
        <4>1. i + 1 < k /\ y[k].of \in IdsOf(y[i + 1])
          BY <1>2, <3>1, <3>2, <3>3 DEF Near
        <4>2. QED
          BY <3>5, <3>6, <4>1 DEF Near
      <3>8. QED
        BY <3>3, <3>7
    <2>4. QED
      BY <2>2, <2>3 DEF Sound
  <1>9. ASSUME Met(x) PROVE Met(y)
    <2>1. ASSUME NEW i \in Heads(y)
          PROVE  LET c == Cardinality(IdsOf(y[i]))
                 IN i + c <= Len(y) /\ (\A j \in (i + 1)..(i + c) : y[j].role = "tool")
                    /\ {y[j].of : j \in (i + 1)..(i + c)} = IdsOf(y[i])
      <3> DEFINE h == i - 1
                 c == Cardinality(IdsOf(x[h]))
      <3>1. h \in Heads(x) /\ h \in (n + 1)..Len(x) /\ i \in Nat /\ y[i] = x[h] /\ c = Cardinality(IdsOf(y[i])) /\ i = h + 1
            /\ h \in 1..Len(x)
        BY <1>1, <1>2, <1>4
      <3>2. c \in Nat
        <4>1. x[h] \in Messages
          BY <1>1, <3>1, IndexFacts
        <4>2. QED
          BY <4>1, IdsFinite, FS_CardinalityType
      <3>3. /\ h + c <= Len(x) /\ (\A j \in (h + 1)..(h + c) : x[j].role = "tool")
            /\ {x[j].of : j \in (h + 1)..(h + c)} = IdsOf(x[h])
        BY <1>9, <3>1 DEF Met
      <3> HIDE DEF c
      <3>9. /\ h \in Nat /\ n \in Nat /\ Len(x) \in Nat /\ c \in Nat /\ i = h + 1 /\ h >= n + 1
            /\ h + c <= Len(x) /\ Len(y) = Len(x) + 1
        BY <1>1, <1>2, <3>1, <3>2, <3>3
      <3> HIDE DEF h
      <3>4. \A j \in (i + 1)..(i + c) : j - 1 \in (h + 1)..(h + c) /\ y[j] = x[j - 1]
        <4> SUFFICES ASSUME NEW j \in (i + 1)..(i + c) PROVE j - 1 \in (h + 1)..(h + c) /\ y[j] = x[j - 1]
          OBVIOUS
        <4>1. j - 1 \in (h + 1)..(h + c) /\ j - 1 \in (n + 1)..Len(x) /\ (j - 1) + 1 = j
          BY <3>9
        <4>2. QED
          BY <1>1, <4>1
      <3>5. \A j \in (h + 1)..(h + c) : j + 1 \in (i + 1)..(i + c) /\ (j + 1) - 1 = j
        BY <3>1, <3>2
      <3>6. {y[j].of : j \in (i + 1)..(i + c)} = {x[j].of : j \in (h + 1)..(h + c)}
        <4>1. \A j \in (h + 1)..(h + c) : y[j + 1] = x[j]
          BY <3>4, <3>5
        <4>2. QED
          BY <3>4, <3>5, <4>1
      <3>7. i + c <= Len(y) /\ \A j \in (i + 1)..(i + c) : y[j].role = "tool"
        <4>1. i + c <= Len(y)
          BY <3>9
        <4>2. \A j \in (h + 1)..(h + c) : x[j].role = "tool"
          BY <3>3
        <4>3. QED
          BY <3>4, <4>1, <4>2
      <3>8. QED
        BY <3>1, <3>3, <3>6, <3>7
    <2>2. ASSUME NEW k \in Results(y)
          PROVE  \E i \in Heads(y) : i < k /\ k <= i + Cardinality(IdsOf(y[i]))
      <3>1. k - 1 \in Results(x) /\ k \in Nat
        BY <1>5
      <3>2. PICK h \in Heads(x) : h < k - 1 /\ k - 1 <= h + Cardinality(IdsOf(x[h]))
        BY <1>9, <3>1 DEF Met
      <3>3. h + 1 \in Heads(y) /\ y[h + 1] = x[h] /\ h \in (n + 1)..Len(x)
        BY <1>6
      <3> DEFINE c == Cardinality(IdsOf(x[h]))
      <3>4. c \in Nat
        <4>1. x[h] \in Messages
          BY <1>1, IndexFacts
        <4>2. QED
          BY <4>1, IdsFinite, FS_CardinalityType
      <3>5. c = Cardinality(IdsOf(y[h + 1])) /\ h < k - 1 /\ k - 1 <= h + c
        BY <3>2, <3>3
      <3> HIDE DEF c
      <3>6. h + 1 < k /\ k <= (h + 1) + c
        BY <1>2, <3>1, <3>3, <3>4, <3>5
      <3>7. QED
        BY <3>3, <3>5, <3>6
    <2>3. QED
      BY <2>1, <2>2, Zenon DEF Met
  <1>10. QED
    BY <1>1, <1>3, <1>7, <1>8, <1>9

\* The message the international upstream wants first.
LEMMA ConsoleFits ==
  ASSUME NEW s, NEW t, Fit(s, t)
  PROVE  Fit(s, EnsureConsoleSystem(t)) /\ (NoMark(t) => NoMark(EnsureConsoleSystem(t)))
  <1> DEFINE m == Message("system", "assist")
             u == <<m>> \o t
             none == <<>>
  <1>1. t \in Seq(Messages) /\ Met(t) /\ Heard(t, Speakers) = Heard(s, Speakers) /\ Answered(t) = Answered(s)
    BY DEF Fit
  <1>2. m \in Messages /\ m.role = "system"
    BY MessageTyped, BodiesAssumption DEF Roles
  <1>3. m.content # Marked /\ m.reasoning_content # Marked /\ ToSet(m.calls) = {}
    <2>1. m.content = "assist" /\ m.reasoning_content = Absent /\ m.calls = none
      BY DEF Message
    <2>2. ToSet(none) = {}
      BY DEF ToSet
    <2>3. QED
      BY <2>1, <2>2 DEF Marked, Absent
  <1> HIDE DEF m
  <1>4. none \in Seq(Messages) /\ Len(none) = 0 /\ t = none \o t /\ u = none \o <<m>> \o t
    BY <1>1, <1>2
  <1>5. Neutral(m)
    BY <1>2 DEF Neutral, Talks
  <1>6. Parts(t, none, t) /\ Comes(u, none, m, t)
    BY <1>4 DEF Parts, Comes, Into
  <1>7. ToSet(u) = ToSet(t) \cup {m}
    <2>1. Len(u) = Len(t) + 1 /\ u[1] = m /\ u \in Seq(Messages) /\ Len(t) \in Nat
          /\ \A k \in 1..Len(t) : u[k + 1] = t[k]
      BY <1>1, <1>2
    <2> HIDE DEF u
    <2>2. ToSet(u) = {u[k] : k \in 1..Len(u)} /\ ToSet(t) = {t[k] : k \in 1..Len(t)}
      BY <1>1, <2>1, IndexFacts
    <2>3. ASSUME NEW k \in 1..Len(u), k # 1 PROVE k - 1 \in 1..Len(t) /\ u[k] = t[k - 1]
      <3>1. k - 1 \in 1..Len(t) /\ (k - 1) + 1 = k
        BY <2>1, <2>3
      <3>2. QED
        BY <2>1, <3>1
    <2>4. \A k \in 1..Len(t) : k + 1 \in 1..Len(u)
      BY <2>1
    <2>5. 1 \in 1..Len(u)
      BY <2>1
    <2>6. \A x : x \in ToSet(u) => x \in ToSet(t) \cup {m}
      BY <2>1, <2>2, <2>3
    <2>7. \A x : x \in ToSet(t) \cup {m} => x \in ToSet(u)
      BY <2>1, <2>2, <2>4, <2>5
    <2>8. QED
      BY <2>6, <2>7
  <1>8. EnsureConsoleSystem(t) = u \/ EnsureConsoleSystem(t) = t
    BY Zenon DEF EnsureConsoleSystem, m
  <1> HIDE DEF u, none
  <1>9. \A i \in 1..Len(none) : Neutral(none[i])
    BY <1>4
  <1>10. u \in Seq(Messages) /\ Heard(u, Speakers) = Heard(t, Speakers) /\ Answered(u) = Answered(t) /\ Met(u)
    <2>1. none \in Seq(Messages) /\ t \in Seq(Messages) /\ m \in Messages
      BY <1>1, <1>2, <1>4
    <2>2. /\ u \in Seq(Messages) /\ Heard(u, Speakers) = Heard(t, Speakers) /\ Answered(u) = Answered(t)
          /\ Met(t) => Met(u)
      BY <2>1, <1>5, <1>6, <1>9, FrontKeeps, SMTT(60)
    <2>3. QED
      BY <1>1, <2>2
  <1>11. Fit(s, u) /\ (NoMark(t) => NoMark(u))
    BY <1>1, <1>3, <1>7, <1>10 DEF Fit, NoMark
  <1>12. QED
    BY <1>8, <1>11

-----------------------------------------------------------------------------
\* Without the instructions.

LEMMA AmongTwice ==
  ASSUME NEW s \in Seq(Messages), NEW T, NEW U, \A i \in 1..Len(s) : s[i] \in U => s[i] \in T
  PROVE  Among(Among(s, T), U) = Among(s, U)
  <1> DEFINE P == AmongFirst(s, T)
             Q == AmongFirst(s, U)
             n == Len(s)
             Good == {k \in 0..n : P[k] \in Seq(Messages) /\ Among(P[k], U) = Q[k]}
  <1>1. P[0] = <<>> /\ \A k \in 1..n : P[k] = IF s[k] \in T THEN Append(P[k - 1], s[k]) ELSE P[k - 1]
    BY AmongFirstFacts
  <1>2. Q[0] = <<>> /\ \A k \in 1..n : Q[k] = IF s[k] \in U THEN Append(Q[k - 1], s[k]) ELSE Q[k - 1]
    BY AmongFirstFacts
  <1>3. n \in Nat /\ \A k \in 1..n : s[k] \in Messages /\ (s[k] \in U => s[k] \in T)
    BY IndexFacts
  <1> HIDE DEF P, Q, n
  <1>4. 0 \in Good
    <2>1. P[0] \in Seq(Messages) /\ Len(P[0]) = 0
      BY <1>1
    <2>2. Among(P[0], U) = <<>>
      BY <2>1, AmongNone
    <2>3. QED
      BY <1>2, <1>3, <2>1, <2>2
  <1>5. ASSUME NEW k \in 1..n, k - 1 \in Good PROVE k \in Good
    <2> DEFINE p == P[k - 1]
               m == s[k]
    <2>1. p \in Seq(Messages) /\ Among(p, U) = Q[k - 1] /\ m \in Messages /\ k \in 0..n /\ (m \in U => m \in T)
      BY <1>3, <1>5
    <2>2. P[k] = (IF m \in T THEN Append(p, m) ELSE p) /\ Q[k] = (IF m \in U THEN Append(Q[k - 1], m) ELSE Q[k - 1])
      BY <1>1, <1>2
    <2> HIDE DEF p, m
    <2>3. Append(p, m) \in Seq(Messages)
      BY <2>1
    <2>4. Among(Append(p, m), U) = IF m \in U THEN Append(Among(p, U), m) ELSE Among(p, U)
      BY <2>1, AmongAppend
    <2>5. P[k] \in Seq(Messages)
      BY <2>1, <2>2, <2>3
    <2>6. Among(P[k], U) = Q[k]
      <3>1. CASE m \in T
        BY <2>1, <2>2, <2>4, <3>1, Zenon
      <3>2. CASE m \notin T
        BY <2>1, <2>2, <3>2, Zenon
      <3>3. QED
        BY <3>1, <3>2
    <2>7. QED
      BY <2>1, <2>5, <2>6
  <1>6. n \in Good
    <2> HIDE DEF Good
    <2>1. 0..n \subseteq Good
      BY <1>3, <1>4, <1>5, UpTo
    <2>2. QED
      BY <1>3, <2>1
  <1>7. QED
    BY <1>6 DEF P, Q, n, Among

\* What is left of a sound history without its instructions.
LEMMA WithoutInstructions ==
  ASSUME NEW s \in Seq(Messages), Sound(s), NEW T, T = {m \in ToSet(s) : ~Instructs(m)}
  PROVE  LET t == Among(s, T)
         IN /\ t \in Seq(Messages) /\ Sound(t)
            /\ Heard(t, Speakers) = Heard(s, Speakers) /\ Answered(t) = Answered(s)
  <1> DEFINE t == Among(s, T)
             n == Len(s)
             l == Len(t)
             K == {i \in 1..n : s[i] \in T}
  <1>1. t \in Seq(Messages) /\ Thinned(t, s, n, K) /\ ToSet(t) = ToSet(s) \cap T
    BY AmongThins, AmongFacts
  <1>2. n \in Nat /\ (\A i \in 1..n : s[i] \in Messages /\ s[i] \in ToSet(s)) /\ l \in Nat
    BY <1>1, IndexFacts
  <1>3. \A i \in 1..n : i \in K <=> ~Instructs(s[i])
    BY <1>2
  <1>4. \A i \in 1..n : (Talks(s[i]) \/ HasCalls(s[i]) \/ s[i].role = "tool") => i \in K
    BY <1>3 DEF Instructs, Talks, HasCalls
  <1>5. PICK at \in [1..l -> 1..n] :
          /\ \A j, k \in 1..l : j < k => at[j] < at[k]
          /\ \A j \in 1..l : t[j] = s[at[j]] /\ at[j] \in K
          /\ \A i \in 1..n : i \in K => \E j \in 1..l : at[j] = i
    BY <1>1 DEF Thinned
  <1>6. Heard(t, Speakers) = Heard(s, Speakers)
    <2>1. \A i \in 1..Len(s) : s[i] \in Talkers => s[i] \in T
      BY <1>2, <1>4 DEF Talkers
    <2>2. Speech(t) = Speech(s)
      BY <2>1, AmongTwice DEF Speech
    <2>3. QED
      BY <1>1, <2>2, HeardFacts
  <1>7. Answered(t) = Answered(s)
    <2>1. \A m \in ToSet(s) : m.role = "tool" => m \in T
      BY DEF Instructs
    <2>2. \A m : (m \in ToSet(t) /\ m.role = "tool") <=> (m \in ToSet(s) /\ m.role = "tool")
      BY <1>1, <2>1
    <2>3. {m \in ToSet(t) : m.role = "tool"} = {m \in ToSet(s) : m.role = "tool"}
      BY <2>2
    <2>4. QED
      BY <2>3 DEF Answered
  <1>8. /\ \A i \in Heads(s) : i \in 1..n /\ HasCalls(s[i])
        /\ \A k \in Results(s) : k \in 1..n /\ s[k].role = "tool"
        /\ \A i \in Heads(t) : i \in 1..l /\ at[i] \in 1..n /\ at[i] \in Heads(s) /\ t[i] = s[at[i]]
        /\ \A k \in Results(t) : k \in 1..l /\ at[k] \in 1..n /\ at[k] \in Results(s) /\ t[k] = s[at[k]]
        /\ \A i \in 1..l : at[i] \in Heads(s) => i \in Heads(t)
    BY <1>1, <1>2, <1>5, IndexFacts DEF Heads, Results
  <1> HIDE DEF t, K, n, l
  <1>9. \A j, k \in 1..l : j # k => at[j] # at[k]
    BY <1>2, <1>5
  <1>10. Once(t)
    <2>1. Once(s)
      BY DEF Sound
    <2>2. ASSUME NEW i \in Heads(t), NEW j \in Heads(t), i # j PROVE IdsOf(t[i]) \cap IdsOf(t[j]) = {}
      <3>1. at[i] \in Heads(s) /\ at[j] \in Heads(s) /\ at[i] # at[j] /\ t[i] = s[at[i]] /\ t[j] = s[at[j]]
        BY <1>8, <1>9, <2>2
      <3>2. QED
        BY <2>1, <3>1 DEF Once
    <2>3. ASSUME NEW k \in Results(t), NEW j \in Results(t), k # j PROVE t[k].of # t[j].of
      <3>1. at[k] \in Results(s) /\ at[j] \in Results(s) /\ at[k] # at[j] /\ t[k] = s[at[k]] /\ t[j] = s[at[j]]
        BY <1>8, <1>9, <2>3
      <3>2. QED
        BY <2>1, <3>1 DEF Once
    <2>4. QED
      BY <2>2, <2>3 DEF Once
  <1>11. ASSUME NEW k \in Results(t) PROVE \E i \in Heads(t) : Near(t, i, k)
    <2>1. k \in 1..l /\ at[k] \in Results(s) /\ t[k] = s[at[k]] /\ at[k] \in 1..n
      BY <1>8
    <2>2. PICK h \in Heads(s) : Near(s, h, at[k])
      BY <2>1 DEF Sound
    <2>3. h \in 1..n /\ HasCalls(s[h]) /\ h < at[k] /\ s[at[k]].of \in IdsOf(s[h]) /\ s[h + 1].role = "tool"
          /\ \A j \in (h + 1)..(at[k] - 1) : ~Talks(s[j])
      BY <1>8, <2>2 DEF Near
    <2>4. PICK i \in 1..l : at[i] = h
      BY <1>4, <1>5, <2>3
    <2>5. h + 1 \in 1..n /\ h + 1 \in K
      BY <1>2, <1>4, <2>1, <2>3
    <2>6. PICK g \in 1..l : at[g] = h + 1
      BY <1>5, <2>5
    <2>7. i < k /\ i < g /\ i + 1 \in 1..l
      <3>1. ~(k < i) /\ ~(g < i)
        BY <1>5, <2>1, <2>3, <2>4, <2>6, <1>2
      <3>2. k # i /\ g # i
        BY <1>2, <2>1, <2>3, <2>4, <2>6
      <3>3. QED
        BY <1>2, <2>1, <2>4, <2>6, <3>1, <3>2
    <2>8. g = i + 1
      <3>1. at[i + 1] \in 1..n /\ at[i] < at[i + 1] /\ ~(i + 1 < g /\ ~(at[i + 1] < at[g]))
        <4>1. i < i + 1
          BY <2>4
        <4>2. QED
          BY <1>5, <2>4, <2>6, <2>7, <4>1
      <3>2. QED
        BY <1>2, <2>3, <2>4, <2>6, <2>7, <3>1
    <2>9. t[i + 1].role = "tool"
      BY <1>5, <2>3, <2>6, <2>8
    <2>10. ASSUME NEW j \in (i + 1)..(k - 1) PROVE ~Talks(t[j])
      <3>1. j \in 1..l /\ i < j /\ j < k
        BY <1>2, <2>1, <2>4
      <3>2. at[j] \in 1..n /\ at[i] < at[j] /\ at[j] < at[k] /\ t[j] = s[at[j]]
        BY <1>5, <2>1, <2>4, <3>1
      <3>3. at[j] \in (h + 1)..(at[k] - 1)
        BY <1>2, <2>1, <2>3, <2>4, <3>2
      <3>4. QED
        BY <2>3, <3>2, <3>3
    <2>11. i \in Heads(t) /\ t[i] = s[h] /\ t[k].of \in IdsOf(t[i])
      BY <1>5, <1>8, <2>1, <2>2, <2>3, <2>4
    <2>12. QED
      BY <2>7, <2>9, <2>10, <2>11 DEF Near
  <1>12. QED
    BY <1>1, <1>6, <1>7, <1>10, <1>11 DEF Sound, t

\* What a request may be made of: the history, or what a prompt makes of it.
Tells(s, t) ==
  /\ t \in Seq(Messages) /\ Sound(t) /\ Heard(t, Speakers) = Heard(s, Speakers) /\ Answered(t) = Answered(s)

LEMMA PromptTyped ==
  ASSUME NEW prompt \in Texts
  PROVE  LET m == Message("system", prompt) IN m \in Messages /\ Instructs(m) /\ Neutral(m)
  <1> DEFINE m == Message("system", prompt)
  <1>1. m \in Messages
    BY MessageTyped DEF Roles
  <1>2. m.role = "system"
    BY DEF Message
  <1>3. QED
    BY <1>1, <1>2 DEF Instructs, Neutral, Talks

LEMMA RewriteSays ==
  ASSUME NEW h, NEW s, Tells(h, s), NEW prompt \in Texts
  PROVE  Tells(h, RewritePrompt(s, prompt))
  <1> DEFINE m == Message("system", prompt)
             T == {x \in ToSet(s) : ~Instructs(x)}
             t == Among(s, T)
             u == <<m>> \o t
             none == <<>>
  <1>1. s \in Seq(Messages) /\ Sound(s) /\ Heard(s, Speakers) = Heard(h, Speakers) /\ Answered(s) = Answered(h)
    BY DEF Tells
  <1>2. m \in Messages /\ Neutral(m)
    BY PromptTyped
  <1>3. t \in Seq(Messages) /\ Sound(t) /\ Heard(t, Speakers) = Heard(s, Speakers) /\ Answered(t) = Answered(s)
    BY <1>1, WithoutInstructions
  <1>4. RewritePrompt(s, prompt) = u
    BY DEF RewritePrompt
  <1> HIDE DEF m, t
  <1>5. none \in Seq(Messages) /\ Len(none) = 0 /\ t = none \o t /\ u = none \o <<m>> \o t
    BY <1>2, <1>3
  <1>6. Parts(t, none, t) /\ Comes(u, none, m, t)
    BY <1>5 DEF Parts, Comes, Into
  <1>7. \A i \in 1..Len(none) : Neutral(none[i])
    BY <1>5
  <1> HIDE DEF u, none
  <1>8. /\ u \in Seq(Messages) /\ Heard(u, Speakers) = Heard(t, Speakers) /\ Answered(u) = Answered(t)
        /\ Sound(t) => Sound(u)
    <2>1. none \in Seq(Messages) /\ t \in Seq(Messages) /\ m \in Messages
      BY <1>2, <1>3, <1>5
    <2>2. QED
      BY <2>1, <1>2, <1>6, <1>7, FrontKeeps, SMTT(60)
  <1>9. QED
    BY <1>1, <1>3, <1>4, <1>8 DEF Tells

\* The instructions a request begins with end somewhere.
LEMMA OpeningEnds ==
  ASSUME NEW s \in Seq(Messages)
  PROVE  \E n \in 0..Len(s) : (\A i \in 1..n : Instructs(s[i])) /\ (n < Len(s) => ~Instructs(s[n + 1]))
  <1> DEFINE l == Len(s)
             Ends == {k \in 1..(l + 1) : k \in 1..l => ~Instructs(s[k])}
  <1>1. l \in Nat /\ l + 1 \in Ends
    BY IndexFacts
  <1> HIDE DEF l
  <1>2. PICK k \in Ends : \A j \in Ends : k <= j
    <2>1. Ends \subseteq Nat /\ Ends # {}
      <3>1. \A k \in 1..(l + 1) : k \in Nat
        BY <1>1
      <3>2. \A k \in Ends : k \in 1..(l + 1)
        OBVIOUS
      <3>3. QED
        BY <1>1, <3>1, <3>2
    <2> HIDE DEF Ends
    <2>2. QED
      BY <2>1, LeastNumber
  <1>3. k \in 1..(l + 1) /\ k - 1 \in 0..l /\ (k - 1) + 1 = k
    BY <1>1
  <1>4. \A i \in 1..(k - 1) : Instructs(s[i])
    BY <1>1, <1>2, <1>3
  <1>5. k - 1 < l => ~Instructs(s[(k - 1) + 1])
    BY <1>1, <1>2, <1>3
  <1>6. QED
    BY <1>3, <1>4, <1>5 DEF l

LEMMA AppendSays ==
  ASSUME NEW h, NEW s, Tells(h, s), NEW prompt \in Texts
  PROVE  Tells(h, AppendPrompt(s, prompt))
  <1> DEFINE m == Message("system", prompt)
             Ends(n) == (\A i \in 1..n : Instructs(s[i])) /\ (n < Len(s) => ~Instructs(s[n + 1]))
             n == CHOOSE k \in 0..Len(s) : Ends(k)
             a == SubSeq(s, 1, n)
             b == SubSeq(s, n + 1, Len(s))
             u == Into(a, m, b)
  <1>1. s \in Seq(Messages) /\ Sound(s) /\ Heard(s, Speakers) = Heard(h, Speakers) /\ Answered(s) = Answered(h)
    BY DEF Tells
  <1>2. m \in Messages /\ Neutral(m)
    BY PromptTyped
  <1>3. n \in 0..Len(s) /\ Ends(n)
    <2>1. \E k \in 0..Len(s) : Ends(k)
      BY <1>1, OpeningEnds
    <2>2. QED
      BY <2>1, Zenon
  <1>4. AppendPrompt(s, prompt) = InsertAt(s, n + 1, m)
    BY Zenon DEF AppendPrompt
  <1> HIDE DEF n, m
  <1>5. Len(s) \in Nat /\ n \in Nat /\ n <= Len(s) /\ (n + 1) - 1 = n
    BY <1>1, <1>3
  <1>6. InsertAt(s, n + 1, m) = u
    BY <1>5, Zenon DEF InsertAt, Into
  <1>7. /\ a \in Seq(Messages) /\ b \in Seq(Messages) /\ Len(a) = n /\ s = a \o b
        /\ \A i \in 1..n : a[i] = s[i]
    <2>1. a \in Seq(Messages) /\ Len(a) = n /\ \A i \in 1..n : a[i] = s[i]
      BY <1>1, <1>5
    <2>2. b \in Seq(Messages) /\ Len(b) = Len(s) - n /\ \A i \in 1..(Len(s) - n) : b[i] = s[n + i]
      BY <1>1, <1>5
    <2> HIDE DEF a, b
    <2>3. DOMAIN s = 1..Len(s) /\ DOMAIN (a \o b) = 1..Len(s)
      BY <1>1, <1>5, <2>1, <2>2
    <2>4. ASSUME NEW i \in 1..Len(s) PROVE (a \o b)[i] = s[i]
      <3>1. CASE i <= n
        <4>1. i \in 1..n
          BY <1>5, <3>1
        <4>2. (a \o b)[i] = a[i]
          BY <2>1, <2>2, <4>1
        <4>3. QED
          BY <2>1, <4>1, <4>2
      <3>2. CASE n < i
        <4>1. i - n \in 1..(Len(s) - n) /\ n + (i - n) = i
          BY <1>5, <3>2
        <4>2. (a \o b)[i] = b[i - n]
          BY <1>5, <2>1, <2>2, <3>2, <4>1
        <4>3. QED
          BY <2>2, <4>1, <4>2
      <3>3. i <= n \/ n < i
        BY <1>5
      <3>4. QED
        BY <3>1, <3>2, <3>3, Zenon
    <2>5. s = a \o b
      BY <1>1, <1>5, <2>1, <2>2, <2>3, <2>4
    <2>6. QED
      BY <2>1, <2>2, <2>5
  <1> HIDE DEF a, b
  <1>8. Parts(s, a, b) /\ Comes(u, a, m, b)
    BY <1>7 DEF Parts, Comes
  <1>9. \A i \in 1..Len(a) : Neutral(a[i])
    BY <1>3, <1>7 DEF Instructs, Neutral, Talks
  <1> HIDE DEF u
  <1>10. /\ u \in Seq(Messages) /\ Heard(u, Speakers) = Heard(s, Speakers) /\ Answered(u) = Answered(s)
         /\ Sound(s) => Sound(u)
    BY <1>2, <1>7, <1>8, <1>9, FrontKeeps, SMTT(60)
  <1>11. QED
    BY <1>1, <1>4, <1>6, <1>10 DEF Tells

-----------------------------------------------------------------------------
\* The client's history

LEMMA MetFollows ==
  ASSUME NEW s \in Seq(Messages), Met(s), NEW i \in Heads(s)
  PROVE  Follow(s, i)
  <1> DEFINE n == Cardinality(IdsOf(s[i]))
             block == SubSeq(s, i + 1, i + n)
             of == {m.of : m \in {r \in ToSet(block) : r.role = "tool"}}
  <1>1. /\ Len(s) \in Nat /\ i \in 1..Len(s) /\ s[i] \in Messages /\ n \in Nat
        /\ \A j \in 1..Len(s) : s[j] \in Messages
    <2>1. Len(s) \in Nat /\ i \in 1..Len(s) /\ s[i] \in Messages /\ \A j \in 1..Len(s) : s[j] \in Messages
      BY IndexFacts
    <2>2. QED
      BY <2>1, IdsFinite, FS_CardinalityType
  <1>2. /\ i + n <= Len(s) /\ (\A j \in (i + 1)..(i + n) : s[j].role = "tool")
        /\ {s[j].of : j \in (i + 1)..(i + n)} = IdsOf(s[i])
    BY DEF Met
  <1> HIDE DEF n
  <1>3. block \in Seq(Messages) /\ Len(block) = n /\ \A k \in 1..n : block[k] = s[i + k]
    BY <1>1, <1>2
  <1> HIDE DEF block
  <1>4. ToSet(block) = {block[k] : k \in 1..n}
    BY <1>3, IndexFacts
  <1>5. of = IdsOf(s[i])
    <2>1. \A k \in 1..n : i + k \in (i + 1)..(i + n) /\ block[k] = s[i + k] /\ s[i + k].role = "tool"
      BY <1>1, <1>2, <1>3
    <2>2. \A j \in (i + 1)..(i + n) : j - i \in 1..n /\ i + (j - i) = j /\ block[j - i] = s[j] /\ s[j].role = "tool"
      BY <1>1, <1>2, <1>3
    <2>3. \A x : x \in of => x \in {s[j].of : j \in (i + 1)..(i + n)}
      BY <1>4, <2>1
    <2>4. \A j \in (i + 1)..(i + n) : s[j] \in ToSet(block) /\ s[j].role = "tool"
      BY <1>4, <2>2
    <2>5. \A x : x \in {s[j].of : j \in (i + 1)..(i + n)} => x \in of
      BY <2>4
    <2>6. QED
      BY <1>2, <2>3, <2>5
  <1>6. SubSeq(s, i + 1, IF i + n <= Len(s) THEN i + n ELSE Len(s)) = block
    BY <1>2 DEF block
  <1>7. QED
    BY <1>3, <1>5, <1>6, Zenon DEF Follow, n

\* One message more.
Grown(t, s, m) == t = Append(s, m)

LEMMA LastFacts ==
  ASSUME NEW s \in Seq(Messages), NEW m \in Messages, NEW t, Grown(t, s, m)
  PROVE  /\ t \in Seq(Messages) /\ Len(t) = Len(s) + 1 /\ t[Len(s) + 1] = m /\ \A i \in 1..Len(s) : t[i] = s[i]
         /\ \A i \in Heads(s) : i \in Heads(t) /\ t[i] = s[i]
         /\ \A k \in Results(s) : k \in Results(t) /\ t[k] = s[k]
         /\ \A i \in Heads(t) : (i \in Heads(s) /\ t[i] = s[i]) \/ (i = Len(s) + 1 /\ HasCalls(m))
         /\ \A k \in Results(t) : (k \in Results(s) /\ t[k] = s[k]) \/ (k = Len(s) + 1 /\ m.role = "tool")
         /\ HasCalls(m) => Len(s) + 1 \in Heads(t)
         /\ m.role = "tool" => Len(s) + 1 \in Results(t)
  <1>1. Len(s) \in Nat /\ DOMAIN s = 1..Len(s)
    BY IndexFacts
  <1>2. /\ t \in Seq(Messages) /\ Len(t) = Len(s) + 1 /\ t[Len(s) + 1] = m /\ \A i \in 1..Len(s) : t[i] = s[i]
        /\ DOMAIN t = 1..(Len(s) + 1)
    BY <1>1, AppendProperties, IndexFacts DEF Grown
  <1>3. \A i \in 1..(Len(s) + 1) : i \in 1..Len(s) \/ i = Len(s) + 1
    BY <1>1
  <1>4. \A i \in 1..Len(s) : i \in 1..(Len(s) + 1)
    BY <1>1
  <1>5. Len(s) + 1 \in 1..(Len(s) + 1)
    BY <1>1
  <1>6. QED
    BY <1>1, <1>2, <1>3, <1>4, <1>5 DEF Heads, Results

LEMMA StaysNear ==
  ASSUME NEW s \in Seq(Messages), NEW m \in Messages, NEW t, Grown(t, s, m),
         NEW k \in Results(s), NEW i \in Heads(s), Near(s, i, k)
  PROVE  Near(t, i, k)
  <1>1. Len(s) \in Nat /\ \A j \in 1..Len(s) : t[j] = s[j]
    BY LastFacts, IndexFacts
  <1>2. k \in 1..Len(s) /\ i \in 1..Len(s)
    BY IndexFacts
  <1>3. i < k /\ s[k].of \in IdsOf(s[i]) /\ s[i + 1].role = "tool" /\ \A j \in (i + 1)..(k - 1) : ~Talks(s[j])
    BY DEF Near
  <1>4. i + 1 \in 1..Len(s) /\ \A j \in (i + 1)..(k - 1) : j \in 1..Len(s)
    BY <1>1, <1>2, <1>3
  <1>5. t[i] = s[i] /\ t[k] = s[k] /\ t[i + 1] = s[i + 1] /\ \A j \in (i + 1)..(k - 1) : t[j] = s[j]
    BY <1>1, <1>2, <1>4
  <1>6. QED
    BY <1>3, <1>5 DEF Near

LEMMA NoResultSound ==
  ASSUME NEW s \in Seq(Messages), Sound(s), NEW m \in Messages, m.role # "tool",
         HasCalls(m) => IdsOf(m) \cap Called(s) = {}, NEW t, Grown(t, s, m)
  PROVE  Sound(t)
  <1>1. Once(s) /\ \A k \in Results(s) : \E i \in Heads(s) : Near(s, i, k)
    BY DEF Sound
  <1>2. \A i \in Heads(s) : IdsOf(s[i]) \subseteq Called(s)
    <2>1. \A k \in Results(s) : \E i \in Heads(s) : s[k].of \in IdsOf(s[i])
      BY <1>1 DEF Near
    <2>2. QED
      BY <2>1, ResultsBelong
  <1>3. ASSUME NEW i \in Heads(t), NEW j \in Heads(t), i # j
        PROVE  IdsOf(t[i]) \cap IdsOf(t[j]) = {}
    <2>1. CASE i \in Heads(s) /\ j \in Heads(s)
      BY <1>1, <1>3, <2>1, LastFacts DEF Once
    <2>2. CASE i \notin Heads(s)
      <3>1. t[i] = m /\ HasCalls(m) /\ j \in Heads(s) /\ t[j] = s[j]
        BY <1>3, <2>2, LastFacts
      <3>2. QED
        BY <1>2, <3>1
    <2>3. CASE j \notin Heads(s)
      <3>1. t[j] = m /\ HasCalls(m) /\ i \in Heads(s) /\ t[i] = s[i]
        BY <1>3, <2>3, LastFacts
      <3>2. QED
        BY <1>2, <3>1
    <2>4. QED
      BY <2>1, <2>2, <2>3
  <1>4. \A k \in Results(t) : k \in Results(s) /\ t[k] = s[k]
    BY LastFacts
  <1>5. \A i \in Heads(s) : i \in Heads(t)
    BY LastFacts
  <1>6. Once(t)
    BY <1>1, <1>3, <1>4 DEF Once
  <1>7. ASSUME NEW k \in Results(t) PROVE \E i \in Heads(t) : Near(t, i, k)
    BY <1>1, <1>4, <1>5, <1>7, StaysNear
  <1>8. QED
    BY <1>6, <1>7 DEF Sound

\* What a client knows whose tools are at work on the calls in w.
Awaits(s, i, w) ==
  /\ w \subseteq IdsOf(s[i]) /\ \A k \in Results(s) : s[k].of \notin w
  /\ \A j \in (i + 1)..Len(s) : ~Talks(s[j])
  /\ i < Len(s) => s[i + 1].role = "tool"

LEMMA ResultSound ==
  ASSUME NEW s \in Seq(Messages), Sound(s), NEW w, NEW i \in Heads(s), Awaits(s, i, w),
         NEW m \in Messages, m.role = "tool", m.of \in w, NEW t, Grown(t, s, m)
  PROVE  Sound(t) /\ i \in Heads(t) /\ Awaits(t, i, w \ {m.of})
  <1> DEFINE l == Len(s)
  <1>1. /\ Once(s) /\ (\A k \in Results(s) : \E h \in Heads(s) : Near(s, h, k))
        /\ ~HasCalls(m) /\ ~Talks(m)
    BY CallerTalks DEF Sound, Talks
  <1>2. /\ t \in Seq(Messages) /\ Len(t) = l + 1 /\ t[l + 1] = m /\ \A j \in 1..l : t[j] = s[j]
        /\ \A h \in Heads(s) : h \in Heads(t) /\ t[h] = s[h]
        /\ \A h \in Heads(t) : h \in Heads(s) /\ t[h] = s[h]
        /\ \A k \in Results(t) : (k \in Results(s) /\ t[k] = s[k]) \/ (k = l + 1 /\ t[k] = m)
    BY <1>1, LastFacts
  <1>3. l \in Nat /\ i \in 1..l /\ \A k \in Results(s) : k \in 1..l
    BY IndexFacts
  <1>4. /\ w \subseteq IdsOf(s[i]) /\ \A k \in Results(s) : s[k].of \notin w
        /\ \A j \in (i + 1)..l : ~Talks(s[j])
        /\ i < l => s[i + 1].role = "tool"
    BY DEF Awaits
  <1> HIDE DEF l
  <1>5. t[i + 1].role = "tool"
    <2>1. CASE i < l
      BY <1>2, <1>3, <1>4, <2>1
    <2>2. CASE i = l
      BY <1>2, <2>2
    <2>3. QED
      BY <1>3, <2>1, <2>2
  <1>6. \A j \in (i + 1)..(l + 1) : ~Talks(t[j])
    <2> SUFFICES ASSUME NEW j \in (i + 1)..(l + 1) PROVE ~Talks(t[j])
      OBVIOUS
    <2>1. CASE j = l + 1
      BY <1>1, <1>2, <2>1
    <2>2. CASE j # l + 1
      <3>1. j \in 1..l /\ j \in (i + 1)..l
        BY <1>3, <2>2
      <3>2. QED
        BY <1>2, <1>4, <3>1
    <2>3. QED
      BY <2>1, <2>2
  <1>7. Once(t)
    <2>1. \A h, g \in Heads(t) : h # g => IdsOf(t[h]) \cap IdsOf(t[g]) = {}
      BY <1>1, <1>2 DEF Once
    <2>2. ASSUME NEW k \in Results(t), NEW g \in Results(t), k # g PROVE t[k].of # t[g].of
      <3>1. CASE k \in Results(s) /\ g \in Results(s) /\ t[k] = s[k] /\ t[g] = s[g]
        BY <1>1, <2>2, <3>1 DEF Once
      <3>2. CASE k = l + 1 /\ t[k] = m
        BY <1>2, <1>4, <2>2, <3>2
      <3>3. CASE g = l + 1 /\ t[g] = m
        BY <1>2, <1>4, <2>2, <3>3
      <3>4. QED
        BY <1>2, <3>1, <3>2, <3>3
    <2>3. QED
      BY <2>1, <2>2 DEF Once
  <1>8. ASSUME NEW k \in Results(t) PROVE \E h \in Heads(t) : Near(t, h, k)
    <2>1. CASE k \in Results(s)
      BY <1>1, <1>2, <2>1, StaysNear
    <2>2. CASE k = l + 1 /\ t[k] = m
      <3>1. i < l + 1 /\ t[l + 1].of \in IdsOf(t[i]) /\ (l + 1) - 1 = l
        BY <1>2, <1>3, <1>4
      <3>2. \A j \in (i + 1)..l : j \in (i + 1)..(l + 1)
        BY <1>3
      <3>3. Near(t, i, l + 1)
        BY <1>5, <1>6, <3>1, <3>2 DEF Near
      <3>4. QED
        BY <1>2, <2>2, <3>3
    <2>3. QED
      BY <1>2, <2>1, <2>2
  <1>9. Awaits(t, i, w \ {m.of})
    <2>1. w \ {m.of} \subseteq IdsOf(t[i])
      BY <1>2, <1>4
    <2>2. \A k \in Results(t) : t[k].of \notin w \ {m.of}
      BY <1>2, <1>4
    <2>3. QED
      BY <1>2, <1>5, <1>6, <2>1, <2>2 DEF Awaits
  <1>10. QED
    BY <1>2, <1>7, <1>8, <1>9 DEF Sound

\* The calls of a history.
LEMMA CalledGrows ==
  ASSUME NEW s \in Seq(Messages), NEW m \in Messages, NEW t, Grown(t, s, m)
  PROVE  Called(t) = Called(s) \cup (IF m.role = "assistant" THEN IdsOf(m) ELSE {})
  <1>1. /\ t \in Seq(Messages) /\ Len(t) = Len(s) + 1 /\ t[Len(s) + 1] = m /\ \A i \in 1..Len(s) : t[i] = s[i]
        /\ Len(s) \in Nat
    BY LastFacts, IndexFacts
  <1>2. ToSet(s) = {s[i] : i \in 1..Len(s)} /\ ToSet(t) = {t[i] : i \in 1..Len(t)}
    BY <1>1, IndexFacts
  <1>3. \A i \in 1..Len(t) : i = Len(s) + 1 \/ i \in 1..Len(s)
    BY <1>1
  <1>4. Len(s) + 1 \in 1..Len(t) /\ \A i \in 1..Len(s) : i \in 1..Len(t)
    BY <1>1
  <1>5. \A x : x \in ToSet(t) <=> x \in ToSet(s) \/ x = m
    <2>1. \A x : x \in ToSet(t) => x \in ToSet(s) \/ x = m
      BY <1>1, <1>2, <1>3
    <2>2. \A x : x \in ToSet(s) \/ x = m => x \in ToSet(t)
      BY <1>1, <1>2, <1>4
    <2>3. QED
      BY <2>1, <2>2
  <1>6. \A x : x \in Called(s) <=> \E n \in ToSet(s) : n.role = "assistant" /\ x \in IdsOf(n)
    BY DEF Called
  <1>7. \A x : x \in Called(t) <=> \E n \in ToSet(t) : n.role = "assistant" /\ x \in IdsOf(n)
    BY DEF Called
  <1>8. \A x : x \in Called(t) <=> x \in Called(s) \/ (m.role = "assistant" /\ x \in IdsOf(m))
    BY <1>5, <1>6, <1>7
  <1>9. QED
    BY <1>8

FirstIDs(n) == {CallIDs[i] : i \in 1..n}
LEMMA FirstIDsCounted ==
  ASSUME NEW n \in 0..Len(CallIDs)
  PROVE  Cardinality(FirstIDs(n)) = n
  <1> DEFINE T == FirstIDs(n)
             f == [i \in 1..n |-> CallIDs[i]]
  <1>1. CallIDs \in Seq(Texts \ {Absent, Blank}) /\ IsInjective(CallIDs) /\ Len(CallIDs) \in Nat /\ n \in Nat
        /\ DOMAIN CallIDs = 1..Len(CallIDs)
    BY ConversationAssumption, LenProperties
  <1>2. \A i, j \in 1..n : i \in DOMAIN CallIDs /\ j \in DOMAIN CallIDs
    BY <1>1
  <1>3. \A i, j \in 1..n : f[i] = f[j] => i = j
    BY <1>1, <1>2 DEF IsInjective
  <1>4. f \in [1..n -> T] /\ \A t \in T : \E i \in 1..n : f[i] = t
    BY DEF FirstIDs
  <1> HIDE DEF f, T
  <1>5. f \in Injection(1..n, T)
    BY <1>3, <1>4 DEF Injection, IsInjective
  <1>6. f \in Surjection(1..n, T)
    BY <1>4 DEF Surjection
  <1>7. QED
    BY <1>1, <1>5, <1>6, FS_CountingElements DEF Bijection, ExistsBijection, T

LEMMA FirstIDsJoin ==
  ASSUME NEW n \in Nat, NEW l \in Nat
  PROVE  FirstIDs(n + l) = FirstIDs(n) \cup {CallIDs[n + i] : i \in 1..l}
  <1>1. \A k \in 1..(n + l) : k \in 1..n \/ (k - n \in 1..l /\ n + (k - n) = k)
    OBVIOUS
  <1>2. \A i \in 1..l : n + i \in 1..(n + l)
    OBVIOUS
  <1>3. \A k \in 1..n : k \in 1..(n + l)
    OBVIOUS
  <1>4. \A x : x \in FirstIDs(n + l) => x \in FirstIDs(n) \cup {CallIDs[n + i] : i \in 1..l}
    BY <1>1 DEF FirstIDs
  <1>5. \A x : x \in FirstIDs(n) \cup {CallIDs[n + i] : i \in 1..l} => x \in FirstIDs(n + l)
    BY <1>2, <1>3 DEF FirstIDs
  <1>6. QED
    BY <1>4, <1>5

LEMMA KeptCalls ==
  ASSUME TalkTypeOK, NEW m \in Replies, Used + Len(m.calls) <= Len(CallIDs)
  PROVE  /\ Len(m.calls) \in Nat /\ Used \in Nat
         /\ IdsOf(Kept(m)) = {CallIDs[Used + i] : i \in 1..Len(m.calls)}
         /\ IdsOf(Kept(m)) # {} => HasCalls(Kept(m))
  <1> DEFINE l == Len(m.calls)
             q == Kept(m)
             calls == [i \in DOMAIN m.calls |-> [m.calls[i] EXCEPT !.id = CallIDs[Used + i]]]
  <1>1. m \in Messages /\ q \in Messages /\ q.role = "assistant"
    BY KeptTyped, ConversationAssumption
  <1>2. Used \in Nat
    BY CalledFinite DEF TalkTypeOK, Used
  <1>3. l \in Nat /\ DOMAIN m.calls = 1..l /\ \A i \in 1..l : m.calls[i] \in ToolCalls
    BY <1>1, LenProperties, ElementOfSeq DEF Messages
  <1>4. Len(CallIDs) \in Nat /\ \A i \in 1..Len(CallIDs) : CallIDs[i] \in Texts \ {Absent, Blank}
    BY ConversationAssumption, LenProperties, ElementOfSeq
  <1>5. DOMAIN calls = 1..l /\ \A i \in 1..l : calls[i].id = CallIDs[Used + i] /\ CallIDs[Used + i] \notin {Absent, Blank}
    <2>1. ASSUME NEW i \in 1..l PROVE calls[i].id = CallIDs[Used + i] /\ CallIDs[Used + i] \notin {Absent, Blank}
      <3>1. "id" \in DOMAIN m.calls[i] /\ calls[i] = [m.calls[i] EXCEPT !.id = CallIDs[Used + i]]
        BY <1>3 DEF ToolCalls
      <3>2. Used + i \in 1..Len(CallIDs)
        BY <1>2, <1>3, <1>4
      <3>3. QED
        BY <1>4, <3>1, <3>2
    <2>2. DOMAIN calls = 1..l
      BY <1>3
    <2>3. QED
      BY <2>1, <2>2
  <1>6. q.calls = calls
    BY <1>1 DEF Kept, Messages
  <1> HIDE DEF calls, q, l
  <1>7. \A x : x \in IdsOf(q) <=> (x \notin {Absent, Blank} /\ \E i \in DOMAIN calls : calls[i].id = x)
    BY <1>6 DEF IdsOf, ToSet
  <1>8. \A x : x \in IdsOf(q) <=> \E i \in 1..l : x = CallIDs[Used + i]
    BY <1>5, <1>7
  <1>9. IdsOf(q) = {CallIDs[Used + i] : i \in 1..l}
    BY <1>8
  <1>10. IdsOf(q) # {} => HasCalls(q)
    <2> SUFFICES ASSUME q.calls = <<>> PROVE IdsOf(q) = {}
      BY <1>1 DEF HasCalls
    <2>1. ToSet(q.calls) = {}
      BY DEF ToSet
    <2>2. QED
      BY <2>1 DEF IdsOf
  <1>11. QED
    BY <1>2, <1>3, <1>9, <1>10 DEF q, l

\* The calls of a history are the first of all, each result has its call not far before it, and tools
\* are at work for the last message with calls only.
Numbered(h) == \E n \in 0..Len(CallIDs) : Called(h) = FirstIDs(n)
Expects(h, w) == w # {} => \E i \in Heads(h) : Awaits(h, i, w)
HistoryInv == Sound(history) /\ Numbered(history) /\ Expects(history, waiting)

LEMMA OpeningInv ==
  ASSUME NEW h \in Seq(Messages), \A i \in DOMAIN h : Instructs(h[i])
  PROVE  Sound(h) /\ Numbered(h)
  <1>1. Heads(h) = {} /\ Results(h) = {}
    BY DEF Heads, Results, HasCalls, Instructs
  <1>2. Sound(h)
    BY <1>1 DEF Sound, Once
  <1>3. \A m \in ToSet(h) : m.role # "assistant"
    BY DEF ToSet, Instructs
  <1>4. Called(h) = {}
    BY <1>3 DEF Called
  <1>5. FirstIDs(0) = {} /\ 0 \in 0..Len(CallIDs)
    BY ConversationAssumption, LenProperties DEF FirstIDs
  <1>6. QED
    BY <1>2, <1>4, <1>5 DEF Numbered

\* What neither calls nor answers.
LEMMA WordInv ==
  ASSUME history \in Seq(Messages), HistoryInv, NEW m \in Messages, m.role \notin {"assistant", "tool"}, Speaks(m)
  PROVE  /\ Sound(history') /\ Numbered(history')
         /\ ~Talks(m) /\ Last(history).role = "tool" /\ history # <<>> => Expects(history', waiting)
  <1> DEFINE s == history
             t == history'
             w == waiting
  <1>1. Grown(t, s, m) /\ ~HasCalls(m)
    BY DEF Speaks, Grown, HasCalls
  <1>2. Sound(s) /\ Numbered(s) /\ Expects(s, w) /\ s \in Seq(Messages)
    BY DEF HistoryInv
  <1> HIDE DEF s, t, w
  <1>3. Sound(t)
    BY <1>1, <1>2, NoResultSound
  <1>4. Numbered(t)
    <2>1. Called(t) = Called(s)
      BY <1>1, <1>2, CalledGrows
    <2>2. QED
      BY <1>2, <2>1 DEF Numbered
  <1>5. ASSUME ~Talks(m), Last(s).role = "tool", s # <<>>, w # {}
        PROVE  \E i \in Heads(t) : Awaits(t, i, w)
    <2>1. PICK i \in Heads(s) : Awaits(s, i, w)
      BY <1>2, <1>5 DEF Expects
    <2>2. /\ w \subseteq IdsOf(s[i]) /\ \A k \in Results(s) : s[k].of \notin w
          /\ \A j \in (i + 1)..Len(s) : ~Talks(s[j])
          /\ i < Len(s) => s[i + 1].role = "tool"
      BY <2>1 DEF Awaits
    <2>3. /\ Len(t) = Len(s) + 1 /\ t[Len(s) + 1] = m /\ \A j \in 1..Len(s) : t[j] = s[j]
          /\ i \in Heads(t) /\ t[i] = s[i] /\ \A k \in Results(t) : k \in Results(s) /\ t[k] = s[k]
      BY <1>1, <1>2, LastFacts
    <2>4. Len(s) \in Nat /\ i \in 1..Len(s) /\ HasCalls(s[i])
      BY <1>2, IndexFacts
    <2>5. s[i].role = "assistant" /\ Last(s) = s[Len(s)]
      BY <2>4 DEF HasCalls, Last
    <2>6. i < Len(s) /\ i + 1 \in 1..Len(s)
      BY <1>5, <2>4, <2>5
    <2>7. \A j \in (i + 1)..Len(t) : ~Talks(t[j])
      <3> SUFFICES ASSUME NEW j \in (i + 1)..Len(t) PROVE ~Talks(t[j])
        OBVIOUS
      <3>1. CASE j = Len(s) + 1
        BY <1>5, <2>3, <3>1
      <3>2. CASE j # Len(s) + 1
        <4>1. j \in 1..Len(s) /\ j \in (i + 1)..Len(s)
          BY <2>3, <2>4, <3>2
        <4>2. QED
          BY <2>2, <2>3, <4>1
      <3>3. QED
        BY <3>1, <3>2
    <2>8. t[i + 1].role = "tool"
      BY <2>2, <2>3, <2>6
    <2>9. QED
      BY <2>2, <2>3, <2>7, <2>8 DEF Awaits
  <1>6. QED
    BY <1>3, <1>4, <1>5 DEF Expects, s, t, w

LEMMA AnswerInv ==
  ASSUME TalkTypeOK, HistoryInv, NEW m \in Replies, Used + Len(m.calls) <= Len(CallIDs), Speaks(Kept(m)),
         waiting' = IdsOf(Kept(m))
  PROVE  HistoryInv'
  <1> DEFINE s == history
             t == history'
             q == Kept(m)
             l == Len(m.calls)
  <1>1. Grown(t, s, q) /\ s \in Seq(Messages) /\ Sound(s) /\ Numbered(s)
    BY DEF Speaks, Grown, TalkTypeOK, HistoryInv
  <1>2. q \in Messages /\ q.role = "assistant"
    BY KeptTyped
  <1>3. l \in Nat /\ Used \in Nat /\ IdsOf(q) = {CallIDs[Used + i] : i \in 1..l} /\ (IdsOf(q) # {} => HasCalls(q))
    BY KeptCalls
  <1>4. Len(CallIDs) \in Nat /\ DOMAIN CallIDs = 1..Len(CallIDs)
    BY ConversationAssumption, LenProperties
  <1>5. Called(s) = FirstIDs(Used)
    BY <1>1, FirstIDsCounted DEF Numbered, Used
  <1>6. Used + l <= Len(CallIDs)
    OBVIOUS
  <1> DEFINE u == Used
  <1> HIDE DEF s, t, q, l, u
  <1>7. u \in Nat /\ IdsOf(q) = {CallIDs[u + i] : i \in 1..l} /\ Called(s) = FirstIDs(u) /\ u + l <= Len(CallIDs)
    BY <1>3, <1>5, <1>6 DEF u
  <1>8. IdsOf(q) \cap Called(s) = {}
    <2> SUFFICES ASSUME NEW i \in 1..l, NEW j \in 1..u PROVE CallIDs[u + i] # CallIDs[j]
      BY <1>7 DEF FirstIDs
    <2>1. u + i \in 1..Len(CallIDs) /\ j \in 1..Len(CallIDs) /\ u + i # j
      BY <1>3, <1>4, <1>7
    <2>2. QED
      BY <1>4, <2>1, ConversationAssumption DEF IsInjective
  <1>9. Sound(t)
    BY <1>1, <1>2, <1>8, NoResultSound
  <1>10. Called(t) = FirstIDs(u + l)
    <2>1. Called(t) = Called(s) \cup IdsOf(q)
      BY <1>1, <1>2, CalledGrows
    <2>2. FirstIDs(u + l) = FirstIDs(u) \cup {CallIDs[u + i] : i \in 1..l}
      BY <1>3, <1>7, FirstIDsJoin
    <2>3. QED
      BY <1>7, <2>1, <2>2
  <1>11. Numbered(t)
    <2>1. u + l \in 0..Len(CallIDs)
      BY <1>3, <1>4, <1>7
    <2>2. QED
      BY <1>10, <2>1 DEF Numbered
  <1>12. ASSUME IdsOf(q) # {} PROVE \E i \in Heads(t) : Awaits(t, i, IdsOf(q))
    <2>1. HasCalls(q)
      BY <1>3, <1>12
    <2>2. /\ Len(t) = Len(s) + 1 /\ t[Len(s) + 1] = q /\ Len(s) + 1 \in Heads(t)
          /\ \A k \in Results(t) : k \in Results(s) /\ t[k] = s[k]
      BY <1>1, <1>2, <2>1, LastFacts
    <2>3. Len(s) \in Nat
      BY <1>1, IndexFacts
    <2>4. \A k \in Results(s) : s[k].of \in Called(s)
      <3>1. \A k \in Results(s) : \E i \in Heads(s) : s[k].of \in IdsOf(s[i])
        BY <1>1 DEF Sound, Near
      <3>2. \A i \in Heads(s) : IdsOf(s[i]) \subseteq Called(s)
        BY <1>1, <3>1, ResultsBelong
      <3>3. QED
        BY <3>1, <3>2
    <2>5. \A k \in Results(t) : t[k].of \notin IdsOf(q)
      BY <1>8, <2>2, <2>4
    <2> DEFINE i == Len(s) + 1
    <2>6. \A j \in (i + 1)..Len(t) : ~Talks(t[j])
      BY <2>2, <2>3
    <2>7. ~(i < Len(t))
      BY <2>2, <2>3
    <2>8. Awaits(t, i, IdsOf(q))
      BY <2>2, <2>5, <2>6, <2>7 DEF Awaits
    <2>9. QED
      BY <2>2, <2>8
  <1>13. QED
    BY <1>9, <1>11, <1>12 DEF HistoryInv, Expects, q, t

LEMMA HistoryInvNext ==
  ASSUME TalkTypeOK, HistoryInv, [TalkNext]_talkVars
  PROVE  HistoryInv'
  <1>0. history \in Seq(Messages)
    BY DEF TalkTypeOK
  <1>1. ASSUME UNCHANGED <<history, waiting>> PROVE HistoryInv'
    BY <1>1 DEF HistoryInv, Numbered, Expects
  <1>2. CASE Say
    <2>1. PICK m \in Said : Speaks(m)
      BY <1>2 DEF Say
    <2>2. m \in Messages /\ m.role \notin {"assistant", "tool"} /\ waiting' = {}
      BY <1>2, ConversationAssumption DEF Say
    <2>3. Sound(history') /\ Numbered(history')
      BY <1>0, <2>1, <2>2, WordInv
    <2>4. QED
      BY <2>2, <2>3 DEF HistoryInv, Expects
  <1>3. CASE Return
    <2>1. PICK i \in waiting : Speaks([Message("tool", "plain") EXCEPT !.of = i]) /\ waiting' = waiting \ {i}
      BY <1>3 DEF Return
    <2> DEFINE m == [Message("tool", "plain") EXCEPT !.of = i]
    <2>2. m \in Messages /\ m.role = "tool" /\ m.of = i
      <3>1. m \in Messages
        BY ResultTyped DEF TalkTypeOK
      <3>2. QED
        BY <3>1 DEF Message
    <2>3. Grown(history', history, m)
      BY <2>1 DEF Speaks, Grown
    <2> HIDE DEF m
    <2>4. PICK h \in Heads(history) : Awaits(history, h, waiting)
      BY <2>1 DEF HistoryInv, Expects
    <2>5. Sound(history)
      BY DEF HistoryInv
    <2>6. Sound(history') /\ h \in Heads(history') /\ Awaits(history', h, waiting \ {m.of})
      BY <1>0, <2>1, <2>2, <2>3, <2>4, <2>5, ResultSound
    <2>7. Called(history') = Called(history)
      BY <1>0, <2>2, <2>3, CalledGrows
    <2>8. Numbered(history')
      BY <2>7 DEF HistoryInv, Numbered
    <2>9. QED
      BY <2>1, <2>2, <2>6, <2>8 DEF HistoryInv, Expects
  <1>4. CASE Fail
    <2>1. history' = history /\ waiting' \subseteq waiting
      BY <1>4 DEF Fail
    <2>2. \A i : Awaits(history, i, waiting) => Awaits(history, i, waiting')
      BY <2>1 DEF Awaits
    <2>3. Expects(history, waiting')
      BY <2>1, <2>2 DEF HistoryInv, Expects
    <2>4. QED
      BY <2>1, <2>3 DEF HistoryInv, Numbered
  <1>5. CASE Notice
    <2> DEFINE m == Message("developer", "plain")
    <2>1. m \in Messages /\ m.role = "developer"
      BY MessageTyped, BodiesAssumption DEF Roles
    <2>2. Speaks(m) /\ waiting' = waiting /\ Last(history).role = "tool" /\ history # <<>>
      BY <1>5 DEF Notice
    <2> HIDE DEF m
    <2>3. ~Talks(m)
      BY <2>1 DEF Talks
    <2>4. Sound(history') /\ Numbered(history') /\ Expects(history', waiting)
      BY <1>0, <2>1, <2>2, <2>3, WordInv
    <2>5. QED
      BY <2>2, <2>4 DEF HistoryInv
  <1>6. CASE NewTalk
    <2>1. history' = client.opening /\ waiting' = {} /\ client.opening \in Seq(Messages)
          /\ \A i \in DOMAIN client.opening : Instructs(client.opening[i])
      BY <1>6, ConversationAssumption DEF NewTalk, TalkTypeOK
    <2>2. Sound(client.opening) /\ Numbered(client.opening)
      BY <2>1, OpeningInv
    <2>3. QED
      BY <2>1, <2>2 DEF HistoryInv, Numbered, Expects
  <1>7. CASE Succeed
    <2>1. PICK m \in Replies : Used + Len(m.calls) <= Len(CallIDs) /\ Speaks(Kept(m)) /\ waiting' = IdsOf(Kept(m))
      BY <1>7 DEF Succeed
    <2>2. QED
      BY <2>1, AnswerInv
  <1>8. CASE Send \/ Call \/ Refuse \/ Unreachable \/ GiveUp \/ Midnight \/ Recover \/ UNCHANGED talkVars
    BY <1>1, <1>8 DEF Send, Call, Refuse, Unreachable, GiveUp, Midnight, Recover, talkVars
  <1>9. QED
    BY <1>2, <1>3, <1>4, <1>5, <1>6, <1>7, <1>8 DEF TalkNext

-----------------------------------------------------------------------------
\* What is sent

\* The request is made of the history, and so is what an account is called with.
Carries == request.at # "none" => "messages" \in DOMAIN request.body /\ Tells(history, request.body.messages)
Arrives ==
  Sending => Fit(history, request.sent.messages) /\ (client.sanitize => NoMark(request.sent.messages))
SentInv == TalkTypeOK /\ HistoryInv /\ Carries /\ Arrives

LEMMA PromptedTells ==
  ASSUME history \in Seq(Messages), Sound(history)
  PROVE  Tells(history, Prompted(history))
  <1> DEFINE s == history
             p == Prompted(s)
  <1>1. Tells(s, s)
    BY DEF Tells
  <1>2. "gateway" \in Texts /\ "degraded" \in Texts
    BY BodiesAssumption
  <1>3. /\ Tells(s, RewritePrompt(s, "gateway")) /\ Tells(s, RewritePrompt(s, "degraded"))
        /\ Tells(s, AppendPrompt(s, "gateway"))
    BY <1>1, <1>2, RewriteSays, AppendSays
  <1>4. \/ p = RewritePrompt(s, "gateway") \/ p = RewritePrompt(s, "degraded")
        \/ p = AppendPrompt(s, "gateway") \/ p = s
    BY Zenon DEF Prompted
  <1> HIDE DEF p, s
  <1>5. Tells(s, p)
    BY <1>1, <1>3, <1>4
  <1>6. QED
    BY <1>5 DEF p, s

LEMMA PreparedFits ==
  ASSUME NEW s, "messages" \in DOMAIN request.body, Tells(s, request.body.messages), NEW known
  PROVE  Fit(s, Prepared(known).messages) /\ (client.sanitize => NoMark(Prepared(known).messages))
  <1> DEFINE msgs == request.body.messages
             b == PrepareBody(request.body, client.sanitize, known)
             p == Prepared(known)
  <1>1. msgs \in Seq(Messages) /\ Sound(msgs) /\ Heard(msgs, Speakers) = Heard(s, Speakers)
        /\ Answered(msgs) = Answered(s)
    BY DEF Tells
  <1>2. Holds(request.body, msgs)
    BY DEF Holds
  <1> HIDE DEF msgs
  <1>3. "messages" \in DOMAIN b /\ Fit(msgs, b.messages) /\ (client.sanitize => NoMark(b.messages))
    BY <1>1, <1>2, PrepareFits
  <1>4. Fit(s, b.messages)
    BY <1>1, <1>3 DEF Fit
  <1> HIDE DEF b
  <1>5. CASE client.realm = "global"
    <2>1. p = [b EXCEPT !.messages = EnsureConsoleSystem(@)]
      BY <1>5 DEF Prepared, b
    <2>2. p.messages = EnsureConsoleSystem(b.messages)
      BY <1>3, <2>1
    <2>3. QED
      BY <1>3, <1>4, <2>2, ConsoleFits
  <1>6. CASE client.realm # "global"
    <2>1. p = b
      BY <1>6 DEF Prepared, b
    <2>2. QED
      BY <1>3, <1>4, <2>1
  <1>7. QED
    BY <1>5, <1>6

LEMMA SentInvNext ==
  ASSUME SentInv, [TalkNext]_talkVars
  PROVE  SentInv'
  <1>1. TalkTypeOK /\ HistoryInv /\ TalkTypeOK' /\ HistoryInv'
    BY NextTyped, HistoryInvNext DEF SentInv
  <1>2. DOMAIN request = DOMAIN NoRequest /\ {"at", "body", "sent"} \subseteq DOMAIN request /\ history \in Seq(Messages)
    BY <1>1 DEF TalkTypeOK, NoRequest
  <1>3. ASSUME request'.at = "none" PROVE SentInv'
    BY <1>1, <1>3 DEF SentInv, Carries, Arrives, Sending
  <1>4. ASSUME UNCHANGED <<client, history, request>> PROVE SentInv'
    BY <1>1, <1>4 DEF SentInv, Carries, Arrives, Sending
  <1>5. ASSUME request.at # "none", UNCHANGED history, request'.at = "picking", request'.body = request.body
        PROVE  SentInv'
    BY <1>1, <1>5 DEF SentInv, Carries, Arrives, Sending
  <1>6. CASE Say \/ Return \/ Fail \/ Notice \/ NewTalk \/ Midnight \/ Recover
    <2>1. request'.at = "none"
      BY <1>6 DEF Say, Return, Fail, Notice, NewTalk, Midnight, Recover, Idle
    <2>2. QED
      BY <1>3, <2>1
  <1>7. CASE Send
    <2> DEFINE body == [Body EXCEPT !.messages = Prompted(@)]
    <2>1. request'.at = "picking" /\ request'.body = body /\ history' = history
      BY <1>7 DEF Send, NoRequest
    <2>2. "messages" \in DOMAIN body /\ body.messages = Prompted(history)
      BY DEF Body
    <2>3. Tells(history, Prompted(history))
      BY <1>1, <1>2, PromptedTells DEF HistoryInv
    <2>4. QED
      BY <1>1, <2>1, <2>2, <2>3 DEF SentInv, Carries, Arrives, Sending
  <1>8. CASE Call
    <2>1. PICK known :
            \E u, tried, rotation, key :
              request' = [request EXCEPT !.at = "calling", !.uid = u, !.tried = tried, !.rotation = rotation,
                                         !.sent = Prepared(known), !.known = known, !.key = key]
      BY <1>8 DEF Call
    <2>2. /\ request'.at = "calling" /\ request'.body = request.body /\ request'.sent = Prepared(known)
          /\ request.at # "none" /\ history' = history /\ client' = client
      BY <1>2, <1>8, <2>1 DEF Call
    <2>3. "messages" \in DOMAIN request.body /\ Tells(history, request.body.messages)
      BY <2>2 DEF SentInv, Carries
    <2>4. Fit(history, Prepared(known).messages) /\ (client.sanitize => NoMark(Prepared(known).messages))
      BY <2>3, PreparedFits
    <2>5. QED
      BY <1>1, <2>2, <2>3, <2>4 DEF SentInv, Carries, Arrives, Sending
  <1>9. CASE Succeed
    BY <1>3, <1>9 DEF Succeed, NoRequest
  <1>10. CASE Refuse
    <2>1. PICK a \in Refusals : Degrade(a) \/ Finish(a) \/ Rotate(a)
      BY <1>10 DEF Refuse
    <2>2. request.at # "none" /\ history' = history
      BY <1>10 DEF Refuse
    <2>3. CASE Degrade(a)
      <3> DEFINE msgs == RewritePrompt(request.body.messages, "degraded")
      <3>1. "messages" \in DOMAIN request.body /\ Tells(history, request.body.messages)
        BY <2>2 DEF SentInv, Carries
      <3>2. Tells(history, msgs)
        BY <3>1, RewriteSays, BodiesAssumption
      <3>3. request'.at = "picking" /\ request'.body = [request.body EXCEPT !.messages = msgs]
        BY <1>2, <2>3 DEF Degrade
      <3>4. "messages" \in DOMAIN request'.body /\ request'.body.messages = msgs
        BY <3>1, <3>3
      <3>5. QED
        BY <1>1, <2>2, <3>2, <3>3, <3>4 DEF SentInv, Carries, Arrives, Sending
    <2>4. CASE Finish(a)
      BY <1>3, <2>4 DEF Finish, Ended, NoRequest
    <2>5. CASE Rotate(a)
      BY <1>2, <1>5, <2>2, <2>5 DEF Rotate
    <2>6. QED
      BY <2>1, <2>3, <2>4, <2>5
  <1>11. CASE Unreachable
    BY <1>2, <1>5, <1>11 DEF Unreachable
  <1>12. CASE GiveUp
    BY <1>3, <1>12 DEF GiveUp, Ended, NoRequest
  <1>13. CASE UNCHANGED talkVars
    BY <1>4, <1>13 DEF talkVars
  <1>14. QED
    BY <1>6, <1>7, <1>8, <1>9, <1>10, <1>11, <1>12, <1>13 DEF TalkNext

LEMMA SentInvInit ==
  ASSUME TalkInit
  PROVE  SentInv
  <1>1. TalkTypeOK
    BY InitTyped
  <1>2. request.at = "none"
    BY DEF TalkInit, NoRequest
  <1>3. history \in Seq(Messages) /\ waiting = {} /\ \A i \in DOMAIN history : Instructs(history[i])
    BY ConversationAssumption DEF TalkInit
  <1>4. HistoryInv
    BY <1>3, OpeningInv DEF HistoryInv, Expects
  <1>5. QED
    BY <1>1, <1>2, <1>4 DEF SentInv, Carries, Arrives, Sending

LEMMA SentInvMeans ==
  ASSUME SentInv
  PROVE  CallsMeetResults /\ NothingSaidIsLost /\ NoFingerprintLeaves
  <1> DEFINE msgs == request.sent.messages
  <1>1. Sending => Fit(history, msgs) /\ (client.sanitize => NoMark(msgs))
    BY DEF SentInv, Arrives
  <1>2. Answered(history) \subseteq Called(history)
    <2>1. history \in Seq(Messages) /\ \A k \in Results(history) : \E i \in Heads(history) : history[k].of \in IdsOf(history[i])
      BY DEF SentInv, TalkTypeOK, HistoryInv, Sound, Near
    <2>2. QED
      BY <2>1, ResultsBelong
  <1> HIDE DEF msgs
  <1>3. ASSUME Sending
        PROVE  /\ \A i \in Heads(msgs) : Follow(msgs, i)
               /\ \A k \in DOMAIN msgs : msgs[k].role = "tool" =>
                    \E i \in Heads(msgs) : i < k /\ k <= i + Cardinality(IdsOf(msgs[i]))
    <2>1. msgs \in Seq(Messages) /\ Met(msgs)
      BY <1>1, <1>3 DEF Fit
    <2>2. \A i \in Heads(msgs) : Follow(msgs, i)
      BY <2>1, MetFollows
    <2>3. \A k \in Results(msgs) : \E i \in Heads(msgs) : i < k /\ k <= i + Cardinality(IdsOf(msgs[i]))
      BY <2>1, Zenon DEF Met
    <2>4. QED
      BY <2>2, <2>3 DEF Results
  <1>4. CallsMeetResults
    BY <1>3, Zenon DEF CallsMeetResults, Heads, msgs
  <1>5. ASSUME Sending
        PROVE  /\ Heard(msgs, {"user", "assistant"}) = Heard(history, {"user", "assistant"})
               /\ Answered(msgs) = Called(history) \cap Answered(history)
    <2>1. Heard(msgs, Speakers) = Heard(history, Speakers) /\ Answered(msgs) = Answered(history)
      BY <1>1, <1>5 DEF Fit
    <2>2. Answered(msgs) = Called(history) \cap Answered(history)
      BY <1>2, <2>1
    <2>3. QED
      BY <2>1, <2>2 DEF Speakers
  <1>6. NothingSaidIsLost
    BY <1>5, Zenon DEF NothingSaidIsLost, msgs
  <1>7. NoFingerprintLeaves
    BY <1>1 DEF NoFingerprintLeaves, NoMark, msgs
  <1>8. QED
    BY <1>4, <1>6, <1>7

\* tool_pairing.go: whatever tools do, whatever the client puts between a call and its result and
\* whatever prompt is put in front, every call that is sent is followed by its result.
THEOREM CallsHaveResults == TalkSpec => []CallsMeetResults
  <1>1. TalkInit => SentInv
    BY SentInvInit
  <1>2. SentInv /\ [TalkNext]_talkVars => SentInv'
    BY SentInvNext
  <1>3. SentInv => CallsMeetResults
    BY SentInvMeans
  <1>4. QED
    BY <1>1, <1>2, <1>3, PTL DEF TalkSpec

\* payload.go, prompt.go: prompts, pairing, filling in and sanitizing take away nothing that the user
\* or the assistant said, and no result of a tool.
THEOREM WhatIsSaidArrives == TalkSpec => []NothingSaidIsLost
  <1>1. TalkInit => SentInv
    BY SentInvInit
  <1>2. SentInv /\ [TalkNext]_talkVars => SentInv'
    BY SentInvNext
  <1>3. SentInv => NothingSaidIsLost
    BY SentInvMeans
  <1>4. QED
    BY <1>1, <1>2, <1>3, PTL DEF TalkSpec

\* sanitize.go, payload.go: with sanitizing on, no fingerprint is left in what is sent.
THEOREM FingerprintsStayHere == TalkSpec => []NoFingerprintLeaves
  <1>1. TalkInit => SentInv
    BY SentInvInit
  <1>2. SentInv /\ [TalkNext]_talkVars => SentInv'
    BY SentInvNext
  <1>3. SentInv => NoFingerprintLeaves
    BY SentInvMeans
  <1>4. QED
    BY <1>1, <1>2, <1>3, PTL DEF TalkSpec
=============================================================================
