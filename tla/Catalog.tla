------------------------------ MODULE Catalog ------------------------------
(***************************************************************************)
(* The model list of GET /v1/models: the two directories upstream offers   *)
(* (client.go FetchModels behind handler.go fetchDynamicModels for cn,     *)
(* global_models.go for global), and the context window and output limit   *)
(* of each model on it, which are upstream's, or the compiled table's, or  *)
(* those of model.json, or those of the models.dev document, fetched in    *)
(* the background (model_catalog.go, modelsdev.go).                        *)
(*                                                                         *)
(* A window has two parts, the context length and the output limit; a      *)
(* source knows "context", or both ("full").  What upstream and models.dev *)
(* answer is external: Answers and Doc are what they may say.              *)
(*                                                                         *)
(* TIME.  A mark that lasts (a list for an hour, a cooling for five        *)
(* minutes, a miss for a day) ends in a step of its own, at any moment;    *)
(* misses end in the order they were noted in, by which they are numbered; *)
(* only the five minutes of a fetch outlast its five seconds.              *)
(*                                                                         *)
(* BOUNDS.  A world's number of listings and of restarts.                  *)
(***************************************************************************)
EXTENDS Naturals, FiniteSets

CONSTANTS
  Listers,   \* requests for the list at one time
  Models,
  NonChat,   \* models the cn directory leaves out
  Table,     \* contextCapFallback: what it knows of a model, "none" if nothing
  Seed,      \* the model.json compiled in, a function from some of the models
  Doc,       \* what models.dev lists, likewise
  SoftCap,   \* modelsDevNegativesSoftCap
  Worlds     \* what may happen

Fields == {"context", "output"}
Realms == {"cn", "global"}
Caps == {"context", "full"}
Nothing == [m \in {} |-> {}]
Partial(S, T) == UNION {[D -> T] : D \in SUBSET S}

\* An endpoint's answer: its models, whether each has a window and effort levels, and
\* those of the agent cli; no models when it fails.
Entries == [window : BOOLEAN, levels : BOOLEAN]
Directories == Partial(Models, Entries)
Files == [state : {"absent", "good", "corrupt"}, entries : Partial(Models, Caps \cup {"invalid"})]

ASSUME CatalogAssumption ==
  /\ NonChat \subseteq Models /\ SoftCap \in Nat \ {0}
  /\ Table \in [Models -> Caps \cup {"none"}]
  /\ Seed \in Partial(Models, Caps) /\ Doc \in Partial(Models, Caps)
  /\ \A w \in Worlds :
       /\ w.listings \in Nat /\ w.restarts \in Nat /\ w.disk \subseteq BOOLEAN
       /\ w.realms \subseteq Realms /\ w.edits \subseteq Files
       /\ w.ends \subseteq {"list", "cooling", "fetch", "miss"}
       /\ w.answers \subseteq [says : Directories, cli : SUBSET Models]

VARIABLES
  world,
  dir,        \* the list kept of each realm, empty once it is an hour old
  cooling,    \* whether a realm's directory failed within five minutes
  efforts,    \* the models each realm has effort levels of
  cat,        \* the catalogue in memory, once it is loaded
  file,       \* model.json
  negatives,  \* the models missed, each with the number of its first miss
  noted,      \* how many misses have been noted
  dayAgo,     \* how many of them were noted a day ago or earlier
  doc,        \* whether the document is in
  fetcher,    \* the goroutine that fetches it, the misses it still goes through, and the one it has put
  recent,     \* whether a fetch was begun within five minutes
  lister,
  spent,      \* listings and restarts so far
  listed,     \* history: the windows listed from model.json or models.dev
  unsaved     \* history: whether the last save failed

directories == <<dir, cooling, efforts>>
catalogue == <<cat, file, unsaved>>
misses == <<negatives, noted, dayAgo>>
fetching == <<misses, doc, fetcher, recent>>
vars == <<world, directories, catalogue, fetching, lister, spent, listed>>

Has(table, m, f) == m \in DOMAIN table /\ (f = "output" => table[m] = "full")
Only(table, S) == [m \in DOMAIN table \cap S |-> table[m]]
With(table, m, v) == [n \in DOMAIN table \cup {m} |-> IF n = m THEN v ELSE table[n]]

-----------------------------------------------------------------------------
\* model.json.

\* initLocked, with loadSeedLocked and validCapEntry.
FromFile ==
  IF file.state # "good" THEN Seed
  ELSE Only(file.entries, {m \in DOMAIN file.entries : file.entries[m] \in Caps})
Loaded == IF cat.loaded THEN cat.entries ELSE FromFile

\* Mutant: the file is written before the new entry is in.
WrittenBefore(entries, m) == Only(entries, DOMAIN entries \ {m})

\* What saveLocked writes, by way of a file of its own: a crash leaves the old or the new.
Written(entries, m) == entries

\* put: the save may fail, in silence.
Put(m) ==
  LET entries == With(Loaded, m, Doc[m]) IN
  /\ cat' = [loaded |-> TRUE, entries |-> entries]
  /\ \E works \in world.disk :
       /\ unsaved' = ~works
       /\ file' = IF works THEN [state |-> "good", entries |-> Written(entries, m)] ELSE file

-----------------------------------------------------------------------------
\* The models.dev document.

negativeFresh(m) == m \in DOMAIN negatives /\ negatives[m] > dayAgo

\* The miss lookup notes: only the first of a model counts.
Missed(m) == IF m \in DOMAIN negatives THEN negatives ELSE With(negatives, m, noted + 1)

\* Over the soft cap those a day old go, over twice that the oldest ones.
Young(missed) ==
  IF Cardinality(DOMAIN missed) > SoftCap
    THEN Only(missed, {m \in DOMAIN missed : missed[m] > dayAgo}) ELSE missed
Newest(missed) ==
  IF Cardinality(DOMAIN missed) > 2 * SoftCap
    THEN Only(missed, {m \in DOMAIN missed :
                         Cardinality({n \in DOMAIN missed : missed[n] > missed[m]}) < SoftCap})
    ELSE missed

NoteMiss(m) ==
  /\ negatives' = Newest(Young(Missed(m)))
  /\ noted' = IF m \in DOMAIN negatives THEN noted ELSE noted + 1
  /\ UNCHANGED dayAgo

Resting == [pc |-> "idle", missed |-> {}, put |-> {}]

\* fetchDoc: refused, or the document is kept.
FetchFails ==
  /\ fetcher.pc = "fetching"
  /\ fetcher' = Resting
  /\ UNCHANGED <<world, directories, catalogue, misses, doc, recent, lister, spent, listed>>

DocArrives ==
  /\ fetcher.pc = "fetching"
  /\ doc' = TRUE
  /\ fetcher' = [fetcher EXCEPT !.pc = "arrived"]
  /\ UNCHANGED <<world, directories, catalogue, misses, recent, lister, spent, listed>>

\* backfillMisses: copies the misses, then keeps what the document has of each and
\* forgets the miss.
CopyMisses ==
  /\ fetcher.pc = "arrived"
  /\ fetcher' = [pc |-> "backfill", missed |-> DOMAIN negatives, put |-> {}]
  /\ UNCHANGED <<world, directories, catalogue, misses, doc, recent, lister, spent, listed>>

BackfillPut ==
  /\ fetcher.pc = "backfill" /\ fetcher.put = {}
  /\ \E m \in fetcher.missed \cap DOMAIN Doc :
       /\ Put(m)
       /\ fetcher' = [fetcher EXCEPT !.missed = @ \ {m}, !.put = {m}]
  /\ UNCHANGED <<world, directories, misses, doc, recent, lister, spent, listed>>

BackfillForget ==
  /\ fetcher.pc = "backfill" /\ fetcher.put # {}
  /\ negatives' = Only(negatives, DOMAIN negatives \ fetcher.put)
  /\ fetcher' = [fetcher EXCEPT !.put = {}]
  /\ UNCHANGED <<world, directories, catalogue, noted, dayAgo, doc, recent, lister, spent, listed>>

\* Mutant: gone through up to the first miss the document lacks.
BackfillBreaksOff ==
  /\ fetcher.pc = "backfill" /\ fetcher.put = {}
  /\ fetcher.missed \cap DOMAIN Doc = {} \/ fetcher.missed \ DOMAIN Doc # {}
  /\ fetcher' = Resting
  /\ UNCHANGED <<world, directories, catalogue, misses, doc, recent, lister, spent, listed>>

BackfillEnds ==
  /\ fetcher.pc = "backfill" /\ fetcher.put = {} /\ fetcher.missed \cap DOMAIN Doc = {}
  /\ fetcher' = Resting
  /\ UNCHANGED <<world, directories, catalogue, misses, doc, recent, lister, spent, listed>>

-----------------------------------------------------------------------------
\* The directories.

Merged(primary, secondary) ==
  [m \in DOMAIN primary \cup DOMAIN secondary |->
     IF m \in DOMAIN primary THEN primary[m] ELSE secondary[m]]
WithLevels(d) == {m \in DOMAIN d : d[m].levels}

\* fetchEnterpriseModels and fetchV3Models: what an answer is worth.  parseGlobalModelNames
\* and globalModelsOnce leave out nothing.
Chat(d) == Only(d, Models \ NonChat)
Directory(r, v3, enterprise) ==
  IF r = "cn" THEN Merged(Chat(v3.says), Only(Chat(enterprise.says), enterprise.cli))
              ELSE Merged(v3.says, enterprise.says)

\* The levels stored: cn's are the merged entries', global's the merged buckets'.
Levels(r, v3, enterprise) ==
  IF r = "cn" THEN WithLevels(Directory(r, v3, enterprise))
              ELSE WithLevels(v3.says) \cup WithLevels(enterprise.says)

-----------------------------------------------------------------------------
\* A listing.

\* A lister asks for cn's directory, then for global's names and for its entries; ids are
\* the models it lists, todo the windows it lacks.
Calls == {"list", "names", "infos"}
Realm(call) == IF call = "list" THEN "cn" ELSE "global"
Away == [pc |-> "idle", call |-> "list", ids |-> {}, got |-> Nothing, todo |-> {}, at |-> Nothing]
To(l, pc) == lister' = [lister EXCEPT ![l].pc = pc]

\* The windows neither upstream nor the table knows.
Unknown(ids, d) ==
  {p \in ids \X Fields :
     /\ ~(p[1] \in DOMAIN d /\ d[p[1]].window)
     /\ Table[p[1]] = "none" \/ (p[2] = "output" /\ Table[p[1]] = "context")}

\* Models are gone through in the list's order, and of each first the context.
First(todo) == CHOOSE p \in todo : p[2] = "output" => <<p[1], "context">> \notin todo

\* A directory has been had: cn's windows follow; global's entries are asked for once its
\* names are known.
Take(l, d) ==
  LET ids == IF lister[l].call = "infos" THEN lister[l].ids ELSE DOMAIN d
  IN lister' = [lister EXCEPT ![l] =
       IF lister[l].call = "names" THEN [Away EXCEPT !.pc = "ask", !.call = "infos", !.ids = ids]
       ELSE [Away EXCEPT !.pc = "walk", !.call = lister[l].call, !.todo = Unknown(ids, d)]]

List(l) ==
  /\ lister[l].pc = "idle" /\ spent.listings < world.listings
  /\ lister' = [lister EXCEPT ![l] = [Away EXCEPT !.pc = "ask"]]
  /\ spent' = [spent EXCEPT !.listings = @ + 1]
  /\ UNCHANGED <<world, directories, catalogue, fetching, listed>>

\* fetchDynamicModels, fetchGlobalModelsOnce: the list kept, nothing while a failure is
\* recent or without an account, or a probe.
Ask(l) ==
  LET r == Realm(lister[l].call) IN
  /\ lister[l].pc = "ask"
  /\ \/ dir[r] # Nothing /\ Take(l, dir[r])
     \/ dir[r] = Nothing /\ cooling[r] /\ Take(l, Nothing)
     \/ r \in world.realms /\ dir[r] = Nothing /\ ~cooling[r] /\ To(l, "probe")
     \/ r \notin world.realms /\ (r = "cn" => dir[r] = Nothing) /\ Take(l, Nothing)
  /\ UNCHANGED <<world, directories, catalogue, fetching, spent, listed>>

\* FetchModels, probeGlobalModels: both endpoints at once; levels are stored only when
\* there are some.
Probe(l) ==
  LET r == Realm(lister[l].call) IN
  /\ lister[l].pc = "probe"
  /\ \E v3, enterprise \in world.answers :
       /\ lister' = [lister EXCEPT ![l].pc = "keep", ![l].got = Directory(r, v3, enterprise)]
       /\ LET new == Levels(r, v3, enterprise)
          IN efforts' = IF new = {} THEN efforts ELSE [efforts EXCEPT ![r] = new]
  /\ UNCHANGED <<world, dir, cooling, catalogue, fetching, spent, listed>>

\* Mutant: a failure of cn's drops the list as one of global's does.
NoteFailureDropping(l) ==
  LET r == Realm(lister[l].call) IN
  /\ lister[l].pc = "keep" /\ lister[l].got = Nothing
  /\ cooling' = [cooling EXCEPT ![r] = TRUE]
  /\ dir' = [dir EXCEPT ![r] = Nothing]
  /\ Take(l, Nothing)
  /\ UNCHANGED <<world, efforts, catalogue, fetching, spent, listed>>

\* A failure of cn's is remembered and no more; one of global's also drops the list.
NoteFailure(l) ==
  LET r == Realm(lister[l].call) IN
  /\ lister[l].pc = "keep" /\ lister[l].got = Nothing
  /\ cooling' = [cooling EXCEPT ![r] = TRUE]
  /\ dir' = IF r = "global" THEN [dir EXCEPT ![r] = Nothing] ELSE dir
  /\ Take(l, Nothing)
  /\ UNCHANGED <<world, efforts, catalogue, fetching, spent, listed>>

Keep(l) ==
  LET r == Realm(lister[l].call) IN
  /\ lister[l].pc = "keep" /\ lister[l].got # Nothing
  /\ dir' = [dir EXCEPT ![r] = lister[l].got]
  /\ cooling' = [cooling EXCEPT ![r] = FALSE]
  /\ Take(l, lister[l].got)
  /\ UNCHANGED <<world, efforts, catalogue, fetching, spent, listed>>

\* ContextWindowListingV4 and MaxOutputTokensListingV4 from their third level on; the
\* answer is the default (or no limit) unless a source has one.
Settled(l, p, real) ==
  /\ lister' = [lister EXCEPT ![l].pc = "walk", ![l].at = Nothing, ![l].todo = @ \ {p}]
  /\ listed' = IF real THEN listed \cup {p} ELSE listed

ReadCatalogue(l) ==
  /\ lister[l].pc = "walk" /\ lister[l].todo # {}
  /\ cat' = [loaded |-> TRUE, entries |-> Loaded]
  /\ LET p == First(lister[l].todo) IN
     IF Has(Loaded, p[1], p[2]) THEN Settled(l, p, TRUE)
     ELSE /\ lister' = [lister EXCEPT ![l].pc = "negative", ![l].at = p]
          /\ UNCHANGED listed
  /\ UNCHANGED <<world, directories, file, unsaved, fetching, spent>>

CheckNegative(l) ==
  /\ lister[l].pc = "negative"
  /\ IF negativeFresh(lister[l].at[1]) THEN Settled(l, lister[l].at, FALSE)
     ELSE To(l, "lookup") /\ UNCHANGED listed
  /\ UNCHANGED <<world, directories, catalogue, fetching, spent>>

Lookup(l) ==
  LET m == lister[l].at[1] IN
  /\ lister[l].pc = "lookup"
  /\ IF doc /\ m \in DOMAIN Doc
       THEN To(l, "put") /\ UNCHANGED misses
       ELSE To(l, "ensure") /\ NoteMiss(m)
  /\ UNCHANGED <<world, directories, catalogue, doc, fetcher, recent, spent, listed>>

PutFound(l) ==
  /\ lister[l].pc = "put"
  /\ Put(lister[l].at[1])
  /\ Settled(l, lister[l].at, Has(Doc, lister[l].at[1], lister[l].at[2]))
  /\ UNCHANGED <<world, directories, fetching, spent>>

ensureDocAsync(l) ==
  /\ lister[l].pc = "ensure"
  /\ Settled(l, lister[l].at, FALSE)
  /\ IF doc \/ recent THEN UNCHANGED <<fetcher, recent>>
     ELSE fetcher' = [fetcher EXCEPT !.pc = "fetching"] /\ recent' = TRUE
  /\ UNCHANGED <<world, directories, catalogue, misses, doc, spent>>

\* The cn part is done, or all of it.
Walked(l) ==
  /\ lister[l].pc = "walk" /\ lister[l].todo = {}
  /\ lister' = [lister EXCEPT ![l] =
       IF @.call = "list" THEN [Away EXCEPT !.pc = "ask", !.call = "names"] ELSE Away]
  /\ UNCHANGED <<world, directories, catalogue, fetching, spent, listed>>

-----------------------------------------------------------------------------
\* Time, and a new process, before which the user may have edited model.json.

TimePasses ==
  /\ \/ /\ "list" \in world.ends
        /\ \E r \in Realms : dir' = [dir EXCEPT ![r] = Nothing]
        /\ UNCHANGED <<cooling, recent, dayAgo>>
     \/ /\ "cooling" \in world.ends
        /\ \E r \in Realms : cooling' = [cooling EXCEPT ![r] = FALSE]
        /\ UNCHANGED <<dir, recent, dayAgo>>
     \/ /\ "fetch" \in world.ends
        /\ fetcher.pc # "fetching" /\ recent' = FALSE
        /\ UNCHANGED <<dir, cooling, dayAgo>>
     \/ /\ "miss" \in world.ends
        /\ \E m \in DOMAIN negatives : negatives[m] > dayAgo /\ dayAgo' = negatives[m]
        /\ UNCHANGED <<dir, cooling, recent>>
  /\ UNCHANGED <<world, efforts, catalogue, negatives, noted, doc, fetcher, lister, spent, listed>>

Empty == [r \in Realms |-> Nothing]
Calmed == [r \in Realms |-> FALSE]
NoLevels == [r \in Realms |-> {}]
Unloaded == [loaded |-> FALSE, entries |-> Nothing]
AllAway == [l \in Listers |-> Away]

Restart ==
  /\ spent.restarts < world.restarts
  /\ spent' = [spent EXCEPT !.restarts = @ + 1]
  /\ file' \in {file} \cup world.edits
  /\ dir' = Empty /\ cooling' = Calmed /\ efforts' = NoLevels
  /\ cat' = Unloaded /\ negatives' = Nothing /\ noted' = 0 /\ dayAgo' = 0 /\ doc' = FALSE /\ fetcher' = Resting
  /\ recent' = FALSE /\ lister' = AllAway /\ unsaved' = FALSE
  /\ listed' = IF unsaved \/ file' # file THEN {} ELSE listed
  /\ UNCHANGED world

Init ==
  /\ world \in Worlds
  /\ file \in {[state |-> "absent", entries |-> Nothing]} \cup world.edits
  /\ dir = Empty /\ cooling = Calmed /\ efforts = NoLevels
  /\ cat = Unloaded /\ negatives = Nothing /\ noted = 0 /\ dayAgo = 0 /\ doc = FALSE /\ fetcher = Resting
  /\ recent = FALSE /\ lister = AllAway /\ unsaved = FALSE
  /\ spent = [listings |-> 0, restarts |-> 0]
  /\ listed = {}

Next ==
  \/ \E l \in Listers :
       \/ List(l) \/ Ask(l) \/ Probe(l) \/ NoteFailure(l) \/ Keep(l)
       \/ ReadCatalogue(l) \/ CheckNegative(l) \/ Lookup(l) \/ PutFound(l) \/ ensureDocAsync(l)
       \/ Walked(l)
  \/ FetchFails \/ DocArrives \/ CopyMisses \/ BackfillPut \/ BackfillForget \/ BackfillEnds
  \/ TimePasses \/ Restart

Spec == Init /\ [][Next]_vars

-----------------------------------------------------------------------------
Listings ==
  [pc : {"idle", "ask", "probe", "keep", "walk", "negative", "lookup", "put", "ensure"},
   call : Calls, ids : SUBSET Models, got : Directories, todo : SUBSET (Models \X Fields),
   at : {Nothing} \cup (Models \X Fields)]

TypeOK ==
  /\ world \in Worlds
  /\ dir \in [Realms -> Directories] /\ cooling \in [Realms -> BOOLEAN]
  /\ efforts \in [Realms -> SUBSET Models]
  /\ cat \in [loaded : BOOLEAN, entries : Partial(Models, Caps)] /\ file \in Files
  /\ negatives \in Partial(Models, 1..noted) /\ noted \in Nat /\ dayAgo \in 0..noted
  /\ fetcher \in [pc : {"idle", "fetching", "arrived", "backfill"},
                  missed : SUBSET Models, put : SUBSET Models]
  /\ {doc, recent, unsaved} \subseteq BOOLEAN
  /\ lister \in [Listers -> Listings]
  /\ \A l \in Listers :
       lister[l].pc \in {"negative", "lookup", "put", "ensure"} <=> lister[l].at # Nothing
  /\ spent \in [listings : Nat, restarts : Nat]
  /\ listed \subseteq Models \X Fields

\* Once the document is in and the misses gone through, no model it has is held back as
\* a fresh miss: one missed while it was on its way is in the copy, one looked up later
\* finds it, one the cap dropped is looked up again (backfillMisses against lookup).
KnownIsServed ==
  doc /\ fetcher.pc = "idle" => \A m \in DOMAIN Doc : ~negativeFresh(m)

\* A window once listed from model.json or models.dev is known from then on, whoever
\* lists it next and through restarts and crashes, unless saving failed or the user
\* edited the file (put, saveLocked, initLocked).
ListedStaysKnown ==
  \A p \in listed : Has(Loaded, p[1], p[2])

\* A failed probe and one without levels take nothing away: the list a faster one of cn's
\* has kept stays up for its hour, and levels once learnt are only replaced
\* (fetchDynamicModels, FetchModels, fetchGlobalModelsOnce).
FailureTakesNothingAway ==
  [][ \/ spent'.restarts # spent.restarts
      \/ /\ cooling'["cn"] /\ ~cooling["cn"] => dir'["cn"] = dir["cn"]
         /\ \A r \in Realms : efforts[r] # {} => efforts'[r] # {} ]_vars
=============================================================================
