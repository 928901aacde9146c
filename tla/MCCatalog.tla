----------------------------- MODULE MCCatalog -----------------------------
(* Instances of Catalog for TLC. *)
EXTENDS Catalog, TLC

CONSTANTS mp, mq, ms, me

MCTable == [m \in Models |-> IF m = me THEN "context" ELSE "none"]
MCSeed == (me :> "context")
MCDoc == (mp :> "full") @@ (mq :> "context")

Known == [window |-> TRUE, levels |-> TRUE]
Plain == [window |-> FALSE, levels |-> FALSE]
Fails == [says |-> Nothing, cli |-> {}]
Bare(S) == [says |-> [m \in S |-> Plain], cli |-> S]
Rich(S) == [says |-> [m \in S |-> Known], cli |-> S]
Silent(S) == [says |-> [m \in S |-> [Known EXCEPT !.levels = FALSE]], cli |-> {}]
Edited == [state |-> "good", entries |-> (mp :> "context") @@ (mq :> "invalid")]
Torn == [state |-> "corrupt", entries |-> Nothing]

Calm == [listings |-> 2, restarts |-> 0, disk |-> {TRUE}, edits |-> {}, realms |-> {"cn"},
         answers |-> {Bare({mp, mq})}, ends |-> {}]

\* Listings while the document comes in; probes of both realms that fail, differ or lack
\* levels; more misses than the cap allows; restarts, edits and a disk that fails.
MCWorlds ==
  { [Calm EXCEPT !.ends = {"fetch", "miss"}],
    [Calm EXCEPT !.realms = Realms, !.ends = {"list", "cooling"},
                 !.answers = {Fails, Rich({mp, me}), Silent({mp})}],
    [Calm EXCEPT !.realms = {"global"}, !.answers = {Bare({mp, mq, ms})}],
    [Calm EXCEPT !.answers = {Bare({mp, me})}, !.restarts = 1, !.disk = BOOLEAN, !.edits = {Edited, Torn}] }
=============================================================================
