------------------------------- MODULE Frames -------------------------------
(***************************************************************************)
(* What is done with one frame of an answer (src/internal/upstream/sse.go, *)
(* truncation.go): Aggregate adds it to the one message it makes, and      *)
(* StreamHint rewrites it and passes it on.                                *)
(*                                                                         *)
(* DATA.  Text is a sequence of numbered pieces, arguments one of pairs    *)
(* <<call, part>>, which are JSON once all parts are there; no two pieces  *)
(* of an answer are equal by accident.                                     *)
(***************************************************************************)
EXTENDS Integers, Sequences, FiniteSets, SequencesExt

CONSTANTS
  Calls,       \* of tools: 1..n, in the order in which upstream begins them
  Parts        \* of the arguments of a call

ASSUME FramesAssumption == IsFiniteSet(Calls) /\ Calls = 1..Cardinality(Calls) /\ Parts \in Nat \ {0}

None == 0
Missing == ""      \* an id or a finish that a frame does not have
Texts == Seq(Nat)
Args == Seq(Calls \X (1..Parts))

\* whole: the frame has a message and not a delta.  A piece of tool_calls: index (-1 without), id, name and arguments, each may be missing.
Pieces == [index : Int, id : Calls \cup {None}, name : Calls \cup {None}, args : Args]
FrameKinds == {"data", "garbage", "comment", "error", "done"}
Frames ==
  [kind : FrameKinds, id : {Missing, "a"}, text : Texts, pieces : Seq(Pieces), finish : {Missing, "stop", "length"},
   whole : BOOLEAN]
Frame == [kind |-> "data", id |-> "a", text |-> <<>>, pieces |-> <<>>, finish |-> Missing, whole |-> FALSE]

ToolCalls == [id : Calls \cup {None}, name : Calls \cup {None}, args : Args]
NoCall == [id |-> None, name |-> None, args |-> <<>>]

\* A table of tool calls is a function on the indexes in use.
Empty == [i \in {} |-> NoCall]
Put(t, i, c) == [j \in DOMAIN t \cup {i} |-> IF j = i THEN c ELSE t[j]]
At(t, i) == IF i \in DOMAIN t THEN t[i] ELSE NoCall

FreshAggregate ==
  [id |-> Missing, text |-> <<>>, calls |-> Empty, order |-> <<>>, seq |-> 0,
   ids |-> [c \in Calls |-> -1], finish |-> "stop", valid |-> 0]
FreshRelay == [seen |-> {}, firstID |-> Missing, valid |-> 0, dones |-> 0]
NoResponse == [status |-> "none", text |-> <<>>, calls |-> <<>>, finish |-> Missing]

-----------------------------------------------------------------------------
(* Aggregate *)

\* nextToolIndex: the first number from seq on that is not in use.
NextToolIndex(a) == CHOOSE i \in a.seq..(a.seq + Cardinality(DOMAIN a.calls)) :
                      i \notin DOMAIN a.calls /\ \A j \in a.seq..(i - 1) : j \in DOMAIN a.calls

\* Mutant: a piece without index belongs to call 0.
ZeroSlot(a, p) == IF p.index >= 0 THEN p.index ELSE 0

\* Where a piece belongs: its index; the index of its id; the call opened last; a new one.
Slot(a, p) ==
  IF p.index >= 0 THEN p.index
  ELSE IF p.id # None /\ a.ids[p.id] >= 0 THEN a.ids[p.id]
  ELSE IF p.id = None /\ a.order # <<>> THEN Last(a.order)
  ELSE NextToolIndex(a)

\* mergeToolCallDelta: id and name replace, arguments are appended.
Merged(c, p) ==
  [id |-> IF p.id # None THEN p.id ELSE c.id, name |-> IF p.name # None THEN p.name ELSE c.name,
   args |-> c.args \o p.args]

\* mergeToolCallsChunk, for one piece.
MergePiece(a, p) ==
  LET i == Slot(a, p)
      new == p.index < 0 /\ i = NextToolIndex(a) /\ i \notin DOMAIN a.calls
      c == Merged(At(a.calls, i), p)
      known == {p.id, At(a.calls, i).id} \ {None}
  IN  [a EXCEPT !.calls = Put(@, i, c),
                !.order = IF i \in DOMAIN a.calls THEN @ ELSE Append(@, i),
                !.seq = IF new THEN i + 1 ELSE @,
                !.ids = [x \in Calls |-> IF x \in known THEN i ELSE @[x]]]

\* The pieces of a frame, one after the other.
MergePieces(a, ps) ==
  LET after[n \in 0..Len(ps)] == IF n = 0 THEN a ELSE MergePiece(after[n - 1], ps[n])
  IN  after[Len(ps)]

\* One frame: a whole message counts only as long as there is no text (gotAnyContent).
Aggregated(a, f) ==
  LET b == [a EXCEPT !.valid = @ + 1, !.id = IF @ = Missing THEN f.id ELSE @,
                     !.finish = IF f.finish # Missing THEN f.finish ELSE @]
      taken == ~f.whole \/ a.text = <<>>
  IN  IF f.kind \notin {"data", "error"} THEN a
      ELSE IF taken THEN MergePieces([b EXCEPT !.text = @ \o f.text], f.pieces)
      ELSE b

Whole(args) == Len(args) \in {0, Parts}     \* isTruncatedArguments: not empty, and no JSON

\* The elements of a finite set of numbers, in their order (sort.Ints).
Ascending(S) == [k \in 1..Cardinality(S) |-> CHOOSE i \in S : Cardinality({j \in S : j < i}) = k - 1]

\* Mutant: only a finish reason says that the answer was cut.
AnsweredAfterLength(a, end) ==
  LET kept == {i \in DOMAIN a.calls : a.finish = "length" => Whole(a.calls[i].args)}
  IN  IF end = "broken" THEN [NoResponse EXCEPT !.status = "error"]
      ELSE IF a.valid = 0 THEN [NoResponse EXCEPT !.status = "empty"]
      ELSE [status |-> "ok", text |-> a.text, finish |-> a.finish,
            calls |-> [k \in 1..Cardinality(kept) |-> a.calls[Ascending(kept)[k]]]]

\* A reading error fails the request; a stream without data too; calls that were cut are dropped.
Answered(a, end) ==
  LET cut == a.finish = "length" \/ end # "done"
      kept == {i \in DOMAIN a.calls : cut => Whole(a.calls[i].args)}
  IN  IF end = "broken" THEN [NoResponse EXCEPT !.status = "error"]
      ELSE IF a.valid = 0 THEN [NoResponse EXCEPT !.status = "empty"]
      ELSE [status |-> "ok", text |-> a.text, finish |-> a.finish,
            calls |-> [k \in 1..Cardinality(kept) |-> a.calls[Ascending(kept)[k]]]]

-----------------------------------------------------------------------------
(* StreamHint *)

\* Mutant: the names of later pieces are relayed.
KeepNames(seen, p) == p

\* stripToolCallNames: the name stays in the first piece of an index only.
StripName(seen, p) ==
  IF (IF p.index >= 0 THEN p.index ELSE 0) \in seen THEN [p EXCEPT !.name = None] ELSE p
SeenAfter(seen, p) == seen \cup {IF p.index >= 0 THEN p.index ELSE 0}
Strip(s, p) == [seen |-> SeenAfter(s.seen, p), out |-> Append(s.out, StripName(s.seen, p))]
Stripped(seen, ps) ==
  LET after[n \in 0..Len(ps)] ==
        IF n = 0 THEN [seen |-> seen, out |-> <<>>] ELSE Strip(after[n - 1], ps[n])
  IN  after[Len(ps)]

\* normalizeFrame keeps a delta's text and calls, and the finish; a missing id is that of the first frame with one.
Relayed(r, f) ==
  [f EXCEPT !.text = IF f.whole THEN <<>> ELSE @,
            !.pieces = IF f.whole THEN <<>> ELSE Stripped(r.seen, @).out,
            !.id = IF f.id # Missing THEN f.id ELSE IF r.firstID # Missing THEN r.firstID ELSE "sentinel"]
Relays(r, f) ==
  CASE f.kind = "data" -> [r EXCEPT !.valid = @ + 1,
                                    !.seen = IF f.whole THEN @ ELSE Stripped(@, f.pieces).seen,
                                    !.firstID = IF @ = Missing THEN f.id ELSE @]
    [] f.kind = "error" -> [r EXCEPT !.valid = @ + 1]
    [] OTHER -> r

\* The end of the stream: an error frame when there was nothing, and one [DONE]; an error of
\* reading ends the relay as it is.
EndRelay(r, end) == [r EXCEPT !.dones = IF end = "broken" THEN @ ELSE @ + 1]
EmptyRelay(r, end) == end # "broken" /\ r.valid = 0
=============================================================================
