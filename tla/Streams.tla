------------------------------ MODULE Streams ------------------------------
(***************************************************************************)
(* One answer of upstream as it is read (src/internal/upstream/sse.go,     *)
(* truncation.go, idle.go).  Aggregate makes one message of the stream,    *)
(* for a client that did not ask for one, and StreamHint relays it.  Here  *)
(* both read the same frames, so that what the two clients get can be      *)
(* compared.                                                               *)
(*                                                                         *)
(* UPSTREAM (external) sends text and the calls of tools; the style says   *)
(* how the parts of a call name it: by index; by id, without index; or, of *)
(* calls sent one after another, only the first part by id.  It may        *)
(* repeat the name.  In style "whole" a frame may be a message of its own. *)
(* The stream may end, break off, break down, or fall silent.              *)
(*                                                                         *)
(* THE CLIENT OF A STREAM (external) adds up what it is sent: the text,    *)
(* and per index the arguments, and how many names came.                   *)
(*                                                                         *)
(* BOUNDS.  MaxFrames frames, MaxText pieces of text, MaxQuiet ticks of    *)
(* silence.                                                                *)
(***************************************************************************)
EXTENDS Frames

CONSTANTS
  Styles,
  IdleTimeout, \* in ticks
  MaxFrames, MaxText, MaxQuiet

ASSUME StreamsAssumption ==
  /\ Styles \subseteq {"index", "id", "first", "whole"} /\ IdleTimeout \in Nat
  /\ MaxFrames \in Nat /\ MaxText \in Nat /\ MaxQuiet \in Nat

VARIABLES
  style,
  wire,      \* what upstream has done: frames, pieces of text, parts of each call, the end
  agg,       \* Aggregate
  relay,     \* StreamHint
  client,    \* what the client of the stream has added up
  quiet,     \* ticks since the last byte
  response   \* what the client that waits is answered

streamVars == <<style, wire, agg, relay, client, quiet, response>>

StreamInit ==
  /\ style \in Styles
  /\ wire = [frames |-> 0, text |-> 0, got |-> [c \in Calls |-> 0], end |-> "open"]
  /\ agg = FreshAggregate /\ relay = FreshRelay
  /\ client = [text |-> <<>>, calls |-> Empty, names |-> [c \in Calls |-> 0], finish |-> "stop", errors |-> 0]
  /\ quiet = 0 /\ response = NoResponse

-----------------------------------------------------------------------------
(* Upstream sends a frame, and both read it *)

\* What it has of the calls, after the pieces of a frame.
TookPieces(t, ps) ==
  LET after[n \in 0..Len(ps)] ==
        IF n = 0 THEN t ELSE Put(after[n - 1], ps[n].index, Merged(At(after[n - 1], ps[n].index), ps[n]))
  IN  after[Len(ps)]

Took(c, f) ==
  LET named(x) == Cardinality({k \in DOMAIN f.pieces : f.pieces[k].name = x})
  IN  CASE f.kind = "data" ->
             [c EXCEPT !.text = @ \o f.text, !.calls = TookPieces(@, f.pieces),
                       !.names = [x \in Calls |-> @[x] + named(x)],
                       !.finish = IF f.finish # Missing THEN f.finish ELSE @]
        [] f.kind = "error" -> [c EXCEPT !.errors = @ + 1]
        [] OTHER -> c

Send(f) ==
  /\ wire.end = "open" /\ wire.frames < MaxFrames
  /\ agg' = Aggregated(agg, f) /\ relay' = Relays(relay, f) /\ client' = Took(client, Relayed(relay, f))
  /\ quiet' = 0 /\ UNCHANGED <<style, response>>

SendText(id) ==
  /\ wire.text < MaxText
  /\ wire' = [wire EXCEPT !.frames = @ + 1, !.text = @ + 1]
  /\ Send([Frame EXCEPT !.id = id, !.text = <<wire.text + 1>>])

\* The first piece of a call has no arguments; each of the others has one part of them.
Complete(c) == wire.got[c] = Parts + 1
Begun(c) == wire.got[c] > 0
Piece(c, name) ==
  [index |-> IF style \in {"index", "whole"} THEN c - 1 ELSE -1,
   id |-> IF style = "id" \/ ~Begun(c) THEN c ELSE None,
   name |-> IF Begun(c) THEN name ELSE c,
   args |-> IF Begun(c) THEN <<<<c, wire.got[c]>>>> ELSE <<>>]
SendPiece(c, name) ==
  /\ ~Complete(c) /\ \A d \in Calls : d < c => Begun(d)
  /\ style = "first" => \A d \in Calls \ {c} : ~Begun(d) \/ Complete(d)
  /\ wire' = [wire EXCEPT !.frames = @ + 1, !.got[c] = @ + 1]
  /\ Send([Frame EXCEPT !.pieces = <<Piece(c, name)>>])

\* A whole message: the first text, or the first call with all its arguments.
WholeCall(c) == [index |-> c - 1, id |-> c, name |-> c, args |-> [k \in 1..Parts |-> <<c, k>>]]
SendWhole(withCall) ==
  /\ withCall => 1 \in Calls
  /\ style = "whole" /\ wire.text = 0 /\ \A c \in Calls : ~Begun(c)
  /\ wire' = [wire EXCEPT !.frames = @ + 1, !.text = 1,
                          !.got = [c \in Calls |-> IF withCall /\ c = 1 THEN Parts + 1 ELSE 0]]
  /\ Send([Frame EXCEPT !.whole = TRUE, !.text = <<1>>,
                        !.pieces = IF withCall THEN <<WholeCall(1)>> ELSE <<>>])

\* The finish; a frame without anything; comments and what is no JSON; an error.
SendOther(kind, finish) ==
  /\ finish = "stop" => \A c \in Calls : ~Begun(c) \/ Complete(c)
  /\ agg.finish = "stop" /\ wire' = [wire EXCEPT !.frames = @ + 1]
  /\ Send([Frame EXCEPT !.kind = kind, !.finish = finish])

\* [DONE] comes when the calls are complete, or were cut on purpose.
End(how) ==
  /\ wire.end = "open"
  /\ how = "done" => agg.finish = "length" \/ \A c \in Calls : ~Begun(c) \/ Complete(c)
  /\ wire' = [wire EXCEPT !.end = how] /\ response' = Answered(agg, how) /\ relay' = EndRelay(relay, how)
  /\ client' = [client EXCEPT !.errors = IF EmptyRelay(relay, how) THEN @ + 1 ELSE @]
  /\ UNCHANGED <<style, agg, quiet>>

Silence ==
  /\ wire.end = "open" /\ quiet < MaxQuiet /\ quiet' = quiet + 1
  /\ UNCHANGED <<style, wire, agg, relay, client, response>>

\* monitorBody: silence cancels the request's context, and the read fails.
IdleCut ==
  /\ IdleTimeout > 0 /\ quiet > IdleTimeout /\ End("broken")

StreamNext ==
  \/ \E id \in {Missing, "a"} : SendText(id)
  \/ \E c \in Calls : SendPiece(c, None) \/ SendPiece(c, c)
  \/ \E withCall \in BOOLEAN : SendWhole(withCall)
  \/ \E kind \in {"garbage", "comment", "error"} : SendOther(kind, Missing)
  \/ \E finish \in {Missing, "stop", "length"} : SendOther("data", finish)
  \/ \E how \in {"done", "eof", "broken"} : End(how)
  \/ Silence \/ IdleCut

StreamSpec == StreamInit /\ [][StreamNext]_streamVars

-----------------------------------------------------------------------------
(* Properties *)

PartsOf(c, n) == [k \in 1..n |-> <<c, k>>]
Started == {c \in Calls : Begun(c)}
Call(c) == [id |-> c, name |-> c, args |-> PartsOf(c, wire.got[c] - 1)]
Ready == {c \in Started : wire.got[c] \in {1, Parts + 1}}

\* mergeToolCallsChunk: whichever way upstream names the parts of a call, and in whatever order
\* those of several calls come, each call is assembled of its own parts, all of them, in order.
EachCallItsOwn ==
  /\ {agg.calls[i] : i \in DOMAIN agg.calls} = {Call(c) : c \in Started}
  /\ Cardinality(DOMAIN agg.calls) = Cardinality(Started)
  /\ ToSet(agg.order) = DOMAIN agg.calls /\ IsInjective(agg.order)

\* Aggregate, dropTruncatedToolCalls: what is answered has every call whose arguments arrived
\* in full and, if the stream broke off or was cut by its length, no other but those without
\* arguments, in upstream's order; and the text as it came.
NoHalfCalls ==
  response.status = "ok" =>
    /\ ToSet(response.calls) = {Call(c) : c \in Ready}
    /\ \A j, k \in DOMAIN response.calls : j < k => response.calls[j].id < response.calls[k].id
    /\ response.text = [k \in 1..wire.text |-> k]

\* The two clients get the same answer: a stream added up by its client, and the message made of
\* it, have the same text, finish and complete calls, and each call's name comes once.
StreamMatchesAnswer ==
  response.status = "ok" /\ style = "index" =>
    /\ client.text = response.text /\ client.finish = response.finish
    /\ \A c \in Started : client.names[c] = 1 /\ client.calls[c - 1] = Call(c)
    /\ relay.dones = 1

=============================================================================
