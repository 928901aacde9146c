--------------------------- MODULE MCCredentials ---------------------------
(* Instances of Credentials for TLC. *)
EXTENDS Credentials

CONSTANTS ua, ub

Calm == [kind |-> [u \in Users |-> "request"], events |-> {}, realms |-> {"cn"}, doms |-> {"cn"},
         edits |-> 0, restarts |-> 0, gates |-> {TRUE}, until |-> 0]
With(x, y) == [u \in Users |-> IF u = ua THEN x ELSE y]

\* The width of an int64 and what does not fit ten years or the width, scaled: of the odd
\* expiries 43 wraps to a time in the past and 70 to one that is later than Life.
MCWord == 64
MCOddExpiries == {0, 13, 43, 70}

\* Overlapping refreshes with odd answers; reloads and restarts while a refresh is out;
\* old files, domains that change and the escape hatch; files that cannot be read or
\* written.
MCWorlds ==
  { [Calm EXCEPT !.kind = With("request", "keepalive"), !.events = {"odd"}, !.until = 2],
    [Calm EXCEPT !.kind = With("request", "none"), !.events = {"odd", "wrap"}, !.until = 2],
    [Calm EXCEPT !.kind = With("checkin", "none"), !.events = {"refuse"}, !.until = 4],
    [Calm EXCEPT !.kind = With("request", "keepalive"), !.edits = 1, !.until = 1],
    [Calm EXCEPT !.kind = With("request", "none"), !.edits = 1, !.restarts = 1, !.until = 4],
    [Calm EXCEPT !.kind = With("keepalive", "none"), !.realms = {""}, !.doms = Realms, !.edits = 1,
                 !.restarts = 1, !.gates = BOOLEAN],
    [Calm EXCEPT !.kind = With("request", "none"), !.events = {"move"}, !.realms = {"", "global"},
                 !.doms = Realms, !.until = 3],
    [Calm EXCEPT !.kind = With("request", "none"), !.events = {"disk", "unreadable", "early"},
                 !.edits = 1, !.until = 3] }
=============================================================================
