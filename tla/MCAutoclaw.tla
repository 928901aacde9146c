----------------------------- MODULE MCAutoclaw -----------------------------
EXTENDS Autoclaw

CONSTANTS r1, r2, job

Two == {r1, r2}
Mixed == {r1, job}

\* Failing calls, dying tokens and a dying process, each without the others.
MCWorlds ==
  { [actors |-> Two,   kinds |-> {"server", "soft"},   aging |-> {},     faults |-> {}],
    [actors |-> Two,   kinds |-> {"client", "credit"}, aging |-> {},     faults |-> {}],
    [actors |-> Two,   kinds |-> {"auth"},             aging |-> {0},    faults |-> {"revoke"}],
    [actors |-> Two,   kinds |-> {},                   aging |-> {0, 1}, faults |-> {"crash"}],
    [actors |-> Mixed, kinds |-> {"auth"},             aging |-> {0},    faults |-> {"lost"}],
    [actors |-> Mixed, kinds |-> {"soft"},             aging |-> {0},    faults |-> {}],
    [actors |-> Mixed, kinds |-> {},                   aging |-> {0},    faults |-> {"steady", "disk"}] }

=============================================================================
