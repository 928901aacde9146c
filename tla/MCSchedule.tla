----------------------------- MODULE MCSchedule -----------------------------
\* Three kinds of task on a day of four hours, under the configurations below.
EXTENDS Schedule, TLC

CONSTANTS checkin, travel, activity

MCDefaultHours == (checkin :> {1, 3}) @@ (travel :> {1}) @@ (activity :> {2})

Base == [hours |-> [k \in Kinds |-> {}], on |-> Kinds]

\* The defaults; two kinds only, one at the first hour of the day; nothing on; an hour out of range.
MCConfigs ==
  { Base,
    [Base EXCEPT !.hours = (checkin :> {0}) @@ (travel :> {0, 3}) @@ (activity :> {}),
                 !.on = {checkin, travel}],
    [Base EXCEPT !.on = {}],
    [Base EXCEPT !.hours = (checkin :> {Day}) @@ (travel :> {}) @@ (activity :> {})] }
=============================================================================
