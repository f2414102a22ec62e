-------------------------- MODULE MCSessionLedger ---------------------------
(* Two surfaces, two sessions, one scanner, one recovery request. *)
EXTENDS SessionLedger

Strong(i) == [id |-> i, resumable |-> TRUE, state |-> "Active"]
Weak == [id |-> 1, resumable |-> FALSE, state |-> "Active"]
Report(surface, at, kind, session) ==
    [surface |-> surface, at |-> at, kind |-> kind, session |-> session]

MCEvidence == {Strong(1)}
MCDiscoveries == {{1}, {1, 2}}
\* Fresh until the clock moves, gone at a time that may be in the future,
\* unreadable
MCReports == {Report(2, 0, "Updated", Strong(2)), Report(1, 3, "Exited", Weak),
              Report(1, Malformed, "Updated", NoSession)}
=============================================================================
