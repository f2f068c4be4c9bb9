----------------------------- MODULE MatchStore ------------------------------
(***************************************************************************)
(* What the persistence of a match promises, with no connections, locks,   *)
(* flushes or crashes: a request begins by looking at the row and ends with *)
(* all of its effect or none of it.  The effect is computed from the row as *)
(* it was at the beginning; it is NOT promised that the row is still so.   *)
(***************************************************************************)
EXTENDS MatchRow

CONSTANTS Req, Bodies, StartRows

VARIABLES match, present, events,
          begun    \* the row each open request looked at, or None

vars == <<match, present, events, begun>>

Init ==
  /\ match \in StartRows
  /\ present = TRUE
  /\ events = <<>>
  /\ begun = [r \in Req |-> None]

Begin(r) ==
  /\ begun[r] = None /\ present
  /\ begun' = [begun EXCEPT ![r] = match]
  /\ UNCHANGED <<match, present, events>>

End(r) == begun[r] # None /\ begun' = [begun EXCEPT ![r] = None]

Drop(r) == End(r) /\ UNCHANGED <<match, present, events>>

\* Request r, asking for b, takes effect: it was not refused on what it saw.
Effect(r, b) ==
  /\ End(r) /\ present
  /\ ~Refuses(b, begun[r]) /\ ~RaisesEarly(b) /\ ~RaisesLate(b)

ChangeRow(r, b) ==
  /\ b.kind \notin {"event", "delete"} /\ Effect(r, b)
  /\ match' = Stored(b, begun[r], match)
  /\ UNCHANGED <<present, events>>

AddEvent(r, b) ==
  /\ b.kind = "event" /\ Effect(r, b)
  /\ match' = Stored(b, begun[r], match)
  /\ \E n \in 1 .. Len(events) + 1 :
       events' = Append(events, [seq |-> n, type |-> b.type, team |-> b.team])
  /\ UNCHANGED present

Remove(r, b) ==
  /\ b.kind = "delete" /\ events = <<>> /\ Effect(r, b)
  /\ present' = FALSE
  /\ UNCHANGED <<match, events>>

Next ==
  \E r \in Req :
    \/ Begin(r) \/ Drop(r)
    \/ \E b \in Bodies : ChangeRow(r, b) \/ AddEvent(r, b) \/ Remove(r, b)

Spec == Init /\ [][Next]_vars
=============================================================================
