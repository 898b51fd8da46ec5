--------------------------- MODULE FreezeArchive ---------------------------
(***************************************************************************)
(* What a day-by-day history of public events promises its readers         *)
(* (address_risk_store.go): the days it claims to cover were fetched, and  *)
(* a covered day stays covered.  A lookup that finds no event on a covered *)
(* day may say that there was none.                                        *)
(***************************************************************************)
VARIABLES
  fetched,  \* days whose events are in the table
  covered   \* days the watermarks claim

Honest == covered \subseteq fetched

Init == Honest

\* Events are added in any order; a day is claimed with or after its events.
Extend ==
  /\ fetched \subseteq fetched'
  /\ covered \subseteq covered'
  /\ Honest'

Spec == Init /\ [][Extend]_<<fetched, covered>>
===========================================================================
