------------------------- MODULE MCFreezeCoverage -------------------------
(* Small instances of FreezeCoverage for TLC. *)
EXTENDS FreezeCoverage

CONSTANTS server, ui

\* One hourly tick ends within ten minutes, a backfill of the server within 45.
ShortSpan == [a \in Writers |-> IF a = Server THEN 1 ELSE 2]
===========================================================================
