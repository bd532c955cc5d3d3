---------------------------- MODULE MCReadingHook ----------------------------
(* Bounds under which TLC checks the reading hook: see README.md. *)
EXTENDS ReadingHook

CONSTANTS s1, s2

MCSessionId == {s1, s2}
=============================================================================
