-------------------------- MODULE MCCriticalSection --------------------------
(* Three guest threads, two calls each, nested up to twice: enough for two    *)
(* sleepers behind a recursive owner, a late comer that overtakes them, and a *)
(* notification that meets no sleeper.                                        *)
EXTENDS CriticalSection
==============================================================================
