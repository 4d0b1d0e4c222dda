--------------------------- MODULE MCContentSupport ---------------------------
(* Model values for checking ContentSupport with TLC.                        *)
EXTENDS ContentSupport

CONSTANTS a, m1, r1

OneCopy == {a}
OneMaker == {m1}
OneReader == {r1}
===============================================================================
