------------------------- MODULE MCDemoServerClient -------------------------
(* Instance of DemoServerClient for TLC.                                    *)
EXTENDS DemoServerClient

CONSTANTS t1, t2

\* The second tile was painted, and announced to nobody, before the viewer came.
MCInit == InitWith([t \in Tiles |-> IF t = t2 THEN 1 ELSE 0])

MCSpec == MCInit /\ [][Next]_vars /\ Fairness
=============================================================================
