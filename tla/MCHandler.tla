------------------------------ MODULE MCHandler -------------------------------
(* Small instances of DurableHandler.                                         *)
EXTENDS DurableHandler, TLC
CONSTANTS c1, c2
MCModes == {<<"sqlite", FALSE, FALSE>>, <<"sqlite", TRUE, FALSE>>, <<"postgres", FALSE, TRUE>>}
MCInit == HandlerInit /\ <<backend, rest, quota>> \in MCModes
\* The two requests are interchangeable: c1 is the one that is made first.
InOrder == call'[c2].pc # "idle" => call'[c1].pc # "idle"
MCSpec == MCInit /\ [][HandlerNext]_hvars /\ HandlerFairness
=============================================================================
