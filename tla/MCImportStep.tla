---------------------------- MODULE MCImportStep ----------------------------
(* TLC instances of ImportStep: two pages, of which the first has a row    *)
(* more than the second, and up to two workers.                            *)
EXTENDS ImportStep

CONSTANTS w1, w2

OneWorker  == {w1}
TwoWorkers == {w1, w2}
TwoThenOne == <<2, 1>>
OneAndOne  == <<1, 1>>

Nobody      == {}
Control     == {"pause", "resume", "cancel", "run", "recover", "cancelSession"}
JustPause   == {"pause"}
JustSession == {"cancelSession"}
JustRetry   == {"retry"}
CancelRetry == {"cancel", "retry"}
=============================================================================
