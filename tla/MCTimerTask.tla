---------------------------- MODULE MCTimerTask -----------------------------
(* TLC values for TimerTask: the main task and the ID003 line task, a timer  *)
(* id both of them arm and nobody cancels, and one that cline cancels.       *)
EXTENDS TimerTask

CONSTANTS main, cline

MCSubTasks  == {cline}
MCSetReq    == {<<main, 1>>, <<cline, 1>>, <<cline, 2>>}
MCSetReq2   == {<<main, 1>>, <<cline, 2>>}
MCCancelReq == {<<cline, 2>>}
=============================================================================
