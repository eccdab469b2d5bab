----------------------------- MODULE MCMonitoring -----------------------------
(* One or two workers that register with one monitor, the thread of the    *)
(* rounds and main().                                                      *)
EXTENDS Monitoring

CONSTANTS w1, w2, digester, main, ls

FewThreads == {w1, digester, main}
AllThreads == {w1, w2, digester, main}
OneMonitor == <<ls>>
===============================================================================
