---------------------------- MODULE MCDownloader ----------------------------
(* Model checking of Downloader: a cancelled download that is still at     *)
(* work beside the current one.  Two files are enough for the two and the  *)
(* path: a task that makes a file has none open yet.                       *)
EXTENDS Downloader

CONSTANTS t1, t2, f1, f2

MCTasks == {t1, t2}
MCInodes == {f1, f2}
=============================================================================
