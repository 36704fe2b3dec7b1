------------------------- MODULE FreshDownloadView -------------------------
(***************************************************************************)
(* FreshDownloadView, the progress view of the downloader: an arrow before *)
(* a download, a circle during it, a mark or a cross after it.  The drawing *)
(* is left out; what it is drawn from is here.  Its callers may call it in *)
(* any order (DownloadProgress has the one caller of the application).     *)
(*                                                                         *)
(* Everything runs on the UI thread, but animations last for many frames:  *)
(* a call that starts one returns at once, and its end comes later, in     *)
(* whatever state the view is by then.                                     *)
(***************************************************************************)
EXTENDS Naturals

CONSTANT Percents   \* the values upDateProgress is called with

ASSUME PercentsAssumption == Percents \subseteq 0 .. 100 /\ {0, 100} \subseteq Percents

VARIABLES
  status,          \* "PREPARE", "DOWNLOADING", "DOWNLOADED" or "ERROR"
  status_mark,     \* "null", "DRAW_ARC" or "DRAW_MARK"
  mProgress,       \* in percent
  path,            \* the figure in path1 and pathMeasure1: "arrow", "ok", "error"
  mUsing,
  mPrepareAniRun, mMarkOkAniRun, mIfShowError   \* the animations that run

animations == <<mPrepareAniRun, mMarkOkAniRun, mIfShowError>>
viewVars == <<status, status_mark, mProgress, path, mUsing, animations>>

(* A view that was laid out.  Its size is fixed, so onSizeChanged, which   *)
(* would make it a new one again, is called once.                          *)
ViewInit ==
  /\ mUsing = FALSE
  /\ status = "PREPARE" /\ status_mark = "null"
  /\ mProgress = 0 /\ path = "arrow"
  /\ mPrepareAniRun = FALSE /\ mMarkOkAniRun = FALSE /\ mIfShowError = FALSE

-----------------------------------------------------------------------------
(* The activity is created with a new view.  Nothing is restored to it:    *)
(* onRestoreInstanceState does not call its super method, for which the    *)
(* platform ends the process.                                              *)
NewView ==
  /\ mUsing' = FALSE
  /\ status' = "PREPARE" /\ status_mark' = "null"
  /\ mProgress' = 0 /\ path' = "arrow"
  /\ mPrepareAniRun' = FALSE /\ mMarkOkAniRun' = FALSE /\ mIfShowError' = FALSE

reset ==
  /\ IF status = "DOWNLOADING" \/ mPrepareAniRun \/ mIfShowError \/ mMarkOkAniRun
     THEN UNCHANGED <<status, path, mProgress, mUsing>>
     ELSE status' = "PREPARE" /\ path' = "arrow" /\ mProgress' = 0 /\ mUsing' = FALSE
  /\ UNCHANGED <<status_mark, animations>>

startDownload ==
  /\ mUsing' = TRUE /\ mPrepareAniRun' = TRUE
  /\ UNCHANGED <<status, status_mark, mProgress, path, mMarkOkAniRun, mIfShowError>>

(* A mutant: makeOkPath is forgotten. *)
OkShownStatusOnly ==
  /\ status' = "DOWNLOADED" /\ mMarkOkAniRun' = TRUE
  /\ status_mark' = IF mMarkOkAniRun THEN status_mark ELSE "DRAW_ARC"
  /\ UNCHANGED path

(* showDownloadOk: its animation is started unless it is running, and      *)
(* starts with the arc.                                                    *)
OkShown ==
  /\ status' = "DOWNLOADED" /\ path' = "ok" /\ mMarkOkAniRun' = TRUE
  /\ status_mark' = IF mMarkOkAniRun THEN status_mark ELSE "DRAW_ARC"

showDownloadOk ==
  OkShown /\ UNCHANGED <<mProgress, mUsing, mPrepareAniRun, mIfShowError>>

(* upDateProgress.  The first progress starts the prepare animation; all   *)
(* of it shows the mark.                                                   *)
setProgressInternal(progress) ==
  /\ mProgress' = progress
  /\ IF status = "PREPARE" THEN mUsing' = TRUE /\ mPrepareAniRun' = TRUE
                           ELSE UNCHANGED <<mUsing, mPrepareAniRun>>
  /\ IF progress >= 100 THEN OkShown
                        ELSE UNCHANGED <<status, status_mark, path, mMarkOkAniRun>>
  /\ UNCHANGED <<mIfShowError>>

showDownloadError ==
  /\ status' = "ERROR" /\ path' = "error" /\ mIfShowError' = TRUE
  /\ UNCHANGED <<status_mark, mProgress, mUsing, mPrepareAniRun, mMarkOkAniRun>>

-----------------------------------------------------------------------------
(* The animations.  The one that prepares moves the arrow, whatever the    *)
(* view shows by now, and ends in DOWNLOADING.                             *)
PrepareMoves ==
  /\ mPrepareAniRun /\ path' = "arrow"
  /\ UNCHANGED <<status, status_mark, mProgress, mUsing, animations>>

(* A mutant: its end does not change the status. *)
PrepareEndsOnly ==
  /\ mPrepareAniRun /\ mPrepareAniRun' = FALSE
  /\ path' = "arrow"
  /\ UNCHANGED <<status, status_mark, mProgress, mUsing, mMarkOkAniRun, mIfShowError>>

PrepareEnds ==
  /\ mPrepareAniRun /\ mPrepareAniRun' = FALSE
  /\ path' = "arrow" /\ status' = "DOWNLOADING"
  /\ UNCHANGED <<status_mark, mProgress, mUsing, mMarkOkAniRun, mIfShowError>>

ArcEnds ==
  /\ mMarkOkAniRun /\ status_mark = "DRAW_ARC" /\ status_mark' = "DRAW_MARK"
  /\ UNCHANGED <<status, mProgress, path, mUsing, animations>>

MarkEnds ==
  /\ mMarkOkAniRun /\ status_mark = "DRAW_MARK" /\ mMarkOkAniRun' = FALSE
  /\ UNCHANGED <<status, status_mark, mProgress, path, mUsing, mPrepareAniRun,
                 mIfShowError>>

ErrorEnds ==
  /\ mIfShowError /\ mIfShowError' = FALSE
  /\ UNCHANGED <<status, status_mark, mProgress, path, mUsing, mPrepareAniRun,
                 mMarkOkAniRun>>

Animate == PrepareMoves \/ PrepareEnds \/ ArcEnds \/ MarkEnds \/ ErrorEnds

Called ==
  \/ reset \/ startDownload \/ showDownloadOk \/ showDownloadError
  \/ \E progress \in Percents : setProgressInternal(progress)

ViewNext == NewView \/ Called \/ Animate

ViewSpec == ViewInit /\ [][ViewNext]_viewVars

-----------------------------------------------------------------------------
(* Properties. *)

(* The three figures share path1 and pathMeasure1, and any call may come   *)
(* at any moment of any animation.  What is drawn is the figure of the     *)
(* status all the same, except while the prepare animation runs, which     *)
(* puts its arrow under the mark and the cross (updateArrow).              *)
PathFits ==
  ~mPrepareAniRun =>
    /\ status = "PREPARE" => path = "arrow"
    /\ status = "DOWNLOADED" => path = "ok"
    /\ status = "ERROR" => path = "error"
=============================================================================
