-------------------------- MODULE DownloadProgress --------------------------
(***************************************************************************)
(* DownloaderActivity and its progress view: the download on its own       *)
(* thread, what it posts to the UI thread, and what FreshDownloadView      *)
(* makes of it.  The messages of a thread are handled in the order they    *)
(* were posted, the result of the task after all progress; the end of an   *)
(* animation comes whenever it comes.                                      *)
(*                                                                         *)
(* Downloader has the file, the flag and the tasks of other activities,    *)
(* which do not touch this view.                                           *)
(***************************************************************************)
EXTENDS FreshDownloadView, Sequences

CONSTANT Size   \* the length of the landmarks file, in blocks

ASSUME SizeAssumption == Size \in Nat \ {0}

VARIABLES
  screen,       \* "none", "confirm", "downloading", "failed" or "leaving"
  taskPc,       \* where doInBackground is: "none", "queued", "read", "post",
                \* "close" or "over"
  downloaded,   \* mDownloadedByte, in blocks
  messages      \* posted to the UI thread by the task

taskVars == <<taskPc, downloaded, messages>>
progressVars == <<viewVars, screen, taskVars>>

Init ==
  /\ ViewInit
  /\ screen = "none" /\ taskPc = "none" /\ downloaded = 0 /\ messages = <<>>

(* What the user sees of a number of blocks. *)
Percent(blocks) == (blocks * 100) \div Size

-----------------------------------------------------------------------------
(* The activity. *)

Create ==
  /\ screen = "none" /\ screen' = "confirm"
  /\ NewView /\ UNCHANGED taskVars

(* downloadFaceLandmarksFile, and onPreExecute of the task it makes. *)
StartDownload ==
  /\ screen = "confirm" /\ screen' = "downloading"
  /\ reset
  /\ taskPc' = "queued" /\ downloaded' = 0 /\ UNCHANGED messages

(* The activity is destroyed, or its process dies.  What the task still    *)
(* posts goes to the view that is gone.                                    *)
Destroy ==
  /\ screen # "none" /\ screen' = "none"
  /\ taskPc' = "none" /\ downloaded' = 0 /\ messages' = <<>>
  /\ UNCHANGED viewVars

-----------------------------------------------------------------------------
(* doInBackground. *)

OnlyTask == UNCHANGED <<viewVars, screen>>

Begin ==
  /\ taskPc = "queued" /\ taskPc' = "read"
  /\ OnlyTask /\ UNCHANGED <<downloaded, messages>>

Read ==
  /\ taskPc = "read" /\ downloaded < Size /\ taskPc' = "post"
  /\ downloaded' = downloaded + 1
  /\ OnlyTask /\ UNCHANGED messages

PostProgress ==
  /\ taskPc = "post" /\ taskPc' = "read"
  /\ messages' = Append(messages, "progress")
  /\ OnlyTask /\ UNCHANGED downloaded

(* A mutant: any end of the stream is the end of the file. *)
EndOfStreamAnywhere ==
  /\ taskPc = "read" /\ taskPc' = "close"
  /\ messages' = Append(messages, "end")
  /\ OnlyTask /\ UNCHANGED downloaded

EndOfStream ==
  /\ taskPc = "read" /\ downloaded = Size /\ taskPc' = "close"
  /\ messages' = Append(messages, "end")
  /\ OnlyTask /\ UNCHANGED downloaded

Close ==
  /\ taskPc = "close" /\ taskPc' = "over"
  /\ messages' = Append(messages, "success")
  /\ OnlyTask /\ UNCHANGED downloaded

(* A mutant: the result overtakes the progress. *)
FailFirst ==
  /\ taskPc \in {"queued", "read", "close"} /\ taskPc' = "over"
  /\ messages' = <<"error">> \o messages
  /\ OnlyTask /\ UNCHANGED downloaded

Fail ==
  /\ taskPc \in {"queued", "read", "close"} /\ taskPc' = "over"
  /\ messages' = Append(messages, "error")
  /\ OnlyTask /\ UNCHANGED downloaded

-----------------------------------------------------------------------------
(* The messages, on the UI thread. *)

Receive(message) ==
  /\ messages # <<>> /\ Head(messages) = message
  /\ messages' = Tail(messages)
  /\ UNCHANGED <<taskPc, downloaded>>

(* The message says how much has been downloaded by the time it is         *)
(* handled.                                                                *)
ShowProgress ==
  /\ Receive("progress")
  /\ setProgressInternal(Percent(downloaded))
  /\ UNCHANGED screen

ShowEnd ==
  /\ Receive("end")
  /\ setProgressInternal(100)
  /\ UNCHANGED screen

OnSuccess ==
  /\ Receive("success")
  /\ screen' = "leaving"
  /\ UNCHANGED viewVars

OnError ==
  /\ Receive("error")
  /\ showDownloadError
  /\ screen' = "failed"

-----------------------------------------------------------------------------
Background == Begin \/ Read \/ PostProgress \/ EndOfStream \/ Close \/ Fail

Handle == ShowProgress \/ ShowEnd \/ OnSuccess \/ OnError

Animations == screen # "none" /\ Animate /\ UNCHANGED <<screen, taskVars>>

PrepareDone == screen # "none" /\ PrepareEnds /\ UNCHANGED <<screen, taskVars>>

(* While there is no activity the view stands for that of another user of  *)
(* the library, who calls what he likes when he likes.                     *)
OtherUse == screen = "none" /\ (Called \/ Animate) /\ UNCHANGED <<screen, taskVars>>

Next ==
  \/ Create \/ StartDownload \/ Destroy \/ Background \/ Handle \/ Animations
  \/ OtherUse

Spec == Init /\ [][Next]_progressVars

(* The UI thread handles what is posted to it, and an animation that was   *)
(* started ends.                                                           *)
FairSpec == Spec /\ WF_progressVars(Handle) /\ WF_progressVars(PrepareDone)

-----------------------------------------------------------------------------
(* Properties. *)

(* The view says that the download is done only when every block has been  *)
(* read: percentages are rounded down, and 100 is posted only at the end   *)
(* of the file.                                                            *)
DoneIsRead ==
  screen # "none" /\ status = "DOWNLOADED" => downloaded = Size

(* The cross stays on the screen as long as the alert does: no progress    *)
(* comes after the error.  Only a prepare animation that still ran when    *)
(* the error came takes it away.                                           *)
ErrorStays ==
  [][screen = "failed" /\ screen' = "failed" /\ ~mPrepareAniRun
       => (status = "ERROR" => status' = "ERROR")]_progressVars

(* Once something has been posted, the arrow gives way to the progress or  *)
(* to the result.                                                          *)
ProgressShown ==
  screen = "downloading" /\ messages # <<>> ~> status # "PREPARE" \/ screen # "downloading"
=============================================================================
