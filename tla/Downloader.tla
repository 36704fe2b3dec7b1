----------------------------- MODULE Downloader -----------------------------
(***************************************************************************)
(* How the face landmarks file gets onto the device: MainActivity, which   *)
(* looks for it, DownloaderActivity, which fetches it, and the flag that   *)
(* CacheOperator keeps about it.                                           *)
(*                                                                         *)
(* The UI thread runs the activities.  Each download is a FileDownloader   *)
(* task with a thread of its own.  A task whose activity is destroyed is   *)
(* cancelled, but nothing stops its thread: it can still be at work when   *)
(* the next activity starts the next task.  Tasks use the file by its path *)
(* until they have opened it and by a descriptor from then on, so the file *)
(* system is modelled down to the files behind the path (Inodes).          *)
(*                                                                         *)
(* The process may be killed between any two steps.  Files and the flag    *)
(* survive; activities, tasks and unwritten buffers do not.                *)
(***************************************************************************)
EXTENDS Naturals

CONSTANTS
  Tasks,    \* identities of FileDownloader tasks, reused once they are over
  NoTask,   \* the null of fileDownloaderTask
  Inodes,   \* files, reused once unlinked and closed
  NoFile,   \* nothing under the path, or no open descriptor
  Size      \* the length of the landmarks file, in blocks

ASSUME DownloaderAssumption ==
  /\ NoTask \notin Tasks
  /\ NoFile \notin Inodes
  /\ Size \in Nat

VARIABLES
  screen,               \* what the user sees
  storageGranted, cameraGranted,
  faceLandmarksDownloaded,  \* the persistent flag of CacheOperator
  path,                 \* the file under the path of the landmarks file
  blocks,               \* the blocks each file holds
  fileDownloaderTask,   \* the task of the activity on the screen
  taskPc,               \* where each task is
  cancelled,            \* AsyncTask.isCancelled
  descriptor,           \* the file each task has open
  downloaded,           \* mDownloadedByte of each task, in blocks
  flushed,              \* how many of them have left the output buffer
  overlapped            \* history: a task was started beside another one

permissionVars == <<storageGranted, cameraGranted>>
fileVars == <<path, blocks>>
streamVars == <<descriptor, downloaded, flushed>>
taskVars == <<fileDownloaderTask, taskPc, cancelled, streamVars, overlapped>>

vars == <<screen, permissionVars, faceLandmarksDownloaded, fileVars, taskVars>>

Blocks == 0 .. Size - 1
Complete(f) == f # NoFile /\ blocks[f] = Blocks

Screens == {"none", "launching", "main", "cameraRequest", "faceSwap",
            "storageRequest", "storageDenied", "confirm", "offline",
            "downloading", "failed"}

(* "none": not started; "queued": waiting for a thread of the pool; the    *)
(* steps of doInBackground; the results posted to the UI thread, where     *)
(* "discarded" is the null of a task cancelled before it ran.              *)
Running == {"find", "delete", "create", "open", "read", "close"}
Results == {"success", "downloadError", "fileSaveError", "discarded"}
TaskPcs == {"none", "queued"} \cup Running \cup Results

TypeOK ==
  /\ screen \in Screens
  /\ storageGranted \in BOOLEAN /\ cameraGranted \in BOOLEAN
  /\ faceLandmarksDownloaded \in BOOLEAN
  /\ path \in Inodes \cup {NoFile}
  /\ blocks \in [Inodes -> SUBSET Blocks]
  /\ fileDownloaderTask \in Tasks \cup {NoTask}
  /\ taskPc \in [Tasks -> TaskPcs]
  /\ cancelled \in [Tasks -> BOOLEAN]
  /\ descriptor \in [Tasks -> Inodes \cup {NoFile}]
  /\ downloaded \in [Tasks -> 0 .. Size]
  /\ flushed \in [Tasks -> 0 .. Size]
  /\ overlapped \in BOOLEAN

Init ==
  /\ screen = "none"
  /\ storageGranted = FALSE /\ cameraGranted = FALSE
  /\ faceLandmarksDownloaded = FALSE
  /\ path = NoFile
  /\ blocks = [f \in Inodes |-> {}]
  /\ fileDownloaderTask = NoTask
  /\ taskPc = [t \in Tasks |-> "none"]
  /\ cancelled = [t \in Tasks |-> FALSE]
  /\ descriptor = [t \in Tasks |-> NoFile]
  /\ downloaded = [t \in Tasks |-> 0]
  /\ flushed = [t \in Tasks |-> 0]
  /\ overlapped = FALSE

-----------------------------------------------------------------------------
(* MainActivity. *)

(* The user starts the application: its activity is about to be created. *)
Launch ==
  /\ screen = "none"
  /\ screen' = "launching"
  /\ UNCHANGED <<permissionVars, faceLandmarksDownloaded, fileVars, taskVars>>

(* CacheOperator commits the flag before it returns. *)
setFaceLandmarksDownloaded(value) == faceLandmarksDownloaded' = value

checkFaceLandmarkFile == path # NoFile /\ faceLandmarksDownloaded

(* checkPermission of the two activities, from their prepareActivity. *)
MainScreen == IF cameraGranted THEN "main" ELSE "cameraRequest"
DownloaderScreen == IF storageGranted THEN "confirm" ELSE "storageRequest"

(* onCreate goes on to the downloader when the file is not there. *)
CreateMain ==
  /\ screen = "launching"
  /\ screen' = IF checkFaceLandmarkFile THEN MainScreen ELSE DownloaderScreen
  /\ UNCHANGED <<permissionVars, faceLandmarksDownloaded, fileVars, taskVars>>

(* The answer to the camera request; a refusal leaves the activity as it   *)
(* is, and the next click asks again.                                      *)
CameraAnswer ==
  /\ screen = "cameraRequest"
  /\ cameraGranted' \in BOOLEAN
  /\ screen' = "main"
  /\ UNCHANGED <<storageGranted, faceLandmarksDownloaded, fileVars, taskVars>>

ClickFaceSwap ==
  /\ screen = "main"
  /\ screen' = IF cameraGranted THEN "faceSwap" ELSE "cameraRequest"
  /\ UNCHANGED <<permissionVars, faceLandmarksDownloaded, fileVars, taskVars>>

LeaveFaceSwap ==
  /\ screen = "faceSwap"
  /\ screen' = "main"
  /\ UNCHANGED <<permissionVars, faceLandmarksDownloaded, fileVars, taskVars>>

LeaveMain ==
  /\ screen = "main"
  /\ screen' = "none"
  /\ UNCHANGED <<permissionVars, faceLandmarksDownloaded, fileVars, taskVars>>

-----------------------------------------------------------------------------
(* DownloaderActivity. *)

(* onRequestPermissionsResult, and the dialog it shows on a refusal, whose *)
(* OK button calls checkPermission again.                                  *)
StorageAnswer ==
  /\ screen = "storageRequest"
  /\ storageGranted' \in BOOLEAN
  /\ screen' = IF storageGranted' THEN "confirm" ELSE "storageDenied"
  /\ UNCHANGED <<cameraGranted, faceLandmarksDownloaded, fileVars, taskVars>>

AskStorageAgain ==
  /\ screen = "storageDenied"
  /\ screen' = DownloaderScreen
  /\ UNCHANGED <<permissionVars, faceLandmarksDownloaded, fileVars, taskVars>>

(* OK or Refresh, when the device is offline. *)
Offline ==
  /\ screen \in {"confirm", "offline"}
  /\ screen' = "offline"
  /\ UNCHANGED <<permissionVars, faceLandmarksDownloaded, fileVars, taskVars>>

Active(t) == taskPc[t] # "none"

(* OK or Refresh, when the device is online: downloadFaceLandmarksFile     *)
(* creates a task, which is queued for a thread.                           *)
StartDownload ==
  /\ screen \in {"confirm", "offline"}
  /\ screen' = "downloading"
  /\ \E t \in Tasks :
       /\ ~Active(t)
       /\ fileDownloaderTask' = t
       /\ taskPc' = [taskPc EXCEPT ![t] = "queued"]
       /\ cancelled' = [cancelled EXCEPT ![t] = FALSE]
       /\ downloaded' = [downloaded EXCEPT ![t] = 0]
       /\ flushed' = [flushed EXCEPT ![t] = 0]
  /\ overlapped' = (overlapped \/ \E t \in Tasks : Active(t))
  /\ UNCHANGED <<permissionVars, faceLandmarksDownloaded, fileVars, descriptor>>

(* A mutant: the task is forgotten, not cancelled. *)
CancelForgotten ==
  /\ fileDownloaderTask' = NoTask
  /\ UNCHANGED <<cancelled, taskPc>>

(* fileDownloaderTask.cancel(true), which drops a task still in the queue. *)
CancelTask ==
  /\ fileDownloaderTask' = NoTask
  /\ cancelled' = [t \in Tasks |-> cancelled[t] \/ t = fileDownloaderTask]
  /\ taskPc' = [t \in Tasks |->
                  IF t = fileDownloaderTask /\ taskPc[t] = "queued"
                  THEN "discarded" ELSE taskPc[t]]

InDownloader == screen \in {"storageRequest", "storageDenied", "confirm",
                            "offline", "downloading", "failed"}

(* onDestroy: the activity is finished, by the user, a dialog or the       *)
(* system.  One that is destroyed to be created again is not: restoring    *)
(* its progress view ends the process (Kill).                              *)
DestroyDownloader ==
  /\ InDownloader
  /\ screen' = "none"
  /\ CancelTask
  /\ UNCHANGED <<permissionVars, faceLandmarksDownloaded, fileVars, streamVars,
                 overlapped>>

-----------------------------------------------------------------------------
(* FileDownloader.doInBackground, one step per access to the file. *)

At(t, pc) == taskPc[t] = pc
GoTo(t, pc) == taskPc' = [taskPc EXCEPT ![t] = pc]

OnlyFiles == UNCHANGED <<screen, permissionVars, faceLandmarksDownloaded,
                         fileDownloaderTask, cancelled, overlapped>>

Begin(t) ==
  /\ At(t, "queued")
  /\ GoTo(t, "find")
  /\ OnlyFiles /\ UNCHANGED <<fileVars, streamVars>>

Find(t) ==
  /\ At(t, "find")
  /\ GoTo(t, IF path # NoFile THEN "delete" ELSE "create")
  /\ OnlyFiles /\ UNCHANGED <<fileVars, streamVars>>

Delete(t) ==
  /\ At(t, "delete")
  /\ path' = NoFile
  /\ GoTo(t, "create")
  /\ OnlyFiles /\ UNCHANGED <<blocks, streamVars>>

(* Files neither under the path nor open. *)
Unused(f) == f # path /\ \A t \in Tasks : descriptor[t] # f

(* A new empty file under the path, or the one that is there. *)
PathFile(f) == IF path = NoFile THEN Unused(f) ELSE f = path

Create(t) ==
  /\ At(t, "create")
  /\ \E f \in Inodes :
       /\ PathFile(f)
       /\ path' = f
       /\ blocks' = IF path = NoFile THEN [blocks EXCEPT ![f] = {}] ELSE blocks
  /\ GoTo(t, "open")
  /\ OnlyFiles /\ UNCHANGED streamVars

CreateFails(t) ==
  /\ At(t, "create")
  /\ GoTo(t, "fileSaveError")
  /\ OnlyFiles /\ UNCHANGED <<fileVars, streamVars>>

(* new FileOutputStream(mLocalFile), once the server has answered: the     *)
(* file that is under the path by then is emptied, or a new one created.   *)
Open(t) ==
  /\ At(t, "open")
  /\ \E f \in Inodes :
       /\ PathFile(f)
       /\ path' = f
       /\ blocks' = [blocks EXCEPT ![f] = {}]
       /\ descriptor' = [descriptor EXCEPT ![t] = f]
  /\ GoTo(t, "read")
  /\ OnlyFiles /\ UNCHANGED <<downloaded, flushed>>

Between(a, b) == {i \in Blocks : a <= i /\ i < b}

(* The buffer of the output stream is written to the open file. *)
Flush(t, upTo) ==
  /\ blocks' = [blocks EXCEPT ![descriptor[t]] = @ \cup Between(flushed[t], upTo)]
  /\ flushed' = [flushed EXCEPT ![t] = upTo]

(* One block of the stream; the buffer is flushed when it is full. *)
Read(t) ==
  /\ At(t, "read") /\ downloaded[t] < Size
  /\ downloaded' = [downloaded EXCEPT ![t] = @ + 1]
  /\ \/ Flush(t, downloaded[t] + 1)
     \/ UNCHANGED <<blocks, flushed>>
  /\ OnlyFiles /\ UNCHANGED <<path, taskPc, descriptor>>

(* A mutant: any end of the stream is taken for the end of the file. *)
EndOfStreamAnywhere(t) ==
  /\ At(t, "read")
  /\ GoTo(t, "close")
  /\ OnlyFiles /\ UNCHANGED <<fileVars, streamVars>>

(* read returns -1.  The connection (external) does so only when all of    *)
(* the announced length has been read, even for the empty buffer the loop  *)
(* passes by then; before that it throws.                                  *)
EndOfStream(t) ==
  /\ At(t, "read") /\ downloaded[t] = Size
  /\ GoTo(t, "close")
  /\ OnlyFiles /\ UNCHANGED <<fileVars, streamVars>>

Close(t) ==
  /\ At(t, "close")
  /\ Flush(t, downloaded[t])
  /\ descriptor' = [descriptor EXCEPT ![t] = NoFile]
  /\ GoTo(t, "success")
  /\ OnlyFiles /\ UNCHANGED <<path, downloaded>>

(* The connection, the stream, a write or the negative length of an        *)
(* unannounced one throws; the output stream is not closed, and its buffer *)
(* is lost.                                                                *)
DownloadFails(t) ==
  /\ taskPc[t] \in {"open", "read", "close"}
  /\ descriptor' = [descriptor EXCEPT ![t] = NoFile]
  /\ GoTo(t, "downloadError")
  /\ OnlyFiles /\ UNCHANGED <<fileVars, downloaded, flushed>>

-----------------------------------------------------------------------------
(* The result of a task, handled on the UI thread. *)

Killed ==
  /\ screen' = "none"
  /\ fileDownloaderTask' = NoTask
  /\ taskPc' = [t \in Tasks |-> "none"]
  /\ descriptor' = [t \in Tasks |-> NoFile]
  /\ UNCHANGED <<permissionVars, faceLandmarksDownloaded, fileVars,
                 cancelled, downloaded, flushed, overlapped>>

(* onCancelled deletes what is under the path by now.  A task that never   *)
(* ran has no mLocalFile yet: the exception ends the process.              *)
OnCancelled(t) ==
  /\ taskPc[t] \in Results /\ cancelled[t]
  /\ IF At(t, "discarded")
     THEN Killed
     ELSE /\ path' = NoFile
          /\ GoTo(t, "none")
          /\ OnlyFiles /\ UNCHANGED <<blocks, streamVars>>

(* onPostExecute after a success: set the flag and go back to MainActivity. *)
OnSuccess(t) ==
  /\ At(t, "success") /\ ~cancelled[t]
  /\ fileDownloaderTask' = NoTask
  /\ setFaceLandmarksDownloaded(TRUE)
  /\ screen' = "launching"
  /\ GoTo(t, "none")
  /\ UNCHANGED <<permissionVars, fileVars, cancelled, streamVars, overlapped>>

(* A mutant: the user is left with the progress view. *)
OnErrorSilent(t) ==
  /\ taskPc[t] \in {"downloadError", "fileSaveError"} /\ ~cancelled[t]
  /\ fileDownloaderTask' = NoTask
  /\ setFaceLandmarksDownloaded(FALSE)
  /\ GoTo(t, "none")
  /\ UNCHANGED <<screen, permissionVars, fileVars, cancelled, streamVars, overlapped>>

(* ... and after an error: clear the flag and show an alert whose only     *)
(* button finishes the activity.                                           *)
OnError(t) ==
  /\ taskPc[t] \in {"downloadError", "fileSaveError"} /\ ~cancelled[t]
  /\ fileDownloaderTask' = NoTask
  /\ setFaceLandmarksDownloaded(FALSE)
  /\ screen' = "failed"
  /\ GoTo(t, "none")
  /\ UNCHANGED <<permissionVars, fileVars, cancelled, streamVars, overlapped>>

(* The system or the user kills the process, or an exception does: an      *)
(* interrupted permission request delivers an empty grantResults.          *)
Kill == Killed

-----------------------------------------------------------------------------
MainStep == \/ Launch \/ CreateMain \/ CameraAnswer
            \/ ClickFaceSwap \/ LeaveFaceSwap \/ LeaveMain

DownloaderStep == \/ StorageAnswer \/ AskStorageAgain
                  \/ Offline \/ StartDownload \/ DestroyDownloader

Background(t) ==
  \/ Begin(t) \/ Find(t) \/ Delete(t) \/ Create(t) \/ CreateFails(t)
  \/ Open(t) \/ Read(t) \/ EndOfStream(t) \/ Close(t) \/ DownloadFails(t)

Finish(t) == OnCancelled(t) \/ OnSuccess(t) \/ OnError(t)

Next == \/ MainStep \/ DownloaderStep \/ Kill
        \/ \E t \in Tasks : Background(t) \/ Finish(t)

Spec == Init /\ [][Next]_vars

(* Threads run and messages are handled.  The fairness of the steps that   *)
(* wait for the server is an assumption about the network: the code sets   *)
(* no timeout.                                                             *)
FairSpec == Spec /\ \A t \in Tasks : WF_vars(Background(t)) /\ WF_vars(Finish(t))

-----------------------------------------------------------------------------
(* Properties. *)

(* Unless downloads have overlapped, the flag tells the truth: whatever is *)
(* cancelled, fails or is killed at any moment, a flagged file is there    *)
(* and whole, so MainActivity never goes past its check without it.        *)
FlagTruthful == faceLandmarksDownloaded /\ ~overlapped => Complete(path)

(* At most one download can still report to its activity: every other one  *)
(* has been cancelled and cannot touch the flag or the screen any more.    *)
OneReporter ==
  \A t \in Tasks : Active(t) => cancelled[t] \/ t = fileDownloaderTask

(* The progress view is shown exactly as long as a task will end it.       *)
ProgressHasTask ==
  /\ screen = "downloading" <=> fileDownloaderTask # NoTask
  /\ \A t \in Tasks : t = fileDownloaderTask => Active(t) /\ ~cancelled[t]

(* Overlapping or not, the flag is raised only for a download that was not *)
(* cancelled and has received and written every block.                     *)
FlagRaisedByWholeDownload ==
  [][~faceLandmarksDownloaded /\ faceLandmarksDownloaded' =>
       \E t \in Tasks : ~cancelled[t] /\ downloaded[t] = Size /\ flushed[t] = Size]_vars

(* The user does not stay in front of the progress view for ever. *)
ProgressEnds == screen = "downloading" ~> screen # "downloading"
=============================================================================
