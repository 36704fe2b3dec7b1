-------------------------- MODULE DownloaderProofs --------------------------
(***************************************************************************)
(* Proofs about Downloader, for any tasks, any file system and any length  *)
(* of the landmarks file.                                                  *)
(***************************************************************************)
EXTENDS Downloader, TLAPS

(* What a task knows of its own download. *)
Counted ==
  \A t \in Tasks :
    /\ taskPc[t] \in {"queued", "find", "delete", "create", "open"} => flushed[t] = 0
    /\ taskPc[t] = "close" => downloaded[t] = Size
    /\ taskPc[t] = "success" => downloaded[t] = Size /\ flushed[t] = Size

(* The part of the invariant that overlapping downloads do not disturb. *)
TaskInv == TypeOK /\ OneReporter /\ ProgressHasTask /\ Counted

(* What holds as long as downloads do not overlap: there is one task;      *)
Alone == \A t, u \in Tasks : Active(t) /\ Active(u) => t = u

(* the task writes the file under the path, from its start on;             *)
WritesPath ==
  \A t \in Tasks :
    /\ taskPc[t] \in {"read", "close"} =>
         descriptor[t] = path /\ path # NoFile /\ Between(0, flushed[t]) \subseteq blocks[path]
    /\ taskPc[t] = "success" => Complete(path)

(* and a raised flag means that nothing can touch the file any more.       *)
FlagIsFinal ==
  faceLandmarksDownloaded =>
    Complete(path) /\ ~InDownloader /\ \A t \in Tasks : ~Active(t)

FileInv == ~overlapped => Alone /\ WritesPath /\ FlagIsFinal

IInv == TaskInv /\ FileInv

-----------------------------------------------------------------------------
LEMMA InitIInv == Init => IInv
<1> SUFFICES ASSUME Init PROVE IInv
  OBVIOUS
<1> USE DEF Init
<1>1. TypeOK
  <2>1. taskPc \in [Tasks -> TaskPcs]
    BY DEF TaskPcs
  <2>2. downloaded \in [Tasks -> 0 .. Size] /\ flushed \in [Tasks -> 0 .. Size]
    BY DownloaderAssumption
  <2>3. QED
    BY <2>1, <2>2 DEF TypeOK, Screens
<1>2. OneReporter /\ ProgressHasTask /\ Counted
  BY DownloaderAssumption DEF OneReporter, ProgressHasTask, Counted, Active
<1>3. FileInv
  BY DEF FileInv, Alone, WritesPath, FlagIsFinal, Active
<1>4. QED
  BY <1>1, <1>2, <1>3 DEF IInv, TaskInv

(* Every action keeps the part of the invariant about tasks. *)
LEMMA TaskStep ==
  ASSUME TaskInv, [Next]_vars
  PROVE  TaskInv'
<1> USE DownloaderAssumption
    DEF TaskInv, TypeOK, OneReporter, ProgressHasTask, Counted, Active,
        Screens, TaskPcs, Running, Results, permissionVars, fileVars, streamVars, taskVars
<1>1. CASE Launch
  BY <1>1 DEF Launch
<1>2. CASE CreateMain
  BY <1>2 DEF CreateMain, MainScreen, DownloaderScreen
<1>3. CASE CameraAnswer
  BY <1>3 DEF CameraAnswer
<1>4. CASE ClickFaceSwap
  BY <1>4 DEF ClickFaceSwap
<1>5. CASE LeaveFaceSwap
  BY <1>5 DEF LeaveFaceSwap
<1>6. CASE LeaveMain
  BY <1>6 DEF LeaveMain
<1>7. CASE StorageAnswer
  BY <1>7 DEF StorageAnswer
<1>8. CASE AskStorageAgain
  BY <1>8 DEF AskStorageAgain, DownloaderScreen
<1>9. CASE Offline
  BY <1>9 DEF Offline
<1>10. CASE StartDownload
  BY <1>10 DEF StartDownload
<1>11. CASE DestroyDownloader
  BY <1>11 DEF DestroyDownloader, DownloaderScreen, InDownloader, CancelTask
<1>12. CASE Kill
  BY <1>12 DEF Kill, Killed
<1>13. ASSUME NEW t \in Tasks, Begin(t) PROVE TaskInv'
  BY <1>13 DEF Begin, At, GoTo, OnlyFiles
<1>14. ASSUME NEW t \in Tasks, Find(t) PROVE TaskInv'
  BY <1>14 DEF Find, At, GoTo, OnlyFiles
<1>15. ASSUME NEW t \in Tasks, Delete(t) PROVE TaskInv'
  BY <1>15 DEF Delete, At, GoTo, OnlyFiles
<1>16. ASSUME NEW t \in Tasks, Create(t) PROVE TaskInv'
  BY <1>16 DEF Create, At, GoTo, OnlyFiles
<1>17. ASSUME NEW t \in Tasks, CreateFails(t) PROVE TaskInv'
  BY <1>17 DEF CreateFails, At, GoTo, OnlyFiles
<1>18. ASSUME NEW t \in Tasks, Open(t) PROVE TaskInv'
  BY <1>18 DEF Open, At, GoTo, OnlyFiles
<1>19. ASSUME NEW t \in Tasks, Read(t) PROVE TaskInv'
  BY <1>19 DEF Read, At, OnlyFiles, Flush, Between, Blocks
<1>20. ASSUME NEW t \in Tasks, EndOfStream(t) PROVE TaskInv'
  BY <1>20 DEF EndOfStream, At, GoTo, OnlyFiles
<1>21. ASSUME NEW t \in Tasks, Close(t) PROVE TaskInv'
  BY <1>21, ZenonT(30) DEF Close, At, GoTo, OnlyFiles, Flush, Between, Blocks
<1>22. ASSUME NEW t \in Tasks, DownloadFails(t) PROVE TaskInv'
  BY <1>22 DEF DownloadFails, GoTo, OnlyFiles
<1>23. ASSUME NEW t \in Tasks, OnCancelled(t) PROVE TaskInv'
  BY <1>23 DEF OnCancelled, At, GoTo, OnlyFiles, Killed
<1>24. ASSUME NEW t \in Tasks, OnSuccess(t) PROVE TaskInv'
  BY <1>24 DEF OnSuccess, At, GoTo, setFaceLandmarksDownloaded
<1>25. ASSUME NEW t \in Tasks, OnError(t) PROVE TaskInv'
  BY <1>25 DEF OnError, GoTo, setFaceLandmarksDownloaded
<1>26. CASE UNCHANGED vars
  BY <1>26 DEF vars
<1>27. QED
  BY <1>1, <1>2, <1>3, <1>4, <1>5, <1>6, <1>7, <1>8, <1>9, <1>10, <1>11, <1>12, <1>13, <1>14, <1>15, <1>16, <1>17, <1>18, <1>19, <1>20, <1>21, <1>22, <1>23, <1>24, <1>25, <1>26
  DEF Next, MainStep, DownloaderStep, Background, Finish

-----------------------------------------------------------------------------
(* Blocks written up to a, and then from a to b, are those up to b. *)
LEMMA BetweenJoins ==
  ASSUME NEW a \in 0 .. Size, NEW b \in 0 .. Size
  PROVE  /\ Between(0, b) \subseteq Between(0, a) \cup Between(a, b)
         /\ Between(0, 0) = {} /\ Between(0, Size) = Blocks
  BY DownloaderAssumption DEF Between, Blocks

(* A task that finds itself alone in the background keeps the file part:   *)
(* no other one is active, and the flag is down.                           *)
LEMMA OnlyTask ==
  ASSUME FileInv, ~overlapped, NEW t \in Tasks, Active(t)
  PROVE  /\ \A u \in Tasks : u # t => taskPc[u] = "none"
         /\ ~faceLandmarksDownloaded
  BY DEF FileInv, Alone, FlagIsFinal, Active

(* Every action keeps the part of the invariant about the file.            *)
LEMMA FileStep ==
  ASSUME TaskInv, FileInv, [Next]_vars
  PROVE  FileInv'
<1> USE DownloaderAssumption
    DEF FileInv, Alone, WritesPath, FlagIsFinal, Active, Complete, InDownloader,
        permissionVars, fileVars, streamVars, taskVars
<1>1. CASE Launch
  BY <1>1 DEF Launch
<1>2. CASE CreateMain
  BY <1>2 DEF CreateMain, MainScreen, checkFaceLandmarkFile, Complete
<1>3. CASE CameraAnswer
  BY <1>3 DEF CameraAnswer
<1>4. CASE ClickFaceSwap
  BY <1>4 DEF ClickFaceSwap
<1>5. CASE LeaveFaceSwap
  BY <1>5 DEF LeaveFaceSwap
<1>6. CASE LeaveMain
  BY <1>6 DEF LeaveMain
<1>7. CASE StorageAnswer
  BY <1>7 DEF StorageAnswer
<1>8. CASE AskStorageAgain
  BY <1>8 DEF AskStorageAgain, DownloaderScreen
<1>9. CASE Offline
  BY <1>9 DEF Offline
<1>10. CASE StartDownload
  <2> SUFFICES ASSUME ~overlapped' PROVE FileInv'
    BY DEF FileInv
  <2>1. ~overlapped /\ ~faceLandmarksDownloaded /\ ~faceLandmarksDownloaded'
    BY <1>10 DEF StartDownload
  <2>2. \A u \in Tasks : taskPc[u] = "none"
    BY <1>10 DEF StartDownload
  <2>3. PICK t \in Tasks : taskPc' = [taskPc EXCEPT ![t] = "queued"]
    BY <1>10 DEF StartDownload
  <2>4. \A u \in Tasks : taskPc'[u] = IF u = t THEN "queued" ELSE "none"
    BY <2>2, <2>3 DEF TaskInv, TypeOK
  <2>5. QED
    BY <2>1, <2>4
<1>11. CASE DestroyDownloader
  BY <1>11 DEF DestroyDownloader, CancelTask, TaskInv, TypeOK
<1>12. CASE Kill
  BY <1>12 DEF Kill, Killed, TaskInv, TypeOK
<1>13. ASSUME NEW t \in Tasks, Begin(t) PROVE FileInv'
  BY <1>13, OnlyTask DEF Begin, At, GoTo, OnlyFiles, TaskInv, TypeOK
<1>14. ASSUME NEW t \in Tasks, Find(t) PROVE FileInv'
  BY <1>14, OnlyTask DEF Find, At, GoTo, OnlyFiles, TaskInv, TypeOK
<1>15. ASSUME NEW t \in Tasks, Delete(t) PROVE FileInv'
  BY <1>15, OnlyTask DEF Delete, At, GoTo, OnlyFiles, TaskInv, TypeOK
<1>16. ASSUME NEW t \in Tasks, Create(t) PROVE FileInv'
  BY <1>16, OnlyTask DEF Create, At, GoTo, OnlyFiles, TaskInv, TypeOK
<1>17. ASSUME NEW t \in Tasks, CreateFails(t) PROVE FileInv'
  BY <1>17, OnlyTask DEF CreateFails, At, GoTo, OnlyFiles, TaskInv, TypeOK
<1>18. ASSUME NEW t \in Tasks, Open(t) PROVE FileInv'
  <2> SUFFICES ASSUME ~overlapped' PROVE FileInv'
    BY DEF FileInv
  <2>1. ~overlapped /\ At(t, "open") /\ ~faceLandmarksDownloaded'
        /\ \A u \in Tasks : u # t => taskPc[u] = "none"
    BY <1>18, OnlyTask DEF Open, OnlyFiles, At
  <2>2. \A u \in Tasks : taskPc'[u] = IF u = t THEN "read" ELSE "none"
    BY <1>18, <2>1 DEF Open, GoTo, TaskInv, TypeOK
  <2>3. PICK f \in Inodes : path' = f /\ blocks' = [blocks EXCEPT ![f] = {}]
                           /\ descriptor' = [descriptor EXCEPT ![t] = f]
    BY <1>18 DEF Open
  <2>4. flushed'[t] = 0 /\ Between(0, flushed'[t]) = {}
    BY <1>18, <2>1, BetweenJoins DEF Open, At, TaskInv, Counted, TypeOK
  <2>5. descriptor'[t] = path' /\ path' # NoFile /\ Between(0, flushed'[t]) \subseteq blocks'[path']
    BY <2>3, <2>4 DEF TaskInv, TypeOK
  <2>6. QED
    BY <2>1, <2>2, <2>4, <2>5
<1>19. ASSUME NEW t \in Tasks, Read(t) PROVE FileInv'
  <2> SUFFICES ASSUME ~overlapped' PROVE FileInv'
    BY DEF FileInv
  <2>1. ~overlapped /\ At(t, "read") /\ ~faceLandmarksDownloaded'
        /\ \A u \in Tasks : u # t => taskPc'[u] = "none"
    BY <1>19, OnlyTask DEF Read, OnlyFiles, At
  <2>2. taskPc'[t] = "read" /\ descriptor'[t] = path' /\ path' # NoFile /\ path \in Inodes
    BY <1>19, <2>1 DEF Read, At, TaskInv, TypeOK
  <2>3. Between(0, flushed'[t]) \subseteq blocks'[path]
    <3>1. CASE Flush(t, downloaded[t] + 1)
      <4>1. downloaded[t] + 1 \in 0 .. Size /\ flushed[t] \in 0 .. Size
        BY <1>19 DEF Read, TaskInv, TypeOK
      <4>2. flushed'[t] = downloaded[t] + 1
            /\ blocks'[path] = blocks[path] \cup Between(flushed[t], downloaded[t] + 1)
        BY <3>1, <1>19, <2>1, <2>2 DEF Flush, Read, At, TaskInv, TypeOK
      <4>3. Between(0, flushed[t]) \subseteq blocks[path]
        BY <2>1 DEF At
      <4>4. QED
        BY <4>1, <4>2, <4>3, BetweenJoins
    <3>2. CASE UNCHANGED <<blocks, flushed>>
      BY <3>2, <2>1 DEF At
    <3>3. QED
      BY <1>19, <3>1, <3>2 DEF Read
  <2>4. QED
    BY <1>19, <2>1, <2>2, <2>3 DEF Read
<1>20. ASSUME NEW t \in Tasks, EndOfStream(t) PROVE FileInv'
  BY <1>20, OnlyTask DEF EndOfStream, At, GoTo, OnlyFiles, TaskInv, TypeOK
<1>21. ASSUME NEW t \in Tasks, Close(t) PROVE FileInv'
  <2> SUFFICES ASSUME ~overlapped' PROVE FileInv'
    BY DEF FileInv
  <2>1. ~overlapped /\ At(t, "close") /\ ~faceLandmarksDownloaded'
        /\ \A u \in Tasks : u # t => taskPc[u] = "none"
    BY <1>21, OnlyTask DEF Close, OnlyFiles, At
  <2>2. \A u \in Tasks : taskPc'[u] = IF u = t THEN "success" ELSE "none"
    BY <1>21, <2>1 DEF Close, GoTo, TaskInv, TypeOK
  <2>3. descriptor[t] = path /\ path # NoFile /\ path \in Inodes
        /\ Between(0, flushed[t]) \subseteq blocks[path]
    BY <2>1 DEF At, TaskInv, TypeOK
  <2>4. downloaded[t] = Size /\ flushed[t] \in 0 .. Size /\ Size \in 0 .. Size
    BY <2>1 DEF At, TaskInv, TypeOK, Counted
  <2>5. blocks'[path] = blocks[path] \cup Between(flushed[t], Size)
    BY <1>21, <2>3, <2>4 DEF Close, Flush, TaskInv, TypeOK
  <2>6. blocks[path] \subseteq Blocks /\ Between(flushed[t], Size) \subseteq Blocks
    BY <2>3 DEF TaskInv, TypeOK, Between
  <2>7. blocks'[path] = Blocks
    BY <2>3, <2>4, <2>5, <2>6, BetweenJoins
  <2>8. QED
    BY <1>21, <2>1, <2>2, <2>3, <2>7 DEF Close
<1>22. ASSUME NEW t \in Tasks, DownloadFails(t) PROVE FileInv'
  BY <1>22, OnlyTask DEF DownloadFails, GoTo, OnlyFiles, TaskInv, TypeOK
<1>23. ASSUME NEW t \in Tasks, OnCancelled(t) PROVE FileInv'
  BY <1>23, OnlyTask DEF OnCancelled, At, GoTo, OnlyFiles, Killed, Results, TaskInv, TypeOK
<1>24. ASSUME NEW t \in Tasks, OnSuccess(t) PROVE FileInv'
  BY <1>24, OnlyTask DEF OnSuccess, At, GoTo, setFaceLandmarksDownloaded, TaskInv, TypeOK
<1>25. ASSUME NEW t \in Tasks, OnError(t) PROVE FileInv'
  BY <1>25, OnlyTask DEF OnError, GoTo, setFaceLandmarksDownloaded, TaskInv, TypeOK
<1>26. CASE UNCHANGED vars
  BY <1>26 DEF vars
<1>27. QED
  BY <1>1, <1>2, <1>3, <1>4, <1>5, <1>6, <1>7, <1>8, <1>9, <1>10, <1>11, <1>12, <1>13, <1>14, <1>15, <1>16, <1>17, <1>18, <1>19, <1>20, <1>21, <1>22, <1>23, <1>24, <1>25, <1>26
  DEF Next, MainStep, DownloaderStep, Background, Finish

LEMMA Invariance == Spec => []IInv
<1>1. IInv /\ [Next]_vars => IInv'
  BY TaskStep, FileStep DEF IInv
<1>2. QED
  BY InitIInv, <1>1, PTL DEF Spec

-----------------------------------------------------------------------------
(* The variables keep their types: no descriptor of a file that is not     *)
(* open is written to, and no more is received than was announced.         *)
THEOREM TypeCorrect == Spec => []TypeOK
<1>1. IInv => TypeOK
  BY DEF IInv, TaskInv
<1>2. QED
  BY <1>1, Invariance, PTL

(* A flagged file is whole, whatever is cancelled, fails or is killed, as  *)
(* long as downloads do not overlap (CacheOperator, checkFaceLandmarkFile).*)
THEOREM FlagIsTruthful == Spec => []FlagTruthful
<1>1. IInv => FlagTruthful
  BY DEF IInv, FileInv, FlagIsFinal, FlagTruthful
<1>2. QED
  BY <1>1, Invariance, PTL

(* Only the task of the activity on the screen can report to it, however   *)
(* many older ones are still at work (DownloaderActivity.onDestroy).       *)
THEOREM OnlyOneReports == Spec => []OneReporter
<1>1. IInv => OneReporter
  BY DEF IInv, TaskInv
<1>2. QED
  BY <1>1, Invariance, PTL

(* The progress view is on the screen exactly when a task will end it      *)
(* (fileDownloaderTask, onPostExecute).                                    *)
THEOREM ProgressIsOwned == Spec => []ProgressHasTask
<1>1. IInv => ProgressHasTask
  BY DEF IInv, TaskInv
<1>2. QED
  BY <1>1, Invariance, PTL

(* The flag is raised only for a download that was not cancelled and that  *)
(* received and wrote every block, overlapping or not (onPostExecute).     *)
THEOREM FlagNeedsWholeDownload == Spec => FlagRaisedByWholeDownload
<1> DEFINE Raised == ~faceLandmarksDownloaded /\ faceLandmarksDownloaded'
           Whole == \E t \in Tasks : ~cancelled[t] /\ downloaded[t] = Size /\ flushed[t] = Size
<1>1. IInv /\ [Next]_vars => [Raised => Whole]_vars
  <2> SUFFICES ASSUME IInv, Next, Raised PROVE Whole
    OBVIOUS
  <2>1. PICK t \in Tasks : OnSuccess(t)
    BY DEF Next, MainStep, DownloaderStep, Background, Finish,
       Launch, CreateMain, CameraAnswer, ClickFaceSwap, LeaveFaceSwap, LeaveMain,
       StorageAnswer, AskStorageAgain, Offline, StartDownload, DestroyDownloader,
       Kill, Killed, Begin, Find, Delete, Create, CreateFails, Open, Read,
       EndOfStream, Close, DownloadFails, OnlyFiles, OnCancelled, OnError,
       setFaceLandmarksDownloaded
  <2>2. QED
    BY <2>1 DEF IInv, TaskInv, Counted, OnSuccess, At
<1>2. QED
  BY <1>1, Invariance, PTL DEF Spec, FlagRaisedByWholeDownload
=============================================================================
