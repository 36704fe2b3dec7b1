----------------------- MODULE DownloadProgressProofs -----------------------
(***************************************************************************)
(* Proofs about FreshDownloadView and DownloadProgress, for a file of any  *)
(* length and any order of calls: the figure that is drawn, when the view  *)
(* says that it is done, and what becomes of its cross.                    *)
(***************************************************************************)
EXTENDS DownloadProgress, TLAPS

-----------------------------------------------------------------------------
(* The view by itself. *)

(* The steps of the view, whatever upDateProgress is called with. *)
ViewStep ==
  \/ NewView \/ Animate
  \/ reset \/ startDownload \/ showDownloadOk \/ showDownloadError
  \/ \E progress \in Nat : setProgressInternal(progress)

LEMMA PathFitsInit == ViewInit => PathFits
  BY DEF ViewInit, PathFits

LEMMA PathFitsStep == PathFits /\ [ViewStep]_viewVars => PathFits'
<1> SUFFICES ASSUME PathFits, [ViewStep]_viewVars PROVE PathFits'
  OBVIOUS
<1> USE DEF PathFits, animations
<1>1. CASE NewView
  BY <1>1 DEF NewView
<1>2. CASE reset
  BY <1>2 DEF reset
<1>3. CASE startDownload
  BY <1>3 DEF startDownload
<1>4. CASE showDownloadOk
  BY <1>4 DEF showDownloadOk, OkShown
<1>5. CASE showDownloadError
  BY <1>5 DEF showDownloadError
<1>6. ASSUME NEW progress \in Nat, setProgressInternal(progress)
      PROVE  PathFits'
  BY <1>6 DEF setProgressInternal, OkShown
<1>7. CASE Animate
  BY <1>7 DEF Animate, PrepareMoves, PrepareEnds, ArcEnds, MarkEnds, ErrorEnds
<1>8. CASE UNCHANGED viewVars
  BY <1>8 DEF viewVars
<1>9. QED
  BY <1>1, <1>2, <1>3, <1>4, <1>5, <1>6, <1>7, <1>8 DEF ViewStep

LEMMA CalledIsViewStep == Called => ViewStep
  BY PercentsAssumption DEF Called, ViewStep

(* Called in any order, and whatever animation runs, the view draws the    *)
(* figure of its status, except while updateArrow puts its arrow there.    *)
THEOREM AnyUsePathFits == ViewSpec => []PathFits
<1>1. PathFits /\ [ViewNext]_viewVars => PathFits'
  BY PathFitsStep, CalledIsViewStep DEF ViewNext, ViewStep
<1>2. QED
  BY <1>1, PathFitsInit, PTL DEF ViewSpec

-----------------------------------------------------------------------------
(* The view in the downloader. *)

Messages == {"progress", "end", "success", "error"}

TypeOK ==
  /\ screen \in {"none", "confirm", "downloading", "failed", "leaving"}
  /\ taskPc \in {"none", "queued", "read", "post", "close", "over"}
  /\ downloaded \in 0 .. Size
  /\ messages \in Seq(Messages)

(* There is a task, with messages of its own, only after the dialog. *)
TaskStarted ==
  screen \in {"none", "confirm"} => taskPc = "none" /\ messages = <<>>

(* The view of a new activity is new until the download starts. *)
ViewNewBefore ==
  screen = "confirm" =>
    status = "PREPARE" /\ ~mPrepareAniRun /\ ~mMarkOkAniRun /\ ~mIfShowError

(* All of it is posted or shown only after all of it was read. *)
EndIsRead ==
  /\ \A i \in 1 .. Len(messages) : messages[i] = "end" => downloaded = Size
  /\ DoneIsRead

(* The error is the last word of the task. *)
ErrorIsLast ==
  /\ \A i \in 1 .. Len(messages) :
       messages[i] = "error" => i = Len(messages) /\ taskPc = "over"
  /\ screen = "failed" => messages = <<>> /\ taskPc = "over"

IInv == TypeOK /\ TaskStarted /\ ViewNewBefore /\ EndIsRead /\ ErrorIsLast

(* A percentage is rounded down: less than all of it is less than 100.     *)
LEMMA PercentBelow ==
  ASSUME NEW blocks \in 0 .. Size
  PROVE  /\ Percent(blocks) \in Nat
         /\ Percent(blocks) >= 100 => blocks = Size
<1> USE SizeAssumption
<1>1. /\ blocks * 100 \in Nat /\ Size > 0
      /\ blocks # Size => blocks * 100 < Size * 100
  OBVIOUS
<1>2. ASSUME NEW n \in Nat PROVE (n \div Size) \in Nat /\ (n \div Size) * Size <= n
  OBVIOUS
<1>3. Percent(blocks) \in Nat /\ Percent(blocks) * Size <= blocks * 100
  BY <1>1, <1>2 DEF Percent
<1>4. ASSUME NEW q \in Nat, q >= 100 PROVE q * Size >= 100 * Size
  BY <1>4
<1>5. QED
  BY <1>1, <1>3, <1>4

LEMMA InitIInv == Init => IInv
  BY SizeAssumption
  DEF Init, ViewInit, IInv, TypeOK, TaskStarted, ViewNewBefore, EndIsRead, DoneIsRead,
      ErrorIsLast

(* What the task posts, at the end of its messages. *)
LEMMA PostKeeps ==
  ASSUME IInv, NEW message \in Messages, messages' = Append(messages, message),
         NEW pc \in {"read", "close", "over"}, taskPc' = pc,
         taskPc \notin {"none", "over"},
         downloaded' = downloaded, UNCHANGED <<viewVars, screen>>,
         message = "end" => downloaded = Size,
         message = "error" => pc = "over"
  PROVE  IInv'
<1> USE DEF IInv
<1>1. /\ Len(messages') = Len(messages) + 1
      /\ messages'[Len(messages) + 1] = message
      /\ \A i \in 1 .. Len(messages) : messages'[i] = messages[i]
      /\ messages' \in Seq(Messages)
  BY DEF TypeOK
<1>2. TypeOK'
  BY <1>1 DEF TypeOK
<1>3. TaskStarted' /\ ViewNewBefore'
  BY DEF TaskStarted, ViewNewBefore, viewVars, animations
<1>4. EndIsRead'
  BY <1>1 DEF EndIsRead, DoneIsRead, viewVars, TypeOK
<1>5. ErrorIsLast'
  BY <1>1 DEF ErrorIsLast, TypeOK
<1>6. QED
  BY <1>2, <1>3, <1>4, <1>5

(* The rest of a queue. *)
LEMMA TailOfQueue ==
  ASSUME NEW S, NEW queue \in Seq(S), queue # <<>>
  PROVE  /\ Head(queue) = queue[1] /\ 1 \in 1 .. Len(queue)
         /\ Tail(queue) \in Seq(S)
         /\ Len(queue) = 1 => Tail(queue) = <<>>
         /\ \A i \in 1 .. Len(Tail(queue)) :
              /\ i + 1 \in 1 .. Len(queue) /\ Tail(queue)[i] = queue[i + 1]
              /\ i + 1 = Len(queue) => i = Len(Tail(queue))
  OBVIOUS

(* What the UI thread takes from the front. *)
LEMMA ReceiveKeeps ==
  ASSUME IInv, NEW message \in Messages, Receive(message)
  PROVE  /\ screen \notin {"none", "confirm"}
         /\ messages' \in Seq(Messages)
         /\ message = "end" => downloaded = Size
         /\ message = "error" => messages' = <<>> /\ taskPc = "over"
         /\ \A i \in 1 .. Len(messages') :
              /\ messages'[i] = "end" => downloaded = Size
              /\ messages'[i] = "error" => i = Len(messages') /\ taskPc = "over"
<1>1. /\ messages \in Seq(Messages) /\ messages # <<>>
      /\ message = Head(messages) /\ messages' = Tail(messages)
  BY DEF IInv, TypeOK, Receive
<1>2. /\ \A i \in 1 .. Len(messages) : messages[i] = "end" => downloaded = Size
      /\ \A i \in 1 .. Len(messages) :
           messages[i] = "error" => i = Len(messages) /\ taskPc = "over"
  BY DEF IInv, EndIsRead, ErrorIsLast
<1>3. screen \notin {"none", "confirm"}
  BY <1>1 DEF IInv, TaskStarted
<1>4. /\ message = "end" => downloaded = Size
      /\ message = "error" => messages' = <<>> /\ taskPc = "over"
  BY <1>1, <1>2, TailOfQueue
<1>5. ASSUME NEW i \in 1 .. Len(messages')
      PROVE  /\ messages'[i] = "end" => downloaded = Size
             /\ messages'[i] = "error" => i = Len(messages') /\ taskPc = "over"
  BY <1>1, <1>2, TailOfQueue
<1>6. QED
  BY <1>1, <1>3, <1>4, <1>5, TailOfQueue

LEMMA IInvStep == IInv /\ [Next]_progressVars => IInv'
<1> SUFFICES ASSUME IInv, [Next]_progressVars PROVE IInv'
  OBVIOUS
<1> USE SizeAssumption DEF IInv, taskVars, viewVars, animations, OnlyTask
<1>1. CASE Create
  BY <1>1 DEF Create, NewView, TypeOK, TaskStarted, ViewNewBefore, EndIsRead,
              DoneIsRead, ErrorIsLast
<1>2. CASE StartDownload
  BY <1>2 DEF StartDownload, reset, TypeOK, TaskStarted, ViewNewBefore, EndIsRead,
              DoneIsRead, ErrorIsLast
<1>3. CASE Destroy
  BY <1>3 DEF Destroy, TypeOK, TaskStarted, ViewNewBefore, EndIsRead,
              DoneIsRead, ErrorIsLast
<1>4. CASE Begin
  BY <1>4 DEF Begin, TypeOK, TaskStarted, ViewNewBefore, EndIsRead,
              DoneIsRead, ErrorIsLast
<1>5. CASE Read
  BY <1>5 DEF Read, TypeOK, TaskStarted, ViewNewBefore, EndIsRead,
              DoneIsRead, ErrorIsLast
<1>6. CASE PostProgress
  BY <1>6, PostKeeps DEF PostProgress, Messages
<1>7. CASE EndOfStream
  BY <1>7, PostKeeps DEF EndOfStream, Messages
<1>8. CASE Close
  BY <1>8, PostKeeps DEF Close, Messages
<1>9. CASE Fail
  BY <1>9, PostKeeps DEF Fail, Messages
<1>10. CASE ShowProgress
  <2>1. /\ Receive("progress") /\ setProgressInternal(Percent(downloaded))
        /\ screen' = screen /\ downloaded' = downloaded /\ taskPc' = taskPc
    BY <1>10 DEF ShowProgress, Receive
  <2>2. "progress" \in Messages
    BY DEF Messages
  <2>3. /\ screen \notin {"none", "confirm"} /\ messages' \in Seq(Messages)
        /\ \A i \in 1 .. Len(messages') :
             /\ messages'[i] = "end" => downloaded = Size
             /\ messages'[i] = "error" => i = Len(messages') /\ taskPc = "over"
    BY <2>1, <2>2, ReceiveKeeps
  <2>4. status' = "DOWNLOADED" => status = "DOWNLOADED" \/ downloaded = Size
    BY <2>1, PercentBelow DEF setProgressInternal, TypeOK
  <2>5. screen = "failed" => messages' = <<>>
    BY <2>1 DEF ErrorIsLast, Receive
  <2>6. QED
    BY <2>1, <2>3, <2>4, <2>5
    DEF TypeOK, TaskStarted, ViewNewBefore, EndIsRead, DoneIsRead, ErrorIsLast
<1>11. CASE ShowEnd
  <2>1. /\ Receive("end")
        /\ screen' = screen /\ downloaded' = downloaded /\ taskPc' = taskPc
    BY <1>11 DEF ShowEnd, Receive
  <2>2. "end" \in Messages
    BY DEF Messages
  <2>3. /\ screen \notin {"none", "confirm"} /\ messages' \in Seq(Messages)
        /\ downloaded = Size
        /\ \A i \in 1 .. Len(messages') :
             messages'[i] = "error" => i = Len(messages') /\ taskPc = "over"
    BY <2>1, <2>2, ReceiveKeeps
  <2>4. screen = "failed" => messages' = <<>>
    BY <2>1 DEF ErrorIsLast, Receive
  <2>5. QED
    BY <2>1, <2>3, <2>4
    DEF TypeOK, TaskStarted, ViewNewBefore, EndIsRead, DoneIsRead, ErrorIsLast
<1>12. CASE OnSuccess
  <2>1. /\ Receive("success") /\ screen' = "leaving" /\ UNCHANGED viewVars
        /\ downloaded' = downloaded /\ taskPc' = taskPc
    BY <1>12 DEF OnSuccess, Receive
  <2>2. "success" \in Messages
    BY DEF Messages
  <2>3. /\ screen \notin {"none", "confirm"} /\ messages' \in Seq(Messages)
        /\ \A i \in 1 .. Len(messages') :
             /\ messages'[i] = "end" => downloaded = Size
             /\ messages'[i] = "error" => i = Len(messages') /\ taskPc = "over"
    BY <2>1, <2>2, ReceiveKeeps
  <2>4. QED
    BY <2>1, <2>3
    DEF TypeOK, TaskStarted, ViewNewBefore, EndIsRead, DoneIsRead, ErrorIsLast
<1>13. CASE OnError
  <2>1. /\ Receive("error") /\ screen' = "failed" /\ status' = "ERROR"
        /\ downloaded' = downloaded /\ taskPc' = taskPc
    BY <1>13 DEF OnError, Receive, showDownloadError
  <2>2. "error" \in Messages
    BY DEF Messages
  <2>3. /\ messages' = <<>> /\ messages' \in Seq(Messages) /\ taskPc = "over"
    BY <2>1, <2>2, ReceiveKeeps
  <2>4. QED
    BY <2>1, <2>3
    DEF TypeOK, TaskStarted, ViewNewBefore, EndIsRead, DoneIsRead, ErrorIsLast
<1>14. CASE Animations
  <2>1. /\ screen' = screen /\ UNCHANGED taskVars
        /\ status' # status => mPrepareAniRun /\ status' = "DOWNLOADING"
        /\ screen = "confirm" => FALSE
    BY <1>14 DEF Animations, Animate, PrepareMoves, PrepareEnds, ArcEnds, MarkEnds,
                 ErrorEnds, ViewNewBefore
  <2>2. QED
    BY <2>1 DEF TypeOK, TaskStarted, ViewNewBefore, EndIsRead, DoneIsRead, ErrorIsLast
<1>15. CASE OtherUse
  BY <1>15 DEF OtherUse, TypeOK, TaskStarted, ViewNewBefore, EndIsRead, DoneIsRead,
               ErrorIsLast
<1>16. CASE UNCHANGED progressVars
  BY <1>16 DEF progressVars, TypeOK, TaskStarted, ViewNewBefore, EndIsRead, DoneIsRead,
               ErrorIsLast
<1>17. QED
  BY <1>1, <1>2, <1>3, <1>4, <1>5, <1>6, <1>7, <1>8, <1>9, <1>10, <1>11, <1>12,
     <1>13, <1>14, <1>15, <1>16
  DEF Next, Background, Handle

LEMMA Invariance == Spec => []IInv
  BY InitIInv, IInvStep, PTL DEF Spec

(* The values the activity, its task and its messages take. *)
THEOREM TypeCorrect == Spec => []TypeOK
<1>1. IInv => TypeOK
  BY DEF IInv
<1>2. QED
  BY <1>1, Invariance, PTL

-----------------------------------------------------------------------------
(* Safety. *)

(* Whatever the length of the file, 100 percent are shown only when every  *)
(* block was read (the division of publishProgress rounds down).           *)
THEOREM DoneOnlyWhenRead == Spec => []DoneIsRead
<1>1. IInv => DoneIsRead
  BY DEF IInv, EndIsRead
<1>2. QED
  BY <1>1, Invariance, PTL

(* No progress of the task comes after its error, so the cross stays as    *)
(* long as the alert.                                                      *)
THEOREM CrossStays == Spec => ErrorStays
<1>1. IInv /\ [Next]_progressVars
        => [screen = "failed" /\ screen' = "failed" /\ ~mPrepareAniRun
              => (status = "ERROR" => status' = "ERROR")]_progressVars
  <2> SUFFICES ASSUME IInv, Next, screen = "failed", screen' = "failed",
                      ~mPrepareAniRun, status = "ERROR"
               PROVE  status' = "ERROR"
    OBVIOUS
  <2>1. messages = <<>> /\ taskPc = "over"
    BY DEF IInv, ErrorIsLast
  <2>2. ~Create /\ ~StartDownload /\ ~Destroy /\ ~Background /\ ~Handle /\ ~OtherUse
    BY <2>1 DEF Create, StartDownload, Destroy, Background, Begin, Read, PostProgress,
                EndOfStream, Close, Fail, Handle, ShowProgress, ShowEnd, OnSuccess,
                OnError, Receive, OtherUse
  <2>3. Animations
    BY <2>2 DEF Next
  <2>4. QED
    BY <2>3 DEF Animations, Animate, PrepareMoves, PrepareEnds, ArcEnds, MarkEnds,
                ErrorEnds
<1>2. QED
  BY <1>1, Invariance, PTL DEF Spec, ErrorStays

(* In the downloader too the view draws the figure of its status.          *)
THEOREM DownloadPathFits == Spec => []PathFits
<1>1. Init => PathFits
  BY PathFitsInit DEF Init
<1>2. IInv /\ [Next]_progressVars => [ViewStep]_viewVars
  <2> SUFFICES ASSUME IInv, [Next]_progressVars PROVE ViewStep \/ UNCHANGED viewVars
    OBVIOUS
  <2>1. CASE Create \/ StartDownload \/ OnError
    BY <2>1 DEF Create, StartDownload, OnError, ViewStep
  <2>2. CASE ShowProgress \/ ShowEnd
    BY <2>2, PercentBelow DEF ShowProgress, ShowEnd, ViewStep, IInv, TypeOK
  <2>3. CASE Animations
    BY <2>3 DEF Animations, ViewStep
  <2>4. CASE OtherUse
    BY <2>4, CalledIsViewStep DEF OtherUse, ViewStep
  <2>5. CASE Destroy \/ Background \/ OnSuccess \/ UNCHANGED progressVars
    BY <2>5 DEF Destroy, Background, Begin, Read, PostProgress, EndOfStream, Close,
                Fail, OnlyTask, OnSuccess, progressVars
  <2>6. QED
    BY <2>1, <2>2, <2>3, <2>4, <2>5 DEF Next, Handle
<1>3. QED
  BY <1>1, <1>2, PathFitsStep, Invariance, PTL DEF Spec
=============================================================================
