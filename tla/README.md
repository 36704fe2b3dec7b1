# Face-Swap-Android: a verification project

Face-Swap-Android is a single-process Android application. It fetches a face
landmarks file once, then runs the camera, finds two faces in each frame and
swaps them. Little of it is large, but almost all of it is asynchronous: a UI
thread, a camera worker thread, the camera's own callbacks, `AsyncTask` threads
that are cancelled but not stopped, a file and a flag that outlive the process,
and native code with global buffers. This directory holds TLA+ models of these
parts, the TLC runs that check them and the TLAPS proofs about them.

Paths below are short: *app* is
`src/faceSwap/src/main/java/com/tunaemre/opencv/faceswap`, *opencv* is
`src/openCVLibrary/src/main/java/org/opencv/android`, *jni* is
`src/faceSwap/src/main/jni`.

## Inventory

| Part | State it keeps | Operations | What must hold |
|---|---|---|---|
| Camera view: `CameraBridgeViewBase`, `JavaCameraView` (*opencv*), `ExtendedCameraView` (*app*/view) | enabled / surface flags, STOPPED or STARTED, the camera, a chain of two frame buffers, a worker thread, the bitmap on the screen | `enableView`, `disableView`, `surfaceChanged`, `surfaceDestroyed`, `switchCamera`, `onPreviewFrame`, `CameraWorker.run` | no torn, stale or released frame reaches the listener; one worker at most; a stop returns, and releases everything |
| Landmarks file: `MainActivity`, `DownloaderActivity`, `CacheOperator` (*app*) | the file under its path, the persistent flag, `FileDownloader` tasks, permissions | start, permission answers, download, cancel, result handlers | the flag never vouches for a file that is not whole; the progress view ends |
| `FaceSwapActivity` (*app*) | life cycle, loader task, `mNativeDetector`, `mTemp`, `mIsTakePictureRequested` | life-cycle callbacks, buttons, `onCameraFrame`, `takePicture` | frames meet a detector and a whole model; a destroyed activity stays off; photos only on request |
| Face swapper (*jni*`/FaceSwapper.cpp`) | global model, global work buffers, histograms | `loadPoseModel`, `swapFaces` | cuts stay inside of the frame; what is pasted is the other face of this frame; histogram matching terminates and keeps the order of the colours; blending stays within 8 bits |
| Landmarks model (dlib: `serialize.h`, `matrix.h`, `shape_predictor.h`) | the model in memory, the stream it is read from | `deserialize`, `shape_predictor::operator()` | a load that returns true leaves a whole model; a walk goes through one model only and ends at a leaf it has |
| Detector (*jni*`/DetectionBasedTracker.cpp`, `IDetectionBasedTracker`) | a native object with a thread of its own | create, start, stop, detect, destroy; `copyCascade` | the cascade file is whole |
| Progress view (`FreshDownloadView`) | status, figure, error flag, animators | `startDownload`, `upDateProgress`, `showDownloadError`, `reset`, animation ends | the status shown is the download's, whatever animation still runs |
| OpenCV initialisation (`AsyncServiceHelper`, `BaseLoaderCallback`) | service binding, static installation flags | bind, install, wait, cancel | every start is answered once, and no answer leaves the manager bound |
| Portrait camera view (*app*/view) | as the camera view | as the camera view | as the camera view; not used by the application yet |
| rest of dlib, OpenCV bindings, PhotoMaskMaker, utilities, build files | | | vendored, generated, unfinished or stateless: see *Not modelled* |

How they interact:

- `MainActivity` starts `DownloaderActivity` when the file or its flag is
  missing, and is started by it again when the download has succeeded.
- `MainActivity` starts `FaceSwapActivity`, whose loader task reads the file
  (`loadPoseModel`), copies the cascade, and makes the detector on a pool thread.
  Its `onPostExecute` enables the camera view on the UI thread.
- The camera posts `onPreviewFrame` to the UI thread, which fills a buffer of the
  frame chain and notifies the worker. The worker calls `onCameraFrame` of the
  activity, which detects and swaps faces, and draws the result.
- `onCameraFrame` posts runnables to the UI thread: masks, and the photo.
- Stopping the view happens on the UI thread, which joins the worker.
- The download thread posts progress and its result to the UI thread, where they
  meet the animations of the progress view.
- `loadPoseModel` runs dlib's `deserialize` into a global that `swapFaces` hands to
  `shape_predictor::operator()` for every face of every frame.
- Without a packaged OpenCV library, `FaceSwapActivity` binds the OpenCV Manager,
  another process, through `AsyncServiceHelper`.

What is hard: UI handlers against the worker and the camera; a join under a
lock; `notify` without a wait; results of tasks whose activity is gone; threads of
cancelled tasks that work on; process death between a file and its flag; `Mat`s
used after the callback they were lent for; native buffers that keep what an earlier
frame left; files that end anywhere; animations that outlast the state they were
started in; 8-bit arithmetic. `PROJECT.json` lists
each hazard at its line with the properties about it.

## Modules

### CameraListener, CameraView

`CameraListener` is the contract of `CvCameraViewListener2`, from the comments at
`CameraBridgeViewBase.java` 115-136: `onCameraViewStarted`, then calls of
`onCameraFrame` one at a time with ever later frames, then `onCameraViewStopped`.

`CameraView` is the detailed model. The UI thread runs one handler at a time: a
handler is the list of assignments it makes (`todo`), each followed by
`checkCurrentState`, and `uiPc` says where in `disconnectCamera` or `connectCamera`
it is. `mSyncObject` needs no variable because only the UI thread takes it. The
monitor of the view is a real one: `notify` wakes one of the waiting workers,
wake-ups may be spurious, and a copy in `onPreviewFrame` lasts two steps
(`uiPc = "put"`) so that a worker which reads the same buffer is seen. `Waiting`,
`Notify`, `TakeFrame` and the rest follow `CameraWorker.run` line by line;
everything the worker does outside of the monitor is a step of its own. An entry of
`mFrameChain` is the number of the frame it holds, or says that it is blank or
released. The camera is external: it fills the one callback buffer when it has it.
`connectCamera` may fail at each of its stages (`ConnectCameraFails`).

### Downloader

The three screens, their permission requests and dialogs; `FileDownloader` tasks as
threads that go through `doInBackground` one file access at a time; and the file
system below `mLocalFile`. A task uses the *path* until it has opened the file and a
*descriptor* afterwards, so a second task can delete or empty the file a first one
is writing: `path`, `blocks` and `descriptor` keep the two apart. Buffered output is
`flushed`, data received is `downloaded`. `Killed` ends the process at any step;
`path`, `blocks` and the flag survive. A task that was cancelled before it ran
reaches `onCancelled` with a null `mLocalFile`, which ends the process too.
`overlapped` is a history variable: two downloads have been at work at once.

### FaceSwapActivity

Life cycle, loader tasks (of this activity and of destroyed ones), `onCameraFrame`
step by step, and the photo. The camera view is replaced by what `CameraView`
guarantees, as the module's head says: it uses two `Mat`s in turn, and an action that
stops the view waits until the worker is out of `onCameraFrame`. That is what
`ListenerImplemented` and `StopReleases` prove of the detailed view. An image is the
frame it was taken from and whether its faces are swapped, so that reading a `Mat`
too late shows. `overlapped` and `switchedEarly` are history variables, `clicks` and
`photos` count what the user asked for and got.

### PortraitCameraView

`PortraitCameraView.java` and its base class are copies of the camera view that rotate
the frame they draw and change one thing of the control: the worker swaps the chain in
the monitor, but tests and clears `mCameraFrameReady` after it has left it. The module
extends `CameraView` with other actions of the worker (`SwapChain`, `ClearReady`,
`DeliverSwapped`, `SkipFrame`) and with a variable that says which class the view is
of; `ViewNext` is the one or the other next-state relation. So one run asks the same
questions of both. A frame put between the swap and the clearing loses its flag and is
overwritten by the next: that is the one difference the properties see
(`FrameForgottenOnlyInPortrait`).

### FreshDownloadView, DownloadProgress

`FreshDownloadView` is the view alone, called by anything at any moment: `status` and
`status_mark`, the figure in `path1`, and the animations that run. A call that starts an
animation returns at once, and the end is an action of its own. `DownloadProgress`
composes it with its one caller: a download thread that posts messages, the UI thread
that handles them in order, and the alert after an error. While there is no activity the
view is that of another user of the library, who calls anything at any moment
(`OtherUse`), so that `PathFits`, which is about the view alone, is checked for every
caller. Recreating a `DownloaderActivity` ends the process: the view's
`onRestoreInstanceState` does not pass the super state on, so the platform refuses it. In `Downloader` a destroyed screen is therefore not
followed by a recreated one in the same process.

### AsyncServiceHelper

The way to the OpenCV library if the package has none. The manager is another process,
which may die while a dialog is open and be bound again; the market is a third one,
where an installation may come to nothing; the two progress flags are static and stay
when an activity goes. `connection` says what `bindService` has come to, `dialogs` is
the stack of questions on the screen, `answers` what the activity was told. Every way to
an answer unbinds first and answers then, in one step, but one: `wait_install` answers
MARKET_ERROR (line 267) while it still holds the manager, and unbinds at 275. So it is
two steps, `WaitForLibrary` and `WaitUnbinds`, with `connection = "unbinding"` between.
Left out are the messages that come with some answers, whose button only closes the
activity, and the branch of `onServiceConnected` for a null binder (162-166), with which
the platform does not call it.

### CropGeometry, FaceSwapper, HistogramMatching, SpecifyHistogram, FaceBlending

The native pipeline of a frame, in the order of its steps.

- `CropGeometry` is `getCroppedFrame`: rectangles as OpenCV combines them, for faces
  inside of, across and outside of the frame, and the cuts later steps make.
- `FaceSwapper` is `nativeSwapFaces` over a sequence of frames. All images are globals.
  A pixel is the set of things it shows: one face, the other, the ground, or something
  *stale* from an earlier frame. `copyTo` with a mask keeps what was outside of the
  mask, unless the size of the crop has changed; that is where stale pixels come from.
  At the end `nativeSwapFaces` draws four rectangles into the frame and into the crop,
  which is a view of it (lines 86-90): `outlines` are the pixels of the crop a line is
  drawn on, any of a given set, and `shown` is the crop with these lines, as `swapFaces`
  leaves it.
- `SpecifyHistogram` is the binary search of `specifiyHistogram` in `uint8_t`. A
  cumulative histogram is monotone, so the needle is represented by the first level that
  is not below it; no floating-point number is needed.
- `HistogramMatching` has `specifiyHistogram` as an operator on an image and a mask, with
  the search as a recursive function on what is left of the levels. `SpecifyHistogram`
  extends it, and its loop is proved to return what that function does.
- `FaceBlending` composes `CropGeometry` and `HistogramMatching` with what follows: from
  two detected faces it takes the crop and its rectangles (`CropFaces`), corrects the
  colours of the first and then of the second face in one image, erodes and blurs the
  weights in the one grown rectangle and then in the other, and blends
  (`pasteFacesOnFrame`) with its shift by eight bits. Erosion and blur have OpenCV's
  anchors; green and blue are blended with the weights of the next pixels, and with any
  value past the end of the row, as in the code.

### PoseModel, ShapePredictorFile, ShapePredictor, Landmarks

The landmarks model.

- `ShapePredictorFile`: `nativeLoadPoseModel` and `deserialize` of `shape_predictor`,
  `matrix` and `vector`, element by element, from files that are missing, of another
  version or cut anywhere, again and again into the same global. It implements
  `PoseModel`, which is what `FaceSwapActivity` knows of a load. No lock guards the
  global, and a cancelled loader runs on, so a load may begin beside another use of the
  model (`Overlap`). What the two make of the vectors is undefined: from then on the
  model is `"raced"`, memory may hold any of `Remains` and a load return anything
  (`Race`), and no property and no promise of `PoseModel` is about it, until the process
  ends.
- `ShapePredictor`: the walk through the regression trees, where each comparison may
  come out either way.
- `Landmarks` composes the two over the global they share: faces are looked for with what
  the last load has left, and the next load may be of another file (`Find`, `Load`).
  `FaceSwapActivity` makes sure that a load which returned true comes first. That no load
  runs beside a walk it makes sure of only for its own loader (`ModelUsable`); the loader
  of a destroyed activity may begin one, so `Load` has that step too. A walk it begins
  beside is not followed further.

## Runs

| Run | Instance | What it shows |
|---|---|---|
| `MCCameraView` | both classes, 2 workers, 2 cameras, 3 frames | the safety invariants of the view, that it implements `CameraListener`, that only the portrait view forgets a frame; handlers return and frames are taken |
| `MCCameraViewStarted` | as above | *violation*: `onCameraViewStarted` without a preview |
| `MCDownloader` | 2 tasks, 2 files, 2 blocks | the flag, which task reports; the progress view ends |
| `MCFaceSwapActivity` | 2 loaders, 3 frames, 2 clicks | model, detector, destroyed activity, photos |
| `MCFaceSwapPhotoIsFrame` | as above | *violation*: the photo is not the frame asked for |
| `MCFaceSwapNeverSaved` | as above | *violation*: a frame with faces is saved |
| `MCSpecifyHistogram` | all 256 levels | every iteration shrinks the interval, so no wrap-around and an end; accuracy |
| `MCFaceBlending` | 12 x 7 and 6 x 9 frames with 220 rectangles; a row of 20 pixels, feathers of 1 to 4; a row of 3 pixels of any of 4 greys | cuts inside, faces covered; order kept, colours matched; reach of the feather, bounds of the blend |
| `MCFaceSwapper` | crops of 3 and 4 pixels, 8 hulls, lines on 4 sets of pixels | what the pasted pixels show under the lines; where stale pixels may show |
| `MCLandmarks` | 3 models of two shapes and two depths, trees of up to 16 leaves, full and not; 4 remains of loads that overlap | as long as loads do not overlap, whole models only, and the forests of one file are walked; `PoseModel` implemented; the leaf exists and is the one of its path |
| `MCDownloadProgress` | 4 blocks; 5 percentages, any caller | done means read, the cross stays, progress is shown; figure and status agree |
| `MCAsyncServiceHelper` | 2 deaths of the manager | one answer, which leaves nothing bound, no exception without a death; the static flags end with what they are about |

Why the bounds are enough. Two workers are what it takes for an old and a new one to
meet, and a third could only be started by the same step; the proofs remove the bound
on workers and frames altogether. Three frames use both buffers of the chain and one
of them twice. Two tasks (or loaders) are a cancelled one and its successor. Two files
are one for each of their descriptors: a task that makes a file under the path has none
open itself. Two blocks tell an empty, a partial and a whole file, and a flushed block
from a buffered one. Two clicks let the second meet the first's photo. `MaxFrames`,
`MaxClicks` and `MaxDeaths` bound counters; everything else is finite by nature. Task and
loader identities are reused when they are over, so runs are of any length, and starting
one waits while all are in use. Symmetry is used where it says so in a cfg, in runs
without liveness.

For the native parts: the frames of `MCFaceBlending` are a wide and a high one, whose
faces include one with a quarter wider than the border and one without, at every column
from left of the frame to right of it; pixels are followed in rows, where the same
rectangles come with the feathers, greys and colours that their steps tell apart. Feathers
of one to four pixels are the odd and the even ones with and without an inner pixel.
Three pixels give histograms with equal and different ranks under every pair of
rectangles; the search runs over all 256 levels. A crop of `MCFaceSwapper` that changes
its size and one that keeps it are what stale pixels depend on; lines on none, on some
and on all of its pixels leave the properties each pixel to speak of. Three models make a
second load with as many, fewer and more elements than the first has left; a walk takes
each of its comparisons both ways. Remains of nothing, of a model and of two mixtures show
that the conditions on overlapping loads are needed. A second death of the manager meets what the first has
left behind.

`MCSpecifyHistogram` and `MCFaceBlending` do not check deadlock because these
computations end.

### Fairness

`FairViewSpec` assumes weak fairness of each thread, and strong fairness of a worker's
entry into the monitor with a frame in it (a thread that contends for a Java monitor
gets it in the end, though the UI thread takes it again and again). It assumes nothing
of the camera, the user or spurious wake-ups, and is the same for both classes of view.
`Downloader` assumes that threads run
and posted results are handled. For the steps that wait for the server this is an
assumption on the network, not on the code, which sets no timeout. `DownloadProgress`
assumes that the UI thread handles what is posted to it and that an animation that was
started ends, and nothing of the download itself.

### Where the code and its documents differ

- `CameraBridgeViewBase.java` 117-118 say that `onCameraViewStarted` means that the
  preview has started; `processEnterState` calls it also when `connectCamera` failed
  (`MCCameraViewStarted`).
- `CameraBridgeViewBase.java` 177 forbids the use of a frame's objects outside of
  `onCameraFrame`; `FaceSwapActivity` keeps one in `mTemp` for the UI thread, and the
  photo may be a later, a half processed or a released image
  (`MCFaceSwapPhotoIsFrame`).
- `privacy-policy.txt` line 5 says that faces are never saved anywhere; `takePicture`
  saves the frame in the public pictures directory (`MCFaceSwapNeverSaved`).

Some properties carry a condition because the code does not guarantee more, and the
condition is where it fails: `FlagTruthful` and `ModelUsable` hold while no two tasks
overlap, `DetectorBeforeFrames` unless the switch button is used before the files are
loaded; `ErrorStays` and `PathFits` except an error during the prepare animation, which
hides the cross; `OneAnswer` and `NoException` except a manager that dies under a dialog.
`LoadedIsWhole` holds while no load begins beside another use of the model, and
`LoadsPoseModel` and `WalksLoadedModel` are about such loads and walks: `PoseModel` promises
nothing of others, and a walk that a load begins beside ends there. `AnsweredIsUnbound`
allows for the one answer that comes just before the unbinding, and `PastedShowsOther` for
the pixels under a line. The hazards say what happens otherwise.

Two more remarks were met while reading and are no property of a run: `serialize.h` 44-45
say that an item has an initial value after a serialization error, but `deserialize` of
`shape_predictor` leaves the parts it has read, as `ShapePredictorFile` does; and
`FreshDownloadView.java` 540 says that `using` tells whether a task uses the view, but it
stays true after the task has failed, as `mUsing` does.

## Proofs

All theorems hold for every value of the constants that satisfies the modules'
assumptions: any number of workers, tasks, loaders, frames, clicks and deaths, files and
models of any size, frames and faces of any size and place, pictures of any greys. Every
invariant and every safety action property that a passing run checks is a theorem, and so
are both refinements. TLC checked each inductive invariant on the run's instance
before it was proved (`InFullTree` with a bound on its factor).

### CameraViewProofs

The properties of `MCCameraView`, first of `CameraView`, then of both classes of view.
`IInv` is needed because none of the properties is inductive: that a frame is intact
depends on which entry the worker reads (`slot = 1 - mChainIdx` as long as it delivers),
which depends on there being one worker, which depends on `mThread` being null whenever a
handler is about to start one, which depends on where the handler is. Each of these is a
named conjunct, with the class of the view as a parameter where the portrait view differs:
its worker has the steps between the swap and the clearing of the flag. There is one step
per action, over the union of both next-state relations (`StepOf`), and a lemma for the
transition that changes everything at once.

`NoFrameForgotten` needs a second invariant: as long as a worker goes on, the entry it
does not read holds nothing new unless the flag is up (`AllTaken`). It does not hold of
the portrait view, which is what `ForgottenOnlyInPortrait` says. `ListenerStep` maps every
action of either class to a step of `CameraListener` or a stutter.

### DownloaderProofs

The properties of `MCDownloader`. `TaskInv` is what overlapping downloads do not disturb:
what a task knows of its own download (`Counted`), which task may report, which one owns
the progress view. `FileInv` holds as long as downloads do not overlap: there is one task
at work; from its start it writes the file under the path, so the blocks it flushed are in
that file (`WritesPath`); and a raised flag means that no task is left that could touch
the file (`FlagIsFinal`), which is why the flag stays true once it is. `BetweenJoins` is
the lemma that consecutive flushes leave no gap.

### FaceSwapActivityProofs

The properties of `MCFaceSwapActivity`. A loader that is not cancelled is the one the
activity knows (`CurrentLoader`); if loaders do not overlap there is one at most, and a
detector exists only once the model is whole and nobody writes it (`ModelOrder`); what
enables the view comes after the detector (`EnabledHasDetector`). Photos are an account
(`Paid`): photos made, posted, in the hands of the worker and requested are together never
more than the clicks.

### FaceBlendingProofs

What `nativeSwapFaces` does with pixels, in four parts.

- The rectangles of `CropGeometry`: no cut leaves its image, and the crop and the grown
  rectangles cover what is to be seen of the faces. The geometry is linear arithmetic over
  `\div` once `Meet` and `Hull` have been given their bounds in lemmas.
- The search in 8 bits (`SpecifyHistogram`): it never wraps around. The key is
  `NeverWraps`: as long as `l` has not moved, `r` runs through 255, 126, 62, ..., 2, 0 and
  is never 1, so the midpoint is never 0 when it is decremented.
- The search as a function (`HistogramMatching`): what it returns is a level
  (`SearchStaysIn`), at most two below and one above the first that is not below the needle
  (`SearchIsNear`), and it is monotone in the needle for any histogram, also one that is
  not (`SearchIsMonotone`: two needles part at one comparison, and never meet again the
  other way round). `SearchReturns` joins the two models: the loop in 8 bits ends with what
  the function returns.
- The swap (`FaceBlending`). Its steps are steps of `CropGeometry` or leave it alone
  (`SwapsCrop`), so the geometry comes over. The invariant `BlendIInv` has four named parts
  beside the blend: what is given (`Given`) and what each stage makes of it (`Made`) are of
  their types, which needs `CutsInside` for the pixels that are read of the frame; the
  matched colours (`ColoursMatch`), which `MatchedHistogram` establishes for any image
  and any mask; and where weight may be (`WeightIsNear`). For the last one `FeatherPass`
  says what one erosion and one blur do to any mask: a pixel of weight inside of the
  rectangle had a pixel of weight where it is, or one to its left if the feather is even,
  or it is near one outside of the rectangle. `RoomyReach` excludes the last, because a
  rectangle with room for the feather around a face does not end there; two passes move
  the border twice at most, and only where the rectangles overlap.

### FaceSwapperProofs

The properties of `MCFaceSwapper` for crops of any size and faces anywhere: mask and face
are warped by the same map (so what is pasted shows the other face), nothing outside of
the faces and the lines changes, and stale pixels need a crop of the same size and stay
within a face. `ShownPixel` says what a pixel shows after the lines were drawn: the line, or
what was pasted.

### LandmarksProofs

`ShapePredictorFile` and `ShapePredictor` by themselves, then their composition.

- `FileIInv` says of every part of the model that its first elements are of the file being
  read up to where the reader is, with the sizes of the file for the parts done: hence a
  load that returns true leaves a whole model, and loading implements `PoseModel`. Both
  are proved with loads that overlap among the steps, and say nothing of what these leave.
- `WalkIInv` says where in its tree a walk is. The node is at most twice the number of
  splits, so the leaf exists in a tree of any shape. In a full tree the node is the path
  taken plus the nodes above its level (`InFullTree`). No power of two is needed: a full
  tree is one of whose number of leaves every factor but 1 is even, and `LevelBelow` says
  that such a number can be halved as long as a split is left.
- `LandmarksIInv` adds that during a walk the forests are those of the model that was
  loaded, and that no load is under way beside it (`WalkHasModel`). From it come the walks
  through one model, and all of the above for `LandmarksSpec`, whose loads and walks follow
  one another in any order, or meet.

### DownloadProgressProofs

That figure and status agree is inductive for the view alone, whatever calls it
(`AnyUsePathFits`), and comes over to the downloader. That 100 percent are shown
only when every block was read needs the queue: a message that ends is posted when all is
read, and the view's own figures are less before (`EndIsRead`, with `PercentBelow` for the
division that rounds down). That the cross stays needs that an error is the last message
of its task and that none is left when the alert is open (`ErrorIsLast`).

### AsyncServiceHelperProofs

Answers are counted against connections and dialogs: a question about the manager is the
first thing the helper says (`ManagerAskedFirst`), a connection that is being made is the
first one (`BindingIsFirst`), and as long as the manager lives who is asked about the
library holds it, one question at a time, and who has been answered is asked nothing
(`NoDeathYet`). Between the answer and the unbinding of `wait_install` no other handler runs,
so the invariant only has to know which answer it was.

### Induction and recursion

The library's induction theorems take the formula as an operator, which the provers here
cannot instantiate. `FaceBlendingProofs` states induction over the numbers with a set
instead (`SetInduction`, from the well-foundedness of `<`), and gets from it the induction
over finite sets and over intervals it needs. A recursive function is the choice of a
solution of its equation, so each is first shown to have one (`FoldExists` for the fold
under the sums of the blur, `SearchExists` for the search); then the equation may be used.

### Model-checked only

- `HandlersReturn`, `FrameTaken`, `ProgressEnds` and `ProgressShown`: liveness, and fairness
  is out of the prover's reach.
- The properties of the three runs that expect a violation: they do not hold.
- That the constants of a run satisfy the modules' assumptions.

The other way round, some invariants are proved and need no run of their own: the type
invariants (but `CameraView`'s), `NoTearing`, `ProgressHasTask`, `BigCoversFace`,
`OnlyFacesChange` and `SearchReturns`.

## Abstractions

- A click and the message it posts are one step; what the user can click is what the
  screen shows.
- `FrameArrives` over-approximates the order of the UI queue: the worker may call back
  as soon as the view is enabled and has a surface.
- A failure of `File.delete` is not modelled; failures of everything else that throws
  in `doInBackground` are.
- The visibility of unsynchronised Java fields between threads is not modelled: a
  write is seen at once. The one unsynchronised C++ race, on `face_predictor_model`,
  is modelled as a model of unknown contents (`"raced"`), in `FaceSwapActivity` and in
  `ShapePredictorFile`.
- Images, histograms and files are reduced to what the properties tell apart. A row of
  pixels stands for an image where columns are treated as rows are; the affine warp is
  the map of one interval onto another, without the rounding of its coefficients.
- The bytes of a number in the landmarks file are left out: a number is read or the file
  has ended.
- The application is taken to find the OpenCV library in its package, which contains
  it; OpenCV Manager is a component of its own.

## Order of the work

The modules were written, and are best read, in this order: camera view with its
contract; landmarks file; face swap activity; the native pipeline of a frame; the
landmarks model; progress view and its composition with the download; OpenCV
initialisation; the portrait view. Each has its run before its proof.

## Not modelled

- **Almost all C++ code of the repository.** Of some 345,000 lines of C and C++, all but
  about 1,500 are a vendored copy of dlib: user interface, networks, sockets, matlab
  bindings, linear algebra, optimisation, tests of its compilers. The application
  instantiates `deserialize` and `operator()` of one class of it, and these are modelled.
  The rest is neither called nor part of what makes this application correct; a model of
  it would be one of another project. For this reason the share of the C++ lines that
  the models map is very small, while nearly all of the application's own native code and
  its asynchronous Java code is covered.
- **The fallback detector thread.** `DetectionBasedTracker` has a thread of its own inside
  of the OpenCV library, which is not in the repository. The application creates and
  starts it, asks it for faces, and never stops or releases it: the JNI functions for that
  have no caller. Creating, starting and detecting are steps of `FaceSwapActivity`.
- **The bytes of the landmarks file**: how dlib packs an integer or takes a floating point
  number apart (`serialize.h`, `float_details.h`). The parts of the model are read number
  by number, whatever a number's bytes.
- **`PhotoMaskMaker`** is not in `Android.mk` and has no caller.
- **Layout and drawing**: `ResizedImageView`, the drawing of the progress view, the scale
  of the bitmap. They keep no state that another part reads.
- **`NetworkOperator`, `FileOperator`**: a query of the system, which is a choice in
  `Downloader`, and unused code.
- **Generated OpenCV bindings** and the GL camera views, which the application does not
  use.
- **The rest of `FaceSwapActivity`**: masks and buttons, and the last photo. They are
  written and read by the UI thread alone.
- **`FaceSwapActivity` over the detailed `CameraView`** is argued and not composed: the
  activity's model assumes what `ListenerImplemented` and `StopReleases` prove of the
  view, and the product of the two would add only interleavings these exclude.
