------------------------- MODULE AsyncServiceHelper -------------------------
(***************************************************************************)
(* How FaceSwapActivity gets the OpenCV library when its package has none: *)
(* AsyncServiceHelper binds the OpenCV Manager, offers to install it or    *)
(* the library, and tells the activity how it went (onManagerConnected,    *)
(* onPackageInstall of BaseLoaderCallback, which shows the dialogs).       *)
(*                                                                         *)
(* All of it runs on the UI thread of the application, as callbacks of the *)
(* platform and of dialogs.  The manager is another process, which may die *)
(* and be bound again; the market is a third one, in which an installation *)
(* may succeed or come to nothing.  Activities come and go; the two        *)
(* progress flags are static and last as long as the process.              *)
(*                                                                         *)
(* Left out: the messages that come with some answers, whose only button   *)
(* closes the activity (Close), and onServiceConnected with a null binder, *)
(* which the platform does not call.                                       *)
(***************************************************************************)
EXTENDS Naturals, Sequences

CONSTANT MaxDeaths   \* bound: how often the manager dies under one activity

ASSUME DeathsAssumption == MaxDeaths \in Nat

VARIABLES
  life,        \* of the activity: "none" or "open"
  connection,  \* of its helper: "none", "binding", "connected", "lost" or,
               \* in a handler that is about to unbind it, "unbinding"
  dialogs,     \* the questions of the helper on the screen, the top one last
  answers,     \* the statuses onManagerConnected was called with
  mServiceInstallationProgress, mLibraryInstallationProgress,
  manager,     \* "absent", "old" or "good"
  library,     \* the manager has the library
  installing,  \* what the market is installing
  deaths,      \* history: of the manager, under this activity
  exception    \* history: an uncaught exception has ended the process

flags == <<mServiceInstallationProgress, mLibraryInstallationProgress>>
device == <<manager, library, installing>>
vars == <<life, connection, dialogs, answers, flags, device, deaths, exception>>

Init ==
  /\ life = "none" /\ connection = "none" /\ dialogs = <<>> /\ answers = <<>>
  /\ mServiceInstallationProgress = FALSE /\ mLibraryInstallationProgress = FALSE
  /\ manager \in {"absent", "old", "good"} /\ library \in BOOLEAN
  /\ installing = {} /\ deaths = 0 /\ exception = FALSE

-----------------------------------------------------------------------------
onManagerConnected(status) == answers' = Append(answers, status)

onPackageInstall(query) == dialogs' = Append(dialogs, query)

(* The dialog on top is answered and gone. *)
Top(query) == dialogs # <<>> /\ dialogs[Len(dialogs)] = query
Dismiss == dialogs' = SubSeq(dialogs, 1, Len(dialogs) - 1)

(* Closed by the platform: its dialogs and its connection go with it. *)
Closed ==
  /\ life' = "none" /\ connection' = "none" /\ dialogs' = <<>> /\ answers' = <<>>
  /\ deaths' = 0

(* An exception that nothing catches. *)
Throw ==
  /\ life' = "none" /\ connection' = "none" /\ dialogs' = <<>>
  /\ mServiceInstallationProgress' = FALSE /\ mLibraryInstallationProgress' = FALSE
  /\ exception' = TRUE
  /\ UNCHANGED <<answers, deaths>>

InstallService ==
  onPackageInstall(IF mServiceInstallationProgress THEN "waitManager" ELSE "askManager")

(* onCreate of the activity: initDebug has failed, and initAsync binds the *)
(* manager.                                                                *)
initOpenCV ==
  /\ life = "none" /\ life' = "open"
  /\ answers' = <<>> /\ deaths' = 0 /\ exception' = FALSE
  /\ IF manager # "absent"
     THEN connection' = "binding" /\ UNCHANGED dialogs
     ELSE InstallService /\ UNCHANGED connection
  /\ UNCHANGED <<flags, device>>

-----------------------------------------------------------------------------
(* The connection to the manager. *)

(* A mutant: the library that was waited for is still being waited for. *)
LibraryFoundFlagKept ==
  /\ manager = "good" /\ library
  /\ connection' = "none"
  /\ \E status \in {"SUCCESS", "INIT_FAILED"} : onManagerConnected(status)
  /\ UNCHANGED <<mLibraryInstallationProgress, dialogs>>

(* The path of the library is known; loading it succeeds or not. *)
LibraryFound ==
  /\ manager = "good" /\ library
  /\ mLibraryInstallationProgress' = FALSE
  /\ connection' = "none"
  /\ \E status \in {"SUCCESS", "INIT_FAILED"} : onManagerConnected(status)
  /\ UNCHANGED dialogs

(* A mutant: the dialog is shown after the manager was unbound. *)
LibraryMissingUnbound ==
  /\ manager = "good" /\ ~library
  /\ connection' = "none"
  /\ onPackageInstall(IF mLibraryInstallationProgress THEN "waitLibrary" ELSE "askLibrary")
  /\ UNCHANGED <<mLibraryInstallationProgress, answers>>

LibraryMissing ==
  /\ manager = "good" /\ ~library
  /\ connection' = "connected"
  /\ onPackageInstall(IF mLibraryInstallationProgress THEN "waitLibrary" ELSE "askLibrary")
  /\ UNCHANGED <<mLibraryInstallationProgress, answers>>

(* A mutant: the check of the version does not return. *)
IncompatibleGoesOn ==
  /\ manager = "old"
  /\ connection' = "none"
  /\ answers' = Append(Append(answers, "INCOMPATIBLE_MANAGER_VERSION"), "INIT_FAILED")
  /\ UNCHANGED <<mLibraryInstallationProgress, dialogs>>

(* A mutant: an incompatible manager stays bound. *)
IncompatibleBound ==
  /\ manager = "old"
  /\ connection' = "connected"
  /\ onManagerConnected("INCOMPATIBLE_MANAGER_VERSION")
  /\ UNCHANGED <<mLibraryInstallationProgress, dialogs>>

Incompatible ==
  /\ manager = "old"
  /\ connection' = "none"
  /\ onManagerConnected("INCOMPATIBLE_MANAGER_VERSION")
  /\ UNCHANGED <<mLibraryInstallationProgress, dialogs>>

(* A RemoteException from any of the calls. *)
RemoteFailure ==
  /\ connection' = "none"
  /\ onManagerConnected("INIT_FAILED")
  /\ UNCHANGED <<mLibraryInstallationProgress, dialogs>>

(* Called for a binding, and again when a manager that died is back. *)
onServiceConnected ==
  /\ connection \in {"binding", "lost"} /\ manager # "absent"
  /\ mServiceInstallationProgress' = FALSE
  /\ Incompatible \/ LibraryMissing \/ LibraryFound \/ RemoteFailure
  /\ UNCHANGED <<life, device, deaths, exception>>

onServiceDisconnected ==
  /\ connection = "connected" /\ deaths < MaxDeaths
  /\ connection' = "lost" /\ deaths' = deaths + 1
  /\ UNCHANGED <<life, dialogs, answers, flags, device, exception>>

-----------------------------------------------------------------------------
(* The buttons of the dialogs about the manager. *)

(* "Yes": the market is opened, or cannot be.  Nothing is reported then;   *)
(* the user comes back to the application some time.                       *)
InstallManager ==
  /\ Top("askManager") /\ Dismiss
  /\ \/ /\ mServiceInstallationProgress' = TRUE
        /\ installing' = installing \cup {"manager"} /\ UNCHANGED answers
     \/ /\ onManagerConnected("MARKET_ERROR")
        /\ UNCHANGED <<mServiceInstallationProgress, installing>>
  /\ UNCHANGED <<life, connection, mLibraryInstallationProgress, manager, library,
                 deaths, exception>>

(* "Wait" opens the market again; whether it could is not asked. *)
WaitForManager ==
  /\ Top("waitManager") /\ Dismiss
  /\ installing' \in {installing, installing \cup {"manager"}}
  /\ UNCHANGED <<life, connection, answers, flags, manager, library, deaths, exception>>

(* "No", and "Exit" of the one that waits. *)
CancelManager ==
  /\ Top("askManager") \/ Top("waitManager")
  /\ Dismiss
  /\ mServiceInstallationProgress' = (mServiceInstallationProgress /\ ~Top("waitManager"))
  /\ onManagerConnected("INSTALL_CANCELED")
  /\ UNCHANGED <<life, connection, mLibraryInstallationProgress, device, deaths, exception>>

-----------------------------------------------------------------------------
(* The buttons of the dialogs about the library.  The manager is null      *)
(* while it is lost, and a connection can be unbound only once; neither is *)
(* checked.                                                                *)

LibraryButton ==
  /\ Dismiss /\ connection' = "none"
  /\ UNCHANGED <<life, mServiceInstallationProgress, manager, library, deaths, exception>>

(* "Yes": the manager installs the library, cannot, or does not answer. *)
InstallLibrary ==
  /\ Top("askLibrary")
  /\ IF connection # "connected" THEN Throw /\ UNCHANGED device
     ELSE /\ LibraryButton
          /\ \/ /\ mLibraryInstallationProgress' = TRUE
                /\ installing' = installing \cup {"library"} /\ UNCHANGED answers
             \/ /\ \E status \in {"MARKET_ERROR", "INIT_FAILED"} : onManagerConnected(status)
                /\ UNCHANGED <<installing, mLibraryInstallationProgress>>

(* "Wait" asks the manager again; if it cannot, the activity is told so    *)
(* before the manager is unbound.                                          *)
WaitForLibrary ==
  /\ Top("waitLibrary")
  /\ \/ connection # "connected" /\ Throw /\ UNCHANGED device
     \/ /\ connection = "connected" /\ LibraryButton /\ UNCHANGED mLibraryInstallationProgress
        /\ \/ installing' = installing \cup {"library"} /\ UNCHANGED answers
           \/ onManagerConnected("INIT_FAILED") /\ UNCHANGED installing
     \/ /\ connection = "connected" /\ connection' = "unbinding"
        /\ Dismiss /\ onManagerConnected("MARKET_ERROR")
        /\ UNCHANGED <<life, flags, device, deaths, exception>>

WaitUnbinds ==
  /\ connection = "unbinding" /\ connection' = "none"
  /\ UNCHANGED <<life, dialogs, answers, flags, device, deaths, exception>>

CancelLibrary ==
  /\ Top("askLibrary") \/ Top("waitLibrary")
  /\ IF connection = "none" THEN Throw /\ UNCHANGED device
     ELSE /\ LibraryButton
          /\ mLibraryInstallationProgress' =
               (mLibraryInstallationProgress /\ ~Top("waitLibrary"))
          /\ onManagerConnected("INSTALL_CANCELED")
          /\ UNCHANGED installing

-----------------------------------------------------------------------------
(* The user leaves the activity, or a status has finished it. *)
Close ==
  /\ life = "open" /\ connection # "unbinding" /\ Closed
  /\ UNCHANGED <<flags, device, exception>>

Kill ==
  /\ life = "open" /\ Closed
  /\ mServiceInstallationProgress' = FALSE /\ mLibraryInstallationProgress' = FALSE
  /\ UNCHANGED <<device, exception>>

(* The market, in its own time: an installation succeeds or is given up. *)
Installed ==
  /\ \E package \in installing :
       /\ installing' = installing \ {package}
       /\ \/ UNCHANGED <<manager, library>>
          \/ package = "manager" /\ manager' = "good" /\ UNCHANGED library
          \/ package = "library" /\ library' = TRUE /\ UNCHANGED manager
  /\ UNCHANGED <<life, connection, dialogs, answers, flags, deaths, exception>>

(* A button waits for the handler of another one to end. *)
Button ==
  /\ connection # "unbinding"
  /\ \/ InstallManager \/ WaitForManager \/ CancelManager
     \/ InstallLibrary \/ WaitForLibrary \/ CancelLibrary

Next == \/ initOpenCV \/ onServiceConnected \/ onServiceDisconnected
        \/ Button \/ WaitUnbinds \/ Close \/ Kill \/ Installed

Spec == Init /\ [][Next]_vars

-----------------------------------------------------------------------------
(* Properties. *)

(* No start is answered twice, whatever the version, the library and the   *)
(* buttons: a second SUCCESS would start a second loader.  (When the       *)
(* manager dies under a dialog, the dialog and the new connection both     *)
(* answer.)                                                                *)
OneAnswer == deaths = 0 => Len(answers) <= 1

(* A helper that has answered holds the manager no longer, also if the     *)
(* manager died or more was asked meanwhile: no way to an answer leaves it *)
(* bound.  All of them unbind first but one, wait_install when the market  *)
(* cannot be reached, which still has the manager while it answers.        *)
AnsweredIsUnbound ==
  answers # <<>> =>
    \/ connection = "none"
    \/ connection = "unbinding" /\ answers[Len(answers)] = "MARKET_ERROR"

(* The helper unbinds only what is bound and calls only a manager that is  *)
(* there, as long as the manager does not die under a dialog.              *)
NoException == exception => deaths > 0

(* The static flags outlive the activity and the helper that set them, but *)
(* not the installation they are about: a manager that was reached is not  *)
(* said to be on its way, and neither is a library that was loaded.  (An   *)
(* installation that came to nothing leaves its flag up until the user     *)
(* cancels the dialog that asks him to wait for it.)                       *)
FlagsEndWithInstallation ==
  /\ connection \in {"connected", "lost", "unbinding"} => ~mServiceInstallationProgress
  /\ (\E i \in DOMAIN answers : answers[i] = "SUCCESS") =>
       ~mServiceInstallationProgress /\ ~mLibraryInstallationProgress
=============================================================================
