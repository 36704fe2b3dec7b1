---------------------- MODULE AsyncServiceHelperProofs ----------------------
(***************************************************************************)
(* Proofs about AsyncServiceHelper, however often the manager dies, is     *)
(* bound again or is installed, and in whatever order the buttons are      *)
(* pressed: its four safety invariants, from one inductive invariant.      *)
(***************************************************************************)
EXTENDS AsyncServiceHelper, TLAPS

ManagerQueries == {"askManager", "waitManager"}
LibraryQueries == {"askLibrary", "waitLibrary"}
Queries == ManagerQueries \cup LibraryQueries

Statuses == {"SUCCESS", "INIT_FAILED", "INCOMPATIBLE_MANAGER_VERSION", "MARKET_ERROR",
             "INSTALL_CANCELED"}

TypeOK ==
  /\ life \in {"none", "open"}
  /\ connection \in {"none", "binding", "connected", "lost", "unbinding"}
  /\ dialogs \in Seq(Queries)
  /\ answers \in Seq(Statuses)
  /\ mServiceInstallationProgress \in BOOLEAN
  /\ mLibraryInstallationProgress \in BOOLEAN
  /\ manager \in {"absent", "old", "good"} /\ library \in BOOLEAN
  /\ installing \in SUBSET {"manager", "library"}
  /\ deaths \in Nat
  /\ exception \in BOOLEAN

-----------------------------------------------------------------------------
(* The inductive invariant. *)

(* One of the queries is on the screen, perhaps under others. *)
Shown(queries) == \E i \in 1 .. Len(dialogs) : dialogs[i] \in queries

(* Without an activity there is neither a connection nor a dialog, and     *)
(* only then an exception, which needed a manager that died.               *)
LifeHolds ==
  /\ life = "none" => connection = "none" /\ dialogs = <<>>
  /\ exception => life = "none" /\ deaths > 0

(* A question about the manager is the first and only thing the helper     *)
(* says: there was none to bind.                                           *)
ManagerAskedFirst ==
  Shown(ManagerQueries) =>
    Len(dialogs) = 1 /\ connection = "none" /\ answers = <<>> /\ deaths = 0

(* A connection that is being made is the first one. *)
BindingIsFirst ==
  connection = "binding" => dialogs = <<>> /\ answers = <<>> /\ deaths = 0

(* As long as the manager lives: who is asked about the library holds it,  *)
(* one question at a time, and who has the answer is asked nothing.        *)
NoDeathYet ==
  deaths = 0 =>
    /\ connection # "lost"
    /\ connection = "connected" => Len(dialogs) = 1
    /\ Shown(LibraryQueries) => connection = "connected"
    /\ answers # <<>> => Len(answers) = 1 /\ dialogs = <<>>

IInv ==
  /\ TypeOK
  /\ LifeHolds
  /\ ManagerAskedFirst
  /\ BindingIsFirst
  /\ NoDeathYet
  /\ AnsweredIsUnbound
  /\ FlagsEndWithInstallation

-----------------------------------------------------------------------------
(* Dialogs and answers as sequences. *)

LEMMA AppendLast ==
  ASSUME NEW S, NEW s \in Seq(S), NEW e \in S
  PROVE  /\ Append(s, e) \in Seq(S) /\ Append(s, e) # <<>>
         /\ Len(Append(s, e)) = Len(s) + 1
         /\ Append(s, e)[Len(s) + 1] = e
         /\ \A i \in 1 .. Len(s) : Append(s, e)[i] = s[i]
  OBVIOUS

LEMMA FrontOf ==
  ASSUME NEW S, NEW s \in Seq(S), s # <<>>
  PROVE  /\ Len(s) \in 1 .. Len(s) /\ s[Len(s)] \in S
         /\ SubSeq(s, 1, Len(s) - 1) \in Seq(S)
         /\ Len(SubSeq(s, 1, Len(s) - 1)) = Len(s) - 1
         /\ \A i \in 1 .. Len(s) - 1 : SubSeq(s, 1, Len(s) - 1)[i] = s[i]
         /\ Len(s) = 1 => SubSeq(s, 1, Len(s) - 1) = <<>>
<1>1. Len(s) \in Nat /\ Len(s) >= 1 /\ Len(s) \in 1 .. Len(s)
  OBVIOUS
<1>2. s[Len(s)] \in S
  BY <1>1
<1>3. SubSeq(s, 1, Len(s) - 1) \in Seq(S)
  BY <1>1
<1>4. Len(SubSeq(s, 1, Len(s) - 1)) = Len(s) - 1
  BY <1>1, SMTT(30)
<1>5. \A i \in 1 .. Len(s) - 1 : SubSeq(s, 1, Len(s) - 1)[i] = s[i]
  BY <1>1
<1>6. Len(s) = 1 => SubSeq(s, 1, Len(s) - 1) = <<>>
  BY <1>1, <1>3, <1>4
<1>7. QED
  BY <1>1, <1>2, <1>3, <1>4, <1>5, <1>6

LEMMA InitIInv == Init => IInv
<1> SUFFICES ASSUME Init PROVE IInv
  OBVIOUS
<1>1. TypeOK
  <2>1. dialogs \in Seq(Queries) /\ answers \in Seq(Statuses) /\ deaths \in Nat
    BY DEF Init
  <2>2. /\ life = "none" /\ connection = "none" /\ installing = {}
        /\ manager \in {"absent", "old", "good"}
    BY DEF Init
  <2>3. /\ mServiceInstallationProgress \in BOOLEAN
        /\ mLibraryInstallationProgress \in BOOLEAN
        /\ library \in BOOLEAN /\ exception \in BOOLEAN
    BY Zenon DEF Init
  <2>4. QED
    BY <2>1, <2>2, <2>3 DEF TypeOK
<1>2. ~Shown(ManagerQueries) /\ ~Shown(LibraryQueries)
  BY DEF Init, Shown
<1>3. LifeHolds /\ ManagerAskedFirst /\ BindingIsFirst /\ NoDeathYet
  BY <1>2 DEF Init, LifeHolds, ManagerAskedFirst, BindingIsFirst, NoDeathYet
<1>4. AnsweredIsUnbound /\ FlagsEndWithInstallation
  BY DEF Init, AnsweredIsUnbound, FlagsEndWithInstallation
<1>5. QED
  BY <1>1, <1>3, <1>4 DEF IInv

-----------------------------------------------------------------------------
(* What a step makes of the dialogs. *)

LEMMA ShownAfterQuery ==
  ASSUME TypeOK, NEW query \in Queries, onPackageInstall(query)
  PROVE  /\ dialogs' \in Seq(Queries) /\ Len(dialogs') = Len(dialogs) + 1
         /\ \A queries : Shown(queries)' => Shown(queries) \/ query \in queries
<1>1. dialogs \in Seq(Queries) /\ dialogs' = Append(dialogs, query)
  BY DEF TypeOK, onPackageInstall
<1>2. ASSUME NEW queries, NEW i \in 1 .. Len(dialogs'), dialogs'[i] \in queries
      PROVE  Shown(queries) \/ query \in queries
  <2>1. Len(dialogs) \in Nat /\ Len(dialogs') = Len(dialogs) + 1
    BY <1>1, AppendLast
  <2>2. CASE i = Len(dialogs) + 1
    BY <1>1, <1>2, <2>2, AppendLast
  <2>3. CASE i # Len(dialogs) + 1
    <3>1. i \in 1 .. Len(dialogs)
      BY <2>1, <2>3
    <3>2. dialogs[i] \in queries
      BY <1>1, <1>2, <3>1, AppendLast
    <3>3. QED
      BY <3>1, <3>2 DEF Shown
  <2>4. QED
    BY <2>2, <2>3
<1>3. QED
  BY <1>1, <1>2, AppendLast DEF Shown

LEMMA ShownAfterDismiss ==
  ASSUME TypeOK, dialogs # <<>>, Dismiss
  PROVE  /\ dialogs' \in Seq(Queries) /\ Len(dialogs') = Len(dialogs) - 1
         /\ Len(dialogs) = 1 => dialogs' = <<>>
         /\ \A queries : Shown(queries)' => Shown(queries)
<1>1. dialogs \in Seq(Queries) /\ dialogs' = SubSeq(dialogs, 1, Len(dialogs) - 1)
  BY DEF TypeOK, Dismiss
<1>2. ASSUME NEW queries, NEW i \in 1 .. Len(dialogs'), dialogs'[i] \in queries
      PROVE  Shown(queries)
  <2>1. Len(dialogs) \in Nat /\ Len(dialogs') = Len(dialogs) - 1
    BY <1>1, FrontOf
  <2>2. i \in 1 .. Len(dialogs) - 1 /\ i \in 1 .. Len(dialogs)
    BY <2>1
  <2>3. dialogs[i] \in queries
    BY <1>1, <1>2, <2>2, FrontOf
  <2>4. QED
    BY <2>2, <2>3 DEF Shown
<1>3. QED
  BY <1>1, <1>2, FrontOf DEF Shown

LEMMA TopIsShown ==
  ASSUME TypeOK, NEW queries, NEW query \in queries, Top(query)
  PROVE  dialogs # <<>> /\ Shown(queries)
  BY FrontOf DEF TypeOK, Top, Shown

(* An answer is one more answer. *)
LEMMA AnswersAfter ==
  ASSUME TypeOK, NEW status \in Statuses, onManagerConnected(status)
  PROVE  /\ answers' \in Seq(Statuses) /\ answers' # <<>>
         /\ answers = <<>> => Len(answers') = 1
         /\ answers'[Len(answers')] = status
         /\ answers = <<>> /\ status # "SUCCESS"
              => ~\E i \in DOMAIN answers' : answers'[i] = "SUCCESS"
<1>1. answers \in Seq(Statuses) /\ answers' = Append(answers, status)
  BY DEF TypeOK, onManagerConnected
<1>2. answers = <<>> => DOMAIN answers' = {1} /\ answers'[1] = status /\ Len(answers') = 1
  BY <1>1
<1>3. QED
  BY <1>1, <1>2, AppendLast

(* What a button of a library dialog does that does not throw.             *)
LibraryStep ==
  /\ Dismiss /\ connection # "none"
  /\ \/ connection' = "none"
     \/ connection' = "unbinding" /\ connection = "connected"
        /\ onManagerConnected("MARKET_ERROR")
  /\ \/ answers' = answers
     \/ \E status \in Statuses \ {"SUCCESS"} : onManagerConnected(status)
  /\ \/ mLibraryInstallationProgress' = TRUE
     \/ mLibraryInstallationProgress' = FALSE
     \/ UNCHANGED mLibraryInstallationProgress
  /\ installing' \in {installing, installing \cup {"library"}}
  /\ UNCHANGED <<life, mServiceInstallationProgress, manager, library, deaths, exception>>

LEMMA LibraryButtonDoes ==
  ASSUME InstallLibrary \/ WaitForLibrary \/ CancelLibrary
  PROVE  \/ Throw /\ UNCHANGED device /\ connection # "connected"
         \/ LibraryStep
<1> USE DEF LibraryButton, LibraryStep, Statuses
<1>1. CASE InstallLibrary
  BY <1>1 DEF InstallLibrary
<1>2. CASE WaitForLibrary
  BY <1>2 DEF WaitForLibrary, flags, device
<1>3. CASE CancelLibrary
  BY <1>3 DEF CancelLibrary
<1>4. QED
  BY <1>1, <1>2, <1>3

LEMMA IInvStep == IInv /\ [Next]_vars => IInv'
<1> SUFFICES ASSUME IInv, [Next]_vars PROVE IInv'
  OBVIOUS
<1> USE DEF flags, device
<1>t. TypeOK
  BY DEF IInv
<1>1. CASE initOpenCV
  <2>1. /\ connection = "none" /\ dialogs = <<>> /\ answers' = <<>> /\ deaths' = 0
        /\ life' = "open" /\ exception' = FALSE
        /\ UNCHANGED <<flags, device>>
    BY <1>1 DEF initOpenCV, IInv, LifeHolds
  <2>5. /\ answers' \in Seq(Statuses) /\ dialogs \in Seq(Queries)
        /\ deaths' \in Nat /\ exception' \in BOOLEAN
        /\ life' \in {"none", "open"}
    <3>1. exception' \in BOOLEAN
      BY <2>1, Zenon
    <3>2. answers' \in Seq(Statuses)
      BY <2>1
    <3>3. dialogs \in Seq(Queries)
      BY <1>t DEF TypeOK
    <3>4. QED
      BY <2>1, <3>1, <3>2, <3>3
  <2>2. CASE manager # "absent"
    <3>1. connection' = "binding" /\ dialogs' = <<>>
      BY <1>1, <2>1, <2>2 DEF initOpenCV
    <3>2. ~Shown(ManagerQueries)' /\ ~Shown(LibraryQueries)'
      BY <3>1 DEF Shown
    <3>3. TypeOK'
      BY <1>t, <2>1, <2>5, <3>1 DEF TypeOK
    <3>4. QED
      BY <2>1, <3>1, <3>2, <3>3
      DEF IInv, LifeHolds, ManagerAskedFirst, BindingIsFirst, NoDeathYet,
          AnsweredIsUnbound, FlagsEndWithInstallation
  <2>3. CASE manager = "absent"
    <3>1. PICK query \in ManagerQueries : onPackageInstall(query)
      BY <1>1, <2>3 DEF initOpenCV, InstallService, ManagerQueries
    <3>2. connection' = "none"
      BY <1>1, <2>1, <2>3 DEF initOpenCV
    <3>3. /\ dialogs' \in Seq(Queries) /\ Len(dialogs') = 1
          /\ ~Shown(LibraryQueries)'
      <4>1. query \in Queries /\ query \notin LibraryQueries
        BY DEF Queries, ManagerQueries, LibraryQueries
      <4>2. ~Shown(LibraryQueries) /\ Len(dialogs) = 0
        BY <2>1 DEF Shown
      <4>3. QED
        BY <1>t, <3>1, <4>1, <4>2, ShownAfterQuery
    <3>4. TypeOK'
      BY <1>t, <2>1, <2>5, <3>2, <3>3 DEF TypeOK
    <3>5. QED
      BY <2>1, <3>2, <3>3, <3>4
      DEF IInv, LifeHolds, ManagerAskedFirst, BindingIsFirst, NoDeathYet,
          AnsweredIsUnbound, FlagsEndWithInstallation
  <2>6. QED
    BY <2>2, <2>3
<1>2. CASE onServiceConnected
  <2>1. /\ connection \in {"binding", "lost"} /\ mServiceInstallationProgress' = FALSE
        /\ UNCHANGED <<life, device, deaths, exception>>
    BY <1>2 DEF onServiceConnected
  <2>2. /\ answers = <<>> /\ ~Shown(ManagerQueries)
        /\ deaths = 0 => dialogs = <<>>
        /\ life = "open" /\ ~exception
    BY <1>t, <2>1 DEF IInv, TypeOK, AnsweredIsUnbound, ManagerAskedFirst, BindingIsFirst,
                      NoDeathYet, LifeHolds
  <2>3. CASE LibraryMissing
    <3>1. PICK query \in LibraryQueries : onPackageInstall(query)
      BY <2>3 DEF LibraryMissing, LibraryQueries
    <3>2. /\ connection' = "connected" /\ answers' = answers
          /\ mLibraryInstallationProgress' = mLibraryInstallationProgress
      BY <2>3 DEF LibraryMissing
    <3>3. /\ dialogs' \in Seq(Queries) /\ ~Shown(ManagerQueries)'
          /\ deaths = 0 => Len(dialogs') = 1
      <4>1. query \in Queries /\ query \notin ManagerQueries
        BY DEF Queries, ManagerQueries, LibraryQueries
      <4>2. dialogs' \in Seq(Queries) /\ Len(dialogs') = Len(dialogs) + 1
        BY <1>t, <3>1, <4>1, ShownAfterQuery
      <4>3. ~Shown(ManagerQueries)'
        BY <1>t, <2>2, <3>1, <4>1, ShownAfterQuery
      <4>4. Len(<<>>) = 0
        OBVIOUS
      <4>5. QED
        BY <2>2, <4>2, <4>3, <4>4
    <3>4. TypeOK'
      BY <1>t, <2>1, <3>2, <3>3 DEF TypeOK
    <3>5. QED
      BY <2>1, <2>2, <3>2, <3>3, <3>4
      DEF IInv, LifeHolds, ManagerAskedFirst, BindingIsFirst, NoDeathYet,
          AnsweredIsUnbound, FlagsEndWithInstallation
  <2>4. CASE Incompatible \/ LibraryFound \/ RemoteFailure
    <3>1. PICK status \in Statuses :
            /\ onManagerConnected(status)
            /\ status = "SUCCESS" => mLibraryInstallationProgress' = FALSE
      BY <2>4 DEF Incompatible, LibraryFound, RemoteFailure, Statuses
    <3>2. /\ connection' = "none" /\ dialogs' = dialogs
          /\ mLibraryInstallationProgress' \in {mLibraryInstallationProgress, FALSE}
      BY <2>4 DEF Incompatible, LibraryFound, RemoteFailure
    <3>3. /\ answers' \in Seq(Statuses) /\ answers' # <<>> /\ Len(answers') = 1
          /\ status # "SUCCESS" => ~\E i \in DOMAIN answers' : answers'[i] = "SUCCESS"
      BY <1>t, <2>2, <3>1, AnswersAfter
    <3>4. /\ Shown(ManagerQueries)' = Shown(ManagerQueries)
          /\ Shown(LibraryQueries)' = Shown(LibraryQueries)
      BY <3>2 DEF Shown
    <3>5. deaths = 0 => ~Shown(LibraryQueries)
      BY <2>2 DEF Shown
    <3>6. mLibraryInstallationProgress' \in BOOLEAN
      BY <1>t, <3>2, Zenon DEF TypeOK
    <3>7. TypeOK'
      BY <1>t, <2>1, <3>2, <3>3, <3>6 DEF TypeOK
    <3>8. QED
      BY <2>1, <2>2, <3>1, <3>2, <3>3, <3>4, <3>5, <3>7
      DEF IInv, LifeHolds, ManagerAskedFirst, BindingIsFirst, NoDeathYet,
          AnsweredIsUnbound, FlagsEndWithInstallation
  <2>5. QED
    BY <1>2, <2>3, <2>4 DEF onServiceConnected
<1>3. CASE onServiceDisconnected
  <2>1. /\ connection = "connected" /\ connection' = "lost" /\ deaths' = deaths + 1
        /\ UNCHANGED <<life, dialogs, answers, flags, device, exception>>
    BY <1>3 DEF onServiceDisconnected
  <2>2. /\ answers = <<>> /\ ~Shown(ManagerQueries) /\ life = "open" /\ ~exception
        /\ deaths' \in Nat /\ deaths' > 0
    BY <1>t, <2>1 DEF IInv, TypeOK, AnsweredIsUnbound, ManagerAskedFirst, LifeHolds
  <2>3. ~Shown(ManagerQueries)'
    BY <2>1, <2>2 DEF Shown
  <2>4. TypeOK'
    BY <1>t, <2>1, <2>2 DEF TypeOK
  <2>5. QED
    BY <2>1, <2>2, <2>3, <2>4
    DEF IInv, LifeHolds, ManagerAskedFirst, BindingIsFirst, NoDeathYet,
        AnsweredIsUnbound, FlagsEndWithInstallation
<1>4. CASE InstallManager \/ WaitForManager \/ CancelManager
  <2>1. /\ Top("askManager") \/ Top("waitManager")
        /\ Dismiss
        /\ UNCHANGED <<life, connection, mLibraryInstallationProgress, manager, library,
                       deaths, exception>>
    BY <1>4 DEF InstallManager, WaitForManager, CancelManager
  <2>2. dialogs # <<>> /\ Shown(ManagerQueries)
    BY <1>t, <2>1, TopIsShown DEF ManagerQueries
  <2>3. /\ Len(dialogs) = 1 /\ connection = "none" /\ answers = <<>> /\ deaths = 0
        /\ ~exception /\ life = "open"
    BY <1>t, <2>2 DEF IInv, TypeOK, ManagerAskedFirst, LifeHolds
  <2>4. dialogs' = <<>> /\ dialogs' \in Seq(Queries)
    BY <1>t, <2>1, <2>2, <2>3, ShownAfterDismiss
  <2>5. ~Shown(ManagerQueries)' /\ ~Shown(LibraryQueries)'
    BY <2>4 DEF Shown
  <2>6. \/ answers' = answers
        \/ \E status \in Statuses \ {"SUCCESS"} : onManagerConnected(status)
    BY <1>4 DEF InstallManager, WaitForManager, CancelManager, Statuses
  <2>7. /\ answers' \in Seq(Statuses)
        /\ answers' = <<>> \/ Len(answers') = 1
        /\ ~\E i \in DOMAIN answers' : answers'[i] = "SUCCESS"
    <3>1. CASE answers' = answers
      BY <1>t, <2>3, <3>1 DEF TypeOK
    <3>2. CASE \E status \in Statuses \ {"SUCCESS"} : onManagerConnected(status)
      BY <1>t, <2>3, <3>2, AnswersAfter
    <3>3. QED
      BY <2>6, <3>1, <3>2
  <2>8. mServiceInstallationProgress' \in BOOLEAN
    BY <1>4, <1>t, Zenon DEF InstallManager, WaitForManager, CancelManager, TypeOK
  <2>9. installing' \in SUBSET {"manager", "library"}
    BY <1>4, <1>t DEF InstallManager, WaitForManager, CancelManager, TypeOK
  <2>10. TypeOK'
    BY <1>t, <2>1, <2>4, <2>7, <2>8, <2>9 DEF TypeOK
  <2>11. QED
    BY <2>1, <2>3, <2>4, <2>5, <2>7, <2>10
    DEF IInv, LifeHolds, ManagerAskedFirst, BindingIsFirst, NoDeathYet,
        AnsweredIsUnbound, FlagsEndWithInstallation
<1>5. ASSUME Throw, Shown(LibraryQueries), connection # "connected", UNCHANGED device
      PROVE  IInv'
  <2>1. /\ life' = "none" /\ connection' = "none" /\ dialogs' = <<>>
        /\ mServiceInstallationProgress' = FALSE /\ mLibraryInstallationProgress' = FALSE
        /\ exception' = TRUE /\ UNCHANGED <<answers, deaths, device>>
    BY <1>5 DEF Throw
  <2>2. deaths > 0
    BY <1>5, <1>t DEF IInv, NoDeathYet, TypeOK
  <2>3. ~Shown(ManagerQueries)' /\ ~Shown(LibraryQueries)'
    BY <2>1 DEF Shown
  <2>4. dialogs' \in Seq(Queries)
    BY <2>1
  <2>5. /\ mServiceInstallationProgress' \in BOOLEAN
        /\ mLibraryInstallationProgress' \in BOOLEAN /\ exception' \in BOOLEAN
    BY <2>1, Zenon
  <2>6. TypeOK'
    BY <1>t, <2>1, <2>4, <2>5 DEF TypeOK
  <2>7. QED
    BY <2>1, <2>2, <2>3, <2>6
    DEF IInv, LifeHolds, ManagerAskedFirst, BindingIsFirst, NoDeathYet,
        AnsweredIsUnbound, FlagsEndWithInstallation
<1>6. CASE (InstallLibrary \/ WaitForLibrary \/ CancelLibrary) /\ connection # "unbinding"
  <2>1. Top("askLibrary") \/ Top("waitLibrary")
    BY <1>6 DEF InstallLibrary, WaitForLibrary, CancelLibrary
  <2>2. dialogs # <<>> /\ Shown(LibraryQueries)
    BY <1>t, <2>1, TopIsShown DEF LibraryQueries
  <2>3. CASE Throw /\ UNCHANGED device /\ connection # "connected"
    BY <1>5, <2>2, <2>3
  <2>4. CASE LibraryStep
    <3>1. /\ Dismiss /\ connection # "none"
          /\ \/ connection' = "none"
             \/ connection' = "unbinding" /\ onManagerConnected("MARKET_ERROR")
          /\ UNCHANGED <<life, mServiceInstallationProgress, manager, library, deaths,
                         exception>>
      BY <2>4 DEF LibraryStep
    <3>2. connection # "unbinding"
      BY <1>6
    <3>3. /\ answers = <<>> /\ life = "open" /\ ~exception /\ ~Shown(ManagerQueries)
          /\ deaths = 0 => Len(dialogs) = 1
      BY <2>2, <3>1, <3>2 DEF IInv, TypeOK, AnsweredIsUnbound, LifeHolds, ManagerAskedFirst,
                               NoDeathYet
    <3>4. ~mServiceInstallationProgress \/ connection' = "none"
      BY <2>4 DEF LibraryStep, IInv, FlagsEndWithInstallation
    <3>5. /\ dialogs' \in Seq(Queries) /\ ~Shown(ManagerQueries)'
          /\ deaths = 0 => dialogs' = <<>>
      BY <1>t, <2>2, <3>1, <3>3, ShownAfterDismiss
    <3>6. deaths = 0 => ~Shown(LibraryQueries)'
      BY <3>5 DEF Shown
    <3>7. \/ answers' = answers
          \/ \E status \in Statuses \ {"SUCCESS"} : onManagerConnected(status)
      BY <2>4 DEF LibraryStep
    <3>8. /\ answers' \in Seq(Statuses)
          /\ answers' = <<>> \/ Len(answers') = 1
          /\ ~\E i \in DOMAIN answers' : answers'[i] = "SUCCESS"
      <4>1. CASE answers' = answers
        BY <1>t, <3>3, <4>1 DEF TypeOK
      <4>2. CASE \E status \in Statuses \ {"SUCCESS"} : onManagerConnected(status)
        BY <1>t, <3>3, <4>2, AnswersAfter
      <4>3. QED
        BY <3>7, <4>1, <4>2
    <3>9. mLibraryInstallationProgress' \in BOOLEAN
      BY <2>4, <1>t, Zenon DEF LibraryStep, TypeOK
    <3>10. installing' \in SUBSET {"manager", "library"}
      BY <2>4, <1>t DEF LibraryStep, TypeOK
    <3>11. TypeOK'
      BY <1>t, <3>1, <3>5, <3>8, <3>9, <3>10 DEF TypeOK
    <3>12. AnsweredIsUnbound'
      <4>1. "MARKET_ERROR" \in Statuses
        BY DEF Statuses
      <4>2. QED
        BY <1>t, <3>1, <4>1, AnswersAfter DEF AnsweredIsUnbound
    <3>13. QED
      BY <3>1, <3>3, <3>5, <3>6, <3>8, <3>11, <3>12, <3>4
      DEF IInv, LifeHolds, ManagerAskedFirst, BindingIsFirst, NoDeathYet,
          FlagsEndWithInstallation
  <2>5. QED
    BY <1>6, <2>3, <2>4, LibraryButtonDoes
<1>7. CASE WaitUnbinds
  <2>1. /\ connection = "unbinding" /\ connection' = "none"
        /\ UNCHANGED <<life, dialogs, answers, flags, device, deaths, exception>>
    BY <1>7 DEF WaitUnbinds
  <2>2. /\ Shown(ManagerQueries)' = Shown(ManagerQueries)
        /\ Shown(LibraryQueries)' = Shown(LibraryQueries)
    BY <2>1 DEF Shown
  <2>3. TypeOK'
    BY <1>t, <2>1 DEF TypeOK
  <2>4. QED
    BY <2>1, <2>2, <2>3
    DEF IInv, LifeHolds, ManagerAskedFirst, BindingIsFirst, NoDeathYet,
        AnsweredIsUnbound, FlagsEndWithInstallation
<1>8. CASE Close \/ Kill
  <2>1. /\ life' = "none" /\ connection' = "none" /\ dialogs' = <<>> /\ answers' = <<>>
        /\ deaths' = 0 /\ UNCHANGED <<device, exception>> /\ ~exception
    BY <1>8 DEF Close, Kill, Closed, IInv, LifeHolds
  <2>2. ~Shown(ManagerQueries)' /\ ~Shown(LibraryQueries)'
    BY <2>1 DEF Shown
  <2>3. dialogs' \in Seq(Queries) /\ answers' \in Seq(Statuses) /\ deaths' \in Nat
    BY <2>1
  <2>4. /\ mServiceInstallationProgress' \in BOOLEAN
        /\ mLibraryInstallationProgress' \in BOOLEAN
    BY <1>8, <1>t, Zenon DEF Close, Kill, TypeOK
  <2>5. TypeOK'
    BY <1>t, <2>1, <2>3, <2>4 DEF TypeOK
  <2>6. QED
    BY <2>1, <2>2, <2>5
    DEF IInv, LifeHolds, ManagerAskedFirst, BindingIsFirst, NoDeathYet,
        AnsweredIsUnbound, FlagsEndWithInstallation
<1>9. CASE Installed \/ UNCHANGED vars
  <2>1. UNCHANGED <<life, connection, dialogs, answers, flags, deaths, exception>>
    BY <1>9 DEF Installed, vars
  <2>2. /\ Shown(ManagerQueries)' = Shown(ManagerQueries)
        /\ Shown(LibraryQueries)' = Shown(LibraryQueries)
    BY <2>1 DEF Shown
  <2>3. /\ manager' \in {"absent", "old", "good"}
        /\ installing' \in SUBSET {"manager", "library"}
    BY <1>9, <1>t DEF Installed, vars, TypeOK
  <2>4. library' \in BOOLEAN
    BY <1>9, <1>t, Zenon DEF Installed, vars, TypeOK
  <2>5. TypeOK'
    BY <1>t, <2>1, <2>3, <2>4 DEF TypeOK
  <2>6. QED
    BY <2>1, <2>2, <2>5
    DEF IInv, LifeHolds, ManagerAskedFirst, BindingIsFirst, NoDeathYet,
        AnsweredIsUnbound, FlagsEndWithInstallation
<1>10. QED
  BY <1>1, <1>2, <1>3, <1>4, <1>6, <1>8, <1>9, <1>7 DEF Next, Button

LEMMA Invariance == Spec => []IInv
  BY InitIInv, IInvStep, PTL DEF Spec

(* The values the helper, its dialogs and the device take. *)
THEOREM TypeCorrect == Spec => []TypeOK
<1>1. IInv => TypeOK
  BY DEF IInv
<1>2. QED
  BY <1>1, Invariance, PTL

-----------------------------------------------------------------------------
(* Safety. *)

(* Unless the manager dies under a dialog, a start has one answer at most. *)
THEOREM AnsweredOnce == Spec => []OneAnswer
<1>1. IInv => OneAnswer
  <2> SUFFICES ASSUME IInv, deaths = 0 PROVE Len(answers) <= 1
    BY DEF OneAnswer
  <2>1. answers = <<>> \/ Len(answers) = 1
    BY DEF IInv, NoDeathYet
  <2>2. Len(answers) \in {0, 1}
    BY <2>1
  <2>3. \A n \in {0, 1} : n <= 1
    OBVIOUS
  <2>4. QED
    BY <2>2, <2>3
<1>2. QED
  BY <1>1, Invariance, PTL

(* Who has been answered holds the manager no longer, whatever was asked,  *)
(* died or failed on the way; only wait_install reports the market's error *)
(* with the manager still bound, in the handler that unbinds it.           *)
THEOREM AnswersComeUnbound == Spec => []AnsweredIsUnbound
<1>1. IInv => AnsweredIsUnbound
  BY DEF IInv
<1>2. QED
  BY <1>1, Invariance, PTL

(* The unchecked uses of the connection by the buttons throw only after a  *)
(* death of the manager.                                                   *)
THEOREM ThrowsOnlyAfterDeath == Spec => []NoException
<1>1. IInv => NoException
  BY DEF IInv, LifeHolds, NoException
<1>2. QED
  BY <1>1, Invariance, PTL

(* The static flags are down when what they announce has arrived.          *)
THEOREM FlagsComeDown == Spec => []FlagsEndWithInstallation
<1>1. IInv => FlagsEndWithInstallation
  BY DEF IInv
<1>2. QED
  BY <1>1, Invariance, PTL
=============================================================================
