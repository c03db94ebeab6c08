---------------------------- MODULE SessionHost ----------------------------
(***************************************************************************)
(* ATCHostViewController with what decides who is signed in: the persisted *)
(* user (ATCPersistentStore), the launch decision of viewDidLoad, Face ID, *)
(* the resync of the persisted user (ATCFirebaseLoginManager), the login   *)
(* and sign-up requests of the onboarding screens, the logout notification *)
(* and the location updates started by every login.                        *)
(*                                                                         *)
(* All callbacks run on the main thread, so a handler is one step; what    *)
(* interleaves is the moment at which a request is answered with what the  *)
(* person does meanwhile.  A kill of the process drops every request.      *)
(***************************************************************************)
EXTENDS Naturals, FiniteSets

CONSTANTS
    Users,              \* user ids
    NoUser,             \* the nil user
    FaceIDUsers,        \* users whose settings hold face_id_enabled = true
    AppleUsers,         \* users whose uid equals their e-mail
    HasProfileUpdater,  \* whether the host was given a profile updater
    HasLocationUsage,   \* whether Info.plist describes the use of the location
    DeviceHasBiometry,  \* LAContext.canEvaluatePolicy
    MaxRequests         \* bound: login requests in flight per stage and user

ASSUME NoUserAssumption == NoUser \notin Users
ASSUME UserKindsAssumption == FaceIDUsers \subseteq Users /\ AppleUsers \subseteq Users
ASSUME HostAssumption ==
    /\ HasProfileUpdater \in BOOLEAN
    /\ HasLocationUsage \in BOOLEAN
    /\ DeviceHasBiometry \in BOOLEAN

VARIABLES
    persisted,          \* UserDefaults: the archived user
    walkthroughDone,    \* UserDefaults: kWalkthroughCompletedKey
    accounts,           \* users that have a document in the users collection
    appState,           \* "closed", "running" or "trapped" (a fatalError)
    views,              \* child screens in the host's view
    boot,               \* what the launch of a persisted user waits for
    wired,              \* the onboarding coordinator's delegate is the host
    hostUser,           \* ATCHostViewController.user
    syncedUser,         \* user of the data source provider and profile screen
    requests,           \* login requests in flight, by stage and user
    locationManager,    \* a location manager exists and reports to the host
    locationUpdatesEnabled,
    updateInProgress,   \* ATCProfileFirebaseUpdater.updateInProgress
    pendingUpdates      \* location writes in flight, by the user they captured

storeVars == <<persisted, walkthroughDone>>
screenVars == <<views, boot, wired>>
userVars == <<hostUser, syncedUser>>
locationVars == <<locationManager, locationUpdatesEnabled, updateInProgress, pendingUpdates>>
vars == <<storeVars, accounts, appState, screenVars, userVars, requests, locationVars>>

Screens == {"walkthrough", "onboarding", "main"}
Stages == {"signIn", "fetch", "enroll"}
BootPhases == {"idle", "prompt", "resync"}
Idle == [phase |-> "idle", user |-> NoUser]
NoRequests == [r \in Stages \X Users |-> 0]
NoUpdates == [u \in Users |-> 0]

TypeOK ==
    /\ persisted \in Users \cup {NoUser}
    /\ walkthroughDone \in BOOLEAN
    /\ accounts \in SUBSET Users
    /\ appState \in {"closed", "running", "trapped"}
    /\ views \in SUBSET Screens
    /\ boot \in [phase : BootPhases, user : Users \cup {NoUser}]
    /\ wired \in BOOLEAN
    /\ hostUser \in Users \cup {NoUser}
    /\ syncedUser \in Users \cup {NoUser}
    /\ requests \in [Stages \X Users -> Nat]
    /\ locationManager \in BOOLEAN
    /\ locationUpdatesEnabled \in BOOLEAN
    /\ updateInProgress \in BOOLEAN
    /\ pendingUpdates \in [Users -> Nat]

Running == appState = "running"

\* The app is installed and was never opened.
Init ==
    /\ persisted = NoUser
    /\ walkthroughDone = FALSE
    /\ accounts \in SUBSET Users
    /\ appState = "closed"
    /\ views = {}
    /\ boot = Idle
    /\ wired = FALSE
    /\ hostUser = NoUser
    /\ syncedUser = NoUser
    /\ requests = NoRequests
    /\ locationManager = FALSE
    /\ locationUpdatesEnabled = TRUE
    /\ updateInProgress = FALSE
    /\ pendingUpdates = NoUpdates

-----------------------------------------------------------------------------
(* The host's helpers: each says what it does to the variables it touches. *)

\* Mutant of PresentLoggedIn: the onboarding screen is left underneath.
PresentLoggedIn_KeepsOnboarding == views' = views \cup {"main"}

\* presentLoggedInViewControllers: the onboarding leaves, the tab bar enters.
PresentLoggedIn == views' = (views \ {"onboarding"}) \cup {"main"}

\* Mutant of DidFetchUser: markUserAsLoggedIn is forgotten.
DidFetchUser_NotPersisted(u) ==
    IF wired
    THEN /\ hostUser' = u
         /\ PresentLoggedIn
         /\ syncedUser' = u
         /\ locationManager' = (locationUpdatesEnabled \/ locationManager)
         /\ UNCHANGED persisted
    ELSE UNCHANGED <<hostUser, views, persisted, syncedUser, locationManager>>

\* didFetchUser, reached only through the coordinator's delegate.
DidFetchUser(u) ==
    IF wired
    THEN /\ hostUser' = u
         /\ PresentLoggedIn
         /\ persisted' = u
         /\ syncedUser' = u
         /\ locationManager' = (locationUpdatesEnabled \/ locationManager)
    ELSE UNCHANGED <<hostUser, views, persisted, syncedUser, locationManager>>

\* Mutant of DidRequestLogout: the coordinator is never asked to report.
DidRequestLogout_Unwired ==
    /\ persisted' = NoUser
    /\ views' = (views \ {"main"}) \cup {"onboarding"}
    /\ UNCHANGED wired

\* didRequestLogout: the store forgets the user, the host's own user stays.
DidRequestLogout ==
    /\ persisted' = NoUser
    /\ views' = (views \ {"main"}) \cup {"onboarding"}
    /\ wired' = TRUE

-----------------------------------------------------------------------------
(* Launch: viewDidLoad of the host.                                        *)

\* Mutant of LaunchWithFaceID: the setting is read and not obeyed.
LaunchWithFaceID_NoPrompt ==
    /\ persisted \in FaceIDUsers
    /\ boot' = [phase |-> "resync", user |-> persisted]
    /\ wired' = TRUE
    /\ UNCHANGED views

\* face_id_enabled: biometrics first; without hardware nothing is started.
LaunchWithFaceID ==
    /\ persisted \in FaceIDUsers
    /\ boot' = IF DeviceHasBiometry THEN [phase |-> "prompt", user |-> persisted] ELSE Idle
    /\ UNCHANGED <<views, wired>>

LaunchResync ==
    /\ persisted \in Users \ FaceIDUsers
    /\ boot' = [phase |-> "resync", user |-> persisted]
    /\ wired' = TRUE
    /\ UNCHANGED views

LaunchWalkthrough ==
    /\ persisted = NoUser
    /\ ~walkthroughDone
    /\ views' = {"walkthrough"}
    /\ UNCHANGED <<boot, wired>>

\* Mutant of LaunchOnboarding: the walkthrough flag is not consulted.
LaunchOnboarding_SkipsWalkthrough ==
    /\ persisted = NoUser
    /\ views' = {"onboarding"}
    /\ wired' = TRUE
    /\ UNCHANGED boot

LaunchOnboarding ==
    /\ persisted = NoUser
    /\ walkthroughDone
    /\ views' = {"onboarding"}
    /\ wired' = TRUE
    /\ UNCHANGED boot

Launch ==
    /\ appState = "closed"
    /\ appState' = "running"
    /\ LaunchWithFaceID \/ LaunchResync \/ LaunchWalkthrough \/ LaunchOnboarding
    /\ UNCHANGED <<storeVars, accounts, userVars, requests, locationVars>>

\* biometricauthentication's reply.
PromptAnswered(success) ==
    /\ Running
    /\ boot.phase = "prompt"
    /\ wired' = TRUE
    /\ IF success
       THEN boot' = [boot EXCEPT !.phase = "resync"] /\ UNCHANGED views
       ELSE boot' = Idle /\ views' = views \cup {"onboarding"}
    /\ UNCHANGED <<storeVars, accounts, appState, userVars, requests, locationVars>>

\* resyncPersistentUser: the document was found.
ResyncFound ==
    /\ Running
    /\ boot.phase = "resync"
    /\ boot.user \in accounts
    /\ boot' = Idle
    /\ DidFetchUser(boot.user)
    /\ UNCHANGED <<walkthroughDone, accounts, appState, wired, requests,
                   locationUpdatesEnabled, updateInProgress, pendingUpdates>>

\* Mutant of ResyncNil: the nil answer is dropped for every user.
ResyncNil_Ignored(failed) ==
    /\ Running
    /\ boot.phase = "resync"
    /\ failed \/ boot.user \notin accounts
    /\ boot' = Idle
    /\ UNCHANGED <<storeVars, accounts, appState, views, wired, userVars, requests, locationVars>>

\* resyncPersistentUser: nil, which fetchUser answers for a missing document
\* and for a failed query alike.  failed tells which of the two it was.
ResyncNil(failed) ==
    /\ Running
    /\ boot.phase = "resync"
    /\ failed \/ boot.user \notin accounts
    /\ boot' = Idle
    /\ IF boot.user \in AppleUsers
       THEN DidFetchUser(boot.user) /\ UNCHANGED wired
       ELSE DidRequestLogout /\ UNCHANGED <<userVars, locationManager>>
    /\ UNCHANGED <<walkthroughDone, accounts, appState, requests,
                   locationUpdatesEnabled, updateInProgress, pendingUpdates>>

\* Mutant of WalkthroughFinished: the coordinator's delegate is not set.
WalkthroughFinished_Unwired ==
    /\ Running
    /\ "walkthrough" \in views
    /\ walkthroughDone' = TRUE
    /\ views' = (views \ {"walkthrough"}) \cup {"onboarding"}
    /\ UNCHANGED <<persisted, accounts, appState, boot, wired, userVars, requests, locationVars>>

\* walkthroughViewControllerDidFinishFlow.
WalkthroughFinished ==
    /\ Running
    /\ "walkthrough" \in views
    /\ walkthroughDone' = TRUE
    /\ wired' = TRUE
    /\ views' = (views \ {"walkthrough"}) \cup {"onboarding"}
    /\ UNCHANGED <<persisted, accounts, appState, boot, userVars, requests, locationVars>>

-----------------------------------------------------------------------------
(* Login: didTapLoginButton asks the auth service and then Firestore; the  *)
(* Facebook and sign-up paths ask the auth service only and save the user. *)
(* The progress view does not cover the screen, so taps may overlap.       *)

Issue(stage, u) == requests' = [requests EXCEPT ![<<stage, u>>] = @ + 1]
Drop(stage, u) == requests' = [requests EXCEPT ![<<stage, u>>] = @ - 1]
InFlight(stage, u) == Running /\ requests[<<stage, u>>] > 0

TapLogin(stage, u) ==
    /\ Running
    /\ "onboarding" \in views
    /\ stage \in {"signIn", "enroll"}
    /\ requests[<<stage, u>>] < MaxRequests
    /\ Issue(stage, u)
    /\ UNCHANGED <<storeVars, accounts, appState, screenVars, userVars, locationVars>>

\* The credentials were accepted: the profile document is fetched next.  The
\* Apple path first runs saveUserToServerIfNeeded, so the document may exist.
SignInAccepted(u) ==
    /\ InFlight("signIn", u)
    /\ requests[<<"fetch", u>>] < MaxRequests
    /\ requests' = [requests EXCEPT ![<<"signIn", u>>] = @ - 1, ![<<"fetch", u>>] = @ + 1]
    /\ accounts' \in {accounts, accounts \cup {u}}
    /\ UNCHANGED <<storeVars, appState, screenVars, userVars, locationVars>>

\* Mutant of RequestFailed: a failure is reported that nobody waits for.
RequestFailed_Unasked(stage, u) ==
    /\ Running
    /\ Drop(stage, u)
    /\ UNCHANGED <<storeVars, accounts, appState, screenVars, userVars, locationVars>>

\* Any stage may fail; an alert is shown and nothing else changes.
RequestFailed(stage, u) ==
    /\ InFlight(stage, u)
    /\ Drop(stage, u)
    /\ UNCHANGED <<storeVars, accounts, appState, screenVars, userVars, locationVars>>

\* The document, or without one the user the auth service returned.
LoginFetched(u) ==
    /\ InFlight("fetch", u)
    /\ Drop("fetch", u)
    /\ DidFetchUser(u)
    /\ UNCHANGED <<walkthroughDone, accounts, appState, boot, wired,
                   locationUpdatesEnabled, updateInProgress, pendingUpdates>>

\* Sign-up or Facebook: saveUserToServerIfNeeded, then the session.
Enrolled(u) ==
    /\ InFlight("enroll", u)
    /\ Drop("enroll", u)
    /\ accounts' = accounts \cup {u}
    /\ DidFetchUser(u)
    /\ UNCHANGED <<walkthroughDone, appState, boot, wired,
                   locationUpdatesEnabled, updateInProgress, pendingUpdates>>

\* The logout row of the profile tab posts kLogoutNotificationName.
TapLogout ==
    /\ Running
    /\ "main" \in views
    /\ DidRequestLogout
    /\ UNCHANGED <<walkthroughDone, accounts, appState, boot, userVars, requests, locationVars>>

-----------------------------------------------------------------------------
(* Location: every fix reaches the host while a manager exists, whatever   *)
(* screen is shown.  iOS delivers fixes only where the person grants the   *)
(* permission that the host requests, and ignores the request of an app    *)
(* whose Info.plist does not describe the use.                             *)

\* Mutant of LocationFix: updateInProgress is not consulted.
LocationFix_Overlapping ==
    /\ Running
    /\ HasLocationUsage
    /\ locationManager
    /\ locationUpdatesEnabled
    /\ HasProfileUpdater
    /\ hostUser # NoUser
    /\ updateInProgress' = TRUE
    /\ pendingUpdates' = [pendingUpdates EXCEPT ![hostUser] = @ + 1]
    /\ pendingUpdates[hostUser] < 2
    /\ UNCHANGED <<storeVars, accounts, appState, screenVars, userVars, requests,
                   locationManager, locationUpdatesEnabled>>

\* A fix in the host: fatalError without a profile updater; with one, a
\* write is started unless the updater is still busy with another.
LocationFix ==
    /\ Running
    /\ HasLocationUsage
    /\ locationManager
    /\ locationUpdatesEnabled
    /\ IF ~HasProfileUpdater
       THEN /\ appState' = "trapped"
            /\ UNCHANGED <<updateInProgress, pendingUpdates>>
       ELSE /\ hostUser # NoUser
            /\ ~updateInProgress
            /\ updateInProgress' = TRUE
            /\ pendingUpdates' = [pendingUpdates EXCEPT ![hostUser] = @ + 1]
            /\ UNCHANGED appState
    /\ UNCHANGED <<storeVars, accounts, screenVars, userVars, requests,
                   locationManager, locationUpdatesEnabled>>

\* The completion uses the user captured when the fix arrived.
LocationWritten(u) ==
    /\ Running
    /\ pendingUpdates[u] > 0
    /\ pendingUpdates' = [pendingUpdates EXCEPT ![u] = @ - 1]
    /\ updateInProgress' = FALSE
    /\ locationUpdatesEnabled' = FALSE
    /\ wired' = TRUE
    /\ persisted' = u
    /\ syncedUser' = u
    /\ UNCHANGED <<walkthroughDone, accounts, appState, views, boot, hostUser,
                   requests, locationManager>>

LocationWriteFailed(u) ==
    /\ Running
    /\ pendingUpdates[u] > 0
    /\ pendingUpdates' = [pendingUpdates EXCEPT ![u] = @ - 1]
    /\ updateInProgress' = FALSE
    /\ UNCHANGED <<storeVars, accounts, appState, screenVars, userVars, requests,
                   locationManager, locationUpdatesEnabled>>

-----------------------------------------------------------------------------
(* The environment: the process is killed (or trapped) and all memory goes; *)
(* the backend removes a document.                                          *)

Close ==
    /\ appState # "closed"
    /\ appState' = "closed"
    /\ views' = {}
    /\ boot' = Idle
    /\ wired' = FALSE
    /\ hostUser' = NoUser
    /\ syncedUser' = NoUser
    /\ requests' = NoRequests
    /\ locationManager' = FALSE
    /\ locationUpdatesEnabled' = TRUE
    /\ updateInProgress' = FALSE
    /\ pendingUpdates' = NoUpdates
    /\ UNCHANGED <<storeVars, accounts>>

AccountRemoved(u) ==
    /\ u \in accounts
    /\ accounts' = accounts \ {u}
    /\ UNCHANGED <<storeVars, appState, screenVars, userVars, requests, locationVars>>

Next ==
    \/ Launch
    \/ \E success \in BOOLEAN : PromptAnswered(success)
    \/ ResyncFound
    \/ \E failed \in BOOLEAN : ResyncNil(failed)
    \/ WalkthroughFinished
    \/ \E stage \in Stages, u \in Users : TapLogin(stage, u)
    \/ \E u \in Users : SignInAccepted(u)
    \/ \E stage \in Stages, u \in Users : RequestFailed(stage, u)
    \/ \E u \in Users : LoginFetched(u)
    \/ \E u \in Users : Enrolled(u)
    \/ TapLogout
    \/ LocationFix
    \/ \E u \in Users : LocationWritten(u)
    \/ \E u \in Users : LocationWriteFailed(u)
    \/ Close
    \/ \E u \in Users : AccountRemoved(u)

Spec == Init /\ [][Next]_vars

\* LAContext and Firestore answer every request, if only with an error; the
\* person is never obliged to do anything and nothing else is assumed.
Answers ==
    /\ WF_vars(\E success \in BOOLEAN : PromptAnswered(success))
    /\ WF_vars(ResyncFound \/ \E failed \in BOOLEAN : ResyncNil(failed))

FairSpec == Spec /\ Answers

-----------------------------------------------------------------------------
(* Properties                                                              *)

\* The logged-in screens never show without a session that the next launch
\* will find, and then the host, the data source provider, the profile
\* screen and the store all name the same user (didFetchUser sets the four
\* in sequence; login requests of different users may be answered late).
SessionAgreement ==
    "main" \in views => /\ persisted # NoUser
                        /\ hostUser = persisted
                        /\ syncedUser = persisted

\* The half of SessionAgreement that survives location updates: whatever
\* callback comes late, the logged-in screens belong to a stored session.
MainIsRemembered == "main" \in views => persisted # NoUser

\* The host never stacks two of its screens: an answer that arrives after
\* the person moved on replaces the screen that is there.
OneScreen == Cardinality(views) <= 1

\* A login that completes while the onboarding screens are up, or a resync,
\* finds the host as the coordinator's delegate: otherwise the answer is
\* lost and the person stays on the screen.  viewDidLoad, the walkthrough
\* and the logout each set it on their own path.
OnboardingIsWired ==
    ("onboarding" \in views \/ boot.phase = "resync") => wired

\* Nobody gets a stored session on a device where the walkthrough was never
\* finished, across kills and relaunches in the middle of either.
WalkthroughBeforeSession == persisted # NoUser => walkthroughDone

\* Once a location was stored the host asks for no further write before the
\* next launch, although fixes keep arriving and writes may fail or be late.
LocationWriteIsFinal == ~locationUpdatesEnabled => pendingUpdates = NoUpdates

\* A launched app ends on a screen, or is closed or trapped first: the boot
\* of a persisted user never waits for ever, whatever the server answers.
LaunchShowsAScreen == Running ~> (views # {} \/ ~Running)

\* The promise of Session: what the person can use changes only by
\* unlocking, restoring, signing in and out.
surfaceShown ==
    IF ~Running THEN "closed"
    ELSE IF "main" \in views THEN "account"
    ELSE IF views # {} THEN "guest"
    ELSE IF boot.phase = "resync" THEN "opening" ELSE "locked"

AbstractSession == INSTANCE Session WITH
    remembered <- persisted,
    surface <- surfaceShown,
    LockedUsers <- FaceIDUsers

\* Every behaviour of the host, seen through surfaceShown, is a behaviour
\* of Session; in the finance app, where no fix arrives.
ImplementsSession == AbstractSession!Spec

-----------------------------------------------------------------------------
(* What the repository says of this code and the code does not do.         *)

\* A resync that logs out has found that the user no longer exists (the
\* comment in resyncPersistentUser).
ResyncLogsOutGoneAccounts ==
    [][(boot.phase = "resync" /\ Running' /\ persisted' = NoUser)
        => boot.user \notin accounts]_vars

=============================================================================
