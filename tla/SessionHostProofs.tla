------------------------- MODULE SessionHostProofs -------------------------
(***************************************************************************)
(* Proofs about SessionHost, for every set of users and every value of the *)
(* configuration constants.                                                *)
(***************************************************************************)
EXTENDS SessionHost, FiniteSetTheorems, TLAPS

ProofAssumptions == /\ NoUser \notin Users
                    /\ FaceIDUsers \subseteq Users
                    /\ AppleUsers \subseteq Users
                    /\ HasProfileUpdater \in BOOLEAN
                    /\ HasLocationUsage \in BOOLEAN
                    /\ DeviceHasBiometry \in BOOLEAN

LEMMA ConstantFacts == ProofAssumptions
  BY NoUserAssumption, UserKindsAssumption, HostAssumption DEF ProofAssumptions

-----------------------------------------------------------------------------
(* The inductive invariant                                                 *)

\* A closed app remembers nothing but its stores.
ClosedInv == appState = "closed" => /\ views = {}
                                    /\ boot = Idle
                                    /\ ~wired
                                    /\ hostUser = NoUser
                                    /\ requests = NoRequests
                                    /\ ~locationManager
                                    /\ pendingUpdates = NoUpdates

\* While a persisted user is being restored nothing else has started.
BootInv == boot.phase # "idle" => /\ views = {}
                                  /\ boot.user = persisted
                                  /\ boot.user # NoUser
                                  /\ hostUser = NoUser
                                  /\ requests = NoRequests
                                  /\ pendingUpdates = NoUpdates
                                  /\ boot.phase = "resync" => wired

\* At most one screen is up, and behind every screen but the walkthrough
\* the coordinator reports to the host.
ScreenInv == /\ views \in {{}, {"walkthrough"}, {"onboarding"}, {"main"}}
             /\ "walkthrough" \in views => ~wired
             /\ views \in {{"onboarding"}, {"main"}} => wired

\* Nothing that leads to a session exists before the walkthrough is over.
WalkthroughInv == /\ persisted # NoUser => walkthroughDone
                  /\ wired => walkthroughDone
                  /\ requests # NoRequests => wired /\ views # {}
                  /\ hostUser # NoUser => wired
                  /\ pendingUpdates # NoUpdates => wired

LocationInv ==
    /\ ~locationUpdatesEnabled => pendingUpdates = NoUpdates
    /\ ~updateInProgress => pendingUpdates = NoUpdates
    /\ \A u \in Users : pendingUpdates[u] > 0
         => pendingUpdates = [NoUpdates EXCEPT ![u] = 1]

\* A location write needs a fix and an updater.
CanWriteLocation == HasLocationUsage /\ HasProfileUpdater

\* The session agreement, with the reason why no location write breaks it.
AgreementInv ==
    /\ "main" \in views => persisted # NoUser
    /\ ~CanWriteLocation => /\ pendingUpdates = NoUpdates
                            /\ SessionAgreement

IInv == /\ TypeOK
        /\ ClosedInv
        /\ BootInv
        /\ ScreenInv
        /\ WalkthroughInv
        /\ LocationInv
        /\ AgreementInv

-----------------------------------------------------------------------------
(* Type correctness                                                        *)

\* A counter per key may grow, and shrink while it is positive.
LEMMA Increment ==
    ASSUME NEW S, NEW f \in [S -> Nat], NEW s \in S
    PROVE  [f EXCEPT ![s] = @ + 1] \in [S -> Nat]
  OBVIOUS

LEMMA Decrement ==
    ASSUME NEW S, NEW f \in [S -> Nat], NEW s \in S, f[s] > 0
    PROVE  [f EXCEPT ![s] = @ - 1] \in [S -> Nat]
<1>1. f[s] - 1 \in Nat
  OBVIOUS
<1>2. QED
  BY <1>1

LEMMA EmptyTypes == /\ NoRequests \in [Stages \X Users -> Nat]
                    /\ NoUpdates \in [Users -> Nat]
                    /\ Idle \in [phase : BootPhases, user : Users \cup {NoUser}]
  BY DEF NoRequests, NoUpdates, Idle, BootPhases

LEMMA TypeInit == Init => TypeOK
  BY EmptyTypes DEF Init, TypeOK, Screens

LEMMA TypeNext == TypeOK /\ [Next]_vars => TypeOK'
<1> SUFFICES ASSUME TypeOK, [Next]_vars
             PROVE  TypeOK'
  OBVIOUS
<1> USE ConstantFacts DEF ProofAssumptions, TypeOK, Running, Screens, Stages, BootPhases, Idle,
        vars, storeVars, screenVars, userVars, locationVars
<1>1. CASE Launch
  <2>1. CASE LaunchWithFaceID
    BY <1>1, <2>1 DEF Launch, LaunchWithFaceID
  <2>2. CASE LaunchResync
    BY <1>1, <2>2 DEF Launch, LaunchResync
  <2>3. CASE LaunchWalkthrough
    BY <1>1, <2>3 DEF Launch, LaunchWalkthrough
  <2>4. CASE LaunchOnboarding
    BY <1>1, <2>4 DEF Launch, LaunchOnboarding
  <2>5. QED
    BY <1>1, <2>1, <2>2, <2>3, <2>4 DEF Launch
<1>2. ASSUME NEW success \in BOOLEAN, PromptAnswered(success)
      PROVE  TypeOK'
  BY <1>2 DEF PromptAnswered
<1>3. CASE ResyncFound
  BY <1>3 DEF ResyncFound, DidFetchUser, PresentLoggedIn
<1>4. ASSUME NEW failed \in BOOLEAN, ResyncNil(failed)
      PROVE  TypeOK'
  BY <1>4 DEF ResyncNil, DidFetchUser, DidRequestLogout, PresentLoggedIn
<1>5. CASE WalkthroughFinished
  BY <1>5 DEF WalkthroughFinished
<1>6. ASSUME NEW stage \in Stages, NEW u \in Users, TapLogin(stage, u)
      PROVE  TypeOK'
  BY <1>6 DEF TapLogin, Issue
<1>7. ASSUME NEW u \in Users, SignInAccepted(u)
      PROVE  TypeOK'
  BY <1>7 DEF SignInAccepted, InFlight
<1>8. ASSUME NEW stage \in Stages, NEW u \in Users, RequestFailed(stage, u)
      PROVE  TypeOK'
  BY <1>8 DEF RequestFailed, InFlight, Drop
<1>9. ASSUME NEW u \in Users, LoginFetched(u)
      PROVE  TypeOK'
  <2>1. requests' \in [Stages \X Users -> Nat]
    BY <1>9, Decrement DEF LoginFetched, InFlight, Drop
  <2>2. locationManager' \in BOOLEAN
    BY <1>9, Zenon DEF LoginFetched, DidFetchUser
  <2>3. QED
    BY <1>9, <2>1, <2>2 DEF LoginFetched, DidFetchUser, PresentLoggedIn
<1>10. ASSUME NEW u \in Users, Enrolled(u)
      PROVE  TypeOK'
  <2>1. requests' \in [Stages \X Users -> Nat]
    BY <1>10, Decrement DEF Enrolled, InFlight, Drop
  <2>2. locationManager' \in BOOLEAN
    BY <1>10, Zenon DEF Enrolled, DidFetchUser
  <2>3. QED
    BY <1>10, <2>1, <2>2 DEF Enrolled, DidFetchUser, PresentLoggedIn
<1>11. CASE TapLogout
  BY <1>11 DEF TapLogout, DidRequestLogout
<1>12. CASE LocationFix
  <2>1. CASE HasProfileUpdater
    <3>1. hostUser \in Users
      BY <1>12, <2>1 DEF LocationFix
    <3>2. pendingUpdates' \in [Users -> Nat]
      BY <1>12, <2>1, <3>1, Increment DEF LocationFix
    <3>3. QED
      BY <1>12, <2>1, <3>2 DEF LocationFix
  <2>2. CASE ~HasProfileUpdater
    BY <1>12, <2>2 DEF LocationFix
  <2>3. QED
    BY <2>1, <2>2
<1>13. ASSUME NEW u \in Users, LocationWritten(u)
      PROVE  TypeOK'
  <2>1. pendingUpdates' \in [Users -> Nat]
    BY <1>13, Decrement DEF LocationWritten
  <2>2. QED
    BY <1>13, <2>1 DEF LocationWritten
<1>14. ASSUME NEW u \in Users, LocationWriteFailed(u)
      PROVE  TypeOK'
  <2>1. pendingUpdates' \in [Users -> Nat]
    BY <1>14, Decrement DEF LocationWriteFailed
  <2>2. QED
    BY <1>14, <2>1 DEF LocationWriteFailed
<1>15. CASE Close
  BY <1>15 DEF Close, NoRequests, NoUpdates
<1>16. ASSUME NEW u \in Users, AccountRemoved(u)
      PROVE  TypeOK'
  BY <1>16 DEF AccountRemoved
<1>17. CASE UNCHANGED vars
  BY <1>17
<1>18. QED
  BY <1>1, <1>2, <1>3, <1>4, <1>5, <1>6, <1>7, <1>8, <1>9, <1>10, <1>11, <1>12, <1>13, <1>14, <1>15, <1>16, <1>17 DEF Next

\* Every variable keeps its type (one theorem for both configurations).
THEOREM TypeCorrect == Spec => []TypeOK
<1>1. Init => TypeOK
  BY TypeInit
<1>2. TypeOK /\ [Next]_vars => TypeOK'
  BY TypeNext
<1>3. QED
  BY <1>1, <1>2, PTL DEF Spec

-----------------------------------------------------------------------------
(* The invariant is inductive                                              *)

\* A request in flight shows that there are requests in flight.
LEMMA SomeRequest ==
    ASSUME NEW r \in Stages \X Users, requests[r] > 0
    PROVE  requests # NoRequests
  BY DEF NoRequests

\* At most one location write is in flight: when it is answered none is.
LEMMA LastUpdate ==
    ASSUME TypeOK, LocationInv, NEW u \in Users, pendingUpdates[u] > 0
    PROVE  /\ pendingUpdates # NoUpdates
           /\ [pendingUpdates EXCEPT ![u] = @ - 1] = NoUpdates
<1>1. pendingUpdates = [NoUpdates EXCEPT ![u] = 1]
  BY DEF LocationInv
<1>2. QED
  BY <1>1 DEF NoUpdates

LEMMA InvInit == Init => IInv
  BY TypeInit DEF Init, IInv, ClosedInv, BootInv, ScreenInv, WalkthroughInv, LocationInv,
     AgreementInv, SessionAgreement, Idle, NoUpdates

LEMMA InvNext == IInv /\ [Next]_vars => IInv'
<1> SUFFICES ASSUME IInv, [Next]_vars
             PROVE  IInv'
  OBVIOUS
<1>0. TypeOK'
  BY TypeNext DEF IInv
<1> USE ConstantFacts DEF ProofAssumptions, IInv, TypeOK, Running, Stages, Idle,
        vars, storeVars, screenVars, userVars, locationVars
<1>1. CASE Launch
  <2>1. ClosedInv'
    BY <1>1 DEF Launch, LaunchWithFaceID, LaunchResync, LaunchWalkthrough, LaunchOnboarding, ClosedInv, BootInv, ScreenInv, WalkthroughInv, LocationInv, AgreementInv
  <2>2. BootInv'
    BY <1>1 DEF Launch, LaunchWithFaceID, LaunchResync, LaunchWalkthrough, LaunchOnboarding, BootInv, ClosedInv, ScreenInv, WalkthroughInv, LocationInv, AgreementInv
  <2>3. ScreenInv'
    BY <1>1 DEF Launch, LaunchWithFaceID, LaunchResync, LaunchWalkthrough, LaunchOnboarding, ScreenInv, ClosedInv, BootInv, WalkthroughInv, LocationInv, AgreementInv
  <2>4. WalkthroughInv'
    BY <1>1 DEF Launch, LaunchWithFaceID, LaunchResync, LaunchWalkthrough, LaunchOnboarding, WalkthroughInv, ClosedInv, BootInv, ScreenInv, LocationInv, AgreementInv
  <2>5. LocationInv'
    BY <1>1 DEF Launch, LaunchWithFaceID, LaunchResync, LaunchWalkthrough, LaunchOnboarding, LocationInv, ClosedInv, BootInv, ScreenInv, WalkthroughInv, AgreementInv
  <2>6. AgreementInv'
    BY <1>1 DEF Launch, LaunchWithFaceID, LaunchResync, LaunchWalkthrough, LaunchOnboarding, AgreementInv, ClosedInv, BootInv, ScreenInv, WalkthroughInv, LocationInv, SessionAgreement
  <2>7. QED
    BY <1>0, <2>1, <2>2, <2>3, <2>4, <2>5, <2>6
<1>2. ASSUME NEW success \in BOOLEAN, PromptAnswered(success)
      PROVE  IInv'
  <2>1. ClosedInv'
    BY <1>2 DEF PromptAnswered, ClosedInv, BootInv, ScreenInv, WalkthroughInv, LocationInv, AgreementInv
  <2>2. BootInv'
    BY <1>2 DEF PromptAnswered, BootInv, ClosedInv, ScreenInv, WalkthroughInv, LocationInv, AgreementInv
  <2>3. ScreenInv'
    BY <1>2 DEF PromptAnswered, ScreenInv, ClosedInv, BootInv, WalkthroughInv, LocationInv, AgreementInv
  <2>4. WalkthroughInv'
    BY <1>2 DEF PromptAnswered, WalkthroughInv, ClosedInv, BootInv, ScreenInv, LocationInv, AgreementInv
  <2>5. LocationInv'
    BY <1>2 DEF PromptAnswered, LocationInv, ClosedInv, BootInv, ScreenInv, WalkthroughInv, AgreementInv
  <2>6. AgreementInv'
    BY <1>2 DEF PromptAnswered, AgreementInv, ClosedInv, BootInv, ScreenInv, WalkthroughInv, LocationInv, SessionAgreement
  <2>7. QED
    BY <1>0, <2>1, <2>2, <2>3, <2>4, <2>5, <2>6
<1>3. CASE ResyncFound
  <2>1. ClosedInv'
    BY <1>3 DEF ResyncFound, DidFetchUser, PresentLoggedIn, ClosedInv, BootInv, WalkthroughInv, ScreenInv, AgreementInv
  <2>2. BootInv'
    BY <1>3 DEF ResyncFound, DidFetchUser, PresentLoggedIn, BootInv, WalkthroughInv, ScreenInv, ClosedInv, AgreementInv
  <2>3. ScreenInv'
    BY <1>3 DEF ResyncFound, DidFetchUser, PresentLoggedIn, ScreenInv, BootInv, WalkthroughInv, ClosedInv, AgreementInv
  <2>4. WalkthroughInv'
    BY <1>3 DEF ResyncFound, DidFetchUser, PresentLoggedIn, WalkthroughInv, BootInv, ScreenInv, ClosedInv, AgreementInv
  <2>5. LocationInv'
    BY <1>3 DEF ResyncFound, DidFetchUser, PresentLoggedIn, LocationInv, BootInv, WalkthroughInv, ScreenInv, ClosedInv, AgreementInv
  <2>6. AgreementInv'
    BY <1>3 DEF ResyncFound, DidFetchUser, PresentLoggedIn, AgreementInv, BootInv, WalkthroughInv, ScreenInv, ClosedInv, SessionAgreement
  <2>7. QED
    BY <1>0, <2>1, <2>2, <2>3, <2>4, <2>5, <2>6
<1>4. ASSUME NEW failed \in BOOLEAN, ResyncNil(failed)
      PROVE  IInv'
  <2>1. ClosedInv'
    BY <1>4 DEF ResyncNil, DidFetchUser, DidRequestLogout, PresentLoggedIn, ClosedInv, BootInv, WalkthroughInv, ScreenInv, AgreementInv
  <2>2. BootInv'
    BY <1>4 DEF ResyncNil, DidFetchUser, DidRequestLogout, PresentLoggedIn, BootInv, WalkthroughInv, ScreenInv, ClosedInv, AgreementInv
  <2>3. ScreenInv'
    <3>1. CASE boot.user \in AppleUsers
      BY <1>4, <3>1 DEF ResyncNil, DidFetchUser, PresentLoggedIn, BootInv, ScreenInv
    <3>2. CASE boot.user \notin AppleUsers
      BY <1>4, <3>2 DEF ResyncNil, DidRequestLogout, BootInv, ScreenInv
    <3>3. QED
      BY <3>1, <3>2
  <2>4. WalkthroughInv'
    BY <1>4 DEF ResyncNil, DidFetchUser, DidRequestLogout, PresentLoggedIn, WalkthroughInv, BootInv, ScreenInv, ClosedInv, AgreementInv
  <2>5. LocationInv'
    BY <1>4 DEF ResyncNil, DidFetchUser, DidRequestLogout, PresentLoggedIn, LocationInv, BootInv, WalkthroughInv, ScreenInv, ClosedInv, AgreementInv
  <2>6. AgreementInv'
    <3>1. CASE boot.user \in AppleUsers
      BY <1>4, <3>1 DEF ResyncNil, DidFetchUser, PresentLoggedIn, BootInv, AgreementInv, SessionAgreement
    <3>2. CASE boot.user \notin AppleUsers
      BY <1>4, <3>2 DEF ResyncNil, DidRequestLogout, BootInv, AgreementInv, SessionAgreement
    <3>3. QED
      BY <3>1, <3>2
  <2>7. QED
    BY <1>0, <2>1, <2>2, <2>3, <2>4, <2>5, <2>6
<1>5. CASE WalkthroughFinished
  <2>1. ClosedInv'
    BY <1>5 DEF WalkthroughFinished, ClosedInv, BootInv, ScreenInv
  <2>2. BootInv'
    BY <1>5 DEF WalkthroughFinished, BootInv, ScreenInv
  <2>3. ScreenInv'
    BY <1>5 DEF WalkthroughFinished, ScreenInv, BootInv
  <2>4. WalkthroughInv'
    BY <1>5 DEF WalkthroughFinished, WalkthroughInv, BootInv, ScreenInv
  <2>5. LocationInv'
    BY <1>5 DEF WalkthroughFinished, LocationInv
  <2>6. AgreementInv'
    BY <1>5 DEF WalkthroughFinished, AgreementInv, BootInv, ScreenInv, SessionAgreement
  <2>7. QED
    BY <1>0, <2>1, <2>2, <2>3, <2>4, <2>5, <2>6
<1>6. ASSUME NEW stage \in Stages, NEW u \in Users, TapLogin(stage, u)
      PROVE  IInv'
  <2>1. ClosedInv'
    BY <1>6 DEF TapLogin, Issue, ClosedInv, ScreenInv, BootInv, WalkthroughInv
  <2>2. BootInv'
    BY <1>6 DEF TapLogin, Issue, BootInv, ScreenInv, WalkthroughInv
  <2>3. ScreenInv'
    BY <1>6 DEF TapLogin, Issue, ScreenInv, BootInv, WalkthroughInv
  <2>4. WalkthroughInv'
    BY <1>6 DEF TapLogin, Issue, WalkthroughInv, ScreenInv, BootInv
  <2>5. LocationInv'
    BY <1>6 DEF TapLogin, Issue, LocationInv, ScreenInv, BootInv, WalkthroughInv
  <2>6. AgreementInv'
    BY <1>6 DEF TapLogin, Issue, AgreementInv, ScreenInv, BootInv, WalkthroughInv, SessionAgreement
  <2>7. QED
    BY <1>0, <2>1, <2>2, <2>3, <2>4, <2>5, <2>6
<1>7. ASSUME NEW u \in Users, SignInAccepted(u)
      PROVE  IInv'
  <2>0. requests # NoRequests /\ appState = "running"
    BY <1>7, SomeRequest DEF SignInAccepted, InFlight
  <2>1. ClosedInv'
    BY <1>7, <2>0 DEF SignInAccepted, ClosedInv
  <2>2. BootInv'
    BY <1>7, <2>0 DEF SignInAccepted, BootInv
  <2>3. ScreenInv'
    BY <1>7, <2>0 DEF SignInAccepted, ScreenInv, WalkthroughInv
  <2>4. WalkthroughInv'
    BY <1>7, <2>0 DEF SignInAccepted, WalkthroughInv, BootInv
  <2>5. LocationInv'
    BY <1>7, <2>0 DEF SignInAccepted, LocationInv
  <2>6. AgreementInv'
    BY <1>7, <2>0 DEF SignInAccepted, AgreementInv, SessionAgreement
  <2>7. QED
    BY <1>0, <2>1, <2>2, <2>3, <2>4, <2>5, <2>6
<1>8. ASSUME NEW stage \in Stages, NEW u \in Users, RequestFailed(stage, u)
      PROVE  IInv'
  <2>0. requests # NoRequests /\ appState = "running"
    BY <1>8, SomeRequest DEF RequestFailed, InFlight
  <2>1. ClosedInv'
    BY <1>8, <2>0 DEF RequestFailed, ClosedInv
  <2>2. BootInv'
    BY <1>8, <2>0 DEF RequestFailed, BootInv
  <2>3. ScreenInv'
    BY <1>8, <2>0 DEF RequestFailed, ScreenInv, WalkthroughInv
  <2>4. WalkthroughInv'
    BY <1>8, <2>0 DEF RequestFailed, WalkthroughInv, BootInv
  <2>5. LocationInv'
    BY <1>8, <2>0 DEF RequestFailed, LocationInv
  <2>6. AgreementInv'
    BY <1>8, <2>0 DEF RequestFailed, AgreementInv, SessionAgreement
  <2>7. QED
    BY <1>0, <2>1, <2>2, <2>3, <2>4, <2>5, <2>6
<1>9. ASSUME NEW u \in Users, LoginFetched(u)
      PROVE  IInv'
  <2>0. requests # NoRequests /\ appState = "running"
    BY <1>9, SomeRequest DEF LoginFetched, InFlight
  <2>1. ClosedInv'
    BY <1>9, <2>0 DEF LoginFetched, DidFetchUser, PresentLoggedIn, ClosedInv
  <2>2. BootInv'
    BY <1>9, <2>0 DEF LoginFetched, DidFetchUser, PresentLoggedIn, BootInv
  <2>3. ScreenInv'
    BY <1>9, <2>0 DEF LoginFetched, DidFetchUser, PresentLoggedIn, ScreenInv, WalkthroughInv
  <2>4. WalkthroughInv'
    BY <1>9, <2>0 DEF LoginFetched, DidFetchUser, PresentLoggedIn, WalkthroughInv, BootInv
  <2>5. LocationInv'
    BY <1>9, <2>0 DEF LoginFetched, DidFetchUser, PresentLoggedIn, LocationInv
  <2>6. AgreementInv'
    BY <1>9, <2>0 DEF LoginFetched, DidFetchUser, PresentLoggedIn, AgreementInv, SessionAgreement
  <2>7. QED
    BY <1>0, <2>1, <2>2, <2>3, <2>4, <2>5, <2>6
<1>10. ASSUME NEW u \in Users, Enrolled(u)
      PROVE  IInv'
  <2>0. requests # NoRequests /\ appState = "running"
    BY <1>10, SomeRequest DEF Enrolled, InFlight
  <2>1. ClosedInv'
    BY <1>10, <2>0 DEF Enrolled, DidFetchUser, PresentLoggedIn, ClosedInv
  <2>2. BootInv'
    BY <1>10, <2>0 DEF Enrolled, DidFetchUser, PresentLoggedIn, BootInv
  <2>3. ScreenInv'
    BY <1>10, <2>0 DEF Enrolled, DidFetchUser, PresentLoggedIn, ScreenInv, WalkthroughInv
  <2>4. WalkthroughInv'
    BY <1>10, <2>0 DEF Enrolled, DidFetchUser, PresentLoggedIn, WalkthroughInv, BootInv
  <2>5. LocationInv'
    BY <1>10, <2>0 DEF Enrolled, DidFetchUser, PresentLoggedIn, LocationInv
  <2>6. AgreementInv'
    BY <1>10, <2>0 DEF Enrolled, DidFetchUser, PresentLoggedIn, AgreementInv, SessionAgreement
  <2>7. QED
    BY <1>0, <2>1, <2>2, <2>3, <2>4, <2>5, <2>6
<1>11. CASE TapLogout
  <2>1. ClosedInv'
    BY <1>11 DEF TapLogout, DidRequestLogout, ClosedInv, ScreenInv, BootInv, WalkthroughInv
  <2>2. BootInv'
    BY <1>11 DEF TapLogout, DidRequestLogout, BootInv, ScreenInv, WalkthroughInv
  <2>3. ScreenInv'
    BY <1>11 DEF TapLogout, DidRequestLogout, ScreenInv, BootInv, WalkthroughInv
  <2>4. WalkthroughInv'
    BY <1>11 DEF TapLogout, DidRequestLogout, WalkthroughInv, ScreenInv, BootInv
  <2>5. LocationInv'
    BY <1>11 DEF TapLogout, DidRequestLogout, LocationInv, ScreenInv, BootInv, WalkthroughInv
  <2>6. AgreementInv'
    BY <1>11 DEF TapLogout, DidRequestLogout, AgreementInv, ScreenInv, BootInv, WalkthroughInv, SessionAgreement
  <2>7. QED
    BY <1>0, <2>1, <2>2, <2>3, <2>4, <2>5, <2>6
<1>12. CASE LocationFix
  <2>1. ClosedInv'
    BY <1>12 DEF LocationFix, ClosedInv, WalkthroughInv, BootInv
  <2>2. BootInv'
    BY <1>12 DEF LocationFix, BootInv, WalkthroughInv, ClosedInv
  <2>3. ScreenInv'
    BY <1>12 DEF LocationFix, ScreenInv, WalkthroughInv, BootInv, ClosedInv
  <2>4. WalkthroughInv'
    BY <1>12 DEF LocationFix, WalkthroughInv, BootInv, ClosedInv
  <2>5. LocationInv'
    <3>1. CASE HasProfileUpdater
      <4>1. /\ pendingUpdates = NoUpdates
            /\ hostUser \in Users
            /\ pendingUpdates' = [pendingUpdates EXCEPT ![hostUser] = @ + 1]
            /\ locationUpdatesEnabled' /\ updateInProgress'
        BY <1>12, <3>1 DEF LocationFix, LocationInv
      <4>2. pendingUpdates' = [NoUpdates EXCEPT ![hostUser] = 1]
        BY <4>1 DEF NoUpdates
      <4>3. \A v \in Users : pendingUpdates'[v] > 0 => v = hostUser
        BY <4>2 DEF NoUpdates
      <4>4. QED
        BY <4>1, <4>2, <4>3 DEF LocationInv
    <3>2. CASE ~HasProfileUpdater
      BY <1>12, <3>2 DEF LocationFix, LocationInv
    <3>3. QED
      BY <3>1, <3>2
  <2>6. AgreementInv'
    BY <1>12 DEF LocationFix, CanWriteLocation, AgreementInv, WalkthroughInv, BootInv, ClosedInv, SessionAgreement
  <2>7. QED
    BY <1>0, <2>1, <2>2, <2>3, <2>4, <2>5, <2>6
<1>13. ASSUME NEW u \in Users, LocationWritten(u)
      PROVE  IInv'
  <2>0. pendingUpdates # NoUpdates /\ pendingUpdates' = NoUpdates
    BY <1>13, LastUpdate DEF LocationWritten
  <2>1. ClosedInv'
    BY <1>13, <2>0 DEF LocationWritten, ClosedInv
  <2>2. BootInv'
    BY <1>13, <2>0 DEF LocationWritten, BootInv
  <2>3. ScreenInv'
    BY <1>13, <2>0 DEF LocationWritten, ScreenInv, WalkthroughInv
  <2>4. WalkthroughInv'
    BY <1>13, <2>0 DEF LocationWritten, WalkthroughInv, ScreenInv
  <2>5. LocationInv'
    <3>1. \A v \in Users : pendingUpdates'[v] = 0
      BY <2>0 DEF NoUpdates
    <3>2. QED
      BY <2>0, <3>1 DEF LocationInv
  <2>6. AgreementInv'
    BY <1>13, <2>0 DEF LocationWritten, AgreementInv, SessionAgreement
  <2>7. QED
    BY <1>0, <2>1, <2>2, <2>3, <2>4, <2>5, <2>6
<1>14. ASSUME NEW u \in Users, LocationWriteFailed(u)
      PROVE  IInv'
  <2>0. pendingUpdates # NoUpdates /\ pendingUpdates' = NoUpdates
    BY <1>14, LastUpdate DEF LocationWriteFailed
  <2>1. ClosedInv'
    BY <1>14, <2>0 DEF LocationWriteFailed, ClosedInv
  <2>2. BootInv'
    BY <1>14, <2>0 DEF LocationWriteFailed, BootInv
  <2>3. ScreenInv'
    BY <1>14, <2>0 DEF LocationWriteFailed, ScreenInv, WalkthroughInv
  <2>4. WalkthroughInv'
    BY <1>14, <2>0 DEF LocationWriteFailed, WalkthroughInv, ScreenInv
  <2>5. LocationInv'
    <3>1. \A v \in Users : pendingUpdates'[v] = 0
      BY <2>0 DEF NoUpdates
    <3>2. QED
      BY <2>0, <3>1 DEF LocationInv
  <2>6. AgreementInv'
    BY <1>14, <2>0 DEF LocationWriteFailed, AgreementInv, SessionAgreement
  <2>7. QED
    BY <1>0, <2>1, <2>2, <2>3, <2>4, <2>5, <2>6
<1>15. CASE Close
  <2>1. ClosedInv'
    BY <1>15 DEF Close, ClosedInv
  <2>2. BootInv'
    BY <1>15 DEF Close, BootInv
  <2>3. ScreenInv'
    BY <1>15 DEF Close, ScreenInv
  <2>4. WalkthroughInv'
    BY <1>15 DEF Close, WalkthroughInv
  <2>5. LocationInv'
    BY <1>15 DEF Close, LocationInv, NoUpdates
  <2>6. AgreementInv'
    BY <1>15 DEF Close, AgreementInv, SessionAgreement
  <2>7. QED
    BY <1>0, <2>1, <2>2, <2>3, <2>4, <2>5, <2>6
<1>16. ASSUME NEW u \in Users, AccountRemoved(u)
      PROVE  IInv'
  <2>1. ClosedInv'
    BY <1>16 DEF AccountRemoved, ClosedInv
  <2>2. BootInv'
    BY <1>16 DEF AccountRemoved, BootInv
  <2>3. ScreenInv'
    BY <1>16 DEF AccountRemoved, ScreenInv
  <2>4. WalkthroughInv'
    BY <1>16 DEF AccountRemoved, WalkthroughInv
  <2>5. LocationInv'
    BY <1>16 DEF AccountRemoved, LocationInv
  <2>6. AgreementInv'
    BY <1>16 DEF AccountRemoved, AgreementInv, SessionAgreement
  <2>7. QED
    BY <1>0, <2>1, <2>2, <2>3, <2>4, <2>5, <2>6
<1>17. CASE UNCHANGED vars
  BY <1>17 DEF ClosedInv, BootInv, ScreenInv, WalkthroughInv, LocationInv, AgreementInv, SessionAgreement
<1>18. QED
  BY <1>1, <1>2, <1>3, <1>4, <1>5, <1>6, <1>7, <1>8, <1>9, <1>10, <1>11, <1>12, <1>13, <1>14, <1>15, <1>16, <1>17 DEF Next

-----------------------------------------------------------------------------
(* Theorems                                                                *)

\* The strengthening that the theorems below rest on.
THEOREM Invariance == Spec => []IInv
<1>1. Init => IInv
  BY InvInit
<1>2. IInv /\ [Next]_vars => IInv'
  BY InvNext
<1>3. QED
  BY <1>1, <1>2, PTL DEF Spec

\* The host never shows two of its screens at once, whatever answer is late.
THEOREM OneScreenAlways == Spec => []OneScreen
<1>1. IInv => OneScreen
  <2> SUFFICES ASSUME IInv
               PROVE  Cardinality(views) <= 1
    BY DEF OneScreen
  <2>1. CASE views = {}
    <3>1. Cardinality(views) = 0
      BY <2>1, FS_EmptySet
    <3>2. QED
      BY <3>1
  <2>2. ASSUME NEW screen, views = {screen}
        PROVE  Cardinality(views) <= 1
    <3>1. Cardinality(views) = 1
      BY <2>2, FS_Singleton
    <3>2. QED
      BY <3>1
  <2>3. QED
    BY <2>1, <2>2 DEF IInv, ScreenInv
<1>2. QED
  BY <1>1, Invariance, PTL

\* A login or a resync that is answered finds the host as delegate.
THEOREM OnboardingWiredAlways == Spec => []OnboardingIsWired
<1>1. IInv => OnboardingIsWired
  BY DEF IInv, TypeOK, BootPhases, BootInv, ScreenInv, OnboardingIsWired
<1>2. QED
  BY <1>1, Invariance, PTL

\* No session is stored before the walkthrough is over.
THEOREM WalkthroughFirst == Spec => []WalkthroughBeforeSession
<1>1. IInv => WalkthroughBeforeSession
  BY DEF IInv, WalkthroughInv, WalkthroughBeforeSession
<1>2. QED
  BY <1>1, Invariance, PTL

\* The logged-in screens always belong to a stored session, with and without
\* location updates.
THEOREM MainRemembered == Spec => []MainIsRemembered
<1>1. IInv => MainIsRemembered
  BY DEF IInv, AgreementInv, MainIsRemembered
<1>2. QED
  BY <1>1, Invariance, PTL

\* After the first stored location no write is in flight until a relaunch.
THEOREM LocationFinal == Spec => []LocationWriteIsFinal
<1>1. IInv => LocationWriteIsFinal
  BY DEF IInv, LocationInv, LocationWriteIsFinal
<1>2. QED
  BY <1>1, Invariance, PTL

\* In the finance app, whose host has no profile updater and whose Info.plist
\* describes no use of the location, as in every app that lacks one of them,
\* every screen and the store name the same user while the logged-in screens
\* show.
THEOREM AgreementWithoutLocationWrites ==
    ASSUME ~CanWriteLocation
    PROVE  Spec => []SessionAgreement
<1>1. IInv => SessionAgreement
  BY DEF IInv, AgreementInv
<1>2. QED
  BY <1>1, Invariance, PTL

-----------------------------------------------------------------------------
(* The host implements Session                                             *)

LEMMA RefinementInit == Init => AbstractSession!Init
  BY DEF Init, AbstractSession!Init, surfaceShown, Running

\* Each step of the host is the step of Session named here, or a stutter.
LEMMA RefinementNext ==
    ASSUME ~CanWriteLocation, IInv, [Next]_vars
    PROVE  [AbstractSession!Next]_AbstractSession!sessionVars
<1> USE ConstantFacts DEF ProofAssumptions, IInv, TypeOK, Running, Idle, BootPhases,
        BootInv, ScreenInv, surfaceShown, storeVars, screenVars, userVars, locationVars,
        AbstractSession!Next, AbstractSession!sessionVars
<1>1. CASE Launch
  <2>1. AbstractSession!Open
    BY <1>1 DEF Launch, LaunchWithFaceID, LaunchResync, LaunchWalkthrough, LaunchOnboarding,
       ClosedInv, AbstractSession!Open
  <2>2. QED
    BY <2>1
<1>2. ASSUME NEW success \in BOOLEAN, PromptAnswered(success)
      PROVE  AbstractSession!Next
  <2>1. CASE success
    <3>1. AbstractSession!Unlock
      BY <1>2, <2>1 DEF PromptAnswered, AbstractSession!Unlock
    <3>2. QED
      BY <3>1
  <2>2. CASE ~success
    <3>1. AbstractSession!LockOut
      BY <1>2, <2>2 DEF PromptAnswered, AbstractSession!LockOut
    <3>2. QED
      BY <3>1
  <2>3. QED
    BY <2>1, <2>2
<1>3. CASE ResyncFound
  <2>1. AbstractSession!Restore
    BY <1>3 DEF ResyncFound, DidFetchUser, PresentLoggedIn, AbstractSession!Restore
  <2>2. QED
    BY <2>1
<1>4. ASSUME NEW failed \in BOOLEAN, ResyncNil(failed)
      PROVE  AbstractSession!Next
  <2>1. CASE boot.user \in AppleUsers
    <3>1. AbstractSession!Restore
      BY <1>4, <2>1 DEF ResyncNil, DidFetchUser, PresentLoggedIn, AbstractSession!Restore
    <3>2. QED
      BY <3>1
  <2>2. CASE boot.user \notin AppleUsers
    <3>1. /\ appState = "running" /\ views = {} /\ boot.phase = "resync"
          /\ appState' = "running" /\ views' = {"onboarding"} /\ persisted' = NoUser
      BY <1>4, <2>2 DEF ResyncNil, DidRequestLogout
    <3>2. AbstractSession!Forget
      BY <3>1 DEF AbstractSession!Forget
    <3>3. QED
      BY <3>2
  <2>3. QED
    BY <2>1, <2>2
<1>5. CASE WalkthroughFinished
  BY <1>5 DEF WalkthroughFinished
<1>6. ASSUME NEW stage \in Stages, NEW u \in Users, TapLogin(stage, u)
      PROVE  UNCHANGED AbstractSession!sessionVars
  BY <1>6 DEF TapLogin
<1>7. ASSUME NEW u \in Users, SignInAccepted(u)
      PROVE  UNCHANGED AbstractSession!sessionVars
  BY <1>7 DEF SignInAccepted
<1>8. ASSUME NEW stage \in Stages, NEW u \in Users, RequestFailed(stage, u)
      PROVE  UNCHANGED AbstractSession!sessionVars
  BY <1>8 DEF RequestFailed
<1>9. ASSUME NEW u \in Users, LoginFetched(u) \/ Enrolled(u)
      PROVE  AbstractSession!Next
  <2>1. requests # NoRequests
    BY <1>9, SomeRequest DEF LoginFetched, Enrolled, InFlight, Stages
  <2>2. AbstractSession!SignIn(u)
    BY <1>9, <2>1 DEF LoginFetched, Enrolled, InFlight, DidFetchUser, PresentLoggedIn,
       WalkthroughInv, AbstractSession!SignIn
  <2>3. QED
    BY <2>2
<1>10. CASE TapLogout
  <2>1. AbstractSession!SignOut
    BY <1>10 DEF TapLogout, DidRequestLogout, AbstractSession!SignOut
  <2>2. QED
    BY <2>1
<1>11. CASE LocationFix
  <2>1. AbstractSession!Close
    BY <1>11 DEF LocationFix, CanWriteLocation, AbstractSession!Close
  <2>2. QED
    BY <2>1
<1>12. ASSUME NEW u \in Users, LocationWritten(u) \/ LocationWriteFailed(u)
       PROVE  FALSE
  BY <1>12 DEF LocationWritten, LocationWriteFailed, AgreementInv, NoUpdates
<1>13. CASE Close
  BY <1>13 DEF Close, AbstractSession!Close
<1>14. ASSUME NEW u \in Users, AccountRemoved(u)
       PROVE  UNCHANGED AbstractSession!sessionVars
  BY <1>14 DEF AccountRemoved
<1>15. CASE UNCHANGED vars
  BY <1>15 DEF vars
<1>16. QED
  BY <1>1, <1>2, <1>3, <1>4, <1>5, <1>6, <1>7, <1>8, <1>9, <1>10, <1>11, <1>12, <1>13,
     <1>14, <1>15 DEF Next

\* In the finance app's configuration the host does what Session promises.
THEOREM HostImplementsSession ==
    ASSUME ~CanWriteLocation
    PROVE  Spec => ImplementsSession
<1>1. Init => AbstractSession!Init
  BY RefinementInit
<1>2. IInv /\ [Next]_vars => [AbstractSession!Next]_AbstractSession!sessionVars
  BY RefinementNext
<1>3. QED
  BY <1>1, <1>2, Invariance, PTL DEF Spec, ImplementsSession, AbstractSession!Spec

=============================================================================
