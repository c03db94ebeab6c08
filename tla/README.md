# Verification of Financia (financiapf)

Financia is an iOS app in Swift: a generic core (`src/Core`) with a host screen,
onboarding, paginated lists, a profile and Firebase helpers, and a finance app
(`src/FinanceApp/FinanceApp`) that configures it. This directory holds TLA+
models of the parts of it that keep state across callbacks, the TLC runs that
check them and TLAPS proofs about all eight.

Nearly all of this code runs on the main thread. A handler or a completion is
therefore one step, and what interleaves is *when* a request is answered with
what the person, other answers, and the operating system (which may kill the
process) do meanwhile. There are no unit tests in the repository; its comments,
alert texts and `fatalError` messages are the only statements of intent, and
the violation runs quote those.

## Components

| Component | State | Operations | What makes it correct |
|---|---|---|---|
| **Session host** `ATCHostViewController`, `ATCPersistentStore`, `ATCFirebaseLoginManager`, `ATCOnboardingCoordinator`, login/sign-up managers | archived user, walkthrough flag, child screens, delegate wiring, host user, Face ID prompt, resync, login requests | launch, prompt answer, resync, login, sign-up, logout, location fix/write, kill | one screen at a time; who is on screen is who is stored; a locked session needs Face ID; every launch ends on a screen |
| **REST list** `ATCGenericRestAPIDataSource` + collection view | rows, page counter, loading flags, end flag, requests in flight | first/bottom/top load and their completions, publication on the server | nothing skipped, each item once, row counts agree with batch updates, refresh ends |
| **Firebase list** `ATCGenericFirebaseDataSource` + collection view | rows, last key, end flag, queries in flight | first/bottom load, push and removal of children | a row is lost or `removeFirst` traps only after a query started at a child that is no row; end means all; counts agree |
| **Phone screens** `ATCPhoneLoginScreenManager`, `ATCPhoneSignUpScreenManager` | contact point, visible fields, digits, stored verification | switch, tap, digit, backspace, answers, relaunch | what is visible is what a tap sends; no code without a verification |
| **Sign-up forms** `ATCSignUpScreenManager` and the email form of the phone screens | fields, request, account | edit, sign up, answer, log in | accounts keep the rules; the password typed logs in |
| **Profile** `ATCProfileViewController`, `ATCProfileFirebaseUpdater`, `FinanceAccountDetailsViewController` | uploads, updater, writes, document, user objects, picture on screen | choose, upload, remove, save, login | app and document agree when the writes are done; no picture gives way to an older one |
| **Onboarding navigation** `ATCClassicOnboardingCoordinator`, `ATCResetPasswordScreenManager`, country picker | navigation stack, what is presented over it, country codes and flags, password requests | push, back, reset, pick a country, alerts and their OK, completed login, logout, kill | an OK pops only its own screen; both screens send the code they show; a person who waits for the mail hears of it |
| **Watchlist** `ATCDiskPersistenceStore`, `AssetDetailsViewController`, `WatchlistViewController` | stored array, rows of the open list, star | open lists and details, tap the star, back, kill | what is stored is what was starred; the star tells the truth; the list misses nothing |
| **Trading keypad** `AssetTradingViewController` | text, trade button | key, back arrow, paste, cancel, trade | only an amount other than zero is traded |
| User reporting, user manager | blocked set, listeners | report, query, listen | the blocked set is complete; listeners are removed |
| Facebook API | collected posts | user request, recursive pages | each page once; completion is called |
| Walkthrough pages, drawer, search, layouts | page, drawer state, items, cached frames | taps, layout | see the plan |
| Models, adapters, cells, charts, SwiftUI widgets, purchases, vendored pods | none, or that of UIKit | — | not modelled |

How they interact: the login and sign-up managers call the coordinator, which
calls the host *if the host is its delegate*; the host stores the user and tells
`FinanceHostViewController`, which hands it to the data source provider and the
profile screen. A logout is a notification to the host. The location manager
calls the host, which writes through a profile updater and stores the user
again. Data sources call the collection view as their delegate. The coordinator
owns one instance of each onboarding screen and is the delegate of their
managers, which ask it to push and pop; one country picker serves both phone
screens. The asset screens meet only in the array in `UserDefaults`. Everything
remote is Firebase or REST with a completion on the main queue.

What is hard: an answer that arrives on a screen that has changed since;
requests that overlap because the progress view does not cover the buttons;
objects captured when a request began and used when it ends; errors answered
like empty results; flags that only a success resets; two `UserDefaults` entries
and a process that dies between them. `PROJECT.json` lists each at its line.

## Modules

* `Session` — abstract: a remembered identity and what the person in front of
  the device can use (`closed`, `locked`, `opening`, `guest`, `account`).
* `SessionHost` — the host, one action per handler; implements `Session`
  (`ImplementsSession`, with `surfaceShown` as the refinement mapping).
  `MCSessionHost` gives the constants values. `SessionHostProofs` holds proofs.
* `Feed` — abstract: rows only appear, at the end, and only of what the server
  published; each once unless `Repeats`.
* `RestFeed` — the REST data source composed with its collection view and a
  server; implements `Feed` with `list <- store`, `Repeats <- FALSE`.
  `RestFeedProofs` holds proofs.
* `FirebaseFeed` — the Firebase data source, likewise, with overlapping queries;
  implements `Feed` with `Repeats <- TRUE`, and repeats nothing until two queries
  have overlapped (`EachOnceInOrder`). `FirebaseFeedProofs` holds proofs.
* `PhoneAuth` — both phone screens, which share one `UserDefaults` key.
  `PhoneAuthProofs` holds proofs.
* `Onboarding` — the coordinator: the screens of `PhoneAuth` on a navigation
  stack with the password screen, the alerts and the country picker. It takes the
  actions of `PhoneAuth` by `INSTANCE` and implements it (`ImplementsPhoneAuth`):
  navigation only restricts what a person can do to the forms. `OnboardingProofs`
  holds proofs, and takes those of `PhoneAuth` over by `INSTANCE`.
* `SignUpForm` — the rules of the two email forms, with the login screen beside
  each. `form` says which of the two the app was built with. `SignUpFormProofs`
  holds proofs.
* `Profile` — profile screen, updater and account form over a Firestore
  document; `ProfileProofs` holds proofs.
* `AssetScreens` — the watchlist with the screens that read and write it, and
  the keypad presented over the details; `AssetScreensProofs` holds proofs.

Variables carry the names of the stored properties they model. Variables marked
*history* record what a property needs and no action reads them. Definitions
named `X_Y` beside a definition `X` are deliberate faults: each property is
shown to fail when `X` is replaced by one of them, and no specification uses
them. `PROJECT.json` maps every definition to its lines.

### Correspondence worth knowing

* **SessionHost.** `requests` counts login requests by stage (sign-in, document
  fetch, enrolment) and user: email, Facebook and Apple logins and sign-ups run
  through these stages. `wired` is `onboardingCoordinator.delegate === host`,
  which decides whether a completed login is heard. `trapped` is a `fatalError`.
  A kill keeps `persisted` and `walkthroughDone` and loses everything else.
  Locations, profile contents and the tab bar are abstracted away.
  `HasLocationUsage` says whether Info.plist describes the use of the location:
  without that iOS ignores the host's request for the permission and delivers no
  fix. The finance app's Info.plist has no such key, so as it ships
  `LocationFix` never happens. It has no `NSFaceIDUsageDescription` either: what
  the model says of the prompt is about devices with Touch ID.
* **RestFeed.** Items are numbered by publication; a page lists the newest
  first, so publication shifts pages. An answer describes the server at any
  moment between request and answer. `Faults` are transport errors and answers
  that are JSON but no list (which the API manager reports as success with nil).
  `shown` is the count the collection view keeps; UIKit raises when a batch
  update disagrees with it.
* **FirebaseFeed.** Keys grow, queries start at the last key and `removeFirst`
  drops the first result; `trapped` is that call on an empty array. A child is its
  key and whether its value is a dictionary (`records`, fixed when it is pushed):
  `Parsed` keeps the dictionaries, which become rows, while the last key and the
  size of a page are those of all children. Children are removed from the table
  too. So the child a query starts at may be no row when the answer comes, because
  it was removed or never was a dictionary, and then `removeFirst` drops a row
  that was never shown, or traps; and a whole page of children that are no
  dictionaries behind one row is taken for the end. The properties allow exactly
  that (`DroppedAt`, `HiddenPage`) and nothing else. A first page without rows
  leaves the list empty, since `LoadBottom` is the display of the last row.
  History: `starts` holds the keys that queries started at, `overlapped` that one
  was sent while another was under way.
* **PhoneAuth.** Digits are positions of filled fields, because only which
  fields are filled decides anything. UIKit asks the delegate about a deletion
  only in a field with text (an assumption: the code traps otherwise). The email
  and password fields are *not* hidden by a late verification or by a sign-up
  that succeeds, so they may be visible beside the others; the property
  therefore fixes the button, the phone and the code fields, and the email
  fields only while the contact point is email. The finance app ships with
  `isPhoneAuthEnabled` false; the screens are part of the core.
* **Onboarding.** Every screen is stored, so a popped screen keeps its state and
  its requests. `Presents` is UIKit's rule that a view controller presents
  nothing unless it is in the window and presents nothing yet; `Touchable` says
  that what is presented takes the touches. `modal` is `sent` for the one alert
  whose OK pops the stack. `shown` is whether the host shows this stack: a
  completed login takes it out of the window with whatever is presented over it,
  and a logout shows it again as it was. An alert is presented over whatever the
  host shows and outlives the change. Firebase may answer a form whose screen is
  off the stack; its alert is then refused and nobody hears of it. The flag of a
  screen whose view is first loaded after a pick is the default one although it
  sends the picked code: `FlagNamesTheCode` leaves those screens (`late`) out.
* **AssetScreens.** `retrieve` of a missing entry is the empty array. An asset is
  its ticker, which is all the store compares. `rows` are the watchlist's when it
  is open; nothing reads the rows of a closed list. Text is a sequence of the
  classes of keys that `Double(_:)` tells apart, and a text that UIKit edits
  without a key is made of the same ones. `odd` is history. These screens hang
  off `PortfolioViewController`, which is none of the four tabs that
  `FinanceHostViewController` makes at this commit.
* **SignUpForm.** A password is its length, the kinds of characters in it and
  whether a space surrounds it, which is all the expressions tell apart. Name
  editing between the tap and the answer is possible and modelled.
* **Profile.** Firestore sends a device's writes in order and completes them in
  order, so `writes` is a queue; reads see the document through it. An upload
  holds its updater weakly and the screen holds only the last updater. Photo
  lists are sets. The completions ignore errors, so `Refused` changes the user
  object like `Written` does. A login makes a new user object; the account form
  may outlive the one it was opened with.

The lists of the core are not instantiated by the finance app itself, whose
screens show local sample data; they are the core's public building blocks.

## Runs

| Run | Bounds | Shows |
|---|---|---|
| `session` | 3 users (one with Face ID, one Apple user, one plain), 1 request per stage and user, no updater, location fixes, biometrics | types, `SessionAgreement`, `OneScreen`, `OnboardingIsWired`, `WalkthroughBeforeSession`, liveness `LaunchShowsAScreen`, refinement of `Session` |
| `session_location` | the same with an updater besides, no biometrics | `MainIsRemembered`, `LocationWriteIsFinal` |
| `rest_feed` | pages of 2, 5 items, transport errors | `EndReached`, `BottomAsksNextPage`, `RowsMatch`, `FlagsAreOwed`, liveness `RefreshEnds`, refinement of `Feed` |
| `firebase_feed` | pages of 2, 5 keys, any of them no dictionary, 2 overlapping queries, removals | types, `NothingSkipped`, `FinishedMeansAll`, `NoTrap`, `EachOnceInOrder`, refinement of `Feed` |
| `phone_auth` | 2 code fields, 2 unanswered requests per kind and screen | `ScreenFollowsContactPoint`, `CodeHasVerification`, `CodeInOrder` |
| `onboarding` | 1 code field, 2 unanswered requests in the whole flow, 2 countries | types, `OKLeavesReset`, `FlagNamesTheCode`, liveness `ResetIsHeard`, refinement of `PhoneAuth` |
| `sign_up` | passwords of at most 7 characters beside spaces, names of at most 3 | types, `AccountIsStrong`, `PhonePasswordLogsIn` |
| `profile` | 2 pictures, 3 writes under way, 2 logins, 2 names | `ShownIsUsers`, `SettledAgreement`, `PicturesInOrder` |
| `asset_screens` | 3 assets, 2 of them priced, amounts of at most 3 keys | `StoredIsTapped`, `StarShowsStore`, `ListMissesNothing`, `TradeHasAmount`, `OthersKeepTheirOrder` |

The type invariants of `RestFeed`, `PhoneAuth`, `Profile` and `AssetScreens` are
proved (below) for all values of the constants and are no part of their runs.

Why the bounds suffice. In `session` two different users already make every
disagreement between the stores possible, and the third separates the Face ID
and the Apple paths; one request per stage and user leaves logins of different
users overlapping at every stage. `session` is the finance app's configuration
with location fixes added: without the Info.plist key the app does strictly less,
and nothing obliges a fix to come, so what holds there holds of the app as it
ships. `session_location` is a host of the core that has both the key and an
updater. In the feeds a page of two has an inside and a
boundary, five items make two full pages and a partial one, and items published
in between shift them by less and by more than a page. Two overlapping queries
are enough for the older one to be answered last and for the next to start from
where it left the last key, and five keys for a query that starts at a row, two
children that are no dictionaries behind it and a row beyond them. The phone
screens have two unanswered requests of a kind so that one may be late with
another under way. Length 7 is on the far side of the only length the rules
mention, 6, and length 3 of the name's 2. Two pictures and two logins are what
the order of uploads and the change of user objects need; three writes put one
between two others. In `onboarding` two requests of any kind are what it takes
for an answer to meet the alert of another, or for a login to complete under a
password request; the phone screens alone have more of them in `phone_auth`.
Three assets give an array a middle, and three keys are enough for a point
between digits and for two points; the proofs lift both bounds.

Deadlock is checked wherever the system cannot stop. The lists may stop: all
items published, everything loaded, nothing left to do; their two configurations say
`CHECK_DEADLOCK FALSE`.

### Disagreements found

Two runs end in a violation, each of a statement the repository makes.

* `session_resync` — "User is no longer existing" is also what a failed query
  means, so launching without a network logs out.
* `sign_up_trim` — the classic form trims the password, the login screen does
  not: what was typed to sign up is answered with "Las credenciales de acceso
  son incorrectas".

One contradiction is in the code and not in the app's behaviour: the finance app
turns on location updates and passes no profile updater
(`FinanceHostViewController.swift` 87 and 92), and the `fatalError` of
`ATCHostViewController.swift` 433 says that one must be passed. No run claims that
it is reached, because no fix arrives as the app ships.

The definitions translate three more differences between the alerts of the forms
and what the forms accept; they need no run to be seen. The alert of the classic
form asks for a digit and `passRegEx` does not (`ATCSignUpScreenManager.swift`
192 and 195). The alert of the phone form says at least six characters and its
expression takes exactly six (`ATCPhoneSignUpScreenManager.swift` 339 and 342).
Both say that the name must be longer than two characters and refuse only those
shorter than two. The alert of the classic form for a short email says that it
"debe estar vacío", must be empty, where the phone form says that it must not.

### Fairness

Safety runs assume none. `session` assumes that the Face ID prompt and the
resync are answered, if only with an error: LocalAuthentication and Firestore
always call back. Nothing is assumed of the person. `LaunchShowsAScreen` is
claimed with `DeviceHasBiometry = TRUE`; without it the code has no path out
(listed as a hazard). `rest_feed` assumes of each kind of request that an answer
comes for one under way, which the networking manager does on every path, if
only with an error. A failed refresh never resets its flag (a hazard), so
`RefreshEnds` says that the spinner stops *or* its request was lost, and
`FlagsAreOwed` that nothing else can leave a flag set. `onboarding` assumes that
Firebase answers `sendPasswordReset`; the person owes nothing, not even the tap
that closes an alert, because the alert is the answer. All of it is weak fairness
on the answer alone.

## Proofs

The proofs hold for every value of the constants that satisfies the named
assumptions. Each module defines an inductive invariant `IInv`, proves that
`Init` implies it and that every step preserves it, one step of the proof per
action, and derives the theorems from it. TLC checked the pieces first.

* **`SessionHostProofs`** — any set of users, any configuration. `IInv` adds to
  the properties what makes them inductive: a closed app holds nothing but its
  stores (`ClosedInv`), nothing else has started while a persisted user is being
  restored (`BootInv`), which screens imply the wiring (`ScreenInv`), nothing
  that leads to a session precedes the end of the walkthrough
  (`WalkthroughInv`), at most one location write is pending (`LocationInv`), and
  why a late location write cannot change who is stored where none can happen
  (`AgreementInv`). Theorems: `TypeCorrect`, `OneScreenAlways`,
  `OnboardingWiredAlways`, `WalkthroughFirst`, `MainRemembered`,
  `LocationFinal`, `AgreementWithoutLocationWrites` and `HostImplementsSession`.
  The last two assume that the profile updater or the Info.plist key is missing;
  the finance app has neither. With both, `SessionAgreement` is false: a write that
  completes after a logout stores the user it captured
  (`ATCHostViewController.swift` 443).
* **`RestFeedProofs`** — any page size, number of items and set of faults.
  The invariant says what the rows are made of: every page before the counter
  was delivered, so all items old enough to be on it are there, whatever was
  published meanwhile. Theorems: `TypeCorrect`, `RowsAlwaysMatch`,
  `PagesInOrder`, `NothingSkipped` (assuming that answers are lists),
  `FlagsOwed` and `RestFeedImplementsFeed`.
* **`ProfileProofs`** — any names, pictures, writes and logins. The invariant
  has three parts: the updater is that of the last picture chosen and pictures
  are queued in order (`OrderInv`); writes begin with the user of their time
  (`LoginInv`); and, field by field, either no write is under way and user and
  document agree, or the last write that touches the field belongs to this login
  or was read by it (`FieldInv`). That a non-empty set of queue positions has a
  last one is obtained from the well-foundedness of the naturals
  (`GreatestIndex`). Theorems: `TypeCorrect`, `ScreenShowsUser`, `Settles`,
  `InOrder`.
* **`PhoneAuthProofs`** — any number of code fields and of unanswered requests.
  `CodeInOrder` is not preserved by reasoning about cardinalities, so `IInv` has
  it as `FilledPrefix`: the filled fields are `1..k` for some `k`, which a digit
  makes `1..k + 1` (`NextField`) and a backspace `1..k - 1` (`LastField`).
  Theorems: `PhoneTypeCorrect`, `ScreenAlwaysFollows`,
  `CodeAlwaysHasVerification` and `CodeAlwaysInOrder`.
* **`AssetScreensProofs`** — any assets and prices, and amounts of any length.
  Two lemmas say what `append` and `remove` do to an array without repetitions
  (`AppendNew`, `RemoveOnce`), two more that neither moves another asset
  (`AppendKeepsOrder`, `RemoveKeepsOrder`); a tap on the star then takes the array
  and the history along together (`StarKeepsStore`). `ListMissesNothing` needs one fact
  more, `OpenedFromRow`: details over the watchlist are those of one of its rows,
  so a tap there cannot add what the list lacks. Theorems: `AssetTypeCorrect`,
  `StoredAlwaysTapped`, `StarAlwaysShowsStore`, `ListNeverMisses`,
  `TradeAlwaysHasAmount` and the action property `OthersAlwaysKeepTheirOrder`.

* **`FirebaseFeedProofs`** — any page size, number of keys and of overlapping
  queries. The properties are not inductive: `NothingSkipped` speaks of the last
  key, but the next answer extends the list from the key *its* query started at,
  which an older answer may have left behind. `IInv` therefore says of the start
  of every query in flight, as of the last key, that it is `Covered`: every row up
  to it is `Accounted` for, shown or dropped. The child that `removeFirst` drops is
  then either the start, which is accounted for already, or the first row after a
  start that is no row. What is accounted for stays so, because new keys are
  greater than the old ones (`NoOldRows`, `StaysAccounted`), and the server's steps
  are one lemma (`ServerStep`). That the end is right is a matter of counting: an
  answer that leaves a child out is as long as it may be (`QueryLeavesOut`), so
  with one row in it the others fill a page. Until queries overlap, the one in flight starts at the
  last key and no row is beyond it (`OrderInv`), which is what keeps rows
  different and in order. Lemmas about the operators come first: an answer has no
  gap and has its start if that is still there (`QueryHasNoGap`,
  `QueryHasStart`), and a listing of it exists (`ListingExists`, by the least
  counterexample). Theorems: `FirebaseTypeCorrect`, `FirebaseNothingSkipped`,
  `FinishedAlwaysMeansAll`, `NeverTraps`, `AlwaysInOrder`,
  `FirebaseFeedImplementsFeed`, and `CompleteWhileStartsAreRows`: only a page that
  ends in a child that is no row, or becomes none, costs the list its next row or
  the app its life.
* **`OnboardingProofs`** — any countries, code fields and unanswered requests.
  `OnboardingImplementsPhoneAuth` goes action by action: what a person does on the
  screen that can be touched, and every answer, is an action of `PhoneAuth`; the
  rest leaves the forms alone. With it the theorems of `PhoneAuthProofs` hold of
  the forms on the stack (`FormsAlwaysCorrect`), which is where the phone part of
  `OnboardingTypeCorrect` comes from. `IInv` is the types of the flow with
  `OKLeavesReset` and `FlagNamesTheCode`: they are inductive once the stack is
  known to be one of `Stacks`, so the work is in what a push and a pop make of a
  stack (`StackFacts`, `PopsToAStack`). Theorems also: `OKAlwaysLeavesReset` and
  `FlagAlwaysNamesTheCode`.
* **`SignUpFormProofs`** — names and passwords of any length. `IInv` says that the
  request and the account it makes carry what was typed, trimmed by the classic
  form, and a match of the rules at the time of the tap, and that there is one
  request at a time, so the account is the answer to it. Theorems:
  `SignUpTypeCorrect`, `AccountAlwaysStrong`, `PhonePasswordAlwaysLogsIn`, and
  `LostOnlyByTrimming`: the violation of `sign_up_trim` is the only way for what
  was typed at sign-up not to log in.

Only model-checked: the liveness properties `LaunchShowsAScreen`, `RefreshEnds`
and `ResetIsHeard` (fairness and ENABLED are out of the prover's reach). Every
other property of the passing runs is proved, `SessionAgreement` and
`ImplementsSession` for apps that lack the updater or the location key and `EndReached` for
answers that are lists, as their runs check them.

Two definitions are written for the proofs. `InKeyOrder` describes the listing
of an answer by its elements and their order rather than computing it, and
`OthersKeepTheirOrder` compares positions (`NotBelow`) rather than the arrays
without one asset: what the library's `SetToSortSeq` and `SelectSeq` return
needs an induction over data. `TypeOK` of `Onboarding` leaves `resets` unbounded
because its bound is one of the model, shared with the forms through a sum.

## Not modelled

Rendering, cells, adapters, charts, localisation, archiving of model objects and
static sample data have no behaviour of their own. Vendored code is left alone.
The SwiftUI widgets, in-app purchases, media viewer, user reporting, Facebook
wall posts, the drawer and the Firestore expense provider are not instantiated
by the finance app. The drawer is the core's other navigation style; the app
uses the tab bar. The column layouts are arithmetic over the sizes of cells that
no event interleaves with. The repository is for the most part vendored C and C++
(gRPC, BoringSSL, Firestore, leveldb): its own program is the Swift under
`src/Core` and `src/FinanceApp/FinanceApp`, so the models stand for a small share
of all the lines. Of `ATCProfileFirebaseUpdater`, `removePhoto(url:)`,
`updateProfilePicture` and `updateSettings` are reached by no screen of it.

## Plan

Done: `Session`, `SessionHost`, `Feed`, `RestFeed`, `FirebaseFeed`, `PhoneAuth`,
`SignUpForm`, `Profile`, `Onboarding` and `AssetScreens`, with proofs about all of
the detailed ones. Left, in order:

1. Theorems: what of `SessionAgreement` holds of a host that stores locations,
   and which rows of `FirebaseFeed` overlapping queries may repeat.
2. `Reporter` — report, block and the joined queries, and the snapshot
   listeners of the user manager; abstract specification: a set of users one
   does not see. No screen of the finance app uses it yet.
3. `WallPosts` — recursive pagination of the Facebook API, likewise unused.
4. `Layout` — the column layout against a reference definition of its frames.
