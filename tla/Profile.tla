------------------------------- MODULE Profile -------------------------------
(***************************************************************************)
(* The profile tab: ATCProfileViewController, its ATCProfileFirebaseUpdater*)
(* and the account form, FinanceAccountDetailsViewController.              *)
(*                                                                         *)
(* A picture is uploaded to the storage first; when it is there, the user's*)
(* document is written, and when that write completes the user object of   *)
(* the app is changed.  The person goes on tapping meanwhile.  Firestore   *)
(* sends the writes of a device, and completes them, in the order they were*)
(* made.  A login makes a new user object; what is under way keeps the one *)
(* it started with.                                                        *)
(***************************************************************************)
EXTENDS Naturals, Sequences, FiniteSetsExt

CONSTANTS
    Names,          \* what the account form may hold
    MaxPictures,    \* bound: pictures chosen
    MaxWrites,      \* bound: writes that are under way
    MaxLogins       \* bound: logins to the account

ASSUME BoundsAssumption ==
    MaxPictures \in Nat /\ MaxWrites \in Nat /\ MaxLogins \in Nat \ {0}
ASSUME NamesAssumption == Names # {}

\* Pictures are numbered in the order they are chosen.
Pictures == 1..MaxPictures
DefaultAvatar == 0
Users == 1..MaxLogins

VARIABLES
    chosen,     \* the last picture that was chosen
    uploads,    \* under way, with the user object each will change
    updater,    \* the picture whose updater the screen holds
    writes,     \* of the document, under way, oldest first
    document,   \* users/<uid>
    users,      \* the user objects, by login
    login,      \* the one of the screen
    shown,      \* the picture on the screen
    refused,    \* history: the server refused a write
    late        \* history: a write began that changes the user of an earlier login

vars == <<chosen, uploads, updater, writes, document, users, login, shown,
          refused, late>>

Upload == [picture : Pictures, user : Users]

Profiles == [picture : Pictures \cup {DefaultAvatar}, photos : SUBSET Pictures, name : Names]
Data == [picture : Pictures, photos : SUBSET Pictures]
            \cup [picture : {DefaultAvatar}] \cup [name : Names]

TypeOK ==
    /\ chosen \in 0..MaxPictures
    /\ uploads \subseteq Upload
    /\ updater \in Pictures \cup {0}
    /\ writes \in Seq([data : Data, user : Users])
    /\ Len(writes) <= MaxWrites
    /\ document \in Profiles
    /\ users \in [Users -> Profiles]
    /\ login \in Users
    /\ shown \in Pictures \cup {DefaultAvatar}
    /\ refused \in BOOLEAN
    /\ late \in BOOLEAN

Init ==
    /\ chosen = 0
    /\ uploads = {}
    /\ updater = 0
    /\ writes = <<>>
    /\ \E n \in Names : document = [picture |-> DefaultAvatar, photos |-> {}, name |-> n]
    /\ users = [u \in Users |-> document]
    /\ login = 1
    /\ shown = DefaultAvatar
    /\ refused = FALSE
    /\ late = FALSE

\* setData(data, merge: true), and the assignments to the user object.
Merged(profile, data) ==
    [f \in DOMAIN profile |-> IF f \in DOMAIN data THEN data[f] ELSE profile[f]]

Write(data, user) ==
    /\ Len(writes) < MaxWrites
    /\ writes' = Append(writes, [data |-> data, user |-> user])
    /\ late' = (late \/ user < login)

-----------------------------------------------------------------------------
(* The picture.                                                            *)

\* updateProfileImage: the screen lets go of the updater it had.
ChoosePicture ==
    /\ chosen < MaxPictures
    /\ chosen' = chosen + 1
    /\ updater' = chosen'
    /\ uploads' = uploads \cup {[picture |-> chosen', user |-> login]}
    /\ UNCHANGED <<writes, document, users, login, shown, refused, late>>

\* Mutant of Uploaded: the completion keeps its updater.
Uploaded_KeepsUpdater(u) ==
    /\ uploads' = uploads \ {u}
    /\ Write([picture |-> u.picture, photos |-> users[u.user].photos \cup {u.picture}], u.user)
    /\ UNCHANGED <<chosen, updater, document, users, login, shown, refused>>

\* The upload has ended, and its updater is still there.
Uploaded(u) ==
    /\ updater = u.picture
    /\ uploads' = uploads \ {u}
    /\ Write([picture |-> u.picture, photos |-> users[u.user].photos \cup {u.picture}], u.user)
    /\ UNCHANGED <<chosen, updater, document, users, login, shown, refused>>

\* The upload has failed, or its updater is gone: completion(false).
UploadLost(u) ==
    /\ uploads' = uploads \ {u}
    /\ shown' = users[login].picture
    /\ UNCHANGED <<chosen, updater, writes, document, users, login, refused, late>>

\* ATCProfileViewController.removePhoto
RemovePhoto ==
    /\ Write([picture |-> DefaultAvatar], login)
    /\ UNCHANGED <<chosen, uploads, updater, document, users, login, shown, refused>>

-----------------------------------------------------------------------------
(* The account form, the end of a write, a login.                          *)

\* didTapDone, with the fields filled in.  The form stays on its stack
\* through a logout and keeps the user it was opened with.
SaveAccount(n, u) ==
    /\ u <= login
    /\ Write([name |-> n], u)
    /\ UNCHANGED <<chosen, uploads, updater, document, users, login, shown, refused>>

\* Mutants of Completed: the screen is not updated; the user object is not.
Completed_NotShown(w) ==
    /\ writes' = Tail(writes)
    /\ users' = [users EXCEPT ![w.user] = Merged(@, w.data)]
    /\ UNCHANGED <<chosen, uploads, updater, login, shown, late>>

Completed_NotKept(w) ==
    /\ writes' = Tail(writes)
    /\ shown' = IF "picture" \in DOMAIN w.data THEN users[login].picture ELSE shown
    /\ UNCHANGED <<chosen, uploads, updater, users, login, late>>

\* The completions ignore the error.  Those of the picture update the
\* screen, with the user it has by now.
Completed(w) ==
    /\ writes' = Tail(writes)
    /\ users' = [users EXCEPT ![w.user] = Merged(@, w.data)]
    /\ shown' = IF "picture" \in DOMAIN w.data THEN users'[login].picture ELSE shown
    /\ UNCHANGED <<chosen, uploads, updater, login, late>>

Written ==
    /\ writes # <<>>
    /\ Completed(Head(writes))
    /\ document' = Merged(document, Head(writes).data)
    /\ UNCHANGED refused

Refused ==
    /\ writes # <<>>
    /\ Completed(Head(writes))
    /\ refused' = TRUE
    /\ UNCHANGED document

\* What Firestore reads: the document and the writes that are under way.
Read ==
    [f \in DOMAIN document |->
        LET W == {i \in 1..Len(writes) : f \in DOMAIN writes[i].data}
        IN  IF W = {} THEN document[f] ELSE writes[Max(W)].data[f]]

\* A logout and a login: the host gives the screen a new user.
LogIn ==
    /\ login < MaxLogins
    /\ login' = login + 1
    /\ users' = [users EXCEPT ![login'] = Read]
    /\ shown' = Read.picture
    /\ UNCHANGED <<chosen, uploads, updater, writes, document, refused, late>>

Next ==
    \/ ChoosePicture
    \/ \E u \in uploads : Uploaded(u) \/ UploadLost(u)
    \/ RemovePhoto
    \/ \E n \in Names, u \in Users : SaveAccount(n, u)
    \/ Written
    \/ Refused
    \/ LogIn

Spec == Init /\ [][Next]_vars

-----------------------------------------------------------------------------
(* Properties                                                              *)

\* The screen shows the picture of its user object, whichever upload,
\* removal or login ended last.
ShownIsUsers == shown = users[login].picture

\* Once the writes are done the user object is what the document says,
\* wherever the writes began and the logins came between them: unless one
\* was refused, or began when its user object had been replaced.
SettledAgreement == writes = <<>> /\ ~refused /\ ~late => users[login] = document

\* A picture never gives way to one that was chosen before it, however
\* the uploads end: a late one finds its updater gone.
PicturesInOrder ==
    [][document'.picture = DefaultAvatar \/ document.picture <= document'.picture]_vars

=============================================================================
