---------------------------- MODULE ProfileProofs ----------------------------
(***************************************************************************)
(* Proofs about Profile, for any names, and any numbers of pictures,       *)
(* writes and logins.                                                      *)
(***************************************************************************)
EXTENDS Profile, SequenceTheorems, WellFoundedInduction, TLAPS

Fields == {"picture", "photos", "name"}

WriteType == [data : Data, user : Users]

-----------------------------------------------------------------------------
(* Merging and reading                                                     *)

\* A set of indices that is not empty has a greatest element.
LEMMA GreatestIndex ==
  ASSUME NEW n \in Nat, NEW W \in SUBSET (1..n), W # {}
  PROVE  Max(W) \in W /\ \A j \in W : j <= Max(W)
<1> DEFINE T == {k \in 0..n : n - k \in W}
<1>1. T \subseteq 0..n
  OBVIOUS
<1>2. \A j \in W : n - j \in T
  <2> SUFFICES ASSUME NEW j \in W PROVE n - j \in T
    OBVIOUS
  <2>1. j \in 1..n
    OBVIOUS
  <2>2. n - j \in 0..n /\ n - (n - j) = j
    BY <2>1
  <2> QED
    BY <2>2
<1>3. T # {} /\ T \subseteq Nat
  <2>1. 0..n \subseteq Nat
    OBVIOUS
  <2>2. \E j \in W : TRUE
    OBVIOUS
  <2> HIDE DEF T
  <2> QED
    BY <1>1, <1>2, <2>1, <2>2
<1>4. PICK x \in T : \A y \in T : ~ (<<y, x>> \in OpToRel(<, Nat))
  <2> HIDE DEF T
  <2> QED
    BY <1>3, NatLessThanWellFounded, WFMin
<1>5. \A y \in T : ~ (y < x)
  <2>1. \A a, b \in Nat : a < b => <<a, b>> \in OpToRel(<, Nat)
    BY DEF OpToRel
  <2> HIDE DEF T
  <2> QED
    BY <1>3, <1>4, <2>1
<1>6. n - x \in W /\ \A j \in W : n - x >= j
  <2>1. n - x \in W /\ x \in 0..n
    BY <1>4
  <2>2. ASSUME NEW j \in W PROVE n - x >= j
    <3>1. ~ (n - j < x) /\ j \in 1..n
      BY <1>2, <1>5
    <3> QED
      BY <2>1, <3>1
  <2> QED
    BY <2>1, <2>2
<1>7. Max(W) \in W /\ \A j \in W : Max(W) >= j
  BY <1>6 DEF Max
<1>8. \A j \in W : j \in Nat
  OBVIOUS
<1> QED
  BY <1>7, <1>8

\* A write names fields of a profile and gives them their types.
LEMMA DataFacts ==
  ASSUME NEW d \in Data
  PROVE  /\ DOMAIN d \subseteq Fields
         /\ "picture" \in DOMAIN d => d.picture \in Pictures \cup {DefaultAvatar}
         /\ "photos" \in DOMAIN d => d.photos \in SUBSET Pictures
         /\ "name" \in DOMAIN d => d.name \in Names
  BY DEF Data, Fields

LEMMA ProfileFacts ==
  ASSUME NEW p \in Profiles
  PROVE  /\ DOMAIN p = Fields
         /\ p = [f \in Fields |-> p[f]]
         /\ p.picture \in Pictures \cup {DefaultAvatar}
         /\ p.photos \in SUBSET Pictures
         /\ p.name \in Names
  BY DEF Profiles, Fields

LEMMA ProfileBuilt ==
  ASSUME NEW g, g = [f \in Fields |-> g[f]],
         g["picture"] \in Pictures \cup {DefaultAvatar},
         g["photos"] \in SUBSET Pictures,
         g["name"] \in Names
  PROVE  g \in Profiles
  BY DEF Profiles, Fields

\* Merging a write into a profile gives a profile.
LEMMA MergedFacts ==
  ASSUME NEW p \in Profiles, NEW d \in Data
  PROVE  /\ Merged(p, d) \in Profiles
         /\ \A f \in Fields :
               Merged(p, d)[f] = IF f \in DOMAIN d THEN d[f] ELSE p[f]
<1> DEFINE g == Merged(p, d)
<1>1. g = [f \in Fields |-> IF f \in DOMAIN d THEN d[f] ELSE p[f]]
  BY ProfileFacts DEF Merged
<1>2. g = [f \in Fields |-> g[f]]
  BY <1>1
<1>3. g["picture"] \in Pictures \cup {DefaultAvatar}
  BY <1>1, ProfileFacts, DataFacts DEF Fields
<1>4. g["photos"] \in SUBSET Pictures
  BY <1>1, ProfileFacts, DataFacts DEF Fields
<1>5. g["name"] \in Names
  BY <1>1, ProfileFacts, DataFacts DEF Fields
<1>6. g \in Profiles
  <2> HIDE DEF g
  <2> QED
    BY <1>2, <1>3, <1>4, <1>5, ProfileBuilt
<1> QED
  BY <1>1, <1>6

\* What Firestore reads is a profile.  Each of its fields is the last that
\* a write under way gives it, or the document's.
LEMMA ReadFacts ==
  ASSUME document \in Profiles, writes \in Seq(WriteType)
  PROVE  /\ Read \in Profiles
         /\ \A f \in Fields :
               \/ /\ \A i \in 1..Len(writes) : f \notin DOMAIN writes[i].data
                  /\ Read[f] = document[f]
               \/ \E i \in 1..Len(writes) :
                     /\ f \in DOMAIN writes[i].data
                     /\ \A j \in 1..Len(writes) : f \in DOMAIN writes[j].data => j <= i
                     /\ Read[f] = writes[i].data[f]
<1> DEFINE W(f) == {i \in 1..Len(writes) : f \in DOMAIN writes[i].data}
<1>1. Read = [f \in Fields |-> IF W(f) = {} THEN document[f] ELSE writes[Max(W(f))].data[f]]
  BY ProfileFacts DEF Read
<1>2. ASSUME NEW f \in Fields
      PROVE  \/ /\ \A i \in 1..Len(writes) : f \notin DOMAIN writes[i].data
                /\ Read[f] = document[f]
             \/ \E i \in 1..Len(writes) :
                   /\ f \in DOMAIN writes[i].data
                   /\ \A j \in 1..Len(writes) : f \in DOMAIN writes[j].data => j <= i
                   /\ Read[f] = writes[i].data[f]
  <2>1. CASE W(f) = {}
    BY <1>1, <2>1
  <2>2. CASE W(f) # {}
    <3>1. Len(writes) \in Nat
      OBVIOUS
    <3>2. Max(W(f)) \in W(f) /\ \A j \in W(f) : j <= Max(W(f))
      BY <2>2, <3>1, GreatestIndex
    <3>3. Read[f] = writes[Max(W(f))].data[f]
      BY <1>1, <2>2
    <3> QED
      BY <3>2, <3>3
  <2> QED
    BY <2>1, <2>2
<1>3. \A i \in 1..Len(writes) : writes[i].data \in Data
  <2>1. \A i \in 1..Len(writes) : writes[i] \in WriteType
    OBVIOUS
  <2> QED
    BY <2>1 DEF WriteType
<1>4. Read = [f \in Fields |-> Read[f]]
  BY <1>1
<1>5. Read["picture"] \in Pictures \cup {DefaultAvatar}
  BY <1>2, <1>3, DataFacts, ProfileFacts DEF Fields
<1>6. Read["photos"] \in SUBSET Pictures
  BY <1>2, <1>3, DataFacts, ProfileFacts DEF Fields
<1>7. Read["name"] \in Names
  BY <1>2, <1>3, DataFacts, ProfileFacts DEF Fields
<1>8. Read \in Profiles
  BY <1>4, <1>5, <1>6, <1>7, ProfileBuilt
<1> QED
  BY <1>2, <1>8

-----------------------------------------------------------------------------
(* The inductive invariant                                                 *)

\* The updater on the screen is that of the last picture chosen; pictures
\* are written in the order they were chosen.
OrderInv ==
    /\ updater = chosen
    /\ document.picture <= chosen
    /\ \A i \in 1..Len(writes) : "picture" \in DOMAIN writes[i].data =>
           /\ writes[i].data.picture <= chosen
           /\ \/ writes[i].data.picture = DefaultAvatar
              \/ document.picture <= writes[i].data.picture
    /\ \A i, j \in 1..Len(writes) :
           /\ i < j
           /\ "picture" \in DOMAIN writes[i].data
           /\ "picture" \in DOMAIN writes[j].data
           => \/ writes[j].data.picture = DefaultAvatar
              \/ writes[i].data.picture <= writes[j].data.picture

\* Writes begin with the user object of their time.
LoginInv ==
    /\ \A u \in uploads : u.user <= login
    /\ ~late => /\ \A i \in 1..Len(writes) : writes[i].user <= login
                /\ \A i, j \in 1..Len(writes) : i < j => writes[i].user <= writes[j].user

\* A field that no write is going to change is the document's; the last
\* write that will change it is one of this login or was read by it.
FieldInv ==
    ~late /\ ~refused => \A f \in Fields :
        /\ (\A i \in 1..Len(writes) : f \notin DOMAIN writes[i].data)
              => users[login][f] = document[f]
        /\ \A i \in 1..Len(writes) :
              /\ f \in DOMAIN writes[i].data
              /\ \A j \in 1..Len(writes) : f \in DOMAIN writes[j].data => j <= i
              => writes[i].user = login \/ users[login][f] = writes[i].data[f]

IInv == TypeOK /\ ShownIsUsers /\ OrderInv /\ LoginInv /\ FieldInv

LEMMA InitInvariant == Init => IInv
<1> SUFFICES ASSUME Init PROVE IInv
  OBVIOUS
<1>1. PICK n \in Names : document = [picture |-> DefaultAvatar, photos |-> {}, name |-> n]
  BY DEF Init
<1>2. document \in Profiles /\ document.picture = DefaultAvatar
  BY <1>1 DEF Profiles
<1>3. writes = <<>> /\ Len(writes) = 0 /\ 1..Len(writes) = {}
  BY DEF Init
<1>4. login = 1 /\ login \in Users
  BY BoundsAssumption DEF Init, Users
<1>5. TypeOK
  <2>1. writes \in Seq([data : Data, user : Users]) /\ Len(writes) <= MaxWrites
    BY <1>3, BoundsAssumption
  <2>2. chosen \in 0..MaxPictures /\ uploads \subseteq Upload
    BY BoundsAssumption DEF Init
  <2>3. updater \in Pictures \cup {0} /\ shown \in Pictures \cup {DefaultAvatar}
    BY DEF Init
  <2>4. users \in [Users -> Profiles]
    BY <1>2 DEF Init
  <2>5. refused \in BOOLEAN /\ late \in BOOLEAN
    BY DEF Init
  <2> QED
    BY <1>2, <1>4, <2>1, <2>2, <2>3, <2>4, <2>5 DEF TypeOK
<1>6. users[login] = document
  BY <1>4 DEF Init
<1>7. ShownIsUsers
  BY <1>2, <1>6 DEF Init, ShownIsUsers
<1>8. OrderInv
  BY <1>2, <1>3 DEF Init, OrderInv, DefaultAvatar
<1>9. LoginInv /\ FieldInv
  BY <1>3, <1>6 DEF Init, LoginInv, FieldInv
<1> QED
  BY <1>5, <1>7, <1>8, <1>9 DEF IInv

-----------------------------------------------------------------------------
(* The steps                                                               *)

LEMMA TypedWrites ==
  ASSUME TypeOK
  PROVE  /\ writes \in Seq(WriteType)
         /\ Len(writes) \in Nat
         /\ \A i \in 1..Len(writes) :
               /\ writes[i].data \in Data
               /\ writes[i].user \in Users
<1>1. writes \in Seq(WriteType)
  BY DEF TypeOK, WriteType
<1>2. \A i \in 1..Len(writes) : writes[i] \in WriteType
  BY <1>1
<1> QED
  BY <1>1, <1>2 DEF WriteType

LEMMA Numbers ==
  ASSUME TypeOK
  PROVE  /\ chosen \in Nat /\ chosen <= MaxPictures /\ login \in Nat
         /\ Users \subseteq Nat
         /\ Pictures \subseteq Nat
         /\ document.picture \in Nat
         /\ \A i \in 1..Len(writes) :
               "picture" \in DOMAIN writes[i].data => writes[i].data.picture \in Nat
<1>1. Users \subseteq Nat /\ Pictures \subseteq Nat
  BY BoundsAssumption DEF Users, Pictures
<1>2. chosen \in Nat /\ chosen <= MaxPictures /\ login \in Nat
  BY <1>1, BoundsAssumption DEF TypeOK
<1>5. \A x \in Pictures \cup {DefaultAvatar} : x \in Nat
  BY <1>1 DEF DefaultAvatar
<1>3. document.picture \in Nat
  BY <1>1, ProfileFacts DEF TypeOK, DefaultAvatar
<1>4. ASSUME NEW i \in 1..Len(writes), "picture" \in DOMAIN writes[i].data
      PROVE  writes[i].data.picture \in Nat
  <2>1. writes[i].data \in Data
    BY TypedWrites
  <2>2. writes[i].data.picture \in Pictures \cup {DefaultAvatar}
    BY <1>4, <2>1, DataFacts
  <2> QED
    BY <1>5, <2>2
<1> QED
  BY <1>1, <1>2, <1>3, <1>4

\* A write that begins.  Its picture, if it has one, is the last chosen.
LEMMA WriteStep ==
  ASSUME IInv, NEW d \in Data, NEW u \in Users, u <= login,
         Write(d, u),
         "picture" \in DOMAIN d => d.picture \in {DefaultAvatar, chosen},
         uploads' \subseteq uploads,
         UNCHANGED <<chosen, updater, document, users, login, shown, refused>>
  PROVE  IInv'
<1> DEFINE n == Len(writes)
           w == [data |-> d, user |-> u]
<1>1. TypeOK /\ ShownIsUsers /\ OrderInv /\ LoginInv /\ FieldInv
  BY DEF IInv
<1>2. w \in WriteType /\ writes \in Seq(WriteType) /\ n \in Nat /\ n < MaxWrites
  BY <1>1, TypedWrites DEF WriteType, Write
<1>3. /\ writes' = Append(writes, w)
      /\ late' = (late \/ u < login)
  BY DEF Write
<1>4. /\ writes' \in Seq(WriteType)
      /\ Len(writes') = n + 1
      /\ \A i \in 1..n : writes'[i] = writes[i]
      /\ writes'[n + 1] = w
  BY <1>2, <1>3, AppendProperties
<1>5. w.data = d /\ w.user = u
  OBVIOUS
<1>6. 1..Len(writes') = 1..n \cup {n + 1}
  BY <1>2, <1>4
<1> HIDE DEF n, w
<1>7. TypeOK'
  <2>1. Len(writes') <= MaxWrites
    BY <1>2, <1>4, BoundsAssumption
  <2>2. late' \in BOOLEAN
    BY <1>1, <1>3 DEF TypeOK
  <2> QED
    BY <1>1, <1>4, <2>1, <2>2 DEF TypeOK, WriteType
<1>8. ShownIsUsers'
  BY <1>1 DEF ShownIsUsers
<1>9. OrderInv'
  <2>1. chosen \in Nat /\ document.picture \in Nat
    BY <1>1, Numbers
  <2>2. \A i \in 1..n : "picture" \in DOMAIN writes[i].data => writes[i].data.picture <= chosen
    BY <1>1 DEF OrderInv, n
  <2>3. "picture" \in DOMAIN d => d.picture <= chosen
    BY <2>1 DEF DefaultAvatar
  <2>4. \A i \in 1..Len(writes') : "picture" \in DOMAIN writes'[i].data =>
           /\ writes'[i].data.picture <= chosen
           /\ \/ writes'[i].data.picture = DefaultAvatar
              \/ document.picture <= writes'[i].data.picture
    BY <1>1, <1>4, <1>5, <1>6, <2>3 DEF OrderInv, n
  <2>5. \A i, j \in 1..Len(writes') :
           /\ i < j
           /\ "picture" \in DOMAIN writes'[i].data
           /\ "picture" \in DOMAIN writes'[j].data
           => \/ writes'[j].data.picture = DefaultAvatar
              \/ writes'[i].data.picture <= writes'[j].data.picture
    <3> SUFFICES ASSUME NEW i \in 1..Len(writes'), NEW j \in 1..Len(writes'), i < j,
                        "picture" \in DOMAIN writes'[i].data,
                        "picture" \in DOMAIN writes'[j].data
                 PROVE  \/ writes'[j].data.picture = DefaultAvatar
                        \/ writes'[i].data.picture <= writes'[j].data.picture
      OBVIOUS
    <3>1. i \in 1..n
      BY <1>2, <1>4
    <3>2. CASE j \in 1..n
      BY <1>1, <1>4, <3>1, <3>2 DEF OrderInv, n
    <3>3. CASE j = n + 1
      BY <1>4, <1>5, <2>2, <3>1, <3>3
    <3> QED
      BY <1>6, <3>2, <3>3
  <2> QED
    BY <1>1, <2>4, <2>5 DEF OrderInv
<1>10. LoginInv'
  <2>1. login \in Nat /\ Users \subseteq Nat
    BY <1>1, Numbers
  <2>2. ASSUME ~late'
        PROVE  /\ \A i \in 1..Len(writes') : writes'[i].user <= login
               /\ \A i, j \in 1..Len(writes') : i < j => writes'[i].user <= writes'[j].user
    <3>0. ~late /\ ~ (u < login)
      BY <1>3, <2>2, Zenon
    <3>1. ~late /\ u = login
      BY <2>1, <3>0
    <3>2. \A i \in 1..n : writes'[i].user <= login
      BY <1>1, <1>4, <3>1 DEF LoginInv, n
    <3>3. writes'[n + 1].user = login
      BY <1>4, <1>5, <3>1
    <3>4. ASSUME NEW i \in 1..Len(writes'), NEW j \in 1..Len(writes'), i < j
          PROVE  writes'[i].user <= writes'[j].user
      <4>1. i \in 1..n
        BY <1>2, <1>4, <3>4
      <4>2. CASE j \in 1..n
        BY <1>1, <1>4, <3>1, <3>4, <4>1, <4>2 DEF LoginInv, n
      <4>3. CASE j = n + 1
        BY <3>2, <3>3, <4>1, <4>3
      <4> QED
        BY <1>6, <4>2, <4>3
    <3> QED
      BY <1>6, <2>1, <3>2, <3>3, <3>4
  <2> QED
    BY <1>1, <2>2 DEF LoginInv
<1>11. FieldInv'
  <2>1. login \in Nat /\ Users \subseteq Nat
    BY <1>1, Numbers
  <2> SUFFICES ASSUME ~late', ~refused', NEW f \in Fields
      PROVE  /\ (\A i \in 1..Len(writes') : f \notin DOMAIN writes'[i].data)
                   => users[login][f] = document[f]
             /\ \A i \in 1..Len(writes') :
                   /\ f \in DOMAIN writes'[i].data
                   /\ \A j \in 1..Len(writes') : f \in DOMAIN writes'[j].data => j <= i
                   => writes'[i].user = login \/ users[login][f] = writes'[i].data[f]
    BY DEF FieldInv
  <2>0. ~late /\ ~refused /\ ~ (u < login)
    BY <1>3, Zenon
  <2>2. ~late /\ ~refused /\ u = login
    BY <2>0, <2>1
  <2>3. (\A i \in 1..n : f \notin DOMAIN writes[i].data) => users[login][f] = document[f]
    BY <1>1, <2>2 DEF FieldInv, n
  <2>4. \A i \in 1..n :
           /\ f \in DOMAIN writes[i].data
           /\ \A j \in 1..n : f \in DOMAIN writes[j].data => j <= i
           => writes[i].user = login \/ users[login][f] = writes[i].data[f]
    BY <1>1, <2>2 DEF FieldInv, n
  <2>5. writes'[n + 1].user = login
    BY <1>4, <1>5, <2>2
  <2>6. (\A i \in 1..Len(writes') : f \notin DOMAIN writes'[i].data)
            => users[login][f] = document[f]
    BY <1>4, <1>6, <2>3
  <2>7. ASSUME NEW i \in 1..n, f \in DOMAIN writes'[i].data,
               \A j \in 1..Len(writes') : f \in DOMAIN writes'[j].data => j <= i
        PROVE  writes'[i].user = login \/ users[login][f] = writes'[i].data[f]
    <3>1. \A j \in 1..n : f \in DOMAIN writes[j].data => j <= i
      BY <1>4, <1>6, <2>7
    <3> QED
      BY <1>4, <2>4, <2>7, <3>1
  <2> QED
    BY <1>6, <2>5, <2>6, <2>7
<1> QED
  BY <1>7, <1>8, <1>9, <1>10, <1>11 DEF IInv

\* The oldest write completes; the document takes it or refuses it.
LEMMA CompletedStep ==
  ASSUME IInv, writes # <<>>, Completed(Head(writes)),
         \/ document' = Merged(document, Head(writes).data) /\ refused' = refused
         \/ document' = document /\ refused' = TRUE
  PROVE  IInv'
<1> DEFINE n == Len(writes)
           h == writes[1]
<1>1. TypeOK /\ ShownIsUsers /\ OrderInv /\ LoginInv /\ FieldInv
  BY DEF IInv
<1>2. writes \in Seq(WriteType) /\ n \in Nat /\ h = Head(writes) /\ n > 0
  BY <1>1, TypedWrites
<1>3. h.data \in Data /\ h.user \in Users
  BY <1>1, <1>2, TypedWrites
<1>4. /\ writes' = Tail(writes)
      /\ users' = [users EXCEPT ![h.user] = Merged(users[h.user], h.data)]
      /\ shown' = IF "picture" \in DOMAIN h.data THEN users'[login].picture ELSE shown
      /\ UNCHANGED <<chosen, uploads, updater, login, late>>
      /\ document' = Merged(document, h.data) \/ document' = document
      /\ ~refused' => ~refused /\ document' = Merged(document, h.data)
  BY <1>2 DEF Completed
<1>5. /\ writes' \in Seq(WriteType)
      /\ Len(writes') = n - 1
      /\ \A i \in 1..Len(writes') : i + 1 \in 1..n /\ writes'[i] = writes[i + 1]
  BY <1>2, <1>4, HeadTailProperties
<1> HIDE DEF n, h
<1>6. /\ Merged(document, h.data) \in Profiles
      /\ \A f \in Fields : Merged(document, h.data)[f] =
            IF f \in DOMAIN h.data THEN h.data[f] ELSE document[f]
  BY <1>1, <1>3, MergedFacts DEF TypeOK
<1>7. /\ Merged(users[h.user], h.data) \in Profiles
      /\ \A f \in Fields : Merged(users[h.user], h.data)[f] =
            IF f \in DOMAIN h.data THEN h.data[f] ELSE users[h.user][f]
  BY <1>1, <1>3, MergedFacts DEF TypeOK
<1>8. users' \in [Users -> Profiles]
  BY <1>1, <1>3, <1>4, <1>7 DEF TypeOK
<1>9. /\ h.user = login => \A f \in Fields : users'[login][f] =
            IF f \in DOMAIN h.data THEN h.data[f] ELSE users[login][f]
      /\ h.user # login => users'[login] = users[login]
  BY <1>1, <1>3, <1>4, <1>7 DEF TypeOK
<1>10. TypeOK'
  <2>1. document' \in Profiles
    BY <1>1, <1>4, <1>6 DEF TypeOK
  <2>2. Len(writes') <= MaxWrites
    BY <1>1, <1>2, <1>5, BoundsAssumption DEF TypeOK, n
  <2>3. shown' \in Pictures \cup {DefaultAvatar}
    <3>1. login \in Users /\ users'[login] \in Profiles
      BY <1>1, <1>8 DEF TypeOK
    <3> QED
      BY <1>1, <1>4, <3>1, ProfileFacts DEF TypeOK
  <2>4. refused' \in BOOLEAN
    BY <1>1 DEF TypeOK
  <2> QED
    BY <1>1, <1>4, <1>5, <1>8, <2>1, <2>2, <2>3, <2>4 DEF TypeOK, WriteType
<1>11. ShownIsUsers'
  <2>1. CASE "picture" \in DOMAIN h.data
    BY <1>4, <2>1 DEF ShownIsUsers
  <2>2. CASE "picture" \notin DOMAIN h.data
    <3>1. users'[login].picture = users[login].picture
      BY <1>9, <2>2 DEF Fields
    <3> QED
      BY <1>1, <1>4, <2>2, <3>1 DEF ShownIsUsers
  <2> QED
    BY <2>1, <2>2
<1>12. OrderInv'
  <2>1. chosen \in Nat /\ document.picture \in Nat
    BY <1>1, Numbers
  <2>2. 1 \in 1..n
    BY <1>2
  <2>3. \/ document'.picture = document.picture
        \/ "picture" \in DOMAIN h.data /\ document'.picture = h.data.picture
    <3>1. Merged(document, h.data)["picture"] =
             IF "picture" \in DOMAIN h.data THEN h.data["picture"] ELSE document["picture"]
      BY <1>6 DEF Fields
    <3>2. CASE document' = document
      BY <3>2
    <3>3. CASE document' = Merged(document, h.data)
      BY <3>1, <3>3
    <3> QED
      BY <1>4, <3>2, <3>3
  <2>4. document'.picture <= chosen
    BY <1>1, <2>2, <2>3 DEF OrderInv, n, h
  <2>5. ASSUME NEW i \in 1..Len(writes'), "picture" \in DOMAIN writes'[i].data
        PROVE  /\ writes'[i].data.picture <= chosen
               /\ \/ writes'[i].data.picture = DefaultAvatar
                  \/ document'.picture <= writes'[i].data.picture
    <3>1. i + 1 \in 1..n /\ writes'[i] = writes[i + 1] /\ 1 < i + 1
      BY <1>2, <1>5
    <3>2. /\ writes'[i].data.picture <= chosen
          /\ \/ writes'[i].data.picture = DefaultAvatar
             \/ document.picture <= writes'[i].data.picture
      BY <1>1, <2>5, <3>1 DEF OrderInv, n
    <3>3. "picture" \in DOMAIN h.data =>
             \/ writes'[i].data.picture = DefaultAvatar
             \/ h.data.picture <= writes'[i].data.picture
      BY <1>1, <2>2, <2>5, <3>1 DEF OrderInv, n, h
    <3> QED
      BY <2>3, <3>2, <3>3
  <2>6. ASSUME NEW i \in 1..Len(writes'), NEW j \in 1..Len(writes'), i < j,
               "picture" \in DOMAIN writes'[i].data,
               "picture" \in DOMAIN writes'[j].data
        PROVE  \/ writes'[j].data.picture = DefaultAvatar
               \/ writes'[i].data.picture <= writes'[j].data.picture
    <3>1. i + 1 < j + 1
      BY <1>2, <1>5, <2>6
    <3> QED
      BY <1>1, <1>5, <2>6, <3>1 DEF OrderInv, n
  <2> QED
    BY <1>1, <1>4, <2>4, <2>5, <2>6 DEF OrderInv
<1>13. LoginInv'
  <2>1. ASSUME ~late, NEW i \in 1..Len(writes'), NEW j \in 1..Len(writes'), i < j
        PROVE  writes'[i].user <= writes'[j].user
    <3>1. i + 1 < j + 1
      BY <1>2, <1>5, <2>1
    <3> QED
      BY <1>1, <1>5, <2>1, <3>1 DEF LoginInv, n
  <2>2. ~late => \A i \in 1..Len(writes') : writes'[i].user <= login
    BY <1>1, <1>5 DEF LoginInv, n
  <2> QED
    BY <1>1, <1>4, <2>1, <2>2 DEF LoginInv
<1>14. FieldInv'
  <2>1. login \in Nat /\ Users \subseteq Nat /\ 1 \in 1..n
    BY <1>1, <1>2, Numbers
  <2> SUFFICES ASSUME ~late', ~refused', NEW f \in Fields
      PROVE  /\ (\A i \in 1..Len(writes') : f \notin DOMAIN writes'[i].data)
                   => users'[login][f] = document'[f]
             /\ \A i \in 1..Len(writes') :
                   /\ f \in DOMAIN writes'[i].data
                   /\ \A j \in 1..Len(writes') : f \in DOMAIN writes'[j].data => j <= i
                   => writes'[i].user = login \/ users'[login][f] = writes'[i].data[f]
    BY <1>4 DEF FieldInv
  <2>2. ~late /\ ~refused /\ document' = Merged(document, h.data)
    BY <1>4
  <2>3. document'[f] = IF f \in DOMAIN h.data THEN h.data[f] ELSE document[f]
    BY <1>6, <2>2
  <2>4. (\A i \in 1..n : f \notin DOMAIN writes[i].data) => users[login][f] = document[f]
    BY <1>1, <2>2 DEF FieldInv, n
  <2>5. \A i \in 1..n :
           /\ f \in DOMAIN writes[i].data
           /\ \A j \in 1..n : f \in DOMAIN writes[j].data => j <= i
           => writes[i].user = login \/ users[login][f] = writes[i].data[f]
    BY <1>1, <2>2 DEF FieldInv, n
  <2>6. ASSUME NEW j \in 1..n, j # 1
        PROVE  j - 1 \in 1..Len(writes') /\ writes'[j - 1] = writes[j]
    <3>1. j - 1 \in 1..Len(writes') /\ (j - 1) + 1 = j
      BY <1>2, <1>5, <2>6
    <3> QED
      BY <1>5, <3>1
  <2>7. ASSUME \A i \in 1..Len(writes') : f \notin DOMAIN writes'[i].data
        PROVE  users'[login][f] = document'[f]
    <3>1. \A j \in 1..n : j # 1 => f \notin DOMAIN writes[j].data
      BY <2>6, <2>7
    <3>2. CASE f \in DOMAIN h.data
      <4>1. \A j \in 1..n : f \in DOMAIN writes[j].data => j <= 1
        BY <3>1
      <4>2. h.user = login \/ users[login][f] = h.data[f]
        BY <2>1, <2>5, <3>2, <4>1 DEF h
      <4> QED
        BY <1>9, <2>3, <3>2, <4>2
    <3>3. CASE f \notin DOMAIN h.data
      <4>1. users[login][f] = document[f]
        BY <2>4, <3>1, <3>3 DEF h
      <4> QED
        BY <1>9, <2>3, <3>3, <4>1
    <3> QED
      BY <3>2, <3>3
  <2>8. ASSUME NEW i \in 1..Len(writes'), f \in DOMAIN writes'[i].data,
               \A j \in 1..Len(writes') : f \in DOMAIN writes'[j].data => j <= i,
               writes'[i].user # login
        PROVE  users'[login][f] = writes'[i].data[f]
    <3>1. i + 1 \in 1..n /\ writes'[i] = writes[i + 1] /\ 1 < i + 1
      BY <1>2, <1>5
    <3>2. \A j \in 1..n : f \in DOMAIN writes[j].data => j <= i + 1
      <4> SUFFICES ASSUME NEW j \in 1..n, f \in DOMAIN writes[j].data, j # 1
                   PROVE  j <= i + 1
        BY <3>1
      <4>1. j - 1 <= i
        BY <2>6, <2>8
      <4> QED
        BY <1>2, <1>5, <4>1
    <3>3. users[login][f] = writes'[i].data[f]
      BY <2>5, <2>8, <3>1, <3>2
    <3>4. h.user # login
      <4>1. h.user <= writes'[i].user /\ writes'[i].user <= login
        BY <1>1, <2>1, <2>2, <3>1 DEF LoginInv, n, h
      <4>2. writes'[i].user \in Nat /\ h.user \in Nat
        BY <1>1, <1>3, <2>1, <3>1, TypedWrites DEF n
      <4> QED
        BY <2>1, <2>8, <4>1, <4>2
    <3> QED
      BY <1>9, <3>3, <3>4
  <2> QED
    BY <2>7, <2>8
<1> QED
  BY <1>10, <1>11, <1>12, <1>13, <1>14 DEF IInv

\* A login reads the document and the writes under way.
LEMMA LogInStep == ASSUME IInv, LogIn PROVE IInv'
<1>1. TypeOK /\ ShownIsUsers /\ OrderInv /\ LoginInv /\ FieldInv
  BY DEF IInv
<1>2. login \in Nat /\ Users \subseteq Nat /\ login < MaxLogins
  BY <1>1, Numbers DEF LogIn
<1>3. /\ login' = login + 1
      /\ users' = [users EXCEPT ![login'] = Read]
      /\ shown' = Read.picture
      /\ UNCHANGED <<chosen, uploads, updater, writes, document, refused, late>>
  BY DEF LogIn
<1>4. login' \in Users
  BY <1>2, <1>3, BoundsAssumption DEF Users
<1>5. Read \in Profiles
  BY <1>1, TypedWrites, ReadFacts DEF TypeOK
<1>6. users' \in [Users -> Profiles] /\ users'[login'] = Read
  BY <1>1, <1>3, <1>4, <1>5 DEF TypeOK
<1>7. TypeOK'
  <2>1. Read.picture \in Pictures \cup {DefaultAvatar}
    BY <1>5, ProfileFacts
  <2> QED
    BY <1>1, <1>3, <1>4, <1>6, <2>1 DEF TypeOK
<1>8. ShownIsUsers'
  BY <1>3, <1>6 DEF ShownIsUsers
<1>9. OrderInv'
  BY <1>1, <1>3 DEF OrderInv
<1>10. LoginInv'
  <2>1. \A u \in uploads : u.user \in Nat
    BY <1>1, <1>2 DEF TypeOK, Upload
  <2>2. \A i \in 1..Len(writes) : writes[i].user \in Nat
    BY <1>1, <1>2, TypedWrites
  <2> QED
    BY <1>1, <1>2, <1>3, <2>1, <2>2 DEF LoginInv
<1>11. FieldInv'
  <2> SUFFICES ASSUME NEW f \in Fields
      PROVE  /\ (\A i \in 1..Len(writes) : f \notin DOMAIN writes[i].data)
                   => Read[f] = document[f]
             /\ \A i \in 1..Len(writes) :
                   /\ f \in DOMAIN writes[i].data
                   /\ \A j \in 1..Len(writes) : f \in DOMAIN writes[j].data => j <= i
                   => Read[f] = writes[i].data[f]
    BY <1>3, <1>6 DEF FieldInv
  <2>1. \/ /\ \A i \in 1..Len(writes) : f \notin DOMAIN writes[i].data
           /\ Read[f] = document[f]
        \/ \E i \in 1..Len(writes) :
              /\ f \in DOMAIN writes[i].data
              /\ \A j \in 1..Len(writes) : f \in DOMAIN writes[j].data => j <= i
              /\ Read[f] = writes[i].data[f]
    BY <1>1, TypedWrites, ReadFacts DEF TypeOK
  <2>2. \A i, j \in 1..Len(writes) : i <= j /\ j <= i => i = j
    BY <1>1, TypedWrites
  <2> QED
    BY <2>1, <2>2
<1> QED
  BY <1>7, <1>8, <1>9, <1>10, <1>11 DEF IInv

LEMMA StepInvariant == IInv /\ [Next]_vars => IInv'
<1> SUFFICES ASSUME IInv, [Next]_vars PROVE IInv'
  OBVIOUS
<1>1. TypeOK /\ ShownIsUsers /\ OrderInv /\ LoginInv /\ FieldInv
  BY DEF IInv
<1>2. chosen \in Nat /\ login \in Users
  BY <1>1, Numbers DEF TypeOK
<1>3. CASE ChoosePicture
  <2>1. /\ chosen' = chosen + 1 /\ chosen < MaxPictures /\ updater' = chosen + 1
        /\ uploads' = uploads \cup {[picture |-> chosen + 1, user |-> login]}
        /\ UNCHANGED <<writes, document, users, login, shown, refused, late>>
    BY <1>3 DEF ChoosePicture
  <2>2. chosen' \in Pictures /\ chosen' \in 0..MaxPictures
    BY <1>2, <2>1, BoundsAssumption DEF Pictures
  <2>3. uploads' \subseteq Upload
    BY <1>1, <1>2, <2>1, <2>2 DEF TypeOK, Upload
  <2>4. TypeOK'
    BY <1>1, <2>1, <2>2, <2>3 DEF TypeOK
  <2>5. OrderInv'
    <3>1. document.picture \in Nat
      BY <1>1, Numbers
    <3>2. \A i \in 1..Len(writes) :
             "picture" \in DOMAIN writes[i].data => writes[i].data.picture \in Nat
      BY <1>1, Numbers
    <3> QED
      BY <1>1, <1>2, <2>1, <3>1, <3>2 DEF OrderInv
  <2>6. LoginInv'
    <3>1. login <= login
      BY <1>1, Numbers
    <3> QED
      BY <1>1, <2>1, <3>1 DEF LoginInv
  <2>7. ShownIsUsers' /\ FieldInv'
    BY <1>1, <2>1 DEF ShownIsUsers, FieldInv
  <2> QED
    BY <2>4, <2>5, <2>6, <2>7 DEF IInv
<1>4. ASSUME NEW u \in uploads, Uploaded(u)
      PROVE  IInv'
  <2> DEFINE d == [picture |-> u.picture, photos |-> users[u.user].photos \cup {u.picture}]
  <2>1. u \in Upload /\ u.picture \in Pictures /\ u.user \in Users /\ u.user <= login
    BY <1>1 DEF TypeOK, Upload, LoginInv
  <2>2. d \in Data
    <3>1. users[u.user].photos \in SUBSET Pictures
      BY <1>1, <2>1, ProfileFacts DEF TypeOK
    <3> QED
      BY <2>1, <3>1 DEF Data
  <2>3. d.picture = chosen
    BY <1>1, <1>4 DEF Uploaded, OrderInv
  <2>4. Write(d, u.user)
    BY <1>4 DEF Uploaded
  <2>5. uploads' \subseteq uploads
        /\ UNCHANGED <<chosen, updater, document, users, login, shown, refused>>
    BY <1>4 DEF Uploaded
  <2> HIDE DEF d
  <2> QED
    BY <2>1, <2>2, <2>3, <2>4, <2>5, WriteStep
<1>5. ASSUME NEW u \in uploads, UploadLost(u)
      PROVE  IInv'
  <2>1. /\ uploads' = uploads \ {u}
        /\ shown' = users[login].picture
        /\ UNCHANGED <<chosen, updater, writes, document, users, login, refused, late>>
    BY <1>5 DEF UploadLost
  <2>2. shown' = shown
    BY <1>1, <2>1 DEF ShownIsUsers
  <2> QED
    BY <1>1, <2>1, <2>2
    DEF IInv, TypeOK, ShownIsUsers, OrderInv, LoginInv, FieldInv
<1>6. CASE RemovePhoto
  <2> DEFINE d == [picture |-> DefaultAvatar]
  <2>1. d \in Data /\ d.picture = DefaultAvatar
    BY DEF Data
  <2>2. login <= login
    BY <1>1, Numbers
  <2>3. /\ Write(d, login)
        /\ uploads' \subseteq uploads
        /\ UNCHANGED <<chosen, updater, document, users, login, shown, refused>>
    BY <1>6 DEF RemovePhoto
  <2> HIDE DEF d
  <2> QED
    BY <1>2, <2>1, <2>2, <2>3, WriteStep
<1>7. ASSUME NEW n \in Names, NEW u \in Users, SaveAccount(n, u)
      PROVE  IInv'
  <2> DEFINE d == [name |-> n]
  <2>1. d \in Data /\ "picture" \notin DOMAIN d
    BY DEF Data
  <2>2. /\ Write(d, u) /\ u <= login
        /\ uploads' \subseteq uploads
        /\ UNCHANGED <<chosen, updater, document, users, login, shown, refused>>
    BY <1>7 DEF SaveAccount
  <2> HIDE DEF d
  <2> QED
    BY <2>1, <2>2, WriteStep
<1>8. CASE Written
  BY <1>8, CompletedStep DEF Written
<1>9. CASE Refused
  BY <1>9, CompletedStep DEF Refused
<1>10. CASE LogIn
  BY <1>10, LogInStep
<1>11. CASE UNCHANGED vars
  BY <1>1, <1>11
  DEF vars, IInv, TypeOK, ShownIsUsers, OrderInv, LoginInv, FieldInv
<1> QED
  BY <1>3, <1>4, <1>5, <1>6, <1>7, <1>8, <1>9, <1>10, <1>11 DEF Next

-----------------------------------------------------------------------------
(* Theorems                                                                *)

\* In every reachable state the invariant above holds: the reason why the
\* writes of the profile, begun and completed in any order with the logins,
\* leave the app and the server in agreement.
THEOREM Invariance == Spec => []IInv
<1>1. Init => IInv
  BY InitInvariant
<1>2. IInv /\ [Next]_vars => IInv'
  BY StepInvariant
<1> QED
  BY <1>1, <1>2, PTL DEF Spec

\* The variables of the profile screen, its updater and the document keep
\* their types.
THEOREM TypeCorrect == Spec => []TypeOK
<1>1. IInv => TypeOK
  BY DEF IInv
<1> QED
  BY <1>1, Invariance, PTL

\* The profile screen shows the picture of its user object, whichever
\* completion called update last.
THEOREM ScreenShowsUser == Spec => []ShownIsUsers
<1>1. IInv => ShownIsUsers
  BY DEF IInv
<1> QED
  BY <1>1, Invariance, PTL

\* When the writes have ended, the user object is the document, unless one
\* was refused or began for a user object that had been replaced.
THEOREM Settles == Spec => []SettledAgreement
<1>1. IInv => SettledAgreement
  <2> SUFFICES ASSUME IInv, writes = <<>>, ~refused, ~late
               PROVE  users[login] = document
    BY DEF SettledAgreement
  <2>1. TypeOK /\ FieldInv
    BY DEF IInv
  <2>2. 1..Len(writes) = {}
    OBVIOUS
  <2>3. \A f \in Fields : users[login][f] = document[f]
    BY <2>1, <2>2 DEF FieldInv
  <2>4. /\ users[login] = [f \in Fields |-> users[login][f]]
        /\ document = [f \in Fields |-> document[f]]
    BY <2>1, ProfileFacts DEF TypeOK
  <2> QED
    BY <2>3, <2>4
<1> QED
  BY <1>1, Invariance, PTL

\* A picture on the server is never replaced by one chosen before it,
\* although uploads end in any order.
THEOREM InOrder == Spec => PicturesInOrder
<1>1. IInv /\ [Next]_vars
        => [document'.picture = DefaultAvatar \/ document.picture <= document'.picture]_vars
  <2> SUFFICES ASSUME IInv, [Next]_vars, document' # document
               PROVE  document'.picture = DefaultAvatar \/ document.picture <= document'.picture
    <3>1. document' = document /\ IInv => document.picture <= document'.picture
      BY Numbers DEF IInv
    <3> QED
      BY <3>1
  <2>1. TypeOK /\ OrderInv
    BY DEF IInv
  <2>2. Written
    BY DEF Next, vars, ChoosePicture, Uploaded, UploadLost, RemovePhoto, SaveAccount,
           Refused, LogIn
  <2>3. /\ 1 \in 1..Len(writes)
        /\ Head(writes) = writes[1]
        /\ writes[1].data \in Data
    BY <2>1, <2>2, TypedWrites DEF Written
  <2>4. document'["picture"] = IF "picture" \in DOMAIN writes[1].data
                               THEN writes[1].data["picture"] ELSE document["picture"]
    BY <2>1, <2>2, <2>3, MergedFacts DEF Written, TypeOK, Fields
  <2>5. document.picture \in Nat
    BY <2>1, Numbers
  <2> QED
    BY <2>1, <2>3, <2>4, <2>5 DEF OrderInv
<1> QED
  BY <1>1, Invariance, PTL DEF Spec, PicturesInOrder

=============================================================================
