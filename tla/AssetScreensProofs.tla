------------------------- MODULE AssetScreensProofs -------------------------
(***************************************************************************)
(* Proofs about the screens of the assets, for any set of assets, prices   *)
(* and length of the amount.                                               *)
(***************************************************************************)
EXTENDS AssetScreens, SequenceTheorems, FiniteSetTheorems, TLAPS

\* A tap on the star can add the asset whose details are open.  Over the
\* watchlist that is one of its rows, which the list has not lost since.
OpenedFromRow ==
    list = "watchlist" /\ asset # NoAsset => asset \in ToSet(rows)

\* The invariant that the steps preserve.
IInv ==
    /\ TypeOK
    /\ StoredIsTapped
    /\ StarShowsStore
    /\ ListMissesNothing
    /\ TradeHasAmount
    /\ OpenedFromRow

-----------------------------------------------------------------------------
(* The stored array.                                                       *)

\* Appending an asset that is not there keeps the elements different and adds
\* just that one.
LEMMA AppendNew ==
    ASSUME NEW s \in Seq(Assets), NEW a \in Assets,
           IsInjective(s), ~Contains(s, a)
    PROVE  /\ AppendTo(s, a) \in Seq(Assets)
           /\ IsInjective(AppendTo(s, a))
           /\ ToSet(AppendTo(s, a)) = ToSet(s) \cup {a}
<1> DEFINE r == Append(s, a)
<1>1. /\ r \in Seq(Assets)
      /\ Len(r) = Len(s) + 1
      /\ \A i \in 1..Len(s) : r[i] = s[i]
      /\ r[Len(s) + 1] = a
  OBVIOUS
<1>2. DOMAIN r = 1..Len(s) + 1 /\ DOMAIN s = 1..Len(s) /\ Len(s) \in Nat
  BY <1>1
<1> HIDE DEF r
<1>3. IsInjective(r)
  <2> SUFFICES ASSUME NEW i \in 1..Len(s) + 1, NEW j \in 1..Len(s) + 1,
                      r[i] = r[j]
               PROVE  i = j
    BY <1>2 DEF IsInjective
  <2>1. CASE i \in 1..Len(s) /\ j \in 1..Len(s)
    BY <1>1, <1>2, <2>1 DEF IsInjective
  <2>2. CASE i \in 1..Len(s) /\ j = Len(s) + 1
    BY <1>1, <1>2, <2>2 DEF Contains
  <2>3. CASE i = Len(s) + 1 /\ j \in 1..Len(s)
    BY <1>1, <1>2, <2>3 DEF Contains
  <2> QED
    BY <1>2, <2>1, <2>2, <2>3
<1>4. ToSet(r) = ToSet(s) \cup {a}
  <2>1. ASSUME NEW i \in 1..Len(s) + 1
        PROVE  r[i] \in ToSet(s) \cup {a}
    BY <1>1, <1>2 DEF ToSet
  <2>2. ASSUME NEW i \in 1..Len(s)
        PROVE  s[i] \in ToSet(r)
    BY <1>1, <1>2 DEF ToSet
  <2>3. a \in ToSet(r)
    BY <1>1, <1>2 DEF ToSet
  <2> QED
    BY <1>2, <2>1, <2>2, <2>3 DEF ToSet
<1> QED
  BY <1>1, <1>3, <1>4 DEF AppendTo, r

\* Where the elements of a sequence are without the one at position i.
LEMMA RemoveAtElements ==
    ASSUME NEW s \in Seq(Assets), NEW i \in 1..Len(s)
    PROVE  /\ RemoveAt(s, i) \in Seq(Assets)
           /\ Len(RemoveAt(s, i)) = Len(s) - 1
           /\ \A k \in 1..Len(s) - 1 :
                 RemoveAt(s, i)[k] = IF k < i THEN s[k] ELSE s[k + 1]
<1> DEFINE p == SubSeq(s, 1, i - 1)
           q == SubSeq(s, i + 1, Len(s))
<1>1. /\ p \in Seq(Assets) /\ Len(p) = i - 1
      /\ \A k \in 1..i - 1 : p[k] = s[k]
  OBVIOUS
<1>2. /\ q \in Seq(Assets) /\ Len(q) = Len(s) - i
      /\ \A k \in 1..Len(s) - i : q[k] = s[k + i]
  OBVIOUS
<1> HIDE DEF p, q
<1>3. /\ p \o q \in Seq(Assets)
      /\ Len(p \o q) = Len(p) + Len(q)
      /\ \A k \in 1..Len(p) + Len(q) :
            (p \o q)[k] = IF k <= Len(p) THEN p[k] ELSE q[k - Len(p)]
  <2>1. p \in Seq(Assets) /\ q \in Seq(Assets)
    BY <1>1, <1>2
  <2> QED
    BY <2>1, ConcatProperties, Zenon
<1>4. Len(s) \in Nat
  OBVIOUS
<1>5. ASSUME NEW k \in 1..Len(s) - 1
      PROVE  (p \o q)[k] = IF k < i THEN s[k] ELSE s[k + 1]
  <2>1. CASE k < i
    BY <1>1, <1>2, <1>3, <1>4, <2>1
  <2>2. CASE ~(k < i)
    <3>1. k \in 1..Len(p) + Len(q) /\ ~(k <= Len(p))
      BY <1>1, <1>2, <1>4, <2>2
    <3>4. (p \o q)[k] = q[k - Len(p)]
      BY <1>3, <3>1
    <3>2. k - (i - 1) \in 1..Len(s) - i
      BY <1>4, <2>2
    <3>3. q[k - (i - 1)] = s[k - (i - 1) + i]
      BY <1>2, <3>2
    <3> QED
      BY <1>1, <1>4, <2>2, <3>4, <3>3
  <2> QED
    BY <2>1, <2>2
<1>6. Len(p \o q) = Len(s) - 1
  BY <1>1, <1>2, <1>3, <1>4
<1> QED
  BY <1>3, <1>5, <1>6 DEF RemoveAt, p, q

\* An asset that is there once is taken off at its position.
LEMMA RemoveOnePosition ==
    ASSUME NEW s \in Seq(Assets), NEW a \in Assets,
           IsInjective(s), Contains(s, a)
    PROVE  \E i \in 1..Len(s) : s[i] = a /\ RemoveFrom(s, a) = RemoveAt(s, i)
<1>1. PICK i \in 1..Len(s) : s[i] = a
  BY DEF Contains
<1>2. DOMAIN s = 1..Len(s) /\ Len(s) \in Nat
  OBVIOUS
<1>3. Positions(s, a) = {i}
  BY <1>1, <1>2 DEF Positions, IsInjective
<1>4. RemoveFrom(s, a) = RemoveAt(s, i)
  <2> DEFINE c == CHOOSE k \in Positions(s, a) :
                      \A j \in Positions(s, a) : j <= k
  <2>1. i <= i
    BY <1>2
  <2>2. \E k \in Positions(s, a) : \A j \in Positions(s, a) : j <= k
    BY <1>3, <2>1
  <2>3. c \in Positions(s, a)
    BY <2>2
  <2>4. c = i
    BY <1>3, <2>3
  <2> QED
    BY <2>4 DEF RemoveFrom
<1> QED
  BY <1>1, <1>4

\* Taking off an asset that is there once leaves it nowhere and the others
\* different from each other.
LEMMA RemoveOnce ==
    ASSUME NEW s \in Seq(Assets), NEW a \in Assets,
           IsInjective(s), Contains(s, a)
    PROVE  /\ RemoveFrom(s, a) \in Seq(Assets)
           /\ IsInjective(RemoveFrom(s, a))
           /\ ToSet(RemoveFrom(s, a)) = ToSet(s) \ {a}
<1>1. PICK i \in 1..Len(s) : s[i] = a /\ RemoveFrom(s, a) = RemoveAt(s, i)
  BY RemoveOnePosition
<1>2. DOMAIN s = 1..Len(s) /\ Len(s) \in Nat
  OBVIOUS
<1> DEFINE r == RemoveAt(s, i)
<1>5. /\ r \in Seq(Assets)
      /\ Len(r) = Len(s) - 1
      /\ \A k \in 1..Len(s) - 1 :
            r[k] = IF k < i THEN s[k] ELSE s[k + 1]
  BY RemoveAtElements
<1> HIDE DEF r
<1>6. DOMAIN r = 1..Len(s) - 1
  BY <1>5
<1> DEFINE src(k) == IF k < i THEN k ELSE k + 1
<1>7. ASSUME NEW k \in 1..Len(s) - 1
      PROVE  src(k) \in 1..Len(s) /\ src(k) # i /\ r[k] = s[src(k)]
  BY <1>2, <1>5
<1>8. IsInjective(r)
  <2> SUFFICES ASSUME NEW k \in 1..Len(s) - 1, NEW l \in 1..Len(s) - 1,
                      r[k] = r[l]
               PROVE  k = l
    BY <1>6 DEF IsInjective
  <2>1. src(k) = src(l)
    <3> HIDE DEF src
    <3> QED
      BY <1>2, <1>7 DEF IsInjective
  <2> QED
    BY <1>2, <2>1
<1>9. ToSet(r) = ToSet(s) \ {a}
  <2>1. ASSUME NEW k \in 1..Len(s) - 1
        PROVE  r[k] \in ToSet(s) \ {a}
    <3> HIDE DEF src
    <3> QED
      BY <1>1, <1>2, <1>7 DEF IsInjective, ToSet
  <2>2. ASSUME NEW l \in 1..Len(s), s[l] # a
        PROVE  s[l] \in ToSet(r)
    <3>1. \E k \in 1..Len(s) - 1 : src(k) = l
      <4>1. CASE l < i
        BY <1>2, <4>1
      <4>2. CASE i < l
        <5>1. l - 1 \in 1..Len(s) - 1 /\ src(l - 1) = l
          BY <1>2, <4>2
        <5> QED
          BY <5>1
      <4> QED
        BY <1>1, <1>2, <2>2, <4>1, <4>2
    <3> HIDE DEF src
    <3> QED
      BY <1>6, <1>7, <3>1 DEF ToSet
  <2> QED
    BY <1>2, <1>6, <2>1, <2>2 DEF ToSet
<1> QED
  BY <1>1, <1>5, <1>8, <1>9 DEF r

\* Neither an asset that is added nor one that is taken off moves another.
LEMMA AppendKeepsOrder ==
    ASSUME NEW s \in Seq(Assets), NEW a \in Assets,
           NEW b \in Assets \ {a}, NEW c \in Assets \ {a}
    PROVE  NotBelow(AppendTo(s, a), b, c) <=> NotBelow(s, b, c)
<1> DEFINE r == Append(s, a)
<1>1. /\ DOMAIN r = 1..Len(s) + 1 /\ DOMAIN s = 1..Len(s) /\ Len(s) \in Nat
      /\ \A i \in 1..Len(s) : r[i] = s[i]
      /\ r[Len(s) + 1] = a
  OBVIOUS
<1> HIDE DEF r
<1>2. \A i \in 1..Len(s) + 1 : r[i] \in {b, c} => i \in 1..Len(s)
  BY <1>1
<1>3. \A i \in 1..Len(s) : i \in 1..Len(s) + 1
  BY <1>1
<1> QED
  BY <1>1, <1>2, <1>3 DEF NotBelow, AppendTo, r

LEMMA RemoveKeepsOrder ==
    ASSUME NEW s \in Seq(Assets), NEW a \in Assets,
           IsInjective(s), Contains(s, a),
           NEW b \in Assets \ {a}, NEW c \in Assets \ {a}
    PROVE  NotBelow(RemoveFrom(s, a), b, c) <=> NotBelow(s, b, c)
<1>1. PICK i \in 1..Len(s) : s[i] = a /\ RemoveFrom(s, a) = RemoveAt(s, i)
  BY RemoveOnePosition
<1> DEFINE r == RemoveAt(s, i)
           src(k) == IF k < i THEN k ELSE k + 1
           dst(k) == IF k < i THEN k ELSE k - 1
<1>2. DOMAIN s = 1..Len(s) /\ Len(s) \in Nat
  OBVIOUS
<1>3. /\ r \in Seq(Assets) /\ Len(r) = Len(s) - 1
      /\ \A k \in 1..Len(s) - 1 : r[k] = IF k < i THEN s[k] ELSE s[k + 1]
  BY RemoveAtElements
<1> HIDE DEF r
<1>4. DOMAIN r = 1..Len(s) - 1
  BY <1>3
<1>5. ASSUME NEW k \in 1..Len(s) - 1
      PROVE  src(k) \in 1..Len(s) /\ r[k] = s[src(k)]
  BY <1>2, <1>3
<1>6. ASSUME NEW k \in 1..Len(s), k # i
      PROVE  dst(k) \in 1..Len(s) - 1 /\ r[dst(k)] = s[k]
  <2>1. dst(k) \in 1..Len(s) - 1 /\ src(dst(k)) = k
    BY <1>2, <1>6
  <2> HIDE DEF dst, src
  <2> QED
    BY <1>5, <2>1
<1>7. \A k, l \in 1..Len(s) - 1 : k <= l => src(k) <= src(l)
  BY <1>2
<1>8. \A k, l \in 1..Len(s) : k # i /\ l # i /\ k <= l => dst(k) <= dst(l)
  BY <1>2
<1> HIDE DEF src, dst
<1>9. ASSUME NotBelow(r, b, c)
      PROVE  NotBelow(s, b, c)
  <2>1. PICK k, l \in 1..Len(s) - 1 : k <= l /\ r[k] = b /\ r[l] = c
    BY <1>4, <1>9 DEF NotBelow
  <2> QED
    BY <1>2, <1>5, <1>7, <2>1 DEF NotBelow
<1>10. ASSUME NotBelow(s, b, c)
       PROVE  NotBelow(r, b, c)
  <2>1. PICK k, l \in 1..Len(s) : k <= l /\ s[k] = b /\ s[l] = c
    BY <1>2, <1>10 DEF NotBelow
  <2>2. k # i /\ l # i
    BY <1>1, <2>1
  <2> QED
    BY <1>4, <1>6, <1>8, <2>1, <2>2 DEF NotBelow
<1> QED
  BY <1>1, <1>9, <1>10 DEF r

\* Contains is membership among the elements.
LEMMA ContainsIsMember ==
    ASSUME NEW s \in Seq(Assets), NEW a
    PROVE  Contains(s, a) <=> a \in ToSet(s)
BY DEF Contains, ToSet

-----------------------------------------------------------------------------
(* The star.  Only its tap writes the store; the rest of the invariant is   *)
(* about screens that are read from it.                                    *)

\* The store after a tap on the star, and the taps it stands for.
LEMMA StarKeepsStore ==
    ASSUME TypeOK, StoredIsTapped, TapStar
    PROVE  /\ stored' \in Seq(Assets)
           /\ odd' \subseteq Assets
           /\ StoredIsTapped'
<1>1. stored \in Seq(Assets) /\ asset \in Assets
  BY DEF TypeOK, TapStar
<1>2. odd' = (odd \ {asset}) \cup ({asset} \ odd)
  BY DEF TapStar, SymDiff
<1>3. Contains(stored, asset) <=> asset \in odd
  BY <1>1, ContainsIsMember DEF StoredIsTapped
<1>4. odd' \subseteq Assets
  BY <1>1, <1>2 DEF TypeOK
<1>5. CASE Contains(stored, asset)
  <2>1. stored' = RemoveFrom(stored, asset)
    BY <1>5 DEF TapStar
  <2>2. odd' = odd \ {asset}
    BY <1>2, <1>3, <1>5
  <2> QED
    BY <1>1, <1>4, <1>5, <2>1, <2>2, RemoveOnce DEF StoredIsTapped
<1>6. CASE ~Contains(stored, asset)
  <2>1. stored' = AppendTo(stored, asset)
    BY <1>6 DEF TapStar
  <2>2. odd' = odd \cup {asset}
    BY <1>2, <1>3, <1>6
  <2> QED
    BY <1>1, <1>4, <1>6, <2>1, <2>2, AppendNew DEF StoredIsTapped
<1> QED
  BY <1>5, <1>6

\* Which amounts a key leaves.
LEMMA PressedText ==
    ASSUME NEW key \in Keys \cup {"back"}, text \in Seq(Keys), Press(key)
    PROVE  text' \in Seq(Keys)
<1>1. CASE key = "back"
  <2>1. CASE text = <<>>
    BY <1>1, <2>1 DEF Press
  <2>2. CASE text # <<>>
    <3>1. Front(text) \in Seq(Keys)
      BY <2>2 DEF Front
    <3>2. text' = Front(text)
      BY <1>1, <2>2 DEF Press
    <3> QED
      BY <3>1, <3>2
  <2> QED
    BY <2>1, <2>2
<1>2. CASE key # "back"
  <2>1. key \in Keys
    BY <1>2
  <2>2. Append(text, key) \in Seq(Keys)
    BY <2>1
  <2>3. text' = text \/ text' = Append(text, key)
    BY <1>2 DEF Press
  <2> QED
    BY <2>2, <2>3
<1> QED
  BY <1>1, <1>2

\* Every step keeps the invariant.  What none but a few actions touch is
\* dealt with first: the store, then the list and the amount.
LEMMA StepKeepsInvariant ==
    IInv /\ [Next]_vars => IInv'
<1> SUFFICES ASSUME IInv, [Next]_vars
             PROVE  IInv'
  OBVIOUS
<1>0. <<>> \in Seq(Keys) /\ <<>> \in Seq(Assets)
  OBVIOUS
<1> USE NoAssetAssumption
<1>1. CASE Relaunch
  <2>1. TypeOK'
    BY <1>0, <1>1 DEF IInv, TypeOK, Relaunch, storeVars
  <2>2. StoredIsTapped'
    BY <1>1 DEF IInv, StoredIsTapped, Relaunch, storeVars
  <2> QED
    BY <1>1, <2>1, <2>2 DEF Relaunch, IInv, StarShowsStore,
       ListMissesNothing, TradeHasAmount, OpenedFromRow
<1>2. CASE OpenSearch
  <2>1. TypeOK'
    BY <1>2 DEF IInv, TypeOK, OpenSearch, storeVars, keypadVars
  <2>2. StoredIsTapped' /\ TradeHasAmount'
    BY <1>2 DEF IInv, StoredIsTapped, TradeHasAmount, OpenSearch, storeVars,
       keypadVars
  <2> QED
    BY <1>2, <2>1, <2>2 DEF OpenSearch, IInv, StarShowsStore,
       ListMissesNothing, OpenedFromRow
<1>3. CASE OpenWatchlist
  <2>1. TypeOK'
    BY <1>3 DEF IInv, TypeOK, OpenWatchlist, storeVars, keypadVars
  <2>2. StoredIsTapped' /\ TradeHasAmount'
    BY <1>3 DEF IInv, StoredIsTapped, TradeHasAmount, OpenWatchlist, storeVars,
       keypadVars
  <2>3. ListMissesNothing'
    BY <1>3 DEF OpenWatchlist, ListMissesNothing, storeVars
  <2> QED
    BY <1>3, <2>1, <2>2, <2>3 DEF OpenWatchlist, IInv, StarShowsStore,
       OpenedFromRow
<1>4. ASSUME NEW a \in Assets, OpenDetails(a)
      PROVE  IInv'
  <2> USE <1>4
  <2>1. starFilled' = Contains(stored, a) /\ Contains(stored, a) \in BOOLEAN
    BY DEF OpenDetails, Contains
  <2>2. TypeOK'
    BY <2>1 DEF IInv, TypeOK, OpenDetails, storeVars, keypadVars
  <2>3. StoredIsTapped' /\ ListMissesNothing'
    BY DEF IInv, StoredIsTapped, ListMissesNothing, OpenDetails, storeVars
  <2>4. StarShowsStore'
    <3>1. starFilled' <=> a \in ToSet(stored)
      BY <2>1, ContainsIsMember DEF IInv, TypeOK
    <3>2. stored' = stored /\ asset' = a
      BY DEF OpenDetails, storeVars
    <3> QED
      BY <3>1, <3>2 DEF StarShowsStore
  <2>5. TradeHasAmount'
    BY DEF IInv, TypeOK, OpenDetails, TradeHasAmount, keypadVars
  <2>6. OpenedFromRow'
    BY DEF OpenDetails, OpenedFromRow
  <2> QED
    BY <2>2, <2>3, <2>4, <2>5, <2>6 DEF IInv
<1>5. CASE Back
  <2>1. TypeOK'
    BY <1>5 DEF IInv, TypeOK, Back, storeVars, keypadVars
  <2>2. StoredIsTapped'
    BY <1>5 DEF IInv, StoredIsTapped, Back, storeVars
  <2>3. TradeHasAmount'
    BY <1>5 DEF IInv, TradeHasAmount, Back, keypadVars
  <2> QED
    BY <1>5, <2>1, <2>2, <2>3 DEF Back, IInv, StarShowsStore,
       ListMissesNothing, OpenedFromRow, storeVars
<1>6. CASE TapStar
  <2> USE <1>6
  <2>1. /\ stored' \in Seq(Assets)
        /\ odd' \subseteq Assets
        /\ StoredIsTapped'
    BY StarKeepsStore DEF IInv
  <2>2. /\ asset' = asset /\ asset # NoAsset /\ asset \in Assets
        /\ list' = list /\ rows' = rows
    BY DEF TapStar, IInv, TypeOK
  <2>3. starFilled' = Contains(stored', asset)
    BY DEF TapStar
  <2>4. TypeOK'
    BY <2>1, <2>2, <2>3 DEF IInv, TypeOK, TapStar, keypadVars, Contains
  <2>5. StarShowsStore'
    BY <2>1, <2>2, <2>3, ContainsIsMember DEF StarShowsStore
  <2>6. ToSet(stored') \subseteq ToSet(stored) \cup {asset}
    BY <2>1, <2>2 DEF IInv, StoredIsTapped, TapStar, SymDiff
  <2>7. ListMissesNothing' /\ OpenedFromRow'
    BY <2>2, <2>6 DEF IInv, ListMissesNothing, OpenedFromRow
  <2>8. TradeHasAmount'
    BY DEF TapStar, TradeHasAmount, keypadVars
  <2> QED
    BY <2>1, <2>4, <2>5, <2>7, <2>8 DEF IInv
<1>7. CASE OpenTrading
  <2>1. /\ StoredIsTapped' /\ StarShowsStore'
        /\ ListMissesNothing' /\ OpenedFromRow'
    BY <1>7 DEF IInv, StoredIsTapped, StarShowsStore, ListMissesNothing,
       OpenedFromRow, OpenTrading, storeVars, screenVars
  <2>2. TypeOK'
    BY <1>0, <1>7 DEF IInv, TypeOK, OpenTrading, storeVars, screenVars
  <2>3. ~NotZero(<<>>)
    BY FS_EmptySet DEF NotZero, Count
  <2>4. text' = <<>> /\ tradeShown' = FALSE
    BY <1>7 DEF OpenTrading
  <2>5. TradeHasAmount'
    BY <2>3, <2>4 DEF TradeHasAmount
  <2> QED
    BY <2>1, <2>2, <2>5 DEF IInv
<1>8. ASSUME NEW key \in Keys \cup {"back"}, Press(key)
      PROVE  IInv'
  <2> USE <1>8
  <2>1. /\ StoredIsTapped' /\ StarShowsStore'
        /\ ListMissesNothing' /\ OpenedFromRow'
    BY DEF IInv, StoredIsTapped, StarShowsStore, ListMissesNothing,
       OpenedFromRow, Press, storeVars, screenVars
  <2>2. text' \in Seq(Keys)
    BY PressedText DEF IInv, TypeOK
  <2>3. tradeShown' = (NotZero(text') /\ asset \in Priced)
    BY DEF Press, CurrentCreditIsZero, NotZero
  <2>4. asset' = asset
    BY DEF Press, screenVars
  <2>5. TypeOK'
    BY <2>2, <2>3 DEF IInv, TypeOK, Press, storeVars, screenVars, NotZero
  <2>6. TradeHasAmount'
    BY <2>3, <2>4 DEF TradeHasAmount
  <2> QED
    BY <2>1, <2>5, <2>6 DEF IInv
<1>9. CASE Paste
  <2>1. /\ StoredIsTapped' /\ StarShowsStore'
        /\ ListMissesNothing' /\ OpenedFromRow'
    BY <1>9 DEF IInv, StoredIsTapped, StarShowsStore, ListMissesNothing,
       OpenedFromRow, Paste, storeVars, screenVars
  <2>2. text' \in Seq(Keys)
    <3>1. PICK n \in 0..MaxLength : text' \in [1..n -> Keys]
      BY <1>9 DEF Paste
    <3>2. n \in Nat
      BY <3>1, MaxLengthAssumption
    <3> QED
      BY <3>1, <3>2
  <2>3. TypeOK'
    BY <1>9, <2>2 DEF IInv, TypeOK, Paste, storeVars, screenVars
  <2>4. TradeHasAmount'
    BY <1>9 DEF Paste, TradeHasAmount
  <2> QED
    BY <2>1, <2>3, <2>4 DEF IInv
<1>10. CASE Cancel \/ Trade
  <2>1. CloseTrading
    BY <1>10 DEF Cancel, Trade
  <2>2. /\ StoredIsTapped' /\ StarShowsStore'
        /\ ListMissesNothing' /\ OpenedFromRow'
    BY <2>1 DEF IInv, StoredIsTapped, StarShowsStore, ListMissesNothing,
       OpenedFromRow, CloseTrading, storeVars, screenVars
  <2>3. TypeOK'
    BY <1>0, <2>1 DEF IInv, TypeOK, CloseTrading, storeVars, screenVars
  <2>4. TradeHasAmount'
    BY <2>1 DEF CloseTrading, TradeHasAmount
  <2> QED
    BY <2>2, <2>3, <2>4 DEF IInv
<1>11. CASE UNCHANGED vars
  BY <1>11 DEF vars, storeVars, screenVars, keypadVars, IInv, TypeOK,
     StoredIsTapped, StarShowsStore, ListMissesNothing, TradeHasAmount,
     OpenedFromRow
<1> QED
  BY <1>1, <1>2, <1>3, <1>4, <1>5, <1>6, <1>7, <1>8, <1>9, <1>10, <1>11
  DEF Next

LEMMA InitHasInvariant == Init => IInv
<1> SUFFICES ASSUME Init PROVE IInv
  OBVIOUS
<1>1. IsInjective(<<>>) /\ ToSet(<<>>) = {}
  BY DEF IsInjective, ToSet
<1>2. <<>> \in Seq(Keys) /\ <<>> \in Seq(Assets)
  OBVIOUS
<1> QED
  BY <1>1, <1>2 DEF Init, IInv, TypeOK, StoredIsTapped, StarShowsStore,
     ListMissesNothing, TradeHasAmount, OpenedFromRow

LEMMA AlwaysInvariant == Spec => []IInv
BY InitHasInvariant, StepKeepsInvariant, PTL DEF Spec

-----------------------------------------------------------------------------
(* What the screens promise.                                               *)

\* The state keeps its shape, and the keypad is never presented without the
\* details of an asset below it.
THEOREM AssetTypeCorrect == Spec => []TypeOK
BY AlwaysInvariant, PTL DEF IInv

\* However often stars are tapped, on whatever screens and in however many
\* processes, UserDefaults hold every asset tapped an odd number of times,
\* once, and no other.
THEOREM StoredAlwaysTapped == Spec => []StoredIsTapped
BY AlwaysInvariant, PTL DEF IInv

\* The star of the open details always tells whether the asset is stored.
THEOREM StarAlwaysShowsStore == Spec => []StarShowsStore
BY AlwaysInvariant, PTL DEF IInv

\* An open watchlist never misses an asset that is stored, although it reads
\* the store only when it is made.
THEOREM ListNeverMisses == Spec => []ListMissesNothing
BY AlwaysInvariant, PTL DEF IInv

\* Whatever is typed, of any length, Trade can be tapped exactly when the
\* amount is a number other than zero and has a price.
THEOREM TradeAlwaysHasAmount == Spec => []TradeHasAmount
BY AlwaysInvariant, PTL DEF IInv

\* Of any number of stored assets a tap on a star moves, adds or removes no
\* other than its own.
THEOREM OthersAlwaysKeepTheirOrder == Spec => OthersKeepTheirOrder
<1>1. IInv /\ [Next]_vars =>
        [\E a \in Assets : \A b, c \in Assets \ {a} :
            NotBelow(stored', b, c) <=> NotBelow(stored, b, c)]_stored
  <2> SUFFICES ASSUME IInv, [Next]_vars, stored' # stored
               PROVE  \E a \in Assets : \A b, c \in Assets \ {a} :
                         NotBelow(stored', b, c) <=> NotBelow(stored, b, c)
    OBVIOUS
  <2>1. TapStar
    BY DEF Next, vars, storeVars, Relaunch, OpenSearch, OpenWatchlist,
       OpenDetails, Back, OpenTrading, Press, Paste, Cancel, Trade, CloseTrading
  <2>2. stored \in Seq(Assets) /\ asset \in Assets /\ IsInjective(stored)
    BY <2>1 DEF IInv, TypeOK, StoredIsTapped, TapStar
  <2>3. CASE Contains(stored, asset)
    <3>1. stored' = RemoveFrom(stored, asset)
      BY <2>1, <2>3 DEF TapStar
    <3> QED
      BY <2>2, <2>3, <3>1, RemoveKeepsOrder
  <2>4. CASE ~Contains(stored, asset)
    <3>1. stored' = AppendTo(stored, asset)
      BY <2>1, <2>4 DEF TapStar
    <3> QED
      BY <2>2, <3>1, AppendKeepsOrder
  <2> QED
    BY <2>3, <2>4
<1> QED
  BY <1>1, AlwaysInvariant, PTL DEF Spec, OthersKeepTheirOrder

=============================================================================
