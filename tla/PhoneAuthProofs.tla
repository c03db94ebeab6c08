--------------------------- MODULE PhoneAuthProofs ---------------------------
(***************************************************************************)
(* Proofs about the phone screens, for any number of code fields and of    *)
(* unanswered requests.                                                    *)
(***************************************************************************)
EXTENDS PhoneAuth, FiniteSetTheorems, TLAPS

\* The filled fields are the first k ones: CodeInOrder without a cardinality,
\* which is what a digit and a backspace preserve.
FilledPrefix == \A s \in Screens : \E k \in 0..OtpCount : otp[s] = 1..k

IInv ==
    /\ TypeOK
    /\ ScreenFollowsContactPoint
    /\ CodeHasVerification
    /\ FilledPrefix

-----------------------------------------------------------------------------
(* Digits.                                                                 *)

\* A digit fills the field after the filled ones.
LEMMA NextField ==
    ASSUME NEW k \in Nat, NEW n \in Nat, k < n
    PROVE  Min((1..n) \ (1..k)) = k + 1
<1> DEFINE S == (1..n) \ (1..k)
<1>1. k + 1 \in S /\ \A y \in S : k + 1 <= y
  OBVIOUS
<1>2. \A x \in S : (\A y \in S : x <= y) => x = k + 1
  BY <1>1
<1> HIDE DEF S
<1>3. Min(S) \in S /\ \A y \in S : Min(S) <= y
  BY <1>1 DEF Min
<1> QED
  BY <1>2, <1>3 DEF S

\* A backspace empties the last filled field.
LEMMA LastField ==
    ASSUME NEW k \in Nat \ {0}
    PROVE  Max(1..k) = k
<1> DEFINE S == 1..k
<1>1. k \in S /\ \A y \in S : k >= y
  OBVIOUS
<1>2. \A x \in S : (\A y \in S : x >= y) => x = k
  BY <1>1
<1> HIDE DEF S
<1>3. Max(S) \in S /\ \A y \in S : Max(S) >= y
  BY <1>1 DEF Max
<1> QED
  BY <1>2, <1>3 DEF S

\* What a digit leaves filled.
LEMMA TypedPrefix ==
    ASSUME IInv, NEW s \in Screens, TypeDigit(s)
    PROVE  \E k \in 0..OtpCount : otp' = [otp EXCEPT ![s] = 1..k]
<1> USE OtpCountAssumption
<1>1. PICK k \in 0..OtpCount : otp[s] = 1..k
  BY DEF IInv, FilledPrefix
<1>2. k < OtpCount
  BY <1>1 DEF TypeDigit
<1>3. Min((1..OtpCount) \ (1..k)) = k + 1
  BY <1>2, NextField
<1>4. (1..k) \cup {k + 1} = 1..k + 1
  BY <1>2
<1>5. otp' = [otp EXCEPT ![s] = 1..k + 1]
  BY <1>1, <1>3, <1>4 DEF TypeDigit
<1>6. k + 1 \in 0..OtpCount
  BY <1>2
<1> QED
  BY <1>5, <1>6

\* What a backspace leaves filled.
LEMMA BackspacedPrefix ==
    ASSUME IInv, NEW s \in Screens, Backspace(s)
    PROVE  \E k \in 0..OtpCount : otp' = [otp EXCEPT ![s] = 1..k]
<1> USE OtpCountAssumption
<1>1. PICK k \in 0..OtpCount : otp[s] = 1..k
  BY DEF IInv, FilledPrefix
<1>2. k \in Nat \ {0}
  BY <1>1 DEF Backspace
<1>3. Max(1..k) = k
  BY <1>2, LastField
<1>4. (1..k) \ {k} = 1..k - 1
  BY <1>2
<1>5. otp' = [otp EXCEPT ![s] = 1..k - 1]
  BY <1>1, <1>3, <1>4 DEF Backspace
<1>6. k - 1 \in 0..OtpCount
  BY <1>2
<1> QED
  BY <1>5, <1>6

\* Only the fields of one screen change, to a prefix.
LEMMA PrefixKept ==
    ASSUME TypeOK, FilledPrefix, NEW s \in Screens, NEW k \in 0..OtpCount,
           otp' = [otp EXCEPT ![s] = 1..k]
    PROVE  FilledPrefix' /\ otp' \in [Screens -> SUBSET (1..OtpCount)]
<1> USE OtpCountAssumption
<1>1. 1..k \subseteq 1..OtpCount
  OBVIOUS
<1>2. otp' \in [Screens -> SUBSET (1..OtpCount)]
  BY <1>1 DEF TypeOK
<1>3. FilledPrefix'
  BY DEF TypeOK, FilledPrefix
<1> QED
  BY <1>2, <1>3

-----------------------------------------------------------------------------
(* Steps.                                                                  *)

\* An answer takes one request off; the others stay.
LEMMA AnswerCounts ==
    ASSUME TypeOK, NEW s \in Screens, NEW kind \in Kinds, Answered(s, kind)
    PROVE  /\ inFlight' \in [Screens \X Kinds -> 0..MaxInFlight]
           /\ \A t \in Screens :
                 inFlight'[<<t, "code">>] > 0 => inFlight[<<t, "code">>] > 0
<1> USE MaxInFlightAssumption
<1>1. <<s, kind>> \in Screens \X Kinds
  OBVIOUS
<1>2. \A r \in Screens \X Kinds : inFlight[r] \in 0..MaxInFlight
  BY DEF TypeOK
<1>3. inFlight[<<s, kind>>] - 1 \in 0..MaxInFlight
  BY <1>1, <1>2 DEF Answered
<1>4. inFlight' \in [Screens \X Kinds -> 0..MaxInFlight]
  BY <1>1, <1>3 DEF TypeOK, Answered
<1>5. ASSUME NEW t \in Screens, inFlight'[<<t, "code">>] > 0
      PROVE  inFlight[<<t, "code">>] > 0
  <2>1. <<t, "code">> \in Screens \X Kinds
    BY DEF Kinds
  <2>2. CASE <<t, "code">> = <<s, kind>>
    BY <1>1, <2>2 DEF Answered
  <2>3. CASE <<t, "code">> # <<s, kind>>
    BY <1>5, <2>1, <2>3 DEF TypeOK, Answered
  <2> QED
    BY <2>2, <2>3
<1> QED
  BY <1>4, <1>5

LEMMA StepKeepsInvariant ==
    IInv /\ [Next]_vars => IInv'
<1> SUFFICES ASSUME IInv, [Next]_vars
             PROVE  IInv'
  OBVIOUS
<1> USE OtpCountAssumption, MaxInFlightAssumption
<1>1. CASE Relaunch
  <2>1. \A r \in Screens \X Kinds : inFlight'[r] = 0
    BY <1>1 DEF Relaunch
  <2>2. TypeOK'
    BY <1>1 DEF IInv, TypeOK, Relaunch, ContactPoints
  <2>3. ScreenFollowsContactPoint'
    BY <1>1 DEF ScreenFollowsContactPoint, Relaunch
  <2>4. CodeHasVerification'
    BY <1>1 DEF CodeHasVerification, Relaunch, Kinds
  <2>5. FilledPrefix'
    <3>1. \A s \in Screens : otp'[s] = 1..0
      BY <1>1 DEF Relaunch
    <3>2. 0 \in 0..OtpCount
      OBVIOUS
    <3> QED
      BY <3>1, <3>2 DEF FilledPrefix
  <2> QED
    BY <2>2, <2>3, <2>4, <2>5 DEF IInv
<1>2. ASSUME NEW s \in Screens, ToggleContactPoint(s)
      PROVE  IInv'
  <2> USE <1>2
  <2>1. FilledPrefix' /\ otp' \in [Screens -> SUBSET (1..OtpCount)]
    <3>1. \E k \in 0..OtpCount : otp' = [otp EXCEPT ![s] = 1..k]
      <4>1. PICK k \in 0..OtpCount : otp[s] = 1..k
        BY DEF IInv, FilledPrefix
      <4>2. 0 \in 0..OtpCount /\ 1..0 = {}
        OBVIOUS
      <4>3. CASE contactPoint[s] = "phoneWithOtp"
        BY <4>2, <4>3 DEF ToggleContactPoint
      <4>4. CASE contactPoint[s] # "phoneWithOtp"
        BY <4>1, <4>4 DEF ToggleContactPoint
      <4> QED
        BY <4>3, <4>4
    <3> QED
      BY <3>1, PrefixKept DEF IInv
  <2>2. TypeOK'
    BY <2>1 DEF IInv, TypeOK, ToggleContactPoint, ContactPoints
  <2>3. ScreenFollowsContactPoint'
    BY DEF IInv, TypeOK, ScreenFollowsContactPoint, ToggleContactPoint,
       ContactPoints
  <2>4. CodeHasVerification'
    BY DEF IInv, TypeOK, CodeHasVerification, ToggleContactPoint
  <2> QED
    BY <2>1, <2>2, <2>3, <2>4 DEF IInv
<1>3. ASSUME NEW s \in Screens, TapButton(s)
      PROVE  IInv'
  <2> USE <1>3
  <2> DEFINE r == <<s, RequestOf(s)>>
  <2>1. /\ r \in Screens \X Kinds
        /\ RequestOf(s) = "code" => contactPoint[s] = "phoneWithOtp"
    BY DEF IInv, TypeOK, ContactPoints, Kinds, RequestOf
  <2>2. inFlight' = [inFlight EXCEPT ![r] = @ + 1] /\ inFlight[r] < MaxInFlight
    BY DEF TapButton
  <2>3. UNCHANGED <<contactPoint, viewVars, otp, authVerificationID>>
    BY DEF TapButton
  <2> HIDE DEF r
  <2>4. inFlight' \in [Screens \X Kinds -> 0..MaxInFlight]
    BY <2>1, <2>2 DEF IInv, TypeOK
  <2>5. TypeOK'
    BY <2>3, <2>4 DEF IInv, TypeOK, viewVars
  <2>6. ScreenFollowsContactPoint' /\ FilledPrefix'
    BY <2>3 DEF IInv, ScreenFollowsContactPoint, FilledPrefix, viewVars
  <2>7. CodeHasVerification'
    <3> SUFFICES ASSUME NEW t \in Screens,
                        contactPoint[t] # "phoneWithOtp",
                        inFlight'[<<t, "code">>] > 0
                 PROVE  authVerificationID # NoID
      BY <2>3 DEF IInv, CodeHasVerification
    <3>1. <<t, "code">> \in Screens \X Kinds
      BY DEF Kinds
    <3>2. <<t, "code">> # r
      BY <2>1 DEF r
    <3>3. inFlight'[<<t, "code">>] = inFlight[<<t, "code">>]
      BY <2>2, <3>1, <3>2 DEF IInv, TypeOK
    <3> QED
      BY <3>3 DEF IInv, CodeHasVerification
  <2> QED
    BY <2>5, <2>6, <2>7 DEF IInv
<1>4. ASSUME NEW s \in Screens, TypeDigit(s) \/ Backspace(s)
      PROVE  IInv'
  <2>1. FilledPrefix' /\ otp' \in [Screens -> SUBSET (1..OtpCount)]
    BY <1>4, TypedPrefix, BackspacedPrefix, PrefixKept DEF IInv
  <2>2. UNCHANGED <<contactPoint, viewVars, inFlight, authVerificationID>>
    BY <1>4 DEF TypeDigit, Backspace
  <2>3. TypeOK'
    BY <2>1, <2>2 DEF IInv, TypeOK, viewVars
  <2>4. ScreenFollowsContactPoint' /\ CodeHasVerification'
    BY <2>2 DEF IInv, ScreenFollowsContactPoint, CodeHasVerification, viewVars
  <2> QED
    BY <2>1, <2>3, <2>4 DEF IInv
<1>5. ASSUME NEW s \in Screens, NEW kind \in Kinds, Answered(s, kind),
             UNCHANGED <<contactPoint, viewVars, otp, authVerificationID>>
      PROVE  IInv'
  <2>1. /\ inFlight' \in [Screens \X Kinds -> 0..MaxInFlight]
        /\ \A t \in Screens :
              inFlight'[<<t, "code">>] > 0 => inFlight[<<t, "code">>] > 0
    BY <1>5, AnswerCounts DEF IInv
  <2>2. TypeOK'
    BY <1>5, <2>1 DEF IInv, TypeOK, viewVars
  <2>3. ScreenFollowsContactPoint' /\ FilledPrefix'
    BY <1>5 DEF IInv, ScreenFollowsContactPoint, FilledPrefix, viewVars
  <2>4. CodeHasVerification'
    BY <1>5, <2>1 DEF IInv, CodeHasVerification
  <2> QED
    BY <2>2, <2>3, <2>4 DEF IInv
<1>6. ASSUME NEW s \in Screens, CodeSent(s)
      PROVE  IInv'
  <2>1. inFlight' \in [Screens \X Kinds -> 0..MaxInFlight]
    BY <1>6, AnswerCounts DEF IInv, CodeSent, Kinds
  <2>2. TypeOK' /\ FilledPrefix'
    BY <1>6, <2>1 DEF IInv, TypeOK, FilledPrefix, CodeSent, ContactPoints
  <2>3. ScreenFollowsContactPoint'
    BY <1>6 DEF IInv, TypeOK, ScreenFollowsContactPoint, CodeSent
  <2>4. CodeHasVerification'
    BY <1>6 DEF CodeHasVerification, CodeSent, Screens, NoID
  <2> QED
    BY <2>2, <2>3, <2>4 DEF IInv
<1>7. ASSUME NEW s \in Screens, NEW kind \in Kinds, Answered(s, kind),
             AskForPhone(s)
      PROVE  IInv'
  <2>1. /\ inFlight' \in [Screens \X Kinds -> 0..MaxInFlight]
        /\ \A t \in Screens :
              inFlight'[<<t, "code">>] > 0 => inFlight[<<t, "code">>] > 0
    BY <1>7, AnswerCounts DEF IInv
  <2>2. TypeOK' /\ FilledPrefix'
    BY <1>7, <2>1 DEF IInv, TypeOK, FilledPrefix, AskForPhone, ContactPoints
  <2>3. ScreenFollowsContactPoint'
    BY <1>7 DEF IInv, TypeOK, ScreenFollowsContactPoint, AskForPhone
  <2>4. CodeHasVerification'
    BY <1>7, <2>1 DEF IInv, TypeOK, CodeHasVerification, AskForPhone
  <2> QED
    BY <2>2, <2>3, <2>4 DEF IInv
<1>8. CASE UNCHANGED vars
  BY <1>8 DEF vars, viewVars, IInv, TypeOK, ScreenFollowsContactPoint,
     CodeHasVerification, FilledPrefix
<1>9. ASSUME NEW s \in Screens,
             Failed(s) \/ CodeAccepted(s) \/ EmailAccepted(s)
      PROVE  IInv'
  BY <1>5, <1>7, <1>9 DEF Failed, CodeAccepted, EmailAccepted, Kinds
<1> QED
  BY <1>1, <1>2, <1>3, <1>4, <1>6, <1>8, <1>9 DEF Next

LEMMA InitHasInvariant == Init => IInv
<1> SUFFICES ASSUME Init PROVE IInv
  OBVIOUS
<1> USE OtpCountAssumption, MaxInFlightAssumption
<1>1. TypeOK /\ ScreenFollowsContactPoint
  BY DEF Init, TypeOK, ContactPoints, ScreenFollowsContactPoint
<1>2. CodeHasVerification
  BY DEF Init, CodeHasVerification, Kinds
<1>3. FilledPrefix
  <2>1. \A s \in Screens : otp[s] = 1..0
    BY DEF Init
  <2>2. 0 \in 0..OtpCount
    OBVIOUS
  <2> QED
    BY <2>1, <2>2 DEF FilledPrefix
<1> QED
  BY <1>1, <1>2, <1>3 DEF IInv

LEMMA AlwaysInvariant == Spec => []IInv
BY InitHasInvariant, StepKeepsInvariant, PTL DEF Spec

-----------------------------------------------------------------------------
(* What the screens promise.                                               *)

\* Contact points, fields and counters of requests keep their types.
THEOREM PhoneTypeCorrect == Spec => []TypeOK
BY AlwaysInvariant, PTL DEF IInv

\* However answers and switches interleave, the button and the phone and code
\* fields are those of what a tap sends.
THEOREM ScreenAlwaysFollows == Spec => []ScreenFollowsContactPoint
BY AlwaysInvariant, PTL DEF IInv

\* With any number of requests under way, a code is never asked for or under
\* way without a stored verification, also after a restart.
THEOREM CodeAlwaysHasVerification == Spec => []CodeHasVerification
BY AlwaysInvariant, PTL DEF IInv

\* For any number of code fields the filled ones are the first ones.
THEOREM CodeAlwaysInOrder == Spec => []CodeInOrder
<1>1. IInv => CodeInOrder
  <2> SUFFICES ASSUME IInv, NEW s \in Screens
               PROVE  otp[s] = 1..Cardinality(otp[s])
    BY DEF CodeInOrder
  <2>1. PICK k \in 0..OtpCount : otp[s] = 1..k
    BY DEF IInv, FilledPrefix
  <2>2. Cardinality(1..k) = k
    <3>1. k \in Nat
      BY OtpCountAssumption
    <3>2. Cardinality(1..k) = IF 1 > k THEN 0 ELSE k - 1 + 1
      BY <3>1, FS_Interval
    <3> QED
      BY <3>1, <3>2
  <2> QED
    BY <2>1, <2>2
<1> QED
  BY <1>1, AlwaysInvariant, PTL

=============================================================================
