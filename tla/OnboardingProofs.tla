-------------------------- MODULE OnboardingProofs --------------------------
(***************************************************************************)
(* Theorems about Onboarding, for any number of countries, code fields and *)
(* unanswered requests.                                                    *)
(***************************************************************************)
EXTENDS Onboarding, SequenceTheorems, TLAPS

\* The theorems about the two phone screens alone.
Alone == INSTANCE PhoneAuthProofs

\* The part of TypeOK that is not about the phone screens.
FlowTypeOK ==
    /\ stack \in Stacks
    /\ modal \in {"none", "picker", "alert", "sent"}
    /\ shown \in BOOLEAN
    /\ loaded \subseteq Screens
    /\ country \in [Screens -> Countries]
    /\ flag \in [Screens -> Countries]
    /\ late \subseteq loaded
    /\ resets \in Nat

IInv ==
    /\ FlowTypeOK
    /\ OKLeavesReset
    /\ FlagNamesTheCode

-----------------------------------------------------------------------------
(* The phone screens in the flow.                                          *)

\* However a person navigates, both forms take the steps of PhoneAuth.
THEOREM OnboardingImplementsPhoneAuth == Spec => ImplementsPhoneAuth
<1>1. Init => Phone!Init
  BY DEF Init
<1>2. [Next]_vars => [Phone!Next]_Phone!vars
  <2> SUFFICES ASSUME [Next]_vars
               PROVE  Phone!Next \/ UNCHANGED Phone!vars
    OBVIOUS
  <2> USE DEF Phone!vars, Phone!viewVars, phoneVars
  <2>1. CASE Relaunch
    BY <2>1 DEF Relaunch, Phone!Next
  <2>2. CASE Back \/ ForgotPassword \/ TapInvalid \/ TapReset \/ Dismiss
    BY <2>2 DEF Back, ForgotPassword, TapInvalid, TapReset, Dismiss
  <2>3. CASE ConfirmSent \/ ResetAnswered \/ Logout
    BY <2>3 DEF ConfirmSent, ResetAnswered, Logout
  <2>4. ASSUME NEW c \in Countries, PickCountry(c)
        PROVE  UNCHANGED Phone!vars
    BY <2>4 DEF PickCountry
  <2>5. ASSUME NEW s \in Screens, OpenScreen(s) \/ OpenPicker(s)
        PROVE  UNCHANGED Phone!vars
    BY <2>5 DEF OpenScreen, OpenPicker
  <2>6. ASSUME NEW s \in Screens,
               UseForm(s) \/ RequestFailed(s) \/ CodeSent(s) \/ Completed(s)
        PROVE  Phone!Next
    BY <2>6 DEF UseForm, RequestFailed, CodeSent, Completed, Phone!Next, Screens
  <2>7. CASE UNCHANGED vars
    BY <2>7 DEF vars
  <2> QED
    BY <2>1, <2>2, <2>3, <2>4, <2>5, <2>6, <2>7 DEF Next
<1> QED
  BY <1>1, <1>2, PTL DEF Spec, ImplementsPhoneAuth, Phone!Spec

\* So what holds of the two screens alone holds of them in the flow.
LEMMA SameNext == [Phone!Next]_Phone!vars => [Alone!Next]_Alone!vars
<1> USE DEF Phone!viewVars, Alone!viewVars, Phone!Screens, Alone!Screens
<1>1. Phone!Relaunch => Alone!Relaunch
  BY DEF Phone!Relaunch, Alone!Relaunch, Phone!Kinds, Alone!Kinds
<1>2. ASSUME NEW s \in Screens, Phone!ToggleContactPoint(s)
      PROVE  Alone!ToggleContactPoint(s)
  BY <1>2 DEF Phone!ToggleContactPoint, Alone!ToggleContactPoint
<1>3. ASSUME NEW s \in Screens, Phone!TapButton(s)
      PROVE  Alone!TapButton(s)
  BY <1>3 DEF Phone!TapButton, Alone!TapButton, Phone!RequestOf, Alone!RequestOf
<1>4. ASSUME NEW s \in Screens, Phone!TypeDigit(s)
      PROVE  Alone!TypeDigit(s)
  BY <1>4 DEF Phone!TypeDigit, Alone!TypeDigit, Phone!Min, Alone!Min
<1>5. ASSUME NEW s \in Screens, Phone!Backspace(s)
      PROVE  Alone!Backspace(s)
  BY <1>5 DEF Phone!Backspace, Alone!Backspace, Phone!Max, Alone!Max
<1>6. ASSUME NEW s \in Screens, Phone!Failed(s)
      PROVE  Alone!Failed(s)
  BY <1>6 DEF Phone!Failed, Alone!Failed, Phone!Answered, Alone!Answered,
     Phone!Kinds, Alone!Kinds
<1>7. ASSUME NEW s \in Screens, Phone!CodeSent(s)
      PROVE  Alone!CodeSent(s)
  BY <1>7 DEF Phone!CodeSent, Alone!CodeSent, Phone!Answered, Alone!Answered
<1>8. ASSUME NEW s \in Screens, Phone!CodeAccepted(s)
      PROVE  Alone!CodeAccepted(s)
  BY <1>8 DEF Phone!CodeAccepted, Alone!CodeAccepted, Phone!Answered, Alone!Answered,
     Phone!AskForPhone, Alone!AskForPhone
<1>9. ASSUME NEW s \in Screens, Phone!EmailAccepted(s)
      PROVE  Alone!EmailAccepted(s)
  BY <1>9 DEF Phone!EmailAccepted, Alone!EmailAccepted, Phone!Answered, Alone!Answered,
     Phone!AskForPhone, Alone!AskForPhone
<1>10. UNCHANGED Phone!vars => UNCHANGED Alone!vars
  BY DEF Phone!vars, Alone!vars
<1> QED
  BY <1>1, <1>2, <1>3, <1>4, <1>5, <1>6, <1>7, <1>8, <1>9, <1>10
  DEF Phone!Next, Alone!Next, Screens

LEMMA SameSpec == Phone!Spec => Alone!Spec
<1>1. Phone!Init => Alone!Init
  BY DEF Phone!Init, Alone!Init, Phone!Screens, Alone!Screens, Phone!Kinds,
     Alone!Kinds, Phone!NoID, Alone!NoID
<1> QED
  BY <1>1, SameNext, PTL DEF Phone!Spec, Alone!Spec

LEMMA SameProperties ==
    /\ Alone!TypeOK => Phone!TypeOK
    /\ Alone!ScreenFollowsContactPoint => Phone!ScreenFollowsContactPoint
    /\ Alone!CodeHasVerification => Phone!CodeHasVerification
    /\ Alone!CodeInOrder => Phone!CodeInOrder
<1> USE DEF Alone!Screens, Phone!Screens
<1>1. Alone!TypeOK => Phone!TypeOK
  BY DEF Alone!TypeOK, Phone!TypeOK, Alone!Kinds, Phone!Kinds,
     Alone!ContactPoints, Phone!ContactPoints, Alone!NoID, Phone!NoID
<1>2. Alone!ScreenFollowsContactPoint => Phone!ScreenFollowsContactPoint
  BY DEF Alone!ScreenFollowsContactPoint, Phone!ScreenFollowsContactPoint
<1>3. Alone!CodeHasVerification => Phone!CodeHasVerification
  BY DEF Alone!CodeHasVerification, Phone!CodeHasVerification,
     Alone!NoID, Phone!NoID
<1>4. Alone!CodeInOrder => Phone!CodeInOrder
  BY DEF Alone!CodeInOrder, Phone!CodeInOrder, Alone!Cardinality,
     Phone!Cardinality
<1> QED
  BY <1>1, <1>2, <1>3, <1>4

\* On the stack too, whatever is pushed, popped, covered or logged out, the
\* button follows the fields, a code has its verification and its digits are
\* in order.
THEOREM FormsAlwaysCorrect ==
    Spec => [](/\ Phone!TypeOK
               /\ Phone!ScreenFollowsContactPoint
               /\ Phone!CodeHasVerification
               /\ Phone!CodeInOrder)
<1>1. Spec => Alone!Spec
  BY OnboardingImplementsPhoneAuth, SameSpec DEF ImplementsPhoneAuth
<1>2. Alone!Spec => []Alone!TypeOK
  BY Alone!PhoneTypeCorrect, OtpCountAssumption, MaxInFlightAssumption, PTL
<1>3. Alone!Spec => []Alone!ScreenFollowsContactPoint
  BY Alone!ScreenAlwaysFollows, OtpCountAssumption, MaxInFlightAssumption, PTL
<1>4. Alone!Spec => []Alone!CodeHasVerification
  BY Alone!CodeAlwaysHasVerification, OtpCountAssumption, MaxInFlightAssumption, PTL
<1>5. Alone!Spec => []Alone!CodeInOrder
  BY Alone!CodeAlwaysInOrder, OtpCountAssumption, MaxInFlightAssumption, PTL
<1> QED
  BY <1>1, <1>2, <1>3, <1>4, <1>5, SameProperties, PTL

-----------------------------------------------------------------------------
(* The stack.                                                              *)

\* A push on a stack of one or two screens.
LEMMA PushOnOne ==
    ASSUME NEW a, NEW b
    PROVE  Append(<<a>>, b) = <<a, b>>
<1> DEFINE S == {a, b}
<1>1. <<a>> \in Seq(S) /\ <<a, b>> \in Seq(S) /\ b \in S
  OBVIOUS
<1>2. Append(<<a>>, b) \in Seq(S)
  BY <1>1
<1>3. Len(Append(<<a>>, b)) = Len(<<a, b>>)
  BY <1>1
<1>4. \A i \in 1..2 : Append(<<a>>, b)[i] = <<a, b>>[i]
  BY <1>1
<1> HIDE DEF S
<1> QED
  BY <1>1, <1>2, <1>3, <1>4, SeqEqual

LEMMA PushOnTwo ==
    ASSUME NEW a, NEW b, NEW c
    PROVE  Append(<<a, b>>, c) = <<a, b, c>>
<1> DEFINE S == {a, b, c}
<1>1. <<a, b>> \in Seq(S) /\ <<a, b, c>> \in Seq(S) /\ c \in S
  OBVIOUS
<1>2. Append(<<a, b>>, c) \in Seq(S)
  BY <1>1
<1>3. Len(Append(<<a, b>>, c)) = Len(<<a, b, c>>)
  BY <1>1
<1>4. \A i \in 1..3 : Append(<<a, b>>, c)[i] = <<a, b, c>>[i]
  BY <1>1
<1> HIDE DEF S
<1> QED
  BY <1>1, <1>2, <1>3, <1>4, SeqEqual

\* Popping what was pushed gives back the stack.
LEMMA PopAfterPush ==
    ASSUME NEW S, NEW t \in Seq(S), NEW a \in S
    PROVE  Front(Append(t, a)) = t /\ Last(Append(t, a)) = a
<1> DEFINE u == Append(t, a)
<1>1. /\ u \in Seq(S) /\ Len(u) = Len(t) + 1 /\ Len(t) \in Nat
      /\ u[Len(t) + 1] = a
      /\ \A i \in 1..Len(t) : u[i] = t[i]
  OBVIOUS
<1> HIDE DEF u
<1>2. Front(u) = SubSeq(u, 1, Len(t)) /\ Last(u) = a
  BY <1>1 DEF Front, Last
<1>3. /\ SubSeq(u, 1, Len(t)) \in Seq(S)
      /\ Len(SubSeq(u, 1, Len(t))) = Len(t)
      /\ \A i \in 1..Len(t) : SubSeq(u, 1, Len(t))[i] = t[i]
  BY <1>1
<1>4. SubSeq(u, 1, Len(t)) = t
  BY <1>3, SeqEqual
<1> QED
  BY <1>2, <1>4 DEF u

\* What is on top of a stack, what is under it and what a push makes of it.
LEMMA StackFacts ==
    /\ Last(<<"landing">>) = "landing"
    /\ \A s \in Screens :
          /\ Append(<<"landing">>, s) = <<"landing", s>>
          /\ Last(<<"landing", s>>) = s
          /\ Front(<<"landing", s>>) = <<"landing">>
    /\ Append(<<"landing", "login">>, "resetPassword")
          = <<"landing", "login", "resetPassword">>
    /\ Last(<<"landing", "login", "resetPassword">>) = "resetPassword"
    /\ Front(<<"landing", "login", "resetPassword">>) = <<"landing", "login">>
<1>1. Last(<<"landing">>) = "landing"
  BY DEF Last
<1>2. ASSUME NEW s \in Screens
      PROVE  /\ Append(<<"landing">>, s) = <<"landing", s>>
             /\ Last(<<"landing", s>>) = s
             /\ Front(<<"landing", s>>) = <<"landing">>
  <2>1. Append(<<"landing">>, s) = <<"landing", s>>
    BY PushOnOne
  <2>2. <<"landing">> \in Seq({"landing", s}) /\ s \in {"landing", s}
    OBVIOUS
  <2> QED
    BY <2>1, <2>2, PopAfterPush
<1>3. /\ Append(<<"landing", "login">>, "resetPassword")
            = <<"landing", "login", "resetPassword">>
      /\ Last(<<"landing", "login", "resetPassword">>) = "resetPassword"
      /\ Front(<<"landing", "login", "resetPassword">>) = <<"landing", "login">>
  <2> DEFINE t == <<"landing", "login">>
  <2>1. Append(t, "resetPassword") = <<"landing", "login", "resetPassword">>
    BY PushOnTwo
  <2>2. t \in Seq({"landing", "login", "resetPassword"})
    OBVIOUS
  <2> HIDE DEF t
  <2>3. Front(Append(t, "resetPassword")) = t /\ Last(Append(t, "resetPassword")) = "resetPassword"
    BY <2>2, PopAfterPush
  <2> QED
    BY <2>1, <2>3 DEF t
<1> QED
  BY <1>1, <1>2, <1>3

\* A screen that is popped leaves a stack.
LEMMA PopsToAStack ==
    ASSUME stack \in Stacks, Top # "landing" \/ Len(stack) > 1
    PROVE  Front(stack) \in Stacks
<1>1. CASE stack = <<"landing">>
  BY <1>1, StackFacts DEF Top
<1>2. CASE \E s \in Screens : stack = <<"landing", s>>
  BY <1>2, StackFacts DEF Stacks
<1>3. CASE stack = <<"landing", "login", "resetPassword">>
  BY <1>3, StackFacts DEF Stacks, Screens, Phone!Screens
<1> QED
  BY <1>1, <1>2, <1>3 DEF Stacks

\* The landing screen is on top of itself only, the login screen of one stack.
LEMMA UnderTop ==
    ASSUME stack \in Stacks
    PROVE  /\ Top = "landing" => stack = <<"landing">>
           /\ Top = "login" => stack = <<"landing", "login">>
BY StackFacts DEF Stacks, Top, Screens, Phone!Screens

-----------------------------------------------------------------------------
(* Steps.                                                                  *)

LEMMA InitHasInvariant == Init => IInv
<1> SUFFICES ASSUME Init PROVE IInv
  OBVIOUS
<1>1. FlowTypeOK
  BY DefaultCountryAssumption DEF Init, FlowTypeOK, Stacks
<1>2. OKLeavesReset /\ FlagNamesTheCode
  BY DEF Init, OKLeavesReset, FlagNamesTheCode, Screens, Phone!Screens
<1> QED
  BY <1>1, <1>2 DEF IInv

LEMMA RelaunchStep ==
    ASSUME IInv, Relaunch
    PROVE  IInv'
<1>1. FlowTypeOK'
  BY DefaultCountryAssumption DEF IInv, Relaunch, FlowTypeOK, Stacks
<1>2. OKLeavesReset' /\ FlagNamesTheCode'
  BY DEF Relaunch, OKLeavesReset, FlagNamesTheCode, Screens, Phone!Screens
<1> QED
  BY <1>1, <1>2 DEF IInv

\* What is pushed, popped or presented without touching the countries.
LEMMA StackStep ==
    ASSUME IInv, UNCHANGED countryVars, stack' \in Stacks, resets' \in Nat,
           modal' \in {"none", "picker", "alert", "sent"}, shown' \in BOOLEAN,
           modal' = "sent" => Top' = "resetPassword"
    PROVE  IInv'
BY DEF IInv, FlowTypeOK, OKLeavesReset, FlagNamesTheCode, countryVars

LEMMA OpenScreenStep ==
    ASSUME IInv, NEW s \in Screens, OpenScreen(s)
    PROVE  IInv'
<1>1. Top = "landing" /\ modal = "none"
  BY DEF OpenScreen, Touchable, InWindow
<1>2. stack' = <<"landing", s>>
  BY <1>1, UnderTop, StackFacts DEF IInv, FlowTypeOK, OpenScreen, Push
<1>3. /\ loaded' = loaded \cup {s}
      /\ \/ s \in loaded /\ UNCHANGED <<flag, late>>
         \/ /\ flag' = [flag EXCEPT ![s] = DefaultCountry]
            /\ late' = late \cup {s}
      /\ UNCHANGED <<modal, shown, country, resets>>
  BY DEF OpenScreen
<1>4. FlowTypeOK'
  BY <1>2, <1>3, DefaultCountryAssumption DEF IInv, FlowTypeOK, Stacks
<1>5. OKLeavesReset'
  BY <1>1, <1>3 DEF OKLeavesReset
<1>6. FlagNamesTheCode'
  BY <1>3 DEF IInv, FlowTypeOK, FlagNamesTheCode
<1> QED
  BY <1>4, <1>5, <1>6 DEF IInv

LEMMA PickCountryStep ==
    ASSUME IInv, NEW c \in Countries, PickCountry(c)
    PROVE  IInv'
<1>1. FlowTypeOK' /\ OKLeavesReset'
  BY DEF IInv, FlowTypeOK, PickCountry, OKLeavesReset
<1>2. FlagNamesTheCode'
  BY DEF IInv, FlowTypeOK, FlagNamesTheCode, PickCountry, Screens, Phone!Screens
<1> QED
  BY <1>1, <1>2 DEF IInv

LEMMA StepKeepsInvariant == IInv /\ [Next]_vars => IInv'
<1> SUFFICES ASSUME IInv, [Next]_vars PROVE IInv'
  OBVIOUS
<1>1. /\ stack \in Stacks /\ resets \in Nat /\ shown \in BOOLEAN
      /\ modal \in {"none", "picker", "alert", "sent"}
      /\ modal = "sent" => Top = "resetPassword"
  BY DEF IInv, FlowTypeOK, OKLeavesReset
<1>2. CASE Back
  <2>1. Front(stack) \in Stacks
    BY <1>1, <1>2, PopsToAStack DEF Back
  <2> QED
    BY <1>1, <1>2, <2>1, StackStep DEF Back, Touchable
<1>3. CASE ForgotPassword
  <2>1. stack = <<"landing", "login">> /\ modal = "none"
    BY <1>1, <1>3, UnderTop DEF ForgotPassword, Touchable, InWindow
  <2>2. stack' \in Stacks
    BY <1>3, <2>1, StackFacts DEF ForgotPassword, Push, Stacks
  <2> QED
    BY <1>1, <1>3, <2>1, <2>2, StackStep DEF ForgotPassword
<1>4. CASE TapInvalid
  BY <1>1, <1>4, StackStep DEF TapInvalid, Presents, Top
<1>5. CASE TapReset
  BY <1>1, <1>5, StackStep DEF TapReset, Top
<1>6. CASE Dismiss
  BY <1>1, <1>6, StackStep DEF Dismiss
<1>7. CASE ConfirmSent
  <2>1. stack' \in Stacks
    BY <1>1, <1>7, PopsToAStack DEF ConfirmSent
  <2> QED
    BY <1>1, <1>7, <2>1, StackStep DEF ConfirmSent
<1>8. CASE ResetAnswered
  <2>1. resets' \in Nat /\ UNCHANGED <<stack, shown, countryVars>>
    BY <1>1, <1>8 DEF ResetAnswered
  <2>2. /\ modal' \in {"none", "picker", "alert", "sent"}
        /\ modal' = "sent" => Top = "resetPassword"
    BY <1>1, <1>8 DEF ResetAnswered, Presents, Touchable, InWindow
  <2> QED
    BY <1>1, <2>1, <2>2, StackStep DEF Top
<1>9. CASE Logout
  BY <1>1, <1>9, StackStep DEF Logout
<1>10. ASSUME NEW s \in Screens, OpenPicker(s)
       PROVE  IInv'
  BY <1>1, <1>10, StackStep DEF OpenPicker, Presents, Top
<1>11. ASSUME NEW s \in Screens, RequestFailed(s)
       PROVE  IInv'
  BY <1>1, <1>11, StackStep DEF RequestFailed, Presents, Top
<1>12. ASSUME NEW s \in Screens, UseForm(s) \/ CodeSent(s)
       PROVE  IInv'
  BY <1>1, <1>12, StackStep DEF UseForm, CodeSent, Top
<1>13. ASSUME NEW s \in Screens, Completed(s)
       PROVE  IInv'
  BY <1>1, <1>13, StackStep DEF Completed, Top
<1>14. CASE UNCHANGED vars
  BY <1>1, <1>14, StackStep DEF vars, Top
<1> QED
  BY <1>2, <1>3, <1>4, <1>5, <1>6, <1>7, <1>8, <1>9, <1>10, <1>11, <1>12, <1>13,
     <1>14, RelaunchStep, OpenScreenStep, PickCountryStep DEF Next

LEMMA AlwaysInvariant == Spec => []IInv
BY InitHasInvariant, StepKeepsInvariant, PTL DEF Spec

-----------------------------------------------------------------------------
(* The theorems.                                                           *)

\* The stack is always one of those the coordinator builds, and what the two
\* phone screens hold has its types wherever the person is.
THEOREM OnboardingTypeCorrect == Spec => []TypeOK
<1>1. IInv /\ Phone!TypeOK => TypeOK
  BY DEF IInv, FlowTypeOK, TypeOK
<1> QED
  BY <1>1, AlwaysInvariant, FormsAlwaysCorrect, PTL

\* With any number of unanswered password requests the OK of the success
\* alert only ever pops the password screen.
THEOREM OKAlwaysLeavesReset == Spec => []OKLeavesReset
BY AlwaysInvariant, PTL DEF IInv

\* The two screens never send different country codes, and a screen loaded
\* before the pick shows the flag of the code it sends.
THEOREM FlagAlwaysNamesTheCode == Spec => []FlagNamesTheCode
BY AlwaysInvariant, PTL DEF IInv

=============================================================================
