------------------------------ MODULE PhoneAuth ------------------------------
(***************************************************************************)
(* ATCPhoneLoginScreenManager and ATCPhoneSignUpScreenManager: the login   *)
(* and the sign-up screen of an app with phone authentication.             *)
(*                                                                         *)
(* A screen asks for an email and a password, for a phone number, or for   *)
(* the code that was sent to it; the viewModel's contactPoint says which.  *)
(* Firebase answers on the main queue, in any order, on whatever screen    *)
(* the person has switched to meanwhile: the progress view does not cover  *)
(* the buttons.  Both screens keep their verification under one key of     *)
(* UserDefaults, which outlives the process.                               *)
(***************************************************************************)
EXTENDS Naturals, FiniteSets, FiniteSetsExt

CONSTANTS
    OtpCount,       \* text fields for the code
    MaxInFlight     \* bound: unanswered requests of a kind on a screen

ASSUME OtpCountAssumption == OtpCount \in Nat \ {0}
ASSUME MaxInFlightAssumption == MaxInFlight \in Nat \ {0}

Screens == {"login", "signUp"}
ContactPoints == {"email", "phone", "phoneWithOtp"}
Kinds == {"email", "verify", "code"}
NoID == "none"

VARIABLES
    contactPoint,       \* what each screen asks for
    emailFields,        \* visible: the email and password fields,
    phoneNumberView,    \* the phone number,
    otpView,            \* the fields of the code
    title,              \* of the button
    otp,                \* the fields of the code that are filled
    inFlight,           \* number of unanswered requests, by screen and kind
    authVerificationID  \* UserDefaults: whose verification is kept

viewVars == <<emailFields, phoneNumberView, otpView, title>>
vars == <<contactPoint, viewVars, otp, inFlight, authVerificationID>>

TypeOK ==
    /\ contactPoint \in [Screens -> ContactPoints]
    /\ emailFields \in [Screens -> BOOLEAN]
    /\ phoneNumberView \in [Screens -> BOOLEAN]
    /\ otpView \in [Screens -> BOOLEAN]
    /\ title \in [Screens -> {"enter", "sendCode", "submitCode"}]
    /\ otp \in [Screens -> SUBSET (1..OtpCount)]
    /\ inFlight \in [Screens \X Kinds -> 0..MaxInFlight]
    /\ authVerificationID \in Screens \cup {NoID}

\* screenDidLoadView of both screens.
Init ==
    /\ contactPoint = [s \in Screens |-> "email"]
    /\ emailFields = [s \in Screens |-> TRUE]
    /\ phoneNumberView = [s \in Screens |-> FALSE]
    /\ otpView = [s \in Screens |-> FALSE]
    /\ title = [s \in Screens |-> "enter"]
    /\ otp = [s \in Screens |-> {}]
    /\ inFlight = [r \in Screens \X Kinds |-> 0]
    /\ authVerificationID = NoID

\* The process is killed and started again.
Relaunch ==
    /\ contactPoint' = [s \in Screens |-> "email"]
    /\ emailFields' = [s \in Screens |-> TRUE]
    /\ phoneNumberView' = [s \in Screens |-> FALSE]
    /\ otpView' = [s \in Screens |-> FALSE]
    /\ title' = [s \in Screens |-> "enter"]
    /\ otp' = [s \in Screens |-> {}]
    /\ inFlight' = [r \in Screens \X Kinds |-> 0]
    /\ UNCHANGED authVerificationID

-----------------------------------------------------------------------------
(* Taps.                                                                   *)

\* Mutant of ToggleContactPoint: the fields of the code are left alone.
ToggleContactPoint_KeepsOtp(s) ==
    LET email == contactPoint[s] = "email" IN
    /\ contactPoint' = [contactPoint EXCEPT ![s] = IF email THEN "phone" ELSE "email"]
    /\ emailFields' = [emailFields EXCEPT ![s] = ~email]
    /\ phoneNumberView' = [phoneNumberView EXCEPT ![s] = email]
    /\ title' = [title EXCEPT ![s] = IF email THEN "sendCode" ELSE "enter"]
    /\ UNCHANGED <<otpView, otp, inFlight, authVerificationID>>

\* didTapContactPointButton
ToggleContactPoint(s) ==
    LET email == contactPoint[s] = "email" IN
    /\ contactPoint' = [contactPoint EXCEPT ![s] = IF email THEN "phone" ELSE "email"]
    /\ emailFields' = [emailFields EXCEPT ![s] = ~email]
    /\ phoneNumberView' = [phoneNumberView EXCEPT ![s] = email]
    /\ otpView' = [otpView EXCEPT ![s] = FALSE]
    /\ title' = [title EXCEPT ![s] = IF email THEN "sendCode" ELSE "enter"]
    /\ otp' = [otp EXCEPT ![s] = IF contactPoint[s] = "phoneWithOtp" THEN {} ELSE @]
    /\ UNCHANGED <<inFlight, authVerificationID>>

\* The fields that do not pass validation only raise an alert; the others
\* reach Firebase.  An empty code is not submitted.
RequestOf(s) ==
    CASE contactPoint[s] = "email" -> "email"
      [] contactPoint[s] = "phone" -> "verify"
      [] contactPoint[s] = "phoneWithOtp" -> "code"

\* didTapLoginButton and didTapSignUpButton
TapButton(s) ==
    LET r == <<s, RequestOf(s)>> IN
    /\ RequestOf(s) = "code" => otp[s] # {}
    /\ inFlight[r] < MaxInFlight
    /\ inFlight' = [inFlight EXCEPT ![r] = @ + 1]
    /\ UNCHANGED <<contactPoint, viewVars, otp, authVerificationID>>

\* Mutant of TypeDigit: the digit goes one field too far.
TypeDigit_Skips(s) ==
    /\ otpView[s]
    /\ Cardinality(otp[s]) + 2 <= OtpCount
    /\ otp' = [otp EXCEPT ![s] = @ \cup {Cardinality(@) + 2}]
    /\ UNCHANGED <<contactPoint, viewVars, inFlight, authVerificationID>>

\* Wherever the cursor is, a digit goes into the first empty field.
TypeDigit(s) ==
    /\ otpView[s]
    /\ otp[s] # 1..OtpCount
    /\ otp' = [otp EXCEPT ![s] = @ \cup {Min((1..OtpCount) \ @)}]
    /\ UNCHANGED <<contactPoint, viewVars, inFlight, authVerificationID>>

\* A backspace empties the last field that is filled.  It reaches the
\* delegate only from a field with text.
Backspace(s) ==
    /\ otpView[s]
    /\ otp[s] # {}
    /\ otp' = [otp EXCEPT ![s] = @ \ {Max(@)}]
    /\ UNCHANGED <<contactPoint, viewVars, inFlight, authVerificationID>>

-----------------------------------------------------------------------------
(* Answers.                                                                *)

Answered(s, kind) ==
    /\ inFlight[<<s, kind>>] > 0
    /\ inFlight' = [inFlight EXCEPT ![<<s, kind>>] = @ - 1]

Failed(s) ==
    /\ \E kind \in Kinds : Answered(s, kind)
    /\ UNCHANGED <<contactPoint, viewVars, otp, authVerificationID>>

\* Mutant of CodeSent: the verification is not kept.
CodeSent_NotKept(s) ==
    /\ Answered(s, "verify")
    /\ contactPoint' = [contactPoint EXCEPT ![s] = "phoneWithOtp"]
    /\ otpView' = [otpView EXCEPT ![s] = TRUE]
    /\ phoneNumberView' = [phoneNumberView EXCEPT ![s] = FALSE]
    /\ title' = [title EXCEPT ![s] = "submitCode"]
    /\ UNCHANGED <<emailFields, otp, authVerificationID>>

\* verifyPhoneNumber: whatever the screen asks for by now.
CodeSent(s) ==
    /\ Answered(s, "verify")
    /\ authVerificationID' = s
    /\ contactPoint' = [contactPoint EXCEPT ![s] = "phoneWithOtp"]
    /\ otpView' = [otpView EXCEPT ![s] = TRUE]
    /\ phoneNumberView' = [phoneNumberView EXCEPT ![s] = FALSE]
    /\ title' = [title EXCEPT ![s] = "submitCode"]
    /\ UNCHANGED <<emailFields, otp>>

\* The reset that follows the delegate's callback.
AskForPhone(s) ==
    /\ contactPoint' = [contactPoint EXCEPT ![s] = "phone"]
    /\ otpView' = [otpView EXCEPT ![s] = FALSE]
    /\ phoneNumberView' = [phoneNumberView EXCEPT ![s] = TRUE]
    /\ title' = [title EXCEPT ![s] = "sendCode"]
    /\ UNCHANGED <<emailFields, otp, authVerificationID>>

CodeAccepted(s) == Answered(s, "code") /\ AskForPhone(s)

\* The sign-up screen resets itself after an email too.
EmailAccepted(s) ==
    /\ Answered(s, "email")
    /\ IF s = "signUp"
       THEN AskForPhone(s)
       ELSE UNCHANGED <<contactPoint, viewVars, otp, authVerificationID>>

Next ==
    \/ Relaunch
    \/ \E s \in Screens :
          \/ ToggleContactPoint(s)
          \/ TapButton(s)
          \/ TypeDigit(s)
          \/ Backspace(s)
          \/ Failed(s)
          \/ CodeSent(s)
          \/ CodeAccepted(s)
          \/ EmailAccepted(s)

Spec == Init /\ [][Next]_vars

-----------------------------------------------------------------------------
(* Properties                                                              *)

\* The fields and the button never offer something else than what a tap
\* sends, in whatever order answers and switches come.  (The email fields
\* may stay on screen beside the others: see the README.)
ScreenFollowsContactPoint ==
    \A s \in Screens :
        /\ contactPoint[s] = "email" => emailFields[s] /\ title[s] = "enter"
        /\ phoneNumberView[s] <=> contactPoint[s] = "phone"
        /\ otpView[s] <=> contactPoint[s] = "phoneWithOtp"
        /\ contactPoint[s] = "phone" => title[s] = "sendCode"
        /\ contactPoint[s] = "phoneWithOtp" => title[s] = "submitCode"

\* A code is asked for and submitted only with a verification to check it
\* against, so the empty string that stands for none is never used.
CodeHasVerification ==
    \A s \in Screens :
        contactPoint[s] = "phoneWithOtp" \/ inFlight[<<s, "code">>] > 0
            => authVerificationID # NoID

\* The filled fields are the first ones, so the submitted code is the
\* digits in the order they were typed.
CodeInOrder == \A s \in Screens : otp[s] = 1..Cardinality(otp[s])

=============================================================================
