----------------------------- MODULE Onboarding -----------------------------
(***************************************************************************)
(* ATCClassicOnboardingCoordinator: the landing, login, sign-up and        *)
(* password screens on one navigation stack, with phone authentication.    *)
(*                                                                         *)
(* The coordinator makes every screen once and pushes that instance each   *)
(* time, so a screen keeps its fields while it is off the stack, and the   *)
(* answers to its requests reach it there.  The login and the sign-up      *)
(* screen are those of PhoneAuth; here a person can only touch the screen  *)
(* on top, and only while nothing is presented over it.  The host shows    *)
(* the stack until a login completes and the same stack after a logout.    *)
(***************************************************************************)
EXTENDS Naturals, Sequences, SequencesExt

CONSTANTS
    OtpCount,       \* as in PhoneAuth
    MaxInFlight,    \* as in PhoneAuth
    MaxRequests,    \* bound: unanswered requests of the whole flow
    Countries,      \* of the country picker
    DefaultCountry  \* kPhoneVerificationConfig

ASSUME OtpCountAssumption == OtpCount \in Nat \ {0}
ASSUME MaxInFlightAssumption == MaxInFlight \in Nat \ {0}
ASSUME MaxRequestsAssumption == MaxRequests \in Nat
ASSUME DefaultCountryAssumption == DefaultCountry \in Countries

VARIABLES
    contactPoint, emailFields, phoneNumberView, otpView, title, otp,
    inFlight, authVerificationID,   \* those of PhoneAuth
    stack,      \* the view controllers of the navigation controller
    modal,      \* what is presented over the top screen
    shown,      \* the host shows the navigation controller
    loaded,     \* the phone screens whose view has been loaded
    country,    \* whose phoneCodeString each viewModel has
    flag,       \* the flag each phone screen shows
    late,       \* history: screens loaded after the last pick
    resets      \* number of unanswered password requests

Phone == INSTANCE PhoneAuth
Screens == Phone!Screens

phoneVars == <<contactPoint, emailFields, phoneNumberView, otpView, title, otp,
               inFlight, authVerificationID>>
countryVars == <<loaded, country, flag, late>>
vars == <<phoneVars, stack, modal, shown, countryVars, resets>>

Stacks == {<<"landing">>} \cup {<<"landing", s>> : s \in Screens}
              \cup {<<"landing", "login", "resetPassword">>}

TypeOK ==
    /\ Phone!TypeOK
    /\ stack \in Stacks
    /\ modal \in {"none", "picker", "alert", "sent"}
    /\ shown \in BOOLEAN
    /\ loaded \subseteq Screens
    /\ country \in [Screens -> Countries]
    /\ flag \in [Screens -> Countries]
    /\ late \subseteq loaded
    /\ resets \in Nat

Init ==
    /\ Phone!Init
    /\ stack = <<"landing">>
    /\ modal = "none"
    /\ shown = TRUE
    /\ loaded = {}
    /\ country = [s \in Screens |-> DefaultCountry]
    /\ flag = [s \in Screens |-> DefaultCountry]
    /\ late = {}
    /\ resets = 0

\* The process is killed and started again.  A persisted user is shown the
\* main screens or, when Face ID fails, the onboarding.
Relaunch ==
    /\ Phone!Relaunch
    /\ stack' = <<"landing">>
    /\ modal' = "none"
    /\ shown' \in {shown, TRUE}
    /\ loaded' = {}
    /\ country' = [s \in Screens |-> DefaultCountry]
    /\ flag' = [s \in Screens |-> DefaultCountry]
    /\ late' = {}
    /\ resets' = 0

-----------------------------------------------------------------------------
(* What can be touched and what can be presented.                          *)

Top == Last(stack)
InWindow(screen) == shown /\ Top = screen
Touchable(screen) == InWindow(screen) /\ modal = "none"

\* Mutant of Presents: over whatever is on top.
Presents_OnTop(screen, what) ==
    modal' = IF shown /\ modal = "none" THEN what ELSE modal

\* display(alertController:) and present: UIKit refuses a screen that is not
\* in the window or already presents.
Presents(screen, what) ==
    modal' = IF Touchable(screen) THEN what ELSE modal

-----------------------------------------------------------------------------
(* Taps of the person.                                                     *)

Unanswered == resets + SumFunction(inFlight)

Push(screen) == stack' = Append(stack, screen)

\* landingScreenManagerDidTapLogIn and DidTapSignUp.  The first push loads
\* the view, which shows the default flag.
OpenScreen(s) ==
    /\ Touchable("landing")
    /\ Push(s)
    /\ loaded' = loaded \cup {s}
    /\ IF s \in loaded
       THEN UNCHANGED <<flag, late>>
       ELSE /\ flag' = [flag EXCEPT ![s] = DefaultCountry]
            /\ late' = late \cup {s}
    /\ UNCHANGED <<phoneVars, modal, shown, country, resets>>

\* didTapBackButton
Back ==
    /\ Touchable(Top) /\ Top # "landing"
    /\ stack' = Front(stack)
    /\ UNCHANGED <<phoneVars, modal, shown, countryVars, resets>>

\* Mutant of ForgotPassword: the sign-up screen has the button too.
ForgotPassword_FromAnyForm ==
    /\ Top \in Screens
    /\ Touchable(Top)
    /\ Push("resetPassword")
    /\ UNCHANGED <<phoneVars, modal, shown, countryVars, resets>>

\* tapPhoneLoginForgotPasswordButton
ForgotPassword ==
    /\ Touchable("login")
    /\ Push("resetPassword")
    /\ UNCHANGED <<phoneVars, modal, shown, countryVars, resets>>

\* What PhoneAuth lets a person do, on the screen that can be touched.
UseForm(s) ==
    /\ Touchable(s)
    /\ \/ Phone!ToggleContactPoint(s)
       \/ Unanswered < MaxRequests /\ Phone!TapButton(s)
       \/ Phone!TypeDigit(s)
       \/ Phone!Backspace(s)
    /\ UNCHANGED <<stack, modal, shown, countryVars, resets>>

\* Fields that do not pass validation, on any screen with a form.
TapInvalid ==
    /\ Top # "landing"
    /\ Touchable(Top)
    /\ Presents(Top, "alert")
    /\ UNCHANGED <<phoneVars, stack, shown, countryVars, resets>>

\* didTapResetPasswordButton.  Its progress view does not cover the buttons.
TapReset ==
    /\ Touchable("resetPassword")
    /\ Unanswered < MaxRequests
    /\ resets' = resets + 1
    /\ UNCHANGED <<phoneVars, stack, modal, shown, countryVars>>

\* phoneLoginManagerDidTapCountryFlagButton, tapPhoneSignUpCountryFlagButton:
\* the button is in the phoneNumberView.
OpenPicker(s) ==
    /\ Touchable(s)
    /\ phoneNumberView[s]
    /\ Presents(s, "picker")
    /\ UNCHANGED <<phoneVars, stack, shown, countryVars, resets>>

\* Mutant of PickCountry: only the screen that presents the picker shows it.
PickCountry_ShownByOne(c) ==
    /\ shown /\ modal = "picker"
    /\ country' = [s \in Screens |-> c]
    /\ flag' = [flag EXCEPT ![Top] = c]
    /\ late' = {}
    /\ modal' = "none"
    /\ UNCHANGED <<phoneVars, stack, shown, loaded, resets>>

\* didSelectCountryCode: both viewModels get the code, but the flag is an
\* outlet, which a screen has only once its view is loaded.
PickCountry(c) ==
    /\ shown /\ modal = "picker"
    /\ country' = [s \in Screens |-> c]
    /\ flag' = [s \in Screens |-> IF s \in loaded THEN c ELSE flag[s]]
    /\ late' = {}
    /\ modal' = "none"
    /\ UNCHANGED <<phoneVars, stack, shown, loaded, resets>>

\* cancelAction, and the OK of an alert that does nothing else.
Dismiss ==
    /\ \/ shown /\ modal = "picker"
       \/ modal = "alert"
    /\ modal' = "none"
    /\ UNCHANGED <<phoneVars, stack, shown, countryVars, resets>>

\* resetPasswordManagerDidResetPassword: the OK of the other alert, which
\* covers whatever the host shows by now.
ConfirmSent ==
    /\ modal = "sent"
    /\ modal' = "none"
    /\ stack' = IF Len(stack) > 1 THEN Front(stack) ELSE stack
    /\ UNCHANGED <<phoneVars, shown, countryVars, resets>>

-----------------------------------------------------------------------------
(* Answers, and the host.                                                  *)

\* Mutant of ResetAnswered: a success tells nobody.
ResetAnswered_Silent ==
    /\ resets > 0
    /\ resets' = resets - 1
    /\ Presents("resetPassword", "alert") \/ UNCHANGED modal
    /\ UNCHANGED <<phoneVars, stack, shown, countryVars>>

\* sendPasswordReset
ResetAnswered ==
    /\ resets > 0
    /\ resets' = resets - 1
    /\ \E what \in {"alert", "sent"} : Presents("resetPassword", what)
    /\ UNCHANGED <<phoneVars, stack, shown, countryVars>>

RequestFailed(s) ==
    /\ Phone!Failed(s)
    /\ Presents(s, "alert")
    /\ UNCHANGED <<stack, shown, countryVars, resets>>

CodeSent(s) ==
    /\ Phone!CodeSent(s)
    /\ UNCHANGED <<stack, modal, shown, countryVars, resets>>

\* coordinatorDidCompleteOnboarding: the host takes the navigation controller
\* out of its view and leaves its stack alone.
Completed(s) ==
    /\ Phone!CodeAccepted(s) \/ Phone!EmailAccepted(s)
    /\ shown' = FALSE
    /\ UNCHANGED <<stack, modal, countryVars, resets>>

\* Mutant of Logout: the verification is removed with the user.
Logout_DropsVerification ==
    /\ ~shown
    /\ modal \in {"none", "picker"}
    /\ shown' = TRUE
    /\ authVerificationID' = Phone!NoID
    /\ UNCHANGED <<contactPoint, emailFields, phoneNumberView, otpView, title,
                   otp, inFlight, stack, modal, countryVars, resets>>

\* didRequestLogout, from a main screen with no alert over it.
Logout ==
    /\ ~shown
    /\ modal \in {"none", "picker"}
    /\ shown' = TRUE
    /\ UNCHANGED <<phoneVars, stack, modal, countryVars, resets>>

Next ==
    \/ Relaunch
    \/ Back
    \/ ForgotPassword
    \/ TapInvalid
    \/ TapReset
    \/ \E c \in Countries : PickCountry(c)
    \/ Dismiss
    \/ ConfirmSent
    \/ ResetAnswered
    \/ Logout
    \/ \E s \in Screens :
          \/ OpenScreen(s)
          \/ UseForm(s)
          \/ OpenPicker(s)
          \/ RequestFailed(s)
          \/ CodeSent(s)
          \/ Completed(s)

Spec == Init /\ [][Next]_vars

\* Firebase answers every request; nothing is asked of the person.
FairSpec == Spec /\ WF_vars(ResetAnswered)

-----------------------------------------------------------------------------
(* Properties                                                              *)

\* The OK of the success alert pops a screen without looking which one.  It
\* only ever appears over the password screen, and nothing can change the
\* stack under it, so neither a late answer nor a second one takes the
\* person off another screen.
OKLeavesReset == modal = "sent" => Top = "resetPassword"

\* The picker is one view controller for two screens: whoever presents it,
\* both send the same country code.  The flag is the only sign of the code
\* that is put before the number; it tells the truth on every screen that was
\* loaded when the country was picked.  One that is loaded later shows the
\* default flag (see the README).
FlagNamesTheCode ==
    /\ country["login"] = country["signUp"]
    /\ \A s \in loaded \ late : flag[s] = country[s]

\* A person who waits for the password mail is told how it went, whichever
\* of several requests is answered.
ResetIsHeard ==
    resets > 0 /\ Touchable("resetPassword") ~> ~Touchable("resetPassword")

\* Whatever the navigation does, both forms behave as PhoneAuth says.
ImplementsPhoneAuth == Phone!Spec

=============================================================================
