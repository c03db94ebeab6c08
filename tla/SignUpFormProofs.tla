-------------------------- MODULE SignUpFormProofs --------------------------
(***************************************************************************)
(* Theorems about SignUpForm, for names and passwords of any length.       *)
(***************************************************************************)
EXTENDS SignUpForm, TLAPS

\* What a request may carry: what was typed, trimmed by the classic form, and
\* a match of the form's rules.
Valid(sent, from) ==
    /\ from \in Passwords
    /\ sent = Trimmed(from)
    /\ PasswordMatches(sent)

\* Requests and the account they make carry what the rules were asked about,
\* and there is one request at a time, so the account is the answer to it.
IInv ==
    /\ TypeOK
    /\ \A r \in pending : Valid(r.sent, r.typed)
    /\ \A q, r \in pending : q = r
    /\ password # NoPassword => Valid(password, typed)

\* What is typed to sign up logs in exactly when the form did not trim it.
LostOnlyBySpaces ==
    password # NoPassword =>
        (Accepted(typed) <=> form = "phone" \/ typed.spaces = 0)

-----------------------------------------------------------------------------
(* Passwords.                                                              *)

\* Every kind of password has a length.
LEMMA PasswordFacts ==
    ASSUME NEW p \in Passwords
    PROVE  /\ p = [length |-> p.length, chars |-> p.chars, spaces |-> p.spaces]
           /\ p.length \in Nat \ {0} /\ p.spaces \in 0..1
           /\ p # NoPassword
BY BoundsAssumption DEF Passwords, NoPassword

\* Trimming takes the spaces and nothing else.
LEMMA TrimmedFacts ==
    ASSUME NEW p \in Passwords
    PROVE  /\ Trimmed(p) \in Passwords
           /\ Trimmed(p) = p <=> form # "classic" \/ p.spaces = 0
<1> DEFINE t == [p EXCEPT !.spaces = 0]
<1>1. p = [length |-> p.length, chars |-> p.chars, spaces |-> p.spaces]
  BY PasswordFacts
<1>2. t = [length |-> p.length, chars |-> p.chars, spaces |-> 0]
  BY <1>1
<1>3. t \in Passwords
  BY <1>2 DEF Passwords
<1>4. t = p <=> p.spaces = 0
  BY <1>1, <1>2
<1> QED
  BY <1>3, <1>4 DEF Trimmed

\* A form that raises no alert has a password that matches its rules.
LEMMA NoAlertMeansMatch ==
    ASSUME NEW e, NEW p, Refusal(e, p) = "none"
    PROVE  PasswordMatches(p)
BY DEF Refusal

-----------------------------------------------------------------------------
(* Steps.                                                                  *)

LEMMA InitHasInvariant == Init => IInv
BY BoundsAssumption DEF Init, IInv, TypeOK, Messages

LEMMA TapSignUpStep ==
    ASSUME IInv, NEW e \in Emails, NEW p \in Passwords, TapSignUp(e, p)
    PROVE  IInv'
<1> DEFINE r == [sent |-> Trimmed(p), typed |-> p]
<1>1. /\ password = NoPassword
      /\ message' = Refusal(e, Trimmed(p))
      /\ pending' = IF message' = "none" THEN {r} ELSE {}
      /\ UNCHANGED <<form, name, password, savedName, typed>>
  BY DEF TapSignUp
<1>2. message' \in Messages
  BY <1>1 DEF Refusal, Messages
<1>3. r \in Request /\ r.sent = Trimmed(p) /\ r.typed = p
  BY TrimmedFacts DEF Request
<1>4. message' = "none" => Valid(r.sent, r.typed)
  BY <1>1, <1>3, NoAlertMeansMatch DEF Valid
<1> HIDE DEF r
<1>5. TypeOK'
  BY <1>1, <1>2, <1>3 DEF IInv, TypeOK
<1>6. \A q \in pending' : Valid(q.sent, q.typed)
  BY <1>1, <1>4
<1> QED
  BY <1>1, <1>5, <1>6 DEF IInv, Valid, Trimmed, PasswordMatches

LEMMA CreatedStep ==
    ASSUME IInv, Created
    PROVE  IInv'
<1>1. PICK r \in pending :
         /\ pending' = pending \ {r}
         /\ password' = r.sent
         /\ typed' = r.typed
  BY DEF Created
<1>2. savedName' = name /\ UNCHANGED <<form, name, message>>
  BY DEF Created
<1>3. pending' = {}
  BY <1>1 DEF IInv
<1>4. r.sent \in Passwords /\ r.typed \in Passwords
  BY <1>1 DEF IInv, TypeOK, Request
<1>5. TypeOK'
  BY <1>1, <1>2, <1>3, <1>4 DEF IInv, TypeOK
<1>6. Valid(r.sent, r.typed)
  BY <1>1 DEF IInv
<1> QED
  BY <1>1, <1>2, <1>3, <1>5, <1>6 DEF IInv, Valid, Trimmed, PasswordMatches

LEMMA StepKeepsInvariant == IInv /\ [Next]_vars => IInv'
<1> SUFFICES ASSUME IInv, [Next]_vars PROVE IInv'
  OBVIOUS
<1>1. ASSUME UNCHANGED <<form, password, typed>>, pending' \subseteq pending,
             name' \in 0..MaxName, message' \in Messages,
             savedName' \in 0..MaxName
      PROVE  IInv'
  <2>1. TypeOK'
    BY <1>1 DEF IInv, TypeOK
  <2> QED
    BY <1>1, <2>1 DEF IInv, Valid, Trimmed, PasswordMatches
<1>2. name \in 0..MaxName /\ message \in Messages /\ savedName \in 0..MaxName
  BY DEF IInv, TypeOK
<1>3. ASSUME NEW n \in 0..MaxName, EditName(n)
      PROVE  IInv'
  BY <1>1, <1>2, <1>3 DEF EditName
<1>4. CASE CreateFailed
  BY <1>1, <1>2, <1>4 DEF CreateFailed, Messages
<1>5. ASSUME NEW p \in Passwords, LogIn(p)
      PROVE  IInv'
  BY <1>1, <1>2, <1>5 DEF LogIn, Messages
<1>6. CASE UNCHANGED vars
  BY <1>1, <1>2, <1>6 DEF vars
<1> QED
  BY <1>3, <1>4, <1>5, <1>6, TapSignUpStep, CreatedStep DEF Next

-----------------------------------------------------------------------------
(* The theorems.                                                           *)

\* The invariant the others follow from.
THEOREM AlwaysInvariant == Spec => []IInv
BY InitHasInvariant, StepKeepsInvariant, PTL DEF Spec

\* Fields, alerts, requests and the account have their types; in particular
\* no request is out once the account exists.
THEOREM SignUpTypeCorrect == Spec => []TypeOK
BY AlwaysInvariant, PTL DEF IInv

\* On both forms, whatever is edited while the request is out, the account's
\* password is long enough, has both cases and a symbol.
THEOREM AccountAlwaysStrong == Spec => []AccountIsStrong
<1>1. IInv => AccountIsStrong
  <2> SUFFICES ASSUME IInv, password # NoPassword
               PROVE  /\ Size(password) >= 6
                      /\ {"lower", "upper"} \subseteq password.chars
                      /\ password.chars \cap Symbols # {}
    BY DEF AccountIsStrong
  <2>1. PasswordMatches(password) /\ password \in Passwords
    BY DEF IInv, TypeOK, Valid
  <2>2. Size(password) \in Nat
    BY <2>1, PasswordFacts DEF Size
  <2> QED
    BY <2>1, <2>2 DEF PasswordMatches, Symbols
<1> QED
  BY <1>1, AlwaysInvariant, PTL

\* A password signs up and logs in alike unless the classic form trimmed it,
\* so the run SignUpTrim shows the only way for it to be lost.
THEOREM LostOnlyByTrimming == Spec => []LostOnlyBySpaces
<1>1. IInv => LostOnlyBySpaces
  <2> SUFFICES ASSUME IInv, password # NoPassword
               PROVE  Accepted(typed) <=> form = "phone" \/ typed.spaces = 0
    BY DEF LostOnlyBySpaces
  <2>1. /\ typed \in Passwords /\ password = Trimmed(typed)
        /\ form \in {"classic", "phone"}
    BY DEF IInv, TypeOK, Valid
  <2>2. Trimmed(typed) = typed <=> form # "classic" \/ typed.spaces = 0
    BY <2>1, TrimmedFacts
  <2> QED
    BY <2>1, <2>2 DEF Accepted
<1> QED
  BY <1>1, AlwaysInvariant, PTL

\* On the phone screens every sign-up password logs in.
THEOREM PhonePasswordAlwaysLogsIn == Spec => []PhonePasswordLogsIn
<1>1. LostOnlyBySpaces => PhonePasswordLogsIn
  BY DEF LostOnlyBySpaces, PhonePasswordLogsIn, SignUpPasswordLogsIn
<1> QED
  BY <1>1, LostOnlyByTrimming, PTL

=============================================================================
