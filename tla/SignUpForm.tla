----------------------------- MODULE SignUpForm -----------------------------
(***************************************************************************)
(* The email forms of ATCSignUpScreenManager ("classic") and of            *)
(* ATCPhoneSignUpScreenManager ("phone"), and the login screen beside each.*)
(*                                                                         *)
(* Passwords are told apart by their length, the kinds of characters they  *)
(* hold and the spaces around them; emails by what the rules say of them.  *)
(* One email address is enough: every rule is about a single account.      *)
(***************************************************************************)
EXTENDS Naturals, FiniteSets

CONSTANTS
    MaxLength,      \* bound: length of a password, not counting spaces
    MaxName         \* bound: length of a name

ASSUME BoundsAssumption == MaxLength \in Nat /\ MaxName \in Nat

\* Symbols that both forms take, that only the classic one takes (such as
\* "?"), and that neither takes (such as "-").
Classes == {"lower", "upper", "digit", "symbol", "classicSymbol", "otherSymbol"}
Symbols == {"symbol", "classicSymbol", "otherSymbol"}

Passwords ==
    {p \in [length : 1..MaxLength, chars : SUBSET Classes, spaces : 0..1] :
        p.chars # {} /\ Cardinality(p.chars) <= p.length}

\* An address has spaces around it, or is shorter than two characters, or
\* is no address, or is fine.
Emails == {"short", "malformed", "padded", "valid"}

NoPassword == [length |-> 0, chars |-> {}, spaces |-> 0]
Messages == {"none", "name", "email", "format", "password", "failed", "credentials"}

VARIABLES
    form,       \* which of the two the app was built with
    name,       \* length of the name field
    message,    \* the last alert
    pending,    \* passwords of the unanswered createUser requests
    password,   \* of the account, NoPassword while there is none
    savedName,  \* length of its name
    typed       \* history: the password typed into the form for it

vars == <<form, name, message, pending, password, savedName, typed>>

Request == [sent : Passwords, typed : Passwords]

TypeOK ==
    /\ form \in {"classic", "phone"}
    /\ name \in 0..MaxName
    /\ message \in Messages
    /\ pending \subseteq Request
    /\ pending # {} => password = NoPassword
    /\ password \in Passwords \cup {NoPassword}
    /\ savedName \in 0..MaxName
    /\ typed \in Passwords \cup {NoPassword}

Init ==
    /\ form \in {"classic", "phone"}
    /\ name = 0
    /\ message = "none"
    /\ pending = {}
    /\ password = NoPassword
    /\ savedName = 0
    /\ typed = NoPassword

Size(p) == p.length + p.spaces

-----------------------------------------------------------------------------
(* The form.                                                               *)

\* Mutant of Trimmed: the phone form trims as well.
Trimmed_Always(p) == [p EXCEPT !.spaces = 0]

\* The classic form trims what was typed.
Trimmed(p) == IF form = "classic" THEN [p EXCEPT !.spaces = 0] ELSE p

EmailMatches(e) == e = "valid" \/ (form = "classic" /\ e = "padded")

\* Mutant of PasswordMatches: no symbol is looked for.
PasswordMatches_NoSymbol(p) ==
    /\ {"lower", "upper"} \subseteq p.chars
    /\ Size(p) >= 6

\* passRegEx of each form.
PasswordMatches(p) ==
    \/ /\ form = "classic"
       /\ {"lower", "upper"} \subseteq p.chars
       /\ p.chars \cap {"symbol", "classicSymbol"} # {}
       /\ Size(p) >= 6
    \/ /\ form = "phone"
       /\ {"lower", "upper", "digit", "symbol"} \subseteq p.chars
       /\ Size(p) = 6

\* The first rule that is broken, in the order isValid asks.
Refusal(e, p) ==
    CASE name < 2                -> "name"
      [] e = "short"             -> "email"
      [] ~EmailMatches(e)        -> "format"
      [] ~PasswordMatches(p)     -> "password"
      [] OTHER                   -> "none"

EditName(n) ==
    /\ name' = n
    /\ UNCHANGED <<form, message, pending, password, savedName, typed>>

\* didTapSignUpButton, until the account exists.  One request in flight is
\* a bound: the address has one account, so a second would only fail.
TapSignUp(e, p) ==
    LET refusal == Refusal(e, Trimmed(p)) IN
    /\ password = NoPassword
    /\ pending = {}
    /\ message' = refusal
    /\ pending' = IF refusal = "none" THEN {[sent |-> Trimmed(p), typed |-> p]} ELSE {}
    /\ UNCHANGED <<form, name, password, savedName, typed>>

\* Mutant of Created: the completion can be called again.
Created_Again ==
    /\ \E r \in pending :
        /\ password' = r.sent
        /\ typed' = r.typed
    /\ savedName' = name
    /\ UNCHANGED <<form, name, message, pending>>

\* createUser succeeds.  The name is read from its field only now.
Created ==
    /\ \E r \in pending :
        /\ pending' = pending \ {r}
        /\ password' = r.sent
        /\ typed' = r.typed
    /\ savedName' = name
    /\ UNCHANGED <<form, name, message>>

CreateFailed ==
    /\ \E r \in pending : pending' = pending \ {r}
    /\ message' = "failed"
    /\ UNCHANGED <<form, name, password, savedName, typed>>

-----------------------------------------------------------------------------
(* The login screen.                                                       *)

\* signIn with what was typed, which neither login screen trims.
Accepted(p) == p = password

LogIn(p) ==
    /\ password # NoPassword
    /\ message' = IF Accepted(p) THEN "none" ELSE "credentials"
    /\ UNCHANGED <<form, name, pending, password, savedName, typed>>

Next ==
    \/ \E n \in 0..MaxName : EditName(n)
    \/ \E e \in Emails, p \in Passwords : TapSignUp(e, p)
    \/ Created
    \/ CreateFailed
    \/ \E p \in Passwords : LogIn(p)

Spec == Init /\ [][Next]_vars

-----------------------------------------------------------------------------
(* Properties                                                              *)

\* Whatever is typed, trimmed and edited, no account has a password that
\* is shorter than Firebase takes or lacks a case or a symbol.
AccountIsStrong ==
    password # NoPassword =>
        /\ Size(password) >= 6
        /\ {"lower", "upper"} \subseteq password.chars
        /\ password.chars \cap Symbols # {}

\* What was typed to sign up is accepted when it is typed to log in.
SignUpPasswordLogsIn == password # NoPassword => Accepted(typed)

\* So it is on the phone screens, whose form leaves the spaces around a
\* password where they are.
PhonePasswordLogsIn == form = "phone" => SignUpPasswordLogsIn

=============================================================================
