------------------------------ MODULE Session ------------------------------
(***************************************************************************)
(* What the host screen promises about the signed-in identity, without the *)
(* callbacks that implement it.  remembered is the identity that survives  *)
(* a kill of the process; surface is what the person in front of the       *)
(* device can use.  SessionHost is shown to implement this specification.  *)
(***************************************************************************)
CONSTANTS
    Users,
    NoUser,
    LockedUsers    \* users whose session only biometrics may restore

VARIABLES
    remembered,  \* who the device will restore at the next launch
    surface      \* "closed", "locked", "opening", "guest" or "account"

sessionVars == <<remembered, surface>>

Init ==
    /\ remembered = NoUser
    /\ surface = "closed"

\* A launch meets a guest, or restores the remembered identity; a locked
\* identity waits for the owner of the device first.
Open ==
    /\ surface = "closed"
    /\ \/ remembered = NoUser /\ surface' = "guest"
       \/ remembered \in LockedUsers /\ surface' = "locked"
       \/ remembered \in Users \ LockedUsers /\ surface' = "opening"
    /\ UNCHANGED remembered

Unlock ==
    /\ surface = "locked"
    /\ surface' = "opening"
    /\ UNCHANGED remembered

\* The owner was not recognised: the identity is kept but must sign in.
LockOut ==
    /\ surface = "locked"
    /\ surface' = "guest"
    /\ UNCHANGED remembered

\* The server confirmed the remembered identity, or it is forgotten.
Restore ==
    /\ surface = "opening"
    /\ surface' = "account"
    /\ UNCHANGED remembered

Forget ==
    /\ surface = "opening"
    /\ surface' = "guest"
    /\ remembered' = NoUser

\* Credentials of u were accepted.
SignIn(u) ==
    /\ surface \in {"guest", "account"}
    /\ surface' = "account"
    /\ remembered' = u

SignOut ==
    /\ surface = "account"
    /\ surface' = "guest"
    /\ remembered' = NoUser

Close ==
    /\ surface # "closed"
    /\ surface' = "closed"
    /\ UNCHANGED remembered

Next ==
    \/ Open \/ Unlock \/ LockOut \/ Restore \/ Forget \/ SignOut \/ Close
    \/ \E u \in Users : SignIn(u)

Spec == Init /\ [][Next]_sessionVars

=============================================================================
