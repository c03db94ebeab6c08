--------------------------- MODULE MCSessionHost ---------------------------
(* SessionHost with three users: one protected by Face ID, one whose uid is *)
(* its e-mail and one without either.                                       *)
EXTENDS SessionHost

CONSTANTS lockedUser, appleUser, plainUser

MCUsers == {lockedUser, appleUser, plainUser}
MCFaceIDUsers == {lockedUser}
MCAppleUsers == {appleUser}
=============================================================================
