------------------------ MODULE MCIdentityRegistration ------------------------
(***************************************************************************)
(* IdentityRegistration for TLC: three users, two with mails that share    *)
(* the part before the @, and an administrator who may take their names.   *)
(***************************************************************************)
EXTENDS IdentityRegistration, TLC

CONSTANTS u1, u2, u3, q1

Mail(l, d) == [local |-> l, domain |-> d]
const_MailOf == u1 :> Mail("ann", "x") @@ u2 :> Mail("ann", "y") @@ u3 :> Mail("bob", "x")
const_Mails == {Mail("ann", "y"), Mail("bob", "x")}
=============================================================================
