----------------------------- MODULE MCAuthGate -----------------------------
(***************************************************************************)
(* The TLC instance of the gateway's /auth routes.                         *)
(***************************************************************************)
EXTENDS AuthGate, TLC

CONSTANTS k1

\* "foo@x" and "Foo@x" are one account; "" has no key.
MCKey == [e \in Emails |-> IF e = "" THEN NoKey ELSE k1]

\* No header, one that names another client, and one that is no address.
MCHeaders == {<<>>} \cup {<<a>> : a \in Addresses \cup {Garbage}}

Symmetry == {p @@ q : p \in Permutations(Logins), q \in Permutations(Addresses)}
=============================================================================
