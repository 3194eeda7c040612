--------------------------- MODULE MCLoginBackoff ---------------------------
(***************************************************************************)
(* TLC instances of the login backoff.                                     *)
(***************************************************************************)
EXTENDS LoginBackoff, TLC

CONSTANTS k1

\* "foo@x" and "Foo@x" are one account; "" has no key.
MCKey == [e \in Emails |-> IF e = "" THEN NoKey ELSE k1]

Symmetry == Permutations(Logins)
=============================================================================
