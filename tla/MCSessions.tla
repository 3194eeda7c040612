---------------------------- MODULE MCSessions ----------------------------
(***************************************************************************)
(* TLC instances of the session.                                           *)
(***************************************************************************)
EXTENDS Sessions

CONSTANTS u1, u2

\* One user, signed in twice since before tokens had a jti; the other registers.
MCStale == <<u1, u1>>
=============================================================================
