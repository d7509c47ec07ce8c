------------------------------ MODULE MCSession ------------------------------
(* Session with two calls and three id tokens.                              *)
EXTENDS Session

CONSTANTS c1, c2

TwoCalls == {c1, c2}
=============================================================================
