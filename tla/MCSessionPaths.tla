---------------------------- MODULE MCSessionPaths ----------------------------
(* Model values for SessionPaths.                                          *)
EXTENDS SessionPaths

MCDataRoot == <<"d">>
MCUsers == {<<"u">>, <<"v">>}
\* A child, a name that becomes ".." when cut, and two that are refused.
MCNames == {<<"a">>, <<".", ".", "a">>, <<".", ".">>, <<"a", "/", "a">>}
=============================================================================
