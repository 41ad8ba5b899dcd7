----------------------------- MODULE MCSession -----------------------------
(* Two users of one device; a token that becomes due and expires, one      *)
(* refusal and one relaunch.                                               *)
EXTENDS Session
============================================================================
