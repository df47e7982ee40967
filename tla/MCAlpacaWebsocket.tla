-------------------------- MODULE MCAlpacaWebsocket --------------------------
(* Three failures double the sleep up to its ceiling, and there is an       *)
(* update before, between and after them.                                   *)
EXTENDS AlpacaWebsocket
=============================================================================
