---------------------------- MODULE MCLlmProviders ----------------------------
(* Two calls and two providers, one of them with a login, over three        *)
(* minutes of which a login lasts two.                                      *)
EXTENDS LlmProviders

MCSetups == {<<"claude", "compat">>, <<"codex", "compat">>}
=============================================================================
