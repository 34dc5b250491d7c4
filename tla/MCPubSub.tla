------------------------------ MODULE MCPubSub ------------------------------
(* Two clients, channel names over the characters "a" and "b", and        *)
(* patterns chosen so that "*" and "?" each match some channels and miss  *)
(* others.                                                                 *)
EXTENDS PubSub, TLC

CONSTANTS c1, c2

MCClients == {c1, c2}
MCChannels == {<<"a">>, <<"b">>, <<"a", "b">>}
MCPatterns == {<<"a", "*">>, <<"?", "b">>}
=============================================================================
