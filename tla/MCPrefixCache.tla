--------------------------- MODULE MCPrefixCache ---------------------------
(* An instance of PrefixCache for TLC.                                      *)
EXTENDS PrefixCache

CONSTANTS tokA, tokB, img

(* Attention layers only, and hybrid models in both orders.                 *)
MCModels == {<<"kv">>, <<"rec", "kv">>, <<"kv", "rec">>}

(* Prompts that share prefixes of every length up to four; img is a token   *)
(* of an image.                                                             *)
MCPrompts == {<<tokA, tokA, tokB>>, <<tokB, tokA>>, <<tokA, tokA, tokA, tokB>>,
              <<tokA, img, img, tokB>>, <<tokA, img, img, tokA, tokB>>}
MCAnswers == {<<tokA>>, <<tokB, tokA>>}
=============================================================================
