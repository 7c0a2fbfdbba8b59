--------------------------- MODULE MCPrefixCache ----------------------------
(* Small instances of PrefixCache for TLC.                                 *)
EXTENDS PrefixCache

\* Prompts with and without a common first span, none a whole number of spans.
OddPrompts == {<<1, 1, 1>>, <<1, 1, 1, 1, 1>>, <<2, 1, 1, 1, 1>>}

\* A prompt of two whole spans, and a longer one that starts with it.
WholeSpanPrompts == {<<1, 1, 1, 1>>, <<1, 1, 1, 1, 1, 1, 1>>}
=============================================================================
