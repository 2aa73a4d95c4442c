----------------------------- MODULE MCConsole -----------------------------
(* Instance of Console for TLC: a two-character prompt and outputs that    *)
(* use every control character of the terminal.                            *)
EXTENDS Console

MCPrompt == <<"$", "#">>
MCOutputs == {<<>>, <<"a", Newline>>, <<"b", Tab, "a", Return, "b">>}

=============================================================================
