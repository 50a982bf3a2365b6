----------------------------- MODULE MCKeyboard -----------------------------
(* Strings for the model checker: a screen of 2 rows of 3 cells. *)
EXTENDS KeyboardProperties

\* Prompts shorter and longer than a row.
MCShort    == {<<">", ">">>}
MCPrompts  == MCShort \cup {<<"a", "a", ">", ">">>}
MCRow      == <<"a", Newline>>
MCOutputs  == {<<"a">>, MCRow}
MCRefusals == {MCRow}
MCNone     == {}
=============================================================================
