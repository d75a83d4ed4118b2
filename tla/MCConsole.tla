----------------------------- MODULE MCConsole -----------------------------
(* A screen of two rows, a prompt of one character and lines of two, so    *)
(* that lines fill up, outputs wrap and everything scrolls.                *)
EXTENDS Console

MCPrompt  == <<">">>
MCOutputs == {<<>>, <<"a", "b", "a", "b", "a", NL>>}
=============================================================================
