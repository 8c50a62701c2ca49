----------------------------- MODULE MCFileEditor -----------------------------
(* Two names, one of them empty, one key, and a buffer that ENTER and one  *)
(* key overrun.                                                            *)
EXTENDS FileEditor

MCPaths == {"", "p"}
MCKeys == {"a"}
MCStackTexts == {<<>>, <<"a">>}
===============================================================================
