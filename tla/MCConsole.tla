----------------------------- MODULE MCConsole -----------------------------
(* Instances of Console: a screen of two short lines, one letter, keys     *)
(* for every kind of edit, a ring of three bytes.                          *)
EXTENDS Console

MCPrompt == <<"ESC", "[", "3", "2", "m", "#">>
MCScancode ==
  {<<"d", "make">>, <<"Enter", "make">>, <<"Backspace", "make">>,
   <<"LCtrl", "make">>, <<"LCtrl", "break">>,
   Extension, <<"Up", "make">>, <<"Down", "make">>, <<"Left", "make">>}
MCLetter == {"d"}
MCCommandOutput == {<<"b", "NL">>}
MCProgramOutput ==
  {<<"a", "b">>, <<"NL">>, <<"BS">>, <<"TAB">>, <<"CR">>, <<"U2">>, <<"U3", "UC">>, <<"UC">>,
   <<"ESC">>, <<"[", "1", ";">>, <<"3", "1", "m">>, <<"0", "m">>, <<"H">>, <<"J">>, <<"2", "J">>,
   <<"ESC", "[", "?", "2">>, <<"l">>}
=============================================================================
