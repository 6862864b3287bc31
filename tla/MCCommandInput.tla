--------------------------- MODULE MCCommandInput ---------------------------
(* An instance of CommandInput: a saved file, a file that restores another *)
(* one, and a file that lacks its last newline.                            *)
EXTENDS CommandInput
Names == {"conf", "f", "g", "h"}
Texts ==
  [n \in Names |->
     CASE n = "conf" -> <<"set", "x", "y", EOL, "show", EOL>>
       [] n = "f" -> <<"show", EOL, "restore", "g", EOL, "set", "y", "x", EOL>>
       [] n = "g" -> <<EOL, "set", "x">>
       [] n = "h" -> NoFile]
Commands ==
  {<<"show">>, <<"set", "x", "y">>, <<"set", "y", "x">>, <<"set", "x">>, <<"exit">>,
   <<"restore">>, <<"restore", "default">>, <<"restore", "f">>, <<"restore", "g">>, <<"restore", "h">>,
   <<"set", "x", "y", "x">>}
MCWords == {"x", "y", "f", "g", "h"}
Lines == {<<"restore">>, <<"restore", "f">>, <<"restore", "h">>, <<"set", "x", "y", "x">>, <<"set", "y", "x">>, <<"exit">>}
=============================================================================
