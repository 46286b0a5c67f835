---------------------------- MODULE MCFilePanel ----------------------------
(* A small file system: a directory with a file and a directory in it. *)
EXTENDS FilePanel
TwoNames == {"x", "y"}
InX == <<"x">>
SomeDirs == {<<>>, <<"x">>, <<"x", "x">>}
SomeFiles == {<<"x", "y">>}
=============================================================================
