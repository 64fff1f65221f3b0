------------------------------ MODULE MCConfig ------------------------------
(* Instances of ConfigEdits for TLC. *)
EXTENDS ConfigEdits

NamespaceFlags == {<<>>, <<"ns">>, <<"ns", "*">>}
=============================================================================
