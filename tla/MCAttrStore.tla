---------------------------- MODULE MCAttrStore -----------------------------
(* Instances of the attribute store for TLC.                                *)
EXTENDS AttrStore

(* Texts: words, and "a=b" as a key.                                        *)
Plain == {<<"a">>, <<"b">>}
Words2 == {<<"x">>, <<"y">>}
OneWord == {<<"x">>}
WithEq == {<<"a">>, <<"a", "=", "b">>}
One == {<<"a">>}
Order == <<<<"a">>, <<"a", "=", "b">>, <<"b">>>>
=============================================================================
