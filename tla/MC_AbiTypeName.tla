--------------------------- MODULE MC_AbiTypeName ---------------------------
(* Action argument types: a few integer types and std::string, and the     *)
(* standard containers over them nested two deep.                          *)
EXTENDS AbiTypeName

Std == <<"std", ":", ":">>
IntT == Plain(<<"int">>)
U64 == Plain(<<"unsigned", " ", "long", " ", "long">>)
Char == Plain(<<"char">>)
Str == Plain(Std \o <<"string">>)
Scalars == {IntT, U64, Char, Str}

Unary(S) == {Tmpl(Std, c, <<x>>) : c \in {"vector", "optional"}, x \in S}
Binary(S, R) == {Tmpl(Std, c, <<x, y>>) : c \in {"pair", "map", "tuple"}, x \in S, y \in R}

Level1 == Scalars \cup Unary(Scalars) \cup Binary(Scalars, Scalars)

MCUniverse == Level1 \cup Unary(Level1) \cup Binary(Scalars, Level1) \cup Binary(Level1, Scalars)
=============================================================================
