---------------------------- MODULE AbiTypeName ----------------------------
(***************************************************************************)
(* How the ABI generator names the type of an action argument              *)
(* (generation_utils in gen.hpp): get_base_type_name, _translate_type,     *)
(* replace_in_name and translate_type.  An ABI reader decodes an argument  *)
(* by the name alone, so the name must determine the wire encoding.        *)
(*                                                                         *)
(* A printed type (clang's QualType::getAsString) is a sequence of tokens: *)
(* a word, or one of the characters the code looks at: ":" "<" ">" ","     *)
(* and " ".  An ABI name is a sequence of the same tokens.  A type is      *)
(* [k |-> "plain", s |-> printed] or [k |-> "tmpl", ns, name, args], a     *)
(* template specialization with the namespace it is written with.          *)
(***************************************************************************)
EXTENDS Integers, Sequences, SequencesExt

CONSTANT Universe   \* the argument types the generator is given

VARIABLES
    a, b        \* the types of two action arguments the generator names

Plain(s) == [k |-> "plain", s |-> s]
Tmpl(ns, name, args) == [k |-> "tmpl", ns |-> ns, name |-> name, args |-> args]

(* ss[1], sep, ss[2], sep, ... as one sequence.                            *)
Join(ss, sep) ==
    IF ss = <<>> THEN <<>> ELSE FoldLeft(LAMBDA acc, x : acc \o sep \o x, ss[1], Tail(ss))

(* getAsString: ns::name<arg, arg>.  This is clang's printing.             *)
RECURSIVE AsString(_)
AsString(ty) ==
    IF ty.k = "plain" THEN ty.s
    ELSE ty.ns \o <<ty.name, "<">>
              \o Join([i \in DOMAIN ty.args |-> AsString(ty.args[i])], <<",", " ">>)
              \o <<">">>

(* The word before the space at i is long, signed or unsigned, and starts  *)
(* the string or follows a space: part of a multi-word builtin name.      *)
ValidPrefix(s, i) ==
    /\ i >= 2
    /\ s[i - 1] \in {"long", "signed", "unsigned"}
    /\ i - 1 = 1 \/ s[i - 2] = " "

(* get_base_type_name(string): scan from the end, counting template        *)
(* nesting; at depth 0 a ':' ends the name, and so does a ' ' unless the   *)
(* word before it is a valid prefix, which is skipped.  The first          *)
(* character is never looked at (i > 0).                                   *)
RECURSIVE Scan(_, _, _)
Scan(s, i, nested) ==
    IF i <= 1 THEN s
    ELSE LET n == nested + (IF s[i] = ">" THEN 1 ELSE 0) - (IF s[i] = "<" THEN 1 ELSE 0)
         IN CASE s[i] = ":" /\ n = 0 -> SubSeq(s, i + 1, Len(s))
              [] s[i] = " " /\ n = 0 ->
                    IF ValidPrefix(s, i) THEN Scan(s, i - 2, n)
                                         ELSE SubSeq(s, i + 1, Len(s))
              [] OTHER -> Scan(s, i - 1, n)

BaseTypeName(s) == Scan(s, Len(s), 0)

(* _translate_type(string): translation_table[t], or t when it has no      *)
(* entry (operator[] yields "").                                           *)
TranslationTable ==
       (<<"unsigned", " ", "long", " ", "long">> :> "uint64")
    @@ (<<"long", " ", "long">> :> "int64")
    @@ (<<"uint64_t">> :> "uint64") @@ (<<"int64_t">> :> "int64")
    @@ (<<"unsigned", " ", "long">> :> "uint32") @@ (<<"long">> :> "int32")
    @@ (<<"unsigned", " ", "int">> :> "uint32") @@ (<<"int">> :> "int32")
    @@ (<<"uint32_t">> :> "uint32") @@ (<<"int32_t">> :> "int32")
    @@ (<<"unsigned", " ", "short">> :> "uint16") @@ (<<"short">> :> "int16")
    @@ (<<"uint16_t">> :> "uint16") @@ (<<"int16_t">> :> "int16")
    @@ (<<"unsigned", " ", "char">> :> "uint8") @@ (<<"signed", " ", "char">> :> "int8")
    @@ (<<"char">> :> "int8") @@ (<<"uint8_t">> :> "uint8") @@ (<<"int8_t">> :> "int8")
    @@ (<<"_Bool">> :> "bool") @@ (<<"unsigned_int">> :> "varuint32")
    @@ (<<"capi_name">> :> "name") @@ (<<"capi_public_key">> :> "public_key")
    @@ (<<"capi_signature">> :> "signature")
    @@ (<<"capi_checksum256">> :> "checksum256")

TranslateName(s) == IF s \in DOMAIN TranslationTable THEN <<TranslationTable[s]>> ELSE s

(* _translate_type(QualType): the base name of the printed type.           *)
TranslateQual(ty) == TranslateName(BaseTypeName(AsString(ty)))

(* replace_in_name: '<', '>', ',', ' ' and ':' each become '_'.            *)
ReplaceInName(s) ==
    ReplaceAll(ReplaceAll(ReplaceAll(ReplaceAll(ReplaceAll(s, "<", "_"), ">", "_"),
                                     ",", "_"), " ", "_"), ":", "_")

(* is_template_specialization(type, names) and get_template_argument.      *)
IsSpec(ty, names) == ty.k = "tmpl" /\ ty.name \in names
Arg(ty, i) == ty.args[i]

(* translate_type: the template cases in the code's order, then any other  *)
(* template, then a plain type.  tuple translates its arguments with       *)
(* _translate_type, every other case with translate_type.                  *)
RECURSIVE TranslateType(_)
TranslateType(ty) ==
    LET Rec == [i \in DOMAIN ty.args |-> TranslateType(ty.args[i])]
    IN
    CASE IsSpec(ty, {"ignore"}) -> TranslateType(Arg(ty, 1))
      [] IsSpec(ty, {"binary_extension"}) -> TranslateType(Arg(ty, 1)) \o <<"$">>
      [] IsSpec(ty, {"vector", "set", "deque", "list"}) ->
            LET e == TranslateType(Arg(ty, 1))
            IN IF e = <<"int8">> THEN <<"bytes">> ELSE e \o <<"[]">>
      [] IsSpec(ty, {"optional"}) -> TranslateType(Arg(ty, 1)) \o <<"?">>
      [] IsSpec(ty, {"map"}) ->
            ReplaceInName(<<"pair", "_">> \o Rec[1] \o <<"_">> \o Rec[2] \o <<"[]">>)
      [] IsSpec(ty, {"pair"}) ->
            ReplaceInName(<<"pair", "_">> \o Rec[1] \o <<"_">> \o Rec[2])
      [] IsSpec(ty, {"tuple"}) ->
            ReplaceInName(<<"tuple", "_">>
                \o Join([i \in DOMAIN ty.args |-> TranslateQual(ty.args[i])], <<"_">>))
      [] ty.k = "tmpl" ->
            TranslateName(ReplaceInName(<<ty.name, "_">> \o Join(Rec, <<"_">>)))
      [] OTHER -> TranslateQual(ty)

(***************************************************************************)
(* The wire encoding of a type (spec section 4.1): fixed-width integers by *)
(* width, strings and sequences as a count then the elements, pairs and    *)
(* tuples field by field, an optional as a flag then the value.  The       *)
(* plain types of the universe are given their widths by Width.            *)
(***************************************************************************)
Width(s) ==
    CASE BaseTypeName(s) \in {<<"char">>, <<"signed", " ", "char">>,
                              <<"unsigned", " ", "char">>} -> 1
      [] BaseTypeName(s) \in {<<"int">>, <<"unsigned", " ", "int">>, <<"long">>} -> 4
      [] BaseTypeName(s) \in {<<"unsigned", " ", "long", " ", "long">>,
                              <<"uint64_t">>} -> 8

RECURSIVE Enc(_)
Enc(ty) ==
    LET Rec == [i \in DOMAIN ty.args |-> Enc(ty.args[i])]
    IN
    CASE ty.k = "plain" /\ BaseTypeName(ty.s) = <<"string">> -> [seq |-> [int |-> 1]]
      [] ty.k = "plain" -> [int |-> Width(ty.s)]
      [] IsSpec(ty, {"ignore", "binary_extension"}) -> Rec[1]
      [] IsSpec(ty, {"vector", "set", "deque", "list"}) -> [seq |-> Rec[1]]
      [] IsSpec(ty, {"optional"}) -> [opt |-> Rec[1]]
      [] IsSpec(ty, {"map"}) -> [seq |-> [fields |-> Rec]]
      [] IsSpec(ty, {"pair", "tuple"}) -> [fields |-> Rec]

Init == a \in Universe /\ b \in Universe

(* The generator names the types of the next two action arguments with    *)
(* get_type, translate_type(get_ignored_type(t)); no record of the         *)
(* universe carries [[ftl::ignore]], so get_ignored_type returns t.        *)
Name == \E u, v \in Universe : a' = u /\ b' = v

Next == Name

Spec == Init /\ [][Next]_<<a, b>>

(***************************************************************************)
(* Properties                                                              *)
(***************************************************************************)

(* The ABI name translate_type gives a type determines how the type is     *)
(* encoded: two argument types the generator names the same way are       *)
(* encoded the same way, so a client that encodes by the ABI builds the   *)
(* bytes the contract's unpack expects.                                    *)
NameDeterminesEncoding == TranslateType(a) = TranslateType(b) => Enc(a) = Enc(b)
=============================================================================
