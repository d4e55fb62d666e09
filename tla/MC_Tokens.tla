------------------------------ MODULE MC_Tokens ------------------------------
(* RSL tokens and comments that sources are made of, shared by the models *)
(* of the lexer and of the shader build.                                  *)
EXTENDS Sequences

T(s, t) == [str |-> s, idType |-> t]

(* Tokens of every class: operators with a longer operator sharing their  *)
(* first character, a comment opener's first character, a keyword, a data *)
(* type that is a prefix of a standard function and that function, plain  *)
(* names, numbers with a leading dot, an exponent and a suffix, and a     *)
(* string.                                                                *)
MCTokens ==
    { T(<<"<", "=">>, "OPERATOR"), T(<<"<">>, "OPERATOR"), T(<<"-">>, "OPERATOR"),
      T(<<"/">>, "OPERATOR"), T(<<"*">>, "OPERATOR"),
      T(<<"i", "f">>, "KEYWORD"), T(<<"n", "o", "r", "m", "a", "l">>, "DATATYPE"),
      T(<<"n", "o", "r", "m", "a", "l", "i", "z", "e">>, "STDFUNC"),
      T(<<"x">>, "UNKNOWN"), T(<<"K", "d">>, "UNKNOWN"),
      T(<<"1">>, "NUMBER"), T(<<".", "5">>, "NUMBER"),
      T(<<"2", "e", "-", "3">>, "NUMBER"), T(<<"1", ".", "5", "f">>, "NUMBER"),
      T(<<"\"", "a", "\"">>, "STRING") }

(* Further valid tokens: the longest standard-function name and a string *)
(* holding a space, both lexed as spec.md section 4.1 describes.          *)
MCMoreTokens ==
    MCTokens \cup
    { T(<<"c", "a", "l", "c", "u", "l", "a", "t", "e", "n", "o", "r", "m", "a", "l">>, "STDFUNC"),
      T(<<"\"", "a", " ", "b", "\"">>, "STRING") }

(* A comment with text in it, and an empty one.                         *)
MCComments == { <<"/", "*", " ", "x", "*", "/">>, <<"/", "*", "*", "/">> }
=============================================================================
