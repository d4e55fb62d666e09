--------------------------- MODULE MC_ShaderBuild ---------------------------
(* ShaderBuild over the tokens and comments of MC_Tokens, an assembly line *)
(* alphabet, and three RSL programs: a surface function calling a standard *)
(* function, a function computing a product, and a code block with no     *)
(* function header.                                                        *)
EXTENDS ShaderBuild, MC_Tokens

Op(s) == T(s, "OPERATOR")
Nm(s) == T(s, "UNKNOWN")

MCPrograms ==
  { << T(<<"s", "u", "r", "f", "a", "c", "e">>, "KEYWORD"), Nm(<<"f">>),
       Op(<<"(">>), Op(<<")">>), Op(<<"{">>), Nm(<<"C", "i">>), Op(<<"=">>),
       T(<<"n", "o", "r", "m", "a", "l", "i", "z", "e">>, "STDFUNC"),
       Op(<<"(">>), Nm(<<"N">>), Op(<<")">>), Op(<<";">>), Op(<<"}">>) >>,
    << T(<<"f", "l", "o", "a", "t">>, "DATATYPE"), Nm(<<"g">>),
       Op(<<"(">>), Op(<<")">>), Op(<<"{">>), Nm(<<"C", "i">>), Op(<<"=">>),
       Nm(<<"C", "s">>), Op(<<"*">>), Nm(<<"O", "s">>), Op(<<";">>), Op(<<"}">>) >>,
    << Op(<<"{">>), Nm(<<"C", "i">>), Op(<<"=">>), Nm(<<"N">>), Op(<<";">>),
       Op(<<"}">>) >> }

(* Assembly lines: the shader type and section directives, data lines     *)
(* that are legal, duplicated up to case, or rejected, and code lines that *)
(* exercise temporaries (reuse up to case, bad sigil, too short), a string *)
(* destination, a missing and an extra operand.                           *)
MCLines ==
  { <<"surface">>, <<".data">>, <<".code">>,
    <<"Ci", "global", "varying", "color">>,
    <<"A", "constant", "uniform", "color", "1", "0", "0">>,
    <<"a", "parameter", "uniform", "float", "1">>,
    <<"$t1", "temporary", "uniform", "float">>,
    <<"Nm", "parameter", "uniform", "string">>,
    <<"movvv", "Ci", "A">>,
    <<"ADDSS", "$s1", "$S1", "a">>,
    <<"movss", "$s1", "a", "Ci">>,
    <<"normalize", "$v1">>,
    <<"movss", "$q1", "a">>,
    <<"movss", "Nm", "a">>,
    <<"movvs", "$v1", "$s">> }

MCNumTokens == {"0", "1"}
=============================================================================
