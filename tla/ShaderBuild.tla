---------------------------- MODULE ShaderBuild ----------------------------
(***************************************************************************)
(* Loading a shader: the SlShader constructor (RI_SlShader.cpp).  A source *)
(* whose extension is "sl" is compiled first (compileSLToAsm): RSLCompiler *)
(* reads the builtins file and appends the source, runs Tokenizer, builds  *)
(* the bracket tree, discovers functions and reshapes the tree, and        *)
(* SaveASM writes "<name>autogen.rrasm"; whatever happens, that file is    *)
(* then read back and assembled by ShaderAsmParser.  Any other source is   *)
(* assembled directly.                                                     *)
(*                                                                         *)
(* The tokenizer and the assembler are the RSLCToken and ShaderAsm         *)
(* modules, instantiated over this module's variables.  RSLC_Tree.cpp is   *)
(* not in the repository: MakeTree and the passes after DiscoverFunctions *)
(* follow spec.md section 4.2.  The builtins file is not in the repository *)
(* either: it is the text Tok!Start puts before the source, a comment or   *)
(* nothing.                                                                *)
(***************************************************************************)
EXTENDS Integers, Sequences, SequencesExt

CONSTANTS
    ValidTokens, MaxTokens, Comments, TieOrder,   \* RSLCToken's
    Lines, NumTokens, MaxLines,                   \* ShaderAsm's
    Programs        \* RSL sources, as token sequences, that are compiled

VARIABLES
    given, src, i, tokens, isInString, isInComment, wasPrecededByWS,
    mType, curSection, lineCnt, symbols, code, status, codeLines,
    stage,          \* where the constructor is
    isSL,           \* strcasecmp( GetFileNameExt( pFileName ), "sl" ) == 0
    tree,           \* mpRoot's children
    funcs,          \* mpRoot->GetFuncs()
    compileOk,      \* no exception escaped the compiler and SaveASM
    autogen,        \* the lines of the file "<name>autogen.rrasm"
    readPos         \* lines of autogen the assembler has read

tokVars == <<given, src, i, tokens, isInString, isInComment, wasPrecededByWS>>
asmVars == <<mType, curSection, lineCnt, symbols, code, status, codeLines>>
ownVars == <<stage, isSL, tree, funcs, compileOk, autogen, readPos>>
vars == <<tokVars, asmVars, ownVars>>

Tok == INSTANCE RSLCToken
Asm == INSTANCE ShaderAsm

NoFile == <<"no file">>

-----------------------------------------------------------------------------
(* The bracket tree (spec.md 4.2, MakeTree).  A node holds its lexeme, its *)
(* TokNode type and its children.  An opening bracket holds what follows   *)
(* it up to its closer; the closer stays behind it as a sibling.           *)
Openers == {<<"(">>, <<"[">>, <<"{">>}
Closers == {<<")">>, <<"]">>, <<"}">>}

Leaf(t) == [tok |-> t, type |-> "STANDARD", kids |-> <<>>]

RECURSIVE Sibs(_)
Sibs(ts) ==
  IF ts = <<>> \/ Head(ts).str \in Closers THEN [nodes |-> <<>>, rest |-> ts]
  ELSE IF Head(ts).str \in Openers
    THEN LET in   == Sibs(Tail(ts))
             cls  == IF in.rest = <<>> THEN <<>> ELSE <<Leaf(Head(in.rest))>>
             more == Sibs(IF in.rest = <<>> THEN <<>> ELSE Tail(in.rest))
         IN [nodes |-> <<[Leaf(Head(ts)) EXCEPT !.kids = in.nodes]>> \o cls \o more.nodes,
             rest  |-> more.rest]
  ELSE LET more == Sibs(Tail(ts))
       IN [nodes |-> <<Leaf(Head(ts))>> \o more.nodes, rest |-> more.rest]

MakeTree(ts) == Sibs(ts).nodes

IsCodeBlock(n) == n.tok.str = <<"{">>
IsLeftBracket(n) == n.tok.str = <<"(">>
\* an identifier (a token no table entry matched) or a standard function
IsNonTerminal(n) == n.tok.idType = "UNKNOWN"
IsStdFunction(n) == n.tok.idType = "STDFUNC"

-----------------------------------------------------------------------------
(* DiscoverFunctions (RSLC_Functions.cpp)                                  *)

\* the 0-based indices of mpRoot's children that are code blocks
BlockIdx(kids) == SetToSortSeq({k \in 0..(Len(kids) - 1) : IsCodeBlock(kids[k + 1])}, <)

(* discoverFuncsDeclarations: every code block i needs children i-2, i-3  *)
(* and i-4 (size_t: below 0 there is no child) or it throws; the function *)
(* is named by child i-3, returns child i-4, and child i-3 becomes         *)
(* TYPE_FUNCDEF.                                                           *)
DeclsOf(kids) ==
  LET bs == BlockIdx(kids)
      ok == \A k \in 1..Len(bs) : bs[k] >= 4
  IN [ok    |-> ok,
      funcs |-> IF ok THEN [k \in 1..Len(bs) |->
                              [blk |-> bs[k], name |-> kids[bs[k] - 2].tok,
                               ret |-> kids[bs[k] - 3].tok]]
                ELSE <<>>,
      kids  |-> IF ok THEN [j \in 1..Len(kids) |->
                              IF \E k \in 1..Len(bs) : bs[k] - 3 = j - 1
                                THEN [kids[j] EXCEPT !.type = "FUNCDEF"]
                                ELSE kids[j]]
                ELSE kids]

\* the node a call discovery turns a STANDARD name into
CallCandidate(n) == (IsNonTerminal(n) \/ IsStdFunction(n)) /\ n.type = "STANDARD"

(* discoverFuncsUsage over the children of one node, from index i on.      *)
(* A candidate whose right sibling is a "(" takes that bracket as its last *)
(* child (Reparent takes it out of the parent) and becomes TYPE_FUNCCALL;  *)
(* out_parentIdx -= 1 makes the loop visit index i again.  Each child is  *)
(* then walked in turn.                                                    *)
RECURSIVE UsageKids(_, _)

\* Mutant: the TYPE_STANDARD test dropped, so a declared name is a call too.
UsageKidsAnyType(kids, k) ==
  IF k >= Len(kids) THEN kids
  ELSE LET c    == kids[k + 1]
           conv == (IsNonTerminal(c) \/ IsStdFunction(c))
                   /\ k + 1 < Len(kids) /\ IsLeftBracket(kids[k + 2])
           c1   == IF conv THEN [c EXCEPT !.type = "FUNCCALL",
                                          !.kids = Append(@, kids[k + 2])]
                   ELSE c
           rest == IF conv THEN RemoveAt(kids, k + 2) ELSE kids
           c2   == [c1 EXCEPT !.kids = UsageKids(@, 0)]
       IN UsageKids([rest EXCEPT ![k + 1] = c2], IF conv THEN k ELSE k + 1)

UsageKids(kids, k) ==
  IF k >= Len(kids) THEN kids
  ELSE LET c    == kids[k + 1]
           conv == CallCandidate(c) /\ k + 1 < Len(kids) /\ IsLeftBracket(kids[k + 2])
           c1   == IF conv THEN [c EXCEPT !.type = "FUNCCALL",
                                          !.kids = Append(@, kids[k + 2])]
                   ELSE c
           rest == IF conv THEN RemoveAt(kids, k + 2) ELSE kids
           c2   == [c1 EXCEPT !.kids = UsageKids(@, 0)]
       IN UsageKids([rest EXCEPT ![k + 1] = c2], IF conv THEN k ELSE k + 1)

-----------------------------------------------------------------------------
(* The passes after DiscoverFunctions (spec.md 4.2, 4.3).                  *)

\* RemoveClosingBrackets and RemoveSemicolons
Dropped(n) == n.tok.str \in Closers \cup {<<";">>}

AssignOps == {<<"=">>, <<"+", "=">>, <<"-", "=">>, <<"*", "=">>, <<"/", "=">>}

\* binary operators, lowest precedence first; assignment groups to the right
PrecLevels == << AssignOps, {<<"|", "|">>}, {<<"&", "&">>},
                 {<<"=", "=">>, <<"!", "=">>},
                 {<<"<">>, <<">">>, <<"<", "=">>, <<">", "=">>},
                 {<<"+">>, <<"-">>}, {<<"*">>, <<"/">>} >>

Prec(n) == CHOOSE l \in 1..Len(PrecLevels) : n.tok.str \in PrecLevels[l]

IsBinOp(n) == n.tok.idType = "OPERATOR" /\ n.kids = <<>>
              /\ \E l \in 1..Len(PrecLevels) : n.tok.str \in PrecLevels[l]

(* ReparentOperators on one flat list: the lowest-precedence operator, the *)
(* rightmost of its level (the leftmost for assignment), becomes the       *)
(* parent of what stands to its left and to its right.                    *)
RECURSIVE Reparent(_)
Reparent(ks) ==
  LET ops == {j \in 1..Len(ks) : IsBinOp(ks[j])}
  IN IF ops = {} THEN ks
     ELSE LET low  == Min({Prec(ks[j]) : j \in ops})
              at   == {j \in ops : Prec(ks[j]) = low}
              r    == IF low = 1 THEN Min(at) ELSE Max(at)
          IN <<[ks[r] EXCEPT !.kids = Reparent(SubSeq(ks, 1, r - 1))
                                      \o Reparent(SubSeq(ks, r + 1, Len(ks)))]>>

RECURSIVE Passes(_)
Passes(ks) ==
  LET kept == SelectSeq(ks, LAMBDA n : ~Dropped(n))
  IN Reparent([j \in 1..Len(kept) |-> [kept[j] EXCEPT !.kids = Passes(@)]])

RECURSIVE AllNodes(_)
AllNodes(ns) == UNION {{ns[j]} \cup AllNodes(ns[j].kids) : j \in DOMAIN ns}

\* spec.md 4.2: the built-in table that seeds every shader's symbols
StdVars == {<<"P">>, <<"N">>, <<"N", "g">>, <<"C", "s">>, <<"O", "s">>,
            <<"C", "i">>, <<"O", "i">>, <<"u">>, <<"v">>, <<"d", "u">>,
            <<"d", "v">>, <<"L">>, <<"C", "l">>}

(* DiscoverVariablesUsage: a plain name that is neither a function        *)
(* definition nor a call must be a known variable, or it is a fatal       *)
(* "unknown symbol".  Programs declare no variables of their own.          *)
NamesResolve(ns) ==
  \A n \in AllNodes(ns) :
     (IsNonTerminal(n) /\ n.type = "STANDARD") => n.tok.str \in StdVars

-----------------------------------------------------------------------------
(* The code emitter (RSLC_Functions.cpp) and SaveASM (RSLCompiler.cpp).    *)
(* A line is the list of its whitespace-separated tokens, as ShaderAsm     *)
(* reads it; empty lines and ';' comment lines are left out.               *)

RECURSIVE Str(_)
Str(cs) == IF cs = <<>> THEN "" ELSE Head(cs) \o Str(Tail(cs))

\* getOper: an operator's result is in $t0, a name stands for itself
getOper(n) == IF n.tok.idType = "OPERATOR" THEN "$t0" ELSE Str(n.tok.str)

IsAssignOp(n) == n.tok.str \in AssignOps

RECURSIVE buildExpression(_)

buildExpression(n) ==
  LET op == Str(n.tok.str)
      own ==
        IF n.tok.idType # "OPERATOR" THEN <<>>
        ELSE IF Len(n.kids) >= 2
          THEN LET o1 == getOper(n.kids[1])
                   o2 == getOper(n.kids[2])
               IN IF IsAssignOp(n)
                    THEN IF op = "=" THEN <<<<"mov", o1, o2>>>> ELSE <<<<op, o1, o1, o2>>>>
                    ELSE <<<<op, "$t0", o1, o2>>>>
          ELSE <<<<"WEIRDDD", "!!", "(", op, ")">>>>
  IN FoldLeft(LAMBDA acc, k : acc \o (IF k.tok.idType = "OPERATOR"
                                       THEN buildExpression(k) ELSE <<>>),
              <<>>, n.kids) \o own

\* generateExpressions: only the block's assignment statements
generateExpressions(blk) ==
  FoldLeft(LAMBDA acc, n : acc \o (IF IsAssignOp(n) THEN buildExpression(n) ELSE <<>>),
           <<>>, blk.kids)

\* the code blocks among mpRoot's children, in order: mpCodeBlkNode of each
RootBlocks(ns) == SelectSeq(ns, IsCodeBlock)

WriteFunctions(ns, fs) ==
  FoldLeft(LAMBDA acc, k :
             acc \o <<IF fs[k].ret.idType = "SHADERTYPE"
                        THEN <<Str(fs[k].ret.str), Str(fs[k].name.str)>>
                        ELSE <<"function", Str(fs[k].name.str)>>>>
                 \o generateExpressions(RootBlocks(ns)[k]) \o <<<<"ret">>>>,
           <<>>, [k \in 1..Len(fs) |-> k])

\* SaveASM: ".data", WriteVariables (left out), ".code", WriteFunctions
SavedText(ns, fs) == <<<<".data">>, <<".code">>>> \o WriteFunctions(ns, fs)

\* the autogen text an earlier, successful compile of lexemes lex left
EarlierText(lex) ==
  LET d == DeclsOf(MakeTree(lex))
      t == Passes(UsageKids(d.kids, 0))
  IN IF d.ok /\ NamesResolve(t) THEN {SavedText(t, d.funcs)} ELSE {}

-----------------------------------------------------------------------------
(* The constructor's steps.                                                *)

(* An "sl" source, a program or a short sequence of valid tokens, after    *)
(* the builtins text; before a program, autogen.rrasm may have been left   *)
(* by an earlier compile.  Any other source is assembled as it is.         *)
Init ==
  /\ Asm!Init
  /\ tree = <<>>
  /\ funcs = <<>>
  /\ compileOk = TRUE
  /\ readPos = 0
  /\ \/ /\ isSL = TRUE
        /\ stage = "grab"
        /\ \/ /\ \E g \in Programs, c \in Comments \cup {<<>>} : Tok!Start(g, c)
              /\ autogen \in {NoFile} \cup UNION {EarlierText(g) : g \in Programs}
           \/ Tok!Init /\ autogen = NoFile
     \/ /\ isSL = FALSE
        /\ stage = "parse"
        /\ Tok!Start(<<>>, <<>>)
        /\ autogen = NoFile

(* grabfile( pBaseInclude ): the builtins file opens, or grabfile throws   *)
(* "Failed to open" out of the compiler; compileSLToAsm catches it and     *)
(* still returns the autogen name.                                         *)
GrabBuiltins ==
  /\ stage = "grab"
  /\ \/ stage' = "lex" /\ UNCHANGED compileOk
     \/ stage' = "load" /\ compileOk' = FALSE
  /\ UNCHANGED <<tokVars, asmVars, isSL, tree, funcs, autogen, readPos>>

Lex ==
  /\ stage = "lex"
  /\ Tok!Next
  /\ UNCHANGED <<asmVars, ownVars>>

(* Tokenizer has returned: MakeTree (AddStandardVariables and              *)
(* DiscoverVariablesDeclarations leave the shape alone).                   *)
BuildTree ==
  /\ stage = "lex"
  /\ ~Tok!Running
  /\ tree' = MakeTree(Tok!Lexemes)
  /\ stage' = "discover"
  /\ UNCHANGED <<tokVars, asmVars, isSL, funcs, compileOk, autogen, readPos>>

(* DiscoverFunctions: declarations, then usage from the root.              *)
DiscoverFunctions ==
  /\ stage = "discover"
  /\ LET d == DeclsOf(tree)
     IN IF d.ok
          THEN /\ tree' = UsageKids(d.kids, 0)
               /\ funcs' = d.funcs
               /\ stage' = "passes"
               /\ UNCHANGED compileOk
          ELSE /\ compileOk' = FALSE
               /\ stage' = "load"
               /\ UNCHANGED <<tree, funcs>>
  /\ UNCHANGED <<tokVars, asmVars, isSL, autogen, readPos>>

(* RemoveClosingBrackets to DiscoverVariablesUsage; an unknown name        *)
(* throws.                                                                 *)
LaterPasses ==
  /\ stage = "passes"
  /\ tree' = Passes(tree)
  /\ IF NamesResolve(tree')
       THEN stage' = "save" /\ UNCHANGED compileOk
       ELSE stage' = "load" /\ compileOk' = FALSE
  /\ UNCHANGED <<tokVars, asmVars, isSL, funcs, autogen, readPos>>

(* SaveASM: fopen_s may fail (DASSTHROW, the old file stays); otherwise    *)
(* the file is rewritten from the start.                                   *)
SaveASM ==
  /\ stage = "save"
  /\ \/ autogen' = SavedText(tree, funcs) /\ UNCHANGED compileOk
     \/ compileOk' = FALSE /\ UNCHANGED autogen
  /\ stage' = "load"
  /\ UNCHANGED <<tokVars, asmVars, isSL, tree, funcs, readPos>>

(* DUT::MemFile tmpFile( asmFileName ): a missing file throws out of the   *)
(* constructor.                                                            *)
Load ==
  /\ stage = "load"
  /\ stage' = IF autogen = NoFile THEN "failed" ELSE "parse"
  /\ UNCHANGED <<tokVars, asmVars, isSL, tree, funcs, compileOk, autogen, readPos>>

\* ShaderAsmParser reads the next line of the autogen file
ParseAutogenLine ==
  /\ stage = "parse"
  /\ isSL
  /\ readPos < Len(autogen)
  /\ LET line == autogen[readPos + 1]
     IN Asm!TypeLine(line) \/ Asm!SectionLine(line) \/ Asm!DataLine(line)
        \/ Asm!CodeLine(line)
  /\ readPos' = readPos + 1
  /\ UNCHANGED <<tokVars, stage, isSL, tree, funcs, compileOk, autogen>>

\* ShaderAsmParser reads the next line of a source that is not "sl"
ParseSourceLine ==
  /\ stage = "parse"
  /\ ~isSL
  /\ Asm!Next
  /\ UNCHANGED <<tokVars, ownVars>>

\* ReadTextLine finds no more lines: the shader is built
EndOfFile ==
  /\ stage = "parse"
  /\ status = "ok"
  /\ isSL => readPos = Len(autogen)
  /\ stage' = "built"
  /\ UNCHANGED <<tokVars, asmVars, isSL, tree, funcs, compileOk, autogen, readPos>>

\* onError threw: doParse rethrows out of the constructor
ParseFailed ==
  /\ stage = "parse"
  /\ status = "failed"
  /\ stage' = "failed"
  /\ UNCHANGED <<tokVars, asmVars, isSL, tree, funcs, compileOk, autogen, readPos>>

Next ==
  \/ GrabBuiltins \/ Lex \/ BuildTree \/ DiscoverFunctions \/ LaterPasses
  \/ SaveASM \/ Load \/ ParseAutogenLine \/ ParseSourceLine \/ EndOfFile
  \/ ParseFailed

\* the constructor runs its steps one after another until it returns or throws
Spec == Init /\ [][Next]_vars /\ WF_vars(Next)

-----------------------------------------------------------------------------
(* Properties                                                              *)

Stages == {"grab", "lex", "discover", "passes", "save", "load", "parse",
           "built", "failed"}

TypeOK ==
  /\ Tok!TypeOK
  /\ Asm!TypeOK
  /\ stage \in Stages
  /\ isSL \in BOOLEAN
  /\ compileOk \in BOOLEAN
  /\ autogen \in Seq(Seq(STRING))
  /\ readPos \in 0..Len(autogen)

(* spec.md section 8, "lexer round-trip", for every source compiled here: *)
(* Tokenizer gives back the lexemes the source was written from.          *)
RoundTrip == Tok!RoundTrip

(* Every program the assembler accepted decodes as the VM steps through   *)
(* it (ShaderAsm's parseCodeLine and the operand loop).                    *)
CodeWellFormed == Asm!CodeWellFormed

\* the lexemes of a tree, parents before children
RECURSIVE Flat(_)
Flat(ns) == IF ns = <<>> THEN <<>>
            ELSE <<Head(ns).tok>> \o Flat(Head(ns).kids) \o Flat(Tail(ns))

(* After DiscoverFunctions (discoverFuncsDeclarations, then the recursive *)
(* discoverFuncsUsage with its out_parentIdx back-step): the tree still    *)
(* holds the source's lexemes in order, each once; every function that was *)
(* declared is named by a TYPE_FUNCDEF node that still has its parameter  *)
(* bracket to its right; no name or standard function left TYPE_STANDARD *)
(* has a "(" to its right; and every TYPE_FUNCCALL node ends with the     *)
(* bracket it took.                                                        *)
CallsOwnArguments ==
  stage = "passes" =>
    /\ Flat(tree) = Tok!Lexemes
    /\ \A k \in 1..Len(funcs) :
         \E j \in 1..(Len(tree) - 1) :
            /\ tree[j].tok = funcs[k].name /\ tree[j].type = "FUNCDEF"
            /\ IsLeftBracket(tree[j + 1])
    /\ \A L \in {tree} \cup {n.kids : n \in AllNodes(tree)} :
         \A j \in 1..(Len(L) - 1) : IsLeftBracket(L[j + 1]) => ~CallCandidate(L[j])
    /\ \A n \in AllNodes(tree) :
         n.type = "FUNCCALL" => n.kids # <<>> /\ IsLeftBracket(n.kids[Len(n.kids)])

(* The constructor returns or throws: tokenizing, the compiler's passes    *)
(* and the line-by-line assembly all end.                                  *)
BuildTerminates == <>(stage \in {"built", "failed"})

(* spec.md 4.5: the emitter's text is what the assembler parses.  A        *)
(* shader whose RSL source compiled and was saved without an exception is *)
(* built from the autogen file SaveASM wrote.                              *)
CompiledShaderLoads ==
  (isSL /\ compileOk /\ stage \in {"built", "failed"}) => stage = "built"

====
