----------------------------- MODULE ShaderAsm -----------------------------
(***************************************************************************)
(* RI::ShaderAsmParser (src/RI_System/src/RI_SlShaderAsmParser.cpp): the  *)
(* assembler that reads the intermediate assembly text, one line per      *)
(* step of doParse, into the shader's symbol table (mSymbols) and its     *)
(* flat instruction array (mCode).                                        *)
(*                                                                         *)
(* A line is the list of its whitespace-separated tokens after            *)
(* stripComments and StrStripBeginEndWhite; empty lines change nothing    *)
(* and are left out.  Tokens are strings, so that the '$' sigil, the      *)
(* second character, the length test and the case-insensitive compares    *)
(* of the code are modelled by what they do.  onError throws, doParse     *)
(* rethrows, and the whole parse fails: status becomes "failed" and no    *)
(* further line is read.                                                  *)
(***************************************************************************)
EXTENDS Integers, Sequences

CONSTANTS
  Lines,       \* the lines a source file may contain (token sequences)
  NumTokens,   \* the tokens sscanf("%f") accepts as numbers
  MaxLines     \* bound on the number of lines read

ASSUME MaxLines \in Nat

VARIABLES
  mType,        \* mpShader->mType
  curSection,   \* "DATA" or "CODE"
  lineCnt,      \* lines read so far
  symbols,      \* mpShader->mSymbols
  code,         \* mpShader->mCode
  status,       \* "ok" while parsing, "failed" once onError has thrown
  codeLines     \* history: the code lines accepted, for the arity check

vars == <<mType, curSection, lineCnt, symbols, code, status, codeLines>>

-----------------------------------------------------------------------------
(* strcasecmp: compare after folding ASCII upper case to lower case.       *)
Upper == "ABCDEFGHIJKLMNOPQRSTUVWXYZ"
Lower == "abcdefghijklmnopqrstuvwxyz"

FoldChar(c) ==
  IF \E i \in 1..26 : SubSeq(Upper, i, i) = c
    THEN LET i == CHOOSE j \in 1..26 : SubSeq(Upper, j, j) = c
         IN SubSeq(Lower, i, i)
    ELSE c

RECURSIVE FoldCase(_)
FoldCase(s) == IF s = "" THEN "" ELSE FoldChar(Head(s)) \o FoldCase(Tail(s))

SameIgnoreCase(a, b) == FoldCase(a) = FoldCase(b)

(* gsOpCodeDefs: mnemonic and operand count, at table offsets 0..18.       *)
OpCodeDefs ==
  << [name |-> "movss", cnt |-> 2], [name |-> "movvs", cnt |-> 2],
     [name |-> "movvv", cnt |-> 2], [name |-> "addss", cnt |-> 3],
     [name |-> "addvs", cnt |-> 3], [name |-> "addvv", cnt |-> 3],
     [name |-> "subss", cnt |-> 3], [name |-> "subvs", cnt |-> 3],
     [name |-> "subvv", cnt |-> 3], [name |-> "mulss", cnt |-> 3],
     [name |-> "mulvs", cnt |-> 3], [name |-> "mulvv", cnt |-> 3],
     [name |-> "divss", cnt |-> 3], [name |-> "divvs", cnt |-> 3],
     [name |-> "divvv", cnt |-> 3], [name |-> "normalize", cnt |-> 2],
     [name |-> "faceforward", cnt |-> 3], [name |-> "diffuse", cnt |-> 2],
     [name |-> "ambient", cnt |-> 1] >>

(* findOpDef: the first table offset whose mnemonic matches, ignoring      *)
(* case, or -1.                                                            *)
FindOpDef(op) ==
  LET hits == {i \in 1..Len(OpCodeDefs) : SameIgnoreCase(op, OpCodeDefs[i].name)}
  IN IF hits = {} THEN -1
     ELSE (CHOOSE i \in hits : \A j \in hits : i <= j) - 1

(* The keyword tables of parseDataLine (strcmp: case matters).             *)
StorageKw == [constant |-> "CONSTANT", parameter |-> "PARAMETER",
              temporary |-> "TEMPORARY", global |-> "GLOBAL"]
TypeKw == [float |-> "FLOAT", point |-> "POINT", color |-> "COLOR",
           string |-> "STRING", vector |-> "VECTOR", normal |-> "NORMAL",
           matrix |-> "MATRIX"]

(* getOperTypeFromSlSymbolType; STRING has no operand type.                *)
OperType(t) ==
  CASE t = "FLOAT" -> "F1"
    [] t \in {"POINT", "COLOR", "VECTOR", "NORMAL"} -> "F3"
    [] t = "MATRIX" -> "M44"
    [] t = "STRING" -> "none"

-----------------------------------------------------------------------------
(* parseDataLine                                                            *)

(* The values sscanf reads from the default text for n components: the    *)
(* leading numeric tokens, at most n of them.                              *)
RECURSIVE LeadingNums(_)
LeadingNums(s) ==
  IF s = <<>> \/ Head(s) \notin NumTokens THEN 0 ELSE 1 + LeadingNums(Tail(s))

ScanCount(s, n) == IF LeadingNums(s) < n THEN LeadingNums(s) ELSE n

(* getVector accepts exactly n values or a single one (broadcast).         *)
VectorOk(s, n) == ScanCount(s, n) \in {1, n}

(* Every early onError of parseDataLine, as the condition for reaching    *)
(* mSymbols.push_back.  A fifth token means "default value present".       *)
DataLineOk(line) ==
  /\ Len(line) >= 2 /\ line[2] \in DOMAIN StorageKw
  /\ Len(line) >= 3 /\ line[3] \in {"varying", "uniform"}
  /\ ~(line[3] = "uniform" /\ line[2] = "temporary")
  /\ Len(line) >= 4 /\ line[4] \in DOMAIN TypeKw
  /\ Len(line) > 4 =>
       LET dflt == SubSeq(line, 5, Len(line))
       IN /\ line[3] = "uniform"
          /\ line[4] \notin {"string", "matrix"}
          /\ VectorOk(dflt, IF line[4] = "float" THEN 1 ELSE 3)

DataSymbol(line) ==
  [name |-> line[1], storage |-> StorageKw[line[2]],
   varying |-> line[3] = "varying", type |-> TypeKw[line[4]],
   hasDefault |-> Len(line) > 4]

-----------------------------------------------------------------------------
(* Symbol lookup and temporaries.                                          *)

(* findSymbol: the first (0-based) index whose name matches, or -1.        *)
FindSymbol(syms, name, ignoreCase) ==
  LET hits == {i \in 1..Len(syms) :
                 IF ignoreCase THEN SameIgnoreCase(name, syms[i].name)
                 ELSE name = syms[i].name}
  IN IF hits = {} THEN -1 ELSE (CHOOSE i \in hits : \A j \in hits : i <= j) - 1

IsTempSymbol(tok) == Head(tok) = "$"

TempSymbol(tok, type) ==
  [name |-> tok, storage |-> "TEMPORARY", varying |-> TRUE, type |-> type,
   hasDefault |-> FALSE]

(* findOrAddTempSymbol: reuse a symbol of the same name (any case); else   *)
(* names shorter than 3 are refused, and the second character picks a     *)
(* varying FLOAT ('s') or VECTOR ('v') temporary.  Result: the new table  *)
(* and the index, -1 if refused.                                           *)
FindOrAddTempSymbol(syms, tok) ==
  LET found == FindSymbol(syms, tok, TRUE)
      sigil == FoldChar(SubSeq(tok, 2, 2))
  IN CASE found # -1 -> [syms |-> syms, idx |-> found]
       [] Len(tok) < 3 -> [syms |-> syms, idx |-> -1]
       [] sigil = "s" -> [syms |-> Append(syms, TempSymbol(tok, "FLOAT")),
                          idx |-> Len(syms)]
       [] sigil = "v" -> [syms |-> Append(syms, TempSymbol(tok, "VECTOR")),
                          idx |-> Len(syms)]
       [] OTHER -> [syms |-> syms, idx |-> -1]

ResolveOperand(syms, tok) ==
  IF IsTempSymbol(tok) THEN FindOrAddTempSymbol(syms, tok)
  ELSE [syms |-> syms, idx |-> FindSymbol(syms, tok, FALSE)]

(* The operand loop of parseCodeLine, from operand i on.  st holds the     *)
(* symbol table, the code, the destination type and whether onError has   *)
(* thrown; a throw leaves what was pushed so far in place.                 *)
RECURSIVE Operands(_, _, _, _)

(* Mutant: the STRING-destination check of parseCodeLine dropped.          *)
OperandsNoStringCheck(st, toks, cnt, i) ==
  IF i > cnt \/ ~st.ok THEN st
  ELSE IF i > Len(toks) THEN [st EXCEPT !.ok = FALSE]
  ELSE
    LET r    == ResolveOperand(st.syms, toks[i])
        sym  == r.syms[r.idx + 1]
        next == [st EXCEPT !.syms = r.syms,
                           !.code = Append(st.code, [kind |-> "sym", idx |-> r.idx,
                                                     varying |-> sym.varying])]
    IN IF r.idx = -1 THEN [st EXCEPT !.ok = FALSE]
       ELSE Operands(IF i = 1 THEN [next EXCEPT !.dest = OperType(sym.type)]
                     ELSE next, toks, cnt, i + 1)

Operands(st, toks, cnt, i) ==
  IF i > cnt \/ ~st.ok THEN st
  ELSE IF i > Len(toks) THEN [st EXCEPT !.ok = FALSE]
  ELSE
    LET r    == ResolveOperand(st.syms, toks[i])
        sym  == r.syms[r.idx + 1]
        next == [st EXCEPT !.syms = r.syms,
                           !.code = Append(st.code, [kind |-> "sym", idx |-> r.idx,
                                                     varying |-> sym.varying])]
    IN IF r.idx = -1 THEN [st EXCEPT !.ok = FALSE]
       ELSE IF i = 1 /\ OperType(sym.type) = "none"
         THEN [next EXCEPT !.ok = FALSE]
       ELSE Operands(IF i = 1 THEN [next EXCEPT !.dest = OperType(sym.type)]
                     ELSE next, toks, cnt, i + 1)

-----------------------------------------------------------------------------
(* One step of doParse per non-empty line.                                 *)

ReadLine == status = "ok" /\ lineCnt < MaxLines

(* The first line must name the shader type (compared ignoring case).     *)
TypeLine(line) ==
  /\ ReadLine
  /\ mType = "UNKNOWN"
  /\ lineCnt' = lineCnt + 1
  /\ IF Len(line) = 1 /\ FoldCase(line[1]) \in {"surface", "light", "displacement"}
       THEN /\ mType' = CASE FoldCase(line[1]) = "surface" -> "SURFACE"
                          [] FoldCase(line[1]) = "light" -> "LIGHT"
                          [] OTHER -> "DISPLACEMENT"
            /\ UNCHANGED status
       ELSE /\ status' = "failed"
            /\ UNCHANGED mType
  /\ UNCHANGED <<curSection, symbols, code, codeLines>>

IsDirective(line, d) == Len(line) = 1 /\ FoldCase(line[1]) = d

SectionLine(line) ==
  /\ ReadLine
  /\ mType # "UNKNOWN"
  /\ \/ IsDirective(line, ".data") /\ curSection' = "DATA"
     \/ IsDirective(line, ".code") /\ curSection' = "CODE"
  /\ lineCnt' = lineCnt + 1
  /\ UNCHANGED <<mType, symbols, code, status, codeLines>>

NotDirective(line) == ~IsDirective(line, ".data") /\ ~IsDirective(line, ".code")

(* parseDataLine: push the declared symbol, or throw.                       *)
DataLine(line) ==
  /\ ReadLine
  /\ mType # "UNKNOWN"
  /\ NotDirective(line)
  /\ curSection = "DATA"
  /\ lineCnt' = lineCnt + 1
  /\ IF DataLineOk(line)
       THEN symbols' = Append(symbols, DataSymbol(line)) /\ UNCHANGED status
       ELSE status' = "failed" /\ UNCHANGED symbols
  /\ UNCHANGED <<mType, curSection, code, codeLines>>

(* Mutant: the opcode word is not rewritten with the destination type.    *)
CodeLineNoDest(line) ==
  LET off  == FindOpDef(line[1])
      cnt  == OpCodeDefs[off + 1].cnt
      word == [kind |-> "op", off |-> off, cnt |-> cnt, dest |-> "unset"]
      st   == Operands([syms |-> symbols, code |-> Append(code, word),
                        dest |-> "unset", ok |-> TRUE],
                       SubSeq(line, 2, Len(line)), cnt, 1)
  IN /\ ReadLine
     /\ mType # "UNKNOWN"
     /\ NotDirective(line)
     /\ curSection = "CODE"
     /\ lineCnt' = lineCnt + 1
     /\ IF off = -1
          THEN status' = "failed" /\ UNCHANGED <<symbols, code, codeLines>>
          ELSE /\ symbols' = st.syms
               /\ code' = st.code
               /\ status' = IF st.ok THEN "ok" ELSE "failed"
               /\ codeLines' = IF st.ok THEN Append(codeLines, line) ELSE codeLines
     /\ UNCHANGED <<mType, curSection>>

(* parseCodeLine: look the opcode up, push its word, resolve and push      *)
(* OperCnt operands (creating temporaries on first sight), then write the *)
(* opcode word again with the first operand's type.  Tokens after the     *)
(* OperCnt-th are not looked at.                                           *)
CodeLine(line) ==
  LET off  == FindOpDef(line[1])
      cnt  == OpCodeDefs[off + 1].cnt
      word == [kind |-> "op", off |-> off, cnt |-> cnt, dest |-> "unset"]
      st   == Operands([syms |-> symbols, code |-> Append(code, word),
                        dest |-> "unset", ok |-> TRUE],
                       SubSeq(line, 2, Len(line)), cnt, 1)
  IN /\ ReadLine
     /\ mType # "UNKNOWN"
     /\ NotDirective(line)
     /\ curSection = "CODE"
     /\ lineCnt' = lineCnt + 1
     /\ IF off = -1
          THEN status' = "failed" /\ UNCHANGED <<symbols, code, codeLines>>
          ELSE /\ symbols' = st.syms
               /\ code' = IF st.ok
                            THEN [st.code EXCEPT ![Len(code) + 1].dest = st.dest]
                            ELSE st.code
               /\ status' = IF st.ok THEN "ok" ELSE "failed"
               /\ codeLines' = IF st.ok THEN Append(codeLines, line) ELSE codeLines
     /\ UNCHANGED <<mType, curSection>>

Init ==
  /\ mType = "UNKNOWN"
  /\ curSection = "CODE"
  /\ lineCnt = 0
  /\ symbols = <<>>
  /\ code = <<>>
  /\ status = "ok"
  /\ codeLines = <<>>

Next ==
  \E line \in Lines :
    TypeLine(line) \/ SectionLine(line) \/ DataLine(line) \/ CodeLine(line)

Spec == Init /\ [][Next]_vars

-----------------------------------------------------------------------------
(* Properties.                                                             *)

SymbolRec ==
  [name: STRING, storage: {"CONSTANT", "PARAMETER", "TEMPORARY", "GLOBAL"},
   varying: BOOLEAN, type: {"FLOAT", "POINT", "COLOR", "STRING", "VECTOR",
                            "NORMAL", "MATRIX"}, hasDefault: BOOLEAN]

Word ==
  [kind: {"op"}, off: 0..(Len(OpCodeDefs) - 1), cnt: {1, 2, 3},
   dest: {"unset", "F1", "F3", "M44"}]
  \cup [kind: {"sym"}, idx: Nat, varying: BOOLEAN]

TypeOK ==
  /\ mType \in {"UNKNOWN", "SURFACE", "LIGHT", "DISPLACEMENT"}
  /\ curSection \in {"DATA", "CODE"}
  /\ lineCnt \in 0..MaxLines
  /\ symbols \in Seq(SymbolRec)
  /\ code \in Seq(Word)
  /\ status \in {"ok", "failed"}

(* The instruction stream decodes from position p: an opcode word, then    *)
(* exactly the operand count of its gsOpCodeDefs entry in operand words,   *)
(* each naming an existing symbol and caching that symbol's variability,   *)
(* the opcode carrying its first operand's type; and so on to the end.     *)
RECURSIVE DecodesFrom(_)
DecodesFrom(p) ==
  IF p > Len(code) THEN TRUE
  ELSE LET w == code[p]
       IN /\ w.kind = "op"
          /\ w.cnt = OpCodeDefs[w.off + 1].cnt
          /\ p + w.cnt <= Len(code)
          /\ \A j \in 1..w.cnt :
               LET o == code[p + j]
               IN /\ o.kind = "sym"
                  /\ o.idx \in 0..(Len(symbols) - 1)
                  /\ o.varying = symbols[o.idx + 1].varying
          /\ w.dest = OperType(symbols[code[p + 1].idx + 1].type)
          /\ DecodesFrom(p + w.cnt + 1)

(* The VM fetches an opcode word and steps over OperandCount words after   *)
(* it, trusting the cached variability flag of each: in every program the  *)
(* parser has accepted so far (including temporaries created half-way      *)
(* through an instruction) the code array decodes that way.                *)
CodeWellFormed == status = "ok" => DecodesFrom(1)

=============================================================================
