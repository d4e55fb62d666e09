---------------------------- MODULE MC_ShaderVM ----------------------------
(* Shaders, grids and calling parameters for checking ShaderVM.           *)
EXTENDS ShaderVM

Sym(name, storage, varying, type) ==
  [name |-> name, storage |-> storage, varying |-> varying, type |-> type,
   hasDefault |-> FALSE]

(* An instruction as ShaderAsm writes it: the opcode word, then one        *)
(* operand word per operand with the symbol's cached variability.         *)
Instr(syms, off, ops) ==
  <<[kind |-> "op", off |-> off, cnt |-> Len(ops), dest |-> "F3"]>> \o
  [k \in 1..Len(ops) |-> [kind |-> "sym", idx |-> ops[k],
                          varying |-> syms[ops[k] + 1].varying]]

SurfSyms ==
  << Sym("P", "GLOBAL", TRUE, "POINT"), Sym("N", "GLOBAL", TRUE, "NORMAL"),
     Sym("I", "GLOBAL", TRUE, "VECTOR"), Sym("Kd", "PARAMETER", FALSE, "FLOAT"),
     Sym("Ks", "PARAMETER", FALSE, "FLOAT"), Sym("$v1", "TEMPORARY", TRUE, "VECTOR"),
     Sym("Cs", "PARAMETER", TRUE, "COLOR"), Sym("k", "CONSTANT", FALSE, "FLOAT") >>

(* normalize $v1 N; faceforward N $v1 I; mulvs Cs Cs Kd; addvs P P k; ret *)
Surf ==
  [symbols |-> SurfSyms,
   code |-> Instr(SurfSyms, 38, <<5, 1>>) \o Instr(SurfSyms, 39, <<1, 5, 2>>)
            \o Instr(SurfSyms, 15, <<6, 6, 3>>) \o Instr(SurfSyms, 7, <<0, 0, 7>>)
            \o Instr(SurfSyms, 43, <<>>)]

(* movvs $v1 Ks; addvv P P $v1; runs off the end of mCode                  *)
Disp ==
  [symbols |-> SurfSyms,
   code |-> Instr(SurfSyms, 1, <<5, 4>>) \o Instr(SurfSyms, 9, <<0, 0, 5>>)]

GridVar(name, type, varying) == [name |-> name, type |-> type, varying |-> varying]

BaseGrid ==
  {GridVar("P", "POINT", TRUE), GridVar("N", "NORMAL", TRUE),
   GridVar("I", "VECTOR", TRUE), GridVar("Cs", "COLOR", TRUE)}

MCShaders == {Surf, Disp}

(* Ng varying; Ng uniform; Kd supplied by the grid as varying.            *)
MCGrids ==
  { BaseGrid \cup {GridVar("Ng", "NORMAL", TRUE)},
    BaseGrid \cup {GridVar("Ng", "NORMAL", FALSE)},
    BaseGrid \cup {GridVar("Ng", "NORMAL", TRUE), GridVar("Kd", "FLOAT", TRUE)} }

MCCallingParams == {GridVar("Kd", "FLOAT", FALSE)}

AsmSyms ==
  << Sym("$s1", "TEMPORARY", TRUE, "FLOAT"), Sym("a", "CONSTANT", FALSE, "FLOAT"),
     Sym("b", "CONSTANT", FALSE, "FLOAT") >>

(* "movss $s1 a" and "addss $s1 a b" as the assembler encodes them.       *)
Assembled ==
  [symbols |-> AsmSyms,
   code |-> Instr(AsmSyms, Asm!FindOpDef("movss"), <<0, 1>>)
            \o Instr(AsmSyms, Asm!FindOpDef("addss"), <<0, 1, 2>>)]

MCAsmShaders == {Assembled}
=============================================================================
