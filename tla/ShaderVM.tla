----------------------------- MODULE ShaderVM -----------------------------
(***************************************************************************)
(* RI::SlShaderInstance (src/RI_System/src/RI_SlShader.cpp): successive   *)
(* shading invocations, each of which Binds a data segment for one shader *)
(* against one grid, Runs the shader's instruction array through          *)
(* sInstructionTable, and Unbinds.                                        *)
(*                                                                         *)
(* A shader is the pair of tables ShaderAsm builds (mSymbols, mCode).      *)
(* Values are symbolic terms: a grid variable holds <<name, block>> per   *)
(* SIMD block, a handler writes <<mnemonic, arguments...>>, so that a     *)
(* property can tell which operand slot each result was computed from.   *)
(* Storage is per location (grid variable, calling parameter, default,    *)
(* constant, owned clone); a uniform location has one meaningful slot and *)
(* unrelated data after it.                                                *)
(***************************************************************************)
EXTENDS Integers, Sequences, FiniteSets

CONSTANTS
  Shaders,        \* the shaders (mSymbols, mCode) an invocation may run
  Grids,          \* the grids' symbol lists an invocation may be bound to
  CallingParams,  \* mCallingParams
  BlocksN,        \* ctx.mBlocksN
  MaxRuns         \* bound on the number of shading invocations

ASSUME BlocksN \in Nat \ {0} /\ MaxRuns \in Nat

Asm == INSTANCE ShaderAsm WITH Lines <- {}, NumTokens <- {}, MaxLines <- 0,
         mType <- "UNKNOWN", curSection <- "CODE", lineCnt <- 0,
         symbols <- <<>>, code <- <<>>, status <- "ok", codeLines <- <<>>

VARIABLES
  phase,       \* "idle" between invocations, "bound" while Run loops, "ran"
  shader,      \* mpShader of the instance being shaded
  grid,        \* gridSymbols passed to Bind
  seg,         \* pDataSegment: location of each symbol's slot, <<>> if none
  mem,         \* storage: location -> block -> value
  mask,        \* the blocks IsProcessorActive reports active
  pc,          \* ctx.mProgramCounter[ctx.mProgramCounterIdx]
  pcIdx,       \* ctx.mProgramCounterIdx
  live,        \* heap blocks allocated by Bind and not yet freed
  runs,        \* shading invocations begun
  dispatched   \* history: table offsets Run has dispatched

vars == <<phase, shader, grid, seg, mem, mask, pc, pcIdx, live, runs, dispatched>>

Blocks == 0..(BlocksN - 1)

-----------------------------------------------------------------------------
(* sInstructionTable: one entry per table offset.  Inst_1Op<D,S,OP> takes  *)
(* a destination and one source, Inst_2Op<D,A,B,OP> a destination and two *)
(* sources; the entry's name is spelled the way the assembly mnemonics     *)
(* are (op, then the operand type letters).  Entries whose semantics are   *)
(* not modelled keep their name only.  The last entry is NULL (ret).       *)
Op1(op, d, s)    == [name |-> op \o d \o s, arity |-> 2, kind |-> "pointwise"]
Op2(op, d, a, b) == [name |-> op \o a \o b, arity |-> 3, kind |-> "pointwise"]
Other(n)         == [name |-> n, arity |-> 0, kind |-> "unmodelled"]
Arith(op) == << Op2(op, "s", "s", "s"), Op2(op, "v", "v", "s"),
                Op2(op, "v", "s", "v"), Op2(op, "v", "v", "v") >>

sInstructionTable ==
  << Op1("mov", "s", "s"), Op1("mov", "v", "s"), Op1("mov", "v", "v"),
     Op1("abs", "s", "s"), Op1("abs", "v", "s"), Op1("abs", "v", "v") >>
  \o Arith("add") \o Arith("sub") \o Arith("mul")
  \o << Op2("div", "s", "s", "s"), Op2("div", "v", "s", "v"),
        Op2("div", "v", "v", "s"), Op2("div", "v", "v", "v"),
        Other("movvs3"), Other("ld1"), Other("ld3"), Other("cmplt"),
        Other("noise1"), Other("noise1"), Other("noise1"),
        Other("noise3"), Other("noise3"), Other("noise3"),
        Other("getvcomp"), Other("getvcomp"), Other("getvcomp"),
        Other("setvcomp"), Other("setvcomp"), Other("setvcomp"),
        [name |-> "normalize", arity |-> 2, kind |-> "normalize"],
        [name |-> "faceforward", arity |-> 3, kind |-> "faceforward"],
        Other("diffuse"), Other("ambient"), Other("calculatenormal"),
        [name |-> "ret", arity |-> 0, kind |-> "null"] >>

OP_RET == Len(sInstructionTable) - 1

-----------------------------------------------------------------------------
(* Bind                                                                    *)

Loc(kind, key, varying) == [kind |-> kind, key |-> key, varying |-> varying]

NoSym == [name |-> "", type |-> "NONE", varying |-> FALSE]

(* SymbolList::LookupVariable: the variable of that name, or NULL.         *)
LookupVariable(list, name) ==
  IF \E r \in list : r.name = name THEN CHOOSE r \in list : r.name = name
  ELSE NoSym

(* Mutant: matchSymbols without the variability test.                     *)
MatchSymbolsNoVarying(a, b) ==
  /\ Asm!SameIgnoreCase(a.name, b.name)
  /\ a.type = b.type

(* matchSymbols: names equal ignoring case, same type, same variability;   *)
(* otherwise DASSTHROW.                                                    *)
MatchSymbols(a, b) ==
  /\ Asm!SameIgnoreCase(a.name, b.name)
  /\ a.type = b.type
  /\ a.varying = b.varying

(* The slot Bind builds for symbol i of shader sh against grid g, or ok =  *)
(* FALSE where it throws.  Borrowed slots point at the grid variable, the  *)
(* calling parameter or the symbol's own constant or default data; a       *)
(* temporary gets an owned clone of mMaxPointsN or 1 values.  A location *)
(* is named by its kind and the symbol's name (unique within a shader).  *)
BindSlot(sh, g, i) ==
  LET s      == sh.symbols[i + 1]
      inGrid == LookupVariable(g, s.name)
      inCall == LookupVariable(CallingParams, s.name)
      ok(l)  == [ok |-> TRUE, loc |-> l]
      fail   == [ok |-> FALSE, loc |-> Loc("none", s.name, FALSE)]
  IN CASE s.storage = "CONSTANT" -> ok(Loc("const", s.name, FALSE))
       [] s.storage = "GLOBAL" ->
            IF inGrid # NoSym /\ MatchSymbols(s, inGrid)
              THEN ok(Loc("grid", s.name, inGrid.varying)) ELSE fail
       [] s.storage = "PARAMETER" /\ inGrid # NoSym ->
            IF MatchSymbols(s, inGrid)
              THEN ok(Loc("grid", s.name, inGrid.varying)) ELSE fail
       [] s.storage = "PARAMETER" /\ s.varying -> fail
       [] s.storage = "PARAMETER" /\ inCall # NoSym ->
            IF MatchSymbols(s, inCall)
              THEN ok(Loc("param", s.name, FALSE)) ELSE fail
       [] s.storage = "PARAMETER" -> ok(Loc("default", s.name, FALSE))
       [] s.storage = "TEMPORARY" -> ok(Loc("clone", s.name, s.varying))

SymIdx(sh) == 0..(Len(sh.symbols) - 1)

(* The loop stops at the first symbol that throws.                         *)
Failing(sh, g) == {i \in SymIdx(sh) : ~BindSlot(sh, g, i).ok}

Reached(sh, g) ==
  IF Failing(sh, g) = {} THEN SymIdx(sh)
  ELSE {i \in SymIdx(sh) : \A j \in Failing(sh, g) : i < j}

(* Heap blocks of one Bind call: the DNEW'd segment and the clones of the  *)
(* temporaries the loop reached.                                           *)
Allocations(sh, g, r) ==
  {<<"seg", r, 0>>} \cup
  {<<"clone", r, i>> : i \in {j \in Reached(sh, g) :
                                sh.symbols[j + 1].storage = "TEMPORARY"}}

(* The value in block b of a location when the invocation starts: a grid  *)
(* variable's own data, a borrowed uniform's single value, an             *)
(* uninitialised clone, and unrelated data after a uniform's one slot.    *)
StartVal(l, b) ==
  CASE l.kind = "clone" /\ (l.varying \/ b = 0) -> <<"garbage">>
    [] l.varying -> <<l.key, b>>
    [] b = 0 -> <<l.kind, l.key>>
    [] OTHER -> <<"junk">>

(* Faceforward reads "Ng" straight from the grid's symbols.                *)
NgLoc(g) == Loc("grid", "Ng", LookupVariable(g, "Ng").varying)


HasNg(g) == LookupVariable(g, "Ng") # NoSym

Bind ==
  /\ phase = "idle"
  /\ runs < MaxRuns
  /\ \E sh \in Shaders, g \in Grids, m \in SUBSET Blocks :
       LET slots == [i \in SymIdx(sh) |-> BindSlot(sh, g, i).loc]
           locs  == {slots[i] : i \in SymIdx(sh)} \cup
                    (IF HasNg(g) THEN {NgLoc(g)} ELSE {})
       IN /\ live' = live \cup Allocations(sh, g, runs)
          /\ IF Failing(sh, g) = {}
               THEN /\ phase' = "bound"
                    /\ shader' = sh
                    /\ grid' = g
                    /\ seg' = slots
                    /\ mem' = [l \in locs |-> [b \in Blocks |-> StartVal(l, b)]]
                    /\ mask' = m
                    /\ pc' = 0
                    /\ pcIdx' = 0
               ELSE UNCHANGED <<phase, shader, grid, seg, mem, mask, pc, pcIdx>>
  /\ runs' = runs + 1
  /\ UNCHANGED dispatched

-----------------------------------------------------------------------------
(* Run                                                                     *)

Word(j)    == shader.code[j + 1]                 \* mCode[j]
Operand(k) == Word(pc + k)                        \* ctx.GetOp(k)
OpLoc(k)   == seg[Operand(k).idx]
Step(k)    == IF Operand(k).varying THEN 1 ELSE 0 \* GetSymbolVaryingStep(k)
Read(k, i) == mem[OpLoc(k)][i * Step(k)]

NgStep == IF NgLoc(grid).varying THEN 1 ELSE 0

(* The value a handler computes for block i (block 0 for a uniform        *)
(* destination, where every step is 0).                                     *)
Result(h, i) ==
  CASE h.kind = "normalize" -> <<"normalize", Read(2, i)>>
    [] h.kind = "faceforward" ->
         <<"faceforward", Read(2, i), Read(3, i), mem[NgLoc(grid)][i * NgStep]>>
    [] OTHER -> <<h.name>> \o [k \in 1..(h.arity - 1) |-> Read(k + 1, i)]

(* Mutant: the handler writes every block, active or not.                 *)
DispatchNoMask(h) ==
  LET lhs == OpLoc(1)
  IN [mem EXCEPT ![lhs] =
        [i \in Blocks |->
           IF Operand(1).varying \/ i = 0 THEN Result(h, i) ELSE mem[lhs][i]]]

(* A handler's store: a varying destination gets the result in every      *)
(* active block, a uniform one in its single slot when block 0 is active.  *)
(* Operands are read at the block being written, before it is written,    *)
(* so a destination that is also a source reads its old value.            *)
Dispatch(h) ==
  LET lhs == OpLoc(1)
  IN [mem EXCEPT ![lhs] =
        [i \in Blocks |->
           IF i \in mask /\ (Operand(1).varying \/ i = 0) THEN Result(h, i)
           ELSE mem[lhs][i]]]

(* One turn of Run's loop: fetch, call the handler at the word's table    *)
(* offset, which ends with ctx.NextInstruction().                         *)
RunStep ==
  LET w == Word(pc)
      h == sInstructionTable[w.off + 1]
  IN /\ phase = "bound"
     /\ pc < Len(shader.code)
     /\ w.off # OP_RET
     /\ h.kind \in {"pointwise", "normalize", "faceforward"}
     /\ h.kind = "faceforward" => HasNg(grid)
     /\ mem' = Dispatch(h)
     /\ pc' = pc + 1 + w.cnt
     /\ dispatched' = Append(dispatched, w.off)
     /\ UNCHANGED <<phase, shader, grid, seg, mask, pcIdx, live, runs>>

(* Mutant: the outermost-frame test is missing, so OP_RET always pops.     *)
RunRetAlwaysPop ==
  /\ phase = "bound"
  /\ pc < Len(shader.code)
  /\ Word(pc).off = OP_RET
  /\ pcIdx' = pcIdx - 1
  /\ UNCHANGED <<phase, shader, grid, seg, mem, mask, pc, live, runs, dispatched>>

(* OP_RET in the outermost frame returns.  No opcode pushes a frame, so   *)
(* mProgramCounterIdx stays 0 and the decrement branch is never taken.    *)
RunRet ==
  /\ phase = "bound"
  /\ pc < Len(shader.code)
  /\ Word(pc).off = OP_RET
  /\ pcIdx = 0
  /\ phase' = "ran"
  /\ UNCHANGED <<shader, grid, seg, mem, mask, pc, pcIdx, live, runs, dispatched>>

(* The program counter has run off the end of mCode: return.              *)
RunHalt ==
  /\ phase = "bound"
  /\ pc >= Len(shader.code)
  /\ phase' = "ran"
  /\ UNCHANGED <<shader, grid, seg, mem, mask, pc, pcIdx, live, runs, dispatched>>

(* Unbind: delete the segment array; the loop that freed owned clones is  *)
(* commented out.                                                          *)
Unbind ==
  /\ phase = "ran"
  /\ phase' = "idle"
  /\ live' = live \ {<<"seg", runs - 1, 0>>}
  /\ seg' = <<>>
  /\ UNCHANGED <<shader, grid, mem, mask, pc, pcIdx, runs, dispatched>>

NoShader == [symbols |-> <<>>, code |-> <<>>]

Init ==
  /\ phase = "idle"
  /\ shader = NoShader
  /\ grid = {}
  /\ seg = <<>>
  /\ mem = <<>>
  /\ mask = {}
  /\ pc = 0
  /\ pcIdx = 0
  /\ live = {}
  /\ runs = 0
  /\ dispatched = <<>>

Next == Bind \/ RunStep \/ RunRet \/ RunHalt \/ Unbind

(* Run is a loop on the shading thread that exits only by returning.      *)
Spec == Init /\ [][Next]_vars

-----------------------------------------------------------------------------
(* Properties                                                              *)

LocRec == [kind: {"const", "grid", "param", "default", "clone"},
           key: STRING, varying: BOOLEAN]

TypeOK ==
  /\ phase \in {"idle", "bound", "ran"}
  /\ shader \in Shaders \cup {NoShader}
  /\ grid \in Grids \cup {{}}
  /\ phase # "idle" => seg \in [SymIdx(shader) -> LocRec]
  /\ mask \subseteq Blocks
  /\ pc \in 0..Len(shader.code)
  /\ pcIdx = 0
  /\ runs \in 0..MaxRuns
  /\ dispatched \in Seq(0..OP_RET)

(* The per-point reference: run the program for point p alone, every      *)
(* operand naming the value at p (a uniform's single value), the          *)
(* destination written only when p is active.                              *)
RECURSIVE RefFrom(_, _, _)
RefFrom(p, j, env) ==
  IF j >= Len(shader.code) \/ Word(j).off = OP_RET THEN env
  ELSE LET h      == sInstructionTable[Word(j).off + 1]
           loc(k) == seg[Word(j + k).idx]
           arg(k) == env[loc(k)]
           val    == CASE h.kind = "normalize" -> <<"normalize", arg(2)>>
                       [] h.kind = "faceforward" ->
                            <<"faceforward", arg(2), arg(3), env[NgLoc(grid)]>>
                       [] OTHER -> <<h.name>> \o [k \in 1..(h.arity - 1) |-> arg(k + 1)]
       IN RefFrom(p, j + 1 + Word(j).cnt,
                  IF p \in mask THEN [env EXCEPT ![loc(1)] = val] ELSE env)

RefStart(p) == [l \in DOMAIN mem |-> StartVal(l, IF l.varying THEN p ELSE 0)]

(* spec.md section 4.7: execution is block-wise, but the effective unit  *)
(* of work is a point: each handler writes only active points, a uniform  *)
(* operand gives every point its single value and a varying one advances  *)
(* one slot per point.  When Run returns, every varying location holds,   *)
(* at each point, what running the program for that point alone gives.    *)
PointwiseAgreement ==
  phase = "ran" =>
    \A p \in Blocks :
      LET ref == RefFrom(p, 0, RefStart(p))
      IN \A l \in DOMAIN mem : l.varying => mem[l][p] = ref[l]

(* The handlers step each operand by the variability cached in its        *)
(* operand word at parse time, and Bind chose its storage from the grid,   *)
(* the calling parameters or a fresh clone: while Run loops, every operand *)
(* word's cached variability is that of the storage its slot points at.    *)
StepMatchesStorage ==
  phase = "bound" =>
    \A j \in 0..(Len(shader.code) - 1) :
      Word(j).kind = "sym" => Word(j).varying = seg[Word(j).idx].varying

(* spec.md sections 3 and 4.6: owned slots are allocated at bind time and *)
(* freed at unbind time.  Between invocations nothing Bind allocated is   *)
(* still live.                                                            *)
NoLeak == phase = "idle" => live = {}

(* parseCodeLine stores the gsOpCodeDefs offset of the mnemonic as the    *)
(* table offset, and Run calls sInstructionTable at that offset: every     *)
(* handler dispatched is the one the assembled mnemonic names.            *)
MnemonicDispatch ==
  \A k \in 1..Len(dispatched) :
    dispatched[k] < Len(Asm!OpCodeDefs) =>
      sInstructionTable[dispatched[k] + 1].name = Asm!OpCodeDefs[dispatched[k] + 1].name

=============================================================================
