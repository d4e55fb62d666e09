# TLA+ models of RibTools

This directory holds TLA+ specifications of the parts of RibTools whose
correctness depends on control rather than on floating point: the threaded
network packet manager, the shader assembler, the shader VM's binding and
interpreter loop, the bucket-distribution client, the RSL compiler's tokenizer,
the loading of a shader from RSL through the compiler to the assembler, and
the bounds the REYES hider computes for the quadric primitives. Every module
is written from the C++ under `src/`; `PROJECT.json` maps each definition to
the lines it translates, lists the runs, the mutants that show each property
can fail, the findings and the hazards.

## 1. Inventory of the system

| Part | Source | State | Operations | Interacts with |
|---|---|---|---|---|
| Packet manager | `DSystem/src/DNetwork_PacketManager.cpp` | in-queue (locked), send queue, receive-out queue (locked), worker locals `curSendPackDataSize`, `curRecvPackDoneHeadSize`, `curRecvPackDataSize`, `curRecvPackDoneDataSize`, `recvBuff`; flags `mQuitRequest`, `mQuitAck`, `mFatalError` | `Send`, `GetNextPacket`, `WaitNextPacket`, destructor; worker `threadMain` with `niceSend`/`niceRecv` | a TCP socket; the render bucket client and the render servers |
| Shader assembler | `RI_System/src/RI_SlShaderAsmParser.cpp` | shader type, current section, symbol table `mSymbols`, instruction array `mCode` | `doParse`, `parseDataLine`, `getVector`, `parseCodeLine`, `findOpDef`, `findSymbol`, `findOrAddTempSymbol` | reads the compiler's `.rrasm` output; writes the program the VM runs |
| Shader VM and binding | `RI_System/src/RI_SlShader.cpp` | program-counter stack, active mask, data segment of value slots | `compileSLToAsm`, `compileFromMemFile`, `Bind`, `Unbind`, `Run` and the `sInstructionTable` handlers | assembler's code array (table offsets), the micropolygon grid |
| Render bucket client | `RibRenderLib/src/RibRenderLib_Net_RenderBucketsClient.cpp` | per server: connected, busy; bucket ranges | `Render`, `dispatchToServer`, `findFreeServer`, `checkServersData`, `isAnyServerAvailable` | one packet manager per server |
| RSL tokenizer | `RSLCompilerLib/src/RSLC_Token.cpp` | token list, cursor | `Tokenizer`, `matchTokenDef`, `matches`, `handleComment`, `handleNumber`, `initSortedTable` | feeds the compiler's tree builder |
| RSL code emitter | `RSLCompilerLib/src/RSLC_Functions.cpp` | the emitted text | `discoverFuncsDeclarations`, `discoverFuncsUsage`, `buildExpression`, `getOper`, `WriteFunctions` | its output is parsed by the shader assembler |
| RSL compiler driver | `RSLCompilerLib/src/RSLCompiler.cpp` | token list, tree | constructor pipeline, `SaveASM` | the shader loader (`compileSLToAsm`) |
| Hider destination buffer | `RI_System/include/RI_HiderREYES.h` | width, height, sample array | `SetSample` | the renderer |
| Quadric primitives | `RI_System/src/RI_Primitive_Quadric.cpp` | per primitive: its parameters, `mURange`, `mVRange` | `EvalP`, `MakeBound`, `polar`, `bounds2DSweepL/R/P` | the hider (bounding, splitting, dicing into a micropolygon grid) |
| Vector math, GL output, file manager, grid, assertion macros | other files | floating point, GL handles | evaluation, drawing | - |

Behaviours that make this code hard, and that the models aim at:

* **Two threads and a socket.** The application thread and the packet
  manager's worker share queues (under critical sections) and three plain
  boolean flags. The socket accepts and delivers arbitrary byte counts per
  call, may report `EWOULDBLOCK` or a hard error, and the peer may close.
* **Byte-stream framing.** Every packet is a 4-byte length header plus the
  body, and either may arrive in pieces.
* **A parser whose output is trusted blindly.** The VM steps through `mCode`
  using the operand count of each opcode word and the variability cached in
  each operand word, so the parser must leave a self-describing array.
* **Two tables that must agree.** The parser's `gsOpCodeDefs` and the VM's
  `sInstructionTable` are both indexed by the same table offset.
* **A pipeline whose stages must agree.** Loading an `.sl` shader runs the
  tokenizer, the compiler's tree passes and `SaveASM`, swallows any
  exception, and then hands whatever autogen file exists to the assembler.
* **A bound that must hold a surface.** The hider culls and buckets a
  primitive by the box `MakeBound` gives, splits it into pieces with
  sub-ranges, and dices each piece with `EvalP`; the box is written with
  trigonometric special cases (axis crossings, the equator) and must hold
  every point `EvalP` gives, for pieces as well as whole primitives.
* **A distributed render.** Bucket ranges go to servers that can disconnect
  or reply with something unexpected, and `Render` waits for all of them.

Correctness properties the code is meant to have: packets are delivered
whole, in order and exactly once while the connection lives; the destructor
returns; the assembler accepts exactly well-formed programs (spec.md sections
4.5 and 8) and produces a decodable instruction array; the VM executes the
operation each mnemonic names; every bucket is rendered once; a primitive's
bound holds its surface.

## 2. Plan

Modules, most important first. Done: 1 to 7 and 9.

1. **PacketManager** (done) - both threads and the peer; safety of the send
   and receive framing, termination of the quit handshake, delivery.
2. **ShaderAsm** (done) - the assembler line by line; well-formedness of
   `mCode`. Two departures from spec.md (duplicate names and extra operands
   are accepted) were seen with the model and are listed as hazards; they
   have no run of their own, since the compiler's emitter produces neither.
3. **ShaderVM** (done) - `Run` over an assembled program: fetch, the `OP_RET`
   test, dispatch through `sInstructionTable`, the masked and
   varying-stepped write of a handler (`Inst_Normalize`, `Inst_Faceforward`), and `Bind`/`Unbind`
   ownership. It instantiates ShaderAsm's operators to turn mnemonics into
   table offsets. A violation run is expected: the offsets of `gsOpCodeDefs`
   do not select the handler the mnemonic names.
4. **BucketsClient** (done) - `Render`, `dispatchToServer`, `checkServersData` over
   2 servers and 2-3 bucket ranges, with servers that disconnect or send a
   stray packet; abstractly each server channel is the delivery promised by
   PacketManager. Properties: every range rendered once (safety) and
   `Render` returns (liveness under weak fairness of the servers).
5. **RSLCToken** (done) - `Tokenizer`'s loop over sources rendered from
   valid tokens, checked against spec.md section 8's round trip.
6. **ShaderBuild** (done) - the `SlShader` constructor: `compileSLToAsm`
   (builtins, Tokenizer, tree, `DiscoverFunctions`, later passes, `SaveASM`)
   and the assembly of the autogen file, composing RSLCToken and ShaderAsm
   by `INSTANCE`. It took over the old `tk_lex` and `asm_parse` runs, whose
   properties its pass run still checks.
7. **CodeGen** (done, inside ShaderBuild) - `buildExpression`, `getOper`
   and `WriteFunctions` are the text `SaveASM` writes. The `$t0` clobbering
   was not given an evaluator comparison: no emitted file reaches the VM.
8. **DestBuffer** - dropped: `SetSample` is one bounds test and one index
   expression, without state or call order to explore; its defect is listed
   as a hazard.
9. **Quadrics** (done) - `EvalP` and `MakeBound` of the six quadrics in exact
   arithmetic, with the hider's bounding, splitting and dicing of one
   primitive as actions; the bound must hold every diced point.

The project keeps to twelve runs. `quad_bound` and `quad_split` replaced
`tk_roundtrip` and `vm_leak`; their configurations are kept (section 4,
"Further configurations").

## 3. Modules

### PacketManager (`PacketManager.tla`, `MC_PacketManager.tla`)

State: `inQueue`, `sendQueue` (framed packets, as byte sequences),
`curSendPackDataSize`, the receive counters and `recvBuff` exactly as the
worker's locals, `curRecvPackDataSize` as its 4 bytes, `recvOutQueue`, the
three flags, `wpc` (the worker's position in its loop: `top`, `send`,
`recvHead`, `recvBody`, `done`), `apc` (the application: `run`, `quitting`,
`destroyed`). The environment holds `wireIn` (bytes the socket has for
recv), `peerPos`, `peerClosed`, `wireOut` (bytes sent), `outFlight` (bytes in
the socket's send buffer, at most `SndBuf`). History variables `sentN` and
`appGot` record what the application sent and received.

Actions: application `Send`, `GetNextPacket` (`WaitNextPacket` is a loop of
it), `DestroyBegin`/`DestroyEnd`; worker `ThreadQuit`, `ThreadSelect`
(including `FlushInQueue`), `ThreadSelectFail`, `ThreadSendBytes`,
`ThreadSendWouldBlock`, `ThreadSendError`, `ThreadSendDone`,
`ThreadRecvHead`, `ThreadRecvHeadNone`, `ThreadRecvHeadError`,
`ThreadRecvBody`, `ThreadRecvBodyNone`, `ThreadRecvBodyError`,
`ThreadSkipBody`; peer `PeerArrive`, `PeerDrain`, `PeerClose`. The zombie
branch of the loop changes nothing and is a stutter. `SockErrors`,
`PeerMayClose` and `NetSplitsHeader` switch the socket's failure modes on
and off per run.

Fairness: weak fairness of the worker (it is a thread that loops forever,
re-scheduled by `ResumeThread`/`SwitchToThread` in the destructor), of
`DestroyEnd` (the destructor spins on `mQuitAck`), and of the peer's
`PeerArrive`/`PeerDrain` (a live peer eventually sends and reads). The
application's `Send` and `GetNextPacket` are not fair: the application may
stop calling them.

### ShaderAsm (`ShaderAsm.tla`, checked through `MC_ShaderBuild.tla`)

State: `mType`, `curSection`, `lineCnt`, `symbols` (records of name,
storage, variability, type, default present), `code` (opcode words with
table offset, operand count and destination type; operand words with symbol
index and cached variability), `status` (`ok` or `failed` once `onError`
throws) and the history `codeLines`. Each step reads one non-empty line from
the constant alphabet `Lines` (token sequences): `TypeLine`, `SectionLine`,
`DataLine`, `CodeLine`. Case-insensitive compares are modelled by folding
characters, so `ADDSS` and `$S1` behave as in the code. `sscanf("%f")` is
abstracted to "the token is in `NumTokens`". No fairness: a source file may
end after any line.

### ShaderVM (`ShaderVM.tla`, `MC_ShaderVM.tla`)

State: `phase` (`idle`, `bound` after `Bind`, `ran` after `Run`
returns), the bound `shader` (symbols and `mCode` in ShaderAsm's format) and
`grid` (the grid's symbol list), `seg` (the data segment: for each symbol the
location its slot points at, with that storage's variability), `mem` (the
values at each location per block), `mask` (the active processors), `pc` and
`pcIdx` (the program-counter stack), `live` (owned allocations not yet freed:
the segment array and the clones of temporaries), `runs`, and the history
`dispatched` (table offsets `Run` called).

Actions: `Bind` (the whole loop over symbols, for one of the grids and an
active mask; a `DASSTHROW` part-way leaves the segment and earlier clones in
`live` and the instance idle), `RunStep` (one iteration of `Run`'s loop that
calls a handler: `Dispatch` writes the destination at every active block if
the destination is varying, at block 0 otherwise, reading each operand at
`i * step`, where step is the variability cached in the operand word),
`RunRet`, `RunHalt`, `Unbind` (frees the segment array only, as the code
does). Values are symbolic terms (`<<"normalize", x>>`), so the model checks
where data goes, not floating point. `sInstructionTable` is transcribed
entry by entry; ShaderAsm is instantiated to get `gsOpCodeDefs` and
`findOpDef`, so the dispatch run uses the assembler's own offsets.

No fairness: the properties are invariants. A handler the model cannot
execute (faceforward on a grid without `Ng`, where the code dereferences
NULL) disables `RunStep`; the modelled grids all declare `Ng`.
`Inst_CalculateNormal` is left out: a
block's normal depends on the neighbouring row of the grid, which the
per-point reference cannot express, and the grid's row count comes from
`MicroPolygonGrid::Setup`, which is not in the repository.

### BucketsClient (`BucketsClient.tla`, `MC_BucketsClient.tla`)

State: `pc` (where `Render` is: `dispatch` - trying `dispatchToServer`
for the current range, `check` - the `checkServersData` after it,
`sendDone`, `final` - the closing wait loop, `returned`, `aborted` - the
"No servers available" return), `buckRangeX1`, per server `connected`
(`IsConnected()`) and `mIsBusy`, the channels `toSrv` and `fromSrv`, and the
histories `sent` and `completed` (ranges whose bucket data the client
consumed). Each packet manager is abstracted to a FIFO channel per direction
that is reliable while connected - the guarantee PacketManager's
`Delivery` run shows it does not fully give; that failure, like a closed
socket, surfaces to the client as `IsConnected()` turning false, which
`Disconnect` models.

Actions: `DispatchToServer` (`findFreeServer` picks the lowest-index free
server), `NoServersAvailable`, `CheckAfterRange`, `SendRendDone`,
`FinalCheck`; `checkServersData` is the operator `CheckServersData` used by
both checking steps. When `dispatchToServer` fails with a server still
connected, `Render` sleeps and retries: a step that changes nothing, so it
is stuttering. The servers' code is not in the repository: `SrvRender`
answers a range with its bucket data, `SrvRendDone` consumes the end
message, `SrvStray` sends some other packet (at most `MaxStray`).

Fairness: weak fairness of `Render` (one thread running a loop) and of each
connected server's `SrvRender`/`SrvRendDone` (a live server answers).
`Disconnect` and `SrvStray` are unfair.

### RSLCToken (`RSLCToken.tla`, `MC_Tokens.tla`, `MC_RSLCToken.tla`)

State: the source `src` (a sequence of one-character strings), the loop
index `i`, `tokens` (lexeme, class, preceded-by-whitespace and bad-number
flags; the last one is `tokens.back()`), `isInString`, `isInComment`,
`wasPrecededByWS`, and `given`, the valid tokens the source was rendered
from (single spaces between them, a newline at the end, an optional block
comment in front). `isEscape` is a constant `FALSE`: the code never sets it.
`_sTokenDefs` is transcribed entry by entry; `initSortedTable` sorts it by
descending length, and since `qsort` is not stable the constant
`TieOrder` picks the order of equal lengths (table order in the runs).

Actions, one per branch of the loop in the order the code tries them:
`InComment`, `OpenComment` (`handleComment`), `HandleNumber` (the whole
scan, `NumLoop`), `Quote`, `SkipWhite` (`findSkipWhites`), `MatchTokenDef`
(the first match among the sorted entries from slot 1, as the code's loop
does), `AppendChar`. `matches` is translated with its end-of-input rule.
`Start(g, c)` is the state on entry for a given text; `MC_Tokens` holds the
token alphabets and comments shared with ShaderBuild.

### ShaderBuild (`ShaderBuild.tla`, `MC_ShaderBuild.tla`)

Composes `Tok == INSTANCE RSLCToken` and `Asm == INSTANCE ShaderAsm` over
its own copies of their variables, and adds `stage` (where the constructor
is), `isSL`, `tree` (`mpRoot`'s children: records of lexeme, `TokNode`
type and children), `funcs`, `compileOk` (no exception escaped the
compiler), `autogen` (the lines of the autogen file, or `NoFile`) and
`readPos`. Actions in constructor order: `GrabBuiltins` (or its
"Failed to open" throw), `Lex` (one Tokenizer step), `BuildTree`
(`MakeTree`), `DiscoverFunctions` (the size_t `i-2..i-4` test that throws
"Broken function definition", the `TYPE_FUNCDEF` mark, then the recursive
usage walk `UsageKids` with the bracket reparenting and the index
back-step), `LaterPasses` (closers and semicolons removed, operators
reparented by spec.md 4.2's precedence, unknown names fatal),
`SaveASM` (fopen may fail and leave the old file; otherwise `.data`,
`.code`, then per function `function <name>`, the `buildExpression` lines
and `ret`), `Load` (a missing file throws), `ParseAutogenLine` /
`ParseSourceLine` (ShaderAsm's line actions on the next autogen line, or on
any line of an assembly source), `EndOfFile`, `ParseFailed`. Every exception
of the compiler goes to `Load`, since `compileSLToAsm` catches it and
returns the file name anyway.

`RSLC_Tree.cpp`, `RSLC_Variables.cpp` and the builtins file are not in the
repository: `MakeTree`, the later passes and the built-in variable table
follow spec.md 4.2/4.3 (marked `spec_modelled` in the map), and the builtins
are a text before the source (a comment or nothing). `WriteVariables`,
`ResolveFunctionCalls`, `RealizeConstants`, `AssignRegisters` are left out.
Operands are written by their token text. `Spec` carries weak fairness of `Next`
(the constructor runs its steps one after another), but the runs check
safety only: a termination property made the run too slow to keep.

### Quadrics (`Quadrics.tla`, `MC_Quadrics.tla`)

Numbers are exact integers: a length or a parameter counts 1/64, an angle
1/64 of a quarter turn. `Mul` and `Div` stop TLC if a result would need
rounding, and `Cos`, `Sin`, `Asin`, `Atan2` and `Sqrt` are defined only where
`cosf`, `sinf`, `asinf`, `atan2f` and `sqrtf` are exact: whole quarter turns,
points on an axis, perfect squares. So the model checks the bounds at the
angles and radii where their special cases act (the axis points, the
equator, the loops' ends), never a rounded value.

One operator per method: `CylinderEvalP` ... `TorusEvalP` (with `EvalP`
choosing the override by `kind`) and `CylinderMakeBound` ...
`TorusMakeBound` (`MakeBoundOf`), over `polar`, `bounds2DSweepL`,
`bounds2DSweepR` and `bounds2DSweepP`. `Bound::Reset` and `Bound::Expand`
(not in the repository) are the empty box and the smallest box holding it
and a set of points. `HyperboloidEnds` is the code's
`EvalP( 0, mVRange[i] )`, with `EvalP`'s own mapping of its arguments.

State: `prim` (the primitive or a piece split off it), `bound` and `pt` (the
last point diced). Actions: `MakeBound`; `Split`, which replaces the
primitive by one half of its u or v range (the hider's `InsertSplitted`; its
code is not in the repository) while the range is wider than `MinWidth` and
the piece's bound is exact; `Dice`, `EvalP` at a grid point in steps of
1/`GridSteps` where it is exact. A behaviour follows one piece down the
split tree, and the behaviours together follow all of them.

## 4. Runs

| Run | Checks | Bounds | Result |
|---|---|---|---|
| `pm_safety` | `TypeOK`, `SendConservation`, `RecvFraming`, `QuitAcknowledged` | app sends 2 packets (1 and 2 bytes), peer sends 2 packets (2 and 1 bytes), send buffer 3 bytes, errors and close on, headers arrive whole | passes, 21k states |
| `pm_header_split` | `RecvFraming` | headers may be split, no errors | violated: a header received as 1 + 3 bytes is stored at offset 0 twice and an empty packet is delivered |
| `pm_delivery` | `Delivery` | no errors, no close, no header split | violated: a full send buffer is treated as fatal and the worker stops receiving |
| `build_parse` | `TypeOK`, `CodeWellFormed`, `CallsOwnArguments` | assembly sources: every program of up to 7 lines over 15 lines; RSL sources: 1-2 tokens from 15 (operators that prefix each other, `/`, a keyword, `normal` and `normalize`, names, four number forms, a string), and three programs (`surface f ( ) { Ci = normalize ( N ) ; }`, `float g ( ) { Ci = Cs * Os ; }`, `{ Ci = N ; }`), each after an empty or comment builtins text, with a missing or earlier autogen file | passes, 21.5k states |
| `build_load` | `CompiledShaderLoads` | the three programs only | violated: `float g ( ) { Ci = Cs * Os ; }` compiles, `SaveASM` writes `.data` first, the assembler throws "Shader type undefined !" |
| `bc_render` | `TypeOK`, `BusyMatchesOutstanding`, `FaultFreeRendered`, `RenderTerminates` | 3 servers, 10 buckets (ranges 0-4, 4-8, 8-10), disconnections, 1 stray packet | passes, 10.9k states |
| `bc_early_return` | `EveryBucketRendered` | 2 servers, disconnections | violated: server 2 disconnects while rendering range 4-8 and `Render` returns without it |
| `bc_livelock` | `RenderTerminates` | 2 servers, 12 buckets (3 ranges), no faults possible | violated: both servers have answered, both are still marked busy, `Render` retries forever |
| `vm_exec` | `TypeOK`, `PointwiseAgreement`, `StepMatchesStorage` | 2 shaders (a surface using normalize, faceforward, a varying temporary, a parameter, a constant; a displacement), 3 grids, 2 blocks with every mask, 2 invocations | passes, 403 states |
| `vm_dispatch` | `MnemonicDispatch` | the program `movss $s1 a; addss $s1 $s1 b` assembled by ShaderAsm's `findOpDef` | violated: `addss` (offset 3) runs `sInstructionTable[3]`, an ABS handler |
| `quad_bound` | `BoundContainsSurface` | 10 primitives: cylinders over 360 and 180 degrees, a cone, a whole sphere and a 270-degree upper half, hyperboloids from (1,0,-1) to (1,0,1) and from (1,0,0) to (-2,0,1), a paraboloid with zmin = 0, tori with cross-sections 0..360 and -180..180; split by halves down to a quarter of a range (hyperboloids not split); 9x9 grid | passes, 6.9k states |
| `quad_split` | `BoundContainsSurface` | as `quad_bound`, hyperboloids split too | violated: the hyperboloid from (1,0,-1) to (1,0,1), split to v in [0, 1/2], is bounded up to z = -1/2 and diced at z = -3/8 |

Further configurations, kept beside the runs: `RSLCToken_RoundTrip.cfg`
(`MC_RSLCToken`) makes TLC report that the string `"a b"` comes back as the
two tokens `"a` and `b"` (RSLC_Token.cpp line 467: inside a string the loop
still splits at whitespace and lexemes), and `ShaderVM_Leak.cfg`
(`MC_ShaderVM`) that `NoLeak` fails: the clone of `$v1` is still allocated
after `Unbind`.

Why the bounds are enough: two packets of different lengths in each
direction give a partial send (3-byte buffer against 5- and 6-byte frames),
a packet boundary inside a recv, and a second packet after the counters are
reset. A quit may come at any point of the worker loop. For the assembler,
the 15 lines hold each kind of declaration error, a case-folded opcode and
temporary, a temporary re-used under another case, a `STRING` destination,
an unknown sigil, a missing operand and an extra operand. Seven lines are
enough for type, two sections, two declarations and two instructions. For
the bucket client, ten buckets make a short last range; three ranges with
three servers never need a server twice, and with two servers they do,
which is what the dispatch loop gets wrong. For the compiler, the three
programs give a declaration at child index 4 with a call inside (the
usage walk must convert `normalize` and not the declared `f`), one with an
operator sub-expression, and a block without a header (the throw); the
one- and two-token sources reach the later passes with unknown names. For the lexer, the tokens are
chosen so that each branch of the loop and each step of `handleNumber`
runs, and so that longest match is needed (`<` and `<=`, `normal` and
`normalize`); two tokens give a token after whitespace. For
the VM, two blocks are the least that tell a uniform operand (step 0) from a
varying one (step 1) and an active block from an inactive one; the grids
cover Ng varying and uniform and a parameter found in the grid with a
variability other than the shader declares (rejected by `matchSymbols`) as
well as one found in the calling parameters. Two invocations show that a
failed `Bind` leaves the instance reusable. For the quadrics, every kind
appears with the special case its bound code has: sweeps over all four
quadrants and over half and three quarters of a turn (each axis point of
`bounds2DSweepL` inside or on the end of a range), a sphere range across the
equator, torus cross-sections through every axis angle of
`bounds2DSweepR`'s loop, and a hyperboloid end circle on the negative x
axis, whose `atan2f` of pi takes `bounds2DSweepP`'s sweep to 5pi/2. Halving
a range twice makes pieces that start and end on axes; the 9x9 grid puts a
diced point on every axis crossing the pieces have, and points strictly
inside every piece a quarter of a range wide.

Properties:

* `SendConservation` - the bytes written to the socket, followed by what is
  still queued after the current send offset, are exactly the frames of the
  packets `Send` was given, in order.
* `RecvFraming` - the packets handed to the application, followed by those
  still queued, are a prefix of the packets the peer sent.
* `QuitAcknowledged` - once the destructor starts, it returns.
* `Delivery` - once the peer's whole stream has arrived, all its packets
  are eventually queued for the application, unless a quit was requested.
* `CodeWellFormed` - an accepted program's `mCode` decodes as the VM reads
  it: opcode word, then as many operand words as its table entry declares,
  each naming an existing symbol with the correct cached variability, and
  the opcode's destination type is the first operand's.
* `RoundTrip` (in `RSLCToken_RoundTrip.cfg` only) - spec.md section 8:
  valid tokens written with single spaces are lexed back into the same
  lexemes and classes. It fails for a string holding a space; `build_parse`
  does not check it, and its token set leaves out the tokens known not to
  come back (`calculatenormal`, `texture`, `environment`, `shadow`).
* `CallsOwnArguments` - after `DiscoverFunctions`, the tree holds the
  source's lexemes in order, each once; every declared function is a
  `TYPE_FUNCDEF` node still followed by its parameter bracket; no name or
  standard function left `TYPE_STANDARD` is followed by `(`; every
  `TYPE_FUNCCALL` node ends with the bracket it took.
* `CompiledShaderLoads` - a shader whose RSL compiled and was saved without
  an exception is built from the autogen file (spec.md 4.5).
* `BusyMatchesOutstanding` - a connected server is marked busy exactly
  when it owes the client one range, and never owes two.
* `EveryBucketRendered` - when `Render` returns normally, the bucket data
  of every bucket has been received (its comment: "wait for all servers to
  complete").
* `FaultFreeRendered` - the same, in behaviours with no disconnection and no stray packet so far.
* `RenderTerminates` - `Render` returns, in every behaviour where the servers stay connected and send no stray packet.
* `PointwiseAgreement` - after `Run`, every varying location holds at each
  active block what running the program for that point alone gives, and at
  inactive blocks what it held before (spec.md section 4.7).
* `StepMatchesStorage` - while bound, the variability cached in every
  operand word equals that of the storage `Bind` gave the symbol, so the
  handlers' stepping reads the right element.
* `NoLeak` (in `ShaderVM_Leak.cfg` only) - when the instance is idle
  again, nothing it allocated is still allocated (spec.md sections 3 and
  4.6).
* `MnemonicDispatch` - every offset `Run` dispatches runs the handler whose
  `sInstructionTable` entry has the mnemonic that `gsOpCodeDefs` gives that
  offset.
* `BoundContainsSurface` - once a primitive or piece is bounded and diced,
  the diced point lies in the bound: the hider culls and buckets by the
  box, so a point outside it would be missed by the buckets it falls in.

Each property of a passing run has a mutant in `PROJECT.json`: a plausible
bug in the modelled code (a missing reset, a send that assumes it wrote
everything, a missing clear, the quit test after the zombie test, a dropped write-back, a `ret` that always pops the frame
stack, a handler that ignores the mask, `matchSymbols` without the
variability test, a range not clamped to the bucket count, a dispatch that
does not mark the server busy, `allDone` left true or computed over idle
servers, a `newToken` that does not check for an empty token, usage discovery without the `TYPE_STANDARD` test, a sphere bound without the equator test) that TLC shows
violates it.

## 5. Not modelled

* Floating-point code: `DVector.h` and the arithmetic of the shader
  handlers; values are abstracted to what a property tells apart. The
  vector templates have no callers in the repository other than the VM
  handlers (symbolic in ShaderVM) and the quadrics (which compute
  component by component). Their `operator !=` for `Vec3` and `Vec4` is the
  conjunction of the component inequalities, unlike `CmpMaskNE`; nothing in
  the repository calls it.
* `Inst_CalculateNormal` (see ShaderVM above); it writes every block
  whatever the mask and, for a one-row grid, copies row 0 from past the
  grid; listed as a hazard. The
  quadrics are modelled only where their trigonometry is exact.
* `Paraboloid::EvalP` leaves `mZmin` out of its height (line 114); with
  zmin > 0 `BoundContainsSurface` fails at the first grid point. The runs
  give the paraboloid zmin = 0, so that `quad_split` reports the hyperboloid;
  the defect is listed as a hazard.
* `DestBuffer` (`RI_HiderREYES.h`): one bounds test and one index
  expression; its `x + y*mHe` index is listed as a hazard. The hider's
  `Insert`, `InsertSplitted` and `Hide` bodies are not in the repository.
* OpenGL output (`DU_RenderOutput.cpp`): pure I/O.
* `stripComments` and whitespace stripping in the assembler: lines are
  token sequences.
* `SendList::FlushInQueue` is declared in a header outside `src/`; its model
  (append the in-queue to the send queue and clear it) follows its name and
  its use.
* `WriteVariables`, `ResolveFunctionCalls`, `RealizeConstants`,
  `AssignRegisters`, `CollectUsedStdVars`: their code is not in the
  repository and spec.md describes them too loosely to model.
* Memory barriers: the shared flags are modelled as sequentially consistent.
