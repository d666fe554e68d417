----------------------------- MODULE Interpreter -----------------------------
(***************************************************************************)
(* core/vm/interpreter.go: Run, with the frames it is called for while an  *)
(* operation of an outer frame executes (EVM.create), the gas of their     *)
(* contracts, their stacks and memories, the tracer, and the register pool *)
(* that every instruction of every frame is appended to.                   *)
(*                                                                         *)
(* The repository has no jump table: what an operation does is taken from  *)
(* any table that keeps its own promises.  An operation takes its minStack *)
(* items and pushes, moves the program counter, runs an inner frame once,  *)
(* or ends the frame; one that cost nothing can only end it.  A tracer     *)
(* with all its hooks is installed; IsEIP4762 is FALSE.                    *)
(***************************************************************************)
EXTENDS RegPool, MemoryRules, CreateRules

CONSTANTS
  Operations,          \* entries of the jump table
  Gases,               \* gas a frame is started with
  DynamicCosts,        \* results of dynamicGas
  Offsets, Lengths,    \* operands of memorySize
  CallCreateDepth,     \* params.CallCreateDepth
  StackLimit,          \* params.StackLimit
  KeepsOperation       \* whether newReg stores it: {FALSE} in the source

(* maxStack is the stack limit less what the operation adds.               *)
ASSUME InterpreterAssumption ==
  /\ Operations \subseteq [minStack : MinStacks, pushes : Nat, maxStack : Nat,
                           constantGas : 0..MaxU64, dynamic : BOOLEAN]
  /\ \A o \in Operations : o.maxStack = StackLimit + o.minStack - o.pushes
  /\ Gases \subseteq 0..MaxU64
  /\ DynamicCosts \subseteq Nat /\ Offsets \subseteq Nat /\ Lengths \subseteq Nat
  /\ {CallCreateDepth, StackLimit} \subseteq Nat
  /\ 1..(CallCreateDepth + 1) \subseteq Depths
  /\ 0 \in PCs /\ 0 \in CodeSizes
  /\ KeepsOperation \subseteq BOOLEAN

VARIABLES
  depth,      \* evm.depth
  readOnly,   \* in.readOnly
  frames,     \* the active calls of Run, the innermost last
  result,     \* what create left to the host: the gas, the error, any code
  tracer      \* what the hooks were told: opcodes with their cost, faults,
              \* and the gas that create spent or burnt

(* History: the gas that was put in and has not been handed back; runs of  *)
(* the host, instructions fetched, operations that failed, and the cost    *)
(* told of instructions that were refused without paying it.               *)
VARIABLES supply, seen

frameVars == <<depth, readOnly, frames, result, tracer, supply, seen>>
allVars == <<vars, frameVars>>

NoOp == [minStack |-> 0, pushes |-> 0, maxStack |-> 0, constantGas |-> 0,
         dynamic |-> FALSE]

(* requested is Run's parameter, asked whether this call turned the flag   *)
(* on, empty whether the contract has no code; op, off, len, paid and      *)
(* called belong to the instruction that executes: what it was charged,    *)
(* and whether it ran its inner frame.                                     *)
NewFrame(gas, requested, asked, empty) ==
  [gas |-> gas, requested |-> requested, asked |-> asked, empty |-> empty,
   executing |-> FALSE,
   logged |-> FALSE, pc |-> 0, items |-> 0, memory |-> 0, op |-> NoOp,
   off |-> 0, len |-> 0, paid |-> 0, called |-> FALSE]

RunInit ==
  /\ Init
  /\ depth = 0
  /\ readOnly = FALSE
  /\ frames = <<>>
  /\ result = [gas |-> 0, err |-> NoError, stored |-> FALSE]
  /\ tracer = [opcodes |-> 0, cost |-> 0, faults |-> 0, spent |-> 0]
  /\ supply = 0
  /\ seen = [runs |-> 0, fetched |-> 0, failed |-> 0, unpaid |-> 0]

Top == frames[Len(frames)]
Below == SubSeq(frames, 1, Len(frames) - 1)
WithTop(f) == [frames EXCEPT ![Len(frames)] = f]

-----------------------------------------------------------------------------
(* The prologue of Run.                                                    *)
TurnsOnMutant(requested) == requested

TurnsOn(requested) == requested /\ ~readOnly

Enter(outer, gas, requested, empty) ==
  /\ depth' = depth + 1
  /\ readOnly' = (readOnly \/ TurnsOn(requested))
  /\ frames' = Append(outer, NewFrame(gas, requested, TurnsOn(requested), empty))

(* What the deferred hook tells of a frame that ends in an error: the      *)
(* instruction was announced already, or it is announced now.              *)
Announced(logged, cost) ==
  IF logged THEN [tracer EXCEPT !.faults = @ + 1]
  ELSE [tracer EXCEPT !.opcodes = @ + 1, !.cost = @ + cost]

(* The deferred functions of Run.                                          *)
Deferred ==
  /\ depth' = depth - 1
  /\ readOnly' = (readOnly /\ ~Top.asked)

(* What Run leaves to create.                                              *)
Returned(left, err, size, startsEF) ==
  [gas |-> left, err |-> err, size |-> size, startsEF |-> startsEF]

(* What create's own calls of UseGas tell OnGasChange: the price of the    *)
(* code that is stored, or all that is left of a failed execution.         *)
Spent(run) ==
  LET err == DeployError(run) IN
  CASE err = NoError -> CodeCost(run)
    [] err # NoError /\ Undoes(err) /\ err # "ErrExecutionReverted" -> run.gas
    [] OTHER -> 0

(* The rest of create, the only caller here: the gas it returns goes to    *)
(* the operation of the frame below or to the host.  create never asks for *)
(* a read-only run; a host that does is taken to go on alike.              *)
HandBack(run, back, told) ==
  LET n == Len(frames) IN
  /\ frames' = IF n = 1 THEN <<>> ELSE [Below EXCEPT ![n - 1].gas = @ + back]
  /\ result' = IF n > 1 THEN result
               ELSE [gas |-> back, err |-> DeployError(run),
                     stored |-> DeployError(run) = NoError /\ run.size > 0]
  /\ supply' = IF n = 1 THEN supply - back ELSE supply
  /\ tracer' = [told EXCEPT !.spent = @ + Spent(run)]

(* The gas of a failed frame is handed back.                               *)
LeaveMutant(run, told) == Deferred /\ HandBack(run, run.gas, told)

Leave(run, told) == Deferred /\ HandBack(run, GasAfterDeploy(run), told)

(* The host asks for one creation; operations ask for inner ones.  create  *)
(* looks at the depth before Run increments it.                            *)
Start(gas, requested, empty) ==
  /\ frames = <<>> /\ seen.runs = 0
  /\ Enter(<<>>, gas, requested, empty)
  /\ supply' = gas
  /\ seen' = [seen EXCEPT !.runs = 1]
  /\ UNCHANGED <<vars, result, tracer>>

Executing == frames # <<>> /\ ~panicked /\ Top.executing

DepthAllowsMutant == depth <= CallCreateDepth + 1

DepthAllows == depth <= CallCreateDepth

Calling(gas) ==
  /\ Executing
  /\ TRUE \in KeepsOperation
  /\ DepthAllows
  /\ Top.paid > 0 /\ ~Top.called
  /\ gas <= Top.gas
  /\ UNCHANGED <<vars, result, tracer, supply, seen>>

Endowed(gas) == WithTop([Top EXCEPT !.gas = @ - gas, !.called = TRUE])

(* The inner frame gets a stipend that nobody pays.                        *)
StartInnerMutant(gas, requested, empty) ==
  Calling(gas) /\ Enter(Endowed(gas), gas + 1, requested, empty)

StartInner(gas, requested, empty) ==
  Calling(gas) /\ Enter(Endowed(gas), gas, requested, empty)

(* "Don't bother with the execution if there's no code."                   *)
(* Return before the functions are deferred.                               *)
ReturnEmptyMutant ==
  LET run == Returned(Top.gas, NoError, 0, FALSE) IN
  /\ frames # <<>> /\ Top.empty
  /\ HandBack(run, GasAfterDeploy(run), tracer)
  /\ UNCHANGED <<vars, depth, readOnly, seen>>

ReturnEmpty ==
  /\ frames # <<>> /\ Top.empty
  /\ Leave(Returned(Top.gas, NoError, 0, FALSE), tracer)
  /\ UNCHANGED <<vars, seen>>

-----------------------------------------------------------------------------
(* One turn of the loop, up to the execution of the operation.  MaxRegs is *)
(* a bound on the model, and RunEnds fails where it is reached.            *)
Fetching ==
  /\ frames # <<>> /\ ~panicked /\ ~Top.empty /\ ~Top.executing
  /\ Len(regkeyList) < MaxRegs

StackValidMutant(o) == Top.items <= o.maxStack

StackValid(o) == o.minStack <= Top.items /\ Top.items <= o.maxStack

(* The first UseGas takes the constant part, the second the dynamic one;   *)
(* the memory is measured and dynamicGas called between the two.           *)
PaysConstant(o) == StackValid(o) /\ o.constantGas <= Top.gas

CallsDynamicGas(o, off, len) ==
  PaysConstant(o) /\ o.dynamic /\ MemorySize(off, len) # TooBig

PaysDynamic(o, dynamicCost) == dynamicCost <= Top.gas - o.constantGas

Accepted(o, dynamicCost, off, len) ==
  /\ PaysConstant(o)
  /\ o.dynamic => CallsDynamicGas(o, off, len) /\ PaysDynamic(o, dynamicCost)

CostMutant(o, dynamicCost, off, len) == o.constantGas

(* cost, "for tracing": it is set before the gas is taken.                 *)
Cost(o, dynamicCost, off, len) ==
  IF CallsDynamicGas(o, off, len) THEN Uint64(o.constantGas + dynamicCost)
  ELSE o.constantGas

(* The early returns, of which each takes the constant gas or nothing; an  *)
(* error of dynamicGas is one of them.  logged was reset at the top of the *)
(* loop.                                                                   *)
Refuse(o, dynamicCost, off, len) ==
  LET cost == Cost(o, dynamicCost, off, len)
      taken == IF PaysConstant(o) THEN o.constantGas ELSE 0
  IN  /\ Fetching
      /\ ~Accepted(o, dynamicCost, off, len) \/ CallsDynamicGas(o, off, len)
      /\ Leave(Returned(Top.gas - taken, "ErrExecution", 0, FALSE),
               Announced(FALSE, cost))
      /\ seen' = [seen EXCEPT !.fetched = @ + 1, !.unpaid = @ + cost - taken]
      /\ UNCHANGED vars

(* Charge, trace, resize, append the register.                             *)
Fetch(o, dynamicCost, off, len) ==
  LET charged == o.constantGas + (IF o.dynamic THEN dynamicCost ELSE 0)
      bytes == IF o.dynamic THEN MemorySize(off, len) ELSE 0
  IN  /\ Fetching
      /\ Accepted(o, dynamicCost, off, len)
      /\ AppendReg(depth, Top.pc, o.minStack)
      /\ frames' = WithTop(
           [Top EXCEPT !.gas = @ - charged, !.logged = TRUE, !.executing = TRUE,
                       !.memory = IF @ < bytes THEN bytes ELSE @,
                       !.op = o, !.off = off, !.len = len, !.paid = charged])
      /\ tracer' = [tracer EXCEPT !.opcodes = @ + 1,
                                  !.cost = @ + Cost(o, dynamicCost, off, len)]
      /\ seen' = [seen EXCEPT !.fetched = @ + 1]
      /\ UNCHANGED <<depth, readOnly, result, supply>>

-----------------------------------------------------------------------------
(* reg.execute, which calls the register's own copy of the operation.      *)
ExecuteNil ==
  /\ Executing
  /\ FALSE \in KeepsOperation
  /\ panicked' = TRUE
  /\ UNCHANGED <<regkeyList, loopLookUpTable, frameVars>>

(* The operation is done, and the loop moves on; next is the following pc  *)
(* or a jump's target.                                                     *)
Complete(next) ==
  /\ Executing
  /\ TRUE \in KeepsOperation
  /\ Top.paid > 0
  /\ frames' = WithTop(
       [Top EXCEPT !.pc = next, !.executing = FALSE, !.logged = FALSE,
                   !.items = @ - Top.op.minStack + Top.op.pushes,
                   !.op = NoOp, !.off = 0, !.len = 0, !.paid = 0, !.called = FALSE])
  /\ UNCHANGED <<vars, depth, readOnly, result, tracer, supply, seen>>

(* The stop token is cleared before the deferred hook looks at the error.  *)
HaltMutant(size, startsEF) ==
  /\ Executing
  /\ TRUE \in KeepsOperation
  /\ Leave(Returned(Top.gas, NoError, size, startsEF), Announced(Top.logged, Top.paid))
  /\ UNCHANGED <<vars, seen>>

Halt(size, startsEF) ==
  /\ Executing
  /\ TRUE \in KeepsOperation
  /\ Leave(Returned(Top.gas, NoError, size, startsEF), tracer)
  /\ UNCHANGED <<vars, seen>>

(* An error; only a revert saves the gas.                                  *)
Fail(reverted) ==
  /\ Executing
  /\ TRUE \in KeepsOperation
  /\ Leave(Returned(Top.gas, IF reverted THEN "ErrExecutionReverted" ELSE "ErrExecution",
                    0, FALSE),
           Announced(Top.logged, Top.paid))
  /\ seen' = [seen EXCEPT !.failed = @ + 1]
  /\ UNCHANGED vars

Turn ==
  \/ \E gas \in Gases, requested, empty \in BOOLEAN : StartInner(gas, requested, empty)
  \/ ReturnEmpty
  \/ \E o \in Operations, c \in DynamicCosts, off \in Offsets, len \in Lengths :
       Refuse(o, c, off, len) \/ Fetch(o, c, off, len)
  \/ ExecuteNil
  \/ \E next \in PCs : Complete(next)
  \/ \E size \in CodeSizes, startsEF \in BOOLEAN : Halt(size, startsEF)
  \/ \E reverted \in BOOLEAN : Fail(reverted)

RunNext ==
  \/ \E gas \in Gases, requested, empty \in BOOLEAN : Start(gas, requested, empty)
  \/ Turn

RunSpec == RunInit /\ [][RunNext]_allVars

(* One goroutine runs the loop and the operations to the end; nothing      *)
(* makes the host start a run.                                             *)
FairRunSpec == RunSpec /\ WF_allVars(Turn)

-----------------------------------------------------------------------------
(* However frames are nested and whichever way they end, the depth counts  *)
(* them, and no more frames than the limit of create are ever nested in    *)
(* the outermost one.  (create looks at the depth before Run increments    *)
(* it, so the depth itself reaches the limit plus one, where the comment   *)
(* at interpreter.go:32 has it "restricted to 1024".)                      *)
NestingRestricted ==
  /\ depth = Len(frames)
  /\ frames # <<>> => Len(frames) - 1 <= CallCreateDepth

(* "This also makes sure that the readOnly flag isn't removed for child    *)
(* calls" (interpreter.go:37): the flag is set exactly while some active   *)
(* frame was called read-only, and a frame below such a one keeps it.      *)
ReadOnlyKept ==
  readOnly <=> \E i \in 1..Len(frames) : frames[i].requested

(* The tracer is told of every instruction fetched once, and of a fault    *)
(* for every operation that failed and for nothing else.                   *)
TracedOnce == tracer.opcodes = seen.fetched /\ tracer.faults = seen.failed

(* No gas comes out of nothing or disappears from the trace: what was put  *)
(* in is in the frames, was told the tracer as the cost of an instruction, *)
(* or was told it as spent by create, on code or with a failed frame.  The *)
(* cost of a refused instruction is told although it was not paid, or not  *)
(* all of it.                                                              *)
GasIn(fs) ==
  LET upTo[i \in 0..Len(fs)] == IF i = 0 THEN 0 ELSE upTo[i - 1] + fs[i].gas
  IN  upTo[Len(fs)]

GasInFrames == GasIn(frames)

TracedGasIsReal ==
  /\ supply = GasInFrames + (tracer.cost - seen.unpaid) + tracer.spent
  /\ \A i \in DOMAIN frames : frames[i].gas >= 0

(* An operation executes only with its operands on the stack, a register   *)
(* for each of them, and never grows the stack above its limit.            *)
StackSafe ==
  \A i \in DOMAIN frames :
    /\ frames[i].items \in 0..StackLimit
    /\ frames[i].executing => frames[i].op.minStack <= frames[i].items

(* An operation executes only with all the bytes it addresses in memory,   *)
(* in whole words, whatever offset and length it took from the stack.      *)
MemoryCovers ==
  \A i \in DOMAIN frames :
    LET f == frames[i] IN
    /\ \E words \in 0..MaxU64 : f.memory = words * WordBytes
    /\ f.executing /\ f.op.dynamic /\ f.len # 0 => f.off + f.len <= f.memory

(* "This loop runs until either an explicit STOP, RETURN or SELFDESTRUCT   *)
(* is executed, an error occurred ..." (interpreter.go:97): nothing but    *)
(* the gas bounds the loop, and it does, through jumps and inner frames.   *)
RunEnds == frames # <<>> ~> frames = <<>> \/ panicked

(* Whatever the frames do, they do it within the gas create was given, and *)
(* give back what the pipeline settles a deployment with.                  *)
Deployed == INSTANCE Deployment WITH
  running <- frames # <<>>,
  gas <- IF frames = <<>> THEN result.gas ELSE GasInFrames,
  err <- result.err,
  stored <- result.stored

ImplementsDeployment == Deployed!DeploymentSpec

(* "append reg and execute the operation" (interpreter.go:185): an         *)
(* instruction that was accepted is executed.                              *)
OperationExecuted == ~panicked
=============================================================================
