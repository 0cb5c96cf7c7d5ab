------------------------------ MODULE Interpreter ------------------------------
(***************************************************************************)
(* The interpreter of interpreter.cc with the tuples and arrays of         *)
(* array.cc: a machine with three registers, the function to run, its      *)
(* parameter and the callback that takes its result.  Each action is one   *)
(* Logic::Run.  The memory manager is the one that never collects, which   *)
(* takes a block back only when it is the last; so the interpreter offers  *)
(* it frames, callbacks and tuples as soon as it has done with them.       *)
(***************************************************************************)
EXTENDS CodeTrees, Sequences, SequencesExt, FiniteSetsExt, TLC

CONSTANTS
  MaxFixedArraySize, \* kMaxFixedArraySize: larger arrays count their elements
  ArgumentSpace      \* arraysize(parameter_elements_): larger tuples stay put

VARIABLES
  module,   \* the code trees so far, in preorder, one after the other, and how long
            \* each branch is; where the last one starts; the values it is loaded
            \* with; and the bound on the blocks that may be allocated
  constant, \* the nodes that are known to be constants, and their values
  index,    \* the node whose value the loader waits for, 0 when loaded
  memory,   \* blocks ever allocated, those on the heap, and those withdrawn
  context,  \* the registers
  support,  \* the SupportCodeManager's functions, each from a value to its methods
  outcome   \* "loading", "running", "done", or why the machine stopped

machineVars == <<module, constant, index, memory, context, support, outcome>>

At(i) == module.code[i]

-----------------------------------------------------------------------------
(* Values: a logic, and data that is a number, a name or a block.          *)
Plain(logic) == [logic |-> logic, n |-> 0, name |-> "", at |-> 0]
Data(logic, block) == [Plain(logic) EXCEPT !.at = block]
Number(n) == [Plain("Integer") EXCEPT !.n = n]
Named(logic, name) == [Plain(logic) EXCEPT !.name = name]
Node(i) == [Plain("Node") EXCEPT !.n = i]

IsTuple(v) == v.logic = "Tuple"
IsError(v) == v.logic = "Error"

(* What lies in a block: values, a pointer to another block, a number.     *)
Allocate(m, kind, values, next, n) ==
  [blocks |-> Append(m.blocks, [kind |-> kind, values |-> values, next |-> next, n |-> n]),
   heap |-> Append(m.heap, Len(m.blocks) + 1),
   withdrawn |-> {},
   freed |-> m.freed \cup m.withdrawn]

Newest(m) == Len(m.blocks)

NoMemory == [blocks |-> <<>>, heap |-> <<>>, withdrawn |-> {}, freed |-> {}]

(* Mutant: any block is taken back, not only the last.                     *)
IsLast_Any(m, b) == b \in ToSet(m.heap)

(* A frame made together with its function is not a block of its own.      *)
IsLast(m, b) == m.heap # <<>> /\ b = Last(m.heap)

CanWithdraw(m, b) == IsLast(m, b) /\ m.blocks[b].kind # "Call"

TryWithdraw(m, b) ==
  IF CanWithdraw(m, b)
  THEN [m EXCEPT !.heap = SelectSeq(@, LAMBDA x : x # b), !.withdrawn = @ \cup {b}]
  ELSE m

(* An array or a tuple is a block that knows its elements and the block    *)
(* where they lie; the empty one is none.                                  *)
AliasArray(m, elements, block) == Allocate(m, "Array", elements, block, 0)
NewArray(m, elements) ==
  LET new == Allocate(m, "Elements", elements, 0, 0) IN AliasArray(new, elements, Newest(new))

TupleGoes(m, v) == v.at = 0 \/ CanWithdraw(m, v.at)

WithdrawTuple(m, v) ==
  IF v.at = 0 \/ ~CanWithdraw(m, v.at) THEN m
  ELSE TryWithdraw(TryWithdraw(m, v.at), m.blocks[v.at].next)

(* A frame goes with the tuple that is its only value, unless that is kept,*)
(* and then the frame around it.                                           *)
RECURSIVE TryWithdrawSelf(_, _, _)
TryWithdrawSelf(m, frame, kept) ==
  IF ~CanWithdraw(m, frame) THEN m
  ELSE LET block == m.blocks[frame]
           alone == Len(block.values) = 1 /\ IsTuple(block.values[1]) /\ frame # kept
           gone == TryWithdraw(m, frame)
           tupleGone == IF alone THEN WithdrawTuple(gone, block.values[1]) ELSE gone
       IN IF block.next = 0 THEN tupleGone
          ELSE TryWithdrawSelf(tupleGone, block.next, kept)

-----------------------------------------------------------------------------
(* Branches of the code tree: where each ends, and how many abstractions   *)
(* are around it.                                                          *)
RECURSIVE BranchSizes(_, _)
BranchSizes(code, i) ==
  LET first == BranchSizes(code, i + 1)
      second == BranchSizes(code, i + 1 + Len(first))
  IN CASE code[i] = APPLICATION -> <<1 + Len(first) + Len(second)>> \o first \o second
       [] code[i] = ABSTRACTION -> <<1 + Len(first)>> \o first
       [] OTHER -> <<1>>

BranchEnd(i) == i + module.sizes[i]

DepthOf(i) ==
  Cardinality({j \in module.start..i - 1 : At(j) = ABSTRACTION /\ i < BranchEnd(j)})

(* One more code tree.                                                     *)
NoModule(limit) == [code |-> <<>>, sizes |-> <<>>, start |-> 1, environment |-> <<>>,
                    limit |-> limit]
LoadedWith(code, environment) ==
  [module EXCEPT !.code = @ \o code, !.sizes = @ \o BranchSizes(code, 1),
                 !.start = Len(module.code) + 1, !.environment = environment]

(* What the values of a set lead to.  A block leads to older ones only.    *)
HeldBy(values) == {v.at : v \in values}

RECURSIVE Reachable(_, _, _)
Reachable(blocks, from, oldest) ==
  LET new == {b \in from : b >= oldest}
      next == UNION {{blocks[b].next} \cup HeldBy(ToSet(blocks[b].values)) : b \in new}
  IN IF new = {} THEN {} ELSE new \cup Reachable(blocks, next, oldest)

(* The step ends in memory m with these registers.  Memory that was given  *)
(* back may be used again from the next allocation on: what was in it is   *)
(* lost, and if it is still in reach the machine is not followed further.  *)
Lost(m, f, p, c) ==
  LET roots == HeldBy({f, p, c} \cup Range(support))
                 \cup {constant[i].at : i \in DOMAIN constant}
  IN IF m.freed = {} THEN {} ELSE m.freed \cap Reachable(m.blocks, roots, Min(m.freed))

SetNext(m, f, p, c) ==
  LET lost == Lost(m, f, p, c)
  IN /\ context' = [function |-> f, parameter |-> p, callback |-> c]
     /\ memory' = [m EXCEPT !.freed = lost]
     /\ outcome' = IF lost # {} THEN "lost"
                   ELSE IF Newest(m) > module.limit THEN "full" ELSE "running"

Return(m, v) == SetNext(m, context.callback, v, Plain("None"))

(* An error is a text.                                                     *)
ReturnError(m) ==
  LET new == Allocate(m, "Text", <<>>, 0, 0) IN Return(new, Data("Error", Newest(new)))

ElementsOf(v) == IF v.at = 0 THEN <<>> ELSE memory.blocks[v.at].values
TupleSize(v) == Len(ElementsOf(v))
IsElement(v, i) == i.logic = "Integer" /\ i.n \in 0..TupleSize(v) - 1

Runs(logic) == outcome = "running" /\ context.function.logic = logic
Environment == context.parameter.at  \* the frame that a node is run on
Here == memory.blocks[context.function.at]

Loaded == UNCHANGED <<module, constant, index, support>>

-----------------------------------------------------------------------------
(* Loading: from the last node to the first, applications of constants to  *)
(* constants are run, and their results are constants.  Whatever else the  *)
(* loader allocates is never given back: it is one block, the array of the *)
(* nodes, which the outermost frame holds behind the values of the tree and*)
(* which leads to all constants.                                           *)
Foldable(known, i) == /\ At(i) = APPLICATION
                      /\ i + 1 \in DOMAIN known
                      /\ BranchEnd(i + 1) \in DOMAIN known

ContinueInterpretingCodeTree(m, known, from, callback) ==
  LET toFold == {i \in module.start..from : Foldable(known, i)}
      nodes == Allocate(m, "Code", <<>>, 0, 0)
  IN /\ constant' = known
     /\ UNCHANGED <<module, support>>
     /\ IF toFold # {}
        THEN LET i == Max(toFold)
                 state == Allocate(nodes, "State", Append(module.environment, callback),
                                   Newest(nodes), i)
             IN /\ index' = i
                /\ SetNext(state, known[i + 1], known[BranchEnd(i + 1)],
                           Data("Continue", Newest(state)))
        ELSE LET root == Allocate(nodes, "Environment",
                                  Append(module.environment, Data("Array", Newest(nodes))),
                                  0, 0)
             IN /\ index' = 0
                /\ SetNext(root, Node(module.start), Data("Environment", Newest(root)),
                           callback)

ConstantValue(entry) ==
  CASE entry[1] = "integer" -> Number(entry[2])
    [] entry[1] = "atom" -> Named("Atom", entry[2])
    [] entry[1] = "import" -> IF entry[2] = "builtin" THEN Named("NativeModule", "builtin")
                              ELSE Plain("Error")

(* The module that the compiler wrote, ready to be loaded.                 *)
InterpretModule(compiled) ==
  LoadedWith(compiled.code, [i \in DOMAIN compiled.constants |->
                               ConstantValue(compiled.constants[i])])

(* Variables that pass all abstractions around them are constants.         *)
InterpretCodeTree ==
  LET past == [i \in module.start..Len(module.code) |-> At(i) - FIRST_VARIABLE - DepthOf(i)]
      outer == {i \in DOMAIN past : At(i) >= FIRST_VARIABLE /\ past[i] >= 0}
  IN /\ outcome = "loading"
     /\ ContinueInterpretingCodeTree(memory,
          constant @@ [i \in outer |-> module.environment[past[i] + 1]],
          Len(module.code), context.callback)

RunContinue ==
  /\ Runs("Continue")
  /\ ContinueInterpretingCodeTree(Allocate(memory, "Constant", <<>>, 0, 0),
                                  constant @@ (index :> context.parameter), index - 1,
                                  Last(Here.values))

-----------------------------------------------------------------------------
(* Nodes of the code tree, run on a frame.                                 *)

RunConstant ==
  /\ Runs("Node") /\ context.function.n \in DOMAIN constant
  /\ Return(TryWithdrawSelf(memory, Environment, 0), constant[context.function.n])
  /\ Loaded

(* A frame of a function that was sent here holds several values.          *)
RECURSIVE FrameOf(_, _)
FrameOf(frame, i) ==
  LET block == memory.blocks[frame]
  IN IF i < Len(block.values) THEN [frame |-> frame, value |-> block.values[i + 1]]
     ELSE FrameOf(block.next, i - Len(block.values))

RunVariable ==
  /\ Runs("Node") /\ context.function.n \notin DOMAIN constant
  /\ At(context.function.n) >= FIRST_VARIABLE
  /\ LET found == FrameOf(Environment, At(context.function.n) - FIRST_VARIABLE)
     IN Return(TryWithdrawSelf(memory, Environment, found.frame), found.value)
  /\ Loaded

(* A function is its body on a frame, and knows its place in the code.     *)
RunAbstraction ==
  /\ Runs("Node") /\ At(context.function.n) = ABSTRACTION
  /\ LET new == Allocate(memory, "Function", <<Node(context.function.n + 1)>>, Environment,
                        context.function.n)
     IN Return(new, Data("Function", Newest(new)))
  /\ Loaded

(* The parameter is evaluated first.                                       *)
RunApplication ==
  /\ Runs("Node") /\ context.function.n \notin DOMAIN constant
  /\ At(context.function.n) = APPLICATION
  /\ LET f == context.function.n + 1
         new == Allocate(memory, "Callback1", <<Node(f), context.callback>>, Environment, 0)
     IN SetNext(new, Node(BranchEnd(f)), context.parameter, Data("Callback1", Newest(new)))
  /\ Loaded

(* A parameter tuple on top of the callback data is moved below it.        *)
MoveParameter(m, p, callback1) ==
  IF ~(IsTuple(p) /\ TupleSize(p) <= ArgumentSpace /\ TupleGoes(m, p))
  THEN [memory |-> TryWithdraw(m, callback1), parameter |-> p]
  ELSE IF p.at = 0 THEN [memory |-> TryWithdraw(m, callback1), parameter |-> p]
  ELSE LET array == NewArray(TryWithdraw(WithdrawTuple(m, p), callback1),
                             m.blocks[p.at].values)
       IN [memory |-> array, parameter |-> Data("Tuple", Newest(array))]

(* Then the function; one that is written out here is called directly.     *)
RunCallback1 ==
  /\ Runs("Callback1")
  /\ LET f == Here.values[1]
         callback == Here.values[2]
         environment == Here.next
         moved == MoveParameter(memory, context.parameter, context.function.at)
         call == Allocate(moved.memory, "Call", <<moved.parameter>>, environment, f.n)
         new == Allocate(moved.memory, "Callback2", <<moved.parameter, callback>>,
                         environment, 0)
     IN IF f.n \notin DOMAIN constant /\ At(f.n) = ABSTRACTION
        THEN SetNext(call, Node(f.n + 1), Data("Environment", Newest(call)), callback)
        ELSE SetNext(new, f, Data("Environment", environment),
                     Data("Callback2", Newest(new)))
  /\ Loaded

RunCallback2 ==
  /\ Runs("Callback2")
  /\ LET gone == TryWithdraw(memory, context.function.at)
         frameGone == IF CanWithdraw(memory, context.function.at)
                      THEN TryWithdrawSelf(gone, Here.next, 0) ELSE gone
     IN SetNext(frameGone, context.parameter, Here.values[1], Here.values[2])
  /\ Loaded

(* A frame leads to the function that it was made for; a function is never *)
(* given back.                                                             *)
RunFunction ==
  /\ Runs("Function")
  /\ LET new == Allocate(memory, "Environment", <<context.parameter>>, Here.next,
                         context.function.at)
     IN SetNext(new, Here.values[1], Data("Environment", Newest(new)), context.callback)
  /\ Loaded

-----------------------------------------------------------------------------
(* Tuples, arrays and their builders.                                      *)

RunTuple ==
  /\ Runs("Tuple")
  /\ LET p == context.parameter
     IN CASE IsError(p) -> Return(memory, p)
          [] ~IsError(p) /\ IsElement(context.function, p) ->
               Return(memory, ElementsOf(context.function)[p.n + 1])
          [] OTHER -> ReturnError(memory)
  /\ Loaded

Builder(logic, sort, left, list) ==
  [Plain(logic) EXCEPT !.name = sort, !.n = left, !.at = list]

(* builder(n) and tupleBuilder(n).                                         *)
MakeBuilder(sort, size) ==
  CASE size < 0 -> ReturnError(memory)
    [] size = 0 -> Return(memory, Plain(sort))
    [] size \in 1..MaxFixedArraySize ->
         Return(memory, Builder("FixedBuilder", sort, size, 0))
    [] OTHER -> LET new == Allocate(memory, "ListAndSize", <<>>, 0, size)
                IN Return(new, Builder("LargeBuilder", sort, size, Newest(new)))

(* The elements so far, and the new one last.                              *)
RECURSIVE ListedIn(_, _)
ListedIn(m, list) == IF list = 0 THEN <<>>
                     ELSE Append(ListedIn(m, m.blocks[list].next), m.blocks[list].values[1])

RECURSIVE WithdrawList(_, _)
WithdrawList(m, list) == IF list = 0 THEN m
                         ELSE WithdrawList(TryWithdraw(m, list), m.blocks[list].next)

Finish(m, list) ==
  LET array == NewArray(m, Append(ListedIn(m, list), context.parameter))
  IN Return(array, Data(context.function.name, Newest(array)))

RunFixedBuilder ==
  /\ Runs("FixedBuilder")
  /\ LET list == context.function.at
         new == Allocate(memory, "List", <<context.parameter>>, list, 0)
     IN IF context.function.n > 1
        THEN Return(new, [context.function EXCEPT !.n = @ - 1, !.at = Newest(new)])
        ELSE Finish(WithdrawList(memory, list), list)
  /\ Loaded

RunLargeBuilder ==
  /\ Runs("LargeBuilder")
  /\ LET list == Here.next
         left == Here.n
         listed == Allocate(TryWithdraw(memory, context.function.at), "List",
                            <<context.parameter>>, list, 0)
         new == Allocate(listed, "ListAndSize", <<>>, Newest(listed), left - 1)
     IN IF left > 1
        THEN Return(new, [context.function EXCEPT !.n = @ - 1, !.at = Newest(new)])
        ELSE Finish(memory, list)
  /\ Loaded

(* An error applied is itself.                                             *)
RunError == /\ Runs("Error")
            /\ Return(memory, context.function)
            /\ Loaded

RunDone == /\ Runs("Done")
           /\ outcome' = "done"
           /\ UNCHANGED <<memory, context>>
           /\ Loaded

Step == \/ InterpretCodeTree \/ RunContinue
        \/ RunConstant \/ RunVariable \/ RunAbstraction
        \/ RunApplication \/ RunCallback1 \/ RunCallback2 \/ RunFunction
        \/ RunTuple \/ RunFixedBuilder \/ RunLargeBuilder
        \/ RunError \/ RunDone
=============================================================================
