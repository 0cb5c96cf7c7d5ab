-------------------------------- MODULE Language --------------------------------
(***************************************************************************)
(* The compiler and the interpreter together: whatever program they are    *)
(* given, the machine ends in what the program means.  The meaning is      *)
(* defined on expressions, with names, and knows nothing of code trees,    *)
(* frames, recursive variables or memory.                                  *)
(***************************************************************************)
EXTENDS Programs, SentFunctions, Builtins

CONSTANTS
  Families,  \* which families of Programs are run
  Depth,     \* how deep a meaning is looked for before it counts as endless
  MaxBlocks, MaxBlocksWithMethods, \* bounds on the blocks that are allocated
  Strides    \* how far the addresses of two atoms are apart

VARIABLE program   \* what is written, the place of a bracket that lacks, the order
                   \* of addresses in the compiler, how often the value is sent on
                   \* before it is called, and whether it is the support code, runs
                   \* after it or without it

vars == <<program, module, constant, index, memory, context, support, outcome, sent, hops,
          stride>>

WithMethods == program.kind = "with methods"

-----------------------------------------------------------------------------
(* What an expression means in an environment: a sequence of scopes, the   *)
(* innermost first, each either parameters with their value or the         *)
(* bindings of a where block.  Endless is all that is not found in time.   *)
Endless == [is |-> "endless"]
AnError == [is |-> "error"]
Closure(e, env) == [is |-> "function", names |-> e.names, body |-> e.body, env |-> env]
Elements(sort, es) == [is |-> sort, elements |-> es]
Partial(sort, left, es) == [is |-> "partial", name |-> sort, value |-> left, elements |-> es]
Holds(b) == [is |-> "boolean", value |-> b]
Native(module_, name) == [is |-> "native", module |-> module_, name |-> name]
Library(name) == [is |-> "library", name |-> name]
Table(atoms) == [is |-> "table", elements |-> atoms]
MethodOf(v, name) == [is |-> "method", of |-> v, name |-> name]

Identity == Abstraction(<<"x">>, Variable("x", 0))

ScopeNames(scope) == IF scope.is = "block" THEN DOMAIN scope.bindings
                     ELSE ToSet(scope.names)

(* What the functions of a library, and the methods that are like them, do *)
(* with parameters that are no errors.                                     *)
AreAll(args, sort) == \A i \in DOMAIN args : args[i].is = sort
DividedTowardsZero(i, j) == LET q == IF i < 0 THEN -i ELSE i
                                d == IF j < 0 THEN -j ELSE j
                            IN (IF (i < 0) = (j < 0) THEN 1 ELSE -1) * (q \div d)

IntegersGive(name, i, j) ==
  CASE name = "add" -> Integer(i + j)
    [] name = "subtract" -> Integer(i - j)
    [] name = "multiply" -> Integer(i * j)
    [] name = "divide" -> IF j = 0 THEN AnError ELSE Integer(DividedTowardsZero(i, j))
    [] name = "equal" -> Holds(i = j)
    [] name = "notEqual" -> Holds(i # j)
    [] name = "less" -> Holds(i < j)
    [] name = "greater" -> Holds(i > j)
    [] name = "notGreater" -> Holds(i <= j)
    [] name = "notLess" -> Holds(i >= j)

BooleansGive(name, p, q) ==
  CASE name = "and" -> Holds(p /\ q)
    [] name = "or" -> Holds(p \/ q)
    [] name = "xor" -> Holds(p # q)
    [] name = "equals" -> Holds(p <=> q)

ArrayGives(name, es, rest) ==
  CASE name = "size" -> Integer(Len(es))
    [] name = "element" /\ AreAll(rest, "integer") ->
         IF rest[1].value + 1 \in DOMAIN es THEN es[rest[1].value + 1] ELSE AnError
    [] name = "interval" /\ AreAll(rest, "integer") ->
         IF 0 <= rest[1].value /\ rest[1].value <= rest[2].value /\ rest[2].value <= Len(es)
         THEN Elements("array", SubSeq(es, rest[1].value + 1, rest[2].value)) ELSE AnError
    [] name = "join" /\ AreAll(es, "array") ->
         Elements("array", FlattenSeq([i \in DOMAIN es |-> es[i].elements]))
    [] OTHER -> AnError

Given(module_, name, args) ==
  CASE \E i \in DOMAIN args : args[i].is = "endless" -> Endless
    [] \E i \in DOMAIN args : args[i].is = "error" -> AnError
    [] name = "negate" /\ AreAll(args, "integer") -> Integer(-args[1].value)
    [] name = "not" /\ AreAll(args, "boolean") -> Holds(~args[1].value)
    [] name = "if" /\ args[1].is = "boolean" -> IF args[1].value THEN args[2] ELSE args[3]
    [] module_ = "integer" /\ AreAll(args, "integer") /\ Len(args) = 2 ->
         IntegersGive(name, args[1].value, args[2].value)
    [] module_ = "boolean" /\ AreAll(args, "boolean") /\ Len(args) = 2 ->
         BooleansGive(name, args[1].value, args[2].value)
    [] module_ = "atom" /\ AreAll(args, "atom") -> Holds((args[1] = args[2]) <=> name = "equal")
    [] name \in {"builder", "tupleBuilder"} /\ AreAll(args, "integer") /\ args[1].value >= 0 ->
         LET sort == IF name = "builder" THEN "array" ELSE "tuple"
         IN IF args[1].value = 0 THEN Elements(sort, <<>>)
            ELSE Partial(sort, args[1].value, <<>>)
    [] module_ = "array" /\ args[1].is = "array" ->
         ArrayGives(name, args[1].elements, Tail(args))
    [] OTHER -> AnError

LogicName == [integer |-> "IntegerFunction", boolean |-> "BooleanFunction",
              atom |-> "AtomFunction", array |-> "ArrayFunction"]
FunctionsOf(library) == NativeFunctions[LogicName[library]]

MemberOf(library, name) ==
  CASE library = "builtin" /\ name \in DOMAIN LogicName -> Library(name)
    [] library = "boolean" /\ name \in {"true", "false"} -> Holds(name = "true")
    [] library = "atom" /\ name = "table" -> Native(library, name)
    [] library # "builtin" /\ name \in DOMAIN FunctionsOf(library) -> Native(library, name)
    [] OTHER -> AnError

AppliedNative(f, p) ==
  LET arity == Len(FunctionsOf(f.module)[f.name])
  IN CASE f.name = "table" -> IF p.is = "array" /\ AreAll(p.elements, "atom")
                              THEN Table(p.elements) ELSE AnError
       [] f.name # "table" /\ arity = 1 -> Given(f.module, f.name, <<p>>)
       [] f.name # "table" /\ arity > 1 /\ p.is = "tuple" /\ Len(p.elements) = arity ->
            Given(f.module, f.name, p.elements)
       [] OTHER -> AnError

(* The methods of a value, of which some are computed at once.             *)
MethodNames ==
  [integer |-> DOMAIN IntegerFunctions, boolean |-> {"and", "or", "not", "if"},
   atom |-> {"equal", "notEqual"},
   array |-> {"element", "size", "interval", "map", "fold", "contains", "join", "findAll"}]

MemberOfValue(v, p) ==
  CASE p.is = "atom" /\ p.name \in MethodNames[v.is] ->
         IF p.name \in {"negate", "not", "size"} THEN Given(v.is, p.name, <<v>>)
         ELSE MethodOf(v, p.name)
    [] OTHER -> AnError

Mapped(answers) ==
  IF \E i \in DOMAIN answers : answers[i].is = "endless" THEN Endless
  ELSE Elements("array", answers)
Contained(answers) ==
  LET i == SelectInSeq(answers, LAMBDA b : ~(b.is = "boolean" /\ ~b.value))
  IN IF i = 0 THEN Holds(FALSE)
     ELSE IF answers[i].is \in {"boolean", "endless"} THEN answers[i] ELSE AnError
Chosen(es, answers) ==
  IF AreAll(answers, "boolean")
  THEN Elements("array", FlattenSeq([i \in DOMAIN es |->
                                       IF answers[i].value THEN <<es[i]>> ELSE <<>>]))
  ELSE AnError

RECURSIVE Meaning(_, _, _), Bound(_, _, _, _), Applied(_, _, _), Invoked(_, _, _, _)

Bound(name, escape, env, fuel) ==
  IF env = <<>> THEN Closure(Identity, <<>>)
  ELSE LET scope == Head(env)
       IN CASE name \notin ScopeNames(scope) -> Bound(name, escape, Tail(env), fuel)
            [] name \in ScopeNames(scope) /\ escape > 0 ->
                 Bound(name, escape - 1, Tail(env), fuel)
            [] name \in ScopeNames(scope) /\ escape = 0 ->
                 IF scope.is = "block" THEN Meaning(scope.bindings[name], env, fuel - 1)
                 ELSE IF Len(scope.names) = 1 THEN scope.value
                 ELSE Applied(scope.value,
                              Integer(SelectInSeq(scope.names, LAMBDA n : n = name) - 1),
                              fuel)

Applied(f, p, fuel) ==
  CASE "endless" \in {f.is, p.is} -> Endless
    [] f.is = "function" ->
         Meaning(f.body, <<[is |-> "parameters", names |-> f.names, value |-> p]>> \o f.env,
                 fuel - 1)
    [] f.is = "tuple" ->
         IF p.is = "integer" /\ p.value \in 0..Len(f.elements) - 1
         THEN f.elements[p.value + 1] ELSE AnError
    [] f.is = "library" -> IF p.is = "atom" THEN MemberOf(f.name, p.name) ELSE AnError
    [] f.is = "native" -> AppliedNative(f, p)
    [] f.is = "table" -> LET i == SelectInSeq(f.elements, LAMBDA a : a = p)
                         IN IF p.is # "atom" \/ i = 0 THEN AnError ELSE Integer(i - 1)
    [] WithMethods /\ f.is \in DOMAIN MethodNames -> MemberOfValue(f, p)
    [] f.is = "method" -> Invoked(f.of, f.name, p, fuel)
    [] f.is = "partial" ->
         IF f.value = 1 THEN Elements(f.name, Append(f.elements, p))
         ELSE Partial(f.name, f.value - 1, Append(f.elements, p))
    [] OTHER -> AnError

(* A method of an array asks a function for each of its elements.          *)
Invoked(v, name, p, fuel) ==
  LET part(i) == Applied(p, Integer(i), fuel)
      answers == [i \in DOMAIN v.elements |-> Applied(p, v.elements[i], fuel - 1)]
      next(so_far, x) == Applied(part(1), Elements("tuple", <<so_far, x>>), fuel - 1)
  IN CASE name = "map" -> Mapped(answers)
       [] name = "contains" -> Contained(answers)
       [] name = "findAll" -> Chosen(v.elements, answers)
       [] name = "fold" -> FoldLeft(next, part(0), v.elements)
       [] name \in {"if", "interval"} -> Given(v.is, name, <<v, part(0), part(1)>>)
       [] name = "join" -> Given(v.is, name, <<v>>)
       [] OTHER -> Given(v.is, name, <<v, p>>)

Meaning(e, env, fuel) ==
  CASE fuel <= 0 -> Endless
    [] fuel > 0 ->
  CASE e.is \in {"integer", "atom"} -> e
    [] e.is = "import" -> IF e.name = "builtin" THEN Library("builtin") ELSE AnError
    [] e.is = "variable" -> Bound(e.name, e.escape, env, fuel)
    [] e.is = "abstraction" -> Closure(e, env)
    [] e.is = "application" -> Applied(Meaning(e.function, env, fuel - 1),
                                       Meaning(e.parameter, env, fuel - 1), fuel)
    [] e.is = "where" -> Meaning(e.base, <<[is |-> "block", bindings |-> e.bindings]>> \o env,
                                 fuel - 1)

(* All that can be told of a result: functions are not looked into.        *)
Seen(kind, n, name, elements) ==
  [kind |-> kind, n |-> n, name |-> name, elements |-> elements]

RECURSIVE Shape(_)
Shape(v) ==
  LET elements == [i \in DOMAIN v.elements |-> Shape(v.elements[i])]
  IN CASE v.is = "integer" -> Seen(v.is, v.value, "", <<>>)
       [] v.is = "boolean" -> Seen(v.is, IF v.value THEN 1 ELSE 0, "", <<>>)
       [] v.is \in {"atom", "library"} -> Seen(v.is, 0, v.name, <<>>)
       [] v.is = "native" -> Seen(v.is, 0, v.module, <<v.name>>)
       [] v.is \in {"tuple", "array", "table"} -> Seen(v.is, 0, "", elements)
       [] v.is = "partial" -> Seen(v.is, v.value, v.name, elements)
       [] v.is = "method" -> Seen("function", 0, "", <<>>)
       [] OTHER -> Seen(v.is, 0, "", <<>>)

SortName == [Tuple |-> "tuple", Array |-> "array"]

RECURSIVE Observed(_)
Observed(v) ==
  LET all(vs) == [i \in DOMAIN vs |-> Observed(vs[i])]
      list == IF v.logic = "LargeBuilder" THEN memory.blocks[v.at].next ELSE v.at
      atoms == Data("Array", memory.blocks[v.at].next)
  IN CASE v.logic = "Integer" -> Seen("integer", v.n, "", <<>>)
       [] v.logic = "Boolean" -> Seen("boolean", v.n, "", <<>>)
       [] v.logic = "Atom" -> Seen("atom", 0, v.name, <<>>)
       [] v.logic = "NativeModule" -> Seen("library", 0, v.name, <<>>)
       [] v.logic \in DOMAIN NativeFunctions ->
            Seen("native", 0, CHOOSE m \in DOMAIN LogicName : LogicName[m] = v.logic, <<v.name>>)
       [] v.logic = "AtomTableBuilder" -> Seen("native", 0, "atom", <<"table">>)
       [] v.logic = "AtomTable" -> Seen("table", 0, "", all(ElementsOf(atoms)))
       [] v.logic \in {"Tuple", "Array"} ->
            Seen(SortName[v.logic], 0, "", all(ElementsOf(v)))
       [] v.logic \in {"FixedBuilder", "LargeBuilder"} ->
            Seen("partial", v.n, SortName[v.name], all(ListedIn(memory, list)))
       [] v.logic = "Function" -> Seen("function", 0, "", <<>>)
       [] v.logic = "Error" -> Seen("error", 0, "", <<>>)

-----------------------------------------------------------------------------
(* A bracket that is left out, 0 for none.                                 *)
Lacking(family, e) ==
  IF family = "broken" THEN BracketsOf(Text(e, LowestPriority, Nothing)) ELSE {0}

Addresses(family) ==
  CASE family \in {"chains", "pairs"} -> {s \in [1..3 -> {"a", "b", "c"}] : IsInjective(s)}
    [] family = "nested" -> {<<"a", "b">>, <<"b", "a">>}
    [] family \in {"operators", "forms", "broken"} -> {<<"", "x", "y", "z">>}
    [] family = "methods" -> {SupportAddresses}
    [] OTHER -> {<<"f", "g", "h">>}

Journeys(family) == IF family = "travelling" THEN {1, 2} ELSE {0}

Register(callback) == [function |-> Plain("None"), parameter |-> Plain("None"),
                       callback |-> callback]

Init ==
  /\ \E family \in Families :
       \E e \in Expression[family], s \in Addresses(family), n \in Journeys(family) :
       \E i \in Lacking(family, e) :
         /\ program = [expression |-> e, lacks |-> i, addresses |-> s, journeys |-> n,
                       kind |-> IF family = "methods" THEN "support code" ELSE "alone"]
         /\ module = NoModule(IF family = "methods" THEN MaxBlocksWithMethods ELSE MaxBlocks)
         /\ stride \in (IF family = "tables" THEN Strides ELSE {Min(Strides)})
  /\ constant = <<>>
  /\ index = 0
  /\ memory = NoMemory
  /\ context = Register(Plain("Done"))
  /\ support = NoSupport
  /\ outcome = "source"
  /\ sent = <<>>
  /\ hops = 0

Parsed == ParseStatement(Without(Text(program.expression, LowestPriority, Nothing),
                                 program.lacks))

(* Whatever comes of a text with errors is compiled too.  The parser may   *)
(* hang, and a check that fails stops the compiler.                        *)
CompileParsed(parsed) ==
  IF parsed.in.hangs THEN outcome' = "hung" /\ UNCHANGED module
  ELSE /\ module' = InterpretModule(Compile(parsed.made, program.addresses))
       /\ outcome' = IF \E i \in DOMAIN module'.code : module'.code[i] < 0
                     THEN "stopped" ELSE "loading"

CompileProgram ==
  /\ outcome = "source"
  /\ CompileParsed(Parsed)
  /\ UNCHANGED <<program, constant, index, memory, context, support, sent, hops, stride>>

RunProgram == (Step \/ BuiltinStep) /\ UNCHANGED <<program, sent, hops, stride>>

(* The support code comes first, and a program after it.                   *)
SetSupportCode == /\ outcome = "done"
                  /\ program.kind = "support code"
                  /\ InitSupportCode(context.parameter)
                  /\ UNCHANGED <<program, sent, hops, stride>>

NewProgram == /\ outcome = "supported"
              /\ \E e \in Methods :
                   program' = [program EXCEPT !.expression = e, !.kind = "with methods"]
              /\ context' = Register(Plain("Done"))
              /\ outcome' = "source"
              /\ UNCHANGED <<module, constant, index, memory, support, sent, hops, stride>>

(* The last machine calls what it got.                                     *)
Argument == 5
SendOn == /\ hops < program.journeys
          /\ Send(context.parameter,
                  IF hops + 1 = program.journeys THEN <<Number(Argument)>> ELSE <<>>)
          /\ UNCHANGED <<program, stride>>

Receive == RunContinueUnmarshalling /\ UNCHANGED <<program, stride>>

Ended == outcome \in {"done", "lost", "full", "stopped", "hung"} /\ UNCHANGED vars

Next == CompileProgram \/ RunProgram \/ SetSupportCode \/ NewProgram \/ SendOn \/ Receive \/ Ended

Spec == Init /\ [][Next]_vars

-----------------------------------------------------------------------------
(* Every block of the program, nested ones too.                            *)
RECURSIVE Blocks(_)
Blocks(e) ==
  CASE e.is = "abstraction" -> Blocks(e.body)
    [] e.is = "application" -> Blocks(e.function) \cup Blocks(e.parameter)
    [] e.is = "where" -> {e} \cup UNION {Blocks(Part(e, b)) : b \in PartsOf(e)}
    [] OTHER -> {}

Whole == program.lacks = 0
Intended == Meant(program.expression)
Called == hops > 0 /\ hops = program.journeys
Asked == IF Called THEN Application(Intended, Integer(Argument)) ELSE Intended

NeedsTuple == \E e \in Blocks(Parsed.made) :
                LET block == BindingInfo(e, program.addresses)
                IN \E b \in ToSet(block.order) : Len(block.recursiveVars[b]) > 1

Intends(parsed) ==
  /\ parsed.made = Intended
  /\ parsed.in.errors = 0
  /\ ~parsed.in.hangs

(* What is written becomes what is meant, and no error is reported, however*)
(* operators, functions, calls and blocks are put into each other with as  *)
(* few brackets as the priorities ask for; a text that lacks a bracket is  *)
(* reported, wherever the parser had to try more than one reading, and only*)
(* of such a text may the parser find no end.                              *)
ParsesText == outcome = "source" => IF Whole THEN Intends(Parsed) ELSE Parsed.in.errors > 0

(* Compiled code is one whole tree, in which each variable leads to a frame*)
(* or a constant; in whatever order the bindings of a block are met, each  *)
(* has all the recursive variables that it refers to or hands on; and only *)
(* a block in which one has several of them stops the compiler.            *)
CompiledCodeFits ==
  /\ outcome = "stopped" => NeedsTuple /\ NoRecursiveVar \notin ToSet(module.code)
  /\ outcome = "loading" =>
       /\ BranchEnd(module.start) = Len(module.code) + 1
       /\ \A i \in module.start..Len(module.code) :
            At(i) - FIRST_VARIABLE < DepthOf(i) + Len(module.environment)

(* "This chunk represents the code: import "builtin".tuple.builder(size)"  *)
(* (expression.cc): a block is compiled whatever its bindings refer to.    *)
CompilesEveryProgram == outcome # "stopped"

MeaningOf(e) == Meaning(e, <<>>, IF WithMethods THEN 6 * Depth ELSE Depth)

AllMean ==
  LET e == Intended
      env == <<[is |-> "block", bindings |-> e.bindings]>>
  IN e.is = "where" => \A b \in PartsOf(e) : Meaning(Part(e, b), env, Depth).is # "endless"

(* The machine ends in what the program means, although blocks were turned *)
(* into functions, names into numbers and frames were given back early; and*)
(* it ends, unless some part of the program has no meaning.  A function    *)
(* that was sent elsewhere, with the values around it, is the same there.  *)
Computes ==
  /\ outcome = "done" /\ Whole =>
       Observed(context.parameter) = Shape(MeaningOf(Asked))
  /\ outcome = "full" /\ Whole => ~AllMean

(* Frames and callbacks are given back only when nothing leads to them.    *)
(* What is said of all memory, that it is withdrawn when it is "no longer  *)
(* needed" (memory_manager.h), is not so of tuples and builders.           *)
OnlyTuplesGoEarly ==
  outcome = "lost" => \A b \in memory.freed :
                        memory.blocks[b].kind \in {"Array", "Elements", "List", "ListAndSize"}

NeverFreesReachable == outcome # "lost"
=============================================================================
