-------------------------------- MODULE Builtins --------------------------------
(***************************************************************************)
(* What the library builtin has of integers, booleans, atoms and arrays    *)
(* (vm/builtin): functions that are written in C++, tables of atoms, and   *)
(* the support code, a program in Evlan that gives numbers, booleans,      *)
(* atoms and arrays their methods and that runs before any other.          *)
(***************************************************************************)
EXTENDS Interpreter

VARIABLE stride  \* how far the addresses of two atoms are apart

(* The atoms in the order of their addresses.                              *)
AtomNames == <<"integer", "boolean", "atom", "array", "add", "subtract", "multiply", "divide",
  "equal", "notEqual", "less", "greater", "notGreater", "notLess", "negate", "and", "or", "not",
  "if", "element", "size", "interval", "map", "fold", "join", "x", "y", "z", "m", "a", "b">>
AddressOf(name) == stride * SelectInSeq(AtomNames, LAMBDA n : n = name)

-----------------------------------------------------------------------------
(* The native functions and the types of their parameters.                 *)
IsBoolean(v) == v.logic = "Boolean"
IsArray(v) == v.logic = "Array"
Truth(holds) == [Plain("Boolean") EXCEPT !.n = IF holds THEN 1 ELSE 0]

IntegerFunctions ==
  ("negate" :> <<"int">>)
    @@ [name \in {"add", "subtract", "multiply", "divide", "equal", "notEqual", "less",
                  "greater", "notGreater", "notLess"} |-> <<"int", "int">>]
BooleanFunctions ==
  ("not" :> <<"bool">>) @@ ("if" :> <<"bool", "Value", "Value">>)
    @@ [name \in {"and", "or", "xor", "equals"} |-> <<"bool", "bool">>]
AtomFunctions == [equal |-> <<"Value", "Value">>]
ArrayFunctions ==
  [builder |-> <<"int">>, tupleBuilder |-> <<"int">>, size |-> <<"Value">>,
   element |-> <<"Value", "int">>, interval |-> <<"Value", "int", "int">>, join |-> <<"Value">>]

NativeFunctions ==
  [IntegerFunction |-> IntegerFunctions, BooleanFunction |-> BooleanFunctions,
   AtomFunction |-> AtomFunctions, ArrayFunction |-> ArrayFunctions]

MembersOf(logic) == [name \in DOMAIN NativeFunctions[logic] |-> Named(logic, name)]
Members ==
  [builtin |-> [name \in {"integer", "boolean", "atom", "array"} |-> Named("NativeModule", name)],
   integer |-> MembersOf("IntegerFunction"),
   boolean |-> MembersOf("BooleanFunction") @@ ("true" :> Truth(TRUE)) @@ ("false" :> Truth(FALSE)),
   atom |-> MembersOf("AtomFunction") @@ ("table" :> Plain("AtomTableBuilder")),
   array |-> MembersOf("ArrayFunction")]

RunNativeModule ==
  /\ Runs("NativeModule")
  /\ LET members == Members[context.function.name]
     IN IF context.parameter.logic = "Atom" /\ context.parameter.name \in DOMAIN members
        THEN Return(memory, members[context.parameter.name])
        ELSE ReturnError(memory)
  /\ Loaded

-----------------------------------------------------------------------------
(* What they compute.  Numbers are divided towards zero.                   *)
Magnitude(i) == IF i < 0 THEN -i ELSE i
Quotient(i, j) ==
  LET q == Magnitude(i) \div Magnitude(j) IN IF (i < 0) = (j < 0) THEN q ELSE -q

IntegerResult(name, i, j) ==
  CASE name = "add" -> Number(i + j)
    [] name = "subtract" -> Number(i - j)
    [] name = "multiply" -> Number(i * j)
    [] name = "equal" -> Truth(i = j)
    [] name = "notEqual" -> Truth(i # j)
    [] name = "less" -> Truth(i < j)
    [] name = "greater" -> Truth(i > j)
    [] name = "notGreater" -> Truth(i <= j)
    [] name = "notLess" -> Truth(i >= j)

BooleanResult(name, a, b) ==
  Truth(CASE name = "and" -> a /\ b
          [] name = "or" -> a \/ b
          [] name = "equals" -> a = b
          [] name = "xor" -> a # b)

NativeResult(function, args) ==
  CASE function = Named("IntegerFunction", "negate") -> Number(-args[1].n)
    [] function = Named("BooleanFunction", "not") -> Truth(args[1].n = 0)
    [] function = Named("BooleanFunction", "if") -> IF args[1].n = 1 THEN args[2] ELSE args[3]
    [] function.logic = "IntegerFunction" /\ Len(args) = 2 ->
         IntegerResult(function.name, args[1].n, args[2].n)
    [] function.logic = "BooleanFunction" /\ Len(args) = 2 ->
         BooleanResult(function.name, args[1].n = 1, args[2].n = 1)

(* Functions that use the context, and may allocate.                       *)
Divide(i, j) == IF j = 0 THEN ReturnError(memory) ELSE Return(memory, Number(Quotient(i, j)))

AtomEquals(a, b) ==
  IF {a.logic, b.logic} = {"Atom"} THEN Return(memory, Truth(a.name = b.name))
  ELSE ReturnError(memory)

GetElement(array, i) ==
  IF IsArray(array) /\ IsElement(array, Number(i))
  THEN Return(memory, ElementsOf(array)[i + 1]) ELSE ReturnError(memory)

GetInterval(array, start, end) ==
  IF IsArray(array) /\ start >= 0 /\ start <= end /\ end <= TupleSize(array)
  THEN LET block == IF array.at = 0 THEN 0 ELSE memory.blocks[array.at].next
           new == AliasArray(memory, SubSeq(ElementsOf(array), start + 1, end), block)
       IN Return(new, Data("Array", Newest(new)))
  ELSE ReturnError(memory)

Join(array) ==
  IF IsArray(array) /\ \A part \in ToSet(ElementsOf(array)) : IsArray(part)
  THEN LET parts == ElementsOf(array)
           new == NewArray(memory, FlattenSeq([i \in DOMAIN parts |-> ElementsOf(parts[i])]))
       IN Return(new, Data("Array", Newest(new)))
  ELSE ReturnError(memory)

TakesContext(function) ==
  function.logic \in {"ArrayFunction", "AtomFunction"} \/ function.name = "divide"

RunWithContext(function, args) ==
  CASE function.name = "divide" -> Divide(args[1].n, args[2].n)
    [] function.logic = "AtomFunction" -> AtomEquals(args[1], args[2])
    [] function.name = "builder" -> MakeBuilder("Array", args[1].n)
    [] function.name = "tupleBuilder" -> MakeBuilder("Tuple", args[1].n)
    [] function.name = "size" -> IF IsArray(args[1]) THEN Return(memory, Number(TupleSize(args[1])))
                                 ELSE ReturnError(memory)
    [] function.name = "element" -> GetElement(args[1], args[2].n)
    [] function.name = "interval" -> GetInterval(args[1], args[2].n, args[3].n)
    [] function.name = "join" -> Join(args[1])

(* The wrapper around a native function: the number of its parameters is   *)
(* checked, then each is translated; an error is passed on.  The tuple of  *)
(* the parameters is given back, but not where the function may allocate.  *)
CheckArity(types) ==
  Len(types) = 1 \/ (IsTuple(context.parameter) /\ TupleSize(context.parameter) = Len(types))
TranslateParameter(v, type) == CASE type = "int" -> v.logic = "Integer"
                                 [] type = "bool" -> IsBoolean(v)
                                 [] type = "Value" -> ~IsError(v)

Parameters(types) ==
  IF Len(types) = 1 THEN <<context.parameter>> ELSE ElementsOf(context.parameter)
BadParameters(types) ==
  {i \in DOMAIN types : ~TranslateParameter(Parameters(types)[i], types[i])}

RunNativeFunction ==
  /\ \E logic \in DOMAIN NativeFunctions : Runs(logic)
  /\ LET types == NativeFunctions[context.function.logic][context.function.name]
         wrong == BadParameters(types)
         args == Parameters(types)
         first == args[Min(wrong)]
         plain == Return(IF Len(types) = 1 THEN memory
                         ELSE WithdrawTuple(memory, context.parameter),
                         NativeResult(context.function, args))
     IN CASE IsError(context.parameter) -> Return(memory, context.parameter)
          [] ~IsError(context.parameter) /\ ~CheckArity(types) -> ReturnError(memory)
          [] ~IsError(context.parameter) /\ CheckArity(types) /\ wrong # {} ->
               IF IsError(first) THEN Return(memory, first) ELSE ReturnError(memory)
          [] OTHER -> IF TakesContext(context.function)
                      THEN RunWithContext(context.function, args) ELSE plain
  /\ Loaded

-----------------------------------------------------------------------------
(* Tables of atoms: closed hash tables with double hashing.  A bucket is   *)
(* an atom with its number, or empty.                                      *)
kPrimes == <<3, 5, 11, 23, 53>>
ComputeTableSize(elements) == Min({p \in ToSet(kPrimes) : p >= elements * 2})

EmptyBucket == Plain("None")
IsEmpty(bucket) == bucket = EmptyBucket

(* The buckets are tried in an order that depends on the atom.             *)
BucketSequence(name, size) ==
  LET interval == (AddressOf(name) % (size - 1)) + 1
  IN [k \in 1..size |-> ((AddressOf(name) + (k - 1) * interval) % size) + 1]

(* Mutant: a bucket that is taken is taken again.                          *)
Insert_Over(buckets, name, value) ==
  [buckets EXCEPT ![BucketSequence(name, Len(buckets))[1]] =
     [Named("Atom", name) EXCEPT !.n = value]]
Insert(buckets, name, value) ==
  LET sequence == BucketSequence(name, Len(buckets))
  IN [buckets EXCEPT ![sequence[SelectInSeq(sequence, LAMBDA b : IsEmpty(buckets[b]))]] =
        [Named("Atom", name) EXCEPT !.n = value]]

(* The number of an atom, -1 if it is not there.                           *)
LookupAtom(buckets, name) ==
  LET sequence == BucketSequence(name, Len(buckets))
      found == SelectInSeq(sequence, LAMBDA b : IsEmpty(buckets[b]) \/ buckets[b].name = name)
  IN IF IsEmpty(buckets[sequence[found]]) THEN -1 ELSE buckets[sequence[found]].n

(* The table keeps the array that it was made from.                        *)
RunAtomTableBuilder ==
  /\ Runs("AtomTableBuilder")
  /\ LET array == context.parameter
         names == ElementsOf(array)
         empty == [b \in 1..ComputeTableSize(Len(names)) |-> EmptyBucket]
         filled == FoldLeft(LAMBDA buckets, i : Insert(buckets, names[i].name, i - 1),
                            empty, [i \in DOMAIN names |-> i])
         new == Allocate(memory, "AtomTable", filled, array.at, 0)
     IN IF IsArray(array) /\ \A element \in ToSet(names) : element.logic = "Atom"
        THEN Return(new, Data("AtomTable", Newest(new))) ELSE ReturnError(memory)
  /\ Loaded

RunAtomTable ==
  /\ Runs("AtomTable")
  /\ LET value == LookupAtom(Here.values, context.parameter.name)
     IN IF context.parameter.logic # "Atom" \/ value = -1 THEN ReturnError(memory)
        ELSE Return(memory, Number(value))
  /\ Loaded

-----------------------------------------------------------------------------
(* The methods of a value are what the support code makes of it.  Until it *)
(* is there PlaceholderLogic stands in.                                    *)
Types == <<"Integer", "Boolean", "Atom", "Array">>
TypeNames == <<"integer", "boolean", "atom", "array">>
Placeholder == Plain("Placeholder")
NoSupport == [type \in ToSet(Types) |-> Placeholder] @@ [module |-> Plain("None")]

RunSupportCode ==
  /\ \E type \in ToSet(Types) : Runs(type)
  /\ LET impl == support[context.function.logic]
         new == Allocate(memory, "ApplyToValue", <<context.parameter, context.callback>>, 0, 0)
     IN IF impl = Placeholder THEN ReturnError(memory)
        ELSE SetNext(new, impl, context.function, Data("ApplyToValue", Newest(new)))
  /\ Loaded

RunApplyToValue ==
  /\ Runs("ApplyToValue")
  /\ SetNext(memory, context.parameter, Here.values[1], Here.values[2])
  /\ Loaded

(* The support module is asked for each type, and kept until it was asked  *)
(* for all.                                                                *)
AskFor(support_module, i) ==
  SetNext(memory, support_module, Named("Atom", TypeNames[i]),
          [Plain("InitSupportCode") EXCEPT !.n = i])

InitSupportCode(support_module) ==
  /\ support' = [support EXCEPT !.module = support_module]
  /\ AskFor(support_module, 1)
  /\ UNCHANGED <<module, constant, index>>

RunInitSupportCode ==
  /\ Runs("InitSupportCode")
  /\ LET i == context.function.n
         known == [support EXCEPT ![Types[i]] = context.parameter]
     IN IF i < Len(Types)
        THEN support' = known /\ AskFor(support.module, i + 1)
        ELSE /\ support' = [known EXCEPT !.module = Plain("None")]
             /\ outcome' = "supported"
             /\ UNCHANGED <<memory, context>>
  /\ UNCHANGED <<module, constant, index>>

BuiltinStep == \/ RunNativeModule \/ RunNativeFunction
               \/ RunAtomTableBuilder \/ RunAtomTable
               \/ RunSupportCode \/ RunApplyToValue \/ RunInitSupportCode
=============================================================================
