------------------------------- MODULE SupportCode -------------------------------
(***************************************************************************)
(* The support code, api/builtinSupport.evlan, as one writes it: a module  *)
(* that gives integers, booleans, atoms and arrays their methods.  Its     *)
(* other types, and mapWithIndex, sequentialMap and count, are left out.   *)
(***************************************************************************)
EXTENDS Texts

CallIt(name, arguments) == Call(V(name), arguments)
CallMember(base, name, arguments) == Call(Member(V(base), name), arguments)
Self == V("self")

(* add = other => builtinInteger.add(self, other).                         *)
Forwarded(library, name) ==
  Assign(name, Fn(<<"other">>, CallMember(library, name, <<Self, V("other")>>)))

BooleanMethods ==
  <<Forwarded("builtinBoolean", "and"), Forwarded("builtinBoolean", "or"),
    Assign("not", CallMember("builtinBoolean", "not", <<Self>>)),
    Assign("if", Fn(<<"trueClause", "falseClause">>,
                    CallMember("builtinBoolean", "if",
                               <<Self, V("trueClause"), V("falseClause")>>)))>>

IntegerMethods ==
  Each(LAMBDA name : Forwarded("builtinInteger", name),
       <<"add", "subtract", "multiply", "divide", "equal", "notEqual", "less", "greater",
         "notGreater", "notLess">>)
    \o <<Assign("negate", CallMember("builtinInteger", "negate", <<Self>>))>>

AtomMethods ==
  <<Forwarded("builtinAtom", "equal"),
    Assign("notEqual",
           Fn(<<"other">>, CallMember("builtinBoolean", "not",
                             <<CallMember("builtinAtom", "equal", <<Self, V("other")>>)>>)))>>

(* makeArray(size, makeElement).                                           *)
MakeArrayBinding ==
  LET next == CallIt("builder",
                     <<CallIt("makeElement", <<Infix("-", V("size"), V("i"))>>)>>)
      body == If(Infix("==", V("i"), Integer(0)), V("builder"),
                 CallIt("loop", <<next, Infix("-", V("i"), Integer(1))>>))
  IN Fn(<<"size", "makeElement">>,
        Where(CallIt("loop", <<CallMember("builtinArray", "builder", <<V("size")>>), V("size")>>),
              [loop |-> Fn(<<"builder", "i">>, body)]))

ElementAt(i) == CallIt("element", <<i>>)
NextIndex == Infix("+", V("i"), Integer(1))

FoldMethod ==
  LET next == CallIt("foldFunction", <<V("value"), ElementAt(V("i"))>>)
      body == If(Infix("==", V("i"), V("size")), V("value"),
                 CallIt("loop", <<next, NextIndex>>))
  IN Fn(<<"initialValue", "foldFunction">>,
        Where(CallIt("loop", <<V("initialValue"), Integer(0)>>),
              [loop |-> Fn(<<"value", "i">>, body)]))

ContainsMethod ==
  LET body == If(Infix("==", V("i"), V("size")), Boolean(FALSE),
                 If(CallIt("isMatch", <<ElementAt(V("i"))>>), Boolean(TRUE),
                    CallIt("loop", <<NextIndex>>)))
  IN Fn(<<"isMatch">>, Where(CallIt("loop", <<Integer(0)>>), [loop |-> Fn(<<"i">>, body)]))

FindAllMethod ==
  LET perhaps == If(CallIt("shouldIncludeElement", <<V("element")>>),
                    List(<<V("element")>>), List(<<>>))
  IN Fn(<<"shouldIncludeElement">>,
        Call(Member(CallIt("map", <<Fn(<<"element">>, perhaps)>>), "join"), <<>>))

ArrayMethods ==
  <<Assign("element",
           Fn(<<"index">>, CallMember("builtinArray", "element", <<Self, V("index")>>))),
    Assign("size", CallMember("builtinArray", "size", <<Self>>)),
    Assign("interval",
           Fn(<<"start", "end">>,
              CallMember("builtinArray", "interval", <<Self, V("start"), V("end")>>))),
    Assign("map", Fn(<<"mapElement">>,
                     CallIt("makeArray",
                            <<V("size"),
                              Fn(<<"i">>, CallIt("mapElement", <<ElementAt(V("i"))>>))>>))),
    Assign("fold", FoldMethod),
    Assign("contains", ContainsMethod),
    Assign("join", Fn(<<>>, CallMember("builtinArray", "join", <<Self>>))),
    Assign("findAll", FindAllMethod)>>

BuiltinSupport ==
  LET methods(type, members) == Assign(type, Fn(<<"self">>, ObjectOf(members)))
      builtin(name) == Member(V("builtin"), name)
  IN Where(V("builtinSupport"),
           [builtin |-> Import("builtin"),
            builtinInteger |-> builtin("integer"),
            builtinBoolean |-> builtin("boolean"),
            builtinAtom |-> builtin("atom"),
            builtinArray |-> builtin("array"),
            makeArray |-> MakeArrayBinding,
            builtinSupport |->
              ObjectOf(<<methods("boolean", BooleanMethods), methods("integer", IntegerMethods),
                         methods("atom", AtomMethods), methods("array", ArrayMethods)>>)])

(* The names of bindings in the order of their addresses.                  *)
SupportAddresses ==
  <<"self", "builtin", "builtinInteger", "builtinBoolean", "builtinAtom", "builtinArray",
    "makeArray", "builtinSupport", "loop", "boolean", "integer", "atom", "array", "and", "or",
    "not", "if", "add", "subtract", "multiply", "divide", "equal", "notEqual", "less",
    "greater", "notGreater", "notLess", "negate", "element", "size", "interval", "map", "fold",
    "contains", "join", "findAll", "a", "b", "c", "f", "g", "m", "x", "y", "z">>
=============================================================================
