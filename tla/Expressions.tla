------------------------------ MODULE Expressions ------------------------------
(***************************************************************************)
(* The compiler of expression.cc: an expression becomes a table of         *)
(* constants and a code tree of applications, abstractions and variables,  *)
(* written out in preorder, in which names are numbers of frames.  Where   *)
(* blocks are the hard part: their bindings are put into an order, and one *)
(* that refers to a binding that comes no earlier gets it as a parameter.  *)
(***************************************************************************)
EXTENDS CodeTrees, Sequences, SequencesExt, FiniteSetsExt

(* What the parser builds.  bindings maps the names of a where block to    *)
(* expressions.                                                            *)
Variable(name, escape) == [is |-> "variable", name |-> name, escape |-> escape]
Abstraction(names, body) == [is |-> "abstraction", names |-> names, body |-> body]
Application(f, p) == [is |-> "application", function |-> f, parameter |-> p]
Integer(n) == [is |-> "integer", value |-> n]
Atom(name) == [is |-> "atom", name |-> name]
Import(name) == [is |-> "import", name |-> name]
Where(base, bindings) == [is |-> "where", base |-> base, bindings |-> bindings]

(* An application to several parameters is one to a tuple.                 *)
MakeTuple(elements) ==
  LET builder == Application(Application(Import("builtin"), Atom("array")),
                             Atom("tupleBuilder"))
  IN FoldLeft(Application, Application(builder, Integer(Len(elements))), elements)

(* The parts of a where block: its bindings and its base.                  *)
Base == "the base"
Part(e, b) == IF b = Base THEN e.base ELSE e.bindings[b]
PartsOf(e) == DOMAIN e.bindings \cup {Base}

-----------------------------------------------------------------------------
(* First pass: the names that leave an expression, each with the number of *)
(* scopes of that name it has still to pass.                               *)
Outward(names, references) ==
  {r \in references : r[1] \notin names}
    \cup {<<r[1], r[2] - 1>> : r \in {s \in references : s[1] \in names /\ s[2] > 0}}

RECURSIVE References(_)
References(e) ==
  CASE e.is = "variable" -> {<<e.name, e.escape>>}
    [] e.is = "abstraction" -> Outward(ToSet(e.names), References(e.body))
    [] e.is = "application" -> References(e.function) \cup References(e.parameter)
    [] e.is = "where" -> Outward(DOMAIN e.bindings,
                                 UNION {References(Part(e, b)) : b \in PartsOf(e)})
    [] OTHER -> {}

(* The bindings are kept in sets ordered by their addresses in memory.     *)
Dependencies(e) ==
  [b \in PartsOf(e) |-> {d \in DOMAIN e.bindings : <<d, 0>> \in References(Part(e, b))}]

(* Depth first: a binding comes after those it depends on, unless it is    *)
(* among what they depend on.                                              *)
RECURSIVE Order(_, _, _, _)
Order(dependencies, addresses, binding, found) ==
  LET visit(so_far, d) == IF d \in so_far.met THEN so_far
                          ELSE Order(dependencies, addresses, d, so_far)
      siblings == SelectSeq(addresses, LAMBDA d : d \in dependencies[binding])
      after == FoldLeft(visit, [found EXCEPT !.met = @ \cup {binding}], siblings)
  IN [after EXCEPT !.order = Append(@, binding)]

IndexIn(order, b) == SelectInSeq(order, LAMBDA d : d = b) - 1

(* A dependent of a binding that takes recursive variables has to have     *)
(* those itself, to hand them on.                                          *)
RECURSIVE AddDependencyToDependents(_, _, _, _)
AddDependencyToDependents(block, addresses, binding, dependency) ==
  LET add(so_far, dependent) ==
        IF dependency \in so_far.dependencies[dependent] THEN so_far
        ELSE LET known == [so_far EXCEPT !.dependencies[dependent] = @ \cup {dependency}]
             IN IF block.index[dependent] > block.index[dependency] THEN known
                ELSE AddDependencyToDependents(
                       [known EXCEPT !.recursiveVars[dependent] = Append(@, dependency)],
                       addresses, dependent, dependency)
  IN FoldLeft(add, block,
              SelectSeq(addresses, LAMBDA d : d \in block.dependents[binding]))

(* Mutant: only the first recursive variable is handed on.                *)
HandOn_First(block, addresses, binding, i) ==
  IF block.recursiveVars[binding] = <<>> THEN block
  ELSE AddDependencyToDependents(block, addresses, binding,
                                 Head(block.recursiveVars[binding]))

RECURSIVE HandOn(_, _, _, _)
HandOn(block, addresses, binding, i) ==
  IF i > Len(block.recursiveVars[binding]) THEN block
  ELSE HandOn(AddDependencyToDependents(block, addresses, binding,
                                        block.recursiveVars[binding][i]),
              addresses, binding, i + 1)

(* What VisitDependencies finds out about a where block.                   *)
BindingInfo(e, addresses) ==
  LET dependencies == Dependencies(e)
      order == Order(dependencies, addresses, Base, [met |-> {}, order |-> <<>>]).order
      index == [b \in ToSet(order) |-> IndexIn(order, b)]
      later(b) == SelectSeq(addresses, LAMBDA d : d \in dependencies[b]
                                                  /\ index[b] <= index[d])
      block == [order |-> order, index |-> index, dependencies |-> dependencies,
                recursiveVars |-> [b \in ToSet(order) |-> later(b)],
                dependents |-> [d \in PartsOf(e) |->
                                  {b \in ToSet(order) : d \in dependencies[b]}]]
      handOn(so_far, b) == HandOn(so_far, addresses, b, 1)
  IN FoldLeft(handOn, block, order)

-----------------------------------------------------------------------------
(* The table of constants.                                                 *)

AnInteger(n) == <<"integer", n>>
AnAtom(name) == <<"atom", name>>
AnImport(name) == <<"import", name>>

(* Parameters of a function of several are elements of a tuple, and so are *)
(* the recursive variables of a binding that has several: of the first     *)
(* such binding of a block, the numbers are entered.                       *)
ParameterNumbers(e) ==
  IF Len(e.names) = 1 THEN {}
  ELSE {AnInteger(SelectInSeq(e.names, LAMBDA n : n = r[1]) - 1) :
          r \in {s \in References(e.body) : s[1] \in ToSet(e.names) /\ s[2] = 0}}

TupleEntries(block) ==
  LET several == SelectSeq(block.order, LAMBDA b : Len(block.recursiveVars[b]) > 1)
  IN IF several = <<>> THEN {}
     ELSE {AnImport("builtin"), AnAtom("tuple"), AnAtom("builder")}
            \cup {AnInteger(j) : j \in 0..Len(block.recursiveVars[Head(several)])}

RECURSIVE Entries(_, _)
Entries(e, addresses) ==
  CASE e.is = "variable" -> {}
    [] e.is = "abstraction" -> ParameterNumbers(e) \cup Entries(e.body, addresses)
    [] e.is = "application" -> Entries(e.function, addresses)
                                 \cup Entries(e.parameter, addresses)
    [] e.is = "integer" -> {AnInteger(e.value)}
    [] e.is = "atom" -> {AnAtom(e.name)}
    [] e.is = "import" -> {AnImport(e.name)}
    [] e.is = "where" -> TupleEntries(BindingInfo(e, addresses))
                           \cup UNION {Entries(Part(e, b), addresses) : b \in PartsOf(e)}

(* Imports come first, then integers, then atoms.                          *)
Finalize(entries) ==
  LET listed(kind) == FoldSet(LAMBDA x, so_far : Append(so_far, x), <<>>,
                              {x \in entries : x[1] = kind})
  IN listed("import") \o listed("integer") \o listed("atom")

-----------------------------------------------------------------------------
(* Second pass.  A scope is the frames around an expression, the innermost *)
(* first.  The code is numbers; two that are negative mark the places where*)
(* a check stops the compiler: the table of constants lacks an entry, or a *)
(* binding lacks a recursive variable that it refers to.                   *)
NoEntry == -1
NoRecursiveVar == -2

Frame(names, level) == [of |-> "abstraction", names |-> names, level |-> level]
Block(block, level, visiting) ==
  [of |-> "where", block |-> block, level |-> level, visiting |-> visiting]

NamesOf(frame) == IF frame.of = "abstraction" THEN ToSet(frame.names)
                  ELSE DOMAIN frame.block.dependents \ {Base}

Lookup(table, entry, level) ==
  IF entry \in ToSet(table)
  THEN <<FIRST_VARIABLE + level + SelectInSeq(table, LAMBDA x : x = entry) - 1>>
  ELSE <<NoEntry>>

(* An element of a tuple that is bound variableLevel frames out.           *)
ElementOf(variableLevel, i, level, table) ==
  <<APPLICATION, FIRST_VARIABLE + variableLevel>> \o Lookup(table, AnInteger(i), level)

ParameterReference(frame, name, level, table) ==
  LET variableLevel == level - frame.level - 1
  IN IF Len(frame.names) = 1 THEN <<FIRST_VARIABLE + variableLevel>>
     ELSE ElementOf(variableLevel, SelectInSeq(frame.names, LAMBDA n : n = name) - 1,
                    level, table)

(* Mutant: the frames around the block are forgotten.                      *)
AddBindingReference_Level(frame, binding, level, table) ==
  LET index == frame.block.index
      passed == frame.block.recursiveVars[frame.visiting]
      variableLevel == level - index[frame.visiting] - 1
  IN IF index[frame.visiting] > index[binding]
     THEN <<FIRST_VARIABLE + level - index[binding] - 1>>
     ELSE IF binding \notin ToSet(passed) THEN <<NoRecursiveVar>>
     ELSE IF Len(passed) = 1 THEN <<FIRST_VARIABLE + variableLevel>>
     ELSE ElementOf(variableLevel, IndexIn(passed, binding), level, table)

AddBindingReference(frame, binding, level, table) ==
  LET index == frame.block.index
      passed == frame.block.recursiveVars[frame.visiting]
      variableLevel == level - (frame.level + index[frame.visiting]) - 1
  IN IF index[frame.visiting] > index[binding]
     THEN <<FIRST_VARIABLE + level - (frame.level + index[binding]) - 1>>
     ELSE IF binding \notin ToSet(passed) THEN <<NoRecursiveVar>>
     ELSE IF Len(passed) = 1 THEN <<FIRST_VARIABLE + variableLevel>>
     ELSE ElementOf(variableLevel, IndexIn(passed, binding), level, table)

(* A binding that takes recursive variables is given them; several of them *)
(* as a tuple, made by code that means import "builtin".tuple.builder(n).  *)
BindingReference(frame, binding, level, table) ==
  LET vars == frame.block.recursiveVars[binding]
      reference(b) == AddBindingReference(frame, b, level, table)
      passing == FlattenSeq([i \in DOMAIN vars |-> reference(vars[i])])
      builder == <<APPLICATION, APPLICATION, APPLICATION>>
                   \o Lookup(table, AnImport("builtin"), level)
                   \o Lookup(table, AnImport("tuple"), level)
                   \o Lookup(table, AnAtom("builder"), level)
                   \o Lookup(table, AnInteger(Len(vars)), level)
  IN CASE Len(vars) = 0 -> reference(binding)
       [] Len(vars) = 1 -> <<APPLICATION>> \o reference(binding) \o passing
       [] OTHER -> <<APPLICATION>> \o reference(binding)
                     \o [i \in DOMAIN vars |-> APPLICATION] \o builder \o passing

(* A name nobody defines is an error, and stands for the identity.         *)
RECURSIVE AddVariableReference(_, _, _, _, _)
AddVariableReference(name, escape, level, scope, table) ==
  IF scope = <<>> THEN <<ABSTRACTION, FIRST_VARIABLE>>
  ELSE LET frame == Head(scope)
       IN CASE name \notin NamesOf(frame) ->
                 AddVariableReference(name, escape, level, Tail(scope), table)
            [] name \in NamesOf(frame) /\ escape > 0 ->
                 AddVariableReference(name, escape - 1, level, Tail(scope), table)
            [] name \in NamesOf(frame) /\ escape = 0 ->
                 IF frame.of = "abstraction"
                 THEN ParameterReference(frame, name, level, table)
                 ELSE BindingReference(frame, name, level, table)

RECURSIVE BuildCodeTree(_, _, _, _, _)
BuildCodeTree(e, level, scope, table, addresses) ==
  CASE e.is = "variable" -> AddVariableReference(e.name, e.escape, level, scope, table)
    [] e.is = "abstraction" ->
         <<ABSTRACTION>> \o BuildCodeTree(e.body, level + 1,
                                <<Frame(e.names, level)>> \o scope, table, addresses)
    [] e.is = "application" ->
         <<APPLICATION>> \o BuildCodeTree(e.function, level, scope, table, addresses)
                         \o BuildCodeTree(e.parameter, level, scope, table, addresses)
    [] e.is = "integer" -> Lookup(table, AnInteger(e.value), level)
    [] e.is = "atom" -> Lookup(table, AnAtom(e.name), level)
    [] e.is = "import" -> Lookup(table, AnImport(e.name), level)
    [] e.is = "where" ->
         (* (x => (y => base)(value of y))(value of x) *)
         LET block == BindingInfo(e, addresses)
             last == Len(block.order) - 1
             opening == FlattenSeq([i \in 1..last |-> <<APPLICATION, ABSTRACTION>>])
             value(b) ==
               LET i == block.index[b]
                   inner == <<Block(block, level, b)>> \o scope
               IN IF block.recursiveVars[b] = <<>>
                  THEN BuildCodeTree(Part(e, b), level + i, inner, table, addresses)
                  ELSE <<ABSTRACTION>>
                         \o BuildCodeTree(Part(e, b), level + i + 1, inner, table, addresses)
             backwards == Reverse(block.order)
         IN opening \o FlattenSeq([i \in DOMAIN backwards |-> value(backwards[i])])

(* The module that an expression becomes.                                  *)
Compile(e, addresses) ==
  LET table == Finalize(Entries(e, addresses))
  IN [constants |-> table, code |-> BuildCodeTree(e, 0, <<>>, table, addresses)]
=============================================================================
