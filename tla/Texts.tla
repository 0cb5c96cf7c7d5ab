---------------------------------- MODULE Texts ----------------------------------
(***************************************************************************)
(* The language as one writes it: what a programmer means, the text he     *)
(* writes for it with brackets only where the language needs them, and the *)
(* expression that is to come of it.                                       *)
(***************************************************************************)
EXTENDS Parser

(* All that expressions are made of, and what is only in the text.         *)
Infix(operator, left, right) ==
  [is |-> "infix", name |-> operator, base |-> left, value |-> right]
Prefix(operator, operand) == [is |-> "prefix", name |-> operator, base |-> operand]
Member(base, name) == [is |-> "member", base |-> base, name |-> name]
Subscript(base, i) == [is |-> "subscript", base |-> base, value |-> i]
Call(base, parts) == [is |-> "call", base |-> base, elements |-> parts]
CallOf(base, parts) == [is |-> "call of", base |-> base, elements |-> parts]
List(parts) == [is |-> "list", elements |-> parts]
ListOf(parts) == [is |-> "list of", elements |-> parts]
Object(members) == [is |-> "object", elements |-> members]
ObjectOf(members) == [is |-> "object of", elements |-> members]
WhereOne(base, member) == [is |-> "where one", base |-> base, value |-> member]
If(condition, yes, no) == [is |-> "if", base |-> condition, elements |-> <<yes, no>>]
Boolean(value) == [is |-> "boolean", value |-> value]
Brackets(s) == [is |-> "brackets", base |-> s]
Assign(name, value) == [name |-> name, value |-> value]
Assignments(bindings) ==
  Each(LAMBDA name : Assign(name, bindings[name]), SetToSeq(DOMAIN bindings))

-----------------------------------------------------------------------------
(* The expression that is meant.                                           *)
RECURSIVE Meant(_)
Meant(s) ==
  LET all(parts) == Each(LAMBDA part : Meant(part), parts)
      members(as) == Each(LAMBDA a : Assign(a.name, Meant(a.value)), as)
      call(f, parts) == Application(f, IF Len(parts) = 1 THEN parts[1] ELSE MakeTuple(parts))
  IN CASE s.is \in {"variable", "integer", "atom", "import"} -> s
       [] s.is = "abstraction" -> Abstraction(s.names, Meant(s.body))
       [] s.is = "application" -> Application(Meant(s.function), Meant(s.parameter))
       [] s.is = "where" -> Where(Meant(s.base), Bindings(members(Assignments(s.bindings))))
       [] s.is = "where one" -> Where(Meant(s.base), Bindings(members(<<s.value>>)))
       [] s.is = "infix" ->
            call(Application(Meant(s.base), Atom(kInfixOperators[s.name].function)),
                 <<Meant(s.value)>>)
       [] s.is = "prefix" -> Application(Meant(s.base), Atom(kPrefixOperators[s.name].function))
       [] s.is = "member" -> Application(Meant(s.base), Atom(s.name))
       [] s.is = "subscript" -> MakeSubscript(Meant(s.base), Meant(s.value))
       [] s.is \in {"call", "call of"} -> call(Meant(s.base), all(s.elements))
       [] s.is \in {"list", "list of"} -> MakeArray(all(s.elements))
       [] s.is \in {"object", "object of"} -> MakeObject(members(s.elements))
       [] s.is = "if" -> MakeIf(Meant(s.base), Meant(s.elements[1]), Meant(s.elements[2]))
       [] s.is = "boolean" -> MakeBooleanLiteral(s.value)
       [] s.is = "brackets" -> Meant(s.base)

-----------------------------------------------------------------------------
(* The text.  Operators of a priority below min cannot be taken up where s *)
(* stands, and what comes next has a priority too: nothing, a where, an    *)
(* operator, or something that belongs to an item and binds tightest.      *)
Nothing == 0
AWhere == 1
Tightest == 100

Enclosed(open, text, close) == <<Keyword(open)>> \o text \o <<Keyword(close)>>
Separated(texts) ==
  FoldLeft(LAMBDA so_far, text : IF so_far = <<>> THEN text
                                 ELSE so_far \o <<Keyword(",")>> \o text, <<>>, texts)
NameText(name) == <<Identifier(name)>>
NamesText(names) == Enclosed("(", Separated(Each(NameText, names)), ")")

(* A function, an if or a where block takes in all that follows it.        *)
NeedsBrackets(s, min, next) ==
  CASE s.is = "infix" -> LET p == kInfixOperators[s.name].priority IN p < min \/ p < next
    [] s.is = "prefix" -> next > kPrefixOperators[s.name].priority /\ next >= min
    [] s.is \in {"abstraction", "if"} -> next # Nothing
    [] s.is \in {"where", "where one"} -> min # LowestPriority \/ next # Nothing
    [] OTHER -> FALSE

RECURSIVE Text(_, _, _), Unenclosed(_, _, _)
Text(s, min, next) ==
  IF NeedsBrackets(s, min, next)
  THEN Enclosed("(", Unenclosed(s, LowestPriority, Nothing), ")")
  ELSE Unenclosed(s, min, next)

Unenclosed(s, min, next) ==
  LET alone(t) == Text(t, LowestPriority, Nothing)
      all(ts) == Each(alone, ts)
      item == Text(s.base, Tightest, Tightest)
      assign(a) == NameText(a.name) \o <<Keyword("=")>> \o alone(a.value)
      declare(a) == IF a.value.is # "abstraction" THEN assign(a)
                    ELSE NameText(a.name) \o NamesText(a.value.names) \o <<Keyword("=")>>
                           \o alone(a.value.body)
      block(texts) == <<BlockToken(texts)>>
  IN CASE s.is = "variable" -> [i \in 1..s.escape |-> Keyword("\\")] \o NameText(s.name)
       [] s.is = "integer" -> <<IntegerToken(s.value)>>
       [] s.is = "atom" -> <<Keyword("@")>> \o NameText(s.name)
       [] s.is = "import" -> <<Keyword("import"), Quoted(s.name)>>
       [] s.is = "boolean" -> <<Keyword(IF s.value THEN "true" ELSE "false")>>
       [] s.is = "abstraction" ->
            (IF Len(s.names) = 1 THEN NameText(s.names[1]) ELSE NamesText(s.names))
              \o <<Keyword("=>")>> \o alone(s.body)
       [] s.is = "application" ->
            Text(s.function, Tightest, Tightest) \o Enclosed("(", alone(s.parameter), ")")
       [] s.is = "where" ->
            Text(s.base, LowestPriority, AWhere) \o <<Keyword("where")>>
              \o block(Each(declare, Assignments(s.bindings)))
       [] s.is = "where one" ->
            Text(s.base, LowestPriority, AWhere) \o <<Keyword("where")>> \o declare(s.value)
       [] s.is = "infix" ->
            LET priority == kInfixOperators[s.name].priority
            IN Text(s.base, min, priority) \o <<Keyword(s.name)>>
                 \o Text(s.value, priority + 1, next)
       [] s.is = "prefix" ->
            <<Keyword(s.name)>>
              \o Text(s.base, Max({min, kPrefixOperators[s.name].priority + 1}), next)
       [] s.is = "member" -> item \o <<Keyword(".")>> \o NameText(s.name)
       [] s.is = "subscript" -> item \o Enclosed("[", alone(s.value), "]")
       [] s.is = "call" -> item \o Enclosed("(", Separated(all(s.elements)), ")")
       [] s.is = "call of" -> item \o <<Keyword("of")>> \o block(all(s.elements))
       [] s.is = "list" -> Enclosed("{", Separated(all(s.elements)), "}")
       [] s.is = "list of" -> <<Keyword("array"), Keyword("of")>> \o block(all(s.elements))
       [] s.is = "object" -> Enclosed("{", Separated(Each(assign, s.elements)), "}")
       [] s.is = "object of" ->
            <<Keyword("object"), Keyword("of")>> \o block(Each(declare, s.elements))
       [] s.is = "if" ->
            <<Keyword("if")>> \o alone(s.base) \o <<Keyword("then")>> \o alone(s.elements[1])
              \o <<Keyword("else")>> \o alone(s.elements[2])
       [] s.is = "brackets" -> Enclosed("(", alone(s.base), ")")

(* A text that lacks one of its brackets.                                  *)
IsBracket(token) == token.type = "KEYWORD" /\ token.text \in {"(", ")", "{", "}", "[", "]"}
BracketsOf(text) == {i \in DOMAIN text : IsBracket(text[i])}
Without(text, i) == IF i = 0 THEN text ELSE RemoveAt(text, i)

-----------------------------------------------------------------------------
(* Texts with every form of the language.                                  *)
V(name) == Variable(name, 0)
Fn(names, body) == Abstraction(names, body)
Seven == Integer(7)

InfixOf(left, right) ==
  {Infix(operator, l, r) : operator \in {"-", "*", "==", "and"}, l \in left, r \in right}
PrefixOf(operands) == {Prefix(operator, s) : operator \in {"-", "not"}, s \in operands}

(* Up to three operators, and more where they need no brackets.            *)
Operators ==
  LET one == {Seven} \cup InfixOf({Seven}, {Seven}) \cup PrefixOf({Seven})
      two == InfixOf(one, one) \cup PrefixOf(one)
  IN two \cup PrefixOf(two) \cup InfixOf(two, one) \cup InfixOf(one, two)

Forms(parts, others) ==
  LET of(s, t) ==
        {Infix("-", s, t), Prefix("not", s), Member(s, "m"), Subscript(s, t), Call(s, <<>>),
         Call(s, <<t>>), Call(s, <<t, s>>), CallOf(s, <<t>>), CallOf(s, <<s, t>>),
         List(<<>>), List(<<s>>), List(<<s, t>>), ListOf(<<t, s>>), Boolean(TRUE), Brackets(s),
         Object(<<Assign("x", s)>>), Object(<<Assign("x", s), Assign("y", t)>>),
         ObjectOf(<<Assign("y", s), Assign("x", t)>>), If(s, t, s), If(t, s, t),
         Fn(<<>>, s), Fn(<<"x">>, s), Fn(<<"x", "y">>, s), Application(s, t), Atom("b"),
         Variable("x", 2), WhereOne(s, Assign("x", t)), WhereOne(t, Assign("x", Fn(<<"y">>, s))),
         Where(s, [x |-> t]), Where(s, [x |-> Fn(<<"y", "x">>, t), y |-> s])}
  IN UNION {of(s, t) : s \in parts, t \in others}

AllForms == LET simple == Forms({V("z")}, {Seven})
            IN simple \cup Forms(simple, {V("z")}) \cup Forms({V("z")}, simple)
=============================================================================
