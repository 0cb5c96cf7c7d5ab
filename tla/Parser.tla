--------------------------------- MODULE Parser ---------------------------------
(***************************************************************************)
(* The parser of parser.cc: recursive descent over the tokens of a         *)
(* statement, where a block is one token that holds statements.  What the  *)
(* language has beyond variables, functions, applications and where blocks *)
(* is written in terms of those (the Make operators of expression.cc).     *)
(* Errors are logged, and the parser goes on.  Literals of strings and     *)
(* floats are left out.                                                    *)
(***************************************************************************)
EXTENDS Expressions, Integers

Keyword(text) == [type |-> "KEYWORD", text |-> text]
Identifier(name) == [type |-> "IDENTIFIER", text |-> name]
IntegerToken(n) == [type |-> "INTEGER", value |-> n]
Quoted(name) == [type |-> "STRING", text |-> name]
BlockToken(statements) == [type |-> "BLOCK", block |-> statements]
kEmptyToken == [type |-> "NONE"]

-----------------------------------------------------------------------------
(* The operators, and the member of the left operand each stands for.      *)
Operator(priority, function) == [priority |-> priority, function |-> function]
LowestPriority == 0

kInfixOperators ==
  ("+" :> Operator(5, "add")) @@ ("-" :> Operator(5, "subtract"))
    @@ ("*" :> Operator(6, "multiply")) @@ ("/" :> Operator(6, "divide"))
    @@ ("==" :> Operator(4, "equal")) @@ ("!=" :> Operator(4, "notEqual"))
    @@ ("<" :> Operator(4, "less")) @@ (">" :> Operator(4, "greater"))
    @@ ("<=" :> Operator(4, "notGreater")) @@ (">=" :> Operator(4, "notLess"))
    @@ ("and" :> Operator(2, "and")) @@ ("or" :> Operator(2, "or"))
kPrefixOperators == ("-" :> Operator(6, "negate")) @@ ("not" :> Operator(3, "not"))

-----------------------------------------------------------------------------
(* The iterator over a statement.  errors counts what was logged; hangs is *)
(* set once a loop of the parser makes no progress any more.               *)
TokenIterator(statement) == [tokens |-> statement, at |-> 1, errors |-> 0, hangs |-> FALSE]

Current(in) == IF in.at <= Len(in.tokens) THEN in.tokens[in.at] ELSE kEmptyToken
AtEnd(in) == Current(in) = kEmptyToken
NextToken(in) == [in EXCEPT !.at = @ + 1]
Wrong(in, errors) == [in EXCEPT !.errors = @ + errors]
ExpectAtEnd(in) == IF AtEnd(in) THEN in ELSE Wrong(in, 1)

LookingAtType(in, type) == Current(in).type = type
LookingAtKeyword(in, text) == LookingAtType(in, "KEYWORD") /\ Current(in).text = text
LookingAtPrefix(in) == LookingAtType(in, "KEYWORD")
                       /\ Current(in).text \in DOMAIN kPrefixOperators
LookingAtInfix(in, min_priority) ==
  /\ LookingAtType(in, "KEYWORD")
  /\ Current(in).text \in DOMAIN kInfixOperators
  /\ kInfixOperators[Current(in).text].priority >= min_priority

(* What a function of the parser returns, with the iterator it leaves.     *)
Made(result, in) == [made |-> result, in |-> in]
NULL == [made |-> "NULL"]

ConsumeKeyword(in, text) == IF LookingAtKeyword(in, text) THEN NextToken(in) ELSE Wrong(in, 1)
ConsumeText(in, type) == IF LookingAtType(in, type) THEN Made(Current(in).text, NextToken(in))
                         ELSE Made("", Wrong(in, 1))
ConsumeIdentifier(in) == ConsumeText(in, "IDENTIFIER")
ConsumeString(in) == ConsumeText(in, "STRING")

(* Each statement of a block has an iterator of its own.                   *)
AtTheEnd(parsed) == Made(parsed.made, ExpectAtEnd(parsed.in))
AddStatement(so_far, parsed) ==
  Made(Append(so_far.made, parsed.made),
       [so_far.in EXCEPT !.errors = @ + parsed.in.errors, !.hangs = @ \/ parsed.in.hangs])

ParseBlock(in, Parse(_)) ==
  LET add(so_far, statement) == AddStatement(so_far, AtTheEnd(Parse(TokenIterator(statement))))
  IN IF LookingAtType(in, "BLOCK")
     THEN FoldLeft(add, Made(<<>>, NextToken(in)), Current(in).block)
     ELSE Made(<<>>, Wrong(in, 1))

-----------------------------------------------------------------------------
(* What is written in terms of something else.                             *)
MakeArray(elements) ==
  LET builder == Application(Application(Import("builtin"), Atom("array")), Atom("builder"))
  IN FoldLeft(Application, Application(builder, Integer(Len(elements))), elements)

MakeIf(condition, true_clause, false_clause) ==
  LET clauses == <<Abstraction(<<>>, true_clause), Abstraction(<<>>, false_clause)>>
  IN Application(Application(Application(condition, Atom("if")), MakeTuple(clauses)),
                 MakeTuple(<<>>))

MakeBooleanLiteral(value) ==
  Application(Application(Import("builtin"), Atom("boolean")),
              Atom(IF value THEN "true" ELSE "false"))

MakeSubscript(collection, subscript) ==
  Application(Application(collection, Atom("element")), subscript)

(* Of several bindings of a name the first counts; each other is an error. *)
Bindings(members) ==
  FoldLeft(LAMBDA bindings, m : bindings @@ (m.name :> m.value), <<>>, members)
AlreadyDefined(members) == Len(members) - Cardinality(DOMAIN Bindings(members))

(* The results for the members of a sequence, in order.                    *)
Each(Result(_), s) == FoldLeft(LAMBDA so_far, x : Append(so_far, Result(x)), <<>>, s)

MakeObject(members) ==
  LET names(Form(_)) == Each(LAMBDA m : Form(m.name), members)
      makeTable == Application(Application(Import("builtin"), Atom("atom")), Atom("table"))
      nameTable == Application(makeTable, MakeArray(names(Atom)))
      index == Application(nameTable, Variable("name", 0))
      find == Abstraction(<<"members">>,
                Abstraction(<<"name">>, Application(Variable("members", 0), index)))
  IN Application(find, Where(MakeTuple(names(LAMBDA n : Variable(n, 0))), Bindings(members)))

-----------------------------------------------------------------------------
(* The parameters of a declaration f(x, y) = ...: nothing is consumed where*)
(* neither a name nor a comma nor the closing bracket is found.            *)
RECURSIVE ParseParameters(_, _)
ParseParameters(in, variable_names) ==
  LET name == ConsumeIdentifier(in)
      so_far == Append(variable_names, name.made)
      after == ConsumeKeyword(name.in, ",")
  IN CASE LookingAtKeyword(name.in, ")") -> Made(so_far, NextToken(name.in))
       [] ~LookingAtKeyword(name.in, ")") /\ after.at > in.at -> ParseParameters(after, so_far)
       [] OTHER -> Made(so_far, [after EXCEPT !.hangs = TRUE])

(* Those of a function (x, y) => ..., or NULL if it is none.               *)
RECURSIVE TryParseNames(_, _)
TryParseNames(in, variable_names) ==
  IF ~LookingAtType(in, "IDENTIFIER") THEN NULL
  ELSE LET so_far == Append(variable_names, Current(in).text)
           after == NextToken(in)
       IN CASE LookingAtKeyword(after, ")") -> Made(so_far, NextToken(after))
            [] LookingAtKeyword(after, ",") -> TryParseNames(NextToken(after), so_far)
            [] OTHER -> NULL

RECURSIVE CountEscapes(_, _)
CountEscapes(in, escape_level) ==
  IF LookingAtKeyword(in, "\\") THEN CountEscapes(NextToken(in), escape_level + 1)
  ELSE Made(escape_level, in)

RECURSIVE ParseExpression(_), ParseOperators(_, _), ParseInfix(_, _), ParsePostfixes(_),
          ParseItem(_), ParseMore(_, _), ParseMembers(_, _)

ParseFunction(variable_names, in) ==
  LET body == ParseExpression(in) IN Made(Abstraction(variable_names, body.made), body.in)

FunctionAfter(names) ==
  IF names = NULL \/ ~LookingAtKeyword(names.in, "=>") THEN NULL
  ELSE ParseFunction(names.made, NextToken(names.in))
TryParseFunction(in) ==
  FunctionAfter(IF LookingAtKeyword(in, ")") THEN Made(<<>>, NextToken(in))
                ELSE TryParseNames(in, <<>>))

(* In brackets, unless it is a function.                                   *)
Closed(expression) == Made(expression.made, ConsumeKeyword(expression.in, ")"))
UnlessFunction(function, in) ==
  IF function # NULL THEN function ELSE Closed(ParseExpression(in))
ParseParenthesized(in) == UnlessFunction(TryParseFunction(in), in)

(* A tuple of parameters or an array literal, after its opening bracket.   *)
ParseMore(in, parts) ==
  LET part == ParseExpression(in)
      so_far == Append(parts, part.made)
  IN IF LookingAtKeyword(part.in, ",") THEN ParseMore(NextToken(part.in), so_far)
     ELSE Made(so_far, part.in)

ParseParts(in, close) ==
  LET parts == ParseMore(in, <<>>)
  IN IF LookingAtKeyword(in, close) THEN Made(<<>>, NextToken(in))
     ELSE Made(parts.made, ConsumeKeyword(parts.in, close))

ParseStatements(in) == ParseBlock(in, LAMBDA statement : ParseExpression(statement))

(* A single parameter is not wrapped in a tuple.                           *)
ApplyTo(base, parts) ==
  Made(Application(base, IF Len(parts.made) = 1 THEN parts.made[1] ELSE MakeTuple(parts.made)),
       parts.in)

Assigned(name, value) == Made([name |-> name, value |-> value.made], value.in)
ParseValue(name, in) == Assigned(name, ParseExpression(ConsumeKeyword(in, "=")))

ParseDeclaration(name, names) ==
  Assigned(name, IF names.in.hangs THEN Made(Integer(0), names.in)
              ELSE ParseFunction(names.made, ConsumeKeyword(names.in, "=")))

AssignmentTo(name) ==
  LET inside == NextToken(name.in)
  IN IF ~LookingAtKeyword(name.in, "(") THEN ParseValue(name.made, name.in)
     ELSE ParseDeclaration(name.made,
                           IF LookingAtKeyword(inside, ")") THEN Made(<<>>, NextToken(inside))
                           ELSE ParseParameters(inside, <<>>))
ParseAssignment(in) == AssignmentTo(ConsumeIdentifier(in))

ParseAssignments(in) == ParseBlock(in, LAMBDA statement : ParseAssignment(statement))

Alone(part) == Made(<<part.made>>, part.in)
FinishWhere(base, members) == Made(Where(base, Bindings(members.made)),
                                   Wrong(members.in, AlreadyDefined(members.made)))
FinishObject(members) == Made(MakeObject(members.made),
                              Wrong(members.in, AlreadyDefined(members.made)))

ParseWhere(base, in) ==
  FinishWhere(base, IF LookingAtType(in, "BLOCK") THEN ParseAssignments(in)
                    ELSE Alone(ParseAssignment(in)))

(* x = 1, y = 2, ... of an inline object; an array if it does not begin so.*)
ParseMembers(in, members) ==
  LET name == ConsumeIdentifier(in)
      member == ParseValue(name.made, name.in)
      so_far == Append(members, member.made)
  IN IF LookingAtKeyword(member.in, ",") THEN ParseMembers(NextToken(member.in), so_far)
     ELSE Made(so_far, ConsumeKeyword(member.in, "}"))

LookingAtMember(in) == LookingAtType(in, "IDENTIFIER") /\ LookingAtKeyword(NextToken(in), "=")

ParseBraces(in) ==
  LET elements == ParseParts(in, "}")
  IN IF LookingAtMember(in) THEN FinishObject(ParseMembers(in, <<>>))
     ELSE Made(MakeArray(elements.made), elements.in)

ParseIf(in) ==
  LET condition == ParseExpression(in)
      true_clause == ParseExpression(ConsumeKeyword(condition.in, "then"))
      false_clause == ParseExpression(ConsumeKeyword(true_clause.in, "else"))
  IN Made(MakeIf(condition.made, true_clause.made, false_clause.made), false_clause.in)

(* Something unexpected is skipped and stands for zero.                    *)
ParseItem(in) ==
  LET after == NextToken(in)
      at(text) == LookingAtKeyword(in, text)
      name == ConsumeIdentifier(after)
      escapes == CountEscapes(after, 1)
      escaped == ConsumeIdentifier(escapes.in)
      library == ConsumeString(after)
      elements == ParseStatements(ConsumeKeyword(after, "of"))
  IN CASE LookingAtType(in, "IDENTIFIER") ->
            IF LookingAtKeyword(after, "=>")
            THEN ParseFunction(<<Current(in).text>>, NextToken(after))
            ELSE Made(Variable(Current(in).text, 0), after)
       [] LookingAtType(in, "INTEGER") -> Made(Integer(Current(in).value), after)
       [] at("@") -> Made(Atom(name.made), name.in)
       [] at("(") -> ParseParenthesized(after)
       [] at("{") -> ParseBraces(after)
       [] at("import") -> Made(Import(library.made), library.in)
       [] at("if") -> ParseIf(after)
       [] at("object") -> FinishObject(ParseAssignments(ConsumeKeyword(after, "of")))
       [] at("array") -> Made(MakeArray(elements.made), elements.in)
       [] at("true") \/ at("false") -> Made(MakeBooleanLiteral(at("true")), after)
       [] at("\\") -> Made(Variable(escaped.made, escapes.made), escaped.in)
       [] OTHER -> Made(Integer(0), Wrong(IF AtEnd(in) THEN in ELSE after, 1))

(* Calls, members and subscripts, as many as follow.                       *)
ParsePostfixes(base) ==
  LET in == base.in
      after == NextToken(in)
      member == ConsumeIdentifier(after)
      subscript == ParseExpression(after)
  IN CASE LookingAtKeyword(in, "(") -> ParsePostfixes(ApplyTo(base.made, ParseParts(after, ")")))
       [] LookingAtKeyword(in, "of") -> ParsePostfixes(ApplyTo(base.made, ParseStatements(after)))
       [] LookingAtKeyword(in, ".") ->
            ParsePostfixes(Made(Application(base.made, Atom(member.made)), member.in))
       [] LookingAtKeyword(in, "[") ->
            ParsePostfixes(Made(MakeSubscript(base.made, subscript.made),
                                ConsumeKeyword(subscript.in, "]")))
       [] OTHER -> base

(* Mutant: the right operand takes operators of the same priority.         *)
RightPriority_Same(operator) == operator.priority

(* Operators of one priority group to the left: b - c - d is (b - c) - d.   *)
RightPriority(operator) == operator.priority + 1

ParseInfix(left, min_priority) ==
  LET operator == kInfixOperators[Current(left.in).text]
      right == ParseOperators(NextToken(left.in), RightPriority(operator))
      applied == Application(Application(left.made, Atom(operator.function)), right.made)
  IN IF ~LookingAtInfix(left.in, min_priority) THEN left
     ELSE ParseInfix(Made(applied, right.in), min_priority)

ParseOperators(in, min_priority) ==
  LET operator == kPrefixOperators[Current(in).text]
      operand == ParseOperators(NextToken(in), Max({min_priority, operator.priority + 1}))
  IN ParseInfix(IF LookingAtPrefix(in)
                THEN Made(Application(operand.made, Atom(operator.function)), operand.in)
                ELSE ParsePostfixes(ParseItem(in)),
                min_priority)

WithWhere(expression) ==
  IF LookingAtKeyword(expression.in, "where")
  THEN ParseWhere(expression.made, NextToken(expression.in))
  ELSE expression
ParseExpression(in) == WithWhere(ParseOperators(in, LowestPriority))

ParseStatement(code) == AtTheEnd(ParseExpression(TokenIterator(code)))
=============================================================================
