-------------------------------- MODULE Programs --------------------------------
(***************************************************************************)
(* The programs that are parsed, compiled and run: small ones that put the *)
(* constructs of the language together in all ways that matter to the      *)
(* compiler, to the memory of the interpreter and to the libraries.        *)
(***************************************************************************)
EXTENDS SupportCode

NewBuilder(sort, n) ==
  Application(Application(Application(Import("builtin"), Atom("array")), Atom(sort)),
              Integer(n))

(* Three bindings that may refer to each other, immediately or when they   *)
(* are called.                                                             *)
Chains ==
  LET names == {"a", "b", "c"}
      values == {Seven} \cup {V(n) : n \in names} \cup {Fn(<<"x">>, V(n)) : n \in names}
                  \cup {Fn(<<"x">>, Application(V(n), V("x"))) : n \in names}
  IN {Where(base, [a |-> v, b |-> w, c |-> u]) :
        base \in {V("a"), Application(V("a"), Seven)}, v \in values, w \in values, u \in values}

(* Two that may refer to both, so that one may need several variables.     *)
Pairs ==
  LET names == {"a", "b", "c"}
      values == {Seven} \cup {Fn(<<"x">>, Application(V(n), V(m))) : n \in names, m \in names}
  IN {Where(Application(V("a"), Seven), [a |-> v, b |-> w, c |-> u]) :
        v \in values, w \in values, u \in {Seven, Fn(<<"x">>, V("a"))}}

(* Blocks in functions in blocks, with names of the outer one escaped.     *)
Nested ==
  LET values == {Seven, V("a"), V("b"), V("x"), V("undefined"), Variable("a", 1),
                 Variable("x", 1), Fn(<<"x">>, Application(V("b"), V("x"))),
                 Fn(<<"x">>, Variable("x", 1)), Fn(<<"x", "y">>, V("y"))}
  IN {Where(Application(V("a"), Seven),
            [a |-> Fn(<<"x">>, Where(base, [a |-> v, b |-> w])), b |-> Atom("b")]) :
        base \in {V("a"), Application(V("b"), Seven),
                  Application(V("a"), MakeTuple(<<Seven, V("x")>>))},
        v \in values, w \in values}

(* Functions that hand their parameters on, of several or as one tuple.    *)
Forwarding ==
  LET first == {Application(V("f"), V("x")),
                Application(V("f"), MakeTuple(<<V("x"), V("x")>>)),
                Application(V("g"), MakeTuple(<<Seven, V("x")>>)),
                Application(Fn(<<"t">>, Application(V("g"), V("t"))),
                            MakeTuple(<<V("x"), Atom("b")>>)),
                Application(V("g"), MakeTuple(<<V("x"), Seven, Atom("b")>>)),
                Application(V("f"), Application(NewBuilder("tupleBuilder", 2), V("x"))),
                Application(V("g"), Application(NewBuilder("builder", 3), V("x")))}
      second == {Application(V("f"), V("t")), V("t"),
                 Application(V("t"), Integer(1)),
                 Application(Fn(<<"u">>, Application(V("f"), V("u"))), V("t")),
                 MakeTuple(<<V("t"), Application(V("t"), Integer(0))>>)}
      last == {Fn(<<"x", "y">>, V("y")), Fn(<<"x", "y">>, MakeTuple(<<V("y"), V("x")>>)),
               Fn(<<"u">>, V("u")), Fn(<<"u">>, Application(V("u"), Integer(2))),
               Fn(<<"u">>, Application(V("u"), V("u")))}
  IN {Where(Application(V("h"), argument),
            [h |-> Fn(<<"x">>, p), g |-> Fn(<<"t">>, q), f |-> r]) :
        argument \in {Seven, MakeTuple(<<Integer(1), Integer(2)>>), MakeTuple(<<>>)},
        p \in first, q \in second, r \in last}

(* Builders that are used more than once, or on themselves.                *)
Builders ==
  LET uses == {V("b"), Application(V("b"), V("b")), Application(V("b"), Integer(1)),
               Application(Application(V("b"), Integer(1)), Integer(2)),
               MakeTuple(<<Application(V("b"), Integer(1)), Application(V("b"), Integer(2))>>),
               Application(Fn(<<"c">>, Application(V("c"), V("c"))), V("b"))}
      started == {Application(NewBuilder("tupleBuilder", n), Seven) : n \in 1..3}
  IN {Application(Fn(<<"b">>, use), b) :
        use \in uses, b \in {NewBuilder("tupleBuilder", n) : n \in 0..3} \cup started
                            \cup {NewBuilder("builder", 1), NewBuilder("array", 1)}}

(* Functions in functions, with parameters, tuples and functions around    *)
(* them, that are sent to another machine and called there.                *)
Travelling ==
  LET bodies == {V("x"), V("q"), V("f"), Application(V("f"), V("y")),
                 Application(V("g"), V("y")), Application(V("x"), Integer(1)),
                 Fn(<<"z">>, MakeTuple(<<V("z"), V("p")>>)),
                 MakeTuple(<<V("q"), V("y"), Application(V("g"), V("p"))>>),
                 Application(NewBuilder("builder", 1), Application(V("f"), V("q")))}
      locals == {Seven, V("p"), Fn(<<"z">>, V("q")), Fn(<<"z">>, MakeTuple(<<V("z"), V("x")>>)),
                 Fn(<<"z">>, Application(V("g"), V("z")))}
      globals == {Fn(<<"k">>, V("k")), Fn(<<"k">>, Application(V("h"), V("k")))}
      arguments == {Seven, MakeTuple(<<Integer(1), Integer(2)>>), V("g"), Fn(<<"z">>, V("z"))}
      outer == {Fn(<<"z">>, V("z")), Fn(<<"z">>, Seven), Fn(<<"z">>, Fn(<<"k">>, V("z"))),
                Fn(<<"z">>, MakeTuple(<<V("z"), Seven>>))}
      inside(body, local) ==
        Where(Fn(<<"y">>, body), [f |-> local])
  IN {Where(Application(V("h"), argument),
            [h |-> Fn(<<"x">>, Application(Fn(<<"p", "q">>, inside(body, local)),
                                           MakeTuple(<<V("x"), Atom("b")>>))),
             g |-> global]) :
        body \in bodies, local \in locals, global \in globals, argument \in arguments}
     \cup {Application(Fn(<<"s", "t">>, Fn(<<"y">>, MakeTuple(<<Application(V("s"), V("y")),
                                                              Application(V("t"), V("y"))>>))),
                       MakeTuple(<<s, t>>)) : s \in outer, t \in outer}
     \cup outer

Builtin(library, name) == Member(Member(Import("builtin"), library), name)
Numbers(ns) == List(Each(Integer, ns))

(* Tables of atoms, one of them there twice, and what is looked up in them. *)
Tables ==
  LET table(array) == Call(Builtin("atom", "table"), <<array>>)
      atoms(names) == List(Each(Atom, names))
      lists == {<<>>, <<"x", "y">>, <<"x", "y", "x", "m">>,
                <<"m", "z", "y", "x", "b", "a">>}
  IN {table(Numbers(<<1>>)), table(Integer(1))}
     \cup {table(atoms(names)) : names \in lists}
     \cup {Call(table(atoms(names)), <<a>>) :
              names \in lists,
              a \in {Atom("x"), Atom("y"), Atom("m"), Atom("z"), Atom("size"), Integer(0)}}

(* With methods: operators of every kind on values of every kind, what a   *)
(* library does with wrong parameters, objects, arrays and recursion.      *)
OperatorPrograms ==
  LET simple == {Integer(7), Integer(2), Prefix("-", Integer(7)), Boolean(TRUE), Atom("b"),
                 Numbers(<<1, 2>>)}
  IN {Infix(operator, left, right) : operator \in {"+", "/", "==", "!=", "<", "and"},
                                     left \in simple,
                                     right \in {Integer(2), Boolean(FALSE), Atom("b")}}
     \cup {Infix(operator, Integer(2), right) : operator \in {"-", "*", ">", "<=", ">="},
                                                right \in {Integer(2), Integer(7)}}
     \cup {Infix("/", Integer(7), Integer(0)), Infix("or", Boolean(FALSE), Boolean(TRUE)),
            Prefix("not", Boolean(FALSE)), Prefix("not", Integer(7))}

LibraryPrograms ==
  LET f(library, name) == Builtin(library, name)
      pair == <<Integer(7), Integer(2)>>
      held == {Call(V("g"), <<V("t")>>), CallOf(V("g"), <<V("t"), V("t")>>),
               List(<<Call(V("g"), <<V("t")>>), V("t")>>)}
  IN {Application(Fn(<<"t">>, Where(e, [g |-> f("integer", "subtract")])), MakeTuple(pair)) :
        e \in held}
     \cup {Application(f("integer", "add"), Call(Integer(7), <<>>)),
            Call(f("integer", "add"), <<Integer(7)>>), Call(f("integer", "add"), pair \o pair),
            Call(f("integer", "add"), <<Integer(7), Call(Integer(7), <<>>)>>),
            Call(f("boolean", "xor"), <<Boolean(TRUE), Boolean(FALSE)>>),
            Call(f("boolean", "if"), <<Boolean(TRUE), Integer(7), Call(Integer(7), <<>>)>>),
            Call(f("atom", "equal"), <<Atom("a"), Atom("b")>>),
            Call(f("array", "tupleBuilder"), <<Prefix("-", Integer(1))>>),
            Call(f("array", "join"), <<List(<<Numbers(<<1>>), Integer(2)>>)>>),
            f("atom", "b"), f("boolean", "or")}

ObjectPrograms ==
  LET point == Object(<<Assign("x", Integer(7)), Assign("y", Atom("b"))>>)
      counter == ObjectOf(<<Assign("m", Fn(<<"x">>, Infix("-", V("y"), V("x")))),
                            Assign("y", Integer(7))>>)
  IN {Member(point, name) : name \in {"x", "y", "z"}}
     \cup {Call(Member(counter, "m"), <<Integer(2)>>), Application(point, Integer(1)),
            Where(If(Infix("<", V("a"), Integer(2)), Member(V("b"), "x"), Member(V("b"), "y")),
                  [a |-> Member(point, "x"), b |-> point])}

ArrayPrograms ==
  LET ask(name, parts) == Call(Member(V("a"), name), parts)
      compare(operator) == Fn(<<"x">>, Infix(operator, V("x"), Integer(2)))
      asks == {Subscript(V("a"), i) :
                 i \in {Integer(0), Integer(2), Integer(3), Prefix("-", Integer(1)), Atom("b")}}
                \cup {ask("interval", <<Integer(i), Integer(j)>>) : i \in {0, 1}, j \in {0, 2, 4}}
                \cup {Member(V("a"), "size"), ask("map", <<V("f")>>),
                      ask("findAll", <<compare("!=")>>), ask("contains", <<compare("==")>>),
                      ask("contains", <<V("f")>>), ask("fold", <<Integer(0)>>),
                      ask("fold", <<Integer(0), Fn(<<"x", "y">>, Infix("-", V("y"), V("x")))>>),
                      Call(Member(List(<<V("a"), List(<<>>), V("a")>>), "join"), <<>>)}
  IN {Where(e, [a |-> Numbers(<<1, 2, 3>>), f |-> compare("*")]) : e \in asks}
     \cup {Call(Member(List(<<>>), "fold"), <<Atom("b"), Atom("a")>>),
            Call(Member(List(<<>>), "findAll"), <<Atom("a")>>)}

RecursivePrograms ==
  LET down == If(Infix("==", V("x"), Integer(0)), Integer(1),
                 Infix("*", V("x"), CallIt("f", <<Infix("-", V("x"), Integer(1))>>)))
      sum == If(Infix("<=", V("x"), Integer(0)), V("y"),
                CallIt("f", <<Infix("-", V("x"), Integer(1)), Infix("+", V("y"), V("x"))>>))
  IN {Where(CallIt("f", <<Integer(2)>>), [f |-> Fn(<<"x">>, down)]),
      Where(CallIt("f", <<Integer(2), Integer(0)>>), [f |-> Fn(<<"x", "y">>, sum)])}

Methods == OperatorPrograms \cup LibraryPrograms \cup ObjectPrograms \cup ArrayPrograms
             \cup RecursivePrograms

(* The families.  Programs with methods run after the support code.        *)
Expression ==
  [chains |-> Chains, pairs |-> Pairs, nested |-> Nested, forwarding |-> Forwarding,
   builders |-> Builders, tables |-> Tables, travelling |-> Travelling, methods |-> {BuiltinSupport},
   operators |-> Operators, forms |-> AllForms, broken |-> AllForms]
=============================================================================
