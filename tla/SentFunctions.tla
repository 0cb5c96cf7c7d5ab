----------------------------- MODULE SentFunctions -----------------------------
(***************************************************************************)
(* Functions that are sent to another machine and built again there: the   *)
(* Marshal methods of interpreter.cc and array.cc, GetSubFunction, and the *)
(* part of unmarshaller.cc that makes values, which runs the interpreter   *)
(* in between.  Which values of a message are sent at all is the subject   *)
(* of ValueExchange; here each is sent once, after what it refers to.      *)
(***************************************************************************)
EXTENDS Interpreter

VARIABLES
  sent,   \* the values of the message
  hops    \* how often it was sent on

-----------------------------------------------------------------------------
(* What a function is made of.  Its data is its block: it is outer if its  *)
(* environment is the outermost, that of a whole code tree; if not, it is  *)
(* sent as a child of the outer function around it, with the values of the *)
(* frames in between, the innermost first.                                 *)
EnvironmentOf(function) == memory.blocks[function].next
IsOuter(function) == memory.blocks[EnvironmentOf(function)].next = 0
IndexOf(function) == memory.blocks[function].n

(* Environment::parent_function_data.                                      *)
ParentFunction(frame) ==
  IF memory.blocks[frame].kind = "Call" THEN frame ELSE memory.blocks[frame].n

RECURSIVE ToVector(_), OuterFunction(_)
(* Mutant: the outermost frame comes first.                                *)
ToVector_Outward(frame) ==
  LET block == memory.blocks[frame]
  IN IF block.next = 0 THEN <<>> ELSE ToVector(block.next) \o block.values

ToVector(frame) ==
  LET block == memory.blocks[frame]
  IN IF block.next = 0 THEN <<>> ELSE block.values \o ToVector(block.next)
OuterFunction(frame) ==
  IF IsOuter(ParentFunction(frame)) THEN ParentFunction(frame)
  ELSE OuterFunction(memory.blocks[frame].next)

(* The constants of a tree; its nodes, the last value of the outermost     *)
(* frame, are not sent.                                                    *)
ConstantsOf(function) == Front(memory.blocks[EnvironmentOf(function)].values)

(* From the abstraction to the end of its body.                            *)
CodeOf(function) ==
  SubSeq(module.code, IndexOf(function), BranchEnd(IndexOf(function)) - 1)

Parent(function) == Data("Function", OuterFunction(EnvironmentOf(function)))

PartsOfValue(v) ==
  CASE v.logic = "Function" /\ IsOuter(v.at) -> ConstantsOf(v.at)
    [] v.logic = "Function" /\ ~IsOuter(v.at) ->
         Append(ToVector(EnvironmentOf(v.at)), Parent(v.at))
    [] v.logic \in {"Tuple", "Array"} -> ElementsOf(v)
    [] OTHER -> <<>>

(* Numbers and atoms are copied and builtins are known by name.  All else  *)
(* that is no function and no sequence stays where it is, so programs that *)
(* send such are not followed.                                             *)
CanSend(v) == v.logic \in {"Integer", "Atom", "NativeModule", "NativeFunction",
                           "Tuple", "Array", "Function"}

(* An outer function has an identifier made of its code and its constants, *)
(* and the receiver looks it up by that.                                   *)
GetId(v) == IF v.logic = "Function" /\ IsOuter(v.at)
              THEN [code |-> CodeOf(v.at), constants |-> ConstantsOf(v.at)]
              ELSE [value |-> v]
IndexAmong(values, v) == SelectInSeq(values, LAMBDA w : GetId(w) = GetId(v))

(* A value that is there already is not marshalled again.                  *)
RECURSIVE Gathered(_, _)
Gathered(found, v) == IF IndexAmong(found, v) # 0 THEN found
                      ELSE Append(FoldLeft(Gathered, found, PartsOfValue(v)), v)

Item(is, value, refs, code, offset) ==
  [is |-> is, value |-> value, refs |-> refs, code |-> code, offset |-> offset]

MarshalArray(v, refs) == Item("sequence", Plain(v.logic), refs, <<>>, 0)

MarshalFunction(v, refs) ==
  IF IsOuter(v.at) THEN Item("function", Plain("None"), refs, CodeOf(v.at), 0)
  ELSE Item("child function", Plain("None"), refs, <<>>,
            IndexOf(v.at) - IndexOf(Parent(v.at).at))

Marshal(values, v) ==
  LET refs == [i \in DOMAIN PartsOfValue(v) |-> IndexAmong(values, PartsOfValue(v)[i])]
  IN CASE v.logic = "Function" -> MarshalFunction(v, refs)
       [] v.logic \in {"Tuple", "Array"} -> MarshalArray(v, refs)
       [] OTHER -> Item("plain", v, <<>>, <<>>, 0)

(* The message: the value, and perhaps a call of it on an argument.  It is *)
(* all that the other machine gets, which starts from nothing.             *)
FunctionCall(values, argument) ==
  <<Item("plain", argument, <<>>, <<>>, 0),
    Item("function call", Plain("None"), <<Len(values), Len(values) + 1>>, <<>>, 0)>>

Send(v, calls) ==
  LET values == Gathered(<<>>, v)
      items == [i \in DOMAIN values |-> Marshal(values, values[i])]
  IN /\ outcome = "done"
     /\ \A w \in ToSet(values) : CanSend(w)
     /\ sent' = items \o FlattenSeq([i \in DOMAIN calls |-> FunctionCall(values, calls[i])])
     /\ hops' = hops + 1
     /\ module' = NoModule(module.limit)
     /\ constant' = <<>>
     /\ index' = 0
     /\ memory' = NoMemory
     /\ context' = [function |-> Plain("ContinueUnmarshalling"), parameter |-> Number(0),
                    callback |-> Plain("None")]
     /\ outcome' = "running"
     /\ UNCHANGED support

-----------------------------------------------------------------------------
(* The values built so far are kept by a tracker, which is not on the heap *)
(* and of which the callback is the owner.                                 *)
NewFinalValuesTracker(m, values) ==
  [m EXCEPT !.blocks = Append(@, [kind |-> "Tracker", values |-> values, next |-> 0, n |-> 0])]
ContinueUnmarshallingCallback(m) == Data("ContinueUnmarshalling", Newest(m))

Built(m, values) == [memory |-> m, values |-> values]
GetByIndex(values, item) == [i \in DOMAIN item.refs |-> values[item.refs[i]]]

(* Numbers, names and sequences are made at once.                          *)
UnmarshalValue(s, item) ==
  IF item.is = "plain" THEN Built(s.memory, Append(s.values, item.value))
  ELSE LET array == NewArray(s.memory, GetByIndex(s.values, item))
       IN Built(array, Append(s.values, Data(item.value.logic, Newest(array))))

AllBuilt(s) == Len(s.values) = Len(sent)
NextItem(s) == sent[Len(s.values) + 1]

RECURSIVE DoSomeUnmarshalling(_)
DoSomeUnmarshalling(s) ==
  IF ~AllBuilt(s) /\ NextItem(s).is \in {"plain", "sequence"}
  THEN DoSomeUnmarshalling(UnmarshalValue(s, NextItem(s))) ELSE s

(* A function with its own code is loaded like a module, and run: what     *)
(* comes of it, an abstraction on its outermost frame, is the function.    *)
UnmarshalFunction(s, item) ==
  LET tracked == NewFinalValuesTracker(s.memory, s.values)
  IN /\ module' = LoadedWith(item.code, GetByIndex(s.values, item))
     /\ memory' = tracked
     /\ context' = [context EXCEPT !.callback = ContinueUnmarshallingCallback(tracked)]
     /\ outcome' = "loading"
     /\ UNCHANGED <<constant, index, support>>

(* All values of a child function are on one frame.                        *)
GetSubFunction(s, item) ==
  LET parent == Last(GetByIndex(s.values, item)).at
      tracked == NewFinalValuesTracker(s.memory, s.values)
      frame == Allocate(tracked, "Environment", Front(GetByIndex(s.values, item)),
                        EnvironmentOf(parent), parent)
  IN /\ SetNext(frame, Node(IndexOf(parent) + item.offset),
                Data("Environment", Newest(frame)), ContinueUnmarshallingCallback(tracked))
     /\ Loaded

UnmarshalFunctionCall(s, item) ==
  LET tracked == NewFinalValuesTracker(s.memory, s.values)
      parts == GetByIndex(s.values, item)
  IN /\ SetNext(tracked, parts[1], parts[2], ContinueUnmarshallingCallback(tracked))
     /\ Loaded

RunContinueUnmarshalling ==
  /\ Runs("ContinueUnmarshalling")
  /\ LET at == context.function.at
         before == IF at = 0 THEN <<>> ELSE Append(memory.blocks[at].values, context.parameter)
         s == DoSomeUnmarshalling(Built(memory, before))
     IN \/ /\ AllBuilt(s)
           /\ SetNext(s.memory, Plain("Done"), Last(s.values), Plain("None"))
           /\ Loaded
        \/ /\ ~AllBuilt(s)
           /\ \/ NextItem(s).is = "function" /\ UnmarshalFunction(s, NextItem(s))
              \/ NextItem(s).is = "child function" /\ GetSubFunction(s, NextItem(s))
              \/ NextItem(s).is = "function call" /\ UnmarshalFunctionCall(s, NextItem(s))
  /\ UNCHANGED <<sent, hops>>
=============================================================================
