-------------------------------- MODULE Evaluator -------------------------------
(***************************************************************************)
(* The C++ interface of the machine (public/evaluator.cc): evaluators that *)
(* fork, the values they give to the host program, and the calls it makes. *)
(* A call runs in a Context, which borrows a memory manager from the       *)
(* evaluator's ContextFactory.  It may enter host code, by a CustomValue   *)
(* or a NonBlockingCustomValue, and that code may call the evaluator       *)
(* again; a non-blocking value completes later, on any thread, in a        *)
(* Context of its own.                                                     *)
(*                                                                         *)
(* Of values, only what memory they reach counts: deleting an evaluator    *)
(* frees its memory at once.  The values of one evaluator are taken        *)
(* together: whatever one of them reaches, the host may use.               *)
(***************************************************************************)
EXTENDS Integers, Sequences, FiniteSets

CONSTANTS
  EvaluatorCount,  \* how many evaluators there may be, the root among them
  MaxCalls,        \* how many calls the host makes
  MaxContexts,     \* how many contexts may exist at once
  MaxHops,         \* how often one call enters host code
  MaxMixed,        \* how many evaluators are handed values that nobody checks
  Nothing             \* no evaluator, context or completion

Evaluators == 1..EvaluatorCount
Calls == 1..MaxCalls
Slots == 1..MaxContexts
Root == 1

(* A Context, and what host code owes that a non-blocking value entered.   *)
Contexts == [evaluator : Evaluators, manager : Nat, call : Calls,
             step : {"running", "customValue", "nonBlockingCustomValue", "answered", "ended"},
             reach : SUBSET Evaluators, caller : Slots \cup {Nothing},
             returns : {"result", "nothing"}]
Completions == [evaluator : Evaluators, reach : SUBSET Evaluators]

(* What an instance has to give them.                                      *)
EvaluatorBounds ==
  /\ {EvaluatorCount, MaxCalls, MaxContexts, MaxHops} \subseteq Nat \ {0}
  /\ MaxMixed \in Nat
  /\ Nothing \notin Nat \cup Contexts \cup Completions

VARIABLES
  parent,     \* parent_, Nothing for the root
  life,       \* whether an evaluator is not made yet, "live" or "deleted"
  forked,     \* has_forked_
  single,     \* whether the root's factory is in mode SINGLE_CONTEXT
  refcount,   \* refcount_ of the context factory
  idle,       \* additional_memory_managers_
  created,    \* how many additional managers the factory made
  mainInUse,  \* main_memory_manager_in_use_
  contexts,   \* the Contexts: what each stands for, Nothing when there is none
  pending,    \* per call the completion that host code owes, Nothing when none
  answer,     \* per call whether its callback was given the result
  hops,       \* per call how often it entered host code
  values,     \* per evaluator what the EvlanValues that the host has of it reach
  mixed,      \* which evaluators were ever handed a value that need not outlive them
  aborted     \* the failed check that ended the program, "no" while it runs

tree == <<parent, life, forked, single>>
factories == <<refcount, idle, created, mainInUse>>
work == <<contexts, pending, answer, hops>>
evaluatorVars == <<tree, factories, work, values, mixed, aborted>>

TypeOK ==
  /\ parent \in [Evaluators -> Evaluators \cup {Nothing}]
  /\ life \in [Evaluators -> {"none", "live", "deleted"}]
  /\ forked \in [Evaluators -> BOOLEAN] /\ single \in BOOLEAN
  /\ refcount \in [Evaluators -> Nat]
  /\ idle \in [Evaluators -> Seq(Nat)] /\ created \in [Evaluators -> Nat]
  /\ mainInUse \in [Evaluators -> BOOLEAN]
  /\ contexts \in [Slots -> Contexts \cup {Nothing}]
  /\ pending \in [Calls -> Completions \cup {Nothing}]
  /\ answer \in [Calls -> {"none", "awaited", "promised", "given"}]
  /\ hops \in [Calls -> Nat]
  /\ values \in [Evaluators -> SUBSET Evaluators] /\ mixed \subseteq Evaluators

Live(e) == life[e] = "live"
Running == {x \in Slots : contexts[x] # Nothing}
In(e) == {x \in Running : contexts[x].evaluator = e}
Owed == {k \in Calls : pending[k] # Nothing}

(* The least unused number of a set of them.                               *)
Least(S) == CHOOSE n \in S : \A m \in S : n <= m

(* Nothing runs in the evaluators, and nothing ever did.                   *)
Fresh ==
  [parent |-> [e \in Evaluators |-> Nothing],
   life |-> [e \in Evaluators |-> IF e = Root THEN "live" ELSE "none"],
   forked |-> [e \in Evaluators |-> FALSE],
   zero |-> [e \in Evaluators |-> 0],
   idle |-> [e \in Evaluators |-> <<>>],
   contexts |-> [x \in Slots |-> Nothing],
   pending |-> [k \in Calls |-> Nothing],
   answer |-> [k \in Calls |-> "none"],
   hops |-> [k \in Calls |-> 0],
   values |-> [e \in Evaluators |-> IF e = Root THEN {Root} ELSE {}]]

Init ==
  /\ parent = Fresh.parent /\ life = Fresh.life /\ forked = Fresh.forked
  /\ single \in BOOLEAN
  /\ refcount = Fresh.zero /\ idle = Fresh.idle /\ created = Fresh.zero
  /\ mainInUse = Fresh.forked
  /\ contexts = Fresh.contexts /\ pending = Fresh.pending
  /\ answer = Fresh.answer /\ hops = Fresh.hops
  /\ values = Fresh.values /\ mixed = {}
  /\ aborted = "no"

(* A check that fails ends the program, and with it all that it had; what  *)
(* was mixed is history.                                                   *)
Abort(why) ==
  LET nothing == Fresh IN
  /\ aborted' = why
  /\ parent' = nothing.parent /\ life' = nothing.life /\ forked' = nothing.forked
  /\ refcount' = nothing.zero /\ idle' = nothing.idle /\ created' = nothing.zero
  /\ mainInUse' = nothing.forked
  /\ contexts' = nothing.contexts /\ pending' = nothing.pending
  /\ answer' = nothing.answer /\ hops' = nothing.hops
  /\ values' = nothing.values
  /\ UNCHANGED single

-----------------------------------------------------------------------------
(* Families.                                                               *)
HasParents(S) == \A a \in S : parent[a] # Nothing => parent[a] \in S
Ancestors(e) ==
  {a \in Evaluators : ~\E S \in SUBSET (Evaluators \ {a}) : e \in S /\ HasParents(S)}

IsDescendantOf(e, other) == other \in Ancestors(e)

FindCommonEvaluator(e, other) ==
  CASE IsDescendantOf(e, other) -> e
    [] IsDescendantOf(other, e) -> other
    [] OTHER -> Nothing

Fork(e) ==
  /\ Live(e)
  /\ \E n \in Evaluators :
       /\ life[n] = "none" /\ \A m \in Evaluators : life[m] = "none" => n <= m
       /\ parent' = [parent EXCEPT ![n] = e]
       /\ life' = [life EXCEPT ![n] = "live"]
  /\ forked' = [forked EXCEPT ![e] = TRUE]
  /\ UNCHANGED <<single, factories, work, values, mixed, aborted>>

(* The host deletes an evaluator when its children are gone and its calls  *)
(* have come back, which the destructor checks by the count.  The host's   *)
(* values of it end before it does.                                        *)
Delete(e) ==
  /\ Live(e)
  /\ \A c \in Evaluators : parent[c] = e => ~Live(c)
  /\ In(e) = {}
  /\ \A k \in Owed : pending[k].evaluator # e
  /\ IF refcount[e] # 0 \/ mainInUse[e]
     THEN Abort("destroyed while running")
     ELSE /\ life' = [life EXCEPT ![e] = "deleted"]
          /\ values' = [values EXCEPT ![e] = {}]
          /\ UNCHANGED <<parent, forked, single, factories, work, aborted>>
  /\ UNCHANGED mixed

-----------------------------------------------------------------------------
(* The context factory.                                                    *)
SingleContext(e) == e = Root /\ single
MayMakeContext(e) == SingleContext(e) => ~mainInUse[e]

(* NewContext lends the main manager, the idle one that came back last, or *)
(* a new one; a manager is named by its number.                            *)
Borrowed(e) == CASE SingleContext(e) -> 0
                 [] ~SingleContext(e) /\ idle[e] = <<>> -> created[e] + 1
                 [] OTHER -> idle[e][Len(idle[e])]

IdleAfter_Kept(e) == idle[e]
IdleAfter(e) == IF idle[e] = <<>> THEN <<>> ELSE SubSeq(idle[e], 1, Len(idle[e]) - 1)

NewContext(e, context) ==
  /\ Running # Slots
  /\ contexts' = [contexts EXCEPT ![Least(Slots \ Running)] = context]
  /\ mainInUse' = [mainInUse EXCEPT ![e] = @ \/ SingleContext(e)]
  /\ idle' = [idle EXCEPT ![e] = IdleAfter(e)]
  /\ created' = [created EXCEPT ![e] = IF Borrowed(e) > @ THEN Borrowed(e) ELSE @]

ReleaseContext(x) ==
  LET e == contexts[x].evaluator IN
  /\ contexts' = [contexts EXCEPT ![x] = Nothing]
  /\ mainInUse' = [mainInUse EXCEPT ![e] = @ /\ ~SingleContext(e)]
  /\ idle' = [idle EXCEPT ![e] = IF SingleContext(e) THEN @ ELSE Append(@, contexts[x].manager)]
  /\ refcount' = [refcount EXCEPT ![e] = @ - 1]
  /\ UNCHANGED created

AddReference(e) == refcount' = [refcount EXCEPT ![e] = @ + 1]

-----------------------------------------------------------------------------
(* Host code runs outside of the machine, on a thread of its own, or is    *)
(* called by a context that goes on when it returns.                       *)
InHost == {"customValue", "nonBlockingCustomValue", "answered"}
Waiting(x) == \E y \in Running : contexts[y].caller = x
HostThreads == {Nothing} \cup {x \in Running : contexts[x].step \in InHost /\ ~Waiting(x)}

HasValues(e) == values[e] # {}
ReachesNew(e, reach) == ~({e} \cup reach \subseteq values[e])
Add(e, reach) == values' = [values EXCEPT ![e] = @ \cup {e} \cup reach]

NotForked_Ignored(e) == e \in DOMAIN forked
NotForked(e) == ~forked[e]

(* Nobody asks whether e may have what it is handed.  What is recorded of  *)
(* it is history, which nothing but a property reads.                      *)
Mix(e, allowed) ==
  /\ allowed \/ Cardinality(mixed \cup {e}) <= MaxMixed
  /\ mixed' = IF allowed THEN mixed ELSE mixed \cup {e}

(* NewTuple and NewArray take values of whatever evaluator as parts, once  *)
(* it is known that this one was not forked.  Values without parts reach   *)
(* less, as those of the root do: its support code and names.  A value     *)
(* that reaches what others reach already changes nothing.                 *)
NewValue(e) ==
  /\ Live(e)
  /\ IF NotForked(e)
     THEN \E o \in Evaluators :
            /\ HasValues(o) /\ ReachesNew(e, values[o]) /\ Add(e, values[o])
            /\ Mix(e, FindCommonEvaluator(e, o) # Nothing)
            /\ UNCHANGED <<tree, factories, work, aborted>>
     ELSE /\ Abort("used after Fork")
          /\ UNCHANGED mixed

Strangers(e) == {o \in Evaluators : HasValues(o) /\ ~IsDescendantOf(e, o)}

CloneValue(e) ==
  /\ Live(e)
  /\ \/ \E o \in Evaluators :
          /\ HasValues(o) /\ IsDescendantOf(e, o)
          /\ ReachesNew(e, values[o]) /\ Add(e, values[o])
          /\ UNCHANGED <<tree, factories, work, aborted>>
     \/ Strangers(e) # {} /\ Abort("not a descendant")
  /\ UNCHANGED mixed

-----------------------------------------------------------------------------
(* A call runs where all the values it works on are valid.                 *)
Start(k, e, reach, caller, blocking) ==
  CASE e = Nothing -> Abort("independent evaluators")
    [] e # Nothing /\ ~NotForked(e) -> Abort("used after Fork")
    [] e # Nothing /\ NotForked(e) /\ ~MayMakeContext(e) -> Abort("several contexts")
    [] OTHER ->
         /\ NewContext(e, [evaluator |-> e, manager |-> Borrowed(e), call |-> k,
                           step |-> "running", reach |-> reach \cup {e}, caller |-> caller,
                           returns |-> IF blocking THEN "result" ELSE "nothing"])
         /\ AddReference(e)
         /\ answer' = [answer EXCEPT ![k] = IF blocking THEN "awaited" ELSE "promised"]
         /\ UNCHANGED <<tree, pending, hops, values, aborted>>

NextCall == Least({k \in Calls : answer[k] = "none"})
MayCall == \E k \in Calls : answer[k] = "none"

(* A value of evaluator e is applied to one of evaluator o.                *)
InternalCall(e, o, caller, blocking) ==
  /\ MayCall /\ HasValues(e) /\ HasValues(o)
  /\ Start(NextCall, FindCommonEvaluator(e, o), values[e] \cup values[o], caller, blocking)
  /\ UNCHANGED mixed

(* Evaluate takes its imports as the resolver returned them.               *)
Evaluate(e, o, caller) ==
  /\ MayCall /\ Live(e) /\ HasValues(o)
  /\ Start(NextCall, e, values[o], caller, TRUE)
  /\ Mix(e, FindCommonEvaluator(e, o) # Nothing)

(* One context runs: it gives the result to the call's callback, or enters *)
(* host code.                                                              *)
Steps(x) == /\ aborted = "no" /\ contexts[x] # Nothing
            /\ contexts[x].step = "running"

AddResult(x) == Add(contexts[x].evaluator, contexts[x].reach)

Awaits(k) == CHOOSE y \in Running : contexts[y].call = k /\ contexts[y].returns = "result"

DoneCallback(x) ==
  LET k == contexts[x].call IN
  /\ Steps(x) /\ answer[k] = "awaited"
  /\ answer' = [answer EXCEPT ![k] = "given"]
  /\ contexts' = [contexts EXCEPT ![x].step = "ended",
                                  ![Awaits(k)].reach = @ \cup contexts[x].reach]
  /\ UNCHANGED <<tree, factories, pending, hops, values, mixed, aborted>>

NonBlockingDoneCallback(x) ==
  LET k == contexts[x].call IN
  /\ Steps(x) /\ answer[k] = "promised"
  /\ answer' = [answer EXCEPT ![k] = "given"]
  /\ AddResult(x)
  /\ contexts' = [contexts EXCEPT ![x].step = "answered"]
  /\ UNCHANGED <<tree, factories, pending, hops, mixed, aborted>>

Enter(x, step) ==
  LET k == contexts[x].call IN
  /\ Steps(x) /\ hops[k] < MaxHops
  /\ hops' = [hops EXCEPT ![k] = @ + 1]
  /\ contexts' = [contexts EXCEPT ![x].step = step]

(* The host is given the context's function and parameter as values.       *)
RunCustomValue(x) ==
  /\ Enter(x, "customValue") /\ AddResult(x)
  /\ UNCHANGED <<tree, factories, pending, answer, mixed, aborted>>

RunNonBlockingCustomValue(x) ==
  /\ Enter(x, "nonBlockingCustomValue") /\ AddResult(x)
  /\ pending' = [pending EXCEPT ![contexts[x].call] =
                   [evaluator |-> contexts[x].evaluator, reach |-> contexts[x].reach]]
  /\ AddReference(contexts[x].evaluator)
  /\ UNCHANGED <<tree, idle, created, mainInUse, answer, mixed, aborted>>

(* Host code answers with a value of whatever evaluator; only the debug    *)
(* memory manager knows that a value is not its own.                       *)
OwnManager(e, o) == SingleContext(e) => o = e

ReturnFromHost(x) ==
  LET e == contexts[x].evaluator IN
  /\ aborted = "no" /\ x \in HostThreads \ {Nothing}
  /\ \/ /\ contexts[x].step = "customValue"
        /\ \E o \in Evaluators :
             /\ HasValues(o)
             /\ IF OwnManager(e, o)
                THEN /\ contexts' = [contexts EXCEPT ![x].step = "running",
                                                     ![x].reach = @ \cup values[o]]
                     /\ UNCHANGED <<tree, factories, pending, answer, hops, values, aborted>>
                ELSE Abort("another memory manager")
             /\ Mix(e, IsDescendantOf(e, o))
     \/ /\ contexts[x].step # "customValue"
        /\ contexts' = [contexts EXCEPT ![x].step = "ended"]
        /\ UNCHANGED <<tree, factories, pending, answer, hops, values, mixed, aborted>>

(* TrackedNonBlockingCustomValue::Done, on the thread of caller: the new   *)
(* context counts as a reference before the one held for it is dropped.    *)
RefcountAfterDone_Kept(e) == refcount[e] + 1
RefcountAfterDone(e) == refcount[e]

AfterDone_Lost == "ended"
AfterDone == "running"

Done(k, o, caller) ==
  LET owed == pending[k]
      e == owed.evaluator
  IN
  /\ aborted = "no" /\ HasValues(o)
  /\ CASE ~MayMakeContext(e) -> Abort("several contexts")
       [] MayMakeContext(e) /\ ~OwnManager(e, o) -> Abort("another memory manager")
       [] OTHER ->
            /\ NewContext(e, [evaluator |-> e, manager |-> Borrowed(e), call |-> k,
                              step |-> AfterDone, reach |-> owed.reach \cup values[o],
                              caller |-> caller, returns |-> "nothing"])
            /\ pending' = [pending EXCEPT ![k] = Nothing]
            /\ refcount' = [refcount EXCEPT ![e] = RefcountAfterDone(e)]
            /\ UNCHANGED <<tree, answer, hops, values, aborted>>
  /\ Mix(e, IsDescendantOf(e, o))

DoneSome(k) == /\ k \in Owed
               /\ \E o \in Evaluators, caller \in HostThreads : Done(k, o, caller)

(* The context ends; a blocking call returns its result, which has to be   *)
(* there.                                                                  *)
Return(x) ==
  /\ aborted = "no" /\ contexts[x] # Nothing
  /\ contexts[x].step = "ended"
  /\ IF contexts[x].returns = "result" /\ answer[contexts[x].call] # "given"
     THEN Abort("result not ready")
     ELSE /\ ReleaseContext(x)
          /\ IF contexts[x].returns = "result" THEN AddResult(x) ELSE UNCHANGED values
          /\ UNCHANGED <<tree, pending, answer, hops, aborted>>
  /\ UNCHANGED mixed

(* A context that reaches memory of a deleted evaluator may find it as it  *)
(* was; or the program ends there.  What else it may do is not followed.   *)
UseFreed(x) ==
  /\ Steps(x)
  /\ \E a \in contexts[x].reach : ~Live(a)
  /\ Abort("freed memory used")
  /\ UNCHANGED mixed

RunContext(x) == \/ DoneCallback(x)
                 \/ NonBlockingDoneCallback(x)
                 \/ RunCustomValue(x)
                 \/ RunNonBlockingCustomValue(x)
                 \/ UseFreed(x)

HostActs ==
  /\ aborted = "no"
  /\ \/ \E e \in Evaluators : \/ Fork(e)
                              \/ Delete(e)
                              \/ NewValue(e)
                              \/ CloneValue(e)
     \/ \E e, o \in Evaluators, caller \in HostThreads :
          \/ Evaluate(e, o, caller)
          \/ \E blocking \in BOOLEAN : InternalCall(e, o, caller, blocking)

(* Some thread goes on.                                                    *)
GoOn == \E x \in Slots : RunContext(x) \/ ReturnFromHost(x) \/ Return(x)
Complete == \E k \in Calls : DoneSome(k)

Next == HostActs \/ GoOn \/ Complete

Spec == Init /\ [][Next]_evaluatorVars

(* Threads go on, host code returns, and non-blocking values complete.     *)
FairSpec == Spec /\ WF_evaluatorVars(GoOn) /\ WF_evaluatorVars(Complete)

-----------------------------------------------------------------------------
(* The factory's count is that of its contexts and of the completions it   *)
(* will be needed for.  An evaluator that nothing runs in can so be        *)
(* deleted, and none that something will run in.                           *)
RefcountExact ==
  \A e \in Evaluators :
    refcount[e] = Cardinality(In(e)) + Cardinality({k \in Owed : pending[k].evaluator = e})

(* No two contexts, on whatever threads, use the same memory manager, and  *)
(* none that is in use is lent again.                                      *)
ManagersExclusive ==
  /\ \A x, y \in Running :
       contexts[x].evaluator = contexts[y].evaluator
         /\ contexts[x].manager = contexts[y].manager => x = y
  /\ \A x \in Running : \A i \in DOMAIN idle[contexts[x].evaluator] :
       contexts[x].manager # idle[contexts[x].evaluator][i]

(* What belongs to an evaluator reaches memory of it and its ancestors     *)
(* only, which all live: deleting a child leaves no value dangling.  Host  *)
(* code can break that for an evaluator and its descendants, by parts,     *)
(* imports and answers that nobody checks; but for no other: that a call   *)
(* runs in the evaluator where all its values are valid, that a forked one *)
(* makes no values, and that only ancestors' values are cloned, keeps out  *)
(* everything else.                                                        *)
Pure(e) == Ancestors(e) \cap mixed = {}
StaysInside(e, reach) == Pure(e) => reach \subseteq {a \in Ancestors(e) : Live(a)}

ValuesStayInside == /\ \A e \in Evaluators : StaysInside(e, values[e])
                    /\ \A x \in Running : StaysInside(contexts[x].evaluator, contexts[x].reach)
                    /\ \A k \in Owed : StaysInside(pending[k].evaluator, pending[k].reach)

(* Every call is answered and all its contexts are released, unless one of *)
(* the program's own checks ends it.  The host makes a bounded number of   *)
(* calls, so each of them is over when, again and again, all of them are.  *)
Over(k) == answer[k] = "given" /\ \A x \in Running : contexts[x].call # k
AllOver == aborted # "no" \/ \A k \in Calls : answer[k] = "none" \/ Over(k)
CallsEnd == []<>AllOver
=============================================================================
