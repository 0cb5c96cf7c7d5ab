# Specifications of Evlan

Evlan is a small functional language whose programs can call functions that live
on other machines.  This directory holds TLA+ specifications of its
implementation in `src/src/evlan`, models that TLC checks, and proofs that TLAPS
checks.  `PROJECT.json` gives, for every definition, the lines of source it
models, and for every property a plausible bug in that code that breaks it.

1. [The system](#the-system) – components, how they interact, what is hard
2. [The modules](#the-modules) – how state and actions correspond to the code
3. [The runs](#the-runs) – what each shows, its bounds, the fairness assumed
4. [The proofs](#the-proofs)
5. [Where the code does not do what it says](#where-the-code-does-not-do-what-it-says)
6. [What is not modelled](#what-is-not-modelled), [plan](#plan)

## The system

A program is parsed (`parser/`) and compiled into a tree of numbers, which the interpreter
(`vm/interpreter/`) runs as a chain of continuations: a *context* holds a
function, its parameter and a callback, and each step puts the next three in
place.  Values lie in memory that a `MemoryManager` collects (`vm/memory/`).  A
value that refers to another machine is a stub; calling it (`vm/distribute/`)
sends the parameter over an RPC with two streams, on which values are pushed by
one side and asked for (pulled) by the other.  `public/` holds the C++ API, the
evaluation server with its `parallel` call, and the import resolvers.

| component | state it keeps | operations | interacts through |
| --- | --- | --- | --- |
| server session (`evlan_worker_impl.cc`) | session state, reference count, pusher and puller | `Start`, stream messages, `StartProcessing`, `DoneProcessing`, `Canceled`, `StoppedReceiving`, `Unref` | callbacks on the executor that hold raw pointers to the session |
| client session (`remote_worker_impl.cc`) | session state, pusher and puller, final callback | `RunInNewContext`, `StreamDone`, `Done`, `RunCallback` | the controller; the evaluator through the final callback |
| RPC system (`rpc.h`, `fake_rpc.cc`) | per call: canceled flag, cancel callback, stream callback | the controller's methods, the executor's `Add` | both ends share the fake controller's memory |
| exchange of values (`marshaller.cc`, `unmarshaller.cc`) | what was sent, received, requested; indices in the message | `Push`, `Pull`, `Unmarshal` | messages; the value registries |
| worker and value registries | weak tables from address or id to object | look up, register, `Accept`, destruction | threads share them under a lock; the collectors condemn entries |
| memory manager (`debug_memory_manager.cc`) | allocations, blocks, trackers, backlinks | allocate, make interval, withdraw, collect | every allocation moves everything |
| allocators (`braindead_memory_manager.cc`, `pool_allocator.cc`, `debug_allocator.cc`) | the last blocks and those withdrawn; pools and the place in the last one; guard bytes, freed blocks that are held | allocate, extend, withdraw, destroy | each other, in layers down to `operator new`; whoever withdraws |
| protocol messages (`protobuf.cc`) | builders: lists of assignments that may share a tail; messages, which trackers own; references into them | `set` and `add`, members of a message, build, collect | memory manager; C++ code that keeps values alive |
| atoms (`atom.cc`) | table of names with a reference count | look up, fork, collection, destruction | threads; any number of collectors |
| libraries and resolvers (`library.cc`, `import_resolver.cc`) | map of loaded modules; map of prefixes | `GetModule`, `Resolve` | recursive loading |
| parallel call (`server.cc`) | results, counters | start, callbacks that succeed or fail | evaluator threads, in any order |
| builtins (`native.h`, `integer.cc`, `boolean.cc`, `atom.cc`, `array.cc`, `support.cc`, `api/builtinSupport.evlan`) | hash tables of atoms; for each type what the support code makes of its values | native functions; tables of atoms; setting the support code, calling a value | the interpreter, which runs the support code before any program |
| interpreter, arrays (`interpreter.cc`, `array.cc`) | the context's registers; frames, callback data, tuples, builders | one `Run` per kind of code; loading | memory manager, which lets them withdraw the last block |
| parser (`parser.cc`) | an iterator over the tokens of a statement | one function per form of the grammar | the compiler, to which it hands an expression |
| compiler (`expression.cc`) | expression tree, order and recursive variables of the bindings of a block | compile a module | its code tree, which the interpreter loads |
| evaluator (`evaluator.cc`) | a tree of evaluators; a reference count and idle memory managers for each; contexts; completions owed by the host | `Fork`, `Evaluate`, `Call`, custom and non-blocking values, their completion, deletion | threads, and code of the host that is called in the middle of a call |
| interactive session (`client.cc`, `server.cc`, `interactive_interpreter.cc`) | the client's variables and imported files, with their times; the server's interpreters, one per client | a statement, which sends the changed files it imports first; the calls on the server | RPCs, which may break |

**What makes it correct.** A call delivers one outcome, once, whatever the other
end does; a callback never finds its session deleted; sessions do not leak.  The
receiver of values rebuilds what the sender had, in an order in which everything
exists when it is needed.  Two threads that look up one name share one live
object while the collector takes away another.  A pointer leads after a
collection to what it led to before; no byte is given to two, and none that may still be
read is given back.  A message is what was set in its builder, whatever else was made from the
builders it shares assignments with.  A program, compiled and run, gives what it
means, here or after its result was sent to another machine, and nothing it still needs is
given back.  A library is loaded once, after what it
needs.  A parallel call answers exactly once, as soon as it may.  No two contexts
allocate from one memory manager; an evaluator's state outlives whatever still calls
back; a parent never holds a value of its child, unless host code mixed them where nobody
checks.  What the server evaluates is what
the client's files and variables were.

**What is hard.** The server session is deleted by the last of four holders of a
raw pointer, in any order.  A value can be asked for, known, registered and
collected at the same time at both ends.  The tables are weak: they hold
pointers the collector is allowed to invalidate, and late collectors call back
after a slot was reused.  The memory manager renumbers everything at each
collection while trackers hold indices.  The list of these hazards, line by line,
with the property that covers each, is in `PROJECT.json`.

## The modules

### Remote calls

| module | models | state |
| --- | --- | --- |
| `RpcSystem` | executor, streaming controller of both ends | `rpc`, `pending` |
| `PushPull` | control states of `ValuePusher` and `ValuePuller` | none: operators on records |
| `WorkerSession` | `EvlanWorkerImpl::CallSession`, one action per handler | `srv` |
| `ClientSession` | `RemoteWorkerFactoryImpl::CallSession`, one action per handler | `cli` |
| `AnyClient`, `AnyServer` | one session facing a peer that sends any message the protocol has, out of turn or in | – |
| `RemoteCall` | all of them; `foreign` says which end of a call is another program | `foreign` |
| `AbstractCall` | what a call promises its caller: idle, calling, one outcome | refined by `RemoteCall` |

`pending[c][e]` counts how often callback `e` of call `c` is queued on the
executor.  The executor may run any of them next, which `rpc.h` allows; the one
order kept is the controller's, that the last callback of a stream comes after
the stream's messages.  Each action of a session is one callback: it takes it out
of the bag, does everything the handler does up to its return, and adds what the
handler queued.  Values are abstract here: unmarshalling ends by a
nondeterministic choice in "waits", "complete" or "invalid"; which one real
values lead to is the next family.  `srv[c].refs` is `ref_count_`, and the ghost
`Holders` counts who will still drop a reference.

`Fakes` chooses the RPC system.  With `TRUE` it is `fake_rpc.cc` as written, with
a reset that clears both ends; with `FALSE` one that keeps protobuf's contract
(the cancel callback always runs in the end) and may lose the connection.

### Exchange of values

`Values` holds the graphs of values and their abstract messages, `Marshalling`
`ValuePusher` with `Marshaller` (who owns what, which index a value takes in a
message, what becomes persistent), `Unmarshalling` `ValuePuller` (known ids,
requests, the receiver-side order of evaluation), `ValueExchange` the two taking
turns until the puller is done.  The initial states enumerate every graph of
`NodeCount` values over eight kinds (atoms, blobs, trees that share children,
remote objects of this and other workers, functions, values without a marshaller)
and what the receiver's registry already knows.  `Unmarshal` calls the evaluator in
the middle, so one call of it is several steps.

### Weak tables

`TrackedObjects` is what three tables share: objects with a life (`unborn`, `live`,
`doomed`, `gone`), threads that hold them, and collectors: prompt ones (`prompt`) that
destroy an object in the same step as they find it unreachable, and late ones that leave a
gap, while it is `doomed`, in which another thread acts.  `RemoteWorkers` (one worker per address, the factory's
destruction), `ValueRegistries` (persistent values and cached ones) and `Atoms`
(names, own state, fork, the reference count of the shared state) extend it, and
`WeakTables` holds the three side by side, and its `part` says which of them a behaviour is
of; `MemoryManagers` extends it.  A
critical section under a lock is one action; what the code does after it unlocks
is another.

### Memory

`DebugMemoryManager` is the collector that moves all memory at every allocation: `AllocateBytes`, `TryExtendBytes`,
`TryWithdrawBytes` and the rest of the manager's interface, and what a program does with its root
(`TakeInterval`, `Forget`).  Memory (`allocations`) is a sequence of allocations of blocks of cells; each cell has a `stamp` of its own, and a pointer
remembers the stamps of what it was made to point at, so `PointersFollow` can tell whether it still leads there.  A collection is one step, as in
the code: `Visited` is what the mark queue reaches from root and external references, through `trackers` and backlinks
(`links`); `Sweeps` gives all that can be left of it, for every order that blocks may have by address.
Its assertions are the conjuncts of `ChecksHold`.

`Allocators` is the manager that every evaluator uses by default and the two allocators it is
put on.  A block is an interval of addresses; `operator new` gives any free one.  `blocks` and
`withdrawn` are the manager's lists, `allocator` is the state of the one below: for the pool
`position` and `remaining` in the last pool, for the debugging one what it holds and which of its
guard and held bytes were overwritten (`written`, by a program with an error, one byte at a time).
`withdrawn` is read by `TryWithdraw`'s contract: those bytes stay readable until the next allocation.

`Protobufs` models protocol messages as values.  One type `M` has a field of each kind that the
code treats apart (repeated, plain, of another message type, extension with an enum); `heap` is the stack
of cells of a memory manager and the tracked messages; `current` is the value returned last, `frames` are cells in
which running code keeps values and `handles` the values that C++ code keeps alive.  A builder is a list of
assignments that shares its tail with the builder it was made from; making one withdraws the other if nothing was
allocated since.  A value remembers in `meant` what it meant when it was
made, and `MessagesKeepMeaning` compares that with what its memory holds now.
`HoldsBuilders` says whether C++ code keeps builders too, which is where the code fails.

`MemoryManagers` puts weak tables, collector and allocators side by side in one state space, as
`EvaluationServer` does, and states what is to hold of the last two; `ProcessMemory` adds the messages and the
specification of all four.  `focus` says of which a behaviour is.

### Evaluation server, libraries, resolvers

`ParallelCall` models the state of one parallel call: `numLeft`, `abandonCount`,
the array of results.  `Libraries` models `LibraryLoader::Load` with the recursion of `LoadInternal` as a `stack` of
libraries being loaded, and counts who owns values of each library: the map, an
activation that collects them for what depends on them, or callers (`requests`).  `ImportResolver` models the walk over the ordered map of
prefixes against a declarative definition of the longest prefix.

`Evaluator` models a tree of evaluators.  A context borrows a memory manager of the
evaluator it runs for, or makes one, and gives it back when its thread leaves it; a
call on a custom or non-blocking value enters code of the host, which may use the API
again, so `contexts` nest.  A non-blocking value leaves a completion that the host owes
and that may come before, during or after everything else.  What the code does under
the factory's lock is one action.  `Ancestors` is the least family around an evaluator that has its
parents, which is what the loop of `IsDescendantOf` walks through.  Values are told apart by the evaluator whose memory they reach;
the host is given a custom value's function and parameter, and a value without parts reaches no more than the root's do.  The
host deletes an evaluator only when its children are gone, no context runs in it and
nothing is owed to it, as `evaluator.h` asks.  A check that fails (a clone of what is no ancestor's, a call between
siblings, an evaluator used after its fork) ends the program, as in a debug build.  The code does not check the parts of
tuples and arrays (`evaluator.cc:1025`, `:1044`), the imports of `Evaluate` (`:925`) and the answers of host code (`:98`,
`:205`): they may be values of any evaluator.  Only the debug memory manager, which the root has in
mode `SINGLE_CONTEXT`, stops at an answer that is not its own (`debug_memory_manager.cc:388`, `OwnManager`).  `mixed` records
the evaluators that were handed a value of a stranger: as a part or import one of no relative, as an
answer one of no ancestor.  `ValuesStayInside` is about evaluators with no such ancestor and not such themselves (`Pure`), and
says that mixing reaches nobody else.  A context that reaches freed memory may go on as if it
were there, or the program ends (`UseFreed`).
Reading values and statistics are left out; the support code is in `Language`.

`InteractiveSession` models the client that sends a statement after it has sent every
file the statement imports, those that these import first (the recursion is the stack
`nested`), and leaves out what the server has in the version that the file has now; and the service that saves results by
the client's name.  Files carry versions and are edited at any time.  A call may break
before the server got it, or after; then the client goes on without it and its
result is saved whenever it is ready.  A handler of the service is one action: the RPC system runs
one at a time.  The import graph has no cycle, since the client would not return from
one (`client.cc:112` has a TODO), and each edit changes the file's time.

`EvaluationServer` puts the five side by side in one state space; a variable says
which part a behaviour is of, so that they share a run.

### Compiler and interpreter

| module | models | state |
| --- | --- | --- |
| `CodeTrees` | the instructions of `module.proto` | – |
| `Parser` | `parser.cc`, and what `expression.cc` makes of objects, arrays, `if` | none: operators on an iterator |
| `Texts` | what one means, the text one writes for it with as few brackets as the priorities ask for, and the expression that is to come of it | none: operators |
| `Expressions` | `expression.cc`: order of bindings, recursive variables, constants, code | none: operators |
| `Interpreter` | `interpreter.cc`, `TupleLogic` and the builders of `array.cc`, allocation and withdrawal of `braindead_memory_manager.cc` | `module`, `constant`, `index`, `memory`, `context`, `outcome` |
| `Builtins` | native modules and functions with the checks of their parameters, tables of atoms, the support code manager | `stride`, `support` |
| `SupportCode` | `api/builtinSupport.evlan`, as the text that one writes | none |
| `Programs` | the families of programs that are run | none |
| `SentFunctions` | the `Marshal` methods of `interpreter.cc` and `array.cc`, `GetSubFunction`, and how the receiver makes the values again, running the interpreter in between | `sent`, `hops` |
| `Language` | what programs mean, and parser, compiler and interpreter one after the other | `program` |

The parser is a set of recursive operators.  Each takes an iterator over the tokens of a
statement, in which a block is one token, and returns what it made and the iterator
after it; the iterator counts the errors, which the code only logs before it
goes on.  Where a loop of the parser makes no progress the iterator is marked as hanging,
and the program ends there.  `Texts` is independent of it in that it never looks at what follows
in a text: `NeedsBrackets` says from the priorities around an expression when it
has to be bracketed.

Each action of `Interpreter` is one `Logic::Run`, which ends by setting the three
registers of `context`.  A value is a logic and its data: a number, a name or a block of
`memory`.  `memory.heap` is the stack of blocks that may still be withdrawn, `withdrawn`
holds those that the next allocation may reuse.  Memory that is reused is not
overwritten in the model: if anything in reach of the registers leads to it, the
behaviour ends with `outcome = "lost"`, since what the program does from there on
depends on what the allocator puts there.  The addresses by which the
compiler's sets are ordered are an input.  `constant` holds the nodes that
the loader has folded; what the loader allocates besides is one block, since none of it
is ever withdrawn.  In the same way `outcome` is `full` when a program that does not end
has filled the bound on blocks, and `stopped` when an assertion of the compiler fails.

`module` holds several code trees, one after the other.  In `SentFunctions` a program that
has ended with a function, or with a tuple or array of functions, sends it on: `Marshal` gathers what the value is made of
(the outer function with its code and constants, inner functions with the values of the frames between), and
the receiver, whose memory is empty, loads each code tree as a new one and makes the inner functions by running the interpreter.  The
value that arrives is sent on again or called.

`Builtins` adds the functions of the library `builtin`.  A native function is one step: it
checks how many parameters there are, translates them, passes an error on, gives their tuple back unless it is
one that may allocate, and answers.  Calling a number, a boolean, an atom or an array (its methods are members
that one calls it for) runs what the support code made of its type, and that applies the object it gets to the
atom.  The support code is a program like another: `SetSupportCode` runs `BuiltinSupport`, through parser,
compiler and interpreter, asks the module that comes out for each type, and keeps the answers in `support`; then `NewProgram`
chooses a program, which runs in what memory and code trees are there.  The buckets of an atom table are
chosen by the addresses of atoms; these are `stride` apart, 8 bytes, which spreads them, or
2024 = 8 * 11 * 23, with which all start in one bucket of a table of 11 or 23.

`Meaning` in `Language` defines what an expression means, with names and
closures; it shares nothing with the compiler or the machine but the
syntax, and defines what methods give without the support code.

## The runs

States are those of one run of TLC with the constants of the `.cfg` file.

| run | asks | bounds |
| --- | --- | --- |
| `call_any_peer` | Is a session safe against any peer, and does a call give one outcome? | one call; 2 pulls; 2 messages of a kind on their way; both RPC systems; bad data |
| `call_live` | Does every honest call succeed, end, and free its session? | one call; 3 pulls; fair |
| `server` | Is a parallel call answered once, with the allowed defaults? Are libraries loaded once and in order; is the longest prefix found?  Do evaluators share nothing they must not, and end when the last user is gone?  Does the server evaluate what the client has? | 4 functions, 0, 1 or 3 to give up; 3 libraries, every way in which each names up to 2, each library returned at most twice; every map of five nested and neighbouring keys; 3 evaluators, 2 calls, 2 contexts at once, the host entered once per call and mixing values into 1 evaluator; 2 files, 1 variable, 2 statements, 1 edit, 1 broken call; fair |
| `exchange` | Is what arrives what was sent, and does every exchange end? | graphs of 4 values; fair |
| `memory` | Do threads share one live object per address, id or name, while collectors take others away?  Do pointers still lead where they led?  Is memory that is given back, pooled or held given to nobody else, and is all of it given back?  Does a message stay what was set in its builder? | 3 objects, 2 threads, 2 addresses, 1 id, 2 values, 2 names; 2 slots, 1 tracked object, 1 link, 3 allocations made; 3 blocks of 0, 1 or 3 bytes and 9 addresses; 5 cells, 2 tracked messages, 2 assignments in a builder, 1 value in a frame and 1 in C++ code |
| `language` | Is a text read as it is meant; does the compiled program end in what it means, and is only that given back which nothing leads to? | the texts and orders of bindings (some 30000) of eleven families, below; results sent on once or twice; 150 blocks, meanings 20 deep; with the support code 4000 blocks, meanings 120 deep; atoms 8 bytes apart, in *tables* also 2024 |
| `call_unref`, `response_push`, `protobuf_builder`, `memory_empty`, `language_memory`, `language_tuple` | Deviations, see below | |

The families of `language`: *chains*, three bindings that refer to each other at once or
when called, met in every order; *pairs*, functions that each refer to two of
three; *nested*, blocks in functions in blocks, with escaped and undefined
names; *forwarding*, functions of one and several parameters that hand tuples on;
*builders*, tuple and array builders used twice, too often, and on themselves;
*operators*, up to three binary and unary operators of four priorities, and five of
them in a row; *forms*, every form of the language inside every other; *broken*, the same
with any one bracket left out; *travelling*, functions in functions, on their own and in tuples and
arrays, with constants, parameters and bindings of every level in their reach, which are sent on
and called on the machine where they arrive; *tables*, tables of up to six atoms and what is looked up in
them; *methods*, after the support code: operators on numbers,
booleans and atoms, also of wrong types, native functions with too many, too few and wrong parameters, objects,
arrays with every method modelled, bindings that call themselves a few times.
`MaxFixedArraySize` and `ArgumentSpace` are 2 where the code has 16 and 4:
what matters is that there are sizes on both sides.

**Why the bounds are enough.** Calls share nothing in the model, as in the code,
except the executor, whose bag orders nothing, so one call shows all a
session can do; with 2 pulls there is a first, a middle and a last push, and with two
messages of a kind a peer speaks twice in a row.  The weak tables need one object
that is condemned, one that replaces it and one that replaces that; a third thread
would only repeat what the lock of the second sees.  Four values are the least
for a value shared by two parents, one of which is reached by an id; three
libraries the least for a diamond and a cycle that does not contain the request;
five keys hold a name, its prefixes, and a neighbour that sorts between them.
Three allocations are the least for a pointer into memory that was itself moved
next to another block.  Pools of two small blocks, blocks too large for one, and three blocks at once
are the least for a pool that is left while blocks of it are in use and for a free that is not
of the last block.  Five cells hold two builders that share an assignment, a
message and what the next allocation overwrites; a field of each kind that the code treats apart is in some
program.  Two journeys are the least for a function that is marshalled from what
unmarshalling made, and three nested functions the least for frames in an order.  Three bindings are the least for a cycle next to a binding
that only uses it, which is where variables have to be handed on; tuples
of one and two move, those of three do not, and builders of three count their
elements; 150 blocks and a depth of twenty are more than any program of the families
that ends takes, and 4000 and 120 more than any of those with methods.  Three evaluators are the least for a parent, its child and
a child of that, and for two siblings; one evaluator with mixed values leaves its parent and its sibling to be
disturbed by it; two contexts at once the least to share a manager.  Two files are
the least for one that imports the other, and with one edit a version is
stale once.

**Fairness.** `call_live`: weak fairness of each session's own callbacks, because
the executor runs what it is given and evaluation of what a call applies ends (the model has
no program that loops).  Nothing makes a program call, a foreign peer act, or a
connection break.  `server`: weak fairness of what each part does next of itself (functions of a parallel call
start and finish, threads run on, the client goes on with its statement), and
separately of what comes from elsewhere (a host completes what it owes, the server
answers); edits, broken calls and new calls need not come.  `exchange`:
weak fairness of whichever side has work to do, the executor's again.

**Deadlock** is not checked where the system rests when all it was asked is done;
that it does not rest earlier is what the liveness properties say.

## The proofs

Eight modules hold the proofs.  Each theorem is about every value of the constants: any number
of calls, messages, threads, objects, evaluators, libraries and files.

| module | about | theorem, and the property it proves |
| --- | --- | --- |
| `RpcSystem_proofs` | RPC layer, exchange | lemmas only |
| `WorkerSession_proofs` | a server session facing any client (`AnyClient!WorkerSpec`) | `InvHolds`; `WorkerTypes`; `SessionsOutliveCallbacks` (`CallbacksFindSession`); `RefsNeverShort` (`RefsCoverHolders`); `ChecksNeverFail` (`ServerChecksHold`); `NeverAnswersAgain` (`AnswersOnce`); `NothingLeaks` (`NoReferenceLeaks`, if values fit together) |
| `ClientSession_proofs` | a calling session facing any server (`AnyServer!CallerSpec`) | `CallersInvHolds`; `CallerTypes`; `ClientChecksNeverFail` (`ClientChecksHold`); `DeliversAtMostOnce` |
| `RemoteCall_proofs` | whole calls (`RemoteCall!Spec`), either end of this tree or of another | `CallsInvHolds`; `TypesHold` (`TypeOK`); `ServersOutliveCallbacks`, `ServersCountEveryHolder`, `ServersPassChecks`, `CallersPassChecks`, `ServersAnswerOnce`, `CallsLeakNothing` (as above, of the ends of this tree); `EndsTakeTurns` (`TurnBased`); `HonestCallsNeverFail` (`HonestCallsSucceed`); `CallsImplementAbstractCall` (`ImplementsAbstractCall`) |
| `WeakTables_proofs` | the three weak tables (`WeakTables!TablesSpec`) | `TablesInvHolds`; `WorkersStayUnique` (`OneLiveWorkerPerAddress`); `ValuesStayAlive` (`ValuesListedAndAlive`); `NamesHaveOneAtom` (`AtomsUnique`); `StatesCountAtoms` (`RefcountExact`); `EntriesLeaveWithObjects` (`EntryLeavesWithObject`) |
| `MemoryManagers_proofs` | the manager that never collects, on its allocators (`Allocators!Spec`, here `Memory!Spec`); the collector (`DebugMemoryManager!Spec`, here `Collector!Spec`) | `MemoryInvHolds`; `MemoryGivenOnce` (`MemoryNotShared`); `CollectorInvHolds`; `PointersFollowMoves` (`PointersFollow`); `CollectionsPassChecks` (`ChecksHold`, if no empty interval is taken); `NothingStaysBehind` (`SweepsAll`) |
| `EvaluationServer_proofs` | a parallel call (`ParallelCall!Spec`), an evaluation server (`ServerSpec`) | `ParallelCallsDeliver`; `OneArrayIsDelivered` (`DeliversOnce`); `FactoriesCountExactly` (`RefcountExact`); `ManagersAreNotShared` (`ManagersExclusive`); `NoValueDangles` (`ValuesStayInside`) |
| `ImportsAndSessions_proofs` | what a server imports, loads and remembers (`ServerSpec`) | `LongestPrefixIsFound` (`FindsLongestPrefix`); `LibrariesLoadOnce` (`LoadedOnce`); `ClientsAndServersAgree` (`SessionsAgree`); `StateOutlivesCalls` (`OutlivesCalls`) |

So every invariant and action property of the runs `call_any_peer` and `server` is proved, and of
`memory` all but `MessagesKeepMeaning`.

**Assumptions.**  They type the constants: `FakesAssumption`, `PushPullAssumption`,
`ForeignAssumption` (kinds of RPC system, bounds, which ends are foreign), `TrackedAssumption`,
`ObjectsAssumption`, `NoneAssumption` (objects are finitely many, and the null pointer is no
object, registry or name), `CountAssumption` and `AbandonAssumption` (a parallel call has
functions, and fewer may be given up than there are; with more the code never answers),
`AllocatorAssumption` (sizes are numbers, alignment, pools and guards are not of size zero, and what gets a pool of
its own is at most as large as a pool, as `pool_allocator.h:55` asks),
`MemoryAssumption` (tracked objects and backlinks are finitely many at a time, and the null pointer is no pointer),
`EvaluationAssumption`, `ImportsAssumption`, `LibrariesAssumption`, `SessionAssumption` (numbers,
names, and a null that is none of them).  TLC evaluates each on the runs of the modules that extend it.
`CallsLeakNothing` and `NothingLeaks` assume `~BadData`, without which the code does leak (`call_unref`), and
`CollectionsPassChecks` that `MinBytes = 1`: an empty interval of a byte string does fail a check (`memory_empty`).

**Server session.**  None of the safety properties is inductive: that a queued callback
finds its session needs to know that the last reference has not been dropped,
which needs the count to cover the holders, which needs each one-shot callback to
be queued at most once and to be owed only by a session that exists.  The invariant
is `Inv`: types and, for each call, `Unborn` (nothing exists before the
call arrives), `Unowed` (a deleted session is owed nothing), `OneShot` (each
one-shot callback is queued at most once), `StreamOpen` (messages are left only until
the stream has stopped), `StateFits` (what each state says of pusher, puller and
callbacks) and `Counted`.  There is a lemma for each handler that it keeps
`SessionInv` of its call, and one (`Undisturbed`) that it leaves the other
calls' alone.

**Client session.**  It has no reference count.  `CallerParts` says instead that that until it is deleted just one of `Done` and
the end of rebuilding its values is due (`OneThingDue`), that the final callback is queued or has run only
after (`Delivers`), and what its states say of pusher and puller.

**Whole calls.**  `CallsInv` joins both.  What only the two ends together keep is `TurnInv`
(one push, pull or result is on its way at a time, and values only go back after evaluation) and `Calm`
(between honest ends over the in-process RPC system nothing is canceled before the result).  `Calm` is what
makes `HonestCallsSucceed` true: an error at one end is always the echo of one at the other.
`CallsImplementAbstractCall` then takes each action through the refinement mapping; almost all stutter.

**Weak tables.**  The invariant is that of the table that moves.  `WorkersInv`: a live worker is listed under its
address while there is a table.  `RegistriesInv`: what is pinned is listed, under one id.
`AtomsInv`: an atom is of the registry state whose table lists it (`AtomsBelong`), one that a thread is making
is of that thread alone (`MakingOwn`), and a slot holds the last atom made under its name, and
that atom's key (`TableExact`).  The counts are of sets, so a lemma says how many an atom more or less makes them.

**Allocators.**  That no byte is given out twice is not inductive: the pool only knows where its free end is, and the
debugging allocator only what it was given and what it holds.  `InOrder` says it of each.  What `operator new` gave
is apart (`MallocInOrder`).  In a pool, all that the program has of the current pool is before `position`, and the rest of the pool
behind it (`PoolInOrder`), each block with its aligned size, which is what `Free` of it gives back.  Of the debugging allocator, what `operator new` gave is just a block of the program with its guards, or a block that is
held (`HeldInOrder`), and a byte of known value that was overwritten is watched or was found.
`MemoryInv` puts `InOrder` of what is in the manager's two lists, which have no block in common and none twice.
`FreeAll` frees a list one by one: each free leaves `InOrder` of what is left, which a lemma takes to the
whole list (`Stepwise`).

**Collector.**  That pointers follow is not inductive for what is visited alone, because the visited set
is a fixpoint of the mark queue: after a step it is another one.  So the proof is about closed sets (`Covered`): each pointer
of such a set `Leads` to the cells that it was made to point at, before the withdrawn end of their block, or to a tracker or
backlink that is there, is as old as what points at it allows, and finds only pointers of the set.
What the mark queue reaches is the least closed set with what it starts from (`ReachedIsLeast`): each of as many rounds as
there are values held adds one or ends it.  So a step keeps `CollectorInv` if it leaves some closed set
that has all that the program points at (`CoverSuffices`).  A write adds the new pointer to the visited set; a withdrawal
leaves what is reached without the pointer that is given up.  A sweep leaves the image of the visited set: each pointer is
in one segment (`SegmentMeans`), which ends where the furthest of its marks ends (`EndMeans`) and becomes one block
(`OrderMeans`), so a pointer leads to the same cells by its own offset (`SweptCells`); allocations are numbered anew in their order, so nothing
becomes newer than what points at it (`NewIndexMeans`).  Nothing stays behind because a segment is covered by its
marks (`SegmentCovered`), and because the image is all visited again: what would do with less
would have done so before the sweep (`KeptIsVisited`).

**Parallel call.**  `Parallel` ties the count to the functions that are out, and the results stored to
`numLeft - abandonCount`: a failure lowers both numbers, so only a stored result brings the delivery nearer.

**Evaluators.** `EvaluatorsInv`: parents live as long as their children and are forked (`Families`,
from which an evaluator that was not forked is no other's ancestor, and what works on values of
several evaluators runs in a descendant of all); each call has taken the steps that its contexts and
its completion show (`CallsApart`); references, managers lent and idle (`Managers`), and reach. None
keeps without the others: a wrong count lets a family be deleted that still runs, a call answered
twice drops a reference twice.  What an evaluator may reach is `Below`: its live ancestors, or anything at all once
one of its ancestors was handed a stranger's value.  A step adds to an evaluator only what is below one of its
ancestors, or taints it (`HandedInside`); and a taint spreads to descendants only, because
ancestors of ancestors are ancestors, so what was below stays below (`StillBelow`).

**Imports.**  The walk is not about a state.  Of two prefixes of one name the shorter comes first in the
order of strings (`PrefixOrder`), and prefixes come before the name, so the first prefix that the walk backwards
meets is the longest, whatever lies between.  This is proved of sequences over any numbers.

**Libraries.**  `LoaderInv`: the libraries on the stack are a path, each with the values of the first ones it
names and the next one above it; just they are NULL in the map; a value
in the map was loaded; and the values that exist are the map's, the callers' and those on the stack.
That a cycle is behind every NULL that is met follows from the path, whose libraries
differ and are therefore at most `LibraryCount`.

**Sessions.**  `SessionInv` explains each belief of the client: a file it holds to be imported was, or a
call that it gave up on overwrote it (`FileFits`); a variable has its latest value, is that of a call on
its way, or of one given up (`VariableFits`); what is nested imports only
later files (`NestedFits`); and what is asked of the server has names that exist (`CallsFit`).

**Only model-checked.**  Liveness under fairness (`CallsEnd` of a server and of calls, what `exchange` ends in) is out
of this prover's reach, as is `ENABLED`.  `Expressions`, `Parser`, `Texts`, `Interpreter`,
`Marshalling`, `Unmarshalling`, `SentFunctions`, `Protobufs` and `Values` use RECURSIVE operators, which the prover does
not handle, and so do `Language`, `ValueExchange` and `ProcessMemory`, which
rest on them: what they compute is checked over all bounded inputs.

## Where the code does not do what it says

Six runs show a disagreement and are expected to be violated:

* `call_unref` – `evlan_worker_impl.cc:319`: values that do not validate leave
  `StartProcessing` before the reference that `Process()` took "once evaluation is
  complete" is dropped.  The session is never deleted.
* `response_push` – `remote_worker_impl.cc:225`: `Done()` hands the puller the
  stream's last push and never the `complete_push` that `worker.proto:82` and `:139`
  describe; a server that uses it only gets an error.  No server of this tree does.
* `protobuf_builder` – `protobuf.cc:661`: `SetField` and `Build` withdraw the builder they were
  called on when nothing was allocated since, though C++ code may hold that builder in a
  `KeepAliveValue`, which is to protect it (`runtime.h:300`).  The next allocation takes
  its memory.
* `memory_empty` – `bytes.cc:165`: an empty interval at the end of a byte string
  is a pointer into no block, and the next collection stops at an assertion.
* `language_memory` – `interpreter.cc:963`: a function that passes its own parameter
  tuple to another (`t => f(t)`, with `f` not written out on the spot) gives the tuple's
  memory back and then passes the tuple.  The next allocation overwrites it.
  `OnlyTuplesGoEarly` says that tuples, and the lists of builders applied to
  themselves (`array.cc:436`, `array.cc:604`), are all that is lost this way: no frame, function
  or callback is.
* `language_tuple` – `expression.cc:716`: a binding with several recursive variables stops
  the compiler, because `"tuple"` is looked up among the imports.
  `CompiledCodeFits` says that nothing else does.

Others were met on the way and have no run, because no property of a modelled
part expresses them or because the model leaves out what happens after:

* `fake_rpc.cc:150`: the reset drops a cancel callback that protobuf's contract
  promises will run.
* `value_registry_impl.cc:95`: cached values outlive their registry and call it
  when collected.  `remote_worker_impl.cc:400`: a worker replaced while condemned is
  missed when the factory detaches the others.
* `protobuf.cc`: in `ApplyAssignmentList` the branch of doubles lacks the `return false` that the others have
  after an error, so a field of the wrong type returns twice and meets the check of `runtime.h:521`.
  In `memory` the program stops there.
* `atom.cc:265`: an atom in its own state that is condemned is not revived;
  `atom.cc:302`: the key of a slot that is replaced dangles for a moment.  The missing revival is modelled
  (`Cursor` in `Atoms`), but needs a collector that tells the atom late; `AtomsUnique` is about collectors that
  tell at once, and no run shows the two atoms of one name.
* `library.cc:56`: a cycle calls `Clone()` through NULL, though `library.h:135`
  allows NULL.  `import_resolver.cc:84`: a value hides a shorter prefix,
  against `import_resolver.h:79`.
* `parser.cc:442`: the loop over the parameters of a declaration consumes nothing when
  it meets neither a name nor a comma nor the bracket, so `x where f(y = 1` is never read to its
  end, although line 331 takes care to "Avoid infinite loops".  In `language` such texts end as
  `hung`; `ParsesText` says that only a text with an error does.  Such a text is compiled and run
  all the same, since errors are only logged.
* `evaluator.cc:456`: a blocking `Call` of something non-blocking that completes later fails
  `GOOGLE_CHECK(result->IsReady())`, though `evaluator.h:87` says that it returns the result.
* `evaluator.cc:695`: the result is delivered while the thread that completes it still holds
  its context, so deleting a child then, "when done" (`evaluator.h:246`), can fail a check.
* `evaluator.cc:98`, `:205`, `:925`, `:1025` and `:1044` take values of any evaluator, though calls and clones
  are checked (`:362`, `:385`, `:1091`), and `evaluator.h:306` says of parts only that the `EvlanValue`s may be deleted.  A tuple may
  outlive what it holds.  In `server` this happens, to the evaluators that `ValuesStayInside` excepts.
* `evaluator.cc:347`: `~EvlanValue` reads `shutting_down_` without the lock.  Optimised builds
  only log the use of an evaluator after its fork.
* `client.cc:110`: a file that has not changed is left before its imports are looked at, so a
  change of a file it imports is not sent.  A file whose import failed counts as
  sent.  Two edits within a second have one time.  `SessionsAgree` is about the file and its own
  version for this reason.
* `client.cc:84`: a call that broke may be answered later, and overwrites what was
  saved since; the interpreters of clients that are gone are never deleted.
* `support.cc:233`: `Init` checks that it runs once, but nothing sets `initialized_`; a second support
  code takes the place of the first, whose functions are kept for ever.
* `debug_memory_manager.cc:711`: `VisitRawBytesPointer` reads an uninitialised count.
* `marshaller.cc:284`: `AddReceiverOwnedValue` takes its number from the wrong list (its only
  caller adds to a message where both are empty).  `unmarshaller.cc:353`: negative
  indices pass, and two indices are not checked at all.  `marshal.proto` documents
  `Function.environment` one-based; the code is zero-based.

## What is not modelled

The wire format, logging, the wording of errors and the layout of memory are left
out everywhere.  `test_util`, `cpp_glue.h`, command lines and sockets keep no
state of their own.  Of the scalar builtins, doubles, byte strings, the library
of type errors, the name of an atom as a string and integers that overflow are left out; of the support code what belongs to
them and to messages, and `mapWithIndex`, `sequentialMap` and `count` of arrays.  The lexer turns text into the
tokens that the parser is modelled on; of the parser, literals of strings and floats are left
out.  Of the interpreter, strings and doubles as constants, the array of code nodes and code trees that no
compiler wrote (with the errors that `GetSubFunction` and the loader give for them) are left out.  Of functions
that are sent, a value occurs once in a message, whoever refers to it (`ValueExchange` is
about that); identifiers of inner functions are left out; and programs whose functions hold builders or errors, which would
stay behind as stubs, are not followed.  Of allocators, one stray write at a time, and no size
near the largest integer (`Align` checks for it); of messages, the trackers of descriptors, and deeper nesting of message
fields than one.

What the properties do not reach: a parallel call that may give up on more functions than it has, or on fewer
than none, which `server.cc:321` accepts and where a call hangs, since the two numbers never meet (`AbandonAssumption` excludes it);
other holders of a context factory than contexts and completions (the parallel logic of `server.cc`, and the
services it gives `InternalGetContextFactory()` to); anything between the steps of `Continue` when unmarshalling, which
in the model are the only steps there are while a message is read, so that only what the loop itself
gets wrong would show; the order in which a pool frees withdrawn blocks, of which `MemoryNotShared` sees just whether
an allocation is given one that is in use; and what a program does with freed memory other than end or go on.

## Plan

In the order of importance.  What is modelled is modelled but for what is named here or above.

1. Remote calls.  Done: sessions, whole calls, the refinement of `AbstractCall`.
2. Weak tables.  Done.
3. Parallel call, libraries, resolvers, interactive sessions.  Done.
4. Evaluator.  The safety properties are proved.  Left: keep-alive values and identifiers of `runtime.cc`.
5. Memory: collector, allocators, protocol messages.  All of the first two is proved.
6. Exchange.  Left: proofs, for which `Marshalling` would have to do without recursion.
7. Parser, compiler, interpreter, functions that are sent, builtins and support code.  Left: the lexer's
   blocks; strings and doubles.
8. The test runner's order of reports.
