# Verification of gonix

gonix is a Go library that embeds Nix through its C API.  A `Client` owns a Nix
context, settings objects, a store and an evaluator, and offers operations on
flakes, expressions and derivations that can be cancelled with a
`context.Context`.  Almost every object of the library is a wrapper around a
native handle, and most of what can go wrong is about these handles: used after
they were freed, freed in the wrong order, freed twice or never, or used while
the single error slot of the Nix context holds someone else's error.  The
second difficulty is that Nix keeps its interrupt flag and its settings per
process, while gonix offers Clients.

This directory models those parts in TLA+, checks them with TLC and proves the
central properties with TLAPS.  `PROJECT.json` holds the run list, the
definition-to-source map, the findings and the hazards in machine-readable form.

## 1. Inventory

| Component | State it keeps | Operations | What makes it correct |
|---|---|---|---|
| Client operations (`client.go`) | `busy`, five owned resources, `resources` (tracked Flakes) | `WithStore`, `WithEvaluator`, `WithStoreAndEvaluator`, `OpenFlake`, `EvalFlakeOutput`, `GetFlakeOutputValue`, `EvalWithArgs`, `Eval`, `Unmarshal`, `Realize`, `RealizeOutput`, `ProcessDaemonConnection`, `Close`, all through `middleware` | one operation at a time, none on a closed resource, cancellation ends and closes, reverse-dependency close order |
| Client construction (`client.go`, `client_config.go`) | the half-built Client, the settings of the process | `NewClient`, `applyClientSettings`, `Serialize` | complete or nothing left, every setting in force |
| Interruption (`util`, `nix_go_interrupt_cpp.cc`) | one flag for the process, the connections of a remote store | `InterruptRequest`, `InterruptClear`, `StoreInterrupt` | reaches the operation it is meant for and no other |
| Nix context and errors (`nixcontext`, `internal/status`) | the C context with one error slot | `New`, `Set*`, `FromContext`, `Close` | an error is reported by the call it belongs to, once |
| Settings objects (`fetchers`, `flakesettings`) | one handle each | constructor, `Borrow`, `Close` | never borrowed after `Close` |
| Evaluator and Value (`eval`) | EvalState, references on Nix values, the owner of a Value | evaluation, forcing, calls, attribute access, getters, conversion from and to Go | live handles of one owner, no leaked reference |
| Conversions (`eval/unmarshal.go`, `eval/go_value.go`, `eval/builders.go`) | the caller's Go variable, child Values, native builders | `Unmarshal`, `goValueFromAny`, `List`, `Attrs`, `Apply`, `Copy` | exactly the values that fit are decoded, a failure leaves no half-made container, every child released |
| Flake (`flake`) | locked flake, cached lock graph and fingerprint | `New` with options, `OutputAttrs`, `LockInfo`, `Fingerprint`, `Close` | every temporary freed once, locked with all options, the lock graph the same after reading and writing |
| Daemon connections (`client.go`, `nix_go_daemon_cpp.cc`) | two duplicated descriptors | `ProcessDaemonConnection`, `duplicateFD`, `closeFD` | serves what it was given, closes its duplicates and nothing else |
| Store and paths (`store`, `storepath`) | store handle, path handles, metadata | `New`, `ParsePath`, `Realise`, `RealiseOutput`, `Closure`, garbage collection, copying, derivations | all results or none, every path freed by its owner |
| C shims (`pkg/raw/*.c`, `*.cc`) | arrays filled by callbacks, arrays packed for Nix | collecting, cloning, packing, freeing | an allocation failure is not lost and leaves nothing |
| Generated bindings (`pkg/raw/*.go`) | C copies of structured arguments, in allocation maps with and without finalizers | `PassRef`, `PassValue`, `Borrow`, `Free`, one Go function per C function | C memory lives through the call and is freed once |
| Text helpers (`pkg/utils`, `system.go`) | none | `EncodeNix32`, reading of C strings, system names | the text is the data |

Interactions.  Wrappers call `Borrow` on the wrappers below them before every
raw call; `Borrow` fails with `ErrClosed` once the handle is gone.  A Client
calls its handlers in a goroutine and waits on a channel of capacity one or on
the caller's context.  C callbacks run inside the raw call that takes them.
Everything native shares the process-wide interrupt flag and settings.

Hard behaviours: two goroutines in one Client; a cancellation racing the end of
the operation; two Clients sharing the flag; a native read blocked on the
daemon; failure of any call of a long construction; closing in any order; the
order of reading the error slot and releasing; an allocation failing in a
callback or half-way through an array; a failure deep inside nested calls that
each own something; finalizers that free C memory at any moment; descriptor
numbers that change hands; integers at the edge of their width.

## 2. Modules

| Module | Models | Kind |
|---|---|---|
| `SerialClient` | what a Client promises | abstract specification |
| `ClientMiddleware` | `middleware`, `Close`, `closeLocked`, `util`, the interrupt shim | component composed of callers, handlers, Clients and the process |
| `NewClient` | `NewClient` and the constructors it calls | component |
| `FlakeNew` | `flake.New` | component |
| `StorePaths` | every operation that carries store paths or derivations between Nix and the caller | component (Go, C and C++ together) |
| `ValueLedger` | what a method of `Evaluator` or `Value` promises its caller | abstract specification |
| `Evaluator` | `Evaluator`, `Value`, `Context` and the error slot | component |
| `ValueScopes` | who owns the Values that `getOutputValue`, `EvalWithArgs`, `NewValue` and `Unmarshal` make on their way | component |
| `DaemonConnection` | the descriptors of `ProcessDaemonConnection` | component with its environment |
| `CallArguments` | the C memory of a structured argument, in Go and in C | component with its environment |
| `ClientHandlers` | the three above as the handlers of one Client | composition |
| `GoIntegers` | integers of a given width, in Go and in Nix | operators |
| `Unmarshal` | decoding into Go types and encoding of Go values | operators and one-step conversions |
| `LockGraph` | `flake/lock_info.go` | conversion there and back |
| `Nix32` | `EncodeNix32` | algorithm, digit by digit |
| `Conversions` | `Unmarshal`, `LockGraph` and `Nix32` | composition |
| `ClientMiddlewareProofs`, `NewClientProofs`, `FlakeNewProofs`, `StorePathsProofs`, `EvaluatorProofs` | the theorems of the module they are named after | proofs |
| `NativeCallsProofs` | the theorems of `DaemonConnection` and `CallArguments` | proofs |
| `ClientHandlersProofs` | the theorems of `ValueScopes` and of the composition | proofs |
| `ConversionsProofs` | the theorems of `GoIntegers`, `Nix32` and `LockGraph` | proofs |
| `MC...` | instances | model checking |

The components meet at states rather than at shared variables: the state in
which `NewClient` returns a Client (`ClientOwnsItsParts`) is the initial state
of `ClientMiddleware`; a handler there is an abstract native operation of which
`StorePaths`, `FlakeNew`, `Evaluator` and `ClientHandlers` show the inside;
`Evaluator` lets the Context be closed at any time between methods, which covers
what a cancelled Client does to the Values its callers still hold.  A method of
`Evaluator` that makes a Value is one step of `ValueScopes` (`Obtain`), with
three outcomes: a new Value, an error, an error and a lost reference.
`ValueLedger` states them as a specification, and `Evaluator` is proved to
implement it (`MethodsImplementLedger`).

Definitions called `Mutant...` are deliberate mistakes, placed before the
definition they imitate and used by no specification.  They show that each
property would notice a plausible slip in the code.

### ClientMiddleware

Per Client: `busy`, `handles` (its non-nil fields), `resources`, `linkUp` (the
connections of a remote store).  Per calling goroutine: where it is (`pc`), its
method, its context, the handler goroutine and the channel, the reply, and the
Values it holds.  For the process: `interrupted`.  `pc` follows `middleware`:
`Acquire` / `Reject` are the compare-and-swap, `CheckClosed` / `StartHandler` the
test of `c.ctx`, `SelectDone` / `SelectCanceled` the two cases of the select, and
`InterruptRequest`, `NewContext`, `StoreInterrupt`, `Await`, `InterruptClear` the
cancellation branch, which ends in the steps of `closeLocked` (`CloseTracked`,
`CloseOwned`, `CloseDone`) and in the deferred calls (`Return`).  A handler
finishes, sees the flag, sees its own context, or blocks in a daemon read.

Choices worth knowing:

- Methods are told apart by what they leave behind.  Ten of them leave nothing
  and are one method, `Use`.
- Nix polls the flag before a read, so `Block` needs the flag down; a read that
  has begun is ended by the daemon or by `shutdownConnections`.
- The error of `CloseOwned` is collected and the closing goes on, as in
  `closeLocked`; it changes only the text of the reply and is left out.
- Flakes and Values are not goroutine-safe, so a correct caller closes them only
  while the Client is idle (`CloseFlakeEarly`, `CloseValue`).
- `HoldsOneValue` bounds the Values of a caller to one per Client.
- `MayFail` says which native calls of the cancellation branch may fail.

### NewClient

One step per raw call, each with a failing twin.  `live` is what exists
natively, `fields` what the Client under construction owns, `err` the variable
that the deferred cleanup reads.  `Create` and `Pass` are the two ways a call
succeeds; `Fail` assigns `err`.  The failure of `SetLogSinkPath` is an action of
its own because it goes to another variable.  The value of a setting is told
apart by its origin (Nix, the default, a typed field, `RawSettings`, or a
feature list without flakes) and by the configuration that gave it, so that a
value another Client wrote is seen to be another's.  Nix ignores a setting that belongs to a disabled
feature (`Gated`) and answers with success; this is external behaviour.

### FlakeNew

`deferred` is the stack of deferred frees.  `err` has three values: nil, an
error, and an interface that holds a nil pointer, which Go compares as not nil.
A step that fails without assigning `err` is `Fails(step)`.

### StorePaths

One call of one operation: `Realize`, `RealizeOutput`, `Closure`,
`RealiseString`, `FindRoots`, `CollectGarbage`, or one of four classes of
operations whose code has the same steps: `TakePath` (`PathFromHash`,
`AddDerivation`, `Path.Clone`), `TakeDerivation` (`DerivationFromJSON`,
`DerivationFromPath`, `Derivation.Clone`), `AddRoot` (`AddTempRoot`,
`AddPermanentRoot`) and `Copy` (`CopyClosure`, `CopyPathTo`, `IsValidPath`,
`RealPath`: a borrowed handle and a native call).

`live` holds the parsed inputs, the native array with its elements, and the
clones made for Go.  `given` and `parsed` count the inputs; `calls`, `len` and
`failed` are the callback's side; `wrapped` and `made` the Go loops; `result` is
what the caller received.  The operations differ in three ways that matter: who
collects (a C callback that can only leave a mark, or C++ code that throws), who
owns the wrappers afterwards (the caller, or the call), and what happens to a
clone that cannot be wrapped (`WrapOneFails`, `RootFails`, `NewDerivationFails`
free it, `WrapFails` does not).  The strings that C code copies are freed in the
expression that reads them and are not objects of the model.

### Evaluator

A method is the list of its raw calls (`Program`), each of one of six kinds that
say how its failure is noticed.  `Begin` runs the checks of a method, `Kind` is
the next raw call, `CallFails` sets the slot, and a failed method reads the slot
(`Convert`) before or after it releases the Value it allocated (`Release`).  The
order matters because releasing clears the slot.  When two arguments are refused
for different reasons, the model returns either reason, since it keeps them as a
set.  `open` and `native` differ exactly by what was leaked.  The `Close` of a
failing method may itself be refused by Nix (`Decref`): the Value is then lost, as
with `CloseValueFails`.  `Ledger` maps this state to `ValueLedger`: in the caller's
hand is what is open and not just being made, mislaid is what is lost, and a
method that has let go of what it allocated counts as running until it returns.

### ValueScopes

`stack` is the stack of Go calls.  A frame has the Values whose `Close` it
deferred (`own`), the Value it is making or handing on (`out`), its native
builder (`bld`) and the Values it was lent (`uses`); `ret` is what the call that
ended last returned.  `live` is what exists natively, `lost` what a failing
decref left behind (`Value.Close` forgets its pointer all the same), `held` what
the caller has been given.  There is one action per call and per early return:
`TakeRoot`, `DeferRootClose`, `GetOutputAttr`, `DescendOutput` for
`getOutputValue`; `EvalFunction`, `BuildArgument`, `ApplyFunction` for
`EvalWithArgs`; `AllocValue`, `MakeBuilder`, `NewItem`, `InsertItem`,
`MakeFromBuilder`, `InitValue` for `NewValue` with its builders; `DecodeContainer`,
`GetChild`, `DecodeChild`, `CloseChild` for `Unmarshal`; each with its failures.
The recursion of the code is the stack of the model.  What the Nix values and
the Go types look like is a choice at each step, so every shape within the
bounds occurs.

`ClientHandlers` composes this module with the next two.  The three kinds of
handlers share no state, and a behaviour keeps to one kind.

### DaemonConnection

`table` is the descriptor table of the process and `others` the part of it that
the rest of the process opened.  The handler takes one step per system call
(`DuplicateFD`, `SetNonblock`, `Process`, `CloseFrom`, `CloseTo`) while the rest
of the process opens, closes and changes the mode of its own descriptors.  The
kernel gives out the lowest free number.  `O_NONBLOCK` belongs to the open file
description, so the handler's `SetNonblock` shows through the caller's descriptor
as well.

### CallArguments

One raw call with a structured argument: `StoreOpen`, `SetLookupPath`,
`ValueCallMulti`, `StoreCollectGarbage`, `StorePathHash`, `StoreCreateFromParts`,
which are the six shapes the bindings have.  `maps` are the `cgoAllocMap`s,
`roots` those a Go variable reaches; `Collect` is a finalizer, which may run
between any two steps once its map is unreachable.  `Moved` is `Borrow`.  `PackArray`,
`PackElement` and the failures after them are `go_nix_params_pack`,
`go_nix_string_array_pack` and `go_nix_value_array_pack`.  That allocation in Go
helpers fails is not modelled: they panic, and the process ends.

### Conversions

`Unmarshal` follows `unmarshalValue` as an operator that returns what the
caller's variable holds afterwards, whether decoding failed, and how many calls
to Nix it made; `failAt` is the call that fails, so every partial write occurs.
An integer type is given by its span, the number of its values; Nix's integers
have `Word` values, and numbers wrap as in the conversion to `uint64`
(`GoIntegers`).
`DecodesWhatFits` compares the result with a definition by the type alone (`Fits`,
`Meaning`), which knows nothing of the order or of the old value.  `EncodeArgument`
is `goValueFromAny`, decoded again.  `LockGraph` reads a node (`ReadNode`) and
writes it (`MarshalNode`) as `WithReferenceLockInfo` does.  `Nix32` produces one
digit a step; the reference is the hash as a number in base 32.

## 3. Runs

| Run | Instance | Checks |
|---|---|---|
| `client_safety` | one remote Client, three callers, two Flakes, every failure, symmetric | the safety invariants of the middleware, among them that an interruption under way is not lost (`CancellationHeard`), the refinement of `SerialClient`, and that a Value returned without error can be closed |
| `client_liveness` | two Clients (one remote), one caller, every failure, fair | `CancelReturns`, `NoSpuriousInterrupt` |
| `client_two_spurious` | two local Clients, two callers | `NoSpuriousInterrupt` is violated |
| `construct` | every configuration over three settings and the logging fields | completeness, cleanup and settings |
| `flake_new` | every combination of options, up to two overrides, any resources closed | frees and lock options |
| `flake_fingerprint` | the same | `UnavailableFingerprintIsEmpty` is violated |
| `store_paths` | every operation, up to five paths given and five reported | results and ownership |
| `evaluator` | two Evaluators, three Values, symmetric | handles, slot, references, the refinement of `ValueLedger` |
| `evaluator_lost_error` | one Evaluator, three Values | `NixErrorIsReported` is violated |
| `handlers` | calls five deep, two elements, paths of two; five descriptors of three descriptions; arrays of up to three | ownership of Values, of descriptors and of C memory |
| `conversions` | integers of 16 and of 8 values, about seventy Nix values against thirty Go types, every lock node over two inputs, 10-byte hashes | each conversion against its reference definition |
| `lock_parent` | the same | `LockNodeKept` is violated |

Why the bounds are enough.  Three callers give an operation in progress, one
that is refused and one that arrives while the first is being cancelled; two
Flakes give one closed early and one forgotten.  Two Clients are what it takes
to share the flag; with a single caller their operations never overlap, which
is the rule of `pkg/raw`.  Three settings are one before and one after
`experimental-features` in alphabetical order; the first is a gated one, as
`accept-flake-config` is.  Two overrides are one added and one that fails after
it.  Five paths put a failure before, in the middle of and after the loop.  Two
Evaluators and three Values allow a Value of another owner, a function with an
argument and a result.

In `handlers`, two elements (`MaxItems`) are one that was kept and one that
fails after it; a path of two has an intermediate Value; `MaxDepth` of five is
a container in a container under a Client method; `MaxLost` of one lets one
decref fail anywhere.  Numbers `0..MaxFD` with `MaxFD = 4` leave room for two
descriptors of the caller, two duplicates and one more, and `MaxInt32 = 3` makes
the last of them too large for C; a run out of numbers occurs too.  `MaxArgs = 3`
is an element before, at and after a failing one.  In `conversions`, sixteen
values have the edges that 2^64 have: a type as wide as a Nix integer, narrower
ones, and an unsigned one of the same width; thirty calls (`MaxCalls`) are more than
any of the decodings makes, and ten bytes are sixteen digits, of which groups
of every alignment occur.  The values of bytes are 0 and 181 (10110101).

Where a property is also proved, the bounds do not matter.  The type invariants of
`ClientMiddleware` and `Evaluator` are proved (`TypeCorrect`,
`EvaluatorTypeCorrect`) and take up no run.

`CHECK_DEADLOCK FALSE` is used for `NewClient`, `FlakeNew`, `StorePaths` and
`Conversions`, which model one call from beginning to end.  The others never
stop.

### What the violations show

1. `client_two_spurious`: the process-wide flag against the per-Client `busy`.
   `pkg/raw/README.md` asks its users to serialise cancellable operations in the
   process.  A Client does so for itself only, and cancelling one Client can
   abort an operation of another.  `client_liveness` and the theorem
   `SerialProcessNotInterrupted` say that the rule of `pkg/raw` is sufficient;
   `SingleClientNotInterrupted` that one Client alone is safe.
2. `flake_fingerprint`: a nil `*NixError` assigned to `err` compares as not nil,
   so a flake without a fingerprint is refused.
3. `evaluator_lost_error`: `EvalString`, `Call` and `CallMulti` release their
   value before they read the error slot, and lose the error.
4. `lock_parent`: a lock node whose `parent` is present and empty is written
   without a parent, because of `omitempty`, when the lock graph is given back
   to Nix.

Known exceptions stated in the passing properties, so that they show nothing
else goes wrong:

- `ReturnedValueClosable` speaks of a Value returned without error.
  `GetFlakeOutputValue` may return one along with the cancellation error, when the
  context its `Close` needs is gone.
- `SeenFailureLeavesNothing` speaks of failures the deferred `Close` sees.
  `if err :=` in `NewClient` (`client.go:68`) hides the failure of `SetLogSinkPath`,
  and the Nix context stays allocated.
- `AtMostOneCloneRemains` allows the clone that `storepath.New` refuses, which
  `Realize`, `Closure` and `RealiseString` free nowhere and `FindRoots` does.
- `OnlyKnownLeaks` allows the C copy of a struct passed by value, which no one
  frees (lookup path, arguments of `CallMulti`, options of `CollectGarbage`, empty
  store parameters), and the strings of the pairs packed before one that could
  not be allocated (`nix_go_store.c:86`).
- `ServesWhatWasAsked` says nothing of the time after: the caller's description
  stays blocking.

The models contain three more behaviours of this kind that no run is spent
on.  With two Clients cancelled at once, the `InterruptClear` of one lowers the
flag before the operation of the other has seen it: `CancellationHeard`, which one
Client or the rule of `pkg/raw` guarantee, is violated.  A handler that answers with
its context's error before the select runs leaves the Client open after a
cancellation (`SeeContext`, then `SelectDone`).  And a Client made from the zero
`ClientConfig` runs with the settings an earlier Client applied to the process.

A disagreement no run can express: `README.md` and `docs/architecture.md`
describe `Client.OpenFlakeFromLock` and `flake.NewFromLock`, which the code does
not have (`WithReferenceLockInfo` is the option in its place).

### Fairness

`FairSpec` assumes that a goroutine inside the Client that can take a step takes
one (the Go scheduler), that native work which sees the flag raised for good
stops (Nix polls it), and that a read on a closed connection fails (the kernel).
Nothing is assumed of the daemon, of native work that is not interrupted, or of
the callers.  `CancelReturns` is therefore stated for operations that can hear
the interruption (`Interruptible`): the store is local, or its connections have
been shut down.  A remote operation whose `StoreInterrupt` failed depends on the
daemon.

## 4. Proofs

All theorems hold for every value of the constants under the named assumptions
of the modules: `Clients` is not empty, `Remote` is a set of Clients, `MayFail`
names the two calls (`ClientMiddleware`); the names of settings are a finite set
of numbers, in whose order they are applied, with `Experimental` and the gated
ones among them, and the configurations are configurations (`NewClient`);
`MaxOverrides` is a natural number (`FlakeNew`) and `MaxPaths` a positive one
(`StorePaths`); `Unowned` is not an Evaluator (`Evaluator`); the number of
descriptors and the limit of the C interface are natural numbers
(`FDAssumption`) and `Closed` is no description (`ClosedAssumption`,
`DaemonConnection`); `MaxArgs` is a natural number (`CallArguments`), as are the
bounds of `ValueScopes` (`BoundsAssumption`); a hash has at least one byte, and
bytes are below 256 (`Nix32`); the span of an integer type is even
(`WordAssumption`).  Clients, callers, Evaluators, Values, native
objects, descriptions and the names in a lock graph need not be finite sets.

`ClientMiddlewareProofs`.  Type correctness first.  `NoUseAfterClose` and
`OneOperationPerClient` are not inductive: a step of `closeLocked` keeps the first
only because no handler is left, and a handler starts on a complete Client only
because a partly closed one is in the hands of the call that is closing it.  The
inductive invariant adds that a handler lives, and its answer waits, only while
its call is at work; that the fields of a Client are one of the stages of
`closeLocked`, the intermediate ones only while its caller is closing; and that
the tracked Flakes go before the first field.  From it follow the five safety
theorems, and the refinement of `SerialClient` step by step
(`MiddlewareImplementsSerialClient`).  The theorems on interruption need one more
invariant: the flag is up, and an operation interrupted, only on behalf of a
call in its cancellation branch.  With overlapping operations of several Clients
this is false, so it is proved for `SerialSpec` and for a single Client.
`ReturnedValueClosable` speaks of one step, `Return`; `ValueInv` carries what it
needs there from the handler's answer, through the channel and the select: the
Value has been handed over before the answer is sent, callers close Values only
between calls, and nobody but the call inside a Client closes it.

That a cancelled call does return (`CancelReturns`) is liveness.  What it rests on
besides fairness is proved.  Nobody waits for nothing
(`NoWaitForNothing`): as long as a call waits, its goroutine lives or the answer
is in the channel.  A cancellation that waits is heard (`SerialCancellationHeard`,
`SingleClientCancellationHeard`): the handler has answered, or polls a raised
flag, or reads from a connection that was shut down, so that one of the steps
fairness speaks of is possible; like `NoSpuriousInterrupt` this needs the rule of
`pkg/raw` or a single Client, because another Client's `InterruptClear` lowers the
flag.  And no step of anybody takes a cancellation back
(`CancellationNeverGoesBack`), in any process: the points on the way out follow
one another without a loop, and a handler that can hear its cancellation can do so
until it answers.  One that cannot, its remote store not being cut off, may lose
the flag to another Client and begin a read again.  What is left to TLC is that possible steps are taken.

`NewClientProofs`.  The invariant is a table (`Due`) of the native objects and
the fields that each call of the construction finds, with what the deferred
function finds after a failure, seen or not (`Account`).  Cleanup and ownership
are read off it.  `SettingsInForce` needs more: `experimental-features` is
applied before every other setting, and what has been applied is in force
(`InForce`), so that a gated setting finds its feature on.  This is proved for a
process with one Client, because Nix keeps settings per process and another
construction may change them at any time.  What several Clients can count on is
stated in two theorems.  If their constructions do not overlap, the settings of a
configuration are in force when its Client is returned (`SerialClientsConfigured`),
though a later Client may change them: the invariant is the same, for the one
Client under construction.  And Clients that are given the same configuration
keep each other's settings in force whatever the interleaving
(`SameConfigSettings`).  That the least pending setting exists
rests on the library of well-founded relations.

`FlakeNewProofs`.  `OneFreePerObject` is not inductive: a new object keeps the
deferred frees apart only if it is not yet among them, which takes an account of
what each step has created (`Created`), the two objects of every override
included.  `OnlyTheFlakeRemains` needs to know what `err` holds wherever the
locked flake exists, since the deferred function judges by it (`Judged`), and
`LockedWithAllOptions` how many overrides the lock flags have received
(`Applied`).

`StorePathsProofs`.  The invariant accounts for every native object: at each
step the live objects are exactly those the position in the call implies
(`Account`), and the counters of the four loops (inputs, callback, elements,
descriptions) agree with it (`Progress`, `Results`).

`EvaluatorProofs`.  The properties speak of the moments between methods and of
the Values a method works on.  What connects them is where the Value a method
allocated is at each of its steps (`Allocated`), that references are held by open
Values or lost, never both (`References`), and that a method at a raw call has
not failed yet (`Running`).  `MethodsImplementLedger` is the refinement of
`ValueLedger`, one lemma per kind of step.  Most steps of a method stutter; the
invariant decides at which one the caller's view changes.  It needs besides that a
method creates one Value at most, and has one in hand exactly when the raw call
that creates it lies behind (`Made`): otherwise a method that succeeds might
deliver none, or one it was given, or overwrite the first.

`NativeCallsProofs`, on `DaemonConnection`.  The invariant is an account of the
descriptor table:
what is open belongs to the rest of the process or is a duplicate (`Shared`);
the duplicates of the two ends exist exactly at the steps that need them, are
open, distinct and nobody else's (`Duplicates`); what was asked for is behind the
caller's descriptor until it is duplicated and behind the duplicate afterwards
(`Asked`); and a duplicate that has been made blocking stays so unless someone
else changes the mode (`Blocking`).  That the kernel gives out a free number
rests on the least element of a set of natural numbers, which is where the library of
well-founded relations comes in.

`NativeCallsProofs`, on `CallArguments`.  `FreedOnce` is kept by `Borrow` and by
new memory alone (`Tracked`), but only if what is allocated is new (`NotYet`).  That no finalizer
takes memory C still reads needs more: which maps have contents at each step
(`Filled`), that each of them is held by a variable until C has returned
(`Reachable`), and what has been allocated so far (`Made`).  `Shim` is the same
account for the C side.

`ClientHandlersProofs`.  The Go calls in progress are a stack of any depth, and
`OneOwner` says of all its frames together that they own apart.  A step changes
the innermost frame, or pushes or pops one.  The invariant therefore takes the
stack apart: the frames below wait at a point where a call may be pending, own
apart, and were lent only what lives below them (`Suspended`); the innermost one
owns nothing of theirs and holds what its position says (`Fits`, `Shaped`); what
is alive is exactly what frames, result, caller and lost references hold
(`Owners`); and the variable that takes a returned Value is not set yet
(`Expecting`), without which a return would overwrite an owner.  One lemma shows
how the parts make up the stack again after a step of the innermost call, one
after a call, one after a return; the actions then say only what they do to one
frame.  `HandlersImplementParts` shows that the composition implements each of
its three parts, and with it all their theorems hold of the composition
(`HandlersKeepTheirPromises`).

`ConversionsProofs`.  A group of five bits begins at one of eight places in a
byte.  For each of them the sum of the two shifted bytes is shown to be the five
bits that follow plus a multiple of 32, in linear arithmetic over the bits of the
bytes (`GroupInOneByte`, `GroupInTwoBytes`); the rest is where groups and bytes
begin.  `TextTellsTheHash` turns `DigitsAreTheHash` around: a reader of the digits
finds every byte, so that no two hashes share a text.  For lock graphs the
invariant says that the Go node between the two documents would be marshalled
with the edges it was read from (`Tells`), one edge at a time (`EdgeComesBack`).
These are theorems about `HashSpec` and `LockSpec`; `Conversions` takes their
steps unchanged, one kind of conversion in a behaviour.  For numbers, what the
code asks of `reflect` is compared with the numbers a type has, for types of any
even span: `unmarshalInt` and `unmarshalUint` refuse exactly what does not fit
(`SignedFieldsExact`, `UnsignedFieldsExact`), negative numbers for a field as wide
as Nix's integers included, which only the test `got < 0` refuses; and an unsigned
argument is refused or comes back unchanged (`UnsignedArgumentsKept`).  The widths
of Go are the spans 2^8 to 2^64; a span stands in the model where Go has a number
of bits because the prover does not know the laws of powers.

Only model-checked: `CancelReturns`, because liveness under fairness is out of
the prover's reach here (its safety side is proved, see above); and the three
properties of `Unmarshal` (`DecodesWhatFits`, `FailureIsClean`,
`ArgumentsRoundTrip`), which are recursive over values and types: induction over
data is out of its reach too.  Of these three, the leaves that are integers are
proved for every width.

## 5. Not modelled, and why

- What Nix itself computes; the models take any answer the API allows.
- Texts: messages (and the attribute paths in them), log formats, list settings,
  store parameters, system names.  They are tables and concatenations.
- Infinite Nix values: decoding one into a recursive Go type does not end.
- What the garbage collector deletes, and the JSON of a derivation.
- Child processes: a duplicated descriptor is inherited by a program that another
  part of the process starts meanwhile.
- Bindings that pass pointers and numbers through, and the generated accessors
  that gonix does not call; a shim that only forwards a call is part of the raw
  call.
- The length of the list of tracked Flakes, in which Flakes closed early remain
  (`client.go:147`): it only grows, and there is no bound to hold it against.
- Allocation failures in Go code, which end the process.
- `cmd/example`, an example of use.

## 6. Plan

Done: the middleware with its abstract specification; construction; flake
opening; store paths, derivations and garbage collection; evaluator and error
slot; the ownership of Values, descriptors and argument memory inside the
handlers, and their composition; the conversions.  All with proofs but for
`Unmarshal`.

Left: the decoding of nested values for every depth, which takes induction over
data, and `CancelReturns` for every set of Clients, which takes fairness.  An
upgrade of the bindings would first be felt in `Program` of `Evaluator`, the raw
calls of each method in order, and in the shapes of `CallArguments`.
