----------------------------- MODULE StorePaths -----------------------------
(***************************************************************************)
(* Native store paths and derivations on their way from Nix to the caller. *)
(* One call of one operation:                                              *)
(*                                                                         *)
(*   Realize, RealizeOutput   client.go with store/store_closure.go        *)
(*   Closure                  Store.Closure                                *)
(*   RealiseString            eval/realised_string.go                      *)
(*   FindRoots                Store.FindRoots (store/store_gc.go)          *)
(*   CollectGarbage           Store.CollectGarbage                         *)
(*   TakePath                 PathFromHash, AddDerivation, Path.Clone      *)
(*   TakeDerivation           DerivationFromJSON, DerivationFromPath       *)
(*   AddRoot                  AddTempRoot, AddPermanentRoot                *)
(*   Copy                     CopyClosure, CopyPathTo, IsValidPath         *)
(*                                                                         *)
(* A call parses the store paths it was given as strings.  Nix then        *)
(* reports paths, which C or C++ code collects in one native object, the   *)
(* array.  The Go code clones the elements, wraps the clones and frees the *)
(* array; the wrappers go to the caller, or are described in Go data and   *)
(* closed.  Every allocation and every native call may fail.               *)
(*                                                                         *)
(* A definition named Mutant... is a mistaken form of the definition after *)
(* it, used only to show that the properties notice the mistake.           *)
(***************************************************************************)
EXTENDS Naturals

CONSTANT MaxPaths  \* a bound of the model on the paths given and reported

ASSUME MaxPathsAssumption == MaxPaths \in Nat \ {0}

VARIABLES
    pc,        \* the next step of the call
    op,        \* the operation the caller called
    given,     \* how many paths the caller gave as strings
    parsed,    \* how many of them a storepath.Path owns
    reported,  \* how many paths Nix has for the call
    calls,     \* how many of them the C code has seen
    len,       \* the length of the native array
    failed,    \* the array's failed mark
    live,      \* the native objects that exist
    wrapped,   \* how many clones a Go wrapper has owned
    made,      \* how many paths have been turned into Go data
    result,    \* how many paths the caller got
    outcome    \* how the call ended

vars == <<pc, op, given, parsed, reported, calls, len, failed, live, wrapped, made, result, outcome>>

-----------------------------------------------------------------------------
(* Operations and objects *)

\* Operations whose paths a C callback collects, one per call.
Callbacks == {"Realize", "Closure"}

\* Operations whose paths come in an array.
Collecting == Callbacks \cup {"RealiseString", "FindRoots", "CollectGarbage"}

\* Operations for which Nix makes one object.
Single == {"RealizeOutput", "TakePath", "TakeDerivation"}

\* Operations that only report success or failure.
Commands == {"AddRoot", "Copy"}

Operations == Collecting \cup Single \cup Commands

\* Operations that return Go strings read from the array.
Listing == {"FindRoots", "CollectGarbage"}

\* Operations that leave a clone to nobody when it cannot be wrapped.
Dropping == {"Realize", "Closure", "RealiseString"}

\* The parsed inputs, the array with its elements, and the clones.
Input(i) == <<"input", i>>
Array == <<"array", 0>>
Element(i) == <<"element", i>>
Clone(i) == <<"clone", i>>

Objects == {Array} \cup ({"input", "element", "clone"} \X (1 .. MaxPaths))

Steps == {"parse", "wrapInput", "collect", "clone", "wrap", "root", "describe", "held", "done"}

TypeOK ==
    /\ pc \in Steps
    /\ op \in Operations
    /\ given \in 0 .. MaxPaths
    /\ parsed \in 0 .. given
    /\ reported \in 0 .. MaxPaths
    /\ calls \in 0 .. reported
    /\ len \in 0 .. calls
    /\ failed \in BOOLEAN
    /\ live \subseteq Objects
    /\ wrapped \in 0 .. reported
    /\ made \in 0 .. reported
    /\ result \in 0 .. reported
    /\ outcome \in {"none", "ok", "error"}

\* Only CollectGarbage takes a list of paths; Closure, Copy and the others
\* borrow a handle the caller owns.
Init ==
    /\ pc = "parse"
    /\ op \in Operations
    /\ given \in IF op = "CollectGarbage" THEN 0 .. MaxPaths
                 ELSE IF op \in {"Realize", "RealizeOutput", "AddRoot"} THEN {1} ELSE {0}
    /\ reported \in IF op \in Collecting THEN 0 .. MaxPaths
                    ELSE IF op \in Single THEN {1} ELSE {0}
    /\ parsed = 0
    /\ calls = 0
    /\ len = 0
    /\ failed = FALSE
    /\ live = {}
    /\ wrapped = 0
    /\ made = 0
    /\ result = 0
    /\ outcome = "none"

\* The inputs parsed so far, which a deferred call closes.
Inputs == {Input(i) : i \in 1 .. parsed}

\* Leave the call with an error, the inputs and the objects in released freed.
Abort(released) ==
    /\ pc' = "done"
    /\ outcome' = "error"
    /\ live' = live \ (released \cup Inputs)
    /\ UNCHANGED <<op, given, parsed, reported, calls, len, failed, wrapped, made, result>>

\* Return n paths to the caller, the inputs and the objects in released freed.
Return(n, released) ==
    /\ pc' = "done"
    /\ outcome' = "ok"
    /\ result' = n
    /\ live' = live \ (released \cup Inputs)
    /\ UNCHANGED <<op, given, parsed, reported, calls, len, failed, wrapped, made>>

\* Go on to step next with the set of native objects l.
Go(next, l) ==
    /\ pc' = next
    /\ live' = l
    /\ UNCHANGED <<op, given, reported, result, outcome>>

-----------------------------------------------------------------------------
(* Before the native call *)

\* The store or its context is closed, a borrowed handle is closed, or
\* CollectGarbage does not know the action.
Refuse ==
    /\ pc = "parse"
    /\ parsed = 0
    /\ Abort({})

\* Store.ParsePath: Nix makes a path of the next string.
ParseInput ==
    /\ pc = "parse"
    /\ parsed < given
    /\ Go("wrapInput", live \cup {Input(parsed + 1)})
    /\ UNCHANGED <<parsed, calls, len, failed, wrapped, made>>

ParseFails == pc = "parse" /\ parsed < given /\ Abort({})

WrapInput ==
    /\ pc = "wrapInput"
    /\ parsed' = parsed + 1
    /\ Go("parse", live)
    /\ UNCHANGED <<calls, len, failed, wrapped, made>>

\* storepath.New failed; ParsePath frees the raw path itself.
WrapInputFails == pc = "wrapInput" /\ Abort({Input(parsed + 1)})

Ready == pc = "parse" /\ parsed = given

-----------------------------------------------------------------------------
(* The native call *)

\* The array is allocated and the collection begins.
NativeCall ==
    /\ Ready
    /\ op \in Collecting
    /\ Go("collect", live \cup {Array})
    /\ UNCHANGED <<parsed, calls, len, failed, wrapped, made>>

\* Nix reports an error or has no such path, or the array cannot be allocated.
NativeCallFails == Ready /\ Abort({})

\* Nix returns the one object of the call.
TakeOne ==
    /\ Ready
    /\ op \in Single
    /\ Go("wrap", live \cup {Clone(1)})
    /\ UNCHANGED <<parsed, calls, len, failed, wrapped, made>>

RealiseOutput == op = "RealizeOutput" /\ TakeOne
PathFromHash == op = "TakePath" /\ TakeOne
DerivationFromPath == op = "TakeDerivation" /\ TakeOne

AddRoot == Ready /\ op = "AddRoot" /\ Return(0, {})
Copy == Ready /\ op = "Copy" /\ Return(0, {})

\* One more path is appended, unless an earlier append failed.
Append ==
    /\ pc = "collect"
    /\ calls < reported
    /\ ~failed
    /\ calls' = calls + 1
    /\ len' = len + 1
    /\ Go("collect", live \cup {Element(len + 1)})
    /\ UNCHANGED <<parsed, failed, wrapped, made>>

\* realloc or a copy fails in the callback: the array is marked and the
\* callback goes on.  (The C++ code throws: CollectFails.)
AppendFails ==
    /\ pc = "collect"
    /\ op \in Callbacks
    /\ calls < reported
    /\ ~failed
    /\ failed' = TRUE
    /\ calls' = calls + 1
    /\ Go("collect", live)
    /\ UNCHANGED <<parsed, len, wrapped, made>>

AppendSkipped ==
    /\ pc = "collect"
    /\ calls < reported
    /\ failed
    /\ calls' = calls + 1
    /\ Go("collect", live)
    /\ UNCHANGED <<parsed, len, failed, wrapped, made>>

\* The functions that free an array free its elements too.
ArrayObjects == {Array} \cup {Element(i) : i \in 1 .. len}

\* Whether the array may be returned to Go.
MutantUsable == TRUE
Usable == ~failed

MutantCollected ==
    /\ pc = "collect" /\ calls = reported /\ Usable
    /\ Go("clone", live \ ArrayObjects)
    /\ UNCHANGED <<parsed, calls, len, failed, wrapped, made>>
Collected ==
    /\ pc = "collect"
    /\ calls = reported
    /\ Usable
    /\ Go("clone", live)
    /\ UNCHANGED <<parsed, calls, len, failed, wrapped, made>>

\* Nix ends the call with an error, at any moment, an append failed, or
\* RealiseString cannot copy the string itself.
CollectFails == pc = "collect" /\ Abort(ArrayObjects)

-----------------------------------------------------------------------------
(* Converting in Go *)

\* The clones that wrappers own: FindRoots closes each before the next.
Owned == {Clone(i) : i \in (IF op = "FindRoots" THEN made + 1 ELSE 1) .. wrapped}

\* The loop over the elements.
Taken == IF op = "CollectGarbage" THEN made ELSE wrapped
MutantMoreElements == Taken <= len
MoreElements == Taken < len

\* The next element is cloned (its output name, for Realise, copied first).
CloneElement ==
    /\ pc = "clone"
    /\ MoreElements
    /\ op # "CollectGarbage"
    /\ Go("wrap", live \cup {Clone(wrapped + 1)})
    /\ UNCHANGED <<parsed, calls, len, failed, wrapped, made>>

\* convertGCResult copies the next path as a string.
ReadGCPath ==
    /\ pc = "clone"
    /\ MoreElements
    /\ op = "CollectGarbage"
    /\ made' = made + 1
    /\ Go("clone", live)
    /\ UNCHANGED <<parsed, calls, len, failed, wrapped>>

\* A copy or the clone is nil: the wrappers are closed and the deferred call
\* frees the array.
MutantCloneFails == pc = "clone" /\ MoreElements /\ Abort(ArrayObjects)
CloneFails == pc = "clone" /\ MoreElements /\ Abort(Owned \cup ArrayObjects)

\* What follows once a wrapper owns the object.
AfterWrap ==
    CASE op = "RealizeOutput" -> "describe"
      [] op = "FindRoots" -> "root"
      [] op \in {"TakePath", "TakeDerivation"} -> "held"
      [] OTHER -> "clone"

\* storepath.New, or NewDerivation, takes the object over.
Wrap ==
    /\ pc = "wrap"
    /\ op # "TakeDerivation"
    /\ wrapped' = wrapped + 1
    /\ Go(AfterWrap, live)
    /\ UNCHANGED <<parsed, calls, len, failed, made>>

NewDerivation ==
    /\ pc = "wrap"
    /\ op = "TakeDerivation"
    /\ wrapped' = wrapped + 1
    /\ Go(AfterWrap, live)
    /\ UNCHANGED <<parsed, calls, len, failed, made>>

\* storepath.New failed on the one path of a call, which is freed.
WrapOneFails ==
    /\ pc = "wrap"
    /\ op \in {"RealizeOutput", "TakePath"}
    /\ Abort({Clone(1)})

\* NewDerivation frees the derivation when it cannot serialize it.
NewDerivationFails ==
    /\ pc = "wrap"
    /\ op = "TakeDerivation"
    /\ Abort({Clone(1)})

\* storepath.New failed on an element: the loop closes the wrappers it has.
WrapFails ==
    /\ pc = "wrap"
    /\ op \in Dropping
    /\ Abort(Owned \cup ArrayObjects)

\* convertRoots frees the clone when its link cannot be read or storepath.New
\* fails.
RootFails ==
    /\ pc = "wrap"
    /\ op = "FindRoots"
    /\ Abort({Clone(wrapped + 1)} \cup ArrayObjects)

\* convertRoots prints the path and closes it.
ListRoot ==
    /\ pc = "root"
    /\ made' = made + 1
    /\ Go("clone", live \ {Clone(wrapped)})
    /\ UNCHANGED <<parsed, calls, len, failed, wrapped>>

\* The loop is over and the deferred call frees the array.
Converted ==
    /\ pc = "clone"
    /\ ~MoreElements
    /\ op \notin Listing
    /\ Go(IF op = "Realize" THEN "describe" ELSE "held", live \ ArrayObjects)
    /\ UNCHANGED <<parsed, calls, len, failed, wrapped, made>>

Listed ==
    /\ pc = "clone"
    /\ ~MoreElements
    /\ op \in Listing
    /\ Return(made, ArrayObjects)

-----------------------------------------------------------------------------
(* Describing in Go: Client.realizedOutput; closing what the caller kept *)

\* RealPath answers and one more output is described.  The outputs become the
\* caller's result only when all are.
Describe ==
    /\ pc = "describe"
    /\ made < wrapped
    /\ made' = made + 1
    /\ Go("describe", live)
    /\ UNCHANGED <<parsed, calls, len, failed, wrapped>>

DescribeFails == pc = "describe" /\ made < wrapped /\ Abort(Owned)

\* The deferred calls close every realization.
Finish == pc = "describe" /\ made = wrapped /\ Return(made, Owned)

\* The caller closes what it holds.
CloseKept == pc = "held" /\ Return(wrapped, Owned)
CloseClosure == op = "Closure" /\ CloseKept
CloseRealisedString == op = "RealiseString" /\ CloseKept
ClosePath == op = "TakePath" /\ CloseKept
CloseDerivation == op = "TakeDerivation" /\ CloseKept

Next ==
    \/ Refuse \/ ParseInput \/ ParseFails
    \/ WrapInput \/ WrapInputFails
    \/ NativeCall \/ NativeCallFails
    \/ RealiseOutput \/ PathFromHash \/ DerivationFromPath
    \/ AddRoot \/ Copy
    \/ Append \/ AppendFails \/ AppendSkipped
    \/ Collected \/ CollectFails
    \/ CloneElement \/ ReadGCPath \/ CloneFails
    \/ Wrap \/ NewDerivation
    \/ WrapOneFails \/ NewDerivationFails \/ WrapFails \/ RootFails
    \/ ListRoot \/ Converted \/ Listed
    \/ Describe \/ DescribeFails \/ Finish
    \/ CloseClosure \/ CloseRealisedString \/ ClosePath \/ CloseDerivation

Spec == Init /\ [][Next]_vars

-----------------------------------------------------------------------------
(* Properties *)

\* The caller gets every path Nix reported or none: neither a failed append in
\* the C callback nor an element that cannot be converted gives it a part.
AllOrNothing ==
    /\ outcome = "ok" => result = reported
    /\ outcome = "error" => result = 0
    /\ pc = "held" => wrapped = reported

\* Nix reads the parsed inputs, the loops read the array and the caller's code
\* reads the wrappers only while they exist.
ReadsLiveObjects ==
    /\ pc \in {"parse", "collect"} => Inputs \subseteq live
    /\ pc = "clone" => ArrayObjects \subseteq live
    /\ pc \in {"root", "describe", "held"} => Owned \subseteq live

\* When a call is over it has released every native object, with one possible
\* exception: the clone that storepath.New refused in the loop of Realise,
\* Closure or RealiseString.  CollectGarbage and FindRoots leave none.
AtMostOneCloneRemains ==
    pc = "done" =>
        \/ live = {}
        \/ op \in Dropping /\ outcome = "error" /\ live = {Clone(wrapped + 1)}
=============================================================================
