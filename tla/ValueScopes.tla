----------------------------- MODULE ValueScopes -----------------------------
(***************************************************************************)
(* Ownership of Nix values across the nested Go calls of the operations    *)
(* that make several of them: getOutputValue walks to a flake output,      *)
(* Evaluator.EvalWithArgs builds an argument and applies a function to it, *)
(* NewValue fills lists and attribute sets through a builder, and          *)
(* Unmarshal opens and closes one child after the other.  Any call to Nix  *)
(* may fail, and so may the Close of a Value.                              *)
(*                                                                         *)
(* A Go call is a frame of stack.  A frame holds the Values whose Close it *)
(* deferred (own), the Value it is making or passing on (out) and its      *)
(* builder (bld); ret is what a call has just returned to the frame that   *)
(* is now on top.  The shape of the Nix value and of the Go type met on    *)
(* the way is a choice of each step, within the bounds MaxItems, MaxPath   *)
(* and MaxDepth.                                                           *)
(*                                                                         *)
(* A definition named Mutant... is a mistaken form of the definition after *)
(* it, used only to show that the properties notice the mistake.           *)
(***************************************************************************)
EXTENDS Integers, Sequences, FiniteSets

CONSTANTS
    Objects,   \* addresses of native values and builders
    MaxItems,  \* elements of a list or attribute set, in a value and in a Go type
    MaxPath,   \* length of the path given to getOutputValue
    MaxDepth,  \* nested calls
    MaxHeld,   \* Values the caller keeps at a time
    MaxLost    \* references that failing decrefs leave behind

ASSUME BoundsAssumption ==
    MaxItems \in Nat /\ MaxPath \in Nat /\ MaxDepth \in Nat /\ MaxHeld \in Nat /\ MaxLost \in Nat

VARIABLES
    stack,  \* the Go calls in progress, the innermost last
    ret,    \* what the call that just ended returned
    live,   \* native values with a reference of ours, and builders
    lost,   \* values whose decref failed: Value.Close forgets them
    held    \* Values in the hands of the caller

scopeVars == <<stack, ret, live, lost, held>>

-----------------------------------------------------------------------------

ClientCalls == {"GetFlakeOutputValue", "EvalFlakeOutput", "Eval", "EvalWithArgs", "Unmarshal"}
GoFunctions == ClientCalls \cup {"getOutputValue", "Evaluator.EvalWithArgs", "NewValue", "unmarshalValue"}
Labels == {"start", "attr", "child", "tail", "decode", "done", "fn", "arg", "init", "item",
           "insert", "close"}

Frame(fn, uses, out, left) ==
    [fn |-> fn, at |-> "start", uses |-> uses, out |-> out, own |-> {}, bld |-> {}, left |-> left]

Ok(vals) == [kind |-> "ok", val |-> vals]
Error == [kind |-> "error", val |-> {}]
Nothing == [kind |-> "none", val |-> {}]

FrameType ==
    [fn : GoFunctions, at : Labels, uses : SUBSET Objects, out : SUBSET Objects,
     own : SUBSET Objects, bld : SUBSET Objects, left : Nat]

ScopesTypeOK ==
    /\ stack \in Seq(FrameType)
    /\ ret \in [kind : {"none", "ok", "error"}, val : SUBSET Objects]
    /\ live \subseteq Objects
    /\ lost \subseteq Objects
    /\ held \subseteq Objects

ScopesInit ==
    /\ stack = <<>>
    /\ ret = Nothing
    /\ live = {}
    /\ lost = {}
    /\ held = {}

Top == stack[Len(stack)]
Below == SubSeq(stack, 1, Len(stack) - 1)

\* The innermost call is fn, at a point where it waits for no call or, in
\* Returned, has the result of one.
At(fn, at) == stack # <<>> /\ Top.fn = fn /\ Top.at = at /\ ret = Nothing
Returned(fn, at) == stack # <<>> /\ Top.fn = fn /\ Top.at = at /\ ret # Nothing

Become(f) == stack' = Append(Below, f)
Enter(f, callee) == stack' = Append(Append(Below, f), callee)

Room == Len(stack) < MaxDepth

\* A native object is allocated at an address that is free.
Fresh == CHOOSE v \in Objects : v \notin live
CanAllocate == Objects \ live # {}

\* The references in vals are released; those in bad cannot be, and Value.Close
\* sets its pointer to nil all the same.
Close(vals, bad) ==
    /\ bad \subseteq vals
    /\ bad # {} => Cardinality(lost \cup bad) <= MaxLost
    /\ lost' = lost \cup bad

\* What the deferred Closes of a frame release, and what it gives up when it
\* does not return the Value it was making.
MutantDeferred(f) == {}
Deferred(f) == f.own

MutantAbandoned(f, r) == {}
Abandoned(f, r) == f.out \ r.val

\* The innermost call returns r: its deferred calls run, and the builder is freed.
Return(r) ==
    /\ stack' = Below
    /\ LET closing == Deferred(Top) \cup Abandoned(Top, r) IN
        \E bad \in SUBSET closing :
            /\ Close(closing, bad)
            /\ live' = live \ ((closing \ bad) \cup Top.bld)
    /\ IF Len(stack) = 1
         THEN ret' = Nothing /\ held' = held \cup r.val
         ELSE ret' = r /\ held' = held

\* A method that returns a new Value of its own is called and the frame goes on at
\* at: it succeeds, it fails, or it fails and cannot release what it allocated.
Obtain(at) ==
    /\ Become([Top EXCEPT !.at = at])
    /\ held' = held
    /\ \/ /\ CanAllocate
          /\ ret' = Ok({Fresh})
          /\ live' = live \cup {Fresh}
          /\ lost' = lost
       \/ /\ ret' = Error
          /\ UNCHANGED <<live, lost>>
       \/ /\ CanAllocate
          /\ Cardinality(lost) < MaxLost
          /\ ret' = Error
          /\ live' = live \cup {Fresh}
          /\ lost' = lost \cup {Fresh}

\* The frame goes on without a call to Nix.
Proceed(f) ==
    /\ Become(f)
    /\ ret' = Nothing
    /\ UNCHANGED <<live, lost, held>>

CallGo(f, callee) ==
    /\ Enter(f, callee)
    /\ ret' = Nothing
    /\ UNCHANGED <<live, lost, held>>

\* The call that just ended failed, and the innermost one returns its error.
Propagate(fn, at) == Returned(fn, at) /\ ret.kind = "error" /\ Return(Error)

-----------------------------------------------------------------------------
(* Client.getOutputValue *)

\* root == nil: f.OutputAttrs()
OutputAttrs ==
    /\ At("getOutputValue", "start")
    /\ Top.out = {}
    /\ Obtain("start")

OutputAttrsFails == Propagate("getOutputValue", "start")

TakeRoot ==
    /\ Returned("getOutputValue", "start")
    /\ ret.kind = "ok"
    /\ Proceed([Top EXCEPT !.out = ret.val])

\* len(path) == 0: the leaf is handed over.
ReturnLeaf ==
    /\ At("getOutputValue", "start")
    /\ Top.out # {}
    /\ Top.left = 0
    /\ Return(Ok(Top.out))

\* defer root.Close()
MutantKeepRoot(f) == [f EXCEPT !.at = "attr", !.out = {}]
KeepRoot(f) == [f EXCEPT !.at = "attr", !.own = f.out, !.out = {}]

DeferRootClose ==
    /\ At("getOutputValue", "start")
    /\ Top.out # {}
    /\ Top.left > 0
    /\ Proceed(KeepRoot(Top))

\* The type cannot be read, or is not that of an attribute set.
NotAttrs == At("getOutputValue", "attr") /\ Return(Error)

\* c.evaluator.Attr(root, attr)
GetOutputAttr == At("getOutputValue", "attr") /\ Obtain("child")

GetOutputAttrFails == Propagate("getOutputValue", "child")

\* return c.getOutputValue(f, child, path[1:])
DescendOutput ==
    /\ Returned("getOutputValue", "child")
    /\ ret.kind = "ok"
    /\ CallGo([Top EXCEPT !.at = "tail"],
              Frame("getOutputValue", {}, ret.val, Top.left - 1))

ReturnTail == Returned("getOutputValue", "tail") /\ Return(ret)

GetOutputValueStep ==
    \/ OutputAttrs \/ OutputAttrsFails \/ TakeRoot \/ ReturnLeaf \/ DeferRootClose
    \/ NotAttrs \/ GetOutputAttr \/ GetOutputAttrFails \/ DescendOutput \/ ReturnTail

-----------------------------------------------------------------------------
(* Evaluator.NewValue with the GoValues of builders.go *)

AllocValue == At("NewValue", "start") /\ Obtain("init")

AllocValueFails == Propagate("NewValue", "init")

TakeValue ==
    /\ Returned("NewValue", "init")
    /\ ret.kind = "ok"
    /\ Proceed([Top EXCEPT !.out = ret.val])

\* A scalar, Apply or Copy: one call initializes the value.
InitValue == At("NewValue", "init") /\ Return(Ok(Top.out))

\* Any GoValue whose first call fails, or whose arguments are closed.
InitValueFails == At("NewValue", "init") /\ Return(Error)

\* List and Attrs: the builder, freed by a deferred call.
MakeBuilder ==
    /\ At("NewValue", "init")
    /\ Room
    /\ CanAllocate
    /\ \E n \in 0..MaxItems :
        Become([Top EXCEPT !.at = "item", !.bld = {Fresh}, !.left = n])
    /\ live' = live \cup {Fresh}
    /\ UNCHANGED <<ret, lost, held>>

\* The next element is made by NewValue, in the order of the list or of the
\* sorted names.
NewItem ==
    /\ At("NewValue", "item")
    /\ Top.left > 0
    /\ CallGo([Top EXCEPT !.at = "insert"], Frame("NewValue", Top.uses, {}, 0))

NewItemFails == Propagate("NewValue", "insert")

\* defer value.Close() in the loop: the elements stay until the list is made.
KeepItem(f) == [f EXCEPT !.own = @ \cup ret.val]

TakeItem ==
    /\ Returned("NewValue", "insert")
    /\ ret.kind = "ok"
    /\ Proceed(KeepItem(Top))

\* The builder refers to the element from now on.
InsertItem ==
    /\ At("NewValue", "insert")
    /\ Proceed([Top EXCEPT !.at = "item", !.left = @ - 1, !.uses = @ \cup Top.own])

InsertItemFails == At("NewValue", "insert") /\ Return(Error)

\* MakeList, MakeAttrs
MakeFromBuilder == At("NewValue", "item") /\ Top.left = 0 /\ Return(Ok(Top.out))

MakeFromBuilderFails == At("NewValue", "item") /\ Top.left = 0 /\ Return(Error)

NewValueStep ==
    \/ AllocValue \/ AllocValueFails \/ TakeValue \/ InitValue \/ InitValueFails
    \/ MakeBuilder \/ NewItem \/ NewItemFails \/ TakeItem \/ InsertItem
    \/ InsertItemFails \/ MakeFromBuilder \/ MakeFromBuilderFails

-----------------------------------------------------------------------------
(* Evaluator.EvalWithArgs *)

EvalFunction == At("Evaluator.EvalWithArgs", "start") /\ Obtain("fn")

EvalFunctionFails == Propagate("Evaluator.EvalWithArgs", "fn")

\* defer fn.Close(), and goValueFromAny.
TakeFunction ==
    /\ Returned("Evaluator.EvalWithArgs", "fn")
    /\ ret.kind = "ok"
    /\ Proceed([Top EXCEPT !.own = ret.val])

ConvertArgumentFails == At("Evaluator.EvalWithArgs", "fn") /\ Return(Error)

BuildArgument ==
    /\ At("Evaluator.EvalWithArgs", "fn")
    /\ CallGo([Top EXCEPT !.at = "arg"], Frame("NewValue", {}, {}, 0))

BuildArgumentFails == Propagate("Evaluator.EvalWithArgs", "arg")

\* defer argValue.Close()
TakeArgument ==
    /\ Returned("Evaluator.EvalWithArgs", "arg")
    /\ ret.kind = "ok"
    /\ Proceed([Top EXCEPT !.own = @ \cup ret.val, !.uses = Top.own \cup ret.val])

\* e.Call(fn, argValue), whose result is returned.
ApplyFunction == At("Evaluator.EvalWithArgs", "arg") /\ Obtain("done")

ReturnApplied == Returned("Evaluator.EvalWithArgs", "done") /\ Return(ret)

EvalWithArgsStep ==
    \/ EvalFunction \/ EvalFunctionFails \/ TakeFunction \/ ConvertArgumentFails
    \/ BuildArgument \/ BuildArgumentFails \/ TakeArgument \/ ApplyFunction \/ ReturnApplied

-----------------------------------------------------------------------------
(* Evaluator.Unmarshal *)

\* The value is forced and read, and is a scalar, null or empty.
DecodeScalar == At("unmarshalValue", "start") /\ Return(Ok({}))

\* It cannot be forced or read, or does not fit the Go type.
DecodeFails == At("unmarshalValue", "start") /\ Return(Error)

\* A struct, map, slice or array with n attributes or elements to decode.
DecodeContainer ==
    /\ At("unmarshalValue", "start")
    /\ Room
    /\ \E n \in 0..MaxItems : Proceed([Top EXCEPT !.at = "item", !.left = n])

DecodeDone == At("unmarshalValue", "item") /\ Top.left = 0 /\ Return(Ok({}))

\* HasAttr or AttrName fails, or a required attribute is missing.
NoAttr == At("unmarshalValue", "item") /\ Top.left > 0 /\ Return(Error)

\* Attr, AttrByIndex, Index
GetChild == At("unmarshalValue", "item") /\ Top.left > 0 /\ Obtain("child")

GetChildFails == Propagate("unmarshalValue", "child")

MutantDecodeChild ==
    /\ Returned("unmarshalValue", "child")
    /\ ret.kind = "ok"
    /\ Enter([Top EXCEPT !.at = "close"], Frame("unmarshalValue", ret.val, {}, 0))
    /\ ret' = Nothing
    /\ live' = live \ ret.val
    /\ UNCHANGED <<lost, held>>
DecodeChild ==
    /\ Returned("unmarshalValue", "child")
    /\ ret.kind = "ok"
    /\ CallGo([Top EXCEPT !.at = "close", !.own = ret.val],
              Frame("unmarshalValue", ret.val, {}, 0))

\* child.Close(), after the child was decoded and whether or not it could be.
\* bad says that Close fails.
MutantCloseChild(bad) ==
    /\ Close(Top.own, bad)
    /\ live' = IF ret.kind = "ok" THEN live \ (Top.own \ bad) ELSE live
CloseChild(bad) ==
    /\ Close(Top.own, bad)
    /\ live' = live \ (Top.own \ bad)

NextChild ==
    /\ Returned("unmarshalValue", "close")
    /\ ret.kind = "ok"
    /\ CloseChild({})
    /\ Become([Top EXCEPT !.at = "item", !.own = {}, !.left = @ - 1])
    /\ ret' = Nothing
    /\ held' = held

\* The child could not be decoded or could not be closed: the first error is
\* returned.
ChildFails ==
    /\ Returned("unmarshalValue", "close")
    /\ \E bad \in SUBSET Top.own :
        /\ ret.kind = "error" \/ bad # {}
        /\ CloseChild(bad)
    /\ stack' = Below
    /\ ret' = Error
    /\ held' = held

UnmarshalStep ==
    \/ DecodeScalar \/ DecodeFails \/ DecodeContainer \/ DecodeDone \/ NoAttr
    \/ GetChild \/ GetChildFails \/ DecodeChild \/ NextChild \/ ChildFails

-----------------------------------------------------------------------------
(* The handlers of the Client's methods *)

\* A method is called; middleware lets one in at a time.
BeginCall(op) ==
    /\ stack = <<>>
    /\ op \in ClientCalls \ {"Unmarshal"}
    /\ op = "GetFlakeOutputValue" => Cardinality(held) < MaxHeld
    /\ stack' = <<Frame(op, {}, {}, 0)>>
    /\ UNCHANGED <<ret, live, lost, held>>

BeginUnmarshal(v) ==
    /\ stack = <<>>
    /\ v \in held
    /\ stack' = <<Frame("Unmarshal", {v}, {}, 0)>>
    /\ UNCHANGED <<ret, live, lost, held>>

\* Evaluator.NewValue is also called by itself, with Values of the caller in
\* Apply and Copy.
BeginNewValue ==
    /\ stack = <<>>
    /\ Cardinality(held) < MaxHeld
    /\ stack' = <<Frame("NewValue", held, {}, 0)>>
    /\ UNCHANGED <<ret, live, lost, held>>

WalkOutputs(op, next) ==
    /\ At(op, "start")
    /\ \E n \in 0..MaxPath :
        CallGo([Top EXCEPT !.at = next], Frame("getOutputValue", {}, {}, n))

GetFlakeOutputValue == WalkOutputs("GetFlakeOutputValue", "done")

EvalFlakeOutput == WalkOutputs("EvalFlakeOutput", "decode")

Eval == At("Eval", "start") /\ Obtain("decode")

EvalWithArgs ==
    /\ At("EvalWithArgs", "start")
    /\ CallGo([Top EXCEPT !.at = "decode"], Frame("Evaluator.EvalWithArgs", {}, {}, 0))

Unmarshal ==
    /\ At("Unmarshal", "start")
    /\ CallGo([Top EXCEPT !.at = "done"], Frame("unmarshalValue", Top.uses, {}, 0))

NoResult(op) == op \in ClientCalls /\ Propagate(op, "decode")

\* defer value.Close(), and c.evaluator.Unmarshal(value, out).
DecodeResult(op) ==
    /\ op \in ClientCalls
    /\ Returned(op, "decode")
    /\ ret.kind = "ok"
    /\ CallGo([Top EXCEPT !.at = "done", !.own = ret.val],
              Frame("unmarshalValue", ret.val, {}, 0))

\* The handler returns; GetFlakeOutputValue passes the Value on.
EndCall(op) == op \in ClientCalls /\ Returned(op, "done") /\ Return(ret)

\* The caller closes a Value it holds.
CloseHeld(v) ==
    /\ stack = <<>>
    /\ v \in held
    /\ held' = held \ {v}
    /\ \E bad \in SUBSET {v} : Close({v}, bad) /\ live' = live \ ({v} \ bad)
    /\ UNCHANGED <<stack, ret>>

ScopesNext ==
    \/ \E op \in ClientCalls : BeginCall(op) \/ NoResult(op) \/ DecodeResult(op) \/ EndCall(op)
    \/ BeginNewValue
    \/ GetFlakeOutputValue \/ EvalFlakeOutput \/ Eval \/ EvalWithArgs \/ Unmarshal
    \/ GetOutputValueStep \/ NewValueStep \/ EvalWithArgsStep \/ UnmarshalStep
    \/ \E v \in Objects : BeginUnmarshal(v) \/ CloseHeld(v)

ScopesSpec == ScopesInit /\ [][ScopesNext]_scopeVars

-----------------------------------------------------------------------------
(* Properties *)

Depths == 1..Len(stack)
Holds(f) == f.own \cup f.out \cup f.bld

\* At every point of getOutputValue, EvalWithArgs, NewValue and Unmarshal, and after
\* any failure, each live native object belongs to exactly one place: a Go call that
\* will release it, the result being returned, the caller, or the references a
\* failing decref left.  So none is leaked, and none is released twice; when an
\* operation is over, only what it handed out and what Nix refused to release is left.
OneOwner ==
    /\ live = (UNION {Holds(stack[i]) : i \in Depths}) \cup ret.val \cup held \cup lost
    /\ \A i, j \in Depths : i # j => Holds(stack[i]) \cap Holds(stack[j]) = {}
    /\ \A i \in Depths :
        /\ Holds(stack[i]) \cap (ret.val \cup held \cup lost) = {}
        /\ stack[i].own \cap stack[i].out = {}
        /\ stack[i].bld \cap (stack[i].own \cup stack[i].out) = {}
    /\ ret.val \cap (held \cup lost) = {}
    /\ held \cap lost = {}

\* What has been lent stays alive while it is in use: the Value a nested call of
\* Unmarshal decodes, the function and the argument of Evaluator.Call, the caller's
\* Values under Unmarshal, Apply and Copy, and the elements a builder refers to
\* until MakeList or MakeAttrs has read them.
LentValuesLive == \A i \in Depths : stack[i].uses \subseteq live
=============================================================================
