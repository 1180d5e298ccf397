------------------------------ MODULE Evaluator ------------------------------
(***************************************************************************)
(* Evaluators, their Values and the Nix context they share                 *)
(* (eval/evaluator.go, eval/ops.go, eval/value.go, eval/builders.go,       *)
(* nixcontext/context.go, internal/status/errors.go).                      *)
(*                                                                         *)
(* A caller uses the wrappers from one goroutine at a time and may close   *)
(* them in any order.  A method checks the wrappers it needs and makes one *)
(* or more raw calls.  A raw call reports an error in the single slot of   *)
(* the Nix context, which the next raw call that gets the context clears;  *)
(* status.FromContext copies the error out and clears the slot.            *)
(*                                                                         *)
(* A definition named Mutant... is a mistaken form of the definition after *)
(* it, used only to show that the properties notice the mistake.           *)
(***************************************************************************)
EXTENDS Naturals, Sequences, FiniteSets

CONSTANTS
    Evaluators,  \* the Evaluators that share the Context
    Values,      \* identities for eval.Value wrappers, reused once closed
    Unowned      \* the owner of an identity no wrapper has had yet

ASSUME UnownedAssumption == Unowned \notin Evaluators

VARIABLES
    ctxOpen,    \* the Context has not been closed
    stateOpen,  \* the Evaluators that have not been closed
    open,       \* the Values whose ptr is not nil
    owner,      \* the Evaluator that made each Value
    native,     \* the Nix values a reference is held on
    lost,       \* the references Nix refused to drop
    slot,       \* the error slot of the Nix context
    pc,         \* what the running method does next
    call,       \* the running method, its Evaluator and its Values
    at,         \* the raw call of the method that is next
    failure,    \* how the running method failed
    reply       \* what the last method returned

vars == <<ctxOpen, stateOpen, open, owner, native, lost, slot, pc, call, at, failure, reply>>

handles == <<ctxOpen, stateOpen, open, owner, native, lost>>

-----------------------------------------------------------------------------
(* Methods, as the raw calls they make *)

\* "alloc"  allocValue: a nil pointer is an error
\* "code"   a status code, or a string that is nil on error
\* "flag"   a plain result; only the slot tells an error
\* "type"   a flag call that reads the type, followed by a comparison
\* "child"  a new reference to a part of a Value: nil is an error
\* "noctx"  a call that does not get the context: nil is an error
EvalString    == <<"alloc", "code">>
NewValue      == <<"alloc", "code">>             \* of a scalar
ForceValue    == <<"code">>                      \* Force, ForceDeep
Call          == <<"alloc", "code">>             \* and CallMulti
Attr          == <<"child">>                     \* and Index
AttrLazy      == <<"code", "type", "child">>
AttrByIndex   == <<"child">>
AttrName      == <<"code">>
HasAttr       == <<"flag">>
RealiseString == <<"code", "noctx", "code">>     \* the string, a path's name and hash
Type          == <<"flag">>
TypeName      == <<"code">>
Number        == <<"type", "flag">>              \* Bool, Int, Float
Text          == <<"type", "code">>              \* String, PathString
Size          == <<"type", "flag">>              \* ListLen, AttrLen

Program ==
    [EvalString |-> EvalString, NewValue |-> NewValue, Force |-> ForceValue, Call |-> Call,
     Attr |-> Attr, AttrLazy |-> AttrLazy, AttrByIndex |-> AttrByIndex, AttrName |-> AttrName,
     HasAttr |-> HasAttr, RealiseString |-> RealiseString, Type |-> Type,
     TypeName |-> TypeName, Number |-> Number, Text |-> Text, Size |-> Size]

Methods == DOMAIN Program

\* Methods of Value; the others are methods of Evaluator.
ValueMethods == {"Type", "TypeName", "Number", "Text", "Size"}

\* The Values a method is given: a function and its arguments, which may be
\* the same Value, for Call and CallMulti.
Takes(m, args) == CASE m \in {"EvalString", "NewValue"} -> args = {}
                    [] m = "Call"                       -> args # {}
                    [] OTHER                            -> Cardinality(args) = 1

\* Methods that close the Value they allocated before they read the slot; the
\* builder behind NewValue reads it first.
ReleaseFirst == {"EvalString", "Call"}

NoCall == [method |-> "Type", evaluator |-> Unowned, args |-> {}, out |-> {}]

TypeOK ==
    /\ ctxOpen \in BOOLEAN
    /\ stateOpen \subseteq Evaluators
    /\ open \subseteq Values
    /\ owner \in [Values -> Evaluators \cup {Unowned}]
    /\ \A v \in open : owner[v] # Unowned
    /\ native \subseteq Values
    /\ lost \subseteq native
    /\ slot \in {"ok", "error"}
    /\ pc \in {"idle", "raw", "release", "convert"}
    /\ call \in [method : Methods, evaluator : Evaluators \cup {Unowned},
                 args : SUBSET Values, out : SUBSET Values]
    /\ at \in 1 .. 3
    /\ failure \in {"none", "nix", "native"}
    /\ reply \in {"none", "ok", "ErrClosed", "otherEvaluator", "typeError",
                  "nixError", "emptyError"}

Init ==
    /\ ctxOpen = TRUE
    /\ stateOpen = Evaluators
    /\ open = {}
    /\ owner = [v \in Values |-> Unowned]
    /\ native = {}
    /\ lost = {}
    /\ slot = "ok"
    /\ pc = "idle"
    /\ call = NoCall
    /\ at = 1
    /\ failure = "none"
    /\ reply = "none"

-----------------------------------------------------------------------------
(* Checks at the start of a method *)

\* Value.validate, then the Borrow of the Value's Context.
MutantValidate(v) == v \in open /\ ctxOpen
Validate(v) == v \in open /\ owner[v] \in stateOpen /\ ctxOpen

\* The check of e.state and the Borrow of e.ctx.
EvaluatorReady(e) == e \in stateOpen /\ ctxOpen

ValidateValue(e, v) == CASE v \notin open   -> "ErrClosed"
                         [] owner[v] # e   -> "otherEvaluator"
                         [] OTHER          -> "ok"

\* The answers of the checks; the first refusal, in an order the set args does
\* not keep, is what the method returns.
Checked(m, e, args) ==
    IF m \in ValueMethods THEN {IF Validate(v) THEN "ok" ELSE "ErrClosed" : v \in args}
    ELSE IF EvaluatorReady(e) THEN {ValidateValue(e, v) : v \in args} ELSE {"ErrClosed"}

\* A method of Value has no Evaluator argument.
Begin(m, e, args) ==
    /\ pc = "idle"
    /\ Takes(m, args)
    /\ m \in ValueMethods <=> e = Unowned
    /\ call' = [method |-> m, evaluator |-> e, args |-> args, out |-> {}]
    /\ at' = 1
    /\ failure' = "none"
    /\ IF Checked(m, e, args) \subseteq {"ok"}
       THEN pc' = "raw" /\ UNCHANGED reply
       ELSE pc' = "idle" /\ reply' \in Checked(m, e, args) \ {"ok"}
    /\ UNCHANGED <<handles, slot>>

-----------------------------------------------------------------------------
(* Raw calls *)

Kind == Program[call.method][at]

\* The method goes on to its next raw call, or returns.
Step ==
    IF at = Len(Program[call.method])
    THEN pc' = "idle" /\ reply' = "ok" /\ UNCHANGED at
    ELSE at' = at + 1 /\ UNCHANGED <<pc, reply>>

\* The slot after a raw call that succeeded: cleared by a call that gets the
\* context.
Cleared == IF Kind = "noctx" THEN slot ELSE "ok"

CallSucceeds ==
    /\ pc = "raw"
    /\ Kind \notin {"alloc", "child"}
    /\ slot' = Cleared
    /\ Step
    /\ UNCHANGED <<handles, call, failure>>

\* WrapValue, or the Value literal of allocValue: a Value tied to e.
MutantWrapValue(v, e) == owner
WrapValue(v, e) == [owner EXCEPT ![v] = e]

CreateValue(v) ==
    /\ pc = "raw"
    /\ Kind \in {"alloc", "child"}
    /\ v \notin native
    /\ open' = open \cup {v}
    /\ owner' = WrapValue(v, call.evaluator)
    /\ native' = native \cup {v}
    /\ call' = [call EXCEPT !.out = {v}]
    /\ slot' = "ok"
    /\ Step
    /\ UNCHANGED <<ctxOpen, stateOpen, lost, failure>>

\* The type is not the one the method needs: no raw call failed.
TypeMismatch ==
    /\ pc = "raw"
    /\ Kind = "type"
    /\ slot' = "ok"
    /\ pc' = "idle"
    /\ reply' = "typeError"
    /\ UNCHANGED <<handles, call, at, failure>>

\* A raw call fails.  What is left to do is to read the slot and to close the
\* Value the method allocated, in one order or the other.
CallFails ==
    /\ pc = "raw"
    /\ slot' = IF Kind = "noctx" THEN slot ELSE "error"
    /\ failure' = IF Kind = "noctx" THEN "native" ELSE "nix"
    /\ pc' = IF call.method \in ReleaseFirst /\ call.out # {} THEN "release" ELSE "convert"
    /\ UNCHANGED <<handles, call, at, reply>>

-----------------------------------------------------------------------------
(* Leaving a method after a failure *)

\* Value.Close of the Values in vs, on an open Context: ValueDecref clears the
\* slot as every raw call that gets the context does.  It fails for those in
\* refused: Close converts the error, and ptr becomes nil all the same.
Decref(vs, refused) ==
    /\ open' = open \ vs
    /\ native' = native \ (vs \ refused)
    /\ lost' = lost \cup refused

\* The slot after status.FromContext.
MutantFromContext == slot
FromContext == "ok"

\* EvalString, Call and CallMulti: close first, and drop the error of Close.
Release ==
    /\ pc = "release"
    /\ \E refused \in SUBSET call.out : Decref(call.out, refused)
    /\ slot' = "ok"
    /\ pc' = "convert"
    /\ UNCHANGED <<ctxOpen, stateOpen, owner, call, at, failure, reply>>

\* The Values NewValue closes once its builder has converted the error.
MutantReleased == {}
MutantReleasesBorrowed == call.out \cup call.args
Released == IF call.method \in ReleaseFirst THEN {} ELSE call.out

Convert ==
    /\ pc = "convert"
    /\ reply' = IF slot = "error" THEN "nixError" ELSE "emptyError"
    /\ slot' = FromContext
    /\ \E refused \in SUBSET Released : Decref(Released, refused)
    /\ pc' = "idle"
    /\ UNCHANGED <<ctxOpen, stateOpen, owner, call, at, failure>>

-----------------------------------------------------------------------------
(* Closing, in any order *)

\* A Value that is closed already, or whose Context is closed, stays as it is.
CloseValue(v) ==
    /\ pc = "idle"
    /\ v \in open
    /\ ctxOpen
    /\ Decref({v}, {})
    /\ slot' = "ok"
    /\ UNCHANGED <<ctxOpen, stateOpen, owner, pc, call, at, failure, reply>>

\* ValueDecref fails, and Close reports it.
CloseValueFails(v) ==
    /\ pc = "idle"
    /\ v \in open
    /\ ctxOpen
    /\ Decref({v}, {v})
    /\ slot' = FromContext
    /\ UNCHANGED <<ctxOpen, stateOpen, owner, pc, call, at, failure, reply>>

CloseEvaluator(e) ==
    /\ pc = "idle"
    /\ e \in stateOpen
    /\ stateOpen' = stateOpen \ {e}
    /\ UNCHANGED <<ctxOpen, open, owner, native, lost, slot, pc, call, at, failure, reply>>

CloseContext ==
    /\ pc = "idle"
    /\ ctxOpen
    /\ ctxOpen' = FALSE
    /\ UNCHANGED <<stateOpen, open, owner, native, lost, slot, pc, call, at, failure, reply>>

Next ==
    \/ \E m \in Methods, e \in Evaluators \cup {Unowned}, args \in SUBSET Values : Begin(m, e, args)
    \/ CallSucceeds
    \/ \E v \in Values : CreateValue(v)
    \/ TypeMismatch
    \/ CallFails
    \/ Release
    \/ Convert
    \/ \E v \in Values : CloseValue(v) \/ CloseValueFails(v)
    \/ \E e \in Evaluators : CloseEvaluator(e)
    \/ CloseContext

Spec == Init /\ [][Next]_vars

-----------------------------------------------------------------------------
(* Properties *)

\* Whatever the caller closed, and in whatever order, a raw call gets an open
\* Context, the EvalState of the Evaluator that owns its Values, and references
\* that have not been dropped.
RawCallsUseLiveHandles ==
    pc # "idle" =>
        /\ ctxOpen
        /\ call.args \subseteq open \cap native
        /\ \A v \in call.args : owner[v] \in stateOpen
        /\ call.evaluator # Unowned =>
              call.evaluator \in stateOpen /\ \A v \in call.args : owner[v] = call.evaluator

\* No method leaves an error in the slot, where a later call that fails
\* without setting one would find it and report it as its own.
NoErrorLeftBehind == pc = "idle" => slot = "ok"

\* Between methods, the references held on Nix values are those of the open
\* Values and those Nix refused to drop, and a method that failed has dropped
\* the one it allocated, which no caller can close, unless Nix refused that too.
NoValueLeaks ==
    pc = "idle" =>
        /\ native = open \cup lost
        /\ failure # "none" => call.out \cap native \subseteq lost

\* A method that failed with a Nix error reports that error ("Convert pending
\* Nix errors immediately with status.FromContext", docs/architecture.md).
NixErrorIsReported == pc = "idle" /\ failure = "nix" => reply = "nixError"

-----------------------------------------------------------------------------
(* Refinement: to its caller a method is one step of ValueLedger. *)

\* The methods that return a Value: one of their raw calls creates it.
Creates(kind) == kind \in {"alloc", "child"}
Makers == {m \in Methods : \E i \in DOMAIN Program[m] : Creates(Program[m][i])}

\* What a running method allocated is its own business.
Seen(vs) == IF pc = "idle" THEN vs ELSE vs \ call.out

Mode == IF pc = "idle" THEN "none"
        ELSE IF call.method \in Makers THEN "maker" ELSE "user"

Ledger == INSTANCE ValueLedger WITH
             inHand <- Seen(open), mislaid <- Seen(lost), running <- Mode, answer <- reply

\* The raw calls, the error paths and the early Closes of a method together make
\* one step of ValueLedger, or none.
ImplementsValueLedger == Ledger!LedgerSpec

=============================================================================
