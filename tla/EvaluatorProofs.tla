--------------------------- MODULE EvaluatorProofs ---------------------------
(***************************************************************************)
(* Proofs about Evaluator, for any number of Evaluators and Values.        *)
(*                                                                         *)
(* The safety properties speak of a method's Values while it runs and of   *)
(* the references between methods.  What ties them together is where the   *)
(* Value a method allocated is at each of its steps (Allocated) and that   *)
(* this Value is none of its arguments.  From the same facts each method   *)
(* is shown to be one step of ValueLedger to the code that calls it.       *)
(***************************************************************************)
EXTENDS Evaluator, FiniteSetTheorems, TLAPS

\* The Value the running method allocated is open until it is released.
Allocated ==
    /\ pc # "idle" => call.out \cap call.args = {}
    /\ pc \in {"raw", "release"} => call.out \subseteq open
    /\ pc = "convert" =>
          IF call.method \in ReleaseFirst THEN call.out \cap native \subseteq lost ELSE call.out \subseteq open

\* References are held by open Values or lost, never both.
References == native = open \cup lost /\ open \cap lost = {}

\* A running method is at one of its raw calls, has not failed yet, and is a
\* method of Value exactly if it has no Evaluator.
Running ==
    /\ pc = "raw" => at \in 1 .. Len(Program[call.method]) /\ failure = "none" /\ slot = "ok"
    /\ pc # "idle" => (call.method \in ValueMethods <=> call.evaluator = Unowned)
    /\ pc = "release" => call.method \in ReleaseFirst

IInv ==
    /\ TypeOK
    /\ RawCallsUseLiveHandles
    /\ NoErrorLeftBehind
    /\ NoValueLeaks
    /\ Allocated
    /\ References
    /\ Running

-----------------------------------------------------------------------------

\* Every method makes one to three raw calls.
LEMMA ProgramLength == \A m \in Methods : Len(Program[m]) \in 1 .. 3
<1> DEFINE Short(calls) == Len(calls) \in 1 .. 3
<1>1. Short(<<"code">>) /\ Short(<<"flag">>) /\ Short(<<"child">>)
  OBVIOUS
<1>2. Short(<<"alloc", "code">>)
  OBVIOUS
<1>3. Short(<<"type", "flag">>) /\ Short(<<"type", "code">>)
  OBVIOUS
<1>4. Short(<<"code", "type", "child">>)
  OBVIOUS
<1>5. Short(<<"code", "noctx", "code">>)
  OBVIOUS
<1> HIDE DEF Short
<1>6. \A m \in {"EvalString", "NewValue", "Force", "Call"} : Short(Program[m])
  BY <1>1, <1>2 DEF Program, EvalString, NewValue, ForceValue, Call
<1>7. \A m \in {"Attr", "AttrLazy", "AttrByIndex", "AttrName"} : Short(Program[m])
  BY <1>1, <1>4 DEF Program, Attr, AttrLazy, AttrByIndex, AttrName
<1>8. \A m \in {"HasAttr", "RealiseString", "Type", "TypeName", "Number", "Text", "Size"} :
          Short(Program[m])
  BY <1>1, <1>3, <1>5 DEF Program, HasAttr, RealiseString, Type, TypeName, Number, Text, Size
<1> QED
  BY <1>6, <1>7, <1>8 DEF Short, Methods, Program

\* A method of Value allocates nothing.
LEMMA ValueMethodsCreateNothing ==
    \A m \in ValueMethods : \A i \in 1 .. Len(Program[m]) : Program[m][i] \notin {"alloc", "child"}
<1> DEFINE Plain(calls) == \A i \in 1 .. Len(calls) : calls[i] \notin {"alloc", "child"}
<1>1. Plain(<<"flag">>) /\ Plain(<<"code">>)
  OBVIOUS
<1>2. Plain(<<"type", "flag">>) /\ Plain(<<"type", "code">>)
  OBVIOUS
<1> HIDE DEF Plain
<1>3. \A m \in ValueMethods : Plain(Program[m])
  BY <1>1, <1>2 DEF ValueMethods, Program, Type, TypeName, Number, Text, Size
<1> QED
  BY <1>3 DEF Plain

\* Nothing is open or pending before the first method.
LEMMA InitGivesIInv == Init => IInv
<1> SUFFICES ASSUME Init PROVE IInv
  OBVIOUS
<1>1. call \in [method : Methods, evaluator : Evaluators \cup {Unowned},
                args : SUBSET Values, out : SUBSET Values]
  BY DEF Init, NoCall, Methods, Program
<1>2. ctxOpen \in BOOLEAN
  BY Zenon DEF Init
<1>3. TypeOK
  BY <1>1, <1>2 DEF Init, TypeOK
<1> QED
  BY <1>3 DEF Init, IInv, RawCallsUseLiveHandles, NoErrorLeftBehind, NoValueLeaks, Allocated,
              References, Running

\* Starting a method: its checks are what the raw calls rely on.
LEMMA BeginKeepsIInv ==
    ASSUME IInv, NEW m \in Methods, NEW e \in Evaluators \cup {Unowned}, NEW args \in SUBSET Values,
           Begin(m, e, args)
    PROVE  IInv'
<1> USE DEF IInv
<1>1. /\ call' = [method |-> m, evaluator |-> e, args |-> args, out |-> {}]
      /\ at' = 1 /\ failure' = "none" /\ slot' = "ok" /\ pc = "idle"
      /\ UNCHANGED <<ctxOpen, stateOpen, open, owner, native, lost>>
  BY DEF Begin, handles, NoErrorLeftBehind
<1>2. CASE Checked(m, e, args) \subseteq {"ok"}
  <2>1. pc' = "raw" /\ reply' = reply
    BY <1>2 DEF Begin
  <2>2. TypeOK'
    BY <1>1, <2>1 DEF TypeOK
  <2>3. m \in ValueMethods <=> e = Unowned
    BY DEF Begin
  <2>4. ctxOpen /\ args \subseteq open /\ (\A v \in args : owner[v] \in stateOpen)
        /\ (e # Unowned => e \in stateOpen /\ \A v \in args : owner[v] = e)
    <3>1. CASE m \in ValueMethods
      <4>1. \A v \in args : Validate(v)
        BY <1>2, <3>1 DEF Checked
      <4>2. \E v \in args : TRUE
        <5>1. Cardinality(args) = 1
          BY <3>1 DEF Begin, Takes, ValueMethods
        <5> QED
          BY <5>1, FS_EmptySet
      <4> QED
        BY <4>1, <4>2, <2>3, <3>1 DEF Validate
    <3>2. CASE m \notin ValueMethods
      <4>1. EvaluatorReady(e)
        BY <1>2, <3>2 DEF Checked
      <4>2. \A v \in args : ValidateValue(e, v) = "ok"
        BY <1>2, <3>2, <4>1 DEF Checked
      <4>3. \A v \in args : v \in open /\ owner[v] = e
        BY <4>2 DEF ValidateValue
      <4> QED
        BY <4>1, <4>3 DEF EvaluatorReady
    <3> QED
      BY <3>1, <3>2
  <2>5. RawCallsUseLiveHandles'
    BY <1>1, <2>4 DEF RawCallsUseLiveHandles, References
  <2>6. Running'
    BY <1>1, <2>1, <2>3, ProgramLength DEF Running
  <2> QED
    BY <1>1, <2>1, <2>2, <2>5, <2>6 DEF NoErrorLeftBehind, NoValueLeaks, Allocated, References
<1>3. CASE ~(Checked(m, e, args) \subseteq {"ok"})
  <2>1. pc' = "idle" /\ reply' \in {"ErrClosed", "otherEvaluator"}
    BY <1>3 DEF Begin, Checked, ValidateValue
  <2>2. TypeOK'
    BY <1>1, <2>1 DEF TypeOK
  <2> QED
    BY <1>1, <2>1, <2>2 DEF RawCallsUseLiveHandles, NoErrorLeftBehind, NoValueLeaks, Allocated,
                            References, Running
<1> QED
  BY <1>2, <1>3

\* Raw calls: success, a new Value, a type mismatch, failure.
LEMMA RawKeepsIInv ==
    ASSUME IInv, CallSucceeds \/ (\E v \in Values : CreateValue(v)) \/ TypeMismatch \/ CallFails
    PROVE  IInv'
<1> USE DEF IInv
<1>0. pc = "raw" /\ slot = "ok" /\ at \in 1 .. Len(Program[call.method]) /\ failure = "none"
      /\ Len(Program[call.method]) \in 1 .. 3
  BY ProgramLength DEF CallSucceeds, CreateValue, TypeMismatch, CallFails, Running, TypeOK
<1>1. ASSUME Step
      PROVE  /\ at' \in 1 .. 3 /\ pc' \in {"idle", "raw"}
             /\ reply' = reply \/ reply' = "ok"
             /\ pc' = "raw" => at' \in 1 .. Len(Program[call.method])
  <2>1. CASE at = Len(Program[call.method])
    BY <1>0, <1>1, <2>1 DEF Step
  <2>2. CASE at # Len(Program[call.method])
    <3>1. at' = at + 1 /\ pc' = pc /\ reply' = reply
      BY <1>1, <2>2 DEF Step
    <3>2. \A n \in 1 .. 3 : at \in 1 .. n /\ at # n => at + 1 \in 1 .. n /\ at + 1 \in 1 .. 3
      OBVIOUS
    <3>3. at' \in 1 .. Len(Program[call.method]) /\ at' \in 1 .. 3
      BY <1>0, <2>2, <3>1, <3>2, Zenon
    <3> QED
      BY <1>0, <3>1, <3>3, Zenon
  <2> QED
    BY <2>1, <2>2
<1>2. CASE CallSucceeds
  <2>1. slot' = "ok" /\ Step /\ failure' = "none" /\ UNCHANGED <<handles, call>>
    BY <1>0, <1>2 DEF CallSucceeds, Cleared
  <2> QED
    BY <1>0, <1>1, <2>1 DEF TypeOK, RawCallsUseLiveHandles, NoErrorLeftBehind, NoValueLeaks, Allocated,
                       References, Running, handles
<1>3. ASSUME NEW v \in Values, CreateValue(v) PROVE IInv'
  <2>1. /\ Step /\ v \notin native /\ open' = open \cup {v} /\ native' = native \cup {v}
        /\ owner' = [owner EXCEPT ![v] = call.evaluator]
        /\ call' = [call EXCEPT !.out = {v}]
        /\ slot' = "ok" /\ failure' = "none"
        /\ UNCHANGED <<ctxOpen, stateOpen, lost>>
    BY <1>0, <1>3 DEF CreateValue, WrapValue
  <2>2. call.method \notin ValueMethods /\ call.evaluator # Unowned
    BY <1>0, <1>3, ValueMethodsCreateNothing DEF CreateValue, Kind, Running
  <2>3. call.method = call'.method /\ call.args = call'.args /\ call.evaluator = call'.evaluator
        /\ call'.out = {v}
    BY <2>1 DEF TypeOK
  <2>4. TypeOK'
    <3>1. call' \in [method : Methods, evaluator : Evaluators \cup {Unowned},
                     args : SUBSET Values, out : SUBSET Values]
      BY <2>1 DEF TypeOK
    <3>2. owner' \in [Values -> Evaluators \cup {Unowned}] /\ \A w \in open' : owner'[w] # Unowned
      BY <2>1, <2>2 DEF TypeOK
    <3> QED
      BY <1>0, <1>1, <2>1, <3>1, <3>2 DEF TypeOK
  <2>5. v \notin call.args
    BY <1>0, <2>1 DEF RawCallsUseLiveHandles
  <2>6. RawCallsUseLiveHandles'
    BY <1>0, <2>1, <2>3, <2>5 DEF RawCallsUseLiveHandles, TypeOK
  <2>7. Allocated' /\ References' /\ NoErrorLeftBehind' /\ NoValueLeaks'
    BY <1>0, <1>1, <2>1, <2>3, <2>5 DEF Allocated, References, NoErrorLeftBehind, NoValueLeaks
  <2>8. Running'
    BY <1>0, <1>1, <2>1, <2>3 DEF Running
  <2> QED
    BY <2>4, <2>6, <2>7, <2>8
<1>4. CASE TypeMismatch
  BY <1>0, <1>4 DEF TypeMismatch, TypeOK, RawCallsUseLiveHandles, NoErrorLeftBehind, NoValueLeaks,
                    Allocated, References, Running, handles
<1>5. CASE CallFails
  <2>1. pc' \in {"release", "convert"} /\ slot' \in {"ok", "error"} /\ failure' \in {"nix", "native"}
        /\ UNCHANGED <<ctxOpen, stateOpen, open, owner, native, lost, call, at, reply>>
    BY <1>0, <1>5 DEF CallFails, handles
  <2>2. /\ pc' = "convert" /\ call.method \in ReleaseFirst => call.out = {}
        /\ pc' = "release" => call.method \in ReleaseFirst
    BY <1>5 DEF CallFails
  <2> QED
    BY <1>0, <2>1, <2>2 DEF TypeOK, RawCallsUseLiveHandles, NoErrorLeftBehind, NoValueLeaks, Allocated,
                       References, Running
<1> QED
  BY <1>2, <1>3, <1>4, <1>5

\* Leaving a method that failed.
LEMMA FailureKeepsIInv ==
    ASSUME IInv, Release \/ Convert
    PROVE  IInv'
<1> USE DEF IInv
<1>1. CASE Release
  <2>1. PICK refused \in SUBSET call.out :
           /\ pc = "release" /\ pc' = "convert" /\ slot' = "ok"
           /\ open' = open \ call.out /\ native' = native \ (call.out \ refused)
           /\ lost' = lost \cup refused
           /\ UNCHANGED <<ctxOpen, stateOpen, owner, call, at, failure, reply>>
    BY <1>1 DEF Release, Decref
  <2>2. call.method \in ReleaseFirst
    BY <2>1 DEF Running
  <2>3. call.out \subseteq open /\ call.out \cap call.args = {}
    BY <2>1 DEF Allocated
  <2> QED
    BY <2>1, <2>2, <2>3 DEF TypeOK, RawCallsUseLiveHandles, NoErrorLeftBehind, NoValueLeaks, Allocated,
                            References, Running
<1>2. CASE Convert
  <2>1. PICK refused \in SUBSET Released :
           /\ pc = "convert" /\ pc' = "idle" /\ slot' = "ok"
           /\ open' = open \ Released /\ native' = native \ (Released \ refused)
           /\ lost' = lost \cup refused
           /\ reply' \in {"nixError", "emptyError"}
           /\ UNCHANGED <<ctxOpen, stateOpen, owner, call, at, failure>>
    BY <1>2 DEF Convert, Decref, FromContext
  <2>2. Released \subseteq open /\ (call.out \ Released) \cap native \subseteq lost
    BY <2>1 DEF Released, Allocated
  <2> QED
    BY <2>1, <2>2 DEF TypeOK, RawCallsUseLiveHandles, NoErrorLeftBehind, NoValueLeaks, Allocated,
                      References, Running
<1> QED
  BY <1>1, <1>2

\* Closing wrappers between methods, in any order.
LEMMA CloseKeepsIInv ==
    ASSUME IInv,
           \/ \E v \in Values : CloseValue(v) \/ CloseValueFails(v)
           \/ \E e \in Evaluators : CloseEvaluator(e)
           \/ CloseContext
    PROVE  IInv'
<1> USE DEF IInv
<1>1. ASSUME NEW v \in Values, CloseValue(v) PROVE IInv'
  BY <1>1 DEF CloseValue, Decref, TypeOK, RawCallsUseLiveHandles, NoErrorLeftBehind, NoValueLeaks,
              Allocated, References, Running
<1>2. ASSUME NEW v \in Values, CloseValueFails(v) PROVE IInv'
  BY <1>2 DEF CloseValueFails, Decref, FromContext, TypeOK, RawCallsUseLiveHandles, NoErrorLeftBehind,
              NoValueLeaks, Allocated, References, Running
<1>3. ASSUME NEW e \in Evaluators, CloseEvaluator(e) PROVE IInv'
  BY <1>3 DEF CloseEvaluator, TypeOK, RawCallsUseLiveHandles, NoErrorLeftBehind, NoValueLeaks,
              Allocated, References, Running
<1>4. CASE CloseContext
  <2>1. ctxOpen' \in BOOLEAN
    BY <1>4, Zenon DEF CloseContext
  <2> QED
    BY <1>4, <2>1 DEF CloseContext, TypeOK, RawCallsUseLiveHandles, NoErrorLeftBehind, NoValueLeaks,
              Allocated, References, Running
<1> QED
  BY <1>1, <1>2, <1>3, <1>4

\* No step breaks the invariant.
LEMMA StepKeepsIInv == IInv /\ [Next]_vars => IInv'
<1> SUFFICES ASSUME IInv, [Next]_vars PROVE IInv'
  OBVIOUS
<1>1. CASE UNCHANGED vars
  BY <1>1 DEF vars, IInv, TypeOK, RawCallsUseLiveHandles, NoErrorLeftBehind, NoValueLeaks,
              Allocated, References, Running
<1> QED
  BY <1>1, BeginKeepsIInv, RawKeepsIInv, FailureKeepsIInv, CloseKeepsIInv DEF Next

\* The invariant holds in every state, whatever the caller closes and whichever
\* call fails.
THEOREM EvaluatorInvariance == Spec => []IInv
BY InitGivesIInv, StepKeepsIInv, PTL DEF Spec

-----------------------------------------------------------------------------

\* Evaluators and Values always have their types.
THEOREM EvaluatorTypeCorrect == Spec => []TypeOK
<1>1. IInv => TypeOK
  BY DEF IInv
<1> QED
  BY <1>1, EvaluatorInvariance, PTL

\* The closed checks of the methods are enough: in no order of closing does a
\* raw call get a freed handle or a Value of another Evaluator.
THEOREM NoCallOnClosedHandle == Spec => []RawCallsUseLiveHandles
<1>1. IInv => RawCallsUseLiveHandles
  BY DEF IInv
<1> QED
  BY <1>1, EvaluatorInvariance, PTL

\* A method never finds an error of an earlier one in the context.
THEOREM NoStaleError == Spec => []NoErrorLeftBehind
<1>1. IInv => NoErrorLeftBehind
  BY DEF IInv
<1> QED
  BY <1>1, EvaluatorInvariance, PTL

\* Failing methods hold no reference, and open Values hold one each.
THEOREM NoReferenceLeaks == Spec => []NoValueLeaks
<1>1. IInv => NoValueLeaks
  BY DEF IInv
<1> QED
  BY <1>1, EvaluatorInvariance, PTL

-----------------------------------------------------------------------------
(* Refinement of ValueLedger.  While a method runs, its caller does not see  *)
(* what it allocated; for a return to be one step of the ledger, that has to *)
(* be one Value, there exactly if the method is one that makes a Value.      *)

\* What the raw calls made so far have created.
Made ==
    /\ call.out = {} \/ \E v \in Values : call.out = {v}
    /\ pc # "idle" /\ call.out # {} => call.method \in Makers
    /\ pc = "raw" =>
          (call.out # {} <=> \E i \in 1 .. (at - 1) : Creates(Program[call.method][i]))
    /\ pc = "raw" => call.out \cap lost = {}

\* No method makes two creating raw calls.
LEMMA OneCreation ==
    \A m \in Methods : \A i, j \in 1 .. Len(Program[m]) :
        Creates(Program[m][i]) /\ Creates(Program[m][j]) => i = j
<1> DEFINE Single(calls) == \A i, j \in 1 .. Len(calls) : Creates(calls[i]) /\ Creates(calls[j]) => i = j
<1>1. Single(<<"code">>) /\ Single(<<"flag">>) /\ Single(<<"child">>)
  OBVIOUS
<1>2. Single(<<"alloc", "code">>) /\ Single(<<"type", "flag">>) /\ Single(<<"type", "code">>)
  BY DEF Creates
<1>3. Single(<<"code", "type", "child">>)
  BY DEF Creates
<1>4. Single(<<"code", "noctx", "code">>)
  BY DEF Creates
<1> HIDE DEF Single
<1>5. \A m \in {"EvalString", "NewValue", "Force", "Call"} : Single(Program[m])
  BY <1>1, <1>2 DEF Program, EvalString, NewValue, ForceValue, Call
<1>6. \A m \in {"Attr", "AttrLazy", "AttrByIndex", "AttrName"} : Single(Program[m])
  BY <1>1, <1>3 DEF Program, Attr, AttrLazy, AttrByIndex, AttrName
<1>7. \A m \in {"HasAttr", "RealiseString", "Type", "TypeName", "Number", "Text", "Size"} :
          Single(Program[m])
  BY <1>1, <1>2, <1>4 DEF Program, HasAttr, RealiseString, Type, TypeName, Number, Text, Size
<1>8. \A m \in Methods : Single(Program[m])
  BY <1>5, <1>6, <1>7 DEF Methods, Program
<1> QED
  BY <1>8, Zenon DEF Single

\* The program of a method is a sequence.
LEMMA ProgramDomain == \A m \in Methods : DOMAIN Program[m] = 1 .. Len(Program[m])
<1> DEFINE Listed(calls) == DOMAIN calls = 1 .. Len(calls)
<1>1. Listed(<<"code">>) /\ Listed(<<"flag">>) /\ Listed(<<"child">>)
  OBVIOUS
<1>2. Listed(<<"alloc", "code">>) /\ Listed(<<"type", "flag">>) /\ Listed(<<"type", "code">>)
  OBVIOUS
<1>3. Listed(<<"code", "type", "child">>) /\ Listed(<<"code", "noctx", "code">>)
  OBVIOUS
<1> HIDE DEF Listed
<1>4. \A m \in {"EvalString", "NewValue", "Force", "Call"} : Listed(Program[m])
  BY <1>1, <1>2 DEF Program, EvalString, NewValue, ForceValue, Call
<1>5. \A m \in {"Attr", "AttrLazy", "AttrByIndex", "AttrName"} : Listed(Program[m])
  BY <1>1, <1>3 DEF Program, Attr, AttrLazy, AttrByIndex, AttrName
<1>6. \A m \in {"HasAttr", "RealiseString", "Type", "TypeName", "Number", "Text", "Size"} :
          Listed(Program[m])
  BY <1>1, <1>2, <1>3 DEF Program, HasAttr, RealiseString, Type, TypeName, Number, Text, Size
<1> QED
  BY <1>4, <1>5, <1>6 DEF Listed, Methods, Program

\* Where a raw call that succeeds leaves the method: at the next one, or returned.
LEMMA Stepped ==
    ASSUME IInv, Step, pc = "raw"
    PROVE  /\ at \in 1 .. Len(Program[call.method]) /\ at \in 1 .. 3
           /\ \/ at = Len(Program[call.method]) /\ pc' = "idle" /\ reply' = "ok"
              \/ /\ at # Len(Program[call.method]) /\ pc' = "raw" /\ at' = at + 1
                 /\ reply' = reply
<1>1. at \in 1 .. Len(Program[call.method]) /\ Len(Program[call.method]) \in 1 .. 3
  BY ProgramLength DEF IInv, Running, TypeOK
<1>2. \A n \in 1 .. 3 : at \in 1 .. n => at \in 1 .. 3
  OBVIOUS
<1>3. at \in 1 .. 3
  BY <1>1, <1>2, Zenon
<1>4. CASE at = Len(Program[call.method])
  BY <1>1, <1>3, <1>4 DEF Step
<1>5. CASE at # Len(Program[call.method])
  BY <1>1, <1>3, <1>5 DEF Step
<1> QED
  BY <1>4, <1>5

\* What follows a comparison of types is done by other raw calls.
LEMMA NothingCreatedYet ==
    \A m \in Methods : \A i \in 1 .. Len(Program[m]) :
        Program[m][i] = "type" => ~\E j \in 1 .. (i - 1) : Creates(Program[m][j])
<1> DEFINE Late(calls) ==
        \A i \in 1 .. Len(calls) : calls[i] = "type" => ~\E j \in 1 .. (i - 1) : Creates(calls[j])
<1>1. Late(<<"code">>) /\ Late(<<"flag">>) /\ Late(<<"child">>)
  OBVIOUS
<1>2. Late(<<"alloc", "code">>) /\ Late(<<"type", "flag">>) /\ Late(<<"type", "code">>)
  OBVIOUS
<1>3. Late(<<"code", "type", "child">>)
  BY DEF Creates
<1>4. Late(<<"code", "noctx", "code">>)
  OBVIOUS
<1> HIDE DEF Late
<1>5. \A m \in {"EvalString", "NewValue", "Force", "Call"} : Late(Program[m])
  BY <1>1, <1>2 DEF Program, EvalString, NewValue, ForceValue, Call
<1>6. \A m \in {"Attr", "AttrLazy", "AttrByIndex", "AttrName"} : Late(Program[m])
  BY <1>1, <1>3 DEF Program, Attr, AttrLazy, AttrByIndex, AttrName
<1>7. \A m \in {"HasAttr", "RealiseString", "Type", "TypeName", "Number", "Text", "Size"} :
          Late(Program[m])
  BY <1>1, <1>2, <1>4 DEF Program, HasAttr, RealiseString, Type, TypeName, Number, Text, Size
<1>8. \A m \in Methods : Late(Program[m])
  BY <1>5, <1>6, <1>7 DEF Methods, Program
<1> QED
  BY <1>8, Zenon DEF Late

\* A raw call creates a Value only where none has been created, and in a method that
\* makes one.
LEMMA CreatesFirst ==
    ASSUME IInv, Made, pc = "raw", Creates(Kind)
    PROVE  call.out = {} /\ call.method \in Makers
<1>1. call.method \in Methods /\ at \in 1 .. Len(Program[call.method])
      /\ Len(Program[call.method]) \in 1 .. 3
  BY ProgramLength DEF IInv, Running, TypeOK
<1>2. call.method \in Makers
  BY <1>1, ProgramDomain DEF Makers, Kind
<1>3. \A i \in 1 .. (at - 1) : i \in 1 .. Len(Program[call.method]) /\ i # at
  BY <1>1
<1>4. ~\E i \in 1 .. (at - 1) : Creates(Program[call.method][i])
  BY <1>1, <1>3, OneCreation DEF Kind
<1> QED
  BY <1>2, <1>4 DEF Made

\* Every step keeps Made.
LEMMA MadeStep == IInv /\ Made /\ [Next]_vars => Made'
<1> SUFFICES ASSUME IInv, Made, [Next]_vars PROVE Made'
  OBVIOUS
<1>1. ASSUME NEW m \in Methods, NEW e \in Evaluators \cup {Unowned}, NEW args \in SUBSET Values,
             Begin(m, e, args)
      PROVE  Made'
  <2>1. call'.out = {} /\ at' = 1
    BY <1>1 DEF Begin
  <2>2. ~\E i \in 1 .. (1 - 1) : TRUE
    OBVIOUS
  <2> QED
    BY <2>1, <2>2 DEF Made
<1>2. CASE CallSucceeds
  <2>1. pc = "raw" /\ Step /\ ~Creates(Kind) /\ UNCHANGED <<call, lost>>
    BY <1>2 DEF CallSucceeds, Creates, handles
  <2>2. CASE at = Len(Program[call.method])
    BY <2>1, <2>2, Stepped DEF Made, IInv, TypeOK
  <2>3. CASE at # Len(Program[call.method])
    <3>1. pc' = "raw" /\ at' = at + 1 /\ at \in 1 .. 3
      BY <2>1, <2>3, Stepped
    <3>2. \A i : i \in 1 .. (at' - 1) <=> i \in 1 .. (at - 1) \/ i = at
      BY <3>1
    <3> QED
      BY <2>1, <3>1, <3>2 DEF Made, Kind
  <2> QED
    BY <2>2, <2>3
<1>3. ASSUME NEW v \in Values, CreateValue(v)
      PROVE  Made'
  <2>1. /\ pc = "raw" /\ Step /\ Creates(Kind) /\ v \notin native
        /\ call' = [call EXCEPT !.out = {v}] /\ lost' = lost
    BY <1>3 DEF CreateValue, Creates
  <2>2. call'.out = {v} /\ call'.method = call.method /\ v \notin lost'
    BY <2>1 DEF IInv, TypeOK
  <2>3. call.method \in Makers
    BY <2>1, CreatesFirst
  <2>4. pc' = "raw" => at' = at + 1 /\ at \in 1 .. 3
    BY <2>1, Stepped
  <2>5. pc' = "raw" => at \in 1 .. (at' - 1)
    BY <2>4
  <2> QED
    BY <2>1, <2>2, <2>3, <2>5 DEF Made, Kind
<1>4. CASE TypeMismatch \/ CallFails
  BY <1>4 DEF TypeMismatch, CallFails, Made, handles
<1>5. CASE Release \/ Convert
  BY <1>5 DEF Release, Convert, Made
<1>6. ASSUME NEW v \in Values, CloseValue(v) \/ CloseValueFails(v)
      PROVE  Made'
  BY <1>6 DEF CloseValue, CloseValueFails, Made
<1>7. ASSUME NEW e \in Evaluators, CloseEvaluator(e)
      PROVE  Made'
  BY <1>7 DEF CloseEvaluator, Made
<1>8. CASE CloseContext
  BY <1>8 DEF CloseContext, Made
<1>9. CASE UNCHANGED vars
  BY <1>9 DEF vars, Made
<1> QED
  BY <1>1, <1>2, <1>3, <1>4, <1>5, <1>6, <1>7, <1>8, <1>9 DEF Next

\* The first state of the wrappers is an empty ledger.
LEMMA InitRefines == Init => Made /\ Ledger!LedgerInit
BY DEF Init, Made, NoCall, Ledger!LedgerInit, Seen, Mode

\* Nothing the caller sees changes.
LEMMA Stutter ==
    ASSUME Seen(open)' = Seen(open), Seen(lost)' = Seen(lost), Mode' = Mode, reply' = reply
    PROVE  [Ledger!LedgerNext]_(Ledger!ledgerVars)
BY DEF Ledger!ledgerVars

\* A method starts, or is refused.
LEMMA BeginRefines ==
    ASSUME IInv, NEW m \in Methods, NEW e \in Evaluators \cup {Unowned}, NEW args \in SUBSET Values,
           Begin(m, e, args)
    PROVE  Ledger!LedgerNext
<1>1. /\ pc = "idle" /\ call'.out = {} /\ call'.method = m
      /\ open' = open /\ lost' = lost
  BY DEF Begin, handles
<1>2. Seen(open)' = Seen(open) /\ Seen(lost)' = Seen(lost) /\ Mode = "none"
  BY <1>1 DEF Seen, Mode
<1>3. CASE Checked(m, e, args) \subseteq {"ok"}
  <2>1. pc' = "raw" /\ reply' = reply
    BY <1>3 DEF Begin
  <2>2. Mode' \in {"maker", "user"}
    BY <2>1 DEF Mode
  <2>3. Ledger!Start(Mode')
    BY <1>2, <2>1 DEF Ledger!Start
  <2> QED
    BY <2>2, <2>3 DEF Ledger!LedgerNext, Ledger!Kinds
<1>4. CASE ~(Checked(m, e, args) \subseteq {"ok"})
  <2>1. pc' = "idle" /\ reply' \in {"ErrClosed", "otherEvaluator"}
    BY <1>4 DEF Begin, Checked, ValidateValue
  <2>2. Mode' = "none"
    BY <2>1 DEF Mode
  <2>3. Ledger!Refuse
    BY <1>2, <2>1, <2>2 DEF Ledger!Refuse, Ledger!Refusals
  <2> QED
    BY <2>3 DEF Ledger!LedgerNext
<1> QED
  BY <1>3, <1>4

\* A raw call: the last one that succeeds ends the method, with its Value if it is one
\* that makes a Value.
LEMMA RawRefines ==
    ASSUME IInv, Made, CallSucceeds \/ (\E v \in Values : CreateValue(v)) \/ TypeMismatch \/ CallFails
    PROVE  [Ledger!LedgerNext]_(Ledger!ledgerVars)
<1>0. pc = "raw"
  BY DEF CallSucceeds, CreateValue, TypeMismatch, CallFails
<1>1. Seen(open) = open \ call.out /\ Seen(lost) = lost \ call.out
  BY <1>0 DEF Seen
<1>2. Mode = IF call.method \in Makers THEN "maker" ELSE "user"
  BY <1>0 DEF Mode
<1>3. CASE CallSucceeds
  <2>1. Step /\ ~Creates(Kind) /\ UNCHANGED <<open, lost, call>>
    BY <1>3 DEF CallSucceeds, Creates, handles
  <2>2. CASE at # Len(Program[call.method])
    <3>1. pc' = "raw" /\ reply' = reply
      BY <1>0, <2>1, <2>2, Stepped
    <3>2. Mode' = Mode /\ Seen(open)' = Seen(open) /\ Seen(lost)' = Seen(lost)
      BY <1>0, <2>1, <3>1 DEF Mode, Seen
    <3> QED
      BY <3>1, <3>2, Stutter
  <2>3. CASE at = Len(Program[call.method])
    <3>1. pc' = "idle" /\ reply' = "ok"
      BY <1>0, <2>1, <2>3, Stepped
    <3>2. Mode' = "none" /\ Seen(open)' = open /\ Seen(lost)' = lost
      BY <2>1, <3>1 DEF Mode, Seen
    <3>3. call.method \in Makers <=> call.out # {}
      <4>1. call.method \in Methods /\ at \in 1 .. 3 /\ at \in 1 .. Len(Program[call.method])
        BY <1>0, <2>1, Stepped DEF IInv, TypeOK
      <4>2. \A i \in 1 .. at : i \in 1 .. (at - 1) \/ i = at
        BY <4>1
      <4>3. \A i \in 1 .. (at - 1) : i \in 1 .. at
        BY <4>1
      <4>4. call.method \in Makers <=> \E i \in 1 .. at : Creates(Program[call.method][i])
        BY <2>3, <4>1, ProgramDomain DEF Makers
      <4> QED
        BY <1>0, <2>1, <4>2, <4>3, <4>4 DEF Made, Kind
    <3>4. CASE call.out = {}
      BY <1>1, <1>2, <3>1, <3>2, <3>3, <3>4 DEF Ledger!LedgerNext, Ledger!Finish
    <3>5. CASE call.out # {}
      <4>1. PICK v \in Values : call.out = {v}
        BY <3>5 DEF Made
      <4>2. v \in open /\ v \notin lost
        BY <1>0, <4>1 DEF IInv, Allocated, Made
      <4>3. Ledger!Deliver(v)
        BY <1>1, <1>2, <3>1, <3>2, <3>3, <3>5, <4>1, <4>2 DEF Ledger!Deliver, Ledger!Unused
      <4> QED
        BY <4>3 DEF Ledger!LedgerNext
    <3> QED
      BY <3>4, <3>5
  <2> QED
    BY <2>2, <2>3
<1>4. ASSUME NEW v \in Values, CreateValue(v)
      PROVE  [Ledger!LedgerNext]_(Ledger!ledgerVars)
  <2>1. /\ Step /\ Creates(Kind) /\ v \notin native /\ open' = open \cup {v}
        /\ call' = [call EXCEPT !.out = {v}] /\ lost' = lost
    BY <1>4 DEF CreateValue, Creates
  <2>2. call'.out = {v} /\ call'.method = call.method
    BY <2>1 DEF IInv, TypeOK
  <2>3. call.out = {} /\ call.method \in Makers /\ v \notin open /\ v \notin lost
    BY <1>0, <2>1, CreatesFirst DEF IInv, References
  <2>4. CASE at # Len(Program[call.method])
    <3>1. pc' = "raw" /\ reply' = reply
      BY <1>0, <2>1, <2>4, Stepped
    <3>2. Mode' = Mode /\ Seen(open)' = Seen(open) /\ Seen(lost)' = Seen(lost)
      BY <1>0, <2>1, <2>2, <2>3, <3>1 DEF Mode, Seen
    <3> QED
      BY <3>1, <3>2, Stutter
  <2>5. CASE at = Len(Program[call.method])
    <3>1. pc' = "idle" /\ reply' = "ok"
      BY <1>0, <2>1, <2>5, Stepped
    <3>2. Mode' = "none" /\ Seen(open)' = open' /\ Seen(lost)' = lost
      BY <2>1, <3>1 DEF Mode, Seen
    <3>3. Ledger!Deliver(v)
      BY <1>1, <1>2, <2>1, <2>3, <3>1, <3>2 DEF Ledger!Deliver, Ledger!Unused
    <3> QED
      BY <3>3 DEF Ledger!LedgerNext
  <2> QED
    BY <2>4, <2>5
<1>5. CASE TypeMismatch
  <2>1. pc' = "idle" /\ reply' = "typeError" /\ UNCHANGED <<open, lost, call>> /\ Kind = "type"
    BY <1>5 DEF TypeMismatch, handles
  <2>2. CASE call.out = {}
    <3>1. Ledger!Fail
      BY <1>1, <1>2, <2>1, <2>2 DEF Ledger!Fail, Ledger!Kinds, Ledger!Failures, Mode, Seen
    <3> QED
      BY <3>1 DEF Ledger!LedgerNext
  <2>3. call.out = {}
    <3>1. call.method \in Methods /\ at \in 1 .. Len(Program[call.method])
      BY <1>0 DEF IInv, Running, TypeOK
    <3> QED
      BY <1>0, <2>1, <3>1, NothingCreatedYet DEF Made, Kind
  <2> QED
    BY <2>2, <2>3
<1>6. CASE CallFails
  <2>1. pc' \in {"release", "convert"} /\ reply' = reply /\ UNCHANGED <<open, lost, call>>
    BY <1>6 DEF CallFails, handles
  <2>2. Mode' = Mode /\ Seen(open)' = Seen(open) /\ Seen(lost)' = Seen(lost)
    BY <1>0, <2>1 DEF Mode, Seen
  <2> QED
    BY <2>1, <2>2, Stutter
<1> QED
  BY <1>3, <1>4, <1>5, <1>6

\* A method that failed closes what it allocated, before it converts the error or
\* after: to its caller it fails, with that reference mislaid if Nix kept it.
LEMMA FailureRefines ==
    ASSUME IInv, Made, Release \/ Convert
    PROVE  [Ledger!LedgerNext]_(Ledger!ledgerVars)
<1>1. CASE Release
  <2>1. PICK refused \in SUBSET call.out :
           /\ pc = "release" /\ pc' = "convert" /\ open' = open \ call.out
           /\ lost' = lost \cup refused /\ call' = call /\ reply' = reply
    BY <1>1 DEF Release, Decref
  <2>2. Mode' = Mode /\ Seen(open)' = Seen(open) /\ Seen(lost)' = Seen(lost)
    BY <2>1 DEF Mode, Seen
  <2> QED
    BY <2>1, <2>2, Stutter
<1>2. CASE Convert
  <2>1. PICK refused \in SUBSET Released :
           /\ pc = "convert" /\ pc' = "idle" /\ open' = open \ Released
           /\ lost' = lost \cup refused /\ reply' \in {"nixError", "emptyError"}
    BY <1>2 DEF Convert, Decref
  <2>2. /\ Seen(open) = open \ call.out /\ Seen(lost) = lost \ call.out
        /\ Mode = IF call.method \in Makers THEN "maker" ELSE "user"
        /\ Mode' = "none" /\ Seen(open)' = open' /\ Seen(lost)' = lost'
    BY <2>1 DEF Mode, Seen
  <2>3. call.out \cap native \subseteq lost \/ call.out \subseteq open
    BY <2>1 DEF IInv, Allocated
  <2>4. open' = Seen(open)
    BY <2>1, <2>2 DEF Released, IInv, Allocated, References
  <2>5. lost' \subseteq Seen(lost) \cup call.out /\ Seen(lost) \subseteq lost'
    BY <2>1, <2>2 DEF Released
  <2>6. CASE lost' = Seen(lost)
    <3>1. Ledger!Fail
      BY <2>1, <2>2, <2>4, <2>6 DEF Ledger!Fail, Ledger!Kinds, Ledger!Failures
    <3> QED
      BY <3>1 DEF Ledger!LedgerNext
  <2>7. CASE lost' # Seen(lost)
    <3>1. PICK v \in Values : call.out = {v}
      BY <2>5, <2>7 DEF Made
    <3>2. lost' = Seen(lost) \cup {v} /\ call.method \in Makers
      BY <2>1, <2>5, <2>7, <3>1 DEF Made
    <3>3. Ledger!FailAndMislay(v)
      BY <2>1, <2>2, <2>4, <3>1, <3>2 DEF Ledger!FailAndMislay, Ledger!Unused, Ledger!Failures
    <3> QED
      BY <3>3 DEF Ledger!LedgerNext
  <2> QED
    BY <2>6, <2>7
<1> QED
  BY <1>1, <1>2

\* The caller closes a Value; Evaluators and the Context are not in the ledger.
LEMMA CloseRefines ==
    ASSUME IInv,
           \/ \E v \in Values : CloseValue(v) \/ CloseValueFails(v)
           \/ \E e \in Evaluators : CloseEvaluator(e)
           \/ CloseContext
    PROVE  [Ledger!LedgerNext]_(Ledger!ledgerVars)
<1>1. pc = "idle" /\ pc' = "idle" /\ reply' = reply
  BY DEF CloseValue, CloseValueFails, CloseEvaluator, CloseContext
<1>2. /\ Mode = "none" /\ Mode' = "none" /\ Seen(open) = open /\ Seen(lost) = lost
      /\ Seen(open)' = open' /\ Seen(lost)' = lost'
  BY <1>1 DEF Mode, Seen
<1>3. ASSUME NEW v \in Values, CloseValue(v)
      PROVE  Ledger!LedgerNext
  <2>1. v \in open /\ open' = open \ {v} /\ lost' = lost
    BY <1>3 DEF CloseValue, Decref
  <2>2. Ledger!Close(v)
    BY <1>1, <1>2, <2>1 DEF Ledger!Close
  <2> QED
    BY <2>2 DEF Ledger!LedgerNext
<1>4. ASSUME NEW v \in Values, CloseValueFails(v)
      PROVE  Ledger!LedgerNext
  <2>1. v \in open /\ open' = open \ {v} /\ lost' = lost \cup {v}
    BY <1>4 DEF CloseValueFails, Decref
  <2>2. Ledger!CloseAndMislay(v)
    BY <1>1, <1>2, <2>1 DEF Ledger!CloseAndMislay
  <2> QED
    BY <2>2 DEF Ledger!LedgerNext
<1>5. CASE (\E e \in Evaluators : CloseEvaluator(e)) \/ CloseContext
  <2>1. open' = open /\ lost' = lost
    BY <1>5 DEF CloseEvaluator, CloseContext
  <2> QED
    BY <1>1, <1>2, <2>1, Stutter
<1> QED
  BY <1>3, <1>4, <1>5

\* Every step of a method or of a caller is a step of the ledger, or none.
LEMMA StepRefines == IInv /\ Made /\ [Next]_vars => [Ledger!LedgerNext]_(Ledger!ledgerVars)
<1> SUFFICES ASSUME IInv, Made, [Next]_vars PROVE [Ledger!LedgerNext]_(Ledger!ledgerVars)
  OBVIOUS
<1>1. CASE UNCHANGED vars
  <2>1. Seen(open)' = Seen(open) /\ Seen(lost)' = Seen(lost) /\ Mode' = Mode /\ reply' = reply
    BY <1>1 DEF vars, Seen, Mode
  <2> QED
    BY <2>1, Stutter
<1>2. ASSUME NEW m \in Methods, NEW e \in Evaluators \cup {Unowned}, NEW args \in SUBSET Values,
             Begin(m, e, args)
      PROVE  [Ledger!LedgerNext]_(Ledger!ledgerVars)
  BY <1>2, BeginRefines
<1>3. CASE CallSucceeds \/ (\E v \in Values : CreateValue(v)) \/ TypeMismatch \/ CallFails
  BY <1>3, RawRefines
<1>4. CASE Release \/ Convert
  BY <1>4, FailureRefines
<1>5. CASE \/ \E v \in Values : CloseValue(v) \/ CloseValueFails(v)
           \/ \E e \in Evaluators : CloseEvaluator(e)
           \/ CloseContext
  BY <1>5, CloseRefines
<1> QED
  BY <1>1, <1>2, <1>3, <1>4, <1>5 DEF Next

\* Seen by its caller a method is atomic: a method that makes a Value delivers exactly
\* one when it succeeds, none when it fails, leaves everybody else's Values alone, and
\* a reference is mislaid only where Nix refuses to drop it.  This is the method the
\* nested calls of ValueScopes obtain their Values from.
THEOREM MethodsImplementLedger == Spec => ImplementsValueLedger
<1>1. Init => IInv /\ Made /\ Ledger!LedgerInit
  BY InitGivesIInv, InitRefines
<1>2. IInv /\ Made /\ [Next]_vars => (IInv /\ Made)'
  BY StepKeepsIInv, MadeStep
<1>3. IInv /\ Made /\ [Next]_vars => [Ledger!LedgerNext]_(Ledger!ledgerVars)
  BY StepRefines
<1> QED
  BY <1>1, <1>2, <1>3, PTL DEF Spec, ImplementsValueLedger, Ledger!LedgerSpec

=============================================================================
