-------------------------- MODULE StorePathsProofs --------------------------
(***************************************************************************)
(* Proofs about StorePaths for any number of paths.                        *)
(*                                                                         *)
(* The invariant accounts for every native object: at each step of a call  *)
(* the live objects are exactly those the step's position says (Account),  *)
(* and the counters of the three loops agree with it (Progress).           *)
(***************************************************************************)
EXTENDS StorePaths, TLAPS

\* The objects a call holds at its current step.
Expected ==
    Inputs
      \cup (IF pc = "wrapInput" THEN {Input(parsed + 1)} ELSE {})
      \cup (IF op \in Collecting /\ pc \in {"collect", "clone", "wrap", "root"} THEN ArrayObjects ELSE {})
      \cup Owned
      \cup (IF pc = "wrap" THEN {Clone(wrapped + 1)} ELSE {})

Account ==
    IF pc # "done" THEN live = Expected
    ELSE \/ live = {}
         \/ /\ live = {Clone(wrapped + 1)}
            /\ wrapped < reported
            /\ op \in Dropping
            /\ outcome = "error"

\* How far the loops are: over the inputs, in the callback, over the elements,
\* over the wrappers.
Progress ==
    /\ pc \in {"parse", "wrapInput"} =>
           calls = 0 /\ len = 0 /\ wrapped = 0 /\ made = 0 /\ ~failed
    /\ pc = "wrapInput" => parsed < given
    /\ pc \in {"collect", "clone", "root"} => op \in Collecting
    /\ pc = "collect" => wrapped = 0 /\ made = 0 /\ (~failed => len = calls)
    /\ pc \in {"clone", "root"} => len = reported
    /\ pc = "wrap" =>
           /\ wrapped < reported
           /\ op \in Collecting \cup Single
           /\ op # "CollectGarbage"
           /\ op \in Collecting => len = reported
    /\ pc = "root" => op = "FindRoots"
    /\ op \in Single => reported = 1 /\ len = 0
    /\ op \in Commands => reported = 0
    /\ op = "CollectGarbage" => wrapped = 0
    /\ op = "FindRoots" => (IF pc = "root" THEN wrapped = made + 1 ELSE made = wrapped \/ pc = "done")
    /\ op \notin Listing => made <= wrapped
    /\ pc \in {"describe", "held"} => wrapped = reported /\ op \notin Listing

\* What the caller has while the call runs and once it is over.
Results ==
    /\ pc # "done" <=> outcome = "none"
    /\ outcome = "ok" => result = reported
    /\ outcome # "ok" => result = 0

IInv == TypeOK /\ Account /\ Progress /\ Results

-----------------------------------------------------------------------------

\* The counters have their types and follow the loops, whatever objects exist.
Counters ==
    /\ pc \in Steps
    /\ op \in Operations
    /\ given \in 0 .. MaxPaths
    /\ parsed \in 0 .. given
    /\ reported \in 0 .. MaxPaths
    /\ calls \in 0 .. reported
    /\ len \in 0 .. calls
    /\ failed \in BOOLEAN
    /\ wrapped \in 0 .. reported
    /\ made \in 0 .. reported
    /\ result \in 0 .. reported
    /\ outcome \in {"none", "ok", "error"}

\* Every step of the operations keeps the counters and the results in order.
LEMMA CountersStep ==
    ASSUME Counters, Progress, Results, [Next]_vars
    PROVE  Counters' /\ Progress' /\ Results'
<1> USE MaxPathsAssumption
    DEF Counters, Progress, Results, Steps, Operations, Collecting, Callbacks, Single, Commands,
        Listing, Dropping
<1>1. CASE Refuse
  BY <1>1 DEF Refuse, Abort
<1>2. CASE ParseInput
  BY <1>2 DEF ParseInput, Go
<1>3. CASE ParseFails
  BY <1>3 DEF ParseFails, Abort
<1>4. CASE WrapInput
  BY <1>4 DEF WrapInput, Go
<1>5. CASE WrapInputFails
  BY <1>5 DEF WrapInputFails, Abort
<1>6. CASE NativeCall
  BY <1>6 DEF NativeCall, Ready, Go
<1>7. CASE NativeCallFails
  BY <1>7 DEF NativeCallFails, Ready, Abort
<1>8. CASE RealiseOutput
  BY <1>8 DEF RealiseOutput, TakeOne, Ready, Go
<1>9. CASE PathFromHash
  BY <1>9 DEF PathFromHash, TakeOne, Ready, Go
<1>10. CASE DerivationFromPath
  BY <1>10 DEF DerivationFromPath, TakeOne, Ready, Go
<1>11. CASE AddRoot
  BY <1>11 DEF AddRoot, Ready, Return
<1>12. CASE Copy
  BY <1>12 DEF Copy, Ready, Return
<1>13. CASE Append
  BY <1>13 DEF Append, Go
<1>14. CASE AppendFails
  BY <1>14 DEF AppendFails, Go
<1>15. CASE AppendSkipped
  BY <1>15 DEF AppendSkipped, Go
<1>16. CASE Collected
  BY <1>16 DEF Collected, Usable, Go
<1>17. CASE CollectFails
  BY <1>17 DEF CollectFails, Abort
<1>18. CASE CloneElement
  BY <1>18 DEF CloneElement, MoreElements, Taken, Go
<1>19. CASE ReadGCPath
  BY <1>19 DEF ReadGCPath, MoreElements, Taken, Go
<1>20. CASE CloneFails
  BY <1>20 DEF CloneFails, MoreElements, Taken, Abort
<1>21. CASE Wrap
  BY <1>21 DEF Wrap, AfterWrap, Go
<1>22. CASE NewDerivation
  BY <1>22 DEF NewDerivation, AfterWrap, Go
<1>23. CASE WrapOneFails
  BY <1>23 DEF WrapOneFails, Abort
<1>24. CASE NewDerivationFails
  BY <1>24 DEF NewDerivationFails, Abort
<1>25. CASE WrapFails
  BY <1>25 DEF WrapFails, Abort
<1>26. CASE RootFails
  BY <1>26 DEF RootFails, Abort
<1>27. CASE ListRoot
  BY <1>27 DEF ListRoot, Go
<1>28. CASE Converted
  BY <1>28 DEF Converted, MoreElements, Taken, Go
<1>29. CASE Listed
  BY <1>29 DEF Listed, MoreElements, Taken, Return
<1>30. CASE Describe
  BY <1>30 DEF Describe, Go
<1>31. CASE DescribeFails
  BY <1>31 DEF DescribeFails, Abort
<1>32. CASE Finish
  BY <1>32 DEF Finish, Return
<1>33. CASE CloseClosure
  BY <1>33 DEF CloseClosure, CloseKept, Return
<1>34. CASE CloseRealisedString
  BY <1>34 DEF CloseRealisedString, CloseKept, Return
<1>35. CASE ClosePath
  BY <1>35 DEF ClosePath, CloseKept, Return
<1>36. CASE CloseDerivation
  BY <1>36 DEF CloseDerivation, CloseKept, Return
<1>37. CASE UNCHANGED vars
  BY <1>37 DEF vars
<1> QED
  BY <1>1, <1>2, <1>3, <1>4, <1>5, <1>6, <1>7, <1>8, <1>9, <1>10, <1>11, <1>12,
     <1>13, <1>14, <1>15, <1>16, <1>17, <1>18, <1>19, <1>20, <1>21, <1>22, <1>23,
     <1>24, <1>25, <1>26, <1>27, <1>28, <1>29, <1>30, <1>31, <1>32, <1>33, <1>34,
     <1>35, <1>36, <1>37
     DEF Next

\* Every step keeps the account of the native objects, and an operation that
\* ends leaves at most the one clone behind.
LEMMA AccountStep ==
    ASSUME Counters, Progress, Results, Account, [Next]_vars
    PROVE  Account'
<1> USE MaxPathsAssumption
    DEF Counters, Progress, Results, Account, Expected, Steps, Operations, Collecting, Callbacks,
        Single, Commands, Listing, Dropping, Inputs, Input, Array, Element, Clone, ArrayObjects,
        Owned
<1>1. CASE Refuse
  BY <1>1 DEF Refuse, Abort
<1>2. CASE ParseInput
  BY <1>2 DEF ParseInput, Go
<1>3. CASE ParseFails
  BY <1>3 DEF ParseFails, Abort
<1>4. CASE WrapInput
  BY <1>4 DEF WrapInput, Go
<1>5. CASE WrapInputFails
  BY <1>5 DEF WrapInputFails, Abort
<1>6. CASE NativeCall
  BY <1>6 DEF NativeCall, Ready, Go
<1>7. CASE NativeCallFails
  BY <1>7 DEF NativeCallFails, Ready, Abort
<1>8. CASE RealiseOutput
  BY <1>8 DEF RealiseOutput, TakeOne, Ready, Go
<1>9. CASE PathFromHash
  BY <1>9 DEF PathFromHash, TakeOne, Ready, Go
<1>10. CASE DerivationFromPath
  BY <1>10 DEF DerivationFromPath, TakeOne, Ready, Go
<1>11. CASE AddRoot
  BY <1>11 DEF AddRoot, Ready, Return
<1>12. CASE Copy
  BY <1>12 DEF Copy, Ready, Return
<1>13. CASE Append
  BY <1>13 DEF Append, Go
<1>14. CASE AppendFails
  BY <1>14 DEF AppendFails, Go
<1>15. CASE AppendSkipped
  BY <1>15 DEF AppendSkipped, Go
<1>16. CASE Collected
  BY <1>16 DEF Collected, Usable, Go
<1>17. CASE CollectFails
  BY <1>17 DEF CollectFails, Abort
<1>18. CASE CloneElement
  BY <1>18 DEF CloneElement, MoreElements, Taken, Go
<1>19. CASE ReadGCPath
  BY <1>19 DEF ReadGCPath, MoreElements, Taken, Go
<1>20. CASE CloneFails
  BY <1>20 DEF CloneFails, MoreElements, Taken, Abort
<1>21. CASE Wrap
  BY <1>21 DEF Wrap, AfterWrap, Go
<1>22. CASE NewDerivation
  BY <1>22 DEF NewDerivation, AfterWrap, Go
<1>23. CASE WrapOneFails
  BY <1>23 DEF WrapOneFails, Abort
<1>24. CASE NewDerivationFails
  BY <1>24 DEF NewDerivationFails, Abort
<1>25. CASE WrapFails
  BY <1>25 DEF WrapFails, Abort
<1>26. CASE RootFails
  BY <1>26 DEF RootFails, Abort
<1>27. CASE ListRoot
  BY <1>27 DEF ListRoot, Go
<1>28. CASE Converted
  BY <1>28 DEF Converted, MoreElements, Taken, Go
<1>29. CASE Listed
  BY <1>29 DEF Listed, MoreElements, Taken, Return
<1>30. CASE Describe
  BY <1>30 DEF Describe, Go
<1>31. CASE DescribeFails
  BY <1>31 DEF DescribeFails, Abort
<1>32. CASE Finish
  BY <1>32 DEF Finish, Return
<1>33. CASE CloseClosure
  BY <1>33 DEF CloseClosure, CloseKept, Return
<1>34. CASE CloseRealisedString
  BY <1>34 DEF CloseRealisedString, CloseKept, Return
<1>35. CASE ClosePath
  BY <1>35 DEF ClosePath, CloseKept, Return
<1>36. CASE CloseDerivation
  BY <1>36 DEF CloseDerivation, CloseKept, Return
<1>37. CASE UNCHANGED vars
  BY <1>37 DEF vars
<1> QED
  BY <1>1, <1>2, <1>3, <1>4, <1>5, <1>6, <1>7, <1>8, <1>9, <1>10, <1>11, <1>12,
     <1>13, <1>14, <1>15, <1>16, <1>17, <1>18, <1>19, <1>20, <1>21, <1>22, <1>23,
     <1>24, <1>25, <1>26, <1>27, <1>28, <1>29, <1>30, <1>31, <1>32, <1>33, <1>34,
     <1>35, <1>36, <1>37
     DEF Next

\* The native objects are among those the model names.
LEMMA LiveObjects ==
    ASSUME Counters, Progress, Account
    PROVE  live \subseteq Objects
BY MaxPathsAssumption
   DEF Counters, Progress, Account, Expected, Operations, Collecting, Callbacks, Single, Commands,
       Listing, Dropping, Objects, Inputs, Input, Array, Element, Clone, ArrayObjects, Owned

\* The counters and the objects together are the type invariant.
LEMMA TypeParts == TypeOK <=> Counters /\ live \subseteq Objects
BY DEF TypeOK, Counters

\* A call starts with no native object and all its counters at zero.
LEMMA InitGivesIInv == Init => IInv
<1> SUFFICES ASSUME Init PROVE IInv
  OBVIOUS
<1> USE DEF Operations, Collecting, Callbacks, Single, Commands, Listing
<1>1. given \in 0 .. MaxPaths /\ reported \in 0 .. MaxPaths
  BY MaxPathsAssumption DEF Init
<1>2. failed \in BOOLEAN
  BY Zenon DEF Init
<1>3. /\ parsed \in 0 .. given
      /\ calls \in 0 .. reported
      /\ len \in 0 .. calls
      /\ wrapped \in 0 .. reported
      /\ made \in 0 .. reported
      /\ result \in 0 .. reported
  BY <1>1, MaxPathsAssumption DEF Init
<1>4. pc \in Steps /\ op \in Operations /\ outcome \in {"none", "ok", "error"}
  BY DEF Init, Steps
<1>5. Counters
  BY <1>1, <1>2, <1>3, <1>4 DEF Counters
<1>6. Progress
  BY DEF Init, Progress
<1>7. Results
  BY DEF Init, Results
<1>8. Owned = {} /\ Inputs = {}
  BY DEF Init, Owned, Inputs
<1>9. Account
  BY <1>8 DEF Init, Account, Expected
<1> QED
  BY <1>5, <1>6, <1>7, <1>9, LiveObjects, TypeParts DEF IInv

\* No step of any operation, and no failure, breaks the invariant.
LEMMA StepKeepsIInv == IInv /\ [Next]_vars => IInv'
<1> SUFFICES ASSUME IInv, [Next]_vars PROVE IInv'
  OBVIOUS
<1>1. Counters /\ Progress /\ Results /\ Account
  BY TypeParts DEF IInv
<1>2. Counters' /\ Progress' /\ Results'
  BY <1>1, CountersStep
<1>3. Account'
  BY <1>1, AccountStep
<1>4. (live \subseteq Objects)'
  BY <1>2, <1>3, LiveObjects, PTL
<1>5. TypeOK'
  BY <1>2, <1>4, TypeParts, PTL
<1> QED
  BY <1>2, <1>3, <1>5 DEF IInv

\* The invariant holds in every state of every operation.
THEOREM StoreInvariance == Spec => []IInv
BY InitGivesIInv, StepKeepsIInv, PTL DEF Spec

-----------------------------------------------------------------------------

\* The counters and the set of native objects always have their types.
THEOREM StoreTypeCorrect == Spec => []TypeOK
<1>1. IInv => TypeOK
  BY DEF IInv
<1> QED
  BY <1>1, StoreInvariance, PTL

\* However many paths Nix reports and whichever step fails, the caller gets all
\* of them or none.
THEOREM NoPartialResult == Spec => []AllOrNothing
<1>1. IInv => AllOrNothing
  BY DEF IInv, Progress, Results, AllOrNothing
<1> QED
  BY <1>1, StoreInvariance, PTL

\* The inputs exist while Nix reads them, elements are cloned only while the
\* array exists, and wrappers are read only while they own their object.
THEOREM NoReadAfterFree == Spec => []ReadsLiveObjects
<1>1. IInv => ReadsLiveObjects
  BY DEF IInv, Account, Expected, Progress, ReadsLiveObjects
<1> QED
  BY <1>1, StoreInvariance, PTL

\* A finished call has released everything it created but, at most, the one
\* clone that storepath.New refused inside convertRealiseResults,
\* convertClosurePaths or RealiseString: the leak is that clone, never more, and
\* no other operation has it.
THEOREM LeaksOneCloneAtMost == Spec => []AtMostOneCloneRemains
<1>1. IInv => AtMostOneCloneRemains
  BY DEF IInv, Account, AtMostOneCloneRemains
<1> QED
  BY <1>1, StoreInvariance, PTL
=============================================================================
