---------------------------- MODULE FlakeNewProofs ----------------------------
(***************************************************************************)
(* Proofs about FlakeNew for any number of input overrides.                *)
(*                                                                         *)
(* OneFreePerObject is not inductive: a new object keeps the deferred      *)
(* frees apart only if it is not among them yet, which takes an account of *)
(* what each step has created (Created).  OnlyTheFlakeRemains needs to     *)
(* know what err holds wherever the locked flake exists (Judged), and      *)
(* LockedWithAllOptions how far the options have come (Applied).           *)
(***************************************************************************)
EXTENDS FlakeNew, FunctionTheorems, SequenceTheorems, FiniteSetTheorems, TLAPS

Leaving == {"unwind", "done"}
AfterLock == {"lockJSON", "borrowStore", "fingerprint"}

\* The named objects that may exist when a step is due.
CreatedBefore ==
    LET flags == {"parseFlags"}
        references == {"parseFlags", "result", "ref"}
        locking == {"parseFlags", "result", "ref", "lockFlags"}
    IN  [borrow |-> {}, parseFlags |-> {}, baseDirectory |-> flags, reference |-> flags,
         lockFlags |-> references, mode |-> locking, referenceLock |-> locking,
         override |-> locking, addOverride |-> locking, lock |-> locking]

\* The objects created so far, until the function leaves: those of an override exist
\* only once it is being added.
Created ==
    pc \notin Leaving =>
        /\ pc \notin AfterLock =>
              \A x \in live : x[2] = 0 => x[1] \in CreatedBefore[pc]
        /\ pc \in AfterLock => Locked \in live
        /\ \A x \in live : x[2] # 0 =>
              \/ <<"override", x[2]>> \in applied
              \/ pc = "addOverride" /\ x[2] = Overrides + 1

\* The options the flags have received when a step is due.
Applied ==
    /\ pc \in {"borrow", "parseFlags", "baseDirectory", "reference", "lockFlags", "mode"}
          => applied = {}
    /\ pc = "referenceLock" => applied = {<<"mode", 0>>}
    /\ pc \in {"override", "addOverride"} =>
          \E n \in 0 .. cfg.overrides :
              /\ pc = "addOverride" => n < cfg.overrides
              /\ applied = {<<"mode", 0>>}
                             \cup (IF cfg.referenceLock THEN {<<"referenceLock", 0>>} ELSE {})
                             \cup ({"override"} \X (1 .. n))
    /\ pc \in {"lock"} \cup AfterLock => applied = Wanted

\* What err and the outcome are, and what the deferred frees will leave.
Judged ==
    /\ pc \notin Leaving => err = "nil" /\ outcome = "none" /\ Range(deferred) = live
    /\ pc \in Leaving =>
        /\ live = Range(deferred) \cup (IF outcome = "flake" THEN {Locked} ELSE {})
        /\ outcome = "flake" => err = "nil"
        /\ outcome = "error" /\ Locked \in live => NotNil(err)
        /\ outcome # "none"
    /\ pc = "done" => deferred = <<>>

FlakeInv ==
    /\ TypeOK
    /\ IsInjective(deferred)
    /\ Created
    /\ Applied
    /\ Judged
    /\ LockedWithAllOptions

-----------------------------------------------------------------------------
(* Deferred calls and counters *)

\* Options of which n are overrides.
LEMMA OverridesCount ==
    ASSUME NEW a, NEW n \in Nat, {x \in a : x[1] = "override"} = {"override"} \X (1 .. n)
    PROVE  Cardinality({x \in a : x[1] = "override"}) = n
<1> DEFINE f == [i \in 1 .. n |-> <<"override", i>>]
<1>1. f \in Bijection(1 .. n, {"override"} \X (1 .. n))
  <2>1. f \in [1 .. n -> {"override"} \X (1 .. n)]
    OBVIOUS
  <2>2. \A x, y \in 1 .. n : f[x] = f[y] => x = y
    OBVIOUS
  <2>3. \A t \in {"override"} \X (1 .. n) : \E i \in 1 .. n : f[i] = t
    OBVIOUS
  <2> HIDE DEF f
  <2> QED
    BY <2>1, <2>2, <2>3, Fun_IsBij
<1>2. ExistsBijection(1 .. n, {"override"} \X (1 .. n))
    BY <1>1 DEF ExistsBijection
<1>3. IsFiniteSet(1 .. n) /\ Cardinality(1 .. n) = n
    BY FS_Interval
<1> QED
    BY <1>2, <1>3, FS_Bijection

\* Deferring the frees of new objects.
LEMMA DeferNew ==
    ASSUME NEW S, NEW s \in Seq(S), NEW t \in Seq(S), IsInjective(s), IsInjective(t),
           Range(s) \cap Range(t) = {}
    PROVE  /\ s \o t \in Seq(S)
           /\ IsInjective(s \o t)
           /\ Range(s \o t) = Range(s) \cup Range(t)
<1>1. s \o t \in Seq(S) /\ Range(s \o t) = Range(s) \cup Range(t)
    BY ConcatProperties, RangeConcatenation
<1>2. DOMAIN s = 1 .. Len(s) /\ DOMAIN t = 1 .. Len(t) /\ Len(s) \in Nat /\ Len(t) \in Nat
    BY LenProperties
<1>3. DOMAIN (s \o t) = 1 .. (Len(s) + Len(t))
    BY <1>1, ConcatProperties, LenProperties
<1>4. \A i \in 1 .. (Len(s) + Len(t)) :
        (s \o t)[i] = IF i <= Len(s) THEN s[i] ELSE t[i - Len(s)]
    BY ConcatProperties
<1>5. \A i \in 1 .. Len(s) : \A j \in 1 .. Len(t) : s[i] # t[j]
    BY <1>2 DEF Range
<1>6. ASSUME NEW a \in 1 .. (Len(s) + Len(t)), NEW b \in 1 .. (Len(s) + Len(t)),
             (s \o t)[a] = (s \o t)[b]
      PROVE  a = b
  <2>1. CASE a <= Len(s) /\ b <= Len(s)
    BY <2>1, <1>2, <1>4, <1>6 DEF IsInjective
  <2>2. CASE a > Len(s) /\ b > Len(s)
    <3>1. a - Len(s) \in DOMAIN t /\ b - Len(s) \in DOMAIN t
      BY <2>2, <1>2
    <3>2. t[a - Len(s)] = t[b - Len(s)]
      BY <2>2, <1>2, <1>4, <1>6
    <3>3. a - Len(s) = b - Len(s)
      BY <3>1, <3>2 DEF IsInjective
    <3> QED
      BY <3>3, <1>2
  <2>3. CASE a <= Len(s) /\ b > Len(s)
    BY <2>3, <1>2, <1>4, <1>5, <1>6
  <2>4. CASE a > Len(s) /\ b <= Len(s)
    BY <2>4, <1>2, <1>4, <1>5, <1>6
  <2> QED
    BY <2>1, <2>2, <2>3, <2>4, <1>2
<1> QED
    BY <1>1, <1>3, <1>6 DEF IsInjective

\* Running the last deferred call.
LEMMA RunLast ==
    ASSUME NEW S, NEW s \in Seq(S), s # <<>>, IsInjective(s)
    PROVE  /\ Front(s) \in Seq(S)
           /\ IsInjective(Front(s))
           /\ Range(Front(s)) = Range(s) \ {Last(s)}
           /\ Last(s) \in Range(s)
<1>1. Len(s) \in Nat \ {0} /\ DOMAIN s = 1 .. Len(s)
    BY EmptySeq, LenProperties
<1>2. \A i \in 1 .. (Len(s) - 1) : s[i] \in S
    BY <1>1, ElementOfSeq
<1>3. /\ Front(s) \in Seq(S)
      /\ Len(Front(s)) = Len(s) - 1
      /\ \A i \in 1 .. (Len(s) - 1) : Front(s)[i] = s[i]
    BY <1>1, <1>2, SubSeqProperties DEF Front
<1>4. DOMAIN Front(s) = 1 .. (Len(s) - 1)
    BY <1>3, LenProperties
<1>5. Last(s) = s[Len(s)] /\ Last(s) \in Range(s)
    BY <1>1 DEF Last, Range
<1>6. IsInjective(Front(s))
    BY <1>1, <1>3, <1>4 DEF IsInjective
<1>7. \A x : x \in Range(Front(s)) <=> x \in Range(s) \ {Last(s)}
    BY <1>1, <1>3, <1>4, <1>5 DEF Range, IsInjective
<1> QED
    BY <1>3, <1>5, <1>6, <1>7

-----------------------------------------------------------------------------
(* Steps *)

\* Before the first step there are no objects.
LEMMA InitEstablishes == Init => FlakeInv
<1> SUFFICES ASSUME Init PROVE FlakeInv
    OBVIOUS
<1>1. TypeOK
    BY DEF Init, TypeOK, Steps
<1>2. Range(deferred) = {} /\ IsInjective(deferred)
    BY DEF Init, Range, IsInjective
<1> QED
    BY <1>1, <1>2
    DEF Init, FlakeInv, Created, Applied, Judged, LockedWithAllOptions, Leaving, AfterLock

\* The number of overrides is within the bound.
LEMMA ConfigOverrides ==
    ASSUME FlakeInv
    PROVE  cfg.overrides \in Nat /\ cfg.overrides <= MaxOverrides
<1>1. cfg \in ConfigType
    BY DEF FlakeInv, TypeOK
<1>2. cfg.overrides \in 0 .. MaxOverrides
    BY <1>1 DEF ConfigType
<1> QED
    BY <1>2, MaxOverridesAssumption

\* There is no locked flake before raw.FlakeLock.
LEMMA LockedLate ==
    ASSUME FlakeInv, pc \notin Leaving
    PROVE  Locked \in live => pc \in AfterLock
<1>1. \A step \in Steps \ (Leaving \cup AfterLock) : "locked" \notin CreatedBefore[step]
    BY DEF Steps, Leaving, AfterLock, CreatedBefore
<1>2. Locked[1] = "locked" /\ Locked[2] = 0
    BY DEF Locked, Object
<1> QED
    BY <1>1, <1>2 DEF FlakeInv, Created, TypeOK

\* Returning an error, at any step, with an err that will free the locked flake if
\* there is one.
LEMMA ReturnErrorKeeps ==
    ASSUME FlakeInv, pc \notin Leaving, NEW e \in {"nil", "typed nil", "error"},
           ReturnError(e), UNCHANGED found, pc \in AfterLock => NotNil(e)
    PROVE  FlakeInv'
<1> USE DEF FlakeInv, ReturnError
<1>1. TypeOK' /\ IsInjective(deferred)'
    BY DEF TypeOK, Steps
<1>2. Created' /\ Applied'
    BY DEF Created, Applied, Leaving, AfterLock
<1>3. Locked \in live => pc \in AfterLock
    BY LockedLate
<1>4. Judged'
    BY <1>3 DEF Judged, NotNil, Leaving
<1>5. LockedWithAllOptions'
    BY DEF LockedWithAllOptions, Wanted
<1> QED
    BY <1>1, <1>2, <1>4, <1>5

\* Going on to another step with new objects.
LEMMA ContinueKeeps ==
    ASSUME FlakeInv, pc \notin Leaving, NEW next \in Steps \ Leaving, NEW new \in Seq(Objects),
           IsInjective(new), Range(new) \cap live = {}, Continue(next, new)
    PROVE  /\ live' \in SUBSET Objects /\ deferred' \in Seq(Objects)
           /\ IsInjective(deferred')
           /\ Judged'
<1> USE DEF FlakeInv, Continue
<1>1. deferred \in Seq(Objects) /\ Range(deferred) = live
    BY DEF TypeOK, Judged
<1>2. /\ deferred' \in Seq(Objects) /\ IsInjective(deferred')
      /\ Range(deferred') = Range(deferred) \cup Range(new)
    BY <1>1, DeferNew
<1>3. live' \in SUBSET Objects
    BY RangeOfSeq DEF TypeOK
<1>4. Judged'
    BY <1>1, <1>2 DEF Judged, Leaving
<1> QED
    BY <1>2, <1>3, <1>4

\* Nothing new.
LEMMA NothingNew ==
    <<>> \in Seq(Objects) /\ IsInjective(<<>>) /\ Range(<<>>) = {}
BY DEF IsInjective, Range

\* A step that creates nothing: the objects are those of before.
LEMMA PassKeeps ==
    ASSUME FlakeInv, pc \notin Leaving, NEW next \in Steps \ Leaving, Continue(next, <<>>),
           UNCHANGED found, applied \subseteq applied',
           applied' \subseteq {"mode", "referenceLock", "override"} \X (0 .. MaxOverrides),
           next \in AfterLock <=> pc \in AfterLock,
           pc \notin AfterLock => CreatedBefore[pc] \subseteq CreatedBefore[next],
           pc # "addOverride", next # "addOverride", Applied', pc \in AfterLock => applied' = applied
    PROVE  FlakeInv'
<1> USE DEF FlakeInv
<1>1. /\ live' \in SUBSET Objects /\ deferred' \in Seq(Objects) /\ IsInjective(deferred')
      /\ Judged'
    BY ContinueKeeps, NothingNew
<1>2. live' = live /\ pc' = next /\ UNCHANGED <<cfg, err, outcome>>
    BY NothingNew DEF Continue
<1>3. TypeOK'
    BY <1>1, <1>2 DEF TypeOK
<1>4. Created'
    BY <1>2 DEF Created
<1>5. Locked \in live => pc \in AfterLock
    BY LockedLate
<1>6. LockedWithAllOptions'
    BY <1>2, <1>5 DEF LockedWithAllOptions, Wanted
<1> QED
    BY <1>1, <1>3, <1>4, <1>6

\* The steps that create nothing, before and after the overrides.
LEMMA PlainKeeps ==
    ASSUME FlakeInv,
           \/ Borrow \/ SetBaseDirectory \/ ApplyLockMode \/ SetReferenceLock
           \/ GetLockJSON \/ BorrowStore
    PROVE  FlakeInv'
<1>1. CASE Borrow
  <2>1. /\ pc = "borrow" /\ pc' = "parseFlags" /\ Continue("parseFlags", <<>>)
        /\ UNCHANGED <<cfg, found>> /\ applied' = applied
    BY <1>1 DEF Borrow, Continue
  <2>2. Applied'
    BY <2>1 DEF FlakeInv, Applied, Wanted, AfterLock, TypeOK, ConfigType
  <2>3. CreatedBefore["borrow"] \subseteq CreatedBefore["parseFlags"]
    BY DEF CreatedBefore
  <2> QED
    BY <2>1, <2>2, <2>3, PassKeeps DEF FlakeInv, TypeOK, Steps, Leaving, AfterLock
<1>2. CASE SetBaseDirectory
  <2>1. /\ pc = "baseDirectory" /\ pc' = "reference" /\ Continue("reference", <<>>)
        /\ UNCHANGED <<cfg, found>> /\ applied' = applied
    BY <1>2 DEF SetBaseDirectory, Continue
  <2>2. Applied'
    BY <2>1 DEF FlakeInv, Applied, Wanted, AfterLock, TypeOK, ConfigType
  <2>3. CreatedBefore["baseDirectory"] \subseteq CreatedBefore["reference"]
    BY DEF CreatedBefore
  <2> QED
    BY <2>1, <2>2, <2>3, PassKeeps DEF FlakeInv, TypeOK, Steps, Leaving, AfterLock
<1>3. CASE ApplyLockMode
  <2>1. /\ pc = "mode" /\ pc' = "referenceLock" /\ Continue("referenceLock", <<>>)
        /\ UNCHANGED <<cfg, found>> /\ applied' = applied \cup {<<"mode", 0>>}
    BY <1>3 DEF ApplyLockMode, Continue
  <2>2. Applied'
    BY <2>1 DEF FlakeInv, Applied, Wanted, AfterLock, TypeOK, ConfigType
  <2>3. CreatedBefore["mode"] \subseteq CreatedBefore["referenceLock"]
    BY DEF CreatedBefore
  <2>4. applied' \subseteq {"mode", "referenceLock", "override"} \X (0 .. MaxOverrides)
    <3>1. {<<"mode", 0>>, <<"referenceLock", 0>>}
             \subseteq {"mode", "referenceLock", "override"} \X (0 .. MaxOverrides)
      BY MaxOverridesAssumption
    <3>2. applied \subseteq {"mode", "referenceLock", "override"} \X (0 .. MaxOverrides)
      BY DEF FlakeInv, TypeOK
    <3> QED
      BY <2>1, <3>1, <3>2, Zenon
  <2> QED
    BY <2>1, <2>2, <2>3, <2>4, PassKeeps DEF Steps, Leaving, AfterLock
<1>4. CASE SetReferenceLock
  <2>1. /\ pc = "referenceLock" /\ pc' = "override" /\ Continue("override", <<>>)
        /\ UNCHANGED <<cfg, found>>
        /\ applied' = applied \cup (IF cfg.referenceLock THEN {<<"referenceLock", 0>>} ELSE {})
    BY <1>4 DEF SetReferenceLock, Continue
  <2>2. Applied'
    <3>1. {"override"} \X (1 .. 0) = {} /\ 0 \in 0 .. cfg.overrides
      BY ConfigOverrides
    <3> QED
      BY <2>1, <3>1 DEF FlakeInv, Applied, AfterLock
  <2>3. CreatedBefore["referenceLock"] \subseteq CreatedBefore["override"]
    BY DEF CreatedBefore
  <2>4. applied' \subseteq {"mode", "referenceLock", "override"} \X (0 .. MaxOverrides)
    <3>1. {<<"mode", 0>>, <<"referenceLock", 0>>}
             \subseteq {"mode", "referenceLock", "override"} \X (0 .. MaxOverrides)
      BY MaxOverridesAssumption
    <3>2. applied \subseteq {"mode", "referenceLock", "override"} \X (0 .. MaxOverrides)
      BY DEF FlakeInv, TypeOK
    <3> QED
      BY <2>1, <3>1, <3>2, Zenon
  <2> QED
    BY <2>1, <2>2, <2>3, <2>4, PassKeeps DEF Steps, Leaving, AfterLock
<1>5. CASE GetLockJSON
  <2>1. /\ pc = "lockJSON" /\ pc' = "borrowStore" /\ Continue("borrowStore", <<>>)
        /\ UNCHANGED <<cfg, found>> /\ applied' = applied
    BY <1>5 DEF GetLockJSON, Continue
  <2>2. Applied'
    BY <2>1 DEF FlakeInv, Applied, Wanted, AfterLock, TypeOK, ConfigType
  <2> QED
    BY <2>1, <2>2, PassKeeps DEF FlakeInv, TypeOK, Steps, Leaving, AfterLock
<1>6. CASE BorrowStore
  <2>1. /\ pc = "borrowStore" /\ pc' = "fingerprint" /\ Continue("fingerprint", <<>>)
        /\ UNCHANGED <<cfg, found>> /\ applied' = applied
    BY <1>6 DEF BorrowStore, Continue
  <2>2. Applied'
    BY <2>1 DEF FlakeInv, Applied, Wanted, AfterLock, TypeOK, ConfigType
  <2> QED
    BY <2>1, <2>2, PassKeeps DEF FlakeInv, TypeOK, Steps, Leaving, AfterLock
<1> QED
    BY <1>1, <1>2, <1>3, <1>4, <1>5, <1>6

\* The steps that fail before the flake is locked, and those that assign err.
LEMMA FailsKeeps ==
    ASSUME FlakeInv,
           \/ \E step \in Steps \ (Leaving \cup AfterLock) : Fails(step)
           \/ BorrowFails \/ GetLockJSONFails \/ BorrowStoreFails
    PROVE  FlakeInv'
<1>1. CASE \E step \in Steps \ (Leaving \cup AfterLock) : Fails(step)
    BY <1>1, ReturnErrorKeeps DEF Fails, FlakeInv, TypeOK
<1>2. CASE BorrowFails
    BY <1>2, ReturnErrorKeeps DEF BorrowFails, Leaving, AfterLock
<1>3. CASE GetLockJSONFails
    BY <1>3, ReturnErrorKeeps DEF GetLockJSONFails, Leaving, NotNil
<1>4. CASE BorrowStoreFails
    BY <1>4, ReturnErrorKeeps DEF BorrowStoreFails, Leaving, NotNil
<1> QED
    BY <1>1, <1>2, <1>3, <1>4

\* How many overrides have been added when the loop looks.
LEMMA LoopCounter ==
    ASSUME FlakeInv, pc \in {"override", "addOverride"}
    PROVE  /\ Overrides \in 0 .. cfg.overrides
           /\ pc = "addOverride" => Overrides < cfg.overrides
           /\ applied = {<<"mode", 0>>}
                          \cup (IF cfg.referenceLock THEN {<<"referenceLock", 0>>} ELSE {})
                          \cup ({"override"} \X (1 .. Overrides))
<1>1. PICK n \in 0 .. cfg.overrides :
        /\ pc = "addOverride" => n < cfg.overrides
        /\ applied = {<<"mode", 0>>}
                       \cup (IF cfg.referenceLock THEN {<<"referenceLock", 0>>} ELSE {})
                       \cup ({"override"} \X (1 .. n))
    BY DEF FlakeInv, Applied
<1>2. n \in Nat
    BY ConfigOverrides
<1>3. {x \in applied : x[1] = "override"} = {"override"} \X (1 .. n)
    BY <1>1
<1>4. Overrides = n
    BY <1>2, <1>3, OverridesCount DEF Overrides
<1> QED
    BY <1>1, <1>4

\* The objects of an override are new.
LEMMA ParseOverrideKeeps ==
    ASSUME FlakeInv, ParseOverride
    PROVE  FlakeInv'
<1> DEFINE i == Overrides + 1
           new == OverrideObjects(i)
<1> USE DEF FlakeInv
<1>1. /\ pc = "override" /\ pc' = "addOverride" /\ i \in 1 .. cfg.overrides
      /\ i \in 1 .. MaxOverrides
    BY LoopCounter, ConfigOverrides, MaxOverridesAssumption DEF ParseOverride, MoreOverrides
<1>2. new \in Seq(Objects) /\ IsInjective(new)
      /\ Range(new) = {<<"overrideResult", i>>, <<"overrideRef", i>>}
    BY <1>1 DEF OverrideObjects, Objects, IsInjective, Range
<1>3. <<"override", i>> \notin applied
    BY <1>1, LoopCounter
<1>4. Range(new) \cap live = {}
    BY <1>1, <1>2, <1>3 DEF Created, Leaving
<1>5. Continue("addOverride", new)
    BY <1>2 DEF ParseOverride, Continue
<1>6. /\ live' \in SUBSET Objects /\ deferred' \in Seq(Objects) /\ IsInjective(deferred')
      /\ Judged'
    BY <1>1, <1>2, <1>4, <1>5, ContinueKeeps DEF Steps, Leaving
<1>7. TypeOK'
    BY <1>1, <1>6 DEF ParseOverride, TypeOK, Steps
<1>8. Created'
  <2>1. Overrides' + 1 = i /\ applied' = applied
    BY DEF ParseOverride, Overrides
  <2>2. live' = live \cup {<<"overrideResult", i>>, <<"overrideRef", i>>}
    BY DEF ParseOverride
  <2>3. CreatedBefore["override"] = CreatedBefore["addOverride"]
    BY DEF CreatedBefore
  <2> QED
    BY <1>1, <2>1, <2>2, <2>3 DEF Created, Leaving, AfterLock
<1>9. Applied'
  <2>1. Overrides \in 0 .. cfg.overrides /\ Overrides < cfg.overrides
    BY <1>1, LoopCounter DEF ParseOverride, MoreOverrides
  <2>2. cfg' = cfg /\ applied' = applied
    BY DEF ParseOverride
  <2> QED
    BY <1>1, <2>1, <2>2, LoopCounter DEF Applied, AfterLock
<1>10. LockedWithAllOptions'
    BY <1>1, LockedLate DEF ParseOverride, LockedWithAllOptions, Leaving, AfterLock, Locked, Object
<1> QED
    BY <1>6, <1>7, <1>8, <1>9, <1>10

\* The next override is in the flags.
LEMMA AddInputOverrideKeeps ==
    ASSUME FlakeInv, AddInputOverride
    PROVE  FlakeInv'
<1> DEFINE i == Overrides + 1
<1> USE DEF FlakeInv
<1>1. /\ pc = "addOverride" /\ pc' = "override" /\ Continue("override", <<>>)
      /\ applied' = applied \cup {<<"override", i>>} /\ UNCHANGED <<cfg, found>>
    BY DEF AddInputOverride, Continue
<1>2. i \in 1 .. cfg.overrides /\ i \in 1 .. MaxOverrides
    BY <1>1, LoopCounter, ConfigOverrides, MaxOverridesAssumption
<1>3. /\ live' \in SUBSET Objects /\ deferred' \in Seq(Objects) /\ IsInjective(deferred')
      /\ Judged'
    BY <1>1, ContinueKeeps, NothingNew DEF Steps, Leaving
<1>4. live' = live
    BY <1>1, NothingNew DEF Continue
<1>5. TypeOK'
  <2>1. <<"override", i>> \in {"mode", "referenceLock", "override"} \X (0 .. MaxOverrides)
    BY <1>2
  <2> HIDE DEF i
  <2> QED
    BY <1>1, <1>3, <2>1 DEF TypeOK, Steps, Continue
<1>6. Created'
  <2>1. CreatedBefore["override"] = CreatedBefore["addOverride"]
    BY DEF CreatedBefore
  <2> QED
    BY <1>1, <1>4, <2>1 DEF Created, Leaving, AfterLock
<1>7. Applied'
  <2>1. 1 .. i = (1 .. Overrides) \cup {i}
    BY <1>1, LoopCounter
  <2>2. applied' = {<<"mode", 0>>}
                     \cup (IF cfg.referenceLock THEN {<<"referenceLock", 0>>} ELSE {})
                     \cup ({"override"} \X (1 .. i))
    BY <1>1, <2>1, LoopCounter
  <2> HIDE DEF i
  <2> QED
    BY <1>1, <1>2, <2>2 DEF Applied, AfterLock
<1>8. LockedWithAllOptions'
    BY <1>1, <1>4, LockedLate DEF LockedWithAllOptions, Leaving, AfterLock, Locked, Object
<1> QED
    BY <1>3, <1>5, <1>6, <1>7, <1>8

\* The loop ends when all the options are in the flags.
LEMMA OverridesDoneKeeps ==
    ASSUME FlakeInv, OverridesDone
    PROVE  FlakeInv'
<1>1. /\ pc = "override" /\ pc' = "lock" /\ Continue("lock", <<>>)
      /\ UNCHANGED <<cfg, applied, found>>
    BY DEF OverridesDone, Continue
<1>2. Overrides = cfg.overrides
    BY <1>1, LoopCounter, ConfigOverrides DEF OverridesDone, MoreOverrides
<1>3. Applied'
    BY <1>1, <1>2, LoopCounter DEF Applied, Wanted, AfterLock
<1>4. CreatedBefore["override"] = CreatedBefore["lock"]
    BY DEF CreatedBefore
<1> QED
    BY <1>1, <1>3, <1>4, PassKeeps DEF FlakeInv, TypeOK, Steps, Leaving, AfterLock

\* The steps that create named objects: the step after each, and what it creates.
Creating ==
    [parseFlags |-> [next |-> "baseDirectory", names |-> {"parseFlags"}],
     reference  |-> [next |-> "lockFlags", names |-> {"result", "ref"}],
     lockFlags  |-> [next |-> "mode", names |-> {"lockFlags"}],
     lock       |-> [next |-> "lockJSON", names |-> {"locked"}]]

\* A step that creates named objects, none of which exists yet.
LEMMA CreateKeeps ==
    ASSUME FlakeInv, NEW step \in DOMAIN Creating, pc = step, NEW new \in Seq(Objects),
           IsInjective(new), Range(new) = {Object(name) : name \in Creating[step].names},
           Continue(Creating[step].next, new), UNCHANGED <<applied, found>>
    PROVE  FlakeInv'
<1> DEFINE next == Creating[step].next
           names == Creating[step].names
<1> USE DEF FlakeInv
<1>1. /\ step \in Steps \ (Leaving \cup AfterLock) /\ next \in Steps \ Leaving
      /\ step # "addOverride" /\ next # "addOverride"
    BY DEF Creating, Steps, Leaving, AfterLock
<1>2. \A name \in names : name \notin CreatedBefore[step]
    BY DEF Creating, CreatedBefore
<1>3. next \notin AfterLock => CreatedBefore[next] = CreatedBefore[step] \cup names
    BY DEF Creating, CreatedBefore, AfterLock
<1>4. next \in AfterLock <=> step = "lock"
    BY DEF Creating, AfterLock
<1>5. "locked" \in names <=> step = "lock"
    BY DEF Creating
<1> HIDE DEF next, names
<1>6. \A x \in Range(new) : x[2] = 0 /\ x[1] \in names
    BY DEF Object, names
<1>7. Range(new) \cap live = {}
    BY <1>1, <1>2, <1>6 DEF Created
<1>8. pc' = next /\ live' = live \cup Range(new) /\ UNCHANGED <<cfg, err, outcome>>
    BY DEF Continue, next
<1>9. /\ live' \in SUBSET Objects /\ deferred' \in Seq(Objects) /\ IsInjective(deferred')
      /\ Judged'
    BY <1>1, <1>7, ContinueKeeps DEF next
<1>10. TypeOK'
    BY <1>1, <1>8, <1>9 DEF TypeOK
<1>11. Created'
  <2>1. next \notin AfterLock => \A x \in live' : x[2] = 0 => x[1] \in CreatedBefore[next]
    BY <1>1, <1>3, <1>6, <1>8 DEF Created
  <2>2. next \in AfterLock => Locked \in live'
    BY <1>4, <1>5, <1>8 DEF Locked, names
  <2>3. \A x \in live' : x[2] # 0 => <<"override", x[2]>> \in applied
    BY <1>1, <1>6, <1>8 DEF Created
  <2> QED
    BY <1>8, <2>1, <2>2, <2>3 DEF Created
<1>12. Applied'
    BY <1>8 DEF Applied, Wanted, AfterLock, Creating, next
<1>13. LockedWithAllOptions'
  <2>1. Locked \notin live
    BY <1>1, LockedLate
  <2>2. Locked \in live' => step = "lock"
    BY <1>5, <1>6, <1>8, <2>1 DEF Locked, Object
  <2> QED
    BY <1>8, <2>2 DEF LockedWithAllOptions, Applied, Wanted
<1> QED
    BY <1>9, <1>10, <1>11, <1>12, <1>13

\* The parse flags, the reference and its result, the lock flags, the locked flake.
LEMMA NewObjectKeeps ==
    ASSUME FlakeInv, ParseFlagsNew \/ ParseReference \/ LockFlagsNew \/ FlakeLock
    PROVE  FlakeInv'
<1>1. \A name \in {"parseFlags", "result", "ref", "lockFlags", "locked"} :
        Object(name) \in Objects
    BY DEF Objects
<1>2. \A x \in Objects :
        <<x>> \in Seq(Objects) /\ IsInjective(<<x>>) /\ Range(<<x>>) = {x}
    BY DEF IsInjective, Range
<1>3. \A x, y \in Objects : x # y =>
        <<x, y>> \in Seq(Objects) /\ IsInjective(<<x, y>>) /\ Range(<<x, y>>) = {x, y}
    BY DEF IsInjective, Range
<1>4. CASE ParseFlagsNew
  <2>1. pc = "parseFlags" /\ Continue("baseDirectory", <<Object("parseFlags")>>) /\ UNCHANGED <<applied, found>>
    BY <1>4 DEF ParseFlagsNew
  <2>2. /\ "parseFlags" \in DOMAIN Creating /\ Creating["parseFlags"].next = "baseDirectory"
        /\ {Object(name) : name \in Creating["parseFlags"].names} = {Object("parseFlags")}
    BY DEF Creating
  <2>3. /\ <<Object("parseFlags")>> \in Seq(Objects) /\ IsInjective(<<Object("parseFlags")>>)
        /\ Range(<<Object("parseFlags")>>) = {Object("parseFlags")}
    BY <1>1, <1>2
  <2> QED
    BY <2>1, <2>2, <2>3, CreateKeeps
<1>5. CASE ParseReference
  <2>1. pc = "reference" /\ Continue("lockFlags", <<Object("result"), Object("ref")>>) /\ UNCHANGED <<applied, found>>
    BY <1>5 DEF ParseReference
  <2>2. /\ "reference" \in DOMAIN Creating /\ Creating["reference"].next = "lockFlags"
        /\ {Object(name) : name \in Creating["reference"].names} = {Object("result"), Object("ref")}
    BY DEF Creating
  <2>3. Object("result") # Object("ref")
    BY DEF Object
  <2>4. /\ <<Object("result"), Object("ref")>> \in Seq(Objects) /\ IsInjective(<<Object("result"), Object("ref")>>)
        /\ Range(<<Object("result"), Object("ref")>>) = {Object("result"), Object("ref")}
    BY <1>1, <1>3, <2>3
  <2> QED
    BY <2>1, <2>2, <2>4, CreateKeeps
<1>6. CASE LockFlagsNew
  <2>1. pc = "lockFlags" /\ Continue("mode", <<Object("lockFlags")>>) /\ UNCHANGED <<applied, found>>
    BY <1>6 DEF LockFlagsNew
  <2>2. /\ "lockFlags" \in DOMAIN Creating /\ Creating["lockFlags"].next = "mode"
        /\ {Object(name) : name \in Creating["lockFlags"].names} = {Object("lockFlags")}
    BY DEF Creating
  <2>3. /\ <<Object("lockFlags")>> \in Seq(Objects) /\ IsInjective(<<Object("lockFlags")>>)
        /\ Range(<<Object("lockFlags")>>) = {Object("lockFlags")}
    BY <1>1, <1>2
  <2> QED
    BY <2>1, <2>2, <2>3, CreateKeeps
<1>7. CASE FlakeLock
  <2>1. pc = "lock" /\ Continue("lockJSON", <<Object("locked")>>) /\ UNCHANGED <<applied, found>>
    BY <1>7 DEF FlakeLock, Locked
  <2>2. /\ "lock" \in DOMAIN Creating /\ Creating["lock"].next = "lockJSON"
        /\ {Object(name) : name \in Creating["lock"].names} = {Object("locked")}
    BY DEF Creating
  <2>3. /\ <<Object("locked")>> \in Seq(Objects) /\ IsInjective(<<Object("locked")>>)
        /\ Range(<<Object("locked")>>) = {Object("locked")}
    BY <1>1, <1>2
  <2> QED
    BY <2>1, <2>2, <2>3, CreateKeeps
<1> QED
    BY <1>4, <1>5, <1>6, <1>7

\* A Flake is returned only with err nil, and the locked flake survives then.
LEMMA GetFingerprintKeeps ==
    ASSUME FlakeInv, GetFingerprint
    PROVE  FlakeInv'
<1> USE DEF FlakeInv
<1>1. /\ pc = "fingerprint" /\ pc' = "unwind" /\ UNCHANGED <<cfg, live, deferred, applied>>
      /\ found' \in {"value", "unavailable", "error"}
      /\ outcome' = IF NotNil(err') THEN "error" ELSE "flake"
    BY DEF GetFingerprint, FingerprintAnswers
<1>2. err' \in {"nil", "typed nil", "error"}
    BY <1>1 DEF GetFingerprint, TypeOK
<1>3. TypeOK'
    BY <1>1, <1>2 DEF TypeOK, Steps
<1>4. Locked \in live /\ Range(deferred) = live
    BY <1>1 DEF Created, Judged, Leaving, AfterLock
<1>5. Judged'
    BY <1>1, <1>4 DEF Judged, Leaving, NotNil
<1> QED
    BY <1>1, <1>3, <1>5 DEF Created, Applied, LockedWithAllOptions, Wanted, Leaving, AfterLock

\* A deferred call frees an object that is live, and no other call frees it.
LEMMA UnwindKeeps ==
    ASSUME FlakeInv, Unwind
    PROVE  FlakeInv'
<1> USE DEF FlakeInv
<1>1. pc = "unwind" /\ deferred # <<>> /\ UNCHANGED <<pc, cfg, applied, err, found, outcome>>
    BY DEF Unwind
<1>2. /\ deferred' \in Seq(Objects) /\ IsInjective(deferred')
      /\ Range(deferred') = Range(deferred) \ {Last(deferred)}
      /\ Last(deferred) \in Range(deferred)
    BY RunLast DEF Unwind, TypeOK
<1>3. live' = IF Last(deferred) # Locked \/ NotNil(err) THEN live \ {Last(deferred)} ELSE live
    BY DEF Unwind
<1>4. TypeOK'
    BY <1>1, <1>2, <1>3 DEF TypeOK
<1>5. Judged'
    BY <1>1, <1>2, <1>3 DEF Judged, Leaving, NotNil, TypeOK
<1>6. Created' /\ Applied' /\ LockedWithAllOptions'
    BY <1>1, <1>3 DEF Created, Applied, LockedWithAllOptions, Wanted, Leaving, AfterLock
<1> QED
    BY <1>2, <1>4, <1>5, <1>6

\* The function has returned.
LEMMA ReturnKeeps ==
    ASSUME FlakeInv, Return
    PROVE  FlakeInv'
BY DEF FlakeInv, Return, TypeOK, Steps, Created, Applied, Judged, LockedWithAllOptions, Wanted,
   Leaving, AfterLock

\* Every step keeps the account.
LEMMA StepPreserves == FlakeInv /\ [Next]_vars => FlakeInv'
<1> SUFFICES ASSUME FlakeInv, [Next]_vars PROVE FlakeInv'
    OBVIOUS
<1>1. CASE UNCHANGED vars
    BY <1>1
    DEF vars, FlakeInv, TypeOK, Created, Overrides, Applied, Judged, LockedWithAllOptions, Wanted
<1>2. CASE \/ Borrow \/ SetBaseDirectory \/ ApplyLockMode \/ SetReferenceLock
           \/ GetLockJSON \/ BorrowStore
    BY <1>2, PlainKeeps
<1>3. CASE \/ Fails("parseFlags") \/ SetBaseDirectoryFails \/ Fails("reference")
           \/ Fails("lockFlags") \/ Fails("mode") \/ SetReferenceLockFails
           \/ ParseOverrideFails \/ Fails("addOverride") \/ Fails("lock")
           \/ BorrowFails \/ GetLockJSONFails \/ BorrowStoreFails
    BY <1>3, FailsKeeps
    DEF SetBaseDirectoryFails, SetReferenceLockFails, ParseOverrideFails, Steps, Leaving, AfterLock
<1>4. CASE ParseFlagsNew \/ ParseReference \/ LockFlagsNew \/ FlakeLock
    BY <1>4, NewObjectKeeps
<1>5. CASE ParseOverride \/ AddInputOverride \/ OverridesDone
    BY <1>5, ParseOverrideKeeps, AddInputOverrideKeeps, OverridesDoneKeeps
<1>6. CASE GetFingerprint \/ Unwind \/ Return
    BY <1>6, GetFingerprintKeeps, UnwindKeeps, ReturnKeeps
<1> QED
    BY <1>1, <1>2, <1>3, <1>4, <1>5, <1>6 DEF Next

-----------------------------------------------------------------------------
(* Theorems *)

\* The account of objects, options and err holds at every step of flake.New.
THEOREM FlakeAccounted == Spec => []FlakeInv
<1>1. Init => FlakeInv
    BY InitEstablishes
<1>2. FlakeInv /\ [Next]_vars => FlakeInv'
    BY StepPreserves
<1> QED
    BY <1>1, <1>2, PTL DEF Spec

\* The state of flake.New keeps its type in every behaviour.
THEOREM TypeCorrect == Spec => []TypeOK
<1>1. FlakeInv => TypeOK
    BY DEF FlakeInv
<1> QED
    BY <1>1, FlakeAccounted, PTL

\* For any number of overrides and whichever step fails, every native object of
\* flake.New has exactly one deferred free, which finds it still there.
THEOREM EachObjectFreedOnce == Spec => []OneFreePerObject
<1>1. FlakeInv => OneFreePerObject
    BY DEF FlakeInv, Judged, OneFreePerObject, Leaving, TypeOK
<1> QED
    BY <1>1, FlakeAccounted, PTL

\* flake.New leaves the locked flake of the Flake it returns, and nothing else.
THEOREM NothingButTheFlake == Spec => []OnlyTheFlakeRemains
<1>1. ASSUME FlakeInv PROVE OnlyTheFlakeRemains
  <2>1. deferred = <<>> => Range(deferred) = {}
    BY NothingNew
  <2> QED
    BY <1>1, <2>1 DEF FlakeInv, Judged, OnlyTheFlakeRemains, Leaving
<1> QED
    BY <1>1, FlakeAccounted, PTL

\* For any number of overrides, a flake is locked with every option it was given.
THEOREM NoOptionForgotten == Spec => []LockedWithAllOptions
<1>1. FlakeInv => LockedWithAllOptions
    BY DEF FlakeInv
<1> QED
    BY <1>1, FlakeAccounted, PTL

=============================================================================
