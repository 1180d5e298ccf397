------------------------- MODULE ClientHandlersProofs -------------------------
(***************************************************************************)
(* Proofs about the handlers of a Client: the ownership of Nix values      *)
(* across the nested Go calls of ValueScopes, for any number of objects,   *)
(* elements, path segments and nested calls, and with it every property of *)
(* the composition ClientHandlers.                                         *)
(*                                                                         *)
(* The Go calls in progress form a stack.  All but the innermost wait for  *)
(* a call to return, and a step changes the innermost one alone: the proof *)
(* takes the stack apart into what waits (Suspended) and the innermost     *)
(* call (Fits), and puts it together again after the step.                 *)
(***************************************************************************)
EXTENDS ClientHandlers, NativeCallsProofs, SequenceTheorems

\* The native objects that the first n calls of s hold, and all of them.
HeldUpTo(s, n) == UNION {Holds(s[i]) : i \in 1..n}
HeldBy(s) == HeldUpTo(s, Len(s))

\* Each object has one place in one call.
Parted(f) == f.own \cap f.out = {} /\ f.bld \cap (f.own \cup f.out) = {}
Apart(s) ==
    /\ \A i \in 1..Len(s) : Parted(s[i])
    /\ \A i, j \in 1..Len(s) : i # j => Holds(s[i]) \cap Holds(s[j]) = {}

\* What a call was lent belongs to the caller of the Client, to a call below it or,
\* unless it decodes a Value, to itself: unmarshalValue closes what it owns.
Lenders(f) == IF f.fn = "unmarshalValue" THEN {} ELSE Holds(f)
Lent(s, h) ==
    \A i \in 1..Len(s) :
        s[i].uses \subseteq h \cup HeldUpTo(s, i - 1) \cup Lenders(s[i])

\* What a Go call holds at each of its points.
Shaped(f) ==
    /\ f.fn = "unmarshalValue" =>
        /\ f.out = {} /\ f.bld = {}
        /\ f.at \in {"start", "item", "child"} => f.own = {}
        /\ f.at \in {"child", "close"} => f.left > 0
    /\ f.fn = "getOutputValue" =>
        /\ f.at = "start" => f.own = {}
        /\ f.at \in {"attr", "child"} => f.left > 0
    /\ f.fn = "NewValue" =>
        /\ f.at = "start" => f.own = {} /\ f.out = {}
        /\ f.at \in {"start", "init"} => f.bld = {}
        /\ f.at = "insert" => f.left > 0
    /\ f.fn = "Evaluator.EvalWithArgs" => (f.at = "start" => f.own = {})
    /\ f.fn \in ClientCalls => (f.at \in {"start", "decode"} => f.own = {})

\* The variable that takes the Values v a call returns is not set yet; unmarshalValue
\* returns none to itself.
Expecting(f, v) ==
    /\ f.fn = "unmarshalValue" /\ f.at = "close" => v = {}
    /\ f.fn = "getOutputValue" /\ f.at = "start" => f.out = {}
    /\ f.fn = "NewValue" /\ f.at = "init" => f.out = {}
    /\ f.fn = "Evaluator.EvalWithArgs" /\ f.at = "fn" => f.own = {}

\* A call that waits for one it made.
Waiting(f) == f.at \in {"tail", "insert", "arg", "close", "decode", "done"}

\* unmarshalValue calls no Go function but itself.
MayCall(f, callee) == f.fn = "unmarshalValue" => callee.fn = "unmarshalValue"

\* The calls of s wait, and the caller holds h.
Suspended(s, h) ==
    /\ s \in Seq(FrameType)
    /\ Apart(s)
    /\ Lent(s, h)
    /\ \A i \in 1..Len(s) : Shaped(s[i]) /\ Waiting(s[i])
    /\ \A i \in 1..(Len(s) - 1) : MayCall(s[i], s[i + 1])

\* f is the innermost call over those of s.
Fits(f, s, h) ==
    /\ f \in FrameType
    /\ Parted(f)
    /\ Holds(f) \cap HeldBy(s) = {}
    /\ f.uses \subseteq h \cup HeldBy(s) \cup Lenders(f)
    /\ Shaped(f)
    /\ s # <<>> => MayCall(s[Len(s)], f)

\* The objects hs that Go calls hold, the result r, the lost ones lo and the caller's h
\* are apart, and make up l.  Only a call that succeeds returns a Value.
Owners(hs, r, l, lo, h) ==
    /\ r \in [kind : {"none", "ok", "error"}, val : SUBSET Objects]
    /\ l \subseteq Objects /\ lo \subseteq Objects /\ h \subseteq Objects
    /\ l = hs \cup r.val \cup h \cup lo
    /\ hs \cap (r.val \cup h \cup lo) = {}
    /\ r.val \cap (h \cup lo) = {}
    /\ h \cap lo = {}
    /\ r.kind # "ok" => r.val = {}

ScopeInv ==
    /\ stack \in Seq(FrameType)
    /\ Owners(HeldBy(stack), ret, live, lost, held)
    /\ stack # <<>> =>
        /\ Suspended(Below, held)
        /\ Fits(Top, Below, held)
        /\ ret.kind = "ok" => Expecting(Top, ret.val)

-----------------------------------------------------------------------------
(* The stack of Go calls *)

\* The calls below the innermost one of s.
Lower(s) == SubSeq(s, 1, Len(s) - 1)

\* Below the innermost call are the others, in their order.
LEMMA LowerCalls ==
    ASSUME NEW s \in Seq(FrameType), s # <<>>
    PROVE  /\ Len(s) \in Nat \ {0} /\ s[Len(s)] \in FrameType
           /\ Lower(s) \in Seq(FrameType) /\ Len(Lower(s)) = Len(s) - 1
           /\ \A i \in 1..(Len(s) - 1) : Lower(s)[i] = s[i]
<1>1. Len(s) \in Nat \ {0}
    BY EmptySeq
<1>2. \A i \in 1..Len(s) : s[i] \in FrameType
    BY ElementOfSeq
<1>3. \A i \in 1..(Len(s) - 1) : s[i] \in FrameType
    BY <1>1, <1>2
<1>4. Len(s) - 1 \in Int /\ 1 \in Int
    BY <1>1
<1>5. ASSUME NEW n \in Int, n = Len(s) - 1
      PROVE  /\ Lower(s) \in Seq(FrameType)
             /\ Len(Lower(s)) = IF 1 <= n THEN n - 1 + 1 ELSE 0
             /\ \A i \in 1..(n - 1 + 1) : Lower(s)[i] = s[1 + i - 1]
    BY <1>3, <1>5, SubSeqProperties DEF Lower
<1>6. ASSUME NEW n \in Int, n = Len(s) - 1
      PROVE  /\ Lower(s) \in Seq(FrameType) /\ Len(Lower(s)) = n
             /\ \A i \in 1..n : Lower(s)[i] = s[i]
  <2>1. n \in Nat
    BY <1>1, <1>6
  <2>2. Len(Lower(s)) = n
    BY <1>5, <1>6, <2>1
  <2>3. ASSUME NEW i \in 1..n PROVE Lower(s)[i] = s[i]
    <3>1. i \in 1..(n - 1 + 1) /\ 1 + i - 1 = i
      BY <2>3
    <3> QED
      BY <1>5, <1>6, <3>1
  <2> QED
    BY <1>5, <1>6, <2>2, <2>3
<1>7. Len(s) \in 1..Len(s)
    BY <1>1
<1>8. s[Len(s)] \in FrameType
    BY <1>2, <1>7
<1>9. /\ Lower(s) \in Seq(FrameType) /\ Len(Lower(s)) = Len(s) - 1
      /\ \A i \in 1..(Len(s) - 1) : Lower(s)[i] = s[i]
    BY <1>4, <1>6
<1> QED
    BY <1>1, <1>8, <1>9

\* A call pushed on a stack is the innermost one over that stack.
LEMMA Pushed ==
    ASSUME NEW s \in Seq(FrameType), NEW f \in FrameType
    PROVE  /\ Append(s, f) \in Seq(FrameType) /\ Append(s, f) # <<>>
           /\ Len(Append(s, f)) = Len(s) + 1
           /\ Append(s, f)[Len(Append(s, f))] = f
           /\ \A i \in 1..Len(s) : Append(s, f)[i] = s[i]
           /\ Lower(Append(s, f)) = s
<1> DEFINE t == Append(s, f)
<1>1. /\ t \in Seq(FrameType) /\ Len(t) = Len(s) + 1 /\ Len(s) \in Nat /\ t[Len(t)] = f
      /\ \A i \in 1..Len(s) : t[i] = s[i]
    OBVIOUS
<1>2. t # <<>>
    BY <1>1, EmptySeq
<1> HIDE DEF t
<1>3. Len(Lower(t)) = Len(s) /\ Lower(t) \in Seq(FrameType)
    BY <1>1, <1>2, LowerCalls
<1>4. \A i \in 1..Len(s) : Lower(t)[i] = s[i]
  <2>1. Len(t) - 1 = Len(s)
    BY <1>1
  <2>2. \A i \in 1..(Len(t) - 1) : Lower(t)[i] = t[i]
    BY <1>1, <1>2, LowerCalls
  <2> QED
    BY <1>1, <2>1, <2>2
<1>5. Lower(t) = s
    BY <1>3, <1>4, SeqEqual
<1> QED
    BY <1>1, <1>2, <1>5 DEF t

\* The innermost call and those below it hold what the stack holds.
LEMMA HeldByBoth ==
    ASSUME NEW s \in Seq(FrameType), s # <<>>
    PROVE  HeldBy(s) = HeldBy(Lower(s)) \cup Holds(s[Len(s)])
<1>1. Len(s) \in Nat \ {0} /\ Len(Lower(s)) = Len(s) - 1
    BY LowerCalls
<1>2. \A i \in 1..(Len(s) - 1) : Lower(s)[i] = s[i]
    BY LowerCalls
<1>3. 1..Len(s) = 1..(Len(s) - 1) \cup {Len(s)}
    BY <1>1
<1>4. HeldBy(Lower(s)) = HeldUpTo(s, Len(s) - 1)
    BY <1>1, <1>2 DEF HeldBy, HeldUpTo
<1>5. HeldUpTo(s, Len(s)) = HeldUpTo(s, Len(s) - 1) \cup Holds(s[Len(s)])
    BY <1>3 DEF HeldUpTo
<1> QED
    BY <1>4, <1>5 DEF HeldBy

\* What the caller gets in addition is no obstacle to the calls that wait.
LEMMA SuspendedMore ==
    ASSUME NEW s, NEW h, NEW g, Suspended(s, h), h \subseteq g
    PROVE  Suspended(s, g)
BY DEF Suspended, Lent

\* The calls below a waiting one wait, and it fits over them.
LEMMA SuspendedLower ==
    ASSUME NEW s, NEW h, Suspended(s, h), s # <<>>
    PROVE  /\ Suspended(Lower(s), h)
           /\ Fits(s[Len(s)], Lower(s), h)
           /\ Waiting(s[Len(s)])
<1> DEFINE n == Len(s)
           b == Lower(s)
<1>1. /\ s \in Seq(FrameType) /\ n \in Nat \ {0} /\ s[n] \in FrameType
      /\ b \in Seq(FrameType) /\ Len(b) = n - 1
    BY LowerCalls DEF Suspended
<1>2. \A i \in 1..(n - 1) : b[i] = s[i] /\ i \in 1..n
    BY <1>1, LowerCalls DEF Suspended
<1>3. /\ \A i \in 1..n : Parted(s[i]) /\ Shaped(s[i]) /\ Waiting(s[i])
      /\ \A i, j \in 1..n : i # j => Holds(s[i]) \cap Holds(s[j]) = {}
      /\ \A i \in 1..n : s[i].uses \subseteq h \cup HeldUpTo(s, i - 1) \cup Lenders(s[i])
    BY DEF Suspended, Apart, Lent
<1> HIDE DEF n, b
<1>4. \A i \in 1..(n - 1) : HeldUpTo(b, i - 1) = HeldUpTo(s, i - 1)
    BY <1>1, <1>2 DEF HeldUpTo
<1>5. HeldBy(b) = HeldUpTo(s, n - 1)
    BY <1>1, <1>2 DEF HeldBy, HeldUpTo
<1>6. Holds(s[n]) \cap HeldUpTo(s, n - 1) = {}
  <2>1. ASSUME NEW i \in 1..(n - 1) PROVE Holds(s[n]) \cap Holds(s[i]) = {}
    <3>1. i \in 1..n /\ n \in 1..n /\ i # n
      BY <1>1, <2>1
    <3> QED
      BY <1>3, <3>1
  <2> QED
    BY <2>1 DEF HeldUpTo
<1>7. Fits(s[n], b, h) /\ Waiting(s[n])
  <2>1. ASSUME b # <<>> PROVE MayCall(b[Len(b)], s[n])
    <3>1. n - 1 \in 1..(n - 1) /\ (n - 1) + 1 = n
      BY <1>1, <2>1, EmptySeq
    <3>2. MayCall(s[n - 1], s[(n - 1) + 1])
      BY <3>1 DEF Suspended, n
    <3> QED
      BY <1>1, <1>2, <3>1, <3>2
  <2> QED
    BY <1>1, <1>3, <1>5, <1>6, <2>1 DEF Fits
<1>8. Suspended(b, h)
  <2>1. Apart(b)
    BY <1>1, <1>2, <1>3 DEF Apart
  <2>2. Lent(b, h)
    BY <1>1, <1>2, <1>3, <1>4 DEF Lent
  <2>3. ASSUME NEW i \in 1..(Len(b) - 1) PROVE MayCall(b[i], b[i + 1])
    <3>1. i \in 1..(n - 1) /\ i + 1 \in 1..(n - 1)
      BY <1>1
    <3> QED
      BY <1>2, <3>1 DEF Suspended, n
  <2> QED
    BY <1>1, <1>2, <1>3, <2>1, <2>2, <2>3 DEF Suspended
<1> QED
    BY <1>7, <1>8 DEF n, b

\* A call that waits over calls that wait.
LEMMA SuspendedPush ==
    ASSUME NEW s, NEW f, NEW h, Suspended(s, h), Fits(f, s, h), Waiting(f)
    PROVE  /\ Suspended(Append(s, f), h)
           /\ HeldBy(Append(s, f)) = HeldBy(s) \cup Holds(f)
<1> DEFINE t == Append(s, f)
           n == Len(s)
<1>1. s \in Seq(FrameType) /\ f \in FrameType /\ n \in Nat
    BY DEF Suspended, Fits
<1>2. t \in Seq(FrameType) /\ Len(t) = n + 1 /\ t[n + 1] = f /\ t # <<>> /\ Lower(t) = s
    BY <1>1, Pushed
<1>3. \A i \in 1..n : t[i] = s[i] /\ i # n + 1
    BY <1>1, Pushed
<1>4. 1..(n + 1) = 1..n \cup {n + 1}
    BY <1>1
<1> HIDE DEF t, n
<1>5. HeldBy(t) = HeldBy(s) \cup Holds(f)
    BY <1>2, HeldByBoth
<1>6. HeldUpTo(t, n) = HeldBy(s)
    BY <1>3 DEF HeldBy, HeldUpTo, n
<1>7. \A i \in 1..n : HeldUpTo(t, i - 1) = HeldUpTo(s, i - 1)
    BY <1>1, <1>3 DEF HeldUpTo
<1>8. \A i \in 1..n : Holds(s[i]) \cap Holds(f) = {}
    BY DEF HeldBy, HeldUpTo, Fits, n
<1>9. Apart(t)
  <2>1. \A i \in 1..Len(t) : Parted(t[i])
    BY <1>2, <1>3, <1>4 DEF Apart, Suspended, Fits, n
  <2>2. \A i, j \in 1..n : i # j => Holds(t[i]) \cap Holds(t[j]) = {}
    BY <1>3 DEF Apart, Suspended, n
  <2>3. \A i \in 1..n : Holds(t[i]) \cap Holds(t[n + 1]) = {}
    BY <1>2, <1>3, <1>8
  <2>4. \A i, j \in 1..n \cup {n + 1} : i # j => Holds(t[i]) \cap Holds(t[j]) = {}
    BY <2>2, <2>3
  <2> QED
    BY <1>2, <1>4, <2>1, <2>4 DEF Apart
<1>10. Lent(t, h)
  <2>1. ASSUME NEW i \in 1..n
        PROVE  t[i].uses \subseteq h \cup HeldUpTo(t, i - 1) \cup Lenders(t[i])
    BY <1>3, <1>7 DEF Suspended, Lent, n
  <2>2. t[n + 1].uses \subseteq h \cup HeldUpTo(t, n) \cup Lenders(t[n + 1])
    BY <1>1, <1>2, <1>6 DEF Fits
  <2> SUFFICES ASSUME NEW i \in 1..(n + 1)
               PROVE  t[i].uses \subseteq h \cup HeldUpTo(t, i - 1) \cup Lenders(t[i])
    BY <1>2 DEF Lent
  <2>3. CASE i \in 1..n
    BY <2>1, <2>3
  <2>4. CASE i = n + 1
    <3>1. i - 1 = n
      BY <1>1, <2>4
    <3> QED
      BY <2>2, <2>4, <3>1, Zenon
  <2> QED
    BY <1>4, <2>3, <2>4
<1>11. \A i \in 1..Len(t) : Shaped(t[i]) /\ Waiting(t[i])
    BY <1>2, <1>3, <1>4 DEF Suspended, Fits, n
<1>12. ASSUME NEW i \in 1..(Len(t) - 1) PROVE MayCall(t[i], t[i + 1])
  <2>1. CASE i \in 1..(n - 1)
    <3>1. i \in 1..n /\ i + 1 \in 1..n
      BY <1>1, <2>1
    <3> QED
      BY <1>3, <2>1, <3>1 DEF Suspended, n
  <2>2. CASE i = n
    <3>1. i \in 1..n /\ t[i + 1] = f /\ t[i] = s[Len(s)]
      BY <1>2, <1>3, <2>2 DEF n
    <3>2. s # <<>>
      BY <2>2, <3>1, EmptySeq DEF n
    <3> QED
      BY <3>1, <3>2 DEF Fits
  <2> QED
    BY <1>1, <1>2, <2>1, <2>2
<1> QED
    BY <1>2, <1>5, <1>9, <1>10, <1>11, <1>12 DEF Suspended, t

-----------------------------------------------------------------------------
(* The steps a Go call can take *)

\* The innermost call, taken off the stack.
LEMMA Taken ==
    ASSUME ScopeInv, stack # <<>>
    PROVE  /\ Suspended(Below, held)
           /\ Fits(Top, Below, held)
           /\ Owners(HeldBy(Below) \cup Holds(Top), ret, live, lost, held)
           /\ ret.kind = "ok" => Expecting(Top, ret.val)
BY HeldByBoth DEF ScopeInv, Below, Top, Lower

\* The innermost call, put back.
LEMMA Put ==
    ASSUME NEW s, NEW f, stack' = Append(s, f), Suspended(s, held'), Fits(f, s, held'),
           Owners(HeldBy(s) \cup Holds(f), ret', live', lost', held'),
           ret'.kind = "ok" => Expecting(f, ret'.val)
    PROVE  ScopeInv'
<1>1. s \in Seq(FrameType) /\ f \in FrameType
    BY DEF Suspended, Fits
<1>2. stack' \in Seq(FrameType) /\ Below' = s /\ Top' = f
    BY <1>1, Pushed DEF Below, Top, Lower
<1>3. HeldBy(stack') = HeldBy(s) \cup Holds(f)
  <2>1. /\ stack' \in Seq(FrameType) /\ stack' # <<>>
        /\ Lower(stack') = s /\ stack'[Len(stack')] = f
    BY <1>1, Pushed
  <2> QED
    BY <2>1, HeldByBoth
<1> QED
    BY <1>2, <1>3 DEF ScopeInv

\* A call has returned to calls that waited for it.
LEMMA Resumed ==
    ASSUME Suspended(stack', held'), Owners(HeldBy(stack'), ret', live', lost', held'),
           stack' # <<>> /\ Top'.fn = "unmarshalValue" => ret'.val = {}
    PROVE  ScopeInv'
<1>1. stack' \in Seq(FrameType)
    BY DEF Suspended
<1>2. ASSUME stack' # <<>>
      PROVE  Suspended(Below', held') /\ Fits(Top', Below', held') /\ Waiting(Top')
    BY <1>2, SuspendedLower DEF Below, Top, Lower
<1>3. stack' # <<>> /\ Waiting(Top') => Expecting(Top', ret'.val)
    BY DEF Waiting, Expecting
<1> QED
    BY <1>1, <1>2, <1>3 DEF ScopeInv

\* A step without a call to Nix takes over what was returned.
LEMMA ProceedKeeps ==
    ASSUME ScopeInv, stack # <<>>, NEW f \in FrameType, Proceed(f),
           Holds(f) = Holds(Top) \cup ret.val, Parted(f), Shaped(f), f.fn = Top.fn,
           f.uses \subseteq held \cup HeldBy(Below) \cup Lenders(f)
    PROVE  ScopeInv'
<1>1. /\ Suspended(Below, held)
      /\ Fits(Top, Below, held)
      /\ Owners(HeldBy(Below) \cup Holds(Top), ret, live, lost, held)
    BY Taken
<1>2. Holds(f) \cap HeldBy(Below) = {}
    BY <1>1 DEF Owners, Fits
<1>3. Fits(f, Below, held)
    BY <1>1, <1>2 DEF Fits, MayCall
<1>4. Owners(HeldBy(Below) \cup Holds(f), Nothing, live, lost, held)
    BY <1>1 DEF Owners, Nothing
<1> QED
    BY <1>1, <1>3, <1>4, Put DEF Proceed, Become, Nothing

\* A call of another Go function, which is lent what belongs to the calls below it.
LEMMA CallGoKeeps ==
    ASSUME ScopeInv, stack # <<>>, NEW f \in FrameType, NEW callee \in FrameType,
           CallGo(f, callee), f.fn = Top.fn, MayCall(f, callee),
           Holds(f) \cup Holds(callee) = Holds(Top) \cup ret.val,
           Holds(f) \cap Holds(callee) = {},
           Parted(f), Shaped(f), Waiting(f),
           f.uses \subseteq held \cup HeldBy(Below) \cup Lenders(f),
           Parted(callee), Shaped(callee),
           callee.uses \subseteq held \cup HeldBy(Below) \cup Holds(f)
    PROVE  ScopeInv'
<1> DEFINE s == Append(Below, f)
<1>1. /\ Suspended(Below, held)
      /\ Fits(Top, Below, held)
      /\ Owners(HeldBy(Below) \cup Holds(Top), ret, live, lost, held)
    BY Taken
<1>2. (Holds(f) \cup Holds(callee)) \cap HeldBy(Below) = {}
    BY <1>1 DEF Owners, Fits
<1>3. Fits(f, Below, held)
    BY <1>1, <1>2 DEF Fits, MayCall
<1>4. Suspended(s, held) /\ HeldBy(s) = HeldBy(Below) \cup Holds(f)
    BY <1>1, <1>3, SuspendedPush
<1> HIDE DEF s
<1>5. Fits(callee, s, held)
  <2>1. s[Len(s)] = f
    BY <1>1, Pushed DEF Suspended, s
  <2> QED
    BY <1>2, <1>4, <2>1 DEF Fits
<1>6. Owners(HeldBy(s) \cup Holds(callee), Nothing, live, lost, held)
  <2>1. HeldBy(s) \cup Holds(callee) = HeldBy(Below) \cup Holds(Top) \cup ret.val
    BY <1>4
  <2> QED
    BY <1>1, <2>1 DEF Owners, Nothing
<1> QED
    BY <1>4, <1>5, <1>6, Put DEF CallGo, Enter, Nothing, s

\* A free address is an address, and nothing of ours.
LEMMA FreshIsFree ==
    ASSUME CanAllocate
    PROVE  Fresh \in Objects /\ Fresh \notin live
BY DEF CanAllocate, Fresh

\* A call that makes a Value of its own.
LEMMA ObtainKeeps ==
    ASSUME ScopeInv, stack # <<>>, NEW at \in Labels, Obtain(at), ret = Nothing,
           Shaped([Top EXCEPT !.at = at]), \A v : Expecting([Top EXCEPT !.at = at], v)
    PROVE  ScopeInv'
<1> DEFINE f == [Top EXCEPT !.at = at]
<1>1. /\ Suspended(Below, held)
      /\ Fits(Top, Below, held)
      /\ Owners(HeldBy(Below) \cup Holds(Top), ret, live, lost, held)
    BY Taken
<1>2. /\ f \in FrameType /\ f.fn = Top.fn /\ f.uses = Top.uses /\ f.own = Top.own
      /\ f.out = Top.out /\ f.bld = Top.bld
    BY <1>1 DEF Fits, FrameType
<1>3. stack' = Append(Below, f) /\ held' = held
    BY DEF Obtain, Become
<1> HIDE DEF f
<1>4. Holds(f) = Holds(Top) /\ Lenders(f) = Lenders(Top) /\ Parted(f)
    BY <1>1, <1>2 DEF Holds, Lenders, Parted, Fits
<1>5. Fits(f, Below, held)
    BY <1>1, <1>2, <1>4 DEF Fits, MayCall, f
<1>6. Owners(HeldBy(Below) \cup Holds(f), ret', live', lost', held')
  <2>1. CASE CanAllocate /\ ret' = Ok({Fresh}) /\ live' = live \cup {Fresh} /\ lost' = lost
    BY <1>1, <1>3, <1>4, <2>1, FreshIsFree DEF Owners, Ok, Nothing
  <2>2. CASE ret' = Error /\ UNCHANGED <<live, lost>>
    BY <1>1, <1>3, <1>4, <2>2 DEF Owners, Error, Nothing
  <2>3. CASE /\ CanAllocate /\ ret' = Error /\ live' = live \cup {Fresh}
             /\ lost' = lost \cup {Fresh}
    BY <1>1, <1>3, <1>4, <2>3, FreshIsFree DEF Owners, Error, Nothing
  <2> QED
    BY <2>1, <2>2, <2>3 DEF Obtain
<1> QED
    BY <1>1, <1>3, <1>5, <1>6, Put DEF f

\* The innermost call ends: of what it held, what it does not return is released or
\* lost.
LEMMA ReleasedOwners ==
    ASSUME NEW hs, NEW f \in FrameType, NEW r, NEW l, NEW lo, NEW h,
           Owners(hs \cup Holds(f), r, l, lo, h), hs \cap Holds(f) = {}, Parted(f),
           NEW q, q \in [kind : {"ok", "error"}, val : SUBSET Objects],
           q.kind # "ok" => q.val = {}, r.val \subseteq q.val, q.val \subseteq f.out \cup r.val,
           NEW bad, bad \subseteq f.own \cup (f.out \ q.val)
    PROVE  LET closing == f.own \cup (f.out \ q.val)
               left == l \ ((closing \ bad) \cup f.bld)
           IN  /\ Owners(hs, q, left, lo \cup bad, h)
               /\ Owners(hs, Nothing, left, lo \cup bad, h \cup q.val)
<1> DEFINE closing == f.own \cup (f.out \ q.val)
           left == l \ ((closing \ bad) \cup f.bld)
<1>1. left = hs \cup q.val \cup h \cup lo \cup bad
    BY DEF Owners, Holds, Parted
<1>2. hs \cap (q.val \cup h \cup lo \cup bad) = {}
    BY DEF Owners, Holds
<1>3. q.val \cap (h \cup lo \cup bad) = {}
    BY DEF Owners, Holds, Parted
<1>4. h \cap (lo \cup bad) = {}
    BY DEF Owners, Holds
<1>5. bad \subseteq Objects /\ left \subseteq Objects
    BY DEF Owners, Holds, FrameType
<1> HIDE DEF left, closing
<1>6. Owners(hs, q, left, lo \cup bad, h)
    BY <1>1, <1>2, <1>3, <1>4, <1>5 DEF Owners
<1>7. Owners(hs, Nothing, left, lo \cup bad, h \cup q.val)
    BY <1>1, <1>2, <1>3, <1>4, <1>5 DEF Owners, Nothing
<1> QED
    BY <1>6, <1>7 DEF left, closing

\* The innermost call returns r, which is its own Value or the one it was given.
LEMMA ReturnKeeps ==
    ASSUME ScopeInv, stack # <<>>,
           NEW r \in [kind : {"ok", "error"}, val : SUBSET Objects],
           r.kind # "ok" => r.val = {}, Return(r),
           ret.val \subseteq r.val, r.val \subseteq Top.out \cup ret.val,
           Top.fn = "unmarshalValue" => r.val = {}
    PROVE  ScopeInv'
<1>1. /\ Suspended(Below, held)
      /\ Fits(Top, Below, held)
      /\ Owners(HeldBy(Below) \cup Holds(Top), ret, live, lost, held)
    BY Taken
<1> DEFINE closing == Top.own \cup (Top.out \ r.val)
<1>2. PICK bad \in SUBSET closing :
        lost' = lost \cup bad /\ live' = live \ ((closing \ bad) \cup Top.bld)
    BY DEF Return, Close, Deferred, Abandoned
<1>3. stack' = Below
    BY DEF Return
<1>4. /\ Owners(HeldBy(Below), r, live', lost', held)
      /\ Owners(HeldBy(Below), Nothing, live', lost', held \cup r.val)
    BY <1>1, <1>2, ReleasedOwners DEF Fits
<1> HIDE DEF closing
<1>5. Below # <<>> => MayCall(Below[Len(Below)], Top)
    BY <1>1 DEF Fits
<1>6. stack' # <<>> /\ Top'.fn = "unmarshalValue" => r.val = {}
    BY <1>3, <1>5 DEF Top, MayCall
<1>7. CASE ret' = Nothing /\ held' = held \cup r.val
  <2>1. Suspended(Below, held')
    BY <1>1, <1>7, SuspendedMore
  <2> QED
    BY <1>3, <1>4, <1>7, <2>1, Resumed DEF Nothing
<1>8. CASE ret' = r /\ held' = held
    BY <1>1, <1>3, <1>4, <1>8, <1>6, Resumed
<1> QED
    BY <1>7, <1>8 DEF Return

\* The ways to return: an error, the Value made, and what a call returned.
LEMMA Returns ==
    ASSUME ScopeInv, stack # <<>>
    PROVE  /\ ret = Nothing \/ ret.kind = "error" => (Return(Error) => ScopeInv')
           /\ ret = Nothing => (Return(Ok(Top.out)) => ScopeInv')
           /\ ret = Nothing => (Return(Ok({})) => ScopeInv')
           /\ ret # Nothing /\ Top.fn # "unmarshalValue" => (Return(ret) => ScopeInv')
<1>1. /\ Fits(Top, Below, held)
      /\ Owners(HeldBy(Below) \cup Holds(Top), ret, live, lost, held)
    BY Taken
<1>2. Top.out \subseteq Objects /\ (Top.fn = "unmarshalValue" => Top.out = {})
    BY <1>1 DEF Fits, FrameType, Shaped
<1>3. ASSUME ret = Nothing \/ ret.kind = "error", Return(Error) PROVE ScopeInv'
  <2>1. ret.val = {}
    BY <1>1, <1>3 DEF Owners, Nothing
  <2> QED
    BY <1>3, <2>1, ReturnKeeps DEF Error
<1>4. ASSUME ret = Nothing, NEW v \in SUBSET Top.out, Return(Ok(v)) PROVE ScopeInv'
    BY <1>2, <1>4, ReturnKeeps DEF Ok, Nothing
<1>5. ASSUME ret # Nothing, Top.fn # "unmarshalValue", Return(ret) PROVE ScopeInv'
  <2>1. ret.kind # "none"
    BY <1>1, <1>5 DEF Owners, Nothing
  <2> QED
    BY <1>1, <1>5, <2>1, ReturnKeeps DEF Owners
<1> QED
    BY <1>3, <1>4, <1>5

\* What is known of the innermost call when it takes a step.
LEMMA Innermost ==
    ASSUME ScopeInv, stack # <<>>
    PROVE  /\ Top \in FrameType /\ Parted(Top) /\ Shaped(Top)
           /\ Top.uses \subseteq held \cup HeldBy(Below) \cup Lenders(Top)
           /\ ret.val \subseteq Objects /\ ret.val \cap Holds(Top) = {}
           /\ ret.kind # "ok" => ret.val = {}
           /\ ret.kind = "ok" => Expecting(Top, ret.val)
BY Taken DEF Fits, Owners

\* An error passed on.
LEMMA PropagateKeeps ==
    ASSUME ScopeInv, NEW fun, NEW at, Propagate(fun, at)
    PROVE  ScopeInv'
BY Returns DEF Propagate, Returned

\* A call moves on to another of its points.
LEMMA Relabelled ==
    ASSUME NEW f \in FrameType, NEW at \in Labels
    PROVE  LET g == [f EXCEPT !.at = at] IN
           /\ g \in FrameType /\ g.fn = f.fn /\ g.at = at /\ g.uses = f.uses
           /\ g.own = f.own /\ g.out = f.out /\ g.bld = f.bld /\ g.left = f.left
           /\ Holds(g) = Holds(f) /\ Lenders(g) = Lenders(f)
           /\ Parted(f) => Parted(g)
<1> DEFINE g == [f EXCEPT !.at = at]
<1>1. /\ g \in FrameType /\ g.fn = f.fn /\ g.at = at /\ g.uses = f.uses
      /\ g.own = f.own /\ g.out = f.out /\ g.bld = f.bld /\ g.left = f.left
    BY DEF FrameType
<1> HIDE DEF g
<1>2. Holds(g) = Holds(f) /\ Lenders(g) = Lenders(f) /\ (Parted(f) => Parted(g))
    BY <1>1 DEF Holds, Lenders, Parted
<1> QED
    BY <1>1, <1>2 DEF g

\* A Go call that starts: it owns nothing yet.
Started(f) == f \in FrameType /\ f.at = "start" /\ f.own = {} /\ f.out = {} /\ f.bld = {}

\* A new call holds nothing.
LEMMA NewFrame ==
    ASSUME NEW f, Started(f)
    PROVE  Holds(f) = {} /\ Parted(f) /\ Shaped(f) /\ \A v : Expecting(f, v)
BY DEF Started, Holds, Parted, Shaped, Expecting

\* A call of another Go function that passes it no Value to own.
LEMMA PlainCallKeeps ==
    ASSUME ScopeInv, stack # <<>>, ret = Nothing, NEW at \in Labels, NEW callee,
           CallGo([Top EXCEPT !.at = at], callee), Started(callee),
           Shaped([Top EXCEPT !.at = at]), Waiting([Top EXCEPT !.at = at]),
           callee.uses \subseteq held \cup HeldBy(Below) \cup Holds(Top),
           Top.fn # "unmarshalValue"
    PROVE  ScopeInv'
<1> DEFINE f == [Top EXCEPT !.at = at]
<1>1. /\ Top \in FrameType /\ Parted(Top)
      /\ Top.uses \subseteq held \cup HeldBy(Below) \cup Lenders(Top)
    BY Innermost
<1>2. /\ f \in FrameType /\ Parted(f) /\ Holds(f) = Holds(Top) /\ f.fn = Top.fn
      /\ f.uses \subseteq held \cup HeldBy(Below) \cup Lenders(f)
    BY <1>1, Relabelled
<1>3. callee \in FrameType /\ Holds(callee) = {} /\ Parted(callee) /\ Shaped(callee)
    BY NewFrame DEF Started
<1> HIDE DEF f
<1>4. CallGo(f, callee) /\ Shaped(f) /\ Waiting(f)
    BY DEF f
<1>5. ret.val = {} /\ MayCall(f, callee)
    BY <1>2 DEF Nothing, MayCall
<1> QED
    BY <1>2, <1>3, <1>4, <1>5, CallGoKeeps

\* A Value just obtained is kept to be closed, and decoded.
LEMMA DecodeCallKeeps ==
    ASSUME ScopeInv, stack # <<>>, NEW at \in Labels, Top.own = {}, NEW callee,
           CallGo([Top EXCEPT !.at = at, !.own = ret.val], callee),
           Started(callee), callee.uses = ret.val, callee.fn = "unmarshalValue",
           Shaped([Top EXCEPT !.at = at, !.own = ret.val]), at \in {"close", "done"}
    PROVE  ScopeInv'
<1> DEFINE f == [Top EXCEPT !.at = at, !.own = ret.val]
<1>1. /\ Top \in FrameType /\ Parted(Top) /\ ret.val \in SUBSET Objects
      /\ ret.val \cap Holds(Top) = {}
      /\ Top.uses \subseteq held \cup HeldBy(Below) \cup Lenders(Top)
    BY Innermost
<1>2. /\ f \in FrameType /\ f.fn = Top.fn /\ f.at = at /\ f.uses = Top.uses
      /\ f.own = ret.val /\ f.out = Top.out /\ f.bld = Top.bld
    BY <1>1 DEF FrameType
<1>3. callee \in FrameType /\ Holds(callee) = {} /\ Parted(callee) /\ Shaped(callee)
    BY NewFrame DEF Started
<1> HIDE DEF f
<1>4. CallGo(f, callee) /\ Shaped(f)
    BY DEF f
<1>5. Holds(f) = Holds(Top) \cup ret.val /\ Parted(f) /\ Waiting(f)
    BY <1>1, <1>2 DEF Holds, Parted, Waiting
<1>6. Lenders(Top) \subseteq Lenders(f) /\ MayCall(f, callee)
    BY <1>2, <1>5 DEF Lenders, MayCall
<1> QED
    BY <1>1, <1>2, <1>3, <1>4, <1>5, <1>6, CallGoKeeps

-----------------------------------------------------------------------------
(* The Go functions *)

\* getOutputValue: every Value on the way to the output is closed, the last is handed
\* over.
LEMMA GetOutputValueKeeps ==
    ASSUME ScopeInv, GetOutputValueStep
    PROVE  ScopeInv'
<1>1. CASE OutputAttrs
  <2>1. stack # <<>> /\ Top.fn = "getOutputValue" /\ Top.at = "start" /\ ret = Nothing /\ Top.out = {}
    BY <1>1 DEF OutputAttrs, At
  <2>2. [Top EXCEPT !.at = "start"] = Top
    BY <2>1, Innermost DEF FrameType
  <2>3. (\A v : Expecting(Top, v)) /\ "start" \in Labels
    BY <2>1 DEF Expecting, Labels
  <2> QED
    BY <1>1, <2>1, <2>2, <2>3, Innermost, ObtainKeeps DEF OutputAttrs
<1>2. CASE OutputAttrsFails \/ GetOutputAttrFails
    BY <1>2, PropagateKeeps DEF OutputAttrsFails, GetOutputAttrFails
<1>3. CASE TakeRoot
  <2> DEFINE f == [Top EXCEPT !.out = ret.val]
  <2>1. /\ stack # <<>> /\ Top.fn = "getOutputValue" /\ Top.at = "start" /\ ret.kind = "ok"
        /\ Proceed(f)
    BY <1>3 DEF TakeRoot, Returned
  <2>2. /\ Top \in FrameType /\ Parted(Top) /\ Shaped(Top) /\ Top.out = {}
        /\ ret.val \in SUBSET Objects /\ ret.val \cap Holds(Top) = {}
        /\ Top.uses \subseteq held \cup HeldBy(Below) \cup Lenders(Top)
    BY <2>1, Innermost DEF Expecting
  <2>3. /\ f \in FrameType /\ f.fn = Top.fn /\ f.at = Top.at /\ f.uses = Top.uses
        /\ f.own = Top.own /\ f.out = ret.val /\ f.bld = Top.bld /\ f.left = Top.left
    BY <2>2 DEF FrameType
  <2> HIDE DEF f
  <2>4. Holds(f) = Holds(Top) \cup ret.val /\ Parted(f) /\ Shaped(f)
    BY <2>1, <2>2, <2>3 DEF Holds, Parted, Shaped
  <2>5. f.uses \subseteq held \cup HeldBy(Below) \cup Lenders(f)
    BY <2>1, <2>2, <2>3, <2>4 DEF Lenders
  <2> QED
    BY <2>1, <2>3, <2>4, <2>5, ProceedKeeps
<1>4. CASE ReturnLeaf
    BY <1>4, Returns DEF ReturnLeaf, At
<1>5. CASE DeferRootClose
  <2> DEFINE f == KeepRoot(Top)
  <2>1. /\ stack # <<>> /\ Top.fn = "getOutputValue" /\ Top.at = "start" /\ ret = Nothing
        /\ Top.left > 0 /\ Proceed(f)
    BY <1>5 DEF DeferRootClose, At
  <2>2. /\ Top \in FrameType /\ Parted(Top) /\ Shaped(Top) /\ Top.own = {}
        /\ Top.uses \subseteq held \cup HeldBy(Below) \cup Lenders(Top)
    BY <2>1, Innermost DEF Shaped
  <2>3. /\ f \in FrameType /\ f.fn = Top.fn /\ f.at = "attr" /\ f.uses = Top.uses
        /\ f.own = Top.out /\ f.out = {} /\ f.bld = Top.bld /\ f.left = Top.left
    BY <2>2 DEF FrameType, Labels, KeepRoot
  <2> HIDE DEF f
  <2>4. Holds(f) = Holds(Top) \cup ret.val /\ Parted(f) /\ Shaped(f)
    BY <2>1, <2>2, <2>3 DEF Holds, Parted, Shaped, Nothing, ClientCalls
  <2>5. f.uses \subseteq held \cup HeldBy(Below) \cup Lenders(f)
    BY <2>1, <2>2, <2>3, <2>4 DEF Lenders, Nothing
  <2> QED
    BY <2>1, <2>3, <2>4, <2>5, ProceedKeeps
<1>6. CASE NotAttrs
    BY <1>6, Returns DEF NotAttrs, At
<1>7. CASE GetOutputAttr
  <2>1. /\ stack # <<>> /\ Top.fn = "getOutputValue" /\ Top.at = "attr" /\ ret = Nothing
        /\ Obtain("child") /\ Top \in FrameType /\ Shaped(Top) /\ "child" \in Labels
    BY <1>7, Innermost DEF GetOutputAttr, At, Labels
  <2>2. Shaped([Top EXCEPT !.at = "child"]) /\ \A v : Expecting([Top EXCEPT !.at = "child"], v)
    BY <2>1, Relabelled DEF Shaped, Expecting, ClientCalls
  <2> QED
    BY <2>1, <2>2, ObtainKeeps
<1>8. CASE DescendOutput
  <2> DEFINE f == [Top EXCEPT !.at = "tail"]
             callee == Frame("getOutputValue", {}, ret.val, Top.left - 1)
  <2>1. /\ stack # <<>> /\ Top.fn = "getOutputValue" /\ Top.at = "child" /\ CallGo(f, callee)
    BY <1>8 DEF DescendOutput, Returned
  <2>2. /\ Top \in FrameType /\ Parted(Top) /\ Shaped(Top) /\ Top.left > 0
        /\ ret.val \in SUBSET Objects /\ ret.val \cap Holds(Top) = {}
        /\ Top.uses \subseteq held \cup HeldBy(Below) \cup Lenders(Top)
    BY <2>1, Innermost DEF Shaped
  <2>3. /\ f \in FrameType /\ f.fn = Top.fn /\ f.at = "tail" /\ f.uses = Top.uses
        /\ f.own = Top.own /\ f.out = Top.out /\ f.bld = Top.bld /\ f.left = Top.left
    BY <2>2 DEF FrameType, Labels
  <2>4. /\ callee \in FrameType /\ callee.fn = "getOutputValue" /\ callee.at = "start"
        /\ callee.uses = {} /\ callee.own = {} /\ callee.out = ret.val /\ callee.bld = {}
    BY <2>2 DEF FrameType, Labels, GoFunctions, Frame
  <2> HIDE DEF f, callee
  <2>5. Holds(f) = Holds(Top) /\ Parted(f) /\ Shaped(f) /\ Waiting(f) /\ Lenders(f) = Lenders(Top)
    BY <2>1, <2>2, <2>3 DEF Holds, Parted, Shaped, ClientCalls, Waiting, Lenders
  <2>6. Holds(callee) = ret.val /\ Parted(callee) /\ Shaped(callee) /\ MayCall(f, callee)
    BY <2>1, <2>3, <2>4 DEF MayCall, Holds, Parted, Shaped, ClientCalls
  <2> QED
    BY <2>1, <2>2, <2>3, <2>4, <2>5, <2>6, CallGoKeeps
<1>9. CASE ReturnTail
    BY <1>9, Returns DEF ReturnTail, Returned
<1> QED
    BY <1>1, <1>2, <1>3, <1>4, <1>5, <1>6, <1>7, <1>8, <1>9 DEF GetOutputValueStep

\* NewValue: the elements stay until the builder has been read, the builder is freed,
\* and an unfinished Value is closed.
LEMMA NewValueKeeps ==
    ASSUME ScopeInv, NewValueStep
    PROVE  ScopeInv'
<1>1. CASE AllocValue
  <2>1. /\ stack # <<>> /\ Top.fn = "NewValue" /\ Top.at = "start" /\ ret = Nothing
        /\ Obtain("init") /\ Top \in FrameType /\ Shaped(Top) /\ "init" \in Labels
    BY <1>1, Innermost DEF AllocValue, At, Labels
  <2>2. Shaped([Top EXCEPT !.at = "init"]) /\ \A v : Expecting([Top EXCEPT !.at = "init"], v)
    BY <2>1, Relabelled DEF Shaped, Expecting, ClientCalls
  <2> QED
    BY <2>1, <2>2, ObtainKeeps
<1>2. CASE AllocValueFails \/ NewItemFails
    BY <1>2, PropagateKeeps DEF AllocValueFails, NewItemFails
<1>3. CASE TakeValue
  <2> DEFINE f == [Top EXCEPT !.out = ret.val]
  <2>1. /\ stack # <<>> /\ Top.fn = "NewValue" /\ Top.at = "init" /\ ret.kind = "ok"
        /\ Proceed(f)
    BY <1>3 DEF TakeValue, Returned
  <2>2. /\ Top \in FrameType /\ Parted(Top) /\ Shaped(Top) /\ Top.out = {}
        /\ ret.val \in SUBSET Objects /\ ret.val \cap Holds(Top) = {}
        /\ Top.uses \subseteq held \cup HeldBy(Below) \cup Lenders(Top)
    BY <2>1, Innermost DEF Expecting
  <2>3. /\ f \in FrameType /\ f.fn = Top.fn /\ f.at = Top.at /\ f.uses = Top.uses
        /\ f.own = Top.own /\ f.out = ret.val /\ f.bld = Top.bld /\ f.left = Top.left
    BY <2>2 DEF FrameType
  <2> HIDE DEF f
  <2>4. Holds(f) = Holds(Top) \cup ret.val /\ Parted(f) /\ Shaped(f)
    BY <2>1, <2>2, <2>3 DEF Holds, Parted, Shaped, ClientCalls
  <2>5. f.uses \subseteq held \cup HeldBy(Below) \cup Lenders(f)
    BY <2>1, <2>2, <2>3, <2>4 DEF Lenders
  <2> QED
    BY <2>1, <2>3, <2>4, <2>5, ProceedKeeps
<1>4. CASE InitValue \/ InitValueFails
    BY <1>4, Returns DEF InitValue, InitValueFails, At
<1>5. CASE MakeBuilder
  <2>1. /\ stack # <<>> /\ Top.fn = "NewValue" /\ Top.at = "init" /\ ret = Nothing
        /\ CanAllocate /\ live' = live \cup {Fresh} /\ UNCHANGED <<ret, lost, held>>
    BY <1>5 DEF MakeBuilder, At
  <2>2. PICK n \in 0..MaxItems :
            stack' = Append(Below, [Top EXCEPT !.at = "item", !.bld = {Fresh}, !.left = n])
    BY <1>5 DEF MakeBuilder, Become
  <2> DEFINE f == [Top EXCEPT !.at = "item", !.bld = {Fresh}, !.left = n]
  <2>3. /\ Suspended(Below, held) /\ Fits(Top, Below, held)
        /\ Owners(HeldBy(Below) \cup Holds(Top), ret, live, lost, held)
    BY <2>1, Taken
  <2>4. Fresh \in Objects /\ Fresh \notin live /\ n \in Nat
    BY <2>1, FreshIsFree, BoundsAssumption
  <2>5. /\ Top \in FrameType /\ Parted(Top) /\ Top.bld = {}
        /\ Top.uses \subseteq held \cup HeldBy(Below) \cup Lenders(Top)
    BY <2>1, <2>3 DEF Fits, Shaped
  <2>6. /\ f \in FrameType /\ f.fn = "NewValue" /\ f.at = "item" /\ f.uses = Top.uses
        /\ f.own = Top.own /\ f.out = Top.out /\ f.bld = {Fresh}
    BY <2>1, <2>4, <2>5 DEF FrameType, Labels
  <2> HIDE DEF f
  <2>7. Holds(f) = Holds(Top) \cup {Fresh} /\ Shaped(f) /\ \A v : Expecting(f, v)
    BY <2>5, <2>6 DEF Holds, Shaped, Expecting, ClientCalls
  <2>8. Holds(Top) \subseteq live /\ HeldBy(Below) \subseteq live
    BY <2>3 DEF Owners
  <2>9. Parted(f)
    BY <2>4, <2>5, <2>6, <2>8 DEF Parted, Holds
  <2>10. Lenders(Top) \subseteq Lenders(f)
    BY <2>1, <2>6, <2>7 DEF Lenders
  <2>11. Fits(f, Below, held)
    <3>1. Holds(f) \cap HeldBy(Below) = {}
      BY <2>3, <2>4, <2>7, <2>8 DEF Fits
    <3>2. Below # <<>> => MayCall(Below[Len(Below)], f)
      BY <2>1, <2>3, <2>6 DEF Fits, MayCall
    <3> QED
      BY <2>5, <2>6, <2>7, <2>9, <2>10, <3>1, <3>2 DEF Fits
  <2>12. Owners(HeldBy(Below) \cup Holds(f), ret', live', lost', held')
    BY <2>1, <2>3, <2>4, <2>7 DEF Owners
  <2> QED
    BY <2>1, <2>2, <2>3, <2>7, <2>11, <2>12, Put DEF f
<1>6. CASE NewItem
  <2> DEFINE callee == Frame("NewValue", Top.uses, {}, 0)
  <2>1. /\ stack # <<>> /\ Top.fn = "NewValue" /\ Top.at = "item" /\ ret = Nothing
        /\ Top.left > 0 /\ CallGo([Top EXCEPT !.at = "insert"], callee)
        /\ Top \in FrameType /\ Shaped(Top) /\ "insert" \in Labels
        /\ Top.uses \subseteq held \cup HeldBy(Below) \cup Lenders(Top)
    BY <1>6, Innermost DEF NewItem, At, Labels
  <2>2. Shaped([Top EXCEPT !.at = "insert"]) /\ Waiting([Top EXCEPT !.at = "insert"])
    BY <2>1, Relabelled DEF Shaped, Waiting, ClientCalls
  <2>3. Started(callee) /\ callee.uses = Top.uses
    BY <2>1 DEF Started, FrameType, Labels, GoFunctions, Frame
  <2>4. Lenders(Top) \subseteq Holds(Top)
    BY DEF Lenders
  <2> HIDE DEF callee
  <2> QED
    BY <2>1, <2>2, <2>3, <2>4, PlainCallKeeps
<1>7. CASE TakeItem
  <2> DEFINE f == KeepItem(Top)
  <2>1. /\ stack # <<>> /\ Top.fn = "NewValue" /\ Top.at = "insert" /\ ret.kind = "ok"
        /\ Proceed(f)
    BY <1>7 DEF TakeItem, Returned
  <2>2. /\ Top \in FrameType /\ Parted(Top) /\ Shaped(Top)
        /\ ret.val \in SUBSET Objects /\ ret.val \cap Holds(Top) = {}
        /\ Top.uses \subseteq held \cup HeldBy(Below) \cup Lenders(Top)
    BY <2>1, Innermost
  <2>3. /\ f \in FrameType /\ f.fn = Top.fn /\ f.at = Top.at /\ f.uses = Top.uses
        /\ f.own = Top.own \cup ret.val /\ f.out = Top.out /\ f.bld = Top.bld /\ f.left = Top.left
    BY <2>2 DEF FrameType, KeepItem
  <2> HIDE DEF f
  <2>4. Holds(f) = Holds(Top) \cup ret.val /\ Parted(f) /\ Shaped(f)
    BY <2>1, <2>2, <2>3 DEF Holds, Parted, Shaped, ClientCalls
  <2>5. f.uses \subseteq held \cup HeldBy(Below) \cup Lenders(f)
    BY <2>1, <2>2, <2>3, <2>4 DEF Lenders
  <2> QED
    BY <2>1, <2>3, <2>4, <2>5, ProceedKeeps
<1>8. CASE InsertItem
  <2> DEFINE f == [Top EXCEPT !.at = "item", !.left = @ - 1, !.uses = @ \cup Top.own]
  <2>1. /\ stack # <<>> /\ Top.fn = "NewValue" /\ Top.at = "insert" /\ ret = Nothing
        /\ Proceed(f)
    BY <1>8 DEF InsertItem, At
  <2>2. /\ Top \in FrameType /\ Parted(Top) /\ Shaped(Top) /\ Top.left > 0
        /\ Top.uses \subseteq held \cup HeldBy(Below) \cup Lenders(Top)
    BY <2>1, Innermost DEF Shaped
  <2>3. /\ f \in FrameType /\ f.fn = Top.fn /\ f.at = "item" /\ f.uses = Top.uses \cup Top.own
        /\ f.own = Top.own /\ f.out = Top.out /\ f.bld = Top.bld
    <3>1. Top.left - 1 \in Nat /\ Top.uses \cup Top.own \in SUBSET Objects
      BY <2>2 DEF FrameType
    <3>2. /\ f.fn = Top.fn /\ f.at = "item" /\ f.uses = Top.uses \cup Top.own
          /\ f.own = Top.own /\ f.out = Top.out /\ f.bld = Top.bld /\ f.left = Top.left - 1
      BY <2>2 DEF FrameType
    <3>3. f \in FrameType
      BY <2>2, <3>1 DEF FrameType, Labels
    <3> QED
      BY <3>2, <3>3
  <2> HIDE DEF f
  <2>4. Holds(f) = Holds(Top) \cup ret.val /\ Parted(f) /\ Shaped(f)
    BY <2>1, <2>2, <2>3 DEF Holds, Parted, Shaped, ClientCalls, Nothing
  <2>5. f.uses \subseteq held \cup HeldBy(Below) \cup Lenders(f)
    BY <2>1, <2>2, <2>3 DEF Lenders, Holds
  <2> QED
    BY <2>1, <2>3, <2>4, <2>5, ProceedKeeps
<1>9. CASE InsertItemFails \/ MakeFromBuilder \/ MakeFromBuilderFails
    BY <1>9, Returns DEF InsertItemFails, MakeFromBuilder, MakeFromBuilderFails, At
<1> QED
    BY <1>1, <1>2, <1>3, <1>4, <1>5, <1>6, <1>7, <1>8, <1>9 DEF NewValueStep

\* Evaluator.EvalWithArgs: the function and the argument live until Call has applied
\* the one to the other.
LEMMA EvalWithArgsKeeps ==
    ASSUME ScopeInv, EvalWithArgsStep
    PROVE  ScopeInv'
<1>1. CASE EvalFunction
  <2>1. /\ stack # <<>> /\ Top.fn = "Evaluator.EvalWithArgs" /\ Top.at = "start"
        /\ ret = Nothing /\ Obtain("fn") /\ Top \in FrameType /\ Shaped(Top)
        /\ "fn" \in Labels
    BY <1>1, Innermost DEF EvalFunction, At, Labels
  <2>2. Shaped([Top EXCEPT !.at = "fn"]) /\ \A v : Expecting([Top EXCEPT !.at = "fn"], v)
    BY <2>1, Relabelled DEF Shaped, Expecting, ClientCalls
  <2> QED
    BY <2>1, <2>2, ObtainKeeps
<1>2. CASE EvalFunctionFails \/ BuildArgumentFails
    BY <1>2, PropagateKeeps DEF EvalFunctionFails, BuildArgumentFails
<1>3. CASE TakeFunction
  <2> DEFINE f == [Top EXCEPT !.own = ret.val]
  <2>1. /\ stack # <<>> /\ Top.fn = "Evaluator.EvalWithArgs" /\ Top.at = "fn"
        /\ ret.kind = "ok" /\ Proceed(f)
    BY <1>3 DEF TakeFunction, Returned
  <2>2. /\ Top \in FrameType /\ Parted(Top) /\ Shaped(Top) /\ Top.own = {}
        /\ ret.val \in SUBSET Objects /\ ret.val \cap Holds(Top) = {}
        /\ Top.uses \subseteq held \cup HeldBy(Below) \cup Lenders(Top)
    BY <2>1, Innermost DEF Expecting
  <2>3. /\ f \in FrameType /\ f.fn = Top.fn /\ f.at = Top.at /\ f.uses = Top.uses
        /\ f.own = ret.val /\ f.out = Top.out /\ f.bld = Top.bld
    BY <2>2 DEF FrameType
  <2> HIDE DEF f
  <2>4. Holds(f) = Holds(Top) \cup ret.val /\ Parted(f) /\ Shaped(f)
    BY <2>1, <2>2, <2>3 DEF Holds, Parted, Shaped, ClientCalls
  <2>5. f.uses \subseteq held \cup HeldBy(Below) \cup Lenders(f)
    BY <2>1, <2>2, <2>3, <2>4 DEF Lenders
  <2> QED
    BY <2>1, <2>3, <2>4, <2>5, ProceedKeeps
<1>4. CASE ConvertArgumentFails
    BY <1>4, Returns DEF ConvertArgumentFails, At
<1>5. CASE BuildArgument
  <2> DEFINE callee == Frame("NewValue", {}, {}, 0)
  <2>1. /\ stack # <<>> /\ Top.fn = "Evaluator.EvalWithArgs" /\ Top.at = "fn"
        /\ ret = Nothing /\ CallGo([Top EXCEPT !.at = "arg"], callee)
        /\ Top \in FrameType /\ Shaped(Top) /\ "arg" \in Labels
    BY <1>5, Innermost DEF BuildArgument, At, Labels
  <2>2. Shaped([Top EXCEPT !.at = "arg"]) /\ Waiting([Top EXCEPT !.at = "arg"])
    BY <2>1, Relabelled DEF Shaped, Waiting, ClientCalls
  <2>3. Started(callee) /\ callee.uses = {}
    BY DEF Started, FrameType, Labels, GoFunctions, Frame
  <2> HIDE DEF callee
  <2> QED
    BY <2>1, <2>2, <2>3, PlainCallKeeps
<1>6. CASE TakeArgument
  <2> DEFINE f == [Top EXCEPT !.own = @ \cup ret.val, !.uses = Top.own \cup ret.val]
  <2>1. /\ stack # <<>> /\ Top.fn = "Evaluator.EvalWithArgs" /\ Top.at = "arg"
        /\ ret.kind = "ok" /\ Proceed(f)
    BY <1>6 DEF TakeArgument, Returned
  <2>2. /\ Top \in FrameType /\ Parted(Top) /\ Shaped(Top)
        /\ ret.val \in SUBSET Objects /\ ret.val \cap Holds(Top) = {}
    BY <2>1, Innermost
  <2>3. /\ f \in FrameType /\ f.fn = Top.fn /\ f.at = Top.at /\ f.uses = Top.own \cup ret.val
        /\ f.own = Top.own \cup ret.val /\ f.out = Top.out /\ f.bld = Top.bld
    BY <2>2 DEF FrameType
  <2> HIDE DEF f
  <2>4. Holds(f) = Holds(Top) \cup ret.val /\ Parted(f) /\ Shaped(f)
    BY <2>1, <2>2, <2>3 DEF Holds, Parted, Shaped, ClientCalls
  <2>5. f.uses \subseteq held \cup HeldBy(Below) \cup Lenders(f)
    BY <2>1, <2>3 DEF Lenders, Holds
  <2> QED
    BY <2>1, <2>3, <2>4, <2>5, ProceedKeeps
<1>7. CASE ApplyFunction
  <2>1. /\ stack # <<>> /\ Top.fn = "Evaluator.EvalWithArgs" /\ Top.at = "arg"
        /\ ret = Nothing /\ Obtain("done") /\ Top \in FrameType /\ Shaped(Top)
        /\ "done" \in Labels
    BY <1>7, Innermost DEF ApplyFunction, At, Labels
  <2>2. Shaped([Top EXCEPT !.at = "done"]) /\ \A v : Expecting([Top EXCEPT !.at = "done"], v)
    BY <2>1, Relabelled DEF Shaped, Expecting, ClientCalls
  <2> QED
    BY <2>1, <2>2, ObtainKeeps
<1>8. CASE ReturnApplied
    BY <1>8, Returns DEF ReturnApplied, Returned
<1> QED
    BY <1>1, <1>2, <1>3, <1>4, <1>5, <1>6, <1>7, <1>8 DEF EvalWithArgsStep

\* Unmarshal: a child is alive while it is decoded and closed once, whether or not it
\* could be decoded.
LEMMA UnmarshalKeeps ==
    ASSUME ScopeInv, UnmarshalStep
    PROVE  ScopeInv'
<1>1. CASE DecodeScalar \/ DecodeFails \/ DecodeDone \/ NoAttr
    BY <1>1, Returns DEF DecodeScalar, DecodeFails, DecodeDone, NoAttr, At
<1>2. CASE DecodeContainer
  <2>1. /\ stack # <<>> /\ Top.fn = "unmarshalValue" /\ Top.at = "start" /\ ret = Nothing
    BY <1>2 DEF DecodeContainer, At
  <2>2. PICK n \in 0..MaxItems : Proceed([Top EXCEPT !.at = "item", !.left = n])
    BY <1>2 DEF DecodeContainer
  <2> DEFINE f == [Top EXCEPT !.at = "item", !.left = n]
  <2>3. /\ Top \in FrameType /\ Parted(Top) /\ Shaped(Top)
        /\ Top.uses \subseteq held \cup HeldBy(Below) \cup Lenders(Top)
    BY <2>1, Innermost
  <2>4. /\ f \in FrameType /\ f.fn = Top.fn /\ f.at = "item" /\ f.uses = Top.uses
        /\ f.own = Top.own /\ f.out = Top.out /\ f.bld = Top.bld
    <3>1. n \in Nat
      BY BoundsAssumption
    <3> QED
      BY <2>3, <3>1 DEF FrameType, Labels
  <2> HIDE DEF f
  <2>5. Holds(f) = Holds(Top) \cup ret.val /\ Parted(f) /\ Shaped(f)
    BY <2>1, <2>3, <2>4 DEF Holds, Parted, Shaped, ClientCalls, Nothing
  <2>6. f.uses \subseteq held \cup HeldBy(Below) \cup Lenders(f)
    BY <2>1, <2>3, <2>4 DEF Lenders
  <2> QED
    BY <2>1, <2>2, <2>4, <2>5, <2>6, ProceedKeeps DEF f
<1>3. CASE GetChild
  <2>1. /\ stack # <<>> /\ Top.fn = "unmarshalValue" /\ Top.at = "item" /\ ret = Nothing
        /\ Top.left > 0 /\ Obtain("child") /\ Top \in FrameType /\ Shaped(Top)
        /\ "child" \in Labels
    BY <1>3, Innermost DEF GetChild, At, Labels
  <2>2. Shaped([Top EXCEPT !.at = "child"]) /\ \A v : Expecting([Top EXCEPT !.at = "child"], v)
    BY <2>1, Relabelled DEF Shaped, Expecting, ClientCalls
  <2> QED
    BY <2>1, <2>2, ObtainKeeps
<1>4. CASE GetChildFails
    BY <1>4, PropagateKeeps DEF GetChildFails
<1>5. CASE DecodeChild
  <2> DEFINE f == [Top EXCEPT !.at = "close", !.own = ret.val]
             callee == Frame("unmarshalValue", ret.val, {}, 0)
  <2>1. /\ stack # <<>> /\ Top.fn = "unmarshalValue" /\ Top.at = "child"
        /\ CallGo(f, callee)
    BY <1>5 DEF DecodeChild, Returned
  <2>2. Top \in FrameType /\ Shaped(Top) /\ ret.val \in SUBSET Objects /\ Top.own = {}
    BY <2>1, Innermost DEF Shaped
  <2>3. f.fn = Top.fn /\ f.at = "close" /\ f.out = Top.out /\ f.bld = Top.bld /\ f.left = Top.left
    BY <2>2 DEF FrameType
  <2>4. /\ Started(callee) /\ callee.uses = ret.val /\ callee.fn = "unmarshalValue"
        /\ "close" \in Labels
    BY <2>2 DEF Started, FrameType, Labels, GoFunctions, Frame
  <2> HIDE DEF f, callee
  <2>5. Shaped(f)
    BY <2>1, <2>2, <2>3 DEF Shaped, ClientCalls
  <2> QED
    BY <2>1, <2>2, <2>4, <2>5, DecodeCallKeeps DEF f
<1>6. CASE NextChild
  <2> DEFINE f == [Top EXCEPT !.at = "item", !.own = {}, !.left = @ - 1]
  <2>1. /\ stack # <<>> /\ Top.fn = "unmarshalValue" /\ Top.at = "close" /\ ret.kind = "ok"
        /\ lost' = lost /\ live' = live \ Top.own /\ stack' = Append(Below, f)
        /\ ret' = Nothing /\ held' = held
    BY <1>6 DEF NextChild, Returned, CloseChild, Close, Become
  <2>2. /\ Suspended(Below, held) /\ Fits(Top, Below, held)
        /\ Owners(HeldBy(Below) \cup Holds(Top), ret, live, lost, held)
        /\ Expecting(Top, ret.val)
    BY <2>1, Taken
  <2>3. /\ Top \in FrameType /\ Top.out = {} /\ Top.bld = {} /\ Top.left > 0 /\ ret.val = {}
        /\ Top.uses \subseteq held \cup HeldBy(Below)
    BY <2>1, <2>2 DEF Fits, Shaped, Expecting, Lenders
  <2>4. /\ f \in FrameType /\ f.fn = "unmarshalValue" /\ f.at = "item" /\ f.uses = Top.uses
        /\ f.own = {} /\ f.out = {} /\ f.bld = {}
    <3>1. Top.left - 1 \in Nat
      BY <2>3 DEF FrameType
    <3> QED
      BY <2>1, <2>3, <3>1 DEF FrameType, Labels
  <2> HIDE DEF f
  <2>5. Holds(f) = {} /\ Holds(Top) = Top.own /\ Parted(f) /\ Shaped(f)
    BY <2>3, <2>4 DEF Holds, Parted, Shaped, ClientCalls
  <2>6. Fits(f, Below, held)
    BY <2>1, <2>2, <2>3, <2>4, <2>5 DEF Fits, MayCall
  <2>7. Owners(HeldBy(Below) \cup Holds(f), ret', live', lost', held')
    <3>1. live' = HeldBy(Below) \cup held \cup lost
      BY <2>1, <2>2, <2>3, <2>5 DEF Owners, Fits
    <3> QED
      BY <2>1, <2>2, <2>5, <3>1 DEF Owners, Nothing
  <2> QED
    BY <2>1, <2>2, <2>6, <2>7, Put DEF Nothing
<1>7. CASE ChildFails
  <2>1. /\ stack # <<>> /\ Top.fn = "unmarshalValue" /\ Top.at = "close"
        /\ stack' = Below /\ ret' = Error /\ held' = held
    BY <1>7 DEF ChildFails, Returned
  <2>2. PICK bad \in SUBSET Top.own : lost' = lost \cup bad /\ live' = live \ (Top.own \ bad)
    BY <1>7 DEF ChildFails, CloseChild, Close
  <2>3. /\ Suspended(Below, held) /\ Fits(Top, Below, held)
        /\ Owners(HeldBy(Below) \cup Holds(Top), ret, live, lost, held)
        /\ ret.kind = "ok" => Expecting(Top, ret.val)
    BY <2>1, Taken
  <2>4. Top.out = {} /\ Top.bld = {} /\ ret.val = {}
    BY <2>1, <2>3 DEF Fits, Shaped, Expecting, Owners
  <2>5. /\ HeldBy(Below) \cap Holds(Top) = {} /\ Holds(Top) = Top.own
        /\ bad \subseteq Objects
    BY <2>3, <2>4 DEF Fits, Holds, FrameType
  <2>6. live' = HeldBy(Below) \cup held \cup lost'
    BY <2>2, <2>3, <2>4, <2>5 DEF Owners
  <2>7. Owners(HeldBy(Below), ret', live', lost', held')
    BY <2>1, <2>2, <2>3, <2>4, <2>5, <2>6 DEF Owners, Error
  <2> QED
    BY <2>1, <2>3, <2>7, Resumed DEF Error
<1> QED
    BY <1>1, <1>2, <1>3, <1>4, <1>5, <1>6, <1>7 DEF UnmarshalStep

-----------------------------------------------------------------------------
(* The handlers *)

\* No call waits on an empty stack.
LEMMA NothingWaits ==
    ASSUME NEW h
    PROVE  Suspended(<<>>, h) /\ HeldBy(<<>>) = {}
<1>1. <<>> \in Seq(FrameType) /\ Len(<<>>) = 0
    BY EmptySeq
<1>2. 1..Len(<<>>) = {} /\ 1..(Len(<<>>) - 1) = {}
    BY <1>1
<1>3. HeldBy(<<>>) = {}
    BY <1>2 DEF HeldBy, HeldUpTo
<1>4. Apart(<<>>) /\ Lent(<<>>, h)
    BY <1>2 DEF Apart, Lent
<1> QED
    BY <1>1, <1>2, <1>3, <1>4 DEF Suspended

\* A method is called with Values of the caller.
LEMMA BeginKeeps ==
    ASSUME ScopeInv, stack = <<>>, NEW f, Started(f), stack' = <<f>>,
           f.uses \subseteq held, UNCHANGED <<ret, live, lost, held>>
    PROVE  ScopeInv'
<1>1. Suspended(<<>>, held) /\ HeldBy(<<>>) = {} /\ <<>> \in Seq(FrameType)
    BY NothingWaits, EmptySeq
<1>2. stack' = Append(<<>>, f)
    OBVIOUS
<1>3. f \in FrameType /\ Holds(f) = {} /\ Parted(f) /\ Shaped(f) /\ \A v : Expecting(f, v)
    BY NewFrame DEF Started
<1>4. Fits(f, <<>>, held)
    BY <1>1, <1>3 DEF Fits
<1>5. Owners(HeldBy(<<>>) \cup Holds(f), ret, live, lost, held)
    BY <1>1, <1>3 DEF ScopeInv, Owners
<1> QED
    BY <1>1, <1>2, <1>3, <1>4, <1>5, Put

\* The caller closes a Value: nothing of it is left, unless Nix refuses.
LEMMA CloseHeldKeeps ==
    ASSUME ScopeInv, NEW v \in Objects, CloseHeld(v)
    PROVE  ScopeInv'
<1>1. stack = <<>> /\ v \in held /\ held' = held \ {v} /\ UNCHANGED <<stack, ret>>
    BY DEF CloseHeld
<1>2. PICK bad \in SUBSET {v} : lost' = lost \cup bad /\ live' = live \ ({v} \ bad)
    BY DEF CloseHeld, Close
<1>3. HeldBy(<<>>) = {}
    BY NothingWaits
<1>4. Owners({}, ret, live, lost, held)
    BY <1>1, <1>3 DEF ScopeInv
<1>5. bad = {} \/ bad = {v}
    BY <1>2
<1>6. Owners({}, ret', live', lost', held')
    BY <1>1, <1>2, <1>4, <1>5 DEF Owners
<1> QED
    BY <1>1, <1>3, <1>6 DEF ScopeInv

\* The Client's methods: the walk over the outputs, the evaluation, the decoding of
\* what they give.
LEMMA WalkOutputsKeeps ==
    ASSUME ScopeInv, NEW op \in ClientCalls, NEW resume \in {"done", "decode"},
           WalkOutputs(op, resume)
    PROVE  ScopeInv'
<1>1. stack # <<>> /\ Top.fn = op /\ Top.at = "start" /\ ret = Nothing /\ resume \in Labels
    BY DEF WalkOutputs, At, Labels
<1>2. PICK n \in 0..MaxPath :
        CallGo([Top EXCEPT !.at = resume], Frame("getOutputValue", {}, {}, n))
    BY DEF WalkOutputs
<1> DEFINE callee == Frame("getOutputValue", {}, {}, n)
<1>3. Top \in FrameType /\ Shaped(Top)
    BY <1>1, Innermost
<1>4. Shaped([Top EXCEPT !.at = resume]) /\ Waiting([Top EXCEPT !.at = resume])
    BY <1>1, <1>3, Relabelled DEF Shaped, Waiting, ClientCalls
<1>5. Started(callee) /\ callee.uses = {}
  <2>1. n \in Nat
    BY BoundsAssumption
  <2> QED
    BY <2>1 DEF Started, FrameType, Labels, GoFunctions, Frame
<1>6. CallGo([Top EXCEPT !.at = resume], callee)
    BY <1>2
<1> HIDE DEF callee
<1>7. Top.fn # "unmarshalValue"
    BY <1>1 DEF ClientCalls
<1> QED
    BY <1>1, <1>4, <1>5, <1>6, <1>7, PlainCallKeeps

\* Eval, EvalWithArgs and Unmarshal make their first call.
LEMMA FirstCallKeeps ==
    ASSUME ScopeInv, Eval \/ EvalWithArgs \/ Unmarshal
    PROVE  ScopeInv'
<1>1. CASE Eval
  <2>1. /\ stack # <<>> /\ Top.fn = "Eval" /\ Top.at = "start" /\ ret = Nothing
        /\ Obtain("decode") /\ Top \in FrameType /\ Shaped(Top) /\ "decode" \in Labels
    BY <1>1, Innermost DEF Eval, At, Labels
  <2>2. Shaped([Top EXCEPT !.at = "decode"]) /\ \A v : Expecting([Top EXCEPT !.at = "decode"], v)
    BY <2>1, Relabelled DEF Shaped, Expecting, ClientCalls
  <2> QED
    BY <2>1, <2>2, ObtainKeeps
<1>2. CASE EvalWithArgs
  <2> DEFINE callee == Frame("Evaluator.EvalWithArgs", {}, {}, 0)
  <2>1. /\ stack # <<>> /\ Top.fn = "EvalWithArgs" /\ Top.at = "start" /\ ret = Nothing
        /\ CallGo([Top EXCEPT !.at = "decode"], callee)
        /\ Top \in FrameType /\ Shaped(Top) /\ "decode" \in Labels
    BY <1>2, Innermost DEF EvalWithArgs, At, Labels
  <2>2. Shaped([Top EXCEPT !.at = "decode"]) /\ Waiting([Top EXCEPT !.at = "decode"])
    BY <2>1, Relabelled DEF Shaped, Waiting, ClientCalls
  <2>3. Started(callee) /\ callee.uses = {}
    BY DEF Started, FrameType, Labels, GoFunctions, Frame
  <2> HIDE DEF callee
  <2> QED
    BY <2>1, <2>2, <2>3, PlainCallKeeps
<1>3. CASE Unmarshal
  <2> DEFINE callee == Frame("unmarshalValue", Top.uses, {}, 0)
  <2>1. /\ stack # <<>> /\ Top.fn = "Unmarshal" /\ Top.at = "start" /\ ret = Nothing
        /\ CallGo([Top EXCEPT !.at = "done"], callee)
        /\ Top \in FrameType /\ Shaped(Top) /\ "done" \in Labels
        /\ Top.uses \subseteq held \cup HeldBy(Below) \cup Lenders(Top)
    BY <1>3, Innermost DEF Unmarshal, At, Labels
  <2>2. Shaped([Top EXCEPT !.at = "done"]) /\ Waiting([Top EXCEPT !.at = "done"])
    BY <2>1, Relabelled DEF Shaped, Waiting, ClientCalls
  <2>3. Started(callee) /\ callee.uses = Top.uses
    BY <2>1 DEF Started, FrameType, Labels, GoFunctions, Frame
  <2>4. Lenders(Top) \subseteq Holds(Top)
    BY DEF Lenders
  <2> HIDE DEF callee
  <2> QED
    BY <2>1, <2>2, <2>3, <2>4, PlainCallKeeps
<1> QED
    BY <1>1, <1>2, <1>3

\* A method decodes its result, fails, or returns.
LEMMA HandlerKeeps ==
    ASSUME ScopeInv, NEW op \in ClientCalls, NoResult(op) \/ DecodeResult(op) \/ EndCall(op)
    PROVE  ScopeInv'
<1>1. CASE NoResult(op)
    BY <1>1, PropagateKeeps DEF NoResult
<1>2. CASE DecodeResult(op)
  <2> DEFINE f == [Top EXCEPT !.at = "done", !.own = ret.val]
             callee == Frame("unmarshalValue", ret.val, {}, 0)
  <2>1. stack # <<>> /\ Top.fn = op /\ Top.at = "decode" /\ CallGo(f, callee)
    BY <1>2 DEF DecodeResult, Returned
  <2>2. Top \in FrameType /\ Shaped(Top) /\ ret.val \in SUBSET Objects /\ Top.own = {}
    BY <2>1, Innermost DEF Shaped
  <2>3. f.fn = Top.fn /\ f.at = "done"
    BY <2>2 DEF FrameType
  <2>4. /\ Started(callee) /\ callee.uses = ret.val /\ callee.fn = "unmarshalValue"
        /\ "done" \in Labels
    BY <2>2 DEF Started, FrameType, Labels, GoFunctions, Frame
  <2> HIDE DEF f, callee
  <2>5. Shaped(f)
    BY <2>1, <2>2, <2>3 DEF Shaped, ClientCalls
  <2> QED
    BY <2>1, <2>2, <2>4, <2>5, DecodeCallKeeps DEF f
<1>3. CASE EndCall(op)
  <2>1. stack # <<>> /\ Top.fn = op /\ ret # Nothing /\ Return(ret) /\ op # "unmarshalValue"
    BY <1>3 DEF EndCall, Returned, ClientCalls
  <2> QED
    BY <2>1, Returns
<1> QED
    BY <1>1, <1>2, <1>3

-----------------------------------------------------------------------------
(* Ownership of values *)

\* At the start no call is in progress and nothing is alive.
LEMMA ScopeInvInit == ScopesInit => ScopeInv
<1> SUFFICES ASSUME ScopesInit PROVE ScopeInv
    OBVIOUS
<1>1. stack \in Seq(FrameType) /\ HeldBy(stack) = {}
    BY NothingWaits, EmptySeq DEF ScopesInit
<1>2. Owners({}, ret, live, lost, held)
    BY DEF ScopesInit, Owners, Nothing
<1> QED
    BY <1>1, <1>2 DEF ScopesInit, ScopeInv

\* Every step of every Go function keeps the account.
LEMMA ScopeInvStep == ScopeInv /\ [ScopesNext]_scopeVars => ScopeInv'
<1> SUFFICES ASSUME ScopeInv, [ScopesNext]_scopeVars PROVE ScopeInv'
    OBVIOUS
<1>1. CASE UNCHANGED scopeVars
    BY <1>1 DEF ScopeInv, Top, Below, scopeVars
<1>2. ASSUME NEW op \in ClientCalls, BeginCall(op) PROVE ScopeInv'
  <2> DEFINE f == Frame(op, {}, {}, 0)
  <2>1. Started(f) /\ f.uses = {}
    BY DEF Started, FrameType, Labels, GoFunctions, Frame
  <2>2. stack = <<>> /\ stack' = <<f>> /\ UNCHANGED <<ret, live, lost, held>>
    BY <1>2 DEF BeginCall
  <2> HIDE DEF f
  <2> QED
    BY <2>1, <2>2, BeginKeeps
<1>3. ASSUME NEW v \in Objects, BeginUnmarshal(v) PROVE ScopeInv'
  <2> DEFINE f == Frame("Unmarshal", {v}, {}, 0)
  <2>1. Started(f) /\ f.uses = {v}
    BY DEF Started, FrameType, Labels, GoFunctions, ClientCalls, Frame
  <2>2. /\ stack = <<>> /\ stack' = <<f>> /\ v \in held
        /\ UNCHANGED <<ret, live, lost, held>>
    BY <1>3 DEF BeginUnmarshal
  <2> HIDE DEF f
  <2> QED
    BY <2>1, <2>2, BeginKeeps
<1>4. CASE BeginNewValue
  <2> DEFINE f == Frame("NewValue", held, {}, 0)
  <2>1. Started(f) /\ f.uses = held
    BY DEF ScopeInv, Owners, Started, FrameType, Labels, GoFunctions, Frame
  <2>2. stack = <<>> /\ stack' = <<f>> /\ UNCHANGED <<ret, live, lost, held>>
    BY <1>4 DEF BeginNewValue
  <2> HIDE DEF f
  <2> QED
    BY <2>1, <2>2, BeginKeeps
<1>5. CASE GetFlakeOutputValue \/ EvalFlakeOutput
    BY <1>5, WalkOutputsKeeps DEF GetFlakeOutputValue, EvalFlakeOutput, ClientCalls
<1>6. CASE Eval \/ EvalWithArgs \/ Unmarshal
    BY <1>6, FirstCallKeeps
<1>7. ASSUME NEW op \in ClientCalls, NoResult(op) \/ DecodeResult(op) \/ EndCall(op)
      PROVE  ScopeInv'
    BY <1>7, HandlerKeeps
<1>8. CASE GetOutputValueStep \/ NewValueStep \/ EvalWithArgsStep \/ UnmarshalStep
    BY <1>8, GetOutputValueKeeps, NewValueKeeps, EvalWithArgsKeeps, UnmarshalKeeps
<1>9. ASSUME NEW v \in Objects, CloseHeld(v) PROVE ScopeInv'
    BY <1>9, CloseHeldKeeps
<1> QED
    BY <1>1, <1>2, <1>3, <1>4, <1>5, <1>6, <1>7, <1>8, <1>9 DEF ScopesNext

\* The account of the stack says of each call what it says of the innermost one.
LEMMA EveryCall ==
    ASSUME ScopeInv
    PROVE  /\ Apart(stack)
           /\ \A i \in Depths : stack[i].uses \subseteq held \cup HeldBy(stack)
<1>1. CASE stack = <<>>
    BY <1>1, NothingWaits DEF Suspended, Apart, Depths
<1>2. CASE stack # <<>>
  <2> DEFINE n == Len(stack)
  <2>1. /\ n \in Nat \ {0} /\ Len(Below) = n - 1
        /\ \A i \in 1..(n - 1) : Below[i] = stack[i]
    BY <1>2, LowerCalls DEF ScopeInv, Below, Lower
  <2>2. Suspended(Below, held) /\ Fits(stack[n], Below, held)
    BY <1>2 DEF ScopeInv, Top
  <2>3. HeldBy(stack) = HeldBy(Below) \cup Holds(stack[n])
    BY <1>2, HeldByBoth DEF ScopeInv, Below, Lower
  <2>4. 1..n = 1..(n - 1) \cup {n} /\ n \notin 1..(n - 1) /\ Depths = 1..n
    BY <2>1 DEF Depths
  <2> HIDE DEF n
  <2>5. \A i \in 1..(n - 1) : Holds(stack[i]) \subseteq HeldBy(Below)
    BY <2>1 DEF HeldBy, HeldUpTo
  <2>6. \A i \in 1..n : Parted(stack[i])
    BY <2>1, <2>2, <2>4 DEF Suspended, Apart, Fits
  <2>7. \A i, j \in 1..(n - 1) : i # j => Holds(stack[i]) \cap Holds(stack[j]) = {}
    BY <2>1, <2>2 DEF Suspended, Apart
  <2>8. \A i \in 1..(n - 1) : Holds(stack[i]) \cap Holds(stack[n]) = {}
    BY <2>2, <2>5 DEF Fits
  <2>9. \A i, j \in 1..n : i # j => Holds(stack[i]) \cap Holds(stack[j]) = {}
    BY <2>4, <2>7, <2>8
  <2>10. ASSUME NEW i \in 1..(n - 1) PROVE stack[i].uses \subseteq held \cup HeldBy(stack)
    <3>1. stack[i].uses \subseteq held \cup HeldUpTo(Below, i - 1) \cup Lenders(stack[i])
      BY <2>1, <2>2 DEF Suspended, Lent
    <3>2. HeldUpTo(Below, i - 1) \subseteq HeldBy(Below)
      BY <2>1 DEF HeldBy, HeldUpTo
    <3>3. Lenders(stack[i]) \subseteq HeldBy(Below)
      BY <2>5 DEF Lenders
    <3> QED
      BY <2>3, <3>1, <3>2, <3>3
  <2>11. stack[n].uses \subseteq held \cup HeldBy(stack)
    BY <2>2, <2>3 DEF Fits, Lenders
  <2> QED
    BY <2>4, <2>6, <2>9, <2>10, <2>11 DEF Apart, n
<1> QED
    BY <1>1, <1>2

\* The inductive invariant: the stack of Go calls accounts for every native object.
THEOREM ValuesAccounted == ScopesSpec => []ScopeInv
BY ScopeInvInit, ScopeInvStep, PTL DEF ScopesSpec

\* In every state of every nested call, and after any failure, each live native object
\* has exactly one owner: none is leaked and none is released twice.
THEOREM EachValueOwned == ScopesSpec => []OneOwner
<1>1. ASSUME ScopeInv PROVE OneOwner
  <2>1. Owners(HeldBy(stack), ret, live, lost, held) /\ Apart(stack)
    BY <1>1, EveryCall DEF ScopeInv
  <2>2. HeldBy(stack) = UNION {Holds(stack[i]) : i \in Depths}
    BY DEF HeldBy, HeldUpTo, Depths
  <2>3. \A i \in Depths : Holds(stack[i]) \subseteq HeldBy(stack)
    BY <2>2
  <2>4. \A i \in Depths : Holds(stack[i]) \cap (ret.val \cup held \cup lost) = {}
    BY <2>1, <2>3 DEF Owners
  <2>5. live = (UNION {Holds(stack[i]) : i \in Depths}) \cup ret.val \cup held \cup lost
    BY <2>1, <2>2 DEF Owners
  <2> QED
    BY <2>1, <2>4, <2>5 DEF OneOwner, Owners, Apart, Parted, Depths
<1> QED
    BY <1>1, ValuesAccounted, PTL

\* What a call was lent - a Value being decoded, a function and its argument, the
\* caller's Values, the elements of a builder - stays alive while the call uses it.
THEOREM LentStayAlive == ScopesSpec => []LentValuesLive
<1>1. ASSUME ScopeInv PROVE LentValuesLive
  <2>1. held \cup HeldBy(stack) \subseteq live
    BY <1>1 DEF ScopeInv, Owners
  <2> QED
    BY <1>1, <2>1, EveryCall DEF LentValuesLive
<1> QED
    BY <1>1, ValuesAccounted, PTL

-----------------------------------------------------------------------------
(* The handlers together *)

\* ClientHandlers implements each of its parts: a step of one kind of handler is a
\* stutter of the others.  What is proved of a part holds of the Client.
THEOREM HandlersImplementParts == Spec => ScopesSpec /\ DaemonSpec /\ ArgsSpec
<1>1. Init => ScopesInit /\ DaemonInit /\ ArgsInit
    BY DEF Init
<1>2. [Next]_vars => [ScopesNext]_scopeVars
    BY DEF Next, ValueStep, ConnectionStep, ArgumentStep, vars
<1>3. [Next]_vars => [DaemonNext]_daemonVars
    BY DEF Next, ValueStep, ConnectionStep, ArgumentStep, vars
<1>4. [Next]_vars => [ArgsNext]_argVars
    BY DEF Next, ValueStep, ConnectionStep, ArgumentStep, vars
<1> QED
    BY <1>1, <1>2, <1>3, <1>4, PTL DEF Spec, ScopesSpec, DaemonSpec, ArgsSpec

\* Type correctness of the handlers of a Client.
THEOREM HandlersTypeCorrect == Spec => []TypeOK
<1>1. ScopeInv /\ DaemonInv /\ ArgsInv => TypeOK
    BY DEF ScopeInv, Owners, DaemonInv, ArgsInv, TypeOK, ScopesTypeOK
<1> QED
    BY <1>1, HandlersImplementParts, ValuesAccounted, TableAccounted, MemoryAccounted, PTL

\* A Client keeps what its handlers promise, whichever of them it runs: the ownership of
\* values, the descriptors of the process, and the memory of the arguments it passes to
\* Nix.
THEOREM HandlersKeepTheirPromises ==
    Spec => [](/\ OneOwner /\ LentValuesLive
               /\ OthersUntouched /\ NoDuplicateLeft /\ ServesWhatWasAsked
               /\ FreedOnce /\ ArgumentsLive /\ OnlyKnownLeaks)
BY HandlersImplementParts, EachValueOwned, LentStayAlive, OnlyDuplicatesTouched,
   DuplicatesClosed, RightConnectionServed, NothingFreedTwice, CReadsLiveMemory,
   LeaksAreKnown, PTL

=============================================================================
