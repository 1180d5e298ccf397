----------------------- MODULE ClientMiddlewareProofs -----------------------
(***************************************************************************)
(* Proofs about ClientMiddleware, for every set of Clients, Callers and    *)
(* Flakes and every choice of remote stores and failing calls.             *)
(***************************************************************************)
EXTENDS ClientMiddleware, TLAPS

-----------------------------------------------------------------------------
(* Type correctness *)

\* The types hold at the start.
LEMMA TypeInit == Init => TypeOK
<1>1. AnyClient \in Clients
  BY ClientsAssumption DEF AnyClient
<1> SUFFICES ASSUME Init PROVE TypeOK
  OBVIOUS
<1>2. /\ busy \in [Clients -> BOOLEAN]
      /\ handles \in [Clients -> SUBSET Parts]
      /\ resources \in [Clients -> SUBSET Flakes]
      /\ flakeOpen \in SUBSET Flakes
      /\ interrupted \in BOOLEAN
      /\ linkUp \in [Clients -> BOOLEAN]
  BY DEF Init
<1>3. /\ pc \in [Callers -> PCs]
      /\ client \in [Callers -> Clients]
      /\ op \in [Callers -> Methods]
      /\ ctxDone \in [Callers -> BOOLEAN]
      /\ handler \in [Callers -> {"none", "running", "blocked"}]
  BY <1>1 DEF Init, PCs, Methods
<1>4. /\ doneChan \in [Callers -> Answers \cup {"empty"}]
      /\ interruptCtx \in [Callers -> BOOLEAN]
      /\ held \in [Callers -> SUBSET Clients]
      /\ reply \in [Callers -> Replies]
  BY DEF Init, Replies, Answers
<1>5. QED
  BY <1>2, <1>3, <1>4 DEF TypeOK

\* Every step of middleware, the handlers and closeLocked keeps them.
LEMMA TypeStep == TypeOK /\ [Next]_vars => TypeOK'
<1> SUFFICES ASSUME TypeOK, [Next]_vars PROVE TypeOK'
  OBVIOUS
<1> USE DEF TypeOK, PCs, Methods, Replies, Answers
<1>1. ASSUME NEW p \in Callers, NEW c \in Clients, NEW m \in Methods,
             Reject(p, c, m) \/ Acquire(p, c, m)
      PROVE  TypeOK'
  <2>1. CASE Reject(p, c, m)
    BY <2>1 DEF Reject
  <2>2. CASE Acquire(p, c, m)
    BY <2>2 DEF Acquire
  <2>3. QED
    BY <1>1, <2>1, <2>2
<1>2. ASSUME NEW p \in Callers, CheckClosed(p) \/ StartHandler(p) \/ Return(p)
      PROVE  TypeOK'
  BY <1>2 DEF CheckClosed, StartHandler, Return
<1>3. ASSUME NEW p \in Callers, NEW a \in Answers, Leaves(p, a)
      PROVE  /\ resources' \in [Clients -> SUBSET Flakes]
             /\ flakeOpen' \in SUBSET Flakes
             /\ held' \in [Callers -> SUBSET Clients]
  BY <1>3 DEF Leaves, Track
<1>4. ASSUME NEW p \in Callers, NEW a \in Answers, Answer(p, a), Leaves(p, a)
      PROVE  TypeOK'
  BY <1>3, <1>4 DEF Answer
<1>5. ASSUME NEW p \in Callers, FinishWork(p) \/ SeeInterrupt(p) \/ SeeContext(p) \/ ReadFails(p)
      PROVE  TypeOK'
  BY <1>4, <1>5 DEF FinishWork, SeeInterrupt, SeeContext, ReadFails
<1>6. ASSUME NEW p \in Callers, Block(p) \/ DaemonReplies(p) \/ CancelContext(p)
      PROVE  TypeOK'
  BY <1>6 DEF Block, DaemonReplies, CancelContext
<1>7. ASSUME NEW p \in Callers, SelectDone(p) \/ SelectCanceled(p) \/ Await(p)
      PROVE  TypeOK'
  BY <1>7 DEF SelectDone, SelectCanceled, Await, Answered
<1>8. ASSUME NEW p \in Callers, InterruptRequest(p) \/ NewContext(p) \/ InterruptClear(p)
      PROVE  TypeOK'
  BY <1>8 DEF InterruptRequest, NewContext, InterruptClear, RaiseInterrupt, LowerInterrupt
<1>9. ASSUME NEW p \in Callers, StoreInterrupt(p)
      PROVE  TypeOK'
  BY <1>9 DEF StoreInterrupt, RaiseInterrupt
<1>10. ASSUME NEW p \in Callers, CloseTracked(p) \/ CloseOwned(p) \/ CloseDone(p)
       PROVE  TypeOK'
  BY <1>10 DEF CloseTracked, CloseOwned, CloseDone
<1>11. ASSUME NEW c \in Clients, NEW f \in Flakes, CloseFlakeEarly(c, f)
       PROVE  TypeOK'
  BY <1>11 DEF CloseFlakeEarly
<1>12. ASSUME NEW p \in Callers, NEW c \in Clients, CloseValue(p, c)
       PROVE  TypeOK'
  BY <1>12 DEF CloseValue
<1>13. CASE UNCHANGED vars
  BY <1>13 DEF vars
<1>14. QED
  BY <1>1, <1>2, <1>5, <1>6, <1>7, <1>8, <1>9, <1>10, <1>11, <1>12, <1>13
     DEF Next, CallerStep, HandlerStep

\* The state of every Client and every call keeps its type through all steps of
\* middleware, the handlers and closeLocked.
THEOREM TypeCorrect == Spec => []TypeOK
BY TypeInit, TypeStep, PTL DEF Spec

-----------------------------------------------------------------------------
(* The inductive invariant.  NoUseAfterClose and OneOperationPerClient are   *)
(* not inductive: a step of closeLocked keeps the first only because no      *)
(* handler is left, and a handler starts on a complete Client only because   *)
(* a partly closed one is in the hands of the call that is closing it.       *)

\* From the start of the handler to the receive of its answer.
AtWork == {"select", "request", "newContext", "storeInterrupt", "await"}

\* A handler lives, and its answer waits, only while its call is at work.
HandlerInv ==
    \A p \in Callers :
       /\ handler[p] # "none" => pc[p] \in AtWork /\ doneChan[p] = "empty"
       /\ doneChan[p] # "empty" => pc[p] \in AtWork

\* The sets of open resources closeLocked passes through.
Stages == {Parts,
           {"store", "flakeSettings", "fetcherSettings", "ctx"},
           {"flakeSettings", "fetcherSettings", "ctx"},
           {"fetcherSettings", "ctx"},
           {"ctx"},
           {}}

StageInv == \A c \in Clients : handles[c] \in Stages

\* Owned resources are closed after the tracked Flakes, and a partly closed
\* Client is inside closeLocked.
ClosingInv ==
    \A c \in Clients :
       /\ handles[c] # Parts => resources[c] = {}
       /\ handles[c] \notin {Parts, {}} =>
            \E p \in Callers : pc[p] = "close" /\ client[p] = c

\* A call at work found the Client complete, and nobody has closed it since.
CompleteInv ==
    \A p \in Callers : pc[p] \in AtWork \cup {"clear"} => handles[client[p]] = Parts

FlakeInv == \A f \in flakeOpen : \E c \in Clients : f \in resources[c]

ReplyInv ==
    \A p \in Callers :
       /\ reply[p] \in {"canceled", "closed", "ErrClosed"} => handles[client[p]] = {}
       /\ pc[p] = "return" => reply[p] # "none"

IInv ==
    /\ TypeOK
    /\ OneOperationPerClient
    /\ HandlerInv
    /\ StageInv
    /\ ClosingInv
    /\ CompleteInv
    /\ FlakeInv
    /\ ReplyInv

-----------------------------------------------------------------------------
(* Mutual exclusion needs nothing but the types. *)

\* The compare-and-swap on busy and its deferred reset keep operations apart.
LEMMA ExclusionStep ==
  TypeOK /\ OneOperationPerClient /\ [Next]_vars => OneOperationPerClient'
<1> SUFFICES ASSUME TypeOK, OneOperationPerClient, [Next]_vars
             PROVE  OneOperationPerClient'
  OBVIOUS
<1> USE DEF TypeOK, OneOperationPerClient
<1>1. ASSUME NEW p \in Callers, NEW c \in Clients, NEW m \in Methods, Reject(p, c, m)
      PROVE  OneOperationPerClient'
  BY <1>1 DEF Reject
<1>2. ASSUME NEW p \in Callers, NEW c \in Clients, NEW m \in Methods, Acquire(p, c, m)
      PROVE  OneOperationPerClient'
  BY <1>2 DEF Acquire, CanAcquire
<1>3. ASSUME NEW p \in Callers, Return(p)
      PROVE  OneOperationPerClient'
  BY <1>3 DEF Return
<1>4. ASSUME NEW p \in Callers, pc[p] # "idle", UNCHANGED <<busy, client>>,
             \E s \in PCs \ {"idle"} : pc' = [pc EXCEPT ![p] = s]
      PROVE  OneOperationPerClient'
  BY <1>4
<1>5. ASSUME NEW p \in Callers, CallerStep(p), ~Return(p)
      PROVE  OneOperationPerClient'
  <2>1. CASE CloseTracked(p) \/ CloseOwned(p)
    BY <2>1 DEF CloseTracked, CloseOwned
  <2>2. CASE ~(CloseTracked(p) \/ CloseOwned(p))
    BY <1>4, <1>5, <2>2
       DEF CallerStep, CheckClosed, StartHandler, SelectDone, SelectCanceled,
           InterruptRequest, NewContext, StoreInterrupt, Await, InterruptClear,
           CloseDone, PCs
  <2>3. QED
    BY <2>1, <2>2
<1>6. ASSUME UNCHANGED <<busy, client, pc>>
      PROVE  OneOperationPerClient'
  BY <1>6
<1>7. ASSUME NEW p \in Callers, HandlerStep(p) \/ CancelContext(p)
      PROVE  OneOperationPerClient'
  BY <1>6, <1>7
     DEF HandlerStep, CancelContext, FinishWork, SeeInterrupt, SeeContext, Block,
         DaemonReplies, ReadFails, Answer
<1>8. ASSUME NEW c \in Clients, NEW f \in Flakes, CloseFlakeEarly(c, f)
      PROVE  OneOperationPerClient'
  BY <1>6, <1>8 DEF CloseFlakeEarly
<1>9. ASSUME NEW p \in Callers, NEW c \in Clients, CloseValue(p, c)
      PROVE  OneOperationPerClient'
  BY <1>6, <1>9 DEF CloseValue
<1>10. CASE UNCHANGED vars
  BY <1>6, <1>10 DEF vars
<1>11. QED
  BY <1>1, <1>2, <1>3, <1>5, <1>7, <1>8, <1>9, <1>10 DEF Next

-----------------------------------------------------------------------------
(* The rest of the invariant, one action at a time. *)

\* What closeLocked closes at each stage, and where that leaves the Client.
LEMMA NextStage ==
  ASSUME NEW h \in Stages, NEW part \in NextToClose(h)
  PROVE  /\ h \ {part} \in Stages
         /\ h \ {part} # Parts
<1> USE DEF NextToClose, CloseRank, Parts
<1>1. CASE h = Parts
  <2>1. part = "evaluator"
    BY <1>1
  <2>2. QED
    BY <1>1, <2>1 DEF Stages
<1>2. CASE h = {"store", "flakeSettings", "fetcherSettings", "ctx"}
  <2>1. part = "store"
    BY <1>2
  <2>2. QED
    BY <1>2, <2>1 DEF Stages
<1>3. CASE h = {"flakeSettings", "fetcherSettings", "ctx"}
  <2>1. part = "flakeSettings"
    BY <1>3
  <2>2. QED
    BY <1>3, <2>1 DEF Stages
<1>4. CASE h = {"fetcherSettings", "ctx"}
  <2>1. part = "fetcherSettings"
    BY <1>4
  <2>2. QED
    BY <1>4, <2>1 DEF Stages
<1>5. CASE h = {"ctx"}
  BY <1>5 DEF Stages
<1>6. CASE h = {}
  BY <1>6
<1>7. QED
  BY <1>1, <1>2, <1>3, <1>4, <1>5, <1>6 DEF Stages

\* Among the stages, only the last has no context, and it has nothing else.
LEMMA ClosedStage ==
  ASSUME NEW h \in Stages, "ctx" \notin h
  PROVE  h = {}
BY DEF Stages, Parts

\* Every step of the Client keeps the inductive invariant.
LEMMA StepKeepsIInv == IInv /\ [Next]_vars => IInv'
<1> SUFFICES ASSUME IInv, [Next]_vars PROVE IInv'
  OBVIOUS
<1>t. TypeOK' /\ OneOperationPerClient'
  BY ExclusionStep, TypeStep DEF IInv
<1> DEFINE Rest == HandlerInv /\ StageInv /\ ClosingInv /\ CompleteInv /\ FlakeInv /\ ReplyInv
<1> SUFFICES Rest'
  BY <1>t DEF IInv
<1> USE DEF IInv, TypeOK
<1>1. ASSUME NEW p \in Callers, NEW c \in Clients, NEW m \in Methods, Reject(p, c, m)
      PROVE  Rest'
  <2>1. HandlerInv'
    BY <1>1 DEF Reject, HandlerInv
  <2>2. StageInv' /\ ClosingInv'
    BY <1>1 DEF Reject, StageInv, ClosingInv, OneOperationPerClient
  <2>3. CompleteInv'
    BY <1>1 DEF Reject, CompleteInv, AtWork
  <2>4. FlakeInv' /\ ReplyInv'
    BY <1>1 DEF Reject, FlakeInv, ReplyInv
  <2>5. QED
    BY <2>1, <2>2, <2>3, <2>4
<1>2. ASSUME NEW p \in Callers, NEW c \in Clients, NEW m \in Methods, Acquire(p, c, m)
      PROVE  Rest'
  <2>1. HandlerInv'
    BY <1>2 DEF Acquire, CanAcquire, HandlerInv, AtWork
  <2>2. StageInv' /\ ClosingInv'
    BY <1>2 DEF Acquire, CanAcquire, StageInv, ClosingInv, OneOperationPerClient
  <2>3. CompleteInv'
    BY <1>2 DEF Acquire, CanAcquire, CompleteInv, AtWork
  <2>4. FlakeInv' /\ ReplyInv'
    BY <1>2 DEF Acquire, CanAcquire, FlakeInv, ReplyInv
  <2>5. QED
    BY <2>1, <2>2, <2>3, <2>4
<1>3. ASSUME NEW p \in Callers, CheckClosed(p)
      PROVE  Rest'
  <2>1. HandlerInv'
    BY <1>3 DEF CheckClosed, HandlerInv, AtWork
  <2>2. StageInv' /\ ClosingInv'
    BY <1>3 DEF CheckClosed, StageInv, ClosingInv
  <2>3. CompleteInv'
    BY <1>3 DEF CheckClosed, CompleteInv, AtWork
  <2>4. FlakeInv'
    BY <1>3 DEF CheckClosed, FlakeInv
  <2>5. ReplyInv'
    BY <1>3, ClosedStage DEF CheckClosed, ReplyInv, Closed, StageInv
  <2>6. QED
    BY <2>1, <2>2, <2>3, <2>4, <2>5
<1>4. ASSUME NEW p \in Callers, StartHandler(p)
      PROVE  Rest'
  <2>1. handles[client[p]] = Parts
    <3>1. handles[client[p]] # {}
      BY <1>4 DEF StartHandler, CanStart, Closed
    <3>2. ~\E q \in Callers : pc[q] = "close" /\ client[q] = client[p]
      BY <1>4 DEF StartHandler, OneOperationPerClient
    <3>3. QED
      BY <3>1, <3>2 DEF ClosingInv
  <2>2. HandlerInv'
    BY <1>4 DEF StartHandler, HandlerInv, AtWork
  <2>3. StageInv' /\ ClosingInv'
    BY <1>4 DEF StartHandler, StageInv, ClosingInv
  <2>4. CompleteInv'
    BY <1>4, <2>1 DEF StartHandler, CompleteInv, AtWork
  <2>5. FlakeInv' /\ ReplyInv'
    BY <1>4 DEF StartHandler, FlakeInv, ReplyInv
  <2>6. QED
    BY <2>1, <2>2, <2>3, <2>4, <2>5
<1>5. ASSUME NEW p \in Callers, Return(p)
      PROVE  Rest'
  <2>1. HandlerInv'
    BY <1>5 DEF Return, HandlerInv, AtWork
  <2>2. StageInv' /\ ClosingInv'
    BY <1>5 DEF Return, StageInv, ClosingInv
  <2>3. CompleteInv'
    BY <1>5 DEF Return, CompleteInv, AtWork
  <2>4. FlakeInv' /\ ReplyInv'
    BY <1>5 DEF Return, FlakeInv, ReplyInv
  <2>5. QED
    BY <2>1, <2>2, <2>3, <2>4
<1>6. ASSUME NEW p \in Callers, NEW a \in Answers, handler[p] # "none", Answer(p, a), Leaves(p, a)
      PROVE  Rest'
  <2>1. handles[client[p]] = Parts
    BY <1>6 DEF HandlerInv, CompleteInv
  <2>2. HandlerInv'
    BY <1>6 DEF Answer, HandlerInv, Answers
  <2>3. StageInv'
    BY <1>6 DEF Answer, StageInv
  <2>4. ClosingInv'
    BY <1>6, <2>1 DEF Answer, ClosingInv, Leaves, Track
  <2>5. CompleteInv'
    BY <1>6 DEF Answer, CompleteInv
  <2>6. FlakeInv'
    BY <1>6 DEF Answer, FlakeInv, Leaves, Track
  <2>7. ReplyInv'
    BY <1>6 DEF Answer, ReplyInv
  <2>8. QED
    BY <2>1, <2>2, <2>3, <2>4, <2>5, <2>6, <2>7
<1>7. ASSUME NEW p \in Callers, FinishWork(p) \/ SeeInterrupt(p) \/ SeeContext(p) \/ ReadFails(p)
      PROVE  Rest'
  BY <1>6, <1>7 DEF FinishWork, SeeInterrupt, SeeContext, ReadFails, Answers
<1>8. ASSUME NEW p \in Callers, Block(p) \/ DaemonReplies(p) \/ CancelContext(p)
      PROVE  Rest'
  <2>1. HandlerInv'
    BY <1>8 DEF Block, DaemonReplies, CancelContext, HandlerInv
  <2>2. StageInv' /\ ClosingInv'
    BY <1>8 DEF Block, DaemonReplies, CancelContext, StageInv, ClosingInv
  <2>3. CompleteInv'
    BY <1>8 DEF Block, DaemonReplies, CancelContext, CompleteInv
  <2>4. FlakeInv' /\ ReplyInv'
    BY <1>8 DEF Block, DaemonReplies, CancelContext, FlakeInv, ReplyInv
  <2>5. QED
    BY <2>1, <2>2, <2>3, <2>4
<1>9. ASSUME NEW p \in Callers, SelectDone(p)
      PROVE  Rest'
  <2>1. HandlerInv'
    BY <1>9 DEF SelectDone, HandlerInv, Answered
  <2>2. StageInv' /\ ClosingInv'
    BY <1>9 DEF SelectDone, StageInv, ClosingInv
  <2>3. CompleteInv'
    BY <1>9 DEF SelectDone, CompleteInv, AtWork
  <2>4. FlakeInv'
    BY <1>9 DEF SelectDone, FlakeInv
  <2>5. ReplyInv'
    BY <1>9 DEF SelectDone, ReplyInv, Answers
  <2>6. QED
    BY <2>1, <2>2, <2>3, <2>4, <2>5
<1>10. ASSUME NEW p \in Callers, SelectCanceled(p)
      PROVE  Rest'
  <2>1. HandlerInv'
    BY <1>10 DEF SelectCanceled, HandlerInv, AtWork
  <2>2. StageInv' /\ ClosingInv'
    BY <1>10 DEF SelectCanceled, StageInv, ClosingInv
  <2>3. CompleteInv'
    BY <1>10 DEF SelectCanceled, CompleteInv, AtWork
  <2>4. FlakeInv' /\ ReplyInv'
    BY <1>10 DEF SelectCanceled, FlakeInv, ReplyInv
  <2>5. QED
    BY <2>1, <2>2, <2>3, <2>4
<1>11. ASSUME NEW p \in Callers, Await(p)
      PROVE  Rest'
  <2>1. HandlerInv'
    BY <1>11 DEF Await, HandlerInv, Answered
  <2>2. StageInv' /\ ClosingInv'
    BY <1>11 DEF Await, StageInv, ClosingInv
  <2>3. CompleteInv'
    BY <1>11 DEF Await, CompleteInv, AtWork
  <2>4. FlakeInv' /\ ReplyInv'
    BY <1>11 DEF Await, FlakeInv, ReplyInv
  <2>5. QED
    BY <2>1, <2>2, <2>3, <2>4
<1>12. ASSUME NEW p \in Callers, InterruptRequest(p) \/ NewContext(p) \/ StoreInterrupt(p)
      PROVE  Rest'
  <2>1. HandlerInv'
    BY <1>12 DEF InterruptRequest, NewContext, StoreInterrupt, HandlerInv, AtWork
  <2>2. StageInv' /\ ClosingInv'
    BY <1>12 DEF InterruptRequest, NewContext, StoreInterrupt, StageInv, ClosingInv
  <2>3. CompleteInv'
    BY <1>12 DEF InterruptRequest, NewContext, StoreInterrupt, CompleteInv, AtWork
  <2>4. FlakeInv' /\ ReplyInv'
    BY <1>12 DEF InterruptRequest, NewContext, StoreInterrupt, FlakeInv, ReplyInv
  <2>5. QED
    BY <2>1, <2>2, <2>3, <2>4
<1>13. ASSUME NEW p \in Callers, InterruptClear(p)
      PROVE  Rest'
  <2>1. HandlerInv'
    BY <1>13 DEF InterruptClear, HandlerInv, AtWork
  <2>2. StageInv' /\ ClosingInv'
    BY <1>13 DEF InterruptClear, StageInv, ClosingInv
  <2>3. CompleteInv'
    BY <1>13 DEF InterruptClear, CompleteInv, AtWork
  <2>4. FlakeInv' /\ ReplyInv'
    BY <1>13 DEF InterruptClear, FlakeInv, ReplyInv
  <2>5. QED
    BY <2>1, <2>2, <2>3, <2>4
<1>14. ASSUME NEW p \in Callers, CloseTracked(p)
      PROVE  Rest'
  <2>1. HandlerInv'
    BY <1>14 DEF CloseTracked, HandlerInv
  <2>2. StageInv' /\ ClosingInv'
    BY <1>14 DEF CloseTracked, StageInv, ClosingInv
  <2>3. CompleteInv'
    BY <1>14 DEF CloseTracked, CompleteInv
  <2>4. FlakeInv' /\ ReplyInv'
    BY <1>14 DEF CloseTracked, FlakeInv, ReplyInv
  <2>5. QED
    BY <2>1, <2>2, <2>3, <2>4
<1>15. ASSUME NEW p \in Callers, CloseOwned(p)
      PROVE  Rest'
  <2>1. PICK part \in NextToClose(handles[client[p]]) :
               handles' = [handles EXCEPT ![client[p]] = @ \ {part}]
    BY <1>15 DEF CloseOwned
  <2>2. /\ handles[client[p]] \ {part} \in Stages
        /\ handles[client[p]] \ {part} # Parts
    BY NextStage DEF StageInv
  <2>3. \A q \in Callers : pc[q] \in AtWork \cup {"clear"} => client[q] # client[p]
    BY <1>15 DEF CloseOwned, OneOperationPerClient, AtWork
  <2>4. HandlerInv'
    BY <1>15 DEF CloseOwned, HandlerInv
  <2>5. StageInv'
    BY <1>15, <2>1, <2>2 DEF CloseOwned, StageInv
  <2>6. ClosingInv'
    BY <1>15, <2>1, <2>2 DEF CloseOwned, ClosingInv, TrackedClosed
  <2>7. CompleteInv'
    BY <1>15, <2>1, <2>3 DEF CloseOwned, CompleteInv
  <2>8. FlakeInv'
    BY <1>15 DEF CloseOwned, FlakeInv
  <2>9. ReplyInv'
    BY <1>15, <2>1 DEF CloseOwned, ReplyInv, Closed
  <2>10. QED
    BY <2>1, <2>2, <2>3, <2>4, <2>5, <2>6, <2>7, <2>8, <2>9
<1>16. ASSUME NEW p \in Callers, CloseDone(p)
      PROVE  Rest'
  <2>1. handles[client[p]] = {}
    BY <1>16, ClosedStage DEF CloseDone, Closed, StageInv
  <2>2. HandlerInv'
    BY <1>16 DEF CloseDone, HandlerInv, AtWork
  <2>3. StageInv'
    BY <1>16 DEF CloseDone, StageInv
  <2>4. ClosingInv'
    BY <1>16, <2>1 DEF CloseDone, ClosingInv
  <2>5. CompleteInv'
    BY <1>16 DEF CloseDone, CompleteInv, AtWork
  <2>6. FlakeInv'
    BY <1>16 DEF CloseDone, FlakeInv
  <2>7. ReplyInv'
    BY <1>16, <2>1 DEF CloseDone, ReplyInv
  <2>8. QED
    BY <2>1, <2>2, <2>3, <2>4, <2>5, <2>6, <2>7
<1>17. ASSUME NEW c \in Clients, NEW f \in Flakes, CloseFlakeEarly(c, f)
      PROVE  Rest'
  <2>1. HandlerInv'
    BY <1>17 DEF CloseFlakeEarly, HandlerInv
  <2>2. StageInv' /\ ClosingInv'
    BY <1>17 DEF CloseFlakeEarly, StageInv, ClosingInv
  <2>3. CompleteInv'
    BY <1>17 DEF CloseFlakeEarly, CompleteInv
  <2>4. FlakeInv' /\ ReplyInv'
    BY <1>17 DEF CloseFlakeEarly, FlakeInv, ReplyInv
  <2>5. QED
    BY <2>1, <2>2, <2>3, <2>4
<1>18. ASSUME NEW p \in Callers, NEW c \in Clients, CloseValue(p, c)
      PROVE  Rest'
  <2>1. HandlerInv'
    BY <1>18 DEF CloseValue, HandlerInv
  <2>2. StageInv' /\ ClosingInv'
    BY <1>18 DEF CloseValue, StageInv, ClosingInv
  <2>3. CompleteInv'
    BY <1>18 DEF CloseValue, CompleteInv
  <2>4. FlakeInv' /\ ReplyInv'
    BY <1>18 DEF CloseValue, FlakeInv, ReplyInv
  <2>5. QED
    BY <2>1, <2>2, <2>3, <2>4
<1>19. ASSUME UNCHANGED vars
      PROVE  Rest'
  <2>1. HandlerInv'
    BY <1>19 DEF vars, HandlerInv
  <2>2. StageInv' /\ ClosingInv'
    BY <1>19 DEF vars, StageInv, ClosingInv
  <2>3. CompleteInv'
    BY <1>19 DEF vars, CompleteInv
  <2>4. FlakeInv' /\ ReplyInv'
    BY <1>19 DEF vars, FlakeInv, ReplyInv
  <2>5. QED
    BY <2>1, <2>2, <2>3, <2>4
<1>20. QED
  BY <1>1, <1>2, <1>3, <1>4, <1>5, <1>7, <1>8, <1>9, <1>10, <1>11, <1>12, <1>13, <1>14, <1>15, <1>16, <1>17, <1>18, <1>19 DEF Next, CallerStep, HandlerStep

\* The invariant holds at the start.
LEMMA InitGivesIInv == Init => IInv
<1> SUFFICES ASSUME Init PROVE IInv
  OBVIOUS
<1>1. TypeOK
  BY TypeInit
<1>2. OneOperationPerClient /\ HandlerInv /\ CompleteInv
  BY DEF Init, OneOperationPerClient, HandlerInv, CompleteInv, AtWork
<1>3. StageInv /\ ClosingInv /\ FlakeInv /\ ReplyInv
  BY DEF Init, StageInv, Stages, ClosingInv, FlakeInv, ReplyInv
<1>4. QED
  BY <1>1, <1>2, <1>3 DEF IInv

\* The inductive invariant of Client.middleware holds in every reachable state.
THEOREM Invariance == Spec => []IInv
BY InitGivesIInv, StepKeepsIInv, PTL DEF Spec

-----------------------------------------------------------------------------
(* Safety *)

\* While the goroutine of an operation is at work, nothing it may have borrowed
\* from the Client is closed: the cancellation branch waits before closeLocked.
THEOREM NoHandlerUsesClosedClient == Spec => []NoUseAfterClose
<1>1. IInv => NoUseAfterClose
  BY DEF IInv, HandlerInv, CompleteInv, NoUseAfterClose
<1>2. QED
  BY Invariance, <1>1, PTL

\* busy admits one operation at a time and is never left behind.
THEOREM OperationsAreSerialPerClient == Spec => []OneOperationPerClient
<1>1. IInv => OneOperationPerClient
  BY DEF IInv
<1>2. QED
  BY Invariance, <1>1, PTL

\* closeLocked never closes a resource that an open one borrows.
THEOREM ClosesInReverseDependencyOrder == Spec => []ReverseDependencyOrder
<1>1. ASSUME NEW h \in Stages, NEW part \in h
      PROVE  Borrows[part] \subseteq h
  BY DEF Stages, Parts, Borrows
<1>2. IInv => ReverseDependencyOrder
  BY <1>1 DEF IInv, StageInv, ClosingInv, ReverseDependencyOrder
<1>3. QED
  BY Invariance, <1>2, PTL

\* Every live Flake is tracked by an open Client.
THEOREM FlakesAreTracked == Spec => []OpenFlakesTracked
<1>1. IInv => OpenFlakesTracked
  BY DEF IInv, TypeOK, FlakeInv, ClosingInv, OpenFlakesTracked, Closed, Parts
<1>2. QED
  BY Invariance, <1>1, PTL

\* Cancellation and Close leave nothing open, for good.
THEOREM CancellationReleasesEverything == Spec => []CanceledClientIsClosed
<1>1. {} # Parts
  BY DEF Parts
<1>2. IInv => CanceledClientIsClosed
  BY <1>1 DEF IInv, TypeOK, ReplyInv, ClosingInv, CanceledClientIsClosed
<1>3. QED
  BY Invariance, <1>2, PTL

-----------------------------------------------------------------------------
(* Interruption.  The flag of the process is harmless as long as no two      *)
(* operations of the process overlap.                                        *)

\* Between InterruptRequest and InterruptClear.
Raising == {"newContext", "storeInterrupt", "await", "clear"}

InterruptInv ==
    /\ interrupted => \E p \in Callers : pc[p] \in Raising
    /\ \A p \in Callers :
         /\ pc[p] \in Raising \cup {"request"} => ctxDone[p]
         /\ doneChan[p] = "interrupted" => pc[p] \in Raising
         /\ reply[p] # "interrupted"

\* A step between two states in which operations do not overlap keeps
\* interruptions with the calls that asked for them.
LEMMA InterruptStep ==
  IInv /\ InterruptInv /\ SerialProcess /\ [Next]_vars => InterruptInv'
<1> SUFFICES ASSUME IInv, InterruptInv, SerialProcess, [Next]_vars
             PROVE  InterruptInv'
  OBVIOUS
<1> USE DEF IInv, TypeOK, InterruptInv
<1>1. ASSUME NEW p \in Callers, NEW c \in Clients, NEW m \in Methods,
             Reject(p, c, m) \/ Acquire(p, c, m)
      PROVE  InterruptInv'
  <2>1. CASE Reject(p, c, m)
    BY <2>1 DEF Reject
  <2>2. CASE Acquire(p, c, m)
    BY <2>2 DEF Acquire, Raising, HandlerInv, AtWork
  <2>3. QED
    BY <1>1, <2>1, <2>2
<1>2. ASSUME NEW p \in Callers, CheckClosed(p) \/ StartHandler(p)
      PROVE  InterruptInv'
  BY <1>2 DEF CheckClosed, StartHandler, Raising
<1>3. ASSUME NEW p \in Callers, Return(p)
      PROVE  InterruptInv'
  BY <1>3 DEF Return, Raising
<1>4. ASSUME NEW p \in Callers, NEW a \in Answers, Answer(p, a),
             a = "interrupted" => pc[p] \in Raising
      PROVE  InterruptInv'
  BY <1>4 DEF Answer
<1>5. ASSUME NEW p \in Callers, FinishWork(p) \/ SeeContext(p) \/ ReadFails(p)
      PROVE  InterruptInv'
  BY <1>4, <1>5 DEF FinishWork, SeeContext, ReadFails, Answers
<1>6. ASSUME NEW p \in Callers, SeeInterrupt(p)
      PROVE  InterruptInv'
  <2>1. PICK q \in Callers : pc[q] \in Raising
    BY <1>6 DEF SeeInterrupt
  <2>2. pc[p] # "idle" /\ pc[q] # "idle"
    BY <1>6, <2>1 DEF SeeInterrupt, HandlerInv, AtWork, Raising
  <2>3. p = q
    BY <2>2 DEF SerialProcess
  <2>4. QED
    BY <1>4, <1>6, <2>1, <2>3 DEF SeeInterrupt, Answers
<1>7. ASSUME NEW p \in Callers, Block(p) \/ DaemonReplies(p) \/ CancelContext(p)
      PROVE  InterruptInv'
  BY <1>7 DEF Block, DaemonReplies, CancelContext
<1>8. ASSUME NEW p \in Callers, SelectDone(p)
      PROVE  InterruptInv'
  BY <1>8 DEF SelectDone, Raising
<1>9. ASSUME NEW p \in Callers, SelectCanceled(p) \/ Await(p)
      PROVE  InterruptInv'
  BY <1>9 DEF SelectCanceled, Await, Raising
<1>10. ASSUME NEW p \in Callers, InterruptRequest(p) \/ NewContext(p) \/ StoreInterrupt(p)
       PROVE  InterruptInv'
  BY <1>10 DEF InterruptRequest, NewContext, StoreInterrupt, RaiseInterrupt, Raising
<1>11. ASSUME NEW p \in Callers, InterruptClear(p)
       PROVE  InterruptInv'
  <2>1. doneChan[p] = "empty"
    BY <1>11 DEF InterruptClear, HandlerInv, AtWork
  <2>2. QED
    BY <1>11, <2>1 DEF InterruptClear, LowerInterrupt, Raising
<1>12. ASSUME NEW p \in Callers, CloseTracked(p) \/ CloseOwned(p)
       PROVE  InterruptInv'
  BY <1>12 DEF CloseTracked, CloseOwned
<1>13. ASSUME NEW p \in Callers, CloseDone(p)
       PROVE  InterruptInv'
  BY <1>13 DEF CloseDone, Raising
<1>14. ASSUME NEW c \in Clients, NEW f \in Flakes, CloseFlakeEarly(c, f)
       PROVE  InterruptInv'
  BY <1>14 DEF CloseFlakeEarly
<1>15. ASSUME NEW p \in Callers, NEW c \in Clients, CloseValue(p, c)
       PROVE  InterruptInv'
  BY <1>15 DEF CloseValue
<1>16. CASE UNCHANGED vars
  BY <1>16 DEF vars
<1>17. QED
  BY <1>1, <1>2, <1>3, <1>5, <1>6, <1>7, <1>8, <1>9, <1>10, <1>11, <1>12, <1>13,
     <1>14, <1>15, <1>16 DEF Next, CallerStep, HandlerStep

\* InterruptInv holds at the start and says what is wanted.
LEMMA InterruptInit == Init => InterruptInv /\ SerialProcess
BY DEF Init, InterruptInv, SerialProcess, Raising

\* The flag discipline of a serial process leaves nobody to be interrupted but the
\* handler whose own call was cancelled.
LEMMA InterruptInvSuffices == IInv /\ InterruptInv => NoSpuriousInterrupt
BY DEF IInv, InterruptInv, NoSpuriousInterrupt

\* In a process that keeps the rule of pkg/raw, one active operation at a time,
\* no operation is interrupted on behalf of another, whatever the number of
\* Clients: every cancellation lowers the flag before the next operation starts.
THEOREM SerialProcessNotInterrupted == SerialSpec => []NoSpuriousInterrupt
<1> DEFINE J == IInv /\ InterruptInv /\ SerialProcess
<1>1. Init => J
  BY InitGivesIInv, InterruptInit
<1>2. J /\ [Next /\ SerialProcess']_vars => J'
  <2>1. ASSUME J, Next /\ SerialProcess' PROVE J'
    BY <2>1, StepKeepsIInv, InterruptStep
  <2>2. ASSUME J, UNCHANGED vars PROVE J'
    <3>1. SerialProcess'
      BY <2>2 DEF SerialProcess, vars
    <3>2. QED
      BY <2>2, <3>1, StepKeepsIInv, InterruptStep
  <2>3. QED
    BY <2>1, <2>2
<1>3. J => NoSpuriousInterrupt
  BY InterruptInvSuffices
<1>4. QED
  BY <1>1, <1>2, <1>3, PTL DEF SerialSpec

\* A process with a single Client keeps that rule by the Client's busy flag alone.
THEOREM SingleClientNotInterrupted ==
  ASSUME \A c, d \in Clients : c = d
  PROVE  Spec => []NoSpuriousInterrupt
<1>1. IInv => SerialProcess
  BY DEF IInv, TypeOK, OneOperationPerClient, SerialProcess
<1>2. Init => IInv /\ InterruptInv
  BY InitGivesIInv, InterruptInit
<1>3. IInv /\ InterruptInv /\ [Next]_vars => (IInv /\ InterruptInv)'
  BY <1>1, StepKeepsIInv, InterruptStep
<1>4. IInv /\ InterruptInv => NoSpuriousInterrupt
  BY InterruptInvSuffices
<1>5. QED
  BY <1>2, <1>3, <1>4, PTL DEF Spec

-----------------------------------------------------------------------------
(* The Value a GetFlakeOutputValue hands out.  The promise is about the step *)
(* Return alone; the invariant carries it there from the handler's answer,   *)
(* through the channel and the select.                                       *)

\* An answer without error waits with the Value already handed over, and the call
\* it makes successful returns from a Client nobody has begun to close.
ValueInv ==
    \A p \in Callers :
       op[p] = "GetFlakeOutputValue" =>
          /\ doneChan[p] = "ok" => client[p] \in held[p]
          /\ pc[p] = "return" /\ reply[p] = "ok" =>
                client[p] \in held[p] /\ handles[client[p]] = Parts

\* What a handler that answers a leaves with its caller.
LEMMA ValueHandedOver ==
  ASSUME TypeOK, NEW p \in Callers, NEW a \in Answers, Leaves(p, a)
  PROVE  /\ \A q \in Callers : held[q] \subseteq held'[q]
         /\ a = "ok" /\ op[p] = "GetFlakeOutputValue" => client[p] \in held'[p]
<1>1. CASE held' = held /\ ~(a = "ok" /\ op[p] = "GetFlakeOutputValue")
  BY <1>1
<1>2. CASE a = "ok" /\ op[p] = "GetFlakeOutputValue"
  BY <1>2 DEF TypeOK, Leaves
<1>3. QED
  BY <1>1, <1>2 DEF Leaves

\* Every step keeps ValueInv: a caller closes its Values only between calls, and a
\* Client is closed only by the call that is inside it.
LEMMA ValueStep == IInv /\ ValueInv /\ [Next]_vars => ValueInv'
<1> SUFFICES ASSUME IInv, ValueInv, [Next]_vars
             PROVE  ValueInv'
  OBVIOUS
<1> USE DEF IInv, TypeOK, ValueInv
<1>1. ASSUME NEW p \in Callers, NEW c \in Clients, NEW m \in Methods,
             Reject(p, c, m) \/ Acquire(p, c, m)
      PROVE  ValueInv'
  <2>1. doneChan[p] = "empty"
    BY <1>1 DEF Reject, Acquire, HandlerInv, AtWork
  <2>2. CASE Reject(p, c, m)
    BY <2>1, <2>2 DEF Reject
  <2>3. CASE Acquire(p, c, m)
    BY <2>1, <2>3 DEF Acquire
  <2>4. QED
    BY <1>1, <2>2, <2>3
<1>2. ASSUME NEW p \in Callers, CheckClosed(p) \/ StartHandler(p) \/ Return(p)
      PROVE  ValueInv'
  BY <1>2 DEF CheckClosed, StartHandler, Return
<1>3. ASSUME NEW p \in Callers, NEW a \in Answers, Answer(p, a), Leaves(p, a)
      PROVE  ValueInv'
  BY <1>3, ValueHandedOver DEF Answer
<1>4. ASSUME NEW p \in Callers, FinishWork(p) \/ SeeInterrupt(p) \/ SeeContext(p) \/ ReadFails(p)
      PROVE  ValueInv'
  BY <1>3, <1>4 DEF FinishWork, SeeInterrupt, SeeContext, ReadFails, Answers
<1>5. ASSUME NEW p \in Callers, Block(p) \/ DaemonReplies(p) \/ CancelContext(p)
      PROVE  ValueInv'
  BY <1>5 DEF Block, DaemonReplies, CancelContext
<1>6. ASSUME NEW p \in Callers, SelectDone(p)
      PROVE  ValueInv'
  <2>1. handles[client[p]] = Parts
    BY <1>6 DEF SelectDone, CompleteInv, AtWork
  <2>2. QED
    BY <1>6, <2>1 DEF SelectDone
<1>7. ASSUME NEW p \in Callers, SelectCanceled(p) \/ Await(p)
      PROVE  ValueInv'
  BY <1>7 DEF SelectCanceled, Await
<1>8. ASSUME NEW p \in Callers, InterruptRequest(p) \/ NewContext(p) \/ StoreInterrupt(p)
      PROVE  ValueInv'
  BY <1>8 DEF InterruptRequest, NewContext, StoreInterrupt
<1>9. ASSUME NEW p \in Callers, InterruptClear(p) \/ CloseTracked(p)
      PROVE  ValueInv'
  BY <1>9 DEF InterruptClear, CloseTracked
<1>10. ASSUME NEW p \in Callers, CloseOwned(p)
       PROVE  ValueInv'
  <2>1. \A q \in Callers : pc[q] = "return" => client[q] # client[p]
    BY <1>10 DEF CloseOwned, OneOperationPerClient
  <2>2. QED
    BY <1>10, <2>1 DEF CloseOwned
<1>11. ASSUME NEW p \in Callers, CloseDone(p)
       PROVE  ValueInv'
  BY <1>11 DEF CloseDone
<1>12. ASSUME NEW c \in Clients, NEW f \in Flakes, CloseFlakeEarly(c, f)
       PROVE  ValueInv'
  BY <1>12 DEF CloseFlakeEarly
<1>13. ASSUME NEW p \in Callers, NEW c \in Clients, CloseValue(p, c)
       PROVE  ValueInv'
  <2>1. doneChan[p] = "empty"
    BY <1>13 DEF CloseValue, HandlerInv, AtWork
  <2>2. QED
    BY <1>13, <2>1 DEF CloseValue
<1>14. CASE UNCHANGED vars
  BY <1>14 DEF vars
<1>15. QED
  BY <1>1, <1>2, <1>4, <1>5, <1>6, <1>7, <1>8, <1>9, <1>10, <1>11, <1>12, <1>13, <1>14
     DEF Next, CallerStep, HandlerStep

\* A GetFlakeOutputValue that returns without an error has given its caller a Value
\* whose Close can still borrow the Client's context, whatever the other callers
\* cancelled or closed since the handler answered.
THEOREM ReturnedValueCanBeClosed == Spec => ReturnedValueClosable
<1>1. Init => IInv /\ ValueInv
  BY InitGivesIInv DEF Init, ValueInv
<1>2. IInv /\ ValueInv /\ [Next]_vars => (IInv /\ ValueInv)'
  BY StepKeepsIInv, ValueStep
<1>3. IInv /\ ValueInv =>
        \A p \in Callers :
           Return(p) /\ op[p] = "GetFlakeOutputValue" /\ reply[p] = "ok"
              => client[p] \in held[p] /\ ~Closed(client[p])
  BY DEF ValueInv, Return, Closed, Parts
<1>4. QED
  BY <1>1, <1>2, <1>3, PTL DEF Spec, ReturnedValueClosable

-----------------------------------------------------------------------------
(* Refinement: every step of the Client is a step of SerialClient, or none.  *)

\* The abstract state seen from a call p that is inside its Client.
LEMMA InsideAlone ==
  ASSUME IInv, NEW p \in Callers, pc[p] # "idle"
  PROVE  /\ absInside[client[p]] = {p}
         /\ handler[p] = "none" => absWorking[client[p]] = {}
         /\ handler[p] # "none" => absWorking[client[p]] = {p}
<1> USE DEF IInv, TypeOK
<1>1. \A q \in Callers : pc[q] # "idle" /\ client[q] = client[p] => q = p
  BY DEF OneOperationPerClient
<1>2. \A q \in Callers : handler[q] # "none" => pc[q] # "idle"
  BY DEF HandlerInv, AtWork
<1>3. absInside[client[p]] = {p}
  BY <1>1 DEF Inside, absInside
<1>4. handler[p] = "none" => absWorking[client[p]] = {}
  BY <1>1, <1>2 DEF Working, absWorking
<1>5. handler[p] # "none" => absWorking[client[p]] = {p}
  BY <1>1, <1>2 DEF Working, absWorking
<1>6. QED
  BY <1>3, <1>4, <1>5

\* What a step that leaves some of the concrete state alone leaves alone in the
\* abstract state.
LEMMA SameInside ==
  ASSUME UNCHANGED client, \A p \in Callers : pc'[p] = "idle" <=> pc[p] = "idle"
  PROVE  UNCHANGED absInside
BY DEF absInside, Inside

\* The same for the operations at work.
LEMMA SameWorking ==
  ASSUME UNCHANGED client, \A p \in Callers : handler'[p] = "none" <=> handler[p] = "none"
  PROVE  UNCHANGED absWorking
BY DEF absWorking, Working

\* The same for the Clients that are open.
LEMMA SameOpen ==
  ASSUME \A c \in Clients : "ctx" \in handles'[c] <=> "ctx" \in handles[c]
  PROVE  UNCHANGED absOpen
BY DEF absOpen, Closed

\* The step simulation: Reject is Refuse, Acquire is Enter, StartHandler is Work,
\* an answer is Rest, closing the context is Shut, fixing the reply is Decide, and
\* Return is Leave.
LEMMA StepRefines == IInv /\ [Next]_vars => [Serial!AbsNext]_(Serial!absVars)
<1> SUFFICES ASSUME IInv, [Next]_vars
             PROVE  Serial!AbsNext \/ UNCHANGED Serial!absVars
  OBVIOUS
<1> USE DEF IInv, TypeOK
<1>1. ASSUME NEW p \in Callers, NEW c \in Clients, NEW m \in Methods, Reject(p, c, m)
      PROVE  Serial!Refuse(p, c)
  <2>1. handler[p] = "none"
    BY <1>1 DEF Reject, HandlerInv, AtWork
  <2>2. UNCHANGED <<absInside, absWorking>>
    BY <1>1, <2>1 DEF Reject, Inside, Working, absInside, absWorking
  <2>3. absInside[c] # {}
    BY <1>1 DEF Reject, OneOperationPerClient, Inside, absInside
  <2>4. UNCHANGED absOpen
    BY <1>1, SameOpen DEF Reject
  <2>5. QED
    BY <1>1, <2>2, <2>3, <2>4 DEF Reject, Serial!Refuse
<1>2. ASSUME NEW p \in Callers, NEW c \in Clients, NEW m \in Methods, Acquire(p, c, m)
      PROVE  Serial!Enter(p, c)
  <2>1. handler[p] = "none"
    BY <1>2 DEF Acquire, HandlerInv, AtWork
  <2>2. absInside[c] = {}
    BY <1>2 DEF Acquire, CanAcquire, OneOperationPerClient, Inside, absInside
  <2>3. absInside' = [absInside EXCEPT ![c] = {p}]
    <3>1. Inside(c)' = {p}
      BY <1>2 DEF Acquire, CanAcquire, OneOperationPerClient, Inside
    <3>2. \A d \in Clients \ {c} : Inside(d)' = Inside(d)
      BY <1>2 DEF Acquire, Inside
    <3>3. QED
      BY <3>1, <3>2 DEF absInside
  <2>4. UNCHANGED absWorking
    BY <1>2, <2>1 DEF Acquire, Working, absWorking
  <2>5. UNCHANGED absOpen
    BY <1>2, SameOpen DEF Acquire
  <2>6. QED
    BY <1>2, <2>2, <2>3, <2>4, <2>5 DEF Acquire, Serial!Enter
<1>3. ASSUME NEW p \in Callers, CheckClosed(p) \/ SelectDone(p) \/ CloseDone(p)
      PROVE  Serial!Decide(p, client[p])
  <2>1. pc[p] # "idle" /\ handler[p] = "none"
    BY <1>3 DEF CheckClosed, SelectDone, CloseDone, Answered, HandlerInv, AtWork
  <2>2. absInside[client[p]] = {p} /\ absWorking[client[p]] = {}
    BY <2>1, InsideAlone
  <2>3. UNCHANGED absInside
    BY <1>3, SameInside DEF CheckClosed, SelectDone, CloseDone
  <2>4. UNCHANGED absWorking /\ UNCHANGED absOpen
    BY <1>3, SameWorking, SameOpen DEF CheckClosed, SelectDone, CloseDone
  <2>5. \E a \in Serial!Outcomes \cup Serial!ShutOutcomes :
          /\ a \in Serial!ShutOutcomes <=> ~absOpen[client[p]]
          /\ reply' = [reply EXCEPT ![p] = a]
    <3>1. CASE CheckClosed(p) \/ CloseDone(p)
      BY <3>1 DEF CheckClosed, CloseDone, absOpen, Closed, Serial!Outcomes, Serial!ShutOutcomes
    <3>2. CASE SelectDone(p)
      <4>1. "ctx" \in handles[client[p]]
        BY <3>2 DEF SelectDone, CompleteInv, AtWork, Parts
      <4>2. doneChan[p] \in Answers
        BY <3>2 DEF SelectDone, Answered
      <4>3. QED
        BY <3>2, <4>1, <4>2
           DEF SelectDone, absOpen, Closed, Answers, Serial!Outcomes, Serial!ShutOutcomes
    <3>3. QED
      BY <1>3, <3>1, <3>2
  <2>6. QED
    BY <2>2, <2>3, <2>4, <2>5 DEF Serial!Decide
<1>4. ASSUME NEW p \in Callers, StartHandler(p)
      PROVE  Serial!Work(p, client[p])
  <2>1. pc[p] # "idle" /\ handler[p] = "none"
    BY <1>4 DEF StartHandler, HandlerInv, AtWork
  <2>2. absInside[client[p]] = {p} /\ absWorking[client[p]] = {}
    BY <2>1, InsideAlone
  <2>3. UNCHANGED absInside /\ UNCHANGED absOpen
    BY <1>4, SameInside, SameOpen DEF StartHandler
  <2>4. absWorking' = [absWorking EXCEPT ![client[p]] = {p}]
    <3>1. Working(client[p])' = {p}
      <4>1. Working(client[p]) = {}
        BY <2>2 DEF absWorking
      <4>2. \A q \in Callers : handler'[q] # "none" /\ client'[q] = client[p] <=> q = p
        BY <1>4, <4>1 DEF StartHandler, Working
      <4>3. QED
        BY <1>4, <4>2 DEF StartHandler, Working
    <3>2. \A d \in Clients \ {client[p]} : Working(d)' = Working(d)
      BY <1>4 DEF StartHandler, Working
    <3>3. QED
      BY <1>4, <3>1, <3>2 DEF StartHandler, absWorking
  <2>5. absOpen[client[p]]
    BY <1>4 DEF StartHandler, CanStart, absOpen
  <2>6. QED
    BY <1>4, <2>2, <2>3, <2>4, <2>5 DEF StartHandler, Serial!Work
<1>5. ASSUME NEW p \in Callers, NEW a \in Answers, handler[p] # "none", Answer(p, a)
      PROVE  Serial!Rest(p, client[p])
  <2>1. pc[p] # "idle"
    BY <1>5 DEF HandlerInv, AtWork
  <2>2. absWorking[client[p]] = {p}
    BY <1>5, <2>1, InsideAlone
  <2>3. UNCHANGED absInside /\ UNCHANGED absOpen
    BY <1>5, SameInside, SameOpen DEF Answer
  <2>4. absWorking' = [absWorking EXCEPT ![client[p]] = {}]
    <3>1. Working(client[p])' = {}
      BY <1>5, <2>2 DEF Answer, Working, absWorking
    <3>2. \A d \in Clients \ {client[p]} : Working(d)' = Working(d)
      BY <1>5 DEF Answer, Working
    <3>3. QED
      BY <1>5, <3>1, <3>2 DEF Answer, absWorking
  <2>5. QED
    BY <1>5, <2>2, <2>3, <2>4 DEF Answer, Serial!Rest
<1>6. ASSUME NEW p \in Callers, FinishWork(p) \/ SeeInterrupt(p) \/ SeeContext(p) \/ ReadFails(p)
      PROVE  Serial!Rest(p, client[p])
  BY <1>5, <1>6 DEF FinishWork, SeeInterrupt, SeeContext, ReadFails, Answers
<1>7. ASSUME NEW p \in Callers, CloseOwned(p)
      PROVE  Serial!Shut(p, client[p]) \/ UNCHANGED Serial!absVars
  <2>1. pc[p] # "idle" /\ handler[p] = "none"
    BY <1>7 DEF CloseOwned, HandlerInv, AtWork
  <2>2. absInside[client[p]] = {p} /\ absWorking[client[p]] = {}
    BY <2>1, InsideAlone
  <2>3. UNCHANGED absInside /\ UNCHANGED absWorking
    BY <1>7, SameInside, SameWorking DEF CloseOwned
  <2>4. CASE "ctx" \in handles'[client[p]]
    BY <1>7, <2>3, <2>4, SameOpen DEF CloseOwned, Closed, Serial!absVars
  <2>5. CASE "ctx" \notin handles'[client[p]]
    <3>1. absOpen' = [absOpen EXCEPT ![client[p]] = FALSE]
      BY <1>7, <2>5 DEF CloseOwned, absOpen, Closed
    <3>2. QED
      BY <1>7, <2>2, <2>3, <3>1 DEF CloseOwned, Serial!Shut
  <2>6. QED
    BY <2>4, <2>5
<1>8. ASSUME NEW p \in Callers, Return(p)
      PROVE  Serial!Leave(p, client[p])
  <2>1. pc[p] # "idle" /\ handler[p] = "none"
    BY <1>8 DEF Return, HandlerInv, AtWork
  <2>2. absInside[client[p]] = {p} /\ absWorking[client[p]] = {}
    BY <2>1, InsideAlone
  <2>3. UNCHANGED absWorking /\ UNCHANGED absOpen
    BY <1>8, SameWorking, SameOpen DEF Return
  <2>4. absInside' = [absInside EXCEPT ![client[p]] = {}]
    <3>1. Inside(client[p])' = {}
      BY <1>8, <2>2 DEF Return, Inside, absInside
    <3>2. \A d \in Clients \ {client[p]} : Inside(d)' = Inside(d)
      BY <1>8 DEF Return, Inside
    <3>3. QED
      BY <1>8, <3>1, <3>2 DEF Return, absInside
  <2>5. reply[p] # "none"
    BY <1>8 DEF Return, ReplyInv
  <2>6. QED
    BY <1>8, <2>2, <2>3, <2>4, <2>5 DEF Return, Serial!Leave
<1>9. ASSUME UNCHANGED <<client, handles, reply>>,
             \A p \in Callers : pc'[p] = "idle" <=> pc[p] = "idle",
             \A p \in Callers : handler'[p] = "none" <=> handler[p] = "none"
      PROVE  UNCHANGED Serial!absVars
  BY <1>9, SameInside, SameWorking, SameOpen DEF Serial!absVars
<1>10. ASSUME NEW p \in Callers,
              \/ SelectCanceled(p) \/ InterruptRequest(p) \/ NewContext(p)
              \/ StoreInterrupt(p) \/ Await(p) \/ InterruptClear(p) \/ CloseTracked(p)
       PROVE  UNCHANGED Serial!absVars
  BY <1>9, <1>10 DEF SelectCanceled, InterruptRequest, NewContext, StoreInterrupt, Await,
                     InterruptClear, CloseTracked
<1>11. ASSUME NEW p \in Callers, Block(p) \/ DaemonReplies(p) \/ CancelContext(p)
       PROVE  UNCHANGED Serial!absVars
  BY <1>9, <1>11 DEF Block, DaemonReplies, CancelContext
<1>12. ASSUME NEW c \in Clients, NEW f \in Flakes, CloseFlakeEarly(c, f)
       PROVE  UNCHANGED Serial!absVars
  BY <1>9, <1>12 DEF CloseFlakeEarly
<1>13. ASSUME NEW p \in Callers, NEW c \in Clients, CloseValue(p, c)
       PROVE  UNCHANGED Serial!absVars
  BY <1>9, <1>13 DEF CloseValue
<1>14. CASE UNCHANGED vars
  BY <1>9, <1>14 DEF vars
<1>15. QED
  BY <1>1, <1>2, <1>3, <1>4, <1>6, <1>7, <1>8, <1>10, <1>11, <1>12, <1>13, <1>14
     DEF Next, CallerStep, HandlerStep, Serial!AbsNext

\* middleware, Close and closeLocked implement the serial Client: a caller sees one
\* operation at a time on a Client that is open or shut, never half closed.
THEOREM MiddlewareImplementsSerialClient == Spec => ImplementsSerialClient
<1>1. Init => Serial!AbsInit
  <2> SUFFICES ASSUME Init PROVE Serial!AbsInit
    OBVIOUS
  <2>1. absInside = [c \in Clients |-> {}] /\ absWorking = [c \in Clients |-> {}]
    BY DEF Init, absInside, absWorking, Inside, Working
  <2>2. absOpen = [c \in Clients |-> TRUE]
    BY DEF Init, absOpen, Closed, Parts
  <2>3. QED
    BY <2>1, <2>2 DEF Init, Serial!AbsInit
<1>2. QED
  BY <1>1, Invariance, StepRefines, PTL DEF Spec, ImplementsSerialClient, Serial!AbsSpec

-----------------------------------------------------------------------------
(* The safety side of CancelReturns.  That a cancelled call does return is   *)
(* liveness and stays with TLC; what it rests on are the facts below: nobody *)
(* waits on a channel that no goroutine will fill, a waiting cancellation    *)
(* has the flag up and its handler in a position to notice, and no step of   *)
(* anybody takes a cancellation back.                                        *)

\* A call that waits for an answer has a goroutine that still owes it, or the
\* answer is in the channel.
WaitInv == \A p \in Callers : pc[p] \in AtWork => handler[p] # "none" \/ Answered(p)

\* Only the native work of a remote store waits for a daemon.
BlockInv == \A p \in Callers : handler[p] = "blocked" => client[p] \in Remote

\* Where a call goes next from each point of the cancellation branch and of
\* closeLocked: the way out, without a loop.
After == [s \in Raising \cup {"request", "close", "return"} |->
            CASE s = "request"        -> {"newContext"}
              [] s = "newContext"     -> {"storeInterrupt", "await"}
              [] s = "storeInterrupt" -> {"await"}
              [] s = "await"          -> {"clear"}
              [] s = "clear"          -> {"close"}
              [] s = "close"          -> {"return"}
              [] s = "return"         -> {"idle"}]

\* What a step, of p or of anybody else, may do to a call p on its way out: move it
\* on or leave it where it is, with its answer in the channel and what it has closed
\* closed; and a handler that can hear the cancellation only ever answers.
Advance(p) ==
    pc[p] \in DOMAIN After =>
       /\ pc'[p] # pc[p] => pc'[p] \in After[pc[p]]
       /\ pc'[p] = pc[p] =>
            /\ Answered(p) => Answered(p)'
            /\ handles'[client[p]] \subseteq handles[client[p]]
            /\ pc[p] = "close" => resources'[client[p]] \subseteq resources[client[p]]
       /\ pc[p] \in Interrupting /\ Interruptible(p) =>
            /\ Interruptible(p)'
            /\ handler'[p] = handler[p] \/ Answered(p)'

\* A cancellation and a Close only ever move towards their end.
CancellationAdvances == [][\A p \in Callers : Advance(p)]_vars

\* Nobody forgets to answer: the goroutine ends only by filling the channel, and the
\* channel is emptied only by the receive that ends the wait.
LEMMA WaitStep == IInv /\ WaitInv /\ BlockInv /\ [Next]_vars => WaitInv' /\ BlockInv'
<1> SUFFICES ASSUME IInv, WaitInv, BlockInv, [Next]_vars
             PROVE  WaitInv' /\ BlockInv'
  OBVIOUS
<1> USE DEF IInv, TypeOK, WaitInv, BlockInv, Answered, AtWork
<1>1. ASSUME NEW p \in Callers, NEW c \in Clients, NEW m \in Methods,
             Reject(p, c, m) \/ Acquire(p, c, m)
      PROVE  WaitInv' /\ BlockInv'
  <2>1. handler[p] = "none"
    BY <1>1 DEF Reject, Acquire, HandlerInv
  <2>2. CASE Reject(p, c, m)
    BY <2>1, <2>2 DEF Reject
  <2>3. CASE Acquire(p, c, m)
    BY <2>1, <2>3 DEF Acquire
  <2>4. QED
    BY <1>1, <2>2, <2>3
<1>2. ASSUME NEW p \in Callers, CheckClosed(p) \/ StartHandler(p) \/ Return(p)
      PROVE  WaitInv' /\ BlockInv'
  BY <1>2 DEF CheckClosed, StartHandler, Return
<1>3. ASSUME NEW p \in Callers, NEW a \in Answers, Answer(p, a)
      PROVE  WaitInv' /\ BlockInv'
  BY <1>3 DEF Answer, Answers
<1>4. ASSUME NEW p \in Callers, FinishWork(p) \/ SeeInterrupt(p) \/ SeeContext(p) \/ ReadFails(p)
      PROVE  WaitInv' /\ BlockInv'
  BY <1>3, <1>4 DEF FinishWork, SeeInterrupt, SeeContext, ReadFails, Answers
<1>5. ASSUME NEW p \in Callers, Block(p) \/ DaemonReplies(p) \/ CancelContext(p)
      PROVE  WaitInv' /\ BlockInv'
  BY <1>5 DEF Block, DaemonReplies, CancelContext
<1>6. ASSUME NEW p \in Callers, SelectDone(p) \/ SelectCanceled(p) \/ Await(p)
      PROVE  WaitInv' /\ BlockInv'
  BY <1>6 DEF SelectDone, SelectCanceled, Await
<1>7. ASSUME NEW p \in Callers, InterruptRequest(p) \/ NewContext(p) \/ StoreInterrupt(p)
      PROVE  WaitInv' /\ BlockInv'
  BY <1>7 DEF InterruptRequest, NewContext, StoreInterrupt
<1>8. ASSUME NEW p \in Callers,
             InterruptClear(p) \/ CloseTracked(p) \/ CloseOwned(p) \/ CloseDone(p)
      PROVE  WaitInv' /\ BlockInv'
  BY <1>8 DEF InterruptClear, CloseTracked, CloseOwned, CloseDone
<1>9. ASSUME NEW c \in Clients, NEW f \in Flakes, CloseFlakeEarly(c, f)
      PROVE  WaitInv' /\ BlockInv'
  BY <1>9 DEF CloseFlakeEarly
<1>10. ASSUME NEW p \in Callers, NEW c \in Clients, CloseValue(p, c)
       PROVE  WaitInv' /\ BlockInv'
  BY <1>10 DEF CloseValue
<1>11. CASE UNCHANGED vars
  BY <1>11 DEF vars
<1>12. QED
  BY <1>1, <1>2, <1>4, <1>5, <1>6, <1>7, <1>8, <1>9, <1>10, <1>11
     DEF Next, CallerStep, HandlerStep

\* Both hold at the start.
LEMMA WaitInit == Init => WaitInv /\ BlockInv
BY DEF Init, WaitInv, BlockInv, AtWork

\* The two waits of middleware, the select and the receive after an interruption, are
\* never waits for nothing: until its call takes the answer, the goroutine of the
\* operation is alive or the answer is in the channel, whatever failed in between.
THEOREM NoWaitForNothing == Spec => [](WaitInv /\ BlockInv)
<1>1. Init => IInv /\ WaitInv /\ BlockInv
  BY InitGivesIInv, WaitInit
<1>2. IInv /\ WaitInv /\ BlockInv /\ [Next]_vars => (IInv /\ WaitInv /\ BlockInv)'
  BY StepKeepsIInv, WaitStep
<1>3. QED
  BY <1>1, <1>2, PTL DEF Spec

\* From InterruptRequest to InterruptClear the flag is up.
FlagInv == \A p \in Callers : pc[p] \in Raising => interrupted

\* Only the InterruptClear of another operation could lower the flag under a
\* cancellation that waits, and in a serial process there is no other operation.
LEMMA FlagStep == TypeOK /\ FlagInv /\ SerialProcess /\ [Next]_vars => FlagInv'
<1> SUFFICES ASSUME TypeOK, FlagInv, SerialProcess, [Next]_vars
             PROVE  FlagInv'
  OBVIOUS
<1> USE DEF TypeOK, FlagInv, Raising
<1>1. ASSUME NEW p \in Callers, NEW c \in Clients, NEW m \in Methods,
             Reject(p, c, m) \/ Acquire(p, c, m)
      PROVE  FlagInv'
  BY <1>1 DEF Reject, Acquire
<1>2. ASSUME NEW p \in Callers, CheckClosed(p) \/ StartHandler(p) \/ Return(p)
      PROVE  FlagInv'
  BY <1>2 DEF CheckClosed, StartHandler, Return
<1>3. ASSUME NEW p \in Callers, FinishWork(p) \/ SeeInterrupt(p) \/ SeeContext(p) \/ ReadFails(p)
      PROVE  FlagInv'
  BY <1>3 DEF FinishWork, SeeInterrupt, SeeContext, ReadFails, Answer
<1>4. ASSUME NEW p \in Callers, Block(p) \/ DaemonReplies(p) \/ CancelContext(p)
      PROVE  FlagInv'
  BY <1>4 DEF Block, DaemonReplies, CancelContext
<1>5. ASSUME NEW p \in Callers, SelectDone(p) \/ SelectCanceled(p) \/ Await(p)
      PROVE  FlagInv'
  BY <1>5 DEF SelectDone, SelectCanceled, Await
<1>6. ASSUME NEW p \in Callers, InterruptRequest(p) \/ NewContext(p) \/ StoreInterrupt(p)
      PROVE  FlagInv'
  BY <1>6 DEF InterruptRequest, NewContext, StoreInterrupt, RaiseInterrupt
<1>7. ASSUME NEW p \in Callers, InterruptClear(p)
      PROVE  FlagInv'
  <2>1. \A q \in Callers : pc[q] \in Raising => q = p
    BY <1>7 DEF InterruptClear, SerialProcess
  <2>2. QED
    BY <1>7, <2>1 DEF InterruptClear
<1>8. ASSUME NEW p \in Callers, CloseTracked(p) \/ CloseOwned(p) \/ CloseDone(p)
      PROVE  FlagInv'
  BY <1>8 DEF CloseTracked, CloseOwned, CloseDone
<1>9. ASSUME NEW c \in Clients, NEW f \in Flakes, CloseFlakeEarly(c, f)
      PROVE  FlagInv'
  BY <1>9 DEF CloseFlakeEarly
<1>10. ASSUME NEW p \in Callers, NEW c \in Clients, CloseValue(p, c)
       PROVE  FlagInv'
  BY <1>10 DEF CloseValue
<1>11. CASE UNCHANGED vars
  BY <1>11 DEF vars
<1>12. QED
  BY <1>1, <1>2, <1>3, <1>4, <1>5, <1>6, <1>7, <1>8, <1>9, <1>10, <1>11
     DEF Next, CallerStep, HandlerStep

\* The three facts together put the handler where it can notice.
LEMMA HeardByInvariants == IInv /\ WaitInv /\ BlockInv /\ FlagInv => CancellationHeard
<1> SUFFICES ASSUME IInv, WaitInv, BlockInv, FlagInv, NEW p \in Callers,
                    pc[p] \in Interrupting, Interruptible(p), ~Answered(p)
             PROVE  \/ handler[p] = "running" /\ interrupted
                    \/ handler[p] = "blocked" /\ ~linkUp[client[p]]
  BY DEF CancellationHeard
<1>1. interrupted /\ handler[p] # "none"
  BY DEF WaitInv, FlagInv, Interrupting, AtWork, Raising
<1>2. handler[p] \in {"running", "blocked"}
  BY <1>1 DEF IInv, TypeOK
<1>3. QED
  BY <1>1, <1>2 DEF BlockInv, Interruptible

\* In a process that keeps the rule of pkg/raw a cancellation that waits is always
\* heard: one of the steps that CancelReturns counts on can be taken.
THEOREM SerialCancellationHeard == SerialSpec => []CancellationHeard
<1> DEFINE J == IInv /\ WaitInv /\ BlockInv /\ FlagInv /\ SerialProcess
<1>1. Init => J
  BY InitGivesIInv, WaitInit, InterruptInit DEF Init, FlagInv, Raising
<1>2. J /\ [Next /\ SerialProcess']_vars => J'
  <2>1. ASSUME J, [Next]_vars PROVE IInv' /\ WaitInv' /\ BlockInv' /\ FlagInv'
    <3>1. TypeOK
      BY <2>1 DEF IInv
    <3>2. QED
      BY <2>1, <3>1, StepKeepsIInv, WaitStep, FlagStep
  <2>2. ASSUME J, UNCHANGED vars PROVE SerialProcess'
    BY <2>2 DEF SerialProcess, vars
  <2>3. QED
    BY <2>1, <2>2
<1>3. J => CancellationHeard
  BY HeardByInvariants
<1>4. QED
  BY <1>1, <1>2, <1>3, PTL DEF SerialSpec

\* A process with a single Client needs no rule for it.
THEOREM SingleClientCancellationHeard ==
  ASSUME \A c, d \in Clients : c = d
  PROVE  Spec => []CancellationHeard
<1> DEFINE J == IInv /\ WaitInv /\ BlockInv /\ FlagInv
<1>1. IInv => SerialProcess /\ TypeOK
  BY DEF IInv, TypeOK, OneOperationPerClient, SerialProcess
<1>2. Init => J
  BY InitGivesIInv, WaitInit DEF Init, FlagInv, Raising
<1>3. J /\ [Next]_vars => J'
  BY <1>1, StepKeepsIInv, WaitStep, FlagStep
<1>4. J => CancellationHeard
  BY HeardByInvariants
<1>5. QED
  BY <1>2, <1>3, <1>4, PTL DEF Spec

\* Every step respects every call that is on its way out.
LEMMA AdvanceStep ==
  IInv /\ BlockInv /\ [Next]_vars => \A q \in Callers : Advance(q)
<1> SUFFICES ASSUME IInv, BlockInv, [Next]_vars, NEW q \in Callers,
                    pc[q] \in Raising \cup {"request", "close", "return"}
             PROVE  Advance(q)
  BY DEF Advance, After
<1> USE DEF IInv, TypeOK, Advance, Answered, Interruptible, Interrupting, Raising
<1>1. ASSUME pc'[q] = pc[q], doneChan'[q] = doneChan[q], handles' = handles,
             resources' = resources, client'[q] = client[q], linkUp' = linkUp,
             handler'[q] = handler[q]
      PROVE  Advance(q)
  BY <1>1
<1>2. ASSUME NEW p \in Callers, NEW c \in Clients, NEW m \in Methods,
             Reject(p, c, m) \/ Acquire(p, c, m)
      PROVE  Advance(q)
  <2>1. p # q
    BY <1>2 DEF Reject, Acquire
  <2>2. CASE Reject(p, c, m)
    BY <1>1, <2>1, <2>2 DEF Reject
  <2>3. CASE Acquire(p, c, m)
    BY <1>1, <2>1, <2>3 DEF Acquire
  <2>4. QED
    BY <1>2, <2>2, <2>3
<1>3. ASSUME NEW p \in Callers, CheckClosed(p) \/ StartHandler(p) \/ SelectDone(p)
      PROVE  Advance(q)
  <2>1. p # q
    BY <1>3 DEF CheckClosed, StartHandler, SelectDone
  <2>2. QED
    BY <1>1, <1>3, <2>1 DEF CheckClosed, StartHandler, SelectDone
<1>4. ASSUME NEW p \in Callers, Return(p) \/ CloseDone(p) \/ InterruptClear(p)
      PROVE  Advance(q)
  <2>1. CASE p # q
    BY <1>1, <1>4, <2>1 DEF Return, CloseDone, InterruptClear
  <2>2. CASE p = q
    BY <1>4, <2>2 DEF Return, CloseDone, InterruptClear, After
  <2>3. QED
    BY <2>1, <2>2
<1>5. ASSUME NEW p \in Callers, NEW a \in Answers, Answer(p, a), Leaves(p, a), handler[p] # "none"
      PROVE  Advance(q)
  <2>1. pc' = pc /\ handles' = handles /\ client' = client /\ linkUp' = linkUp
    BY <1>5 DEF Answer
  <2>2. pc[q] = "close" => client[q] # client[p]
    BY <1>5 DEF OneOperationPerClient, HandlerInv, AtWork
  <2>3. pc[q] = "close" => resources'[client[q]] = resources[client[q]]
    BY <1>5, <2>2 DEF Leaves, Track
  <2>4. Answered(q) => Answered(q)'
    BY <1>5 DEF Answer, Answers
  <2>5. handler'[q] = handler[q] \/ Answered(q)'
    BY <1>5 DEF Answer, Answers
  <2>6. QED
    BY <2>1, <2>3, <2>4, <2>5
<1>6. ASSUME NEW p \in Callers, FinishWork(p) \/ SeeInterrupt(p) \/ SeeContext(p) \/ ReadFails(p)
      PROVE  Advance(q)
  BY <1>5, <1>6 DEF FinishWork, SeeInterrupt, SeeContext, ReadFails, Answers
<1>7. ASSUME NEW p \in Callers, Block(p) \/ DaemonReplies(p)
      PROVE  Advance(q)
  <2>1. Interruptible(q) => p # q
    BY <1>7 DEF Block, DaemonReplies, BlockInv
  <2>2. QED
    BY <1>7, <2>1 DEF Block, DaemonReplies
<1>8. ASSUME NEW p \in Callers, CancelContext(p) \/ SelectCanceled(p)
      PROVE  Advance(q)
  <2>1. p # q
    BY <1>8 DEF CancelContext, SelectCanceled
  <2>2. QED
    BY <1>1, <1>8, <2>1 DEF CancelContext, SelectCanceled
<1>9. ASSUME NEW p \in Callers, InterruptRequest(p) \/ NewContext(p) \/ Await(p)
      PROVE  Advance(q)
  <2>1. CASE p # q
    BY <1>1, <1>9, <2>1 DEF InterruptRequest, NewContext, Await
  <2>2. CASE p = q
    BY <1>9, <2>2 DEF InterruptRequest, NewContext, Await, After
  <2>3. QED
    BY <2>1, <2>2
<1>10. ASSUME NEW p \in Callers, StoreInterrupt(p)
       PROVE  Advance(q)
  <2>1. \A c \in Clients : linkUp'[c] => linkUp[c] \/ c \notin Remote
    BY <1>10 DEF StoreInterrupt
  <2>2. CASE p # q
    BY <1>10, <2>1, <2>2 DEF StoreInterrupt
  <2>3. CASE p = q
    BY <1>10, <2>1, <2>3 DEF StoreInterrupt, After
  <2>4. QED
    BY <2>2, <2>3
<1>11. ASSUME NEW p \in Callers, CloseTracked(p)
       PROVE  Advance(q)
  BY <1>11 DEF CloseTracked
<1>12. ASSUME NEW p \in Callers, CloseOwned(p)
       PROVE  Advance(q)
  BY <1>12 DEF CloseOwned
<1>13. ASSUME NEW c \in Clients, NEW f \in Flakes, CloseFlakeEarly(c, f)
       PROVE  Advance(q)
  BY <1>1, <1>13 DEF CloseFlakeEarly
<1>14. ASSUME NEW p \in Callers, NEW c \in Clients, CloseValue(p, c)
       PROVE  Advance(q)
  BY <1>1, <1>14 DEF CloseValue
<1>15. CASE UNCHANGED vars
  BY <1>1, <1>15 DEF vars
<1>16. QED
  BY <1>2, <1>3, <1>4, <1>6, <1>7, <1>8, <1>9, <1>10, <1>11, <1>12, <1>13, <1>14, <1>15
     DEF Next, CallerStep, HandlerStep

\* No step of anybody takes a cancellation or a Close back, in any process: another
\* Client's cancellation may lower the flag, but never reopens what was closed, never
\* takes the answer; and a handler that can hear its cancellation (Interruptible) can
\* do so until it answers, and does nothing else than answer.
THEOREM CancellationNeverGoesBack == Spec => CancellationAdvances
<1>1. Init => IInv /\ BlockInv /\ WaitInv
  BY InitGivesIInv, WaitInit
<1>2. IInv /\ BlockInv /\ WaitInv /\ [Next]_vars => (IInv /\ BlockInv /\ WaitInv)'
  BY StepKeepsIInv, WaitStep
<1>3. IInv /\ BlockInv /\ WaitInv /\ [Next]_vars => \A p \in Callers : Advance(p)
  BY AdvanceStep
<1>4. QED
  BY <1>1, <1>2, <1>3, PTL DEF Spec, CancellationAdvances

=============================================================================
