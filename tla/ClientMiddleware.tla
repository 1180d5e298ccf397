-------------------------- MODULE ClientMiddleware --------------------------
(***************************************************************************)
(* The operation protocol of gonix.Client (client.go).                     *)
(*                                                                         *)
(* Every high-level operation of a Client runs through Client.middleware:  *)
(* a compare-and-swap on busy, a closed check, the handler in a goroutine  *)
(* of its own, and a select between the handler's answer and the           *)
(* cancellation of the caller's context.Context.  The cancellation branch  *)
(* raises Nix's interrupt flag, which belongs to the process and not to    *)
(* the Client, shuts the connections of a remote store down, waits for the *)
(* handler, lowers the flag and closes the Client.                         *)
(*                                                                         *)
(* One process per calling goroutine (Callers).  Each is at most once in   *)
(* the middleware; the handler goroutine it starts is a second thread of   *)
(* control, with the state handler[p].  A call made from inside a handler  *)
(* is a call by another member of Callers.                                 *)
(*                                                                         *)
(* A definition named Mutant... is a mistaken form of the definition after *)
(* it, used only to show that the properties notice the mistake.           *)
(***************************************************************************)
EXTENDS Naturals, FiniteSets

CONSTANTS
    Clients,    \* the Clients of the process
    Callers,    \* goroutines that call Client methods
    Flakes,     \* identities for the Flakes OpenFlake returns
    Remote,     \* the Clients whose Store is a nix::RemoteStore
    MayFail     \* the native calls of the cancellation branch that may fail

ASSUME ClientsAssumption == Clients # {}
ASSUME RemoteAssumption == Remote \subseteq Clients
ASSUME MayFailAssumption == MayFail \subseteq {"nixcontext.New", "StoreInterrupt"}

VARIABLES
    busy,         \* Client.busy
    handles,      \* the non-nil native resources among the Client's fields
    resources,    \* Client.resources: every Flake the Client tracks
    flakeOpen,    \* the Flakes whose native handle has not been freed
    interrupted,  \* Nix's interrupt flag, one for the whole process
    linkUp,       \* FALSE once shutdownConnections cut the Client's store off
    pc,           \* where the calling goroutine is in the Client's code
    client,       \* the Client it called
    op,           \* the method it called
    ctxDone,      \* its context.Context has been cancelled
    handler,      \* the handler goroutine of its call
    doneChan,     \* the one-place channel the handler answers on
    interruptCtx, \* the separate Nix context of the cancellation is open
    held,         \* the Clients whose caller-owned eval.Value it still holds
    reply         \* what its last call returned

vars == <<busy, handles, resources, flakeOpen, interrupted, linkUp, pc, client,
          op, ctxDone, handler, doneChan, interruptCtx, held, reply>>

-----------------------------------------------------------------------------
(* Types *)

\* The fields of Client that hold native resources, with what each borrows.
Parts == {"evaluator", "store", "flakeSettings", "fetcherSettings", "ctx"}

Borrows == [part \in Parts |->
              CASE part = "ctx"       -> {}
                [] part = "evaluator" -> {"store", "flakeSettings", "ctx"}
                [] OTHER              -> {"ctx"}]

\* Methods, by what their handler leaves behind.  "Use" stands for every method
\* whose handler releases all it creates: WithStore, WithEvaluator,
\* WithStoreAndEvaluator, EvalFlakeOutput, EvalWithArgs, Eval, Unmarshal,
\* Realize, RealizeOutput and ProcessDaemonConnection.
Methods == {"Use", "OpenFlake", "GetFlakeOutputValue", "Close"}

PCs == {"idle", "check", "select", "request", "newContext", "storeInterrupt",
        "await", "clear", "close", "return"}

\* What a handler can answer: nil, an error of its own, the error Nix raises
\* when it sees the interrupt flag, or ctx.Err() when the handler itself
\* watches its context.
Answers == {"ok", "error", "interrupted", "ctxErr"}

Replies == {"none", "ErrConcurrentUse", "ErrClosed", "closed", "canceled"} \cup Answers

TypeOK ==
    /\ busy \in [Clients -> BOOLEAN]
    /\ handles \in [Clients -> SUBSET Parts]
    /\ resources \in [Clients -> SUBSET Flakes]
    /\ flakeOpen \in SUBSET Flakes
    /\ interrupted \in BOOLEAN
    /\ linkUp \in [Clients -> BOOLEAN]
    /\ pc \in [Callers -> PCs]
    /\ client \in [Callers -> Clients]
    /\ op \in [Callers -> Methods]
    /\ ctxDone \in [Callers -> BOOLEAN]
    /\ handler \in [Callers -> {"none", "running", "blocked"}]
    /\ doneChan \in [Callers -> Answers \cup {"empty"}]
    /\ interruptCtx \in [Callers -> BOOLEAN]
    /\ held \in [Callers -> SUBSET Clients]
    /\ reply \in [Callers -> Replies]

\* What client[p] is before p's first call; nothing depends on it.
AnyClient == CHOOSE c \in Clients : TRUE

\* NewClient returned every Client complete and idle.
Init ==
    /\ busy = [c \in Clients |-> FALSE]
    /\ handles = [c \in Clients |-> Parts]
    /\ resources = [c \in Clients |-> {}]
    /\ flakeOpen = {}
    /\ interrupted = FALSE
    /\ linkUp = [c \in Clients |-> TRUE]
    /\ pc = [p \in Callers |-> "idle"]
    /\ client = [p \in Callers |-> AnyClient]
    /\ op = [p \in Callers |-> "Use"]
    /\ ctxDone = [p \in Callers |-> FALSE]
    /\ handler = [p \in Callers |-> "none"]
    /\ doneChan = [p \in Callers |-> "empty"]
    /\ interruptCtx = [p \in Callers |-> FALSE]
    /\ held = [p \in Callers |-> {}]
    /\ reply = [p \in Callers |-> "none"]

\* closeLocked leaves c.ctx nil, and nothing sets it again.
Closed(c) == "ctx" \notin handles[c]

-----------------------------------------------------------------------------
(* Entering and leaving the Client *)

\* The compare-and-swap on busy failed: return ErrConcurrentUse.
Reject(p, c, m) ==
    /\ pc[p] = "idle"
    /\ busy[c]
    /\ client' = [client EXCEPT ![p] = c]
    /\ op' = [op EXCEPT ![p] = m]
    /\ reply' = [reply EXCEPT ![p] = "ErrConcurrentUse"]
    /\ UNCHANGED <<busy, handles, resources, flakeOpen, interrupted, linkUp, pc,
                   ctxDone, handler, doneChan, interruptCtx, held>>

\* busy.CompareAndSwap(false, true) succeeds.
MutantCanAcquire(c) == TRUE
CanAcquire(c) == ~busy[c]

\* A bound of the model: a caller holds at most one Value of each Client.
HoldsOneValue(p, c, m) == m = "GetFlakeOutputValue" => c \notin held[p]

\* The compare-and-swap succeeded.  Close goes straight to closeLocked.
Acquire(p, c, m) ==
    /\ pc[p] = "idle"
    /\ CanAcquire(c)
    /\ HoldsOneValue(p, c, m)
    /\ busy' = [busy EXCEPT ![c] = TRUE]
    /\ client' = [client EXCEPT ![p] = c]
    /\ op' = [op EXCEPT ![p] = m]
    /\ pc' = [pc EXCEPT ![p] = IF m = "Close" THEN "close" ELSE "check"]
    /\ reply' = [reply EXCEPT ![p] = "none"]
    /\ UNCHANGED <<handles, resources, flakeOpen, interrupted, linkUp, ctxDone,
                   handler, doneChan, interruptCtx, held>>

\* c.ctx == nil: return ErrClosed.
CheckClosed(p) ==
    /\ pc[p] = "check"
    /\ Closed(client[p])
    /\ pc' = [pc EXCEPT ![p] = "return"]
    /\ reply' = [reply EXCEPT ![p] = "ErrClosed"]
    /\ UNCHANGED <<busy, handles, resources, flakeOpen, interrupted, linkUp,
                   client, op, ctxDone, handler, doneChan, interruptCtx, held>>

\* The Client is open when the handler starts.
MutantCanStart(p) == TRUE
CanStart(p) == ~Closed(client[p])

\* Otherwise make the channel and start the handler, whatever the state of the
\* caller's context.
StartHandler(p) ==
    /\ pc[p] = "check"
    /\ CanStart(p)
    /\ pc' = [pc EXCEPT ![p] = "select"]
    /\ handler' = [handler EXCEPT ![p] = "running"]
    /\ UNCHANGED <<busy, handles, resources, flakeOpen, interrupted, linkUp,
                   client, op, ctxDone, doneChan, interruptCtx, held, reply>>

\* The deferred calls: close the interrupt context, if any, and clear busy.
Return(p) ==
    /\ pc[p] = "return"
    /\ pc' = [pc EXCEPT ![p] = "idle"]
    /\ interruptCtx' = [interruptCtx EXCEPT ![p] = FALSE]
    /\ busy' = [busy EXCEPT ![client[p]] = FALSE]
    /\ ctxDone' = [ctxDone EXCEPT ![p] = FALSE]
    /\ UNCHANGED <<handles, resources, flakeOpen, interrupted, linkUp, client,
                   op, handler, doneChan, held, reply>>

-----------------------------------------------------------------------------
(* The handler goroutine *)

\* c.resources = append(c.resources, f)
MutantTrack(c, f) == UNCHANGED resources
Track(c, f) == resources' = [resources EXCEPT ![c] = @ \cup {f}]

\* The effects of a handler that answers a.  OpenFlake appends the new Flake to
\* c.resources; GetFlakeOutputValue leaves the caller a Value, which it receives
\* whatever else the call returns.
Leaves(p, a) ==
    IF a # "ok" THEN UNCHANGED <<resources, flakeOpen, held>>
    ELSE CASE op[p] = "OpenFlake" ->
                \E f \in Flakes :
                   /\ f \notin flakeOpen
                   /\ \A c \in Clients : f \notin resources[c]
                   /\ flakeOpen' = flakeOpen \cup {f}
                   /\ Track(client[p], f)
                   /\ held' = held
           [] op[p] = "GetFlakeOutputValue" ->
                /\ held' = [held EXCEPT ![p] = @ \cup {client[p]}]
                /\ UNCHANGED <<resources, flakeOpen>>
           [] OTHER -> UNCHANGED <<resources, flakeOpen, held>>

\* doneChan <- handler(), and the goroutine ends.
Answer(p, a) ==
    /\ handler' = [handler EXCEPT ![p] = "none"]
    /\ doneChan' = [doneChan EXCEPT ![p] = a]
    /\ UNCHANGED <<busy, handles, interrupted, linkUp, pc, client, op, ctxDone,
                   interruptCtx, reply>>

\* The native work ends by itself, well or badly.
FinishWork(p) ==
    /\ handler[p] = "running"
    /\ \E a \in {"ok", "error"} : Answer(p, a) /\ Leaves(p, a)

\* Nix polls the interrupt flag and raises nix::Interrupted.
SeeInterrupt(p) ==
    /\ handler[p] = "running"
    /\ interrupted
    /\ Answer(p, "interrupted")
    /\ Leaves(p, "interrupted")

\* A handler given to WithStore, WithEvaluator or WithStoreAndEvaluator is Go
\* code of the caller and may watch the context by itself.
SeeContext(p) ==
    /\ handler[p] = "running"
    /\ op[p] = "Use"
    /\ ctxDone[p]
    /\ Answer(p, "ctxErr")
    /\ Leaves(p, "ctxErr")

\* The native work enters a read from the daemon.  Nix polls the flag before
\* each read, so a read begins only while the flag is down.
Block(p) ==
    /\ handler[p] = "running"
    /\ client[p] \in Remote
    /\ linkUp[client[p]]
    /\ ~interrupted
    /\ handler' = [handler EXCEPT ![p] = "blocked"]
    /\ UNCHANGED <<busy, handles, resources, flakeOpen, interrupted, linkUp, pc,
                   client, op, ctxDone, doneChan, interruptCtx, held, reply>>

\* The daemon answers the read.
DaemonReplies(p) ==
    /\ handler[p] = "blocked"
    /\ linkUp[client[p]]
    /\ handler' = [handler EXCEPT ![p] = "running"]
    /\ UNCHANGED <<busy, handles, resources, flakeOpen, interrupted, linkUp, pc,
                   client, op, ctxDone, doneChan, interruptCtx, held, reply>>

\* The read fails because shutdownConnections closed the connection under it.
ReadFails(p) ==
    /\ handler[p] = "blocked"
    /\ ~linkUp[client[p]]
    /\ Answer(p, "error")
    /\ Leaves(p, "error")

-----------------------------------------------------------------------------
(* The select and the cancellation branch *)

\* A receive from doneChan can proceed.
MutantAnswered(p) == TRUE
Answered(p) == doneChan[p] # "empty"

\* requestInterrupt() and setInterrupted(false) of the C++ shim.
MutantRaiseInterrupt == UNCHANGED interrupted
RaiseInterrupt == interrupted' = TRUE

MutantLowerInterrupt == UNCHANGED interrupted
LowerInterrupt == interrupted' = FALSE

\* The caller's context is cancelled.  OpenFlake passes context.Background(),
\* which never is.  Only the select reads it, so later cancellations are left out.
CancelContext(p) ==
    /\ pc[p] \in {"check", "select"}
    /\ op[p] # "OpenFlake"
    /\ ~ctxDone[p]
    /\ ctxDone' = [ctxDone EXCEPT ![p] = TRUE]
    /\ UNCHANGED <<busy, handles, resources, flakeOpen, interrupted, linkUp, pc,
                   client, op, handler, doneChan, interruptCtx, held, reply>>

\* case err := <-doneChan.  When the context is done too, either case may run.
SelectDone(p) ==
    /\ pc[p] = "select"
    /\ Answered(p)
    /\ pc' = [pc EXCEPT ![p] = "return"]
    /\ reply' = [reply EXCEPT ![p] = doneChan[p]]
    /\ doneChan' = [doneChan EXCEPT ![p] = "empty"]
    /\ UNCHANGED <<busy, handles, resources, flakeOpen, interrupted, linkUp,
                   client, op, ctxDone, handler, interruptCtx, held>>

\* case <-ctx.Done()
SelectCanceled(p) ==
    /\ pc[p] = "select"
    /\ ctxDone[p]
    /\ pc' = [pc EXCEPT ![p] = "request"]
    /\ UNCHANGED <<busy, handles, resources, flakeOpen, interrupted, linkUp,
                   client, op, ctxDone, handler, doneChan, interruptCtx, held,
                   reply>>

\* util.InterruptRequest()
InterruptRequest(p) ==
    /\ pc[p] = "request"
    /\ RaiseInterrupt
    /\ pc' = [pc EXCEPT ![p] = "newContext"]
    /\ UNCHANGED <<busy, handles, resources, flakeOpen, linkUp, client, op,
                   ctxDone, handler, doneChan, interruptCtx, held, reply>>

\* nixcontext.New(nixcontext.Config{}): without the separate context the branch
\* goes on to wait for the handler and never reaches StoreInterrupt.
NewContext(p) ==
    /\ pc[p] = "newContext"
    /\ \/ /\ pc' = [pc EXCEPT ![p] = "storeInterrupt"]
          /\ interruptCtx' = [interruptCtx EXCEPT ![p] = TRUE]
       \/ /\ "nixcontext.New" \in MayFail
          /\ pc' = [pc EXCEPT ![p] = "await"]
          /\ UNCHANGED interruptCtx
    /\ UNCHANGED <<busy, handles, resources, flakeOpen, interrupted, linkUp,
                   client, op, ctxDone, handler, doneChan, held, reply>>

\* util.StoreInterrupt(interruptCtx, c.store): raise the flag again, then shut
\* the connections of a RemoteStore down.  An error is kept for the reply only.
StoreInterrupt(p) ==
    /\ pc[p] = "storeInterrupt"
    /\ pc' = [pc EXCEPT ![p] = "await"]
    /\ RaiseInterrupt
    /\ \/ linkUp' = [linkUp EXCEPT ![client[p]] = client[p] \notin Remote]
       \/ "StoreInterrupt" \in MayFail /\ UNCHANGED linkUp
    /\ UNCHANGED <<busy, handles, resources, flakeOpen, client, op, ctxDone,
                   handler, doneChan, interruptCtx, held, reply>>

\* opErr := <-doneChan
Await(p) ==
    /\ pc[p] = "await"
    /\ Answered(p)
    /\ doneChan' = [doneChan EXCEPT ![p] = "empty"]
    /\ pc' = [pc EXCEPT ![p] = "clear"]
    /\ UNCHANGED <<busy, handles, resources, flakeOpen, interrupted, linkUp,
                   client, op, ctxDone, handler, interruptCtx, held, reply>>

\* util.InterruptClear()
InterruptClear(p) ==
    /\ pc[p] = "clear"
    /\ LowerInterrupt
    /\ pc' = [pc EXCEPT ![p] = "close"]
    /\ UNCHANGED <<busy, handles, resources, flakeOpen, linkUp, client, op,
                   ctxDone, handler, doneChan, interruptCtx, held, reply>>

-----------------------------------------------------------------------------
(* closeLocked *)

\* The order in which closeLocked closes the Client's own resources.
MutantCloseRank == [part \in Parts |->
                CASE part = "store"           -> 1
                  [] part = "evaluator"       -> 2
                  [] part = "flakeSettings"   -> 3
                  [] part = "fetcherSettings" -> 4
                  [] part = "ctx"             -> 5]

CloseRank == [part \in Parts |->
                CASE part = "evaluator"       -> 1
                  [] part = "store"           -> 2
                  [] part = "flakeSettings"   -> 3
                  [] part = "fetcherSettings" -> 4
                  [] part = "ctx"             -> 5]

NextToClose(h) == {part \in h : \A other \in h : CloseRank[part] <= CloseRank[other]}

\* The loop over c.resources has ended.
MutantTrackedClosed(c) == TRUE
TrackedClosed(c) == resources[c] = {}

\* for _, r := range c.resources { r.Close() }.  A Flake its caller closed early
\* is still tracked; closing it again does nothing.
CloseTracked(p) ==
    /\ pc[p] = "close"
    /\ ~Closed(client[p])
    /\ \E f \in resources[client[p]] :
         /\ flakeOpen' = flakeOpen \ {f}
         /\ resources' = [resources EXCEPT ![client[p]] = @ \ {f}]
    /\ UNCHANGED <<busy, handles, interrupted, linkUp, pc, client, op, ctxDone,
                   handler, doneChan, interruptCtx, held, reply>>

\* c.evaluator.Close(); c.evaluator = nil, and so on down to the context.
CloseOwned(p) ==
    /\ pc[p] = "close"
    /\ ~Closed(client[p])
    /\ TrackedClosed(client[p])
    /\ \E part \in NextToClose(handles[client[p]]) :
         handles' = [handles EXCEPT ![client[p]] = @ \ {part}]
    /\ UNCHANGED <<busy, resources, flakeOpen, interrupted, linkUp, pc, client,
                   op, ctxDone, handler, doneChan, interruptCtx, held, reply>>

\* c.ctx is nil, now or from the beginning.
CloseDone(p) ==
    /\ pc[p] = "close"
    /\ Closed(client[p])
    /\ pc' = [pc EXCEPT ![p] = "return"]
    /\ reply' = [reply EXCEPT ![p] = IF op[p] = "Close" THEN "closed" ELSE "canceled"]
    /\ UNCHANGED <<busy, handles, resources, flakeOpen, interrupted, linkUp,
                   client, op, ctxDone, handler, doneChan, interruptCtx, held>>

-----------------------------------------------------------------------------
(* What callers do with the objects they were given.  Value and Flake are not *)
(* goroutine-safe and take no part in the busy protocol, so a correct caller  *)
(* closes them only while no operation of the Client is active.               *)

\* Flake.Close on a Flake of the Client, before the Client is closed.
CloseFlakeEarly(c, f) ==
    /\ ~busy[c]
    /\ f \in resources[c] \cap flakeOpen
    /\ flakeOpen' = flakeOpen \ {f}
    /\ UNCHANGED <<busy, handles, resources, interrupted, linkUp, pc, client, op,
                   ctxDone, handler, doneChan, interruptCtx, held, reply>>

\* Value.Close: it borrows the Client's context first, and once that is closed
\* it fails and keeps the reference.
CloseValue(p, c) ==
    /\ pc[p] = "idle"
    /\ ~busy[c]
    /\ c \in held[p]
    /\ ~Closed(c)
    /\ held' = [held EXCEPT ![p] = @ \ {c}]
    /\ UNCHANGED <<busy, handles, resources, flakeOpen, interrupted, linkUp, pc,
                   client, op, ctxDone, handler, doneChan, interruptCtx, reply>>

-----------------------------------------------------------------------------
(* Specification *)

\* What the calling goroutine does by itself once it is inside the Client.
CallerStep(p) ==
    \/ CheckClosed(p) \/ StartHandler(p) \/ Return(p)
    \/ SelectDone(p) \/ SelectCanceled(p)
    \/ InterruptRequest(p) \/ NewContext(p) \/ StoreInterrupt(p)
    \/ Await(p) \/ InterruptClear(p)
    \/ CloseTracked(p) \/ CloseOwned(p) \/ CloseDone(p)

HandlerStep(p) ==
    \/ FinishWork(p) \/ SeeInterrupt(p) \/ SeeContext(p)
    \/ Block(p) \/ DaemonReplies(p) \/ ReadFails(p)

Next ==
    \/ \E p \in Callers, c \in Clients, m \in Methods : Reject(p, c, m) \/ Acquire(p, c, m)
    \/ \E p \in Callers : CallerStep(p) \/ HandlerStep(p) \/ CancelContext(p)
    \/ \E c \in Clients, f \in Flakes : CloseFlakeEarly(c, f)
    \/ \E p \in Callers, c \in Clients : CloseValue(p, c)

Spec == Init /\ [][Next]_vars

\* A goroutine that can take a step takes it, native work that sees the flag
\* raised and keeps seeing it stops, and a read on a closed connection fails.
\* Nothing is assumed of native work that is not interrupted, nor of the daemon.
Fairness ==
    \A p \in Callers : WF_vars(CallerStep(p)) /\ WF_vars(SeeInterrupt(p)) /\ WF_vars(ReadFails(p))

FairSpec == Spec /\ Fairness

-----------------------------------------------------------------------------
(* Properties *)

\* The rule for the process-global flag that pkg/raw leaves to its users: at most
\* one cancellable operation is active in the process.  Client enforces it for
\* one Client (busy is a field of Client), not for the process.
SerialProcess ==
    \A p, q \in Callers : pc[p] # "idle" /\ pc[q] # "idle" => p = q

\* A process that keeps the rule, whatever the number of its Clients.
SerialSpec == Init /\ [][Next /\ SerialProcess']_vars

\* The select of middleware: while the goroutine of an operation is at work, every
\* native resource it may have borrowed from the Client is open, also when the
\* cancellation branch is about to close the Client (await before closeLocked).
NoUseAfterClose ==
    \A p \in Callers : handler[p] # "none" => handles[client[p]] = Parts

\* The busy flag admits one operation at a time, from its compare-and-swap to the
\* deferred reset, and is never left set behind an operation that returned.
OneOperationPerClient ==
    /\ \A p, q \in Callers :
         pc[p] # "idle" /\ pc[q] # "idle" /\ client[p] = client[q] => p = q
    /\ \A c \in Clients :
         busy[c] <=> \E p \in Callers : pc[p] # "idle" /\ client[p] = c

\* closeLocked closes in reverse dependency order: at every point, also between
\* two of its steps, what an open resource borrows is still open.
ReverseDependencyOrder ==
    \A c \in Clients :
       /\ \A part \in handles[c] : Borrows[part] \subseteq handles[c]
       /\ resources[c] \cap flakeOpen # {} => handles[c] = Parts

\* Every Flake with a live native handle is tracked by an open Client, which is
\* what lets Client.Close release the Flakes their callers forgot.
OpenFlakesTracked ==
    \A f \in flakeOpen : \E c \in Clients : f \in resources[c] /\ ~Closed(c)

\* A call that went through the cancellation branch or through Close leaves the
\* Client with nothing open, and a call told ErrClosed found it so.
CanceledClientIsClosed ==
    \A p \in Callers :
       reply[p] \in {"canceled", "closed", "ErrClosed"} =>
          handles[client[p]] = {} /\ resources[client[p]] = {}

\* No operation is interrupted unless the context of its own call was cancelled,
\* and an interruption is never reported as the operation's own outcome
\* (InterruptRequest to InterruptClear in middleware).
NoSpuriousInterrupt ==
    \A p \in Callers :
       /\ doneChan[p] = "interrupted" => ctxDone[p]
       /\ reply[p] # "interrupted"

\* A GetFlakeOutputValue that returns without an error hands its caller a Value and
\* leaves open the context that Value.Close needs, whoever was cancelled or closed
\* the Client meanwhile.  (A Value returned together with a cancellation error, when
\* the select saw ctx.Done() although the handler had finished, cannot be closed any
\* more: the cancellation closed the context.)
ReturnedValueClosable ==
    [][\A p \in Callers :
          Return(p) /\ op[p] = "GetFlakeOutputValue" /\ reply[p] = "ok"
             => client[p] \in held[p] /\ ~Closed(client[p])]_vars

\* The operation a cancellation waits for can hear it: the store is local, or the
\* connections of the remote store have been shut down.
Interruptible(p) == client[p] \notin Remote \/ ~linkUp[client[p]]

\* Between InterruptRequest and the receive of the handler's answer.
Interrupting == {"newContext", "storeInterrupt", "await"}

\* An interruption under way is not lost: the handler of a cancellation that can hear
\* it has answered, or polls a flag that is up, or reads from a connection that has
\* been shut down, whoever else raises and clears the flag (InterruptRequest to
\* InterruptClear in middleware).
CancellationHeard ==
    \A p \in Callers :
       pc[p] \in Interrupting /\ Interruptible(p) =>
          \/ Answered(p)
          \/ handler[p] = "running" /\ interrupted
          \/ handler[p] = "blocked" /\ ~linkUp[client[p]]

\* Once the flag is raised for an operation that can hear it, the operation stops
\* and its call returns with the Client closed.
CancelReturns ==
    \A p \in Callers :
       (pc[p] \in Interrupting /\ Interruptible(p))
          ~> (pc[p] = "idle" /\ Closed(client[p]))

-----------------------------------------------------------------------------
(* Refinement: the middleware implements the serial Client. *)

Inside(c)  == {p \in Callers : pc[p] # "idle" /\ client[p] = c}
Working(c) == {p \in Callers : handler[p] # "none" /\ client[p] = c}

absInside  == [c \in Clients |-> Inside(c)]
absWorking == [c \in Clients |-> Working(c)]
absOpen    == [c \in Clients |-> ~Closed(c)]

Serial == INSTANCE SerialClient WITH
            inside <- absInside, working <- absWorking, open <- absOpen, answer <- reply

\* middleware, Close and closeLocked together keep the promise of SerialClient:
\* every step of theirs is one of its steps or none.
ImplementsSerialClient == Serial!AbsSpec
=============================================================================
