----------------------------- MODULE ValueLedger -----------------------------
(***************************************************************************)
(* What the methods of Evaluator and Value promise the code that calls     *)
(* them, without saying how: each is one step to its caller.  A method     *)
(* that makes a Value delivers exactly one when it succeeds and none when  *)
(* it fails, no method takes a Value away, a Value stays in hand until it  *)
(* is closed, and a reference is mislaid only where Nix refuses to drop    *)
(* it.  This is the method that ValueScopes calls in its Obtain.           *)
(***************************************************************************)
CONSTANT Values

VARIABLES
    inHand,   \* the Values the callers hold
    mislaid,  \* the references Nix refused to drop
    running,  \* the kind of method that is running
    answer    \* what the last method returned

ledgerVars == <<inHand, mislaid, running, answer>>

\* A method that makes a Value, and one that does not.
Kinds == {"maker", "user"}

\* Answers of a method that made no raw call, and of one that failed.
Refusals == {"ErrClosed", "otherEvaluator"}
Failures == {"typeError", "nixError", "emptyError"}

LedgerInit ==
    /\ inHand = {}
    /\ mislaid = {}
    /\ running = "none"
    /\ answer = "none"

\* The Values that no reference stands behind.
Unused == Values \ (inHand \cup mislaid)

Refuse ==
    /\ running = "none"
    /\ answer' \in Refusals
    /\ UNCHANGED <<inHand, mislaid, running>>

Start(kind) ==
    /\ running = "none"
    /\ running' = kind
    /\ UNCHANGED <<inHand, mislaid, answer>>

Deliver(v) ==
    /\ running = "maker"
    /\ v \in Unused
    /\ inHand' = inHand \cup {v}
    /\ running' = "none"
    /\ answer' = "ok"
    /\ UNCHANGED mislaid

Finish ==
    /\ running = "user"
    /\ running' = "none"
    /\ answer' = "ok"
    /\ UNCHANGED <<inHand, mislaid>>

Fail ==
    /\ running \in Kinds
    /\ running' = "none"
    /\ answer' \in Failures
    /\ UNCHANGED <<inHand, mislaid>>

\* The method fails, and what it had allocated cannot be dropped.
FailAndMislay(v) ==
    /\ running = "maker"
    /\ v \in Unused
    /\ mislaid' = mislaid \cup {v}
    /\ running' = "none"
    /\ answer' \in Failures
    /\ UNCHANGED inHand

Close(v) ==
    /\ running = "none"
    /\ v \in inHand
    /\ inHand' = inHand \ {v}
    /\ UNCHANGED <<mislaid, running, answer>>

CloseAndMislay(v) ==
    /\ running = "none"
    /\ v \in inHand
    /\ inHand' = inHand \ {v}
    /\ mislaid' = mislaid \cup {v}
    /\ UNCHANGED <<running, answer>>

LedgerNext ==
    \/ Refuse \/ Finish \/ Fail
    \/ \E kind \in Kinds : Start(kind)
    \/ \E v \in Values : Deliver(v) \/ FailAndMislay(v) \/ Close(v) \/ CloseAndMislay(v)

LedgerSpec == LedgerInit /\ [][LedgerNext]_ledgerVars
=============================================================================
