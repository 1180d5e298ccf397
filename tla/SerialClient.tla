---------------------------- MODULE SerialClient ----------------------------
(***************************************************************************)
(* What gonix.Client promises its callers, without saying how: at most one *)
(* operation is inside a Client, a second one is refused with              *)
(* ErrConcurrentUse, work happens only on an open Client, the Client is    *)
(* shut only while no work is under way, it never opens again, and a call  *)
(* that finds it shut is told so.                                          *)
(***************************************************************************)
CONSTANTS Clients, Callers

VARIABLES
    inside,   \* the callers inside each Client
    working,  \* the callers whose handler is at work on it
    open,     \* the Client has not been closed
    answer    \* what the last call of each caller returned

absVars == <<inside, working, open, answer>>

\* Replies of a call that did its work, of one that ended with the Client shut,
\* and of one that found it shut.
Outcomes == {"ok", "error", "interrupted", "ctxErr"}
ShutOutcomes == {"canceled", "closed", "ErrClosed"}

AbsInit ==
    /\ inside = [c \in Clients |-> {}]
    /\ working = [c \in Clients |-> {}]
    /\ open = [c \in Clients |-> TRUE]
    /\ answer = [p \in Callers |-> "none"]

Refuse(p, c) ==
    /\ inside[c] # {}
    /\ answer' = [answer EXCEPT ![p] = "ErrConcurrentUse"]
    /\ UNCHANGED <<inside, working, open>>

Enter(p, c) ==
    /\ inside[c] = {}
    /\ inside' = [inside EXCEPT ![c] = {p}]
    /\ answer' = [answer EXCEPT ![p] = "none"]
    /\ UNCHANGED <<working, open>>

Work(p, c) ==
    /\ inside[c] = {p}
    /\ open[c]
    /\ working[c] = {}
    /\ working' = [working EXCEPT ![c] = {p}]
    /\ UNCHANGED <<inside, open, answer>>

Rest(p, c) ==
    /\ working[c] = {p}
    /\ working' = [working EXCEPT ![c] = {}]
    /\ UNCHANGED <<inside, open, answer>>

Shut(p, c) ==
    /\ inside[c] = {p}
    /\ working[c] = {}
    /\ open' = [open EXCEPT ![c] = FALSE]
    /\ UNCHANGED <<inside, working, answer>>

Decide(p, c) ==
    /\ inside[c] = {p}
    /\ working[c] = {}
    /\ \E a \in Outcomes \cup ShutOutcomes :
         /\ a \in ShutOutcomes <=> ~open[c]
         /\ answer' = [answer EXCEPT ![p] = a]
    /\ UNCHANGED <<inside, working, open>>

Leave(p, c) ==
    /\ inside[c] = {p}
    /\ working[c] = {}
    /\ answer[p] # "none"
    /\ inside' = [inside EXCEPT ![c] = {}]
    /\ UNCHANGED <<working, open, answer>>

AbsNext ==
    \E p \in Callers, c \in Clients :
       \/ Refuse(p, c) \/ Enter(p, c) \/ Work(p, c) \/ Rest(p, c)
       \/ Shut(p, c) \/ Decide(p, c) \/ Leave(p, c)

AbsSpec == AbsInit /\ [][AbsNext]_absVars
=============================================================================
