--------------------------- MODULE DaemonConnection ---------------------------
(***************************************************************************)
(* The file descriptors of ProcessDaemonConnection (client.go).            *)
(*                                                                         *)
(* The handler duplicates the two descriptors it is given, makes the       *)
(* duplicates blocking, lets Nix serve the connection on them and closes   *)
(* them.  Meanwhile the rest of the process opens and closes descriptors:  *)
(* it may close the ones it passed, and the kernel gives every new         *)
(* descriptor the lowest free number, so that numbers change hands.        *)
(*                                                                         *)
(* A descriptor is a number that names an open file description; dup makes *)
(* two numbers name the same one, and O_NONBLOCK is a property of the      *)
(* description.                                                            *)
(*                                                                         *)
(* A definition named Mutant... is a mistaken form of the definition after *)
(* it, used only to show that the properties notice the mistake.           *)
(***************************************************************************)
EXTENDS Integers, FiniteSets, FiniteSetsExt

CONSTANTS
    MaxFD,        \* the limit of open descriptors: numbers are 0..MaxFD
    MaxInt32,     \* the largest number the C interface takes
    Descriptions, \* open file descriptions
    Closed        \* what a number that is not open names

ASSUME FDAssumption == MaxFD \in Nat /\ MaxInt32 \in Nat
ASSUME ClosedAssumption == Closed \notin Descriptions

VARIABLES
    table,     \* what every descriptor of the process names
    others,    \* the same for the descriptors the rest of the process opened
    mode,      \* whether O_NONBLOCK is set on each description
    fdpc,      \* the next step of the handler
    args,      \* fromFD and toFD
    dups,      \* fromDup and toDup
    asked      \* the descriptions the caller passed, Closed if it closed them too early

daemonVars == <<table, others, mode, fdpc, args, dups, asked>>

-----------------------------------------------------------------------------

FDs == 0..MaxFD
Ends == {"from", "to"}
NoFD == -1

\* Numbers a caller may pass: also negative ones and ones that are too large.
Arguments == FDs \cup {NoFD}

\* A description the rest of the process made non-blocking while the handler was at
\* work is told apart.
Modes == {"blocking", "nonblocking", "resetMeanwhile"}

HandlerSteps == {"idle", "dupFrom", "setFrom", "dupTo", "setTo", "process", "closeFrom", "closeTo"}

DaemonTypeOK ==
    /\ table \in [FDs -> Descriptions \cup {Closed}]
    /\ others \in [FDs -> Descriptions \cup {Closed}]
    /\ mode \in [Descriptions -> Modes]
    /\ fdpc \in HandlerSteps
    /\ args \in [Ends -> Arguments]
    /\ dups \in [Ends -> Arguments]
    /\ asked \in [Ends -> Descriptions \cup {Closed}]

DaemonInit ==
    /\ table = [fd \in FDs |-> Closed]
    /\ others = [fd \in FDs |-> Closed]
    /\ mode = [d \in Descriptions |-> "blocking"]
    /\ fdpc = "idle"
    /\ args = [e \in Ends |-> NoFD]
    /\ dups = [e \in Ends |-> NoFD]
    /\ asked = [e \in Ends |-> Closed]

Named(fd) == IF fd \in FDs THEN table[fd] ELSE Closed

\* The number the kernel gives to a new descriptor.
FreeFDs == {fd \in FDs : table[fd] = Closed}
Lowest == Min(FreeFDs)

-----------------------------------------------------------------------------
(* The rest of the process *)

\* A new description, as from socket or open; os.File and net.Conn make it
\* non-blocking.
Open(d) ==
    /\ FreeFDs # {}
    /\ \A fd \in FDs : table[fd] # d
    /\ table' = [table EXCEPT ![Lowest] = d]
    /\ others' = [others EXCEPT ![Lowest] = d]
    /\ \E m \in {"blocking", "nonblocking"} : mode' = [mode EXCEPT ![d] = m]
    /\ UNCHANGED <<fdpc, args, dups, asked>>

\* It closes only what it opened, at any time.  A descriptor closed before the
\* handler has duplicated it may name something else by then.
CloseOwn(fd) ==
    /\ others[fd] # Closed
    /\ table' = [table EXCEPT ![fd] = Closed]
    /\ others' = [others EXCEPT ![fd] = Closed]
    /\ asked' = [e \in Ends |->
                    IF args[e] = fd /\ dups[e] = NoFD THEN Closed ELSE asked[e]]
    /\ UNCHANGED <<mode, fdpc, args, dups>>

\* It makes a description it has a descriptor of non-blocking.
MakeNonblocking(fd) ==
    /\ others[fd] # Closed
    /\ mode' = [mode EXCEPT ![others[fd]] = IF fdpc = "idle" THEN "nonblocking" ELSE "resetMeanwhile"]
    /\ UNCHANGED <<table, others, fdpc, args, dups, asked>>

-----------------------------------------------------------------------------
(* The handler *)

\* ProcessDaemonConnection(ctx, fromFD, toFD, ...); the two may be the same.  The
\* context and the store are borrowed first.
ProcessDaemonConnection(from, to) ==
    /\ fdpc = "idle"
    /\ fdpc' = "dupFrom"
    /\ args' = [e \in Ends |-> IF e = "from" THEN from ELSE to]
    /\ dups' = [e \in Ends |-> NoFD]
    /\ asked' = [e \in Ends |-> Named(args'[e])]
    /\ UNCHANGED <<table, others, mode>>

DupStep(e) == IF e = "from" THEN "dupFrom" ELSE "dupTo"
SetStep(e) == IF e = "from" THEN "setFrom" ELSE "setTo"
AfterSet(e) == IF e = "from" THEN "dupTo" ELSE "process"

\* syscall.Dup of an open descriptor no larger than MaxInt32.
MutantDuplicate(e) == args[e]
Duplicate(e) == Lowest

DuplicateFD(e) ==
    /\ fdpc = DupStep(e)
    /\ args[e] \in 0..MaxInt32
    /\ Named(args[e]) # Closed
    /\ FreeFDs # {}
    /\ table' = [table EXCEPT ![Duplicate(e)] = table[args[e]]]
    /\ dups' = [dups EXCEPT ![e] = Duplicate(e)]
    /\ fdpc' = SetStep(e)
    /\ UNCHANGED <<others, mode, args, asked>>

\* What the failing handler closes when it cannot have the duplicate of end e:
\* duplicateFD its own, and ProcessDaemonConnection the one of the input.
MutantGivenUp(e) == {dups[e]}
GivenUp(e) == {dups[f] : f \in {"from", e}} \ {NoFD}

\* The handler returns.
Forget ==
    /\ fdpc' = "idle"
    /\ args' = [f \in Ends |-> NoFD]
    /\ dups' = [f \in Ends |-> NoFD]
    /\ asked' = [f \in Ends |-> Closed]

HandlerFails(e) ==
    /\ table' = [fd \in FDs |-> IF fd \in GivenUp(e) THEN Closed ELSE table[fd]]
    /\ Forget
    /\ UNCHANGED <<others, mode>>

\* A negative or too large number, one that is not open, or no number left.
DuplicateFails(e) ==
    /\ fdpc = DupStep(e)
    /\ args[e] \notin 0..MaxInt32 \/ Named(args[e]) = Closed \/ FreeFDs = {}
    /\ HandlerFails(e)

\* syscall.SetNonblock(dup, false), for a duplicate that C can name.
MutantSetBlocking(e) == mode
SetBlocking(e) == [mode EXCEPT ![table[dups[e]]] = "blocking"]

SetNonblock(e) ==
    /\ fdpc = SetStep(e)
    /\ dups[e] <= MaxInt32
    /\ mode' = SetBlocking(e)
    /\ fdpc' = AfterSet(e)
    /\ UNCHANGED <<table, others, args, dups, asked>>

\* The duplicate is too large, or its mode cannot be set.
SetNonblockFails(e) == fdpc = SetStep(e) /\ HandlerFails(e)

\* raw.DaemonProcessConnectionStore returns, well or badly: the handler closes both
\* duplicates in either case.
Process ==
    /\ fdpc = "process"
    /\ fdpc' = "closeFrom"
    /\ UNCHANGED <<table, others, mode, args, dups, asked>>

\* closeFD: the kernel frees the number whether or not close reports an error.
MutantToClose(e) == args[e]
ToClose(e) == dups[e]

CloseFrom ==
    /\ fdpc = "closeFrom"
    /\ table' = [table EXCEPT ![ToClose("from")] = Closed]
    /\ dups' = [dups EXCEPT !["from"] = NoFD]
    /\ fdpc' = "closeTo"
    /\ UNCHANGED <<others, mode, args, asked>>

CloseTo ==
    /\ fdpc = "closeTo"
    /\ table' = [table EXCEPT ![ToClose("to")] = Closed]
    /\ Forget
    /\ UNCHANGED <<others, mode>>

HandlerNext ==
    \/ \E e \in Ends : DuplicateFD(e) \/ DuplicateFails(e) \/ SetNonblock(e)
                       \/ SetNonblockFails(e)
    \/ Process \/ CloseFrom \/ CloseTo

DaemonNext ==
    \/ \E d \in Descriptions : Open(d)
    \/ \E fd \in FDs : CloseOwn(fd) \/ MakeNonblocking(fd)
    \/ \E from, to \in Arguments : ProcessDaemonConnection(from, to)
    \/ HandlerNext

DaemonSpec == DaemonInit /\ [][DaemonNext]_daemonVars

-----------------------------------------------------------------------------
(* Properties *)

\* ProcessDaemonConnection "closes only the duplicates": whatever numbers change
\* hands, the descriptors of the rest of the process name what it opened.
OthersUntouched == \A fd \in FDs : others[fd] # Closed => table[fd] = others[fd]

\* When the handler is not at work, after success and after any failure of
\* duplicateFD for either end, no duplicate is left open.
NoDuplicateLeft == fdpc = "idle" => table = others

\* While Nix serves the connection, its two descriptors name what the caller passed,
\* even though the caller has closed its own and their numbers may have been given
\* away, provided the caller had not closed them before they were duplicated.  Both
\* are blocking, whatever mode the caller's had, unless the rest of the process
\* changed the mode meanwhile: the mode belongs to the description, so that setting
\* it through the duplicate sets it for the caller's descriptor as well.
ServesWhatWasAsked ==
    fdpc = "process" => \A e \in Ends :
        /\ asked[e] # Closed => table[dups[e]] = asked[e]
        /\ mode[table[dups[e]]] # "nonblocking"
=============================================================================
