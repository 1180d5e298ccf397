---------------------------- MODULE ClientHandlers ----------------------------
(***************************************************************************)
(* The handlers of a Client at work, one at a time.                        *)
(*                                                                         *)
(* ClientMiddleware shows that a Client runs one handler at a time and     *)
(* treats its work as one native operation.  This module composes the      *)
(* inside of the handlers that keep several resources of their own: those  *)
(* that make Nix values (ValueScopes), the one that serves a daemon        *)
(* connection (DaemonConnection) and, beneath all of them, a raw call with *)
(* a structured argument (CallArguments).  The descriptors are shared with *)
(* the rest of the process, and Go's collector runs beside everything.     *)
(* The handlers share no state of their own, so a behaviour keeps to one   *)
(* kind of handler.                                                        *)
(***************************************************************************)
EXTENDS ValueScopes, DaemonConnection, CallArguments

VARIABLE
    handler   \* the kind of handler the Client runs

vars == <<scopeVars, daemonVars, argVars, handler>>

Init ==
    /\ ScopesInit /\ DaemonInit /\ ArgsInit
    /\ handler \in {"values", "connection", "arguments"}

\* An operation on values and the caller's use of its results.
ValueStep ==
    /\ handler = "values"
    /\ ScopesNext
    /\ UNCHANGED <<daemonVars, argVars, handler>>

\* A connection, with the rest of the process.
ConnectionStep ==
    /\ handler = "connection"
    /\ DaemonNext
    /\ UNCHANGED <<scopeVars, argVars, handler>>

\* A raw call with a structured argument, and the collector.
ArgumentStep ==
    /\ handler = "arguments"
    /\ ArgsNext
    /\ UNCHANGED <<scopeVars, daemonVars, handler>>

Next == ValueStep \/ ConnectionStep \/ ArgumentStep

Spec == Init /\ [][Next]_vars

TypeOK == ScopesTypeOK /\ DaemonTypeOK /\ ArgsTypeOK
=============================================================================
