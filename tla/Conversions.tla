----------------------------- MODULE Conversions -----------------------------
(***************************************************************************)
(* The conversions of data between Nix and Go, one in every behaviour:     *)
(* values (Unmarshal), a node of a lock graph (LockGraph), a store path    *)
(* hash (Nix32).  A conversion ends, and the behaviour with it.            *)
(***************************************************************************)
EXTENDS Unmarshal, LockGraph, Nix32

VARIABLE
    conversion   \* which one

vars == <<convVars, lockVars, hashVars, conversion>>

\* The variables of the conversions that do not take place.
NoConvert ==
    /\ job = "none"
    /\ nval = NullValue
    /\ gtype = [k |-> "bool", n |-> 0, strkey |-> FALSE, e |-> <<>>, fields |-> <<>>]
    /\ gold = Nil
    /\ failAt = 0
    /\ gres = Result(Nil, "none", 0)
NoLock == lockStep = "none" /\ doc = NoDocument /\ node = NoNode /\ sent = NoDocument
NoHash == hash = [b \in 0..(HashBytes - 1) |-> 0] /\ digits = <<>>

Init ==
    \/ conversion = "values" /\ ConvertInit /\ NoLock /\ NoHash
    \/ conversion = "lock" /\ NoConvert /\ LockInit /\ NoHash
    \/ conversion = "hash" /\ NoConvert /\ NoLock /\ HashInit

ValueConversion ==
    /\ conversion = "values"
    /\ ConvertNext
    /\ UNCHANGED <<lockVars, hashVars, conversion>>

LockConversion ==
    /\ conversion = "lock"
    /\ LockNext
    /\ UNCHANGED <<convVars, hashVars, conversion>>

HashConversion ==
    /\ conversion = "hash"
    /\ HashNext
    /\ UNCHANGED <<convVars, lockVars, conversion>>

Next == ValueConversion \/ LockConversion \/ HashConversion

Spec == Init /\ [][Next]_vars
=============================================================================
