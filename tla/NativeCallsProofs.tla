-------------------------- MODULE NativeCallsProofs --------------------------
(***************************************************************************)
(* Proofs about what the native calls of the handlers rest on:             *)
(* DaemonConnection, for any number of descriptors, any set of open file   *)
(* descriptions and any limit of the C interface, and CallArguments, for   *)
(* arrays of any length.                                                   *)
(***************************************************************************)
EXTENDS DaemonConnection, CallArguments, WellFoundedInduction, TLAPS

-----------------------------------------------------------------------------
(* DaemonConnection.  The properties follow from an account of the           *)
(* descriptor table: what the rest of the process has not opened is a        *)
(* duplicate, the duplicates are the ones the step of the handler says, and  *)
(* each names what the caller passed.                                        *)

\* The steps between which the duplicate of an end exists.
HasDup(e) ==
    IF e = "from" THEN fdpc \in {"setFrom", "dupTo", "setTo", "process", "closeFrom"}
                  ELSE fdpc \in {"setTo", "process", "closeFrom", "closeTo"}

\* The steps before it is made.
Awaited(e) ==
    IF e = "from" THEN fdpc = "dupFrom" ELSE fdpc \in {"dupFrom", "setFrom", "dupTo"}

\* A number that is open belongs to the rest of the process or is a duplicate.
Shared ==
    \A fd \in FDs :
        \/ table[fd] = others[fd]
        \/ others[fd] = Closed /\ \E e \in Ends : dups[e] = fd

\* The duplicates are there exactly at the steps that need them, are open, and are
\* nobody else's.
Duplicates ==
    /\ \A e \in Ends : dups[e] # NoFD <=> HasDup(e)
    /\ \A e \in Ends : HasDup(e) => others[dups[e]] = Closed /\ table[dups[e]] # Closed
    /\ HasDup("from") /\ HasDup("to") => dups["from"] # dups["to"]

\* What the caller asked for is behind its descriptor until the duplicate is made,
\* and behind the duplicate from then on.
Asked ==
    \A e \in Ends : asked[e] # Closed =>
        /\ Awaited(e) => args[e] \in FDs /\ others[args[e]] = asked[e]
        /\ HasDup(e) => table[dups[e]] = asked[e]

\* What has been made blocking stays so unless someone else changes it.
Blocking ==
    /\ fdpc \in {"dupTo", "setTo", "process"} => mode[table[dups["from"]]] # "nonblocking"
    /\ fdpc = "process" => mode[table[dups["to"]]] # "nonblocking"

DaemonInv == DaemonTypeOK /\ Shared /\ Duplicates /\ Asked /\ Blocking

-----------------------------------------------------------------------------

\* The kernel finds a number when one is free.
LEMMA LowestIsFree ==
    ASSUME DaemonTypeOK, FreeFDs # {}
    PROVE  Lowest \in FDs /\ table[Lowest] = Closed
<1>1. FreeFDs \subseteq Nat
    BY FDAssumption DEF FreeFDs, FDs
<1> DEFINE Less == {ss \in Nat \X Nat : ss[1] < ss[2]}
<1>2. PICK x \in FreeFDs : \A y \in FreeFDs : ~(<<y, x>> \in Less)
  <2>1. OpToRel(<, Nat) = Less
    BY Zenon DEF OpToRel
  <2>2. IsWellFoundedOn(Less, Nat)
    BY <2>1, NatLessThanWellFounded, Zenon
  <2> QED
    BY <1>1, <2>2, WFMin, Zenon
<1>3. ASSUME NEW y \in FreeFDs PROVE x <= y
  <2>1. x \in Nat /\ y \in Nat
    BY <1>1, Zenon
  <2>2. y < x => <<y, x>> \in Less
    BY <2>1
  <2> QED
    BY <1>2, <2>1, <2>2
<1>4. Lowest \in FreeFDs
    BY <1>2, <1>3 DEF Lowest, Min
<1> QED
    BY <1>4 DEF FreeFDs

\* Numbers are never the value that stands for no number.
LEMMA FDsAreNumbers == NoFD \notin FDs /\ FDs \subseteq Int
BY FDAssumption DEF FDs, NoFD

\* Before the first connection nothing is duplicated.
LEMMA InitEstablishes == DaemonInit => DaemonInv
BY FDsAreNumbers DEF DaemonInit, DaemonInv, DaemonTypeOK, Shared, Duplicates, Asked, Blocking,
   HasDup, Awaited, Ends, Modes, HandlerSteps, Arguments

-----------------------------------------------------------------------------
(* The rest of the process *)

\* A new descriptor takes a number that was free, so it is no duplicate's, and a
\* description no number named, so that no duplicate's mode changes.
LEMMA OpenKeeps ==
    ASSUME DaemonInv, NEW d \in Descriptions, Open(d)
    PROVE  DaemonInv'
<1> USE DEF DaemonInv
<1>1. Lowest \in FDs /\ table[Lowest] = Closed
    BY LowestIsFree DEF Open
<1>2. DaemonTypeOK'
    BY <1>1 DEF DaemonTypeOK, Open, Modes
<1>3. \A e \in Ends : HasDup(e) => dups[e] \in FDs /\ dups[e] # Lowest
    BY <1>1 DEF DaemonTypeOK, Duplicates, Arguments
<1>4. Shared'
    BY <1>1 DEF DaemonTypeOK, Open, Shared
<1>5. Duplicates'
    BY <1>1, <1>3 DEF DaemonTypeOK, Open, Duplicates, HasDup, Ends
<1>6. Asked'
  <2>1. \A e \in Ends : asked[e] # Closed /\ Awaited(e) => args[e] # Lowest
    BY <1>1, ClosedAssumption DEF Asked, Shared, DaemonTypeOK
  <2> QED
    BY <1>1, <1>3, <2>1 DEF DaemonTypeOK, Open, Asked, HasDup, Awaited
<1>7. Blocking'
  <2>1. \A e \in Ends : HasDup(e) => table[dups[e]] # d /\ table[dups[e]] \in Descriptions
    BY <1>3 DEF Open, Duplicates, DaemonTypeOK
  <2> QED
    BY <1>1, <1>3, <2>1 DEF DaemonTypeOK, Open, Blocking, HasDup, Ends
<1> QED
    BY <1>2, <1>4, <1>5, <1>6, <1>7

\* The rest of the process closes what it opened, which is no duplicate; a caller that
\* does so before the duplicate is made has given up what it asked for.
LEMMA CloseOwnKeeps ==
    ASSUME DaemonInv, NEW fd \in FDs, CloseOwn(fd)
    PROVE  DaemonInv'
<1> USE DEF DaemonInv
<1>1. DaemonTypeOK'
    BY DEF DaemonTypeOK, CloseOwn
<1>2. \A e \in Ends : HasDup(e) => dups[e] \in FDs /\ dups[e] # fd
    BY DEF CloseOwn, DaemonTypeOK, Duplicates, Arguments
<1>3. Shared'
    BY DEF DaemonTypeOK, CloseOwn, Shared
<1>4. Duplicates'
    BY <1>2 DEF DaemonTypeOK, CloseOwn, Duplicates, HasDup, Ends
<1>5. Asked'
    BY <1>2 DEF DaemonTypeOK, CloseOwn, Asked, Duplicates, HasDup, Awaited, Ends
<1>6. Blocking'
    BY <1>2 DEF DaemonTypeOK, CloseOwn, Blocking, HasDup, Ends
<1> QED
    BY <1>1, <1>3, <1>4, <1>5, <1>6

\* A mode changed while the handler is at work is remembered as such.
LEMMA MakeNonblockingKeeps ==
    ASSUME DaemonInv, NEW fd \in FDs, MakeNonblocking(fd)
    PROVE  DaemonInv'
<1> USE DEF DaemonInv
<1>1. DaemonTypeOK'
    BY DEF DaemonTypeOK, MakeNonblocking, Modes
<1>2. Shared' /\ Duplicates' /\ Asked'
    BY DEF MakeNonblocking, Shared, Duplicates, Asked, HasDup, Awaited
<1>3. Blocking'
    BY DEF DaemonTypeOK, MakeNonblocking, Blocking, Duplicates, HasDup, Ends, Arguments
<1> QED
    BY <1>1, <1>2, <1>3

-----------------------------------------------------------------------------
(* The handler *)

\* Between connections every open number is someone else's.
LEMMA IdleTable ==
    ASSUME DaemonInv, fdpc = "idle"
    PROVE  table = others
<1>1. \A e \in Ends : dups[e] \notin FDs
    BY FDsAreNumbers DEF DaemonInv, Duplicates, HasDup, Ends
<1>2. \A fd \in FDs : table[fd] = others[fd]
    BY <1>1 DEF DaemonInv, Shared
<1> QED
    BY <1>2 DEF DaemonInv, DaemonTypeOK

\* What is asked for is what the descriptors name at the call.
LEMMA ProcessDaemonConnectionKeeps ==
    ASSUME DaemonInv, NEW from \in Arguments, NEW to \in Arguments,
           ProcessDaemonConnection(from, to)
    PROVE  DaemonInv'
<1> USE DEF DaemonInv
<1>1. table = others
    BY IdleTable DEF ProcessDaemonConnection
<1>2. DaemonTypeOK'
    BY DEF DaemonTypeOK, ProcessDaemonConnection, Named, HandlerSteps, Ends, Arguments
<1>3. Shared'
    BY <1>1 DEF ProcessDaemonConnection, Shared
<1>4. Duplicates'
    BY DEF ProcessDaemonConnection, Duplicates, HasDup, Ends
<1>5. Asked'
    BY <1>1 DEF ProcessDaemonConnection, Asked, HasDup, Awaited, Named, Ends
<1>6. Blocking'
    BY DEF ProcessDaemonConnection, Blocking
<1> QED
    BY <1>2, <1>3, <1>4, <1>5, <1>6

\* dup takes a free number, and finds what was asked for if it still is there.
LEMMA DuplicateFDKeeps ==
    ASSUME DaemonInv, NEW e \in Ends, DuplicateFD(e)
    PROVE  DaemonInv'
<1> USE DEF DaemonInv
<1>1. Lowest \in FDs /\ table[Lowest] = Closed /\ Lowest # NoFD
    BY LowestIsFree, FDsAreNumbers DEF DuplicateFD
<1>2. args[e] \in FDs /\ table[args[e]] \in Descriptions
    BY DEF DuplicateFD, Named, DaemonTypeOK
<1>3. DaemonTypeOK'
    BY <1>1, <1>2 DEF DaemonTypeOK, DuplicateFD, Duplicate, SetStep, HandlerSteps, Arguments
<1>4. \A f \in Ends : HasDup(f) => dups[f] \in FDs /\ dups[f] # Lowest
    BY <1>1 DEF DaemonTypeOK, Duplicates, Arguments
<1>5. others[Lowest] = Closed /\ dups[e] = NoFD
    BY <1>1, FDsAreNumbers DEF DaemonTypeOK, Shared, Duplicates, DuplicateFD, DupStep, HasDup,
       Ends
<1>6. Shared'
    BY <1>1, <1>5, FDsAreNumbers DEF DaemonTypeOK, DuplicateFD, Duplicate, Shared
<1>7. Duplicates'
    BY <1>1, <1>2, <1>4, <1>5, ClosedAssumption
    DEF DaemonTypeOK, DuplicateFD, Duplicate, Duplicates, HasDup, DupStep, SetStep, Ends
<1>8. Asked'
  <2>1. asked[e] # Closed => others[args[e]] = asked[e]
    BY DEF Asked, Awaited, DuplicateFD, DupStep, Ends
  <2>2. asked[e] # Closed => table[args[e]] = asked[e]
    BY <1>2, <2>1 DEF Shared
  <2> QED
    BY <1>1, <1>4, <2>2
    DEF DaemonTypeOK, DuplicateFD, Duplicate, Asked, HasDup, Awaited, DupStep, SetStep, Ends
<1>9. Blocking'
    BY <1>1, <1>4 DEF DaemonTypeOK, DuplicateFD, Duplicate, Blocking, HasDup, DupStep, SetStep,
       Ends
<1> QED
    BY <1>3, <1>6, <1>7, <1>8, <1>9

\* A handler that gives up closes the duplicates it has and no other number.
LEMMA HandlerFailsKeeps ==
    ASSUME DaemonInv, NEW e \in Ends, fdpc \in {DupStep(e), SetStep(e)}, HandlerFails(e)
    PROVE  DaemonInv'
<1> USE DEF DaemonInv
<1>1. \A f \in Ends : HasDup(f) => f = "from" \/ f = e
    BY DEF HasDup, DupStep, SetStep, Ends
<1>2. GivenUp(e) = {dups[f] : f \in {g \in Ends : HasDup(g)}}
    BY <1>1 DEF GivenUp, Duplicates, Ends
<1>3. table' = others
  <2>1. \A fd \in FDs : table'[fd] = others[fd]
    BY <1>2, FDsAreNumbers DEF HandlerFails, Shared, Duplicates
  <2> QED
    BY <2>1 DEF HandlerFails, DaemonTypeOK
<1>4. DaemonTypeOK'
    BY <1>3 DEF DaemonTypeOK, HandlerFails, Forget, HandlerSteps, Arguments
<1>5. Shared' /\ Duplicates' /\ Asked' /\ Blocking'
    BY <1>3 DEF HandlerFails, Forget, Shared, Duplicates, Asked, Blocking, HasDup, Ends
<1> QED
    BY <1>4, <1>5

\* A duplicate that C can name has been made blocking.
LEMMA SetNonblockKeeps ==
    ASSUME DaemonInv, NEW e \in Ends, SetNonblock(e)
    PROVE  DaemonInv'
<1> USE DEF DaemonInv
<1>1. HasDup(e) /\ dups[e] \in FDs /\ table[dups[e]] \in Descriptions
    BY DEF SetNonblock, SetStep, HasDup, Duplicates, DaemonTypeOK, Arguments, Ends
<1>2. DaemonTypeOK'
    BY <1>1 DEF DaemonTypeOK, SetNonblock, SetBlocking, Modes, AfterSet, HandlerSteps
<1>3. Shared' /\ Duplicates' /\ Asked'
    BY DEF SetNonblock, SetStep, AfterSet, Shared, Duplicates, Asked, HasDup, Awaited, Ends
<1>4. Blocking'
    BY <1>1 DEF DaemonTypeOK, SetNonblock, SetBlocking, SetStep, AfterSet, Blocking, Duplicates,
       HasDup, Ends, Arguments
<1> QED
    BY <1>2, <1>3, <1>4

\* Nix has served the connection, and the duplicates are still there.
LEMMA ProcessKeeps ==
    ASSUME DaemonInv, Process
    PROVE  DaemonInv'
BY DEF DaemonInv, DaemonTypeOK, Process, Shared, Duplicates, Asked, Blocking, HasDup, Awaited,
   HandlerSteps, Ends

\* The first deferred close takes the duplicate and nothing else.
LEMMA CloseFromKeeps ==
    ASSUME DaemonInv, CloseFrom
    PROVE  DaemonInv'
<1> USE DEF DaemonInv
<1>1. HasDup("from") /\ HasDup("to") /\ "from" \in Ends /\ "to" \in Ends
    BY DEF CloseFrom, HasDup, Ends
<1>2. dups["from"] \in FDs /\ dups["to"] \in FDs
    BY <1>1 DEF Duplicates, DaemonTypeOK, Arguments
<1>3. DaemonTypeOK'
    BY <1>2 DEF DaemonTypeOK, CloseFrom, ToClose, HandlerSteps, Arguments
<1>4. Shared'
    BY <1>1, <1>2, FDsAreNumbers DEF DaemonTypeOK, CloseFrom, ToClose, Shared, Duplicates, Ends
<1>5. Duplicates'
    BY <1>1, <1>2 DEF DaemonTypeOK, CloseFrom, ToClose, Duplicates, HasDup, Ends
<1>6. Asked' /\ Blocking'
    BY <1>1, <1>2 DEF DaemonTypeOK, CloseFrom, ToClose, Asked, Blocking, Duplicates, HasDup,
       Awaited, Ends
<1> QED
    BY <1>3, <1>4, <1>5, <1>6

\* The last deferred close takes the other duplicate.
LEMMA CloseToKeeps ==
    ASSUME DaemonInv, CloseTo
    PROVE  DaemonInv'
<1> USE DEF DaemonInv
<1>1. ~HasDup("from") /\ HasDup("to") /\ "from" \in Ends /\ "to" \in Ends
    BY DEF CloseTo, HasDup, Ends
<1>2. dups["from"] = NoFD /\ dups["to"] \in FDs
    BY <1>1 DEF Duplicates, DaemonTypeOK, Arguments
<1>3. table' = others
  <2>1. \A fd \in FDs : table'[fd] = others[fd]
    BY <1>1, <1>2, FDsAreNumbers DEF CloseTo, ToClose, Shared, Duplicates, DaemonTypeOK, Ends
  <2> QED
    BY <2>1 DEF CloseTo, DaemonTypeOK
<1>4. DaemonTypeOK'
    BY <1>3 DEF DaemonTypeOK, CloseTo, Forget, HandlerSteps, Arguments
<1>5. Shared' /\ Duplicates' /\ Asked' /\ Blocking'
    BY <1>3 DEF CloseTo, Forget, Shared, Duplicates, Asked, Blocking, HasDup, Ends
<1> QED
    BY <1>4, <1>5

-----------------------------------------------------------------------------

\* Every step keeps the account of the table.
LEMMA StepPreserves == DaemonInv /\ [DaemonNext]_daemonVars => DaemonInv'
<1> SUFFICES ASSUME DaemonInv, [DaemonNext]_daemonVars
             PROVE  DaemonInv'
    OBVIOUS
<1>1. CASE UNCHANGED daemonVars
    BY <1>1 DEF daemonVars, DaemonInv, DaemonTypeOK, Shared, Duplicates, Asked, Blocking,
       HasDup, Awaited
<1>2. CASE \E d \in Descriptions : Open(d)
    BY <1>2, OpenKeeps
<1>3. CASE \E fd \in FDs : CloseOwn(fd) \/ MakeNonblocking(fd)
    BY <1>3, CloseOwnKeeps, MakeNonblockingKeeps
<1>4. CASE \E from, to \in Arguments : ProcessDaemonConnection(from, to)
    BY <1>4, ProcessDaemonConnectionKeeps
<1>5. ASSUME NEW e \in Ends, DuplicateFD(e) \/ DuplicateFails(e) \/ SetNonblock(e) \/ SetNonblockFails(e)
      PROVE  DaemonInv'
  <2>1. CASE DuplicateFD(e)
    BY <2>1, DuplicateFDKeeps
  <2>2. CASE DuplicateFails(e) \/ SetNonblockFails(e)
    BY <2>2, HandlerFailsKeeps DEF DuplicateFails, SetNonblockFails
  <2>3. CASE SetNonblock(e)
    BY <2>3, SetNonblockKeeps
  <2> QED
    BY <1>5, <2>1, <2>2, <2>3
<1>6. CASE Process \/ CloseFrom \/ CloseTo
    BY <1>6, ProcessKeeps, CloseFromKeeps, CloseToKeeps
<1> QED
    BY <1>1, <1>2, <1>3, <1>4, <1>5, <1>6 DEF DaemonNext, HandlerNext

\* The account of the descriptor table holds in every behaviour.
THEOREM TableAccounted == DaemonSpec => []DaemonInv
<1>1. DaemonInit => DaemonInv
    BY InitEstablishes
<1>2. DaemonInv /\ [DaemonNext]_daemonVars => DaemonInv'
    BY StepPreserves
<1> QED
    BY <1>1, <1>2, PTL DEF DaemonSpec

\* However numbers change hands, ProcessDaemonConnection never closes or replaces a
\* descriptor that the rest of the process opened.
THEOREM OnlyDuplicatesTouched == DaemonSpec => []OthersUntouched
<1>1. DaemonInv => OthersUntouched
    BY DEF DaemonInv, Shared, OthersUntouched
<1> QED
    BY <1>1, TableAccounted, PTL

\* Whatever step of ProcessDaemonConnection or duplicateFD fails, both duplicates are
\* closed when the handler has returned.
THEOREM DuplicatesClosed == DaemonSpec => []NoDuplicateLeft
<1>1. DaemonInv => NoDuplicateLeft
    BY IdleTable DEF NoDuplicateLeft
<1> QED
    BY <1>1, TableAccounted, PTL

\* Nix serves the connection it was asked to serve, on blocking descriptors, whatever
\* the caller does with its own meanwhile.
THEOREM RightConnectionServed == DaemonSpec => []ServesWhatWasAsked
<1>1. DaemonInv => ServesWhatWasAsked
    BY DEF DaemonInv, Asked, Blocking, HasDup, Ends, ServesWhatWasAsked
<1> QED
    BY <1>1, TableAccounted, PTL

-----------------------------------------------------------------------------
(* CallArguments.  FreedOnce is kept by Borrow and by new memory alone       *)
(* (Tracked); that no finalizer takes memory C still reads needs two facts   *)
(* more: which maps have contents at a step, and that every one of them is   *)
(* reachable until C has returned (Reachable).                               *)

\* What a map may come to hold.
MapKinds ==
    [outer  |-> {"struct", "list", "items", "elem", "key", "value"},
     list   |-> {"list", "items", "elem", "key", "value"},
     items  |-> {"items", "elem", "key", "value"},
     elem   |-> {"elem", "key", "value"},
     bytes  |-> {"key", "value"},
     string |-> {"string"}]

\* The Go side's memory is in the maps, each block in one of them.
Tracked ==
    /\ FreedOnce
    /\ \A m \in Maps : \A a \in maps[m] : a[1] \in MapKinds[m]
    /\ \A a \in mem : a[1] \in CKinds \/ \E m \in Maps : a \in maps[m]

\* The maps that may have contents at a step.
InUse ==
    [string |-> {"outer"}, struct |-> {"string"}, list |-> {"outer"},
     items |-> {"outer", "list", "string"}, elem |-> {"outer", "list", "string", "items"},
     field |-> {"outer", "list", "string", "items", "elem"},
     borrow |-> {"outer", "list", "string", "items", "elem", "bytes"},
     lists |-> {"outer", "list"}, enter |-> {"outer", "string"}, pack |-> {"outer", "string"},
     pair |-> {"outer", "string"}, native |-> {"outer", "string"}, unpack |-> {"outer", "string"},
     leave |-> {"outer", "string"}, free |-> {"outer", "string"}, idle |-> {"outer", "string"}]

\* The list is there for CollectGarbage only, and the string while the rest is copied
\* only if it came first.
Filled ==
    /\ \A m \in Maps : maps[m] # {} => m \in InUse[argpc]
    /\ fn # "StoreCollectGarbage" => maps["list"] = {}
    /\ argpc \in {"struct", "list", "items", "elem", "field", "borrow", "lists"} /\ ~StringFirst
          => maps["string"] = {}
    /\ argpc = "idle" /\ Owned => maps["outer"] = {}

\* The maps in the variables of the functions at work.
Locals ==
    /\ argpc \in {"list", "items", "elem", "field", "borrow", "lists"} => "outer" \in roots
    /\ argpc \in {"elem", "field", "borrow"} => "items" \in roots
    /\ argpc \in {"field", "borrow"} => "elem" \in roots
    /\ argpc \in {"items", "elem", "field", "borrow", "lists"} /\ fn = "StoreCollectGarbage"
          => "list" \in roots

\* A map with contents is held by a variable until C has returned.
Reachable ==
    /\ argpc \notin {"idle", "free"} => \A m \in Maps : maps[m] # {} => m \in roots
    /\ argpc \in {"idle", "free"} => "string" \notin roots
    /\ Locals

\* Which steps belong to which calls, and how far the loops are.
Shape ==
    /\ argpc = "string" => fn \in WithString
    /\ argpc \in {"list", "lists"} => fn = "StoreCollectGarbage"
    /\ argpc \in {"items", "elem", "field", "borrow"} => fn \in WithArray
    /\ argpc \in {"struct", "list", "items"} \/ (argpc = "string" /\ StringFirst) => next = 1
    /\ argpc = "elem" => next <= len + 1
    /\ argpc \in {"field", "borrow"} => next <= len
    /\ argpc \in {"pack", "pair"} => fn \in Repacked
    /\ argpc = "pack" => next = 1
    /\ argpc = "pair" => next <= len + 1
    /\ argpc = "free" => Owned
    /\ fn \notin WithArray => len = 0
    /\ argpc \notin {"leave", "free", "idle"} => spoilt = 0

\* What is about to be allocated does not exist yet.
NotYet ==
    /\ argpc = "string" => String \notin mem /\ (StringFirst => mem = {})
    /\ argpc = "struct" => IF StringFirst THEN mem \subseteq {String} ELSE mem = {}
    /\ argpc = "list" => \A a \in mem : a[1] = "struct"
    /\ argpc = "items" => \A a \in mem : a[1] \in {"struct", "list", "string"}
    /\ argpc = "elem" => \A a \in mem : a[1] = "elem" => a[2] < next
    /\ argpc \in {"field", "borrow"} => \A a \in mem : a[1] = "elem" => a[2] <= next

\* The elements whose strings have been copied.
CopiedElements ==
    IF argpc \in {"elem", "field", "borrow"} THEN 1..(next - 1)
    ELSE IF \/ argpc \in {"lists", "enter", "pack", "pair", "native"}
            \/ argpc = "string" /\ ~StringFirst
         THEN 1..len
    ELSE {}

\* What has been allocated and is still there.
Made ==
    /\ argpc \notin {"idle", "struct"} /\ ~(argpc = "string" /\ StringFirst) => Struct \in mem
    /\ /\ fn \in WithArray
       /\ \/ argpc \in {"elem", "field", "borrow", "lists", "enter", "pack", "pair", "native"}
          \/ argpc = "string" /\ ~StringFirst
       => Items \in mem
    /\ fn \in WithString /\ argpc \in {"enter", "pack", "pair", "native"} => String \in mem
    /\ StringFirst /\ argpc \in {"struct", "items", "elem", "field", "borrow"} => String \in mem
    /\ \A i \in CopiedElements : \A k \in DOMAIN Fields[fn] : <<Fields[fn][k], i>> \in mem

\* The shim's memory: nothing before it packs, one element after the other, and
\* at the end nothing but the strings that PairFails forgets.
Shim ==
    /\ argpc \in {"string", "struct", "list", "items", "elem", "field", "borrow", "lists",
                   "enter", "pack"}
          => PackedMemory = {}
    /\ argpc = "pair" =>
          PackedMemory = {Array} \cup UNION {PackedOf(i) : i \in 1..(next - 1)}
    /\ argpc = "native" /\ fn \in Repacked => UNION {PackedOf(i) : i \in 1..len} \subseteq mem
    /\ argpc \in {"leave", "free", "idle"} =>
          PackedMemory \subseteq {"ckey", "cvalue"} \X (1..(spoilt - 1))

ArgsInv == ArgsTypeOK /\ Tracked /\ Filled /\ Reachable /\ Shape /\ NotYet /\ Made /\ Shim

-----------------------------------------------------------------------------
(* Maps *)

\* The strings of an element are its key and its value.
LEMMA FieldKinds ==
    \A f \in RawCalls : \A k \in DOMAIN Fields[f] : Fields[f][k] \in {"key", "value"}
BY DEF RawCalls, Fields

\* New memory in an empty map is tracked, and is none of the shim's.
LEMMA AllocTracks ==
    ASSUME ArgsTypeOK, Tracked, NEW m \in Maps, NEW a \in Memory, maps[m] = {}, a \notin mem,
           a[1] \in MapKinds[m], AllocInto(m, a)
    PROVE  /\ Tracked'
           /\ mem' \in SUBSET Memory /\ maps' \in [Maps -> SUBSET Memory] /\ roots' \in SUBSET Maps
           /\ \A n \in Maps \ {m} : maps'[n] = maps[n]
           /\ PackedMemory' = PackedMemory
<1>1. mem' \in SUBSET Memory /\ maps' \in [Maps -> SUBSET Memory] /\ roots' \in SUBSET Maps
    BY DEF AllocInto, ArgsTypeOK
<1>2. maps'[m] = {a} /\ \A n \in Maps : n # m => maps'[n] = maps[n]
    BY DEF AllocInto, ArgsTypeOK
<1>3. FreedOnce'
    BY <1>2 DEF Tracked, FreedOnce, AllocInto
<1>4. Tracked'
    BY <1>2, <1>3 DEF Tracked, AllocInto
<1>5. a[1] \notin CKinds
    BY DEF MapKinds, Maps, CKinds
<1> QED
    BY <1>1, <1>2, <1>4, <1>5 DEF PackedMemory, AllocInto

\* Borrow moves memory to a map that may hold it.
LEMMA BorrowTracks ==
    ASSUME ArgsTypeOK, Tracked, NEW to \in Maps, NEW from \in Maps, to # from,
           MapKinds[from] \subseteq MapKinds[to], Borrow(to, from)
    PROVE  /\ Tracked'
           /\ maps' \in [Maps -> SUBSET Memory] /\ roots' \in SUBSET Maps
           /\ maps'[from] = {} /\ \A n \in Maps \ {to, from} : maps'[n] = maps[n]
           /\ PackedMemory' = PackedMemory
<1>1. maps' \in [Maps -> SUBSET Memory] /\ roots' \in SUBSET Maps
    BY DEF Borrow, Moved, ArgsTypeOK
<1>2. /\ maps'[to] = maps[to] \cup maps[from] /\ maps'[from] = {}
      /\ \A n \in Maps \ {to, from} : maps'[n] = maps[n]
    BY DEF Borrow, Moved, ArgsTypeOK
<1>3. FreedOnce'
    BY <1>2 DEF Tracked, FreedOnce, Borrow
<1>4. Tracked'
    BY <1>2, <1>3 DEF Tracked, Borrow
<1> QED
    BY <1>1, <1>2, <1>4 DEF PackedMemory, Borrow

-----------------------------------------------------------------------------

\* Before the first call there is no memory.
LEMMA ArgsInitEstablishes == ArgsInit => ArgsInv
<1> SUFFICES ASSUME ArgsInit PROVE ArgsInv
    OBVIOUS
<1>1. ArgsTypeOK
    BY MaxArgsAssumption DEF ArgsInit, ArgsTypeOK, RawCalls, Fields, Steps
<1>2. Tracked /\ Filled /\ Reachable
    BY DEF ArgsInit, Tracked, FreedOnce, Filled, Reachable, Locals, Owned, Maps
<1>3. Shape /\ NotYet /\ Made /\ Shim
    BY DEF ArgsInit, Shape, NotYet, Made, Shim, CopiedElements, PackedMemory, StringFirst,
       Repacked
<1> QED
    BY <1>1, <1>2, <1>3 DEF ArgsInv

\* A call starts when the collector has caught up with the last one.
LEMMA BeginRawCallKeeps ==
    ASSUME ArgsInv, NEW f \in RawCalls, NEW k \in 0..MaxArgs, BeginRawCall(f, k)
    PROVE  ArgsInv'
<1>1. ArgsTypeOK'
    BY MaxArgsAssumption DEF BeginRawCall, ArgsInv, ArgsTypeOK, Steps
<1>2. Tracked' /\ Filled' /\ Reachable'
    BY DEF BeginRawCall, Tracked, FreedOnce, Filled, Reachable, Locals, Owned, Maps
<1>3. Shape' /\ NotYet' /\ Made' /\ Shim'
    BY DEF BeginRawCall, Shape, NotYet, Made, Shim, CopiedElements, PackedMemory, StringFirst,
       WithString, WithArray
<1> QED
    BY <1>1, <1>2, <1>3 DEF ArgsInv

-----------------------------------------------------------------------------
(* Go: the argument is copied *)

\* The wrapper of a string: its map is reachable through KeepAlive.
LEMMA UnpackStringKeeps ==
    ASSUME ArgsInv, UnpackString
    PROVE  ArgsInv'
<1> USE DEF ArgsInv, UnpackString
<1>1. /\ String \in Memory /\ String \notin mem
      /\ "string" \in Maps /\ maps["string"] = {} /\ String[1] \in MapKinds["string"]
    BY MaxArgsAssumption DEF Memory, GoKinds, Maps, MapKinds, Filled, Reachable, Locals, InUse,
       NotYet, Shape, ArgsTypeOK, String, Struct, List, Items
<1>2. /\ Tracked'
      /\ mem' \in SUBSET Memory /\ maps' \in [Maps -> SUBSET Memory] /\ roots' \in SUBSET Maps
      /\ \A n \in Maps \ {"string"} : maps'[n] = maps[n]
      /\ PackedMemory' = PackedMemory
    BY <1>1, AllocTracks
<1>3. ArgsTypeOK'
    BY <1>2 DEF ArgsTypeOK, AllocInto, Steps, Complete
<1>4. Filled' /\ Reachable'
  <2>1. StringFirst => \A n \in Maps : maps[n] = {}
    BY DEF NotYet, Tracked, FreedOnce
  <2>2. \A n \in Maps : maps'[n] # {} => n \in roots'
    BY <1>2 DEF Reachable, AllocInto
  <2>3. \A n \in Maps : maps'[n] # {} => n \in InUse[argpc']
    BY <1>2, <2>1 DEF Filled, Reachable, Locals, InUse
  <2> QED
    BY <1>2, <2>1, <2>2, <2>3 DEF Filled, Reachable, Locals, AllocInto, Maps, StringFirst,
       WithString, Shape
<1>5. Shape'
    BY DEF Shape, AllocInto, Owned, Complete, StringFirst, WithArray, WithString, RawCalls,
       Fields, ArgsTypeOK
<1>6. NotYet'
    BY <1>1 DEF NotYet, Shape, AllocInto, Complete, StringFirst, WithArray, WithString,
       RawCalls, Fields, ArgsTypeOK, String, Struct, List, Items
<1>7. Made'
    BY DEF Made, CopiedElements, Shape, AllocInto, Complete, StringFirst, WithArray,
       WithString, RawCalls, Fields, ArgsTypeOK, String, Struct, List, Items
<1>8. Shim'
    BY <1>2 DEF Shim, AllocInto, Complete
<1> QED
    BY <1>2, <1>3, <1>4, <1>5, <1>6, <1>7, <1>8

\* The struct goes to a map without a finalizer.
LEMMA PassStructKeeps ==
    ASSUME ArgsInv, PassStruct
    PROVE  ArgsInv'
<1> USE DEF ArgsInv, PassStruct
<1>1. /\ Struct \in Memory /\ Struct \notin mem
      /\ "outer" \in Maps /\ maps["outer"] = {} /\ Struct[1] \in MapKinds["outer"]
    BY MaxArgsAssumption DEF Memory, GoKinds, Maps, MapKinds, Filled, Reachable, Locals, InUse,
       NotYet, Shape, ArgsTypeOK, String, Struct, List, Items
<1>2. /\ Tracked'
      /\ mem' \in SUBSET Memory /\ maps' \in [Maps -> SUBSET Memory] /\ roots' \in SUBSET Maps
      /\ \A n \in Maps \ {"outer"} : maps'[n] = maps[n]
      /\ PackedMemory' = PackedMemory
    BY <1>1, AllocTracks
<1>3. ArgsTypeOK'
    BY <1>2 DEF ArgsTypeOK, AllocInto, Steps, Complete
<1>4. Filled' /\ Reachable'
  <2>1. ~StringFirst => \A n \in Maps : maps[n] = {}
    BY DEF NotYet, Tracked, FreedOnce
  <2>2. \A n \in Maps : maps'[n] # {} => n \in roots'
    BY <1>2 DEF Reachable, AllocInto
  <2>3. \A n \in Maps : maps'[n] # {} => n \in {"outer", "string"}
    BY <1>2 DEF Filled, Reachable, Locals, InUse
  <2>4. \A n \in Maps : maps'[n] # {} => n = "outer" \/ StringFirst
    BY <1>2, <2>1
  <2>5. \A n \in Maps : maps'[n] # {} => n \in InUse[argpc']
    BY <2>3, <2>4 DEF InUse, Complete, StringFirst, WithArray, WithString, RawCalls, Fields
  <2> QED
    BY <2>2, <2>5 DEF Filled, Reachable, Locals, AllocInto, Complete, Shape, ArgsTypeOK, Maps,
       StringFirst, WithArray, WithString
<1>5. Shape'
    BY DEF Shape, AllocInto, Owned, Complete, StringFirst, WithArray, WithString, RawCalls,
       Fields, ArgsTypeOK
<1>6. NotYet'
    BY <1>1 DEF NotYet, Shape, AllocInto, Complete, StringFirst, WithArray, WithString,
       RawCalls, Fields, ArgsTypeOK, String, Struct, List, Items
<1>7. Made'
    BY DEF Made, CopiedElements, Shape, AllocInto, Complete, StringFirst, WithArray,
       WithString, RawCalls, Fields, ArgsTypeOK, String, Struct, List, Items
<1>8. Shim'
    BY <1>2 DEF Shim, AllocInto, Complete
<1> QED
    BY <1>2, <1>3, <1>4, <1>5, <1>6, <1>7, <1>8

\* The list nested in the options of CollectGarbage.
LEMMA PassListKeeps ==
    ASSUME ArgsInv, PassList
    PROVE  ArgsInv'
<1> USE DEF ArgsInv, PassList
<1>1. /\ List \in Memory /\ List \notin mem
      /\ "list" \in Maps /\ maps["list"] = {} /\ List[1] \in MapKinds["list"]
    BY MaxArgsAssumption DEF Memory, GoKinds, Maps, MapKinds, Filled, Reachable, Locals, InUse,
       NotYet, Shape, ArgsTypeOK, String, Struct, List, Items
<1>2. /\ Tracked'
      /\ mem' \in SUBSET Memory /\ maps' \in [Maps -> SUBSET Memory] /\ roots' \in SUBSET Maps
      /\ \A n \in Maps \ {"list"} : maps'[n] = maps[n]
      /\ PackedMemory' = PackedMemory
    BY <1>1, AllocTracks
<1>3. ArgsTypeOK'
    BY <1>2 DEF ArgsTypeOK, AllocInto, Steps, Complete
<1>4. Filled' /\ Reachable'
    BY <1>1 DEF Filled, Reachable, Locals, InUse, AllocInto, Owned, Complete, Shape,
       ArgsTypeOK, Maps, StringFirst, WithArray, WithString, RawCalls, Fields
<1>5. Shape'
    BY DEF Shape, AllocInto, Owned, Complete, StringFirst, WithArray, WithString, RawCalls,
       Fields, ArgsTypeOK
<1>6. NotYet'
    BY <1>1 DEF NotYet, Shape, AllocInto, Complete, StringFirst, WithArray, WithString,
       RawCalls, Fields, ArgsTypeOK, String, Struct, List, Items
<1>7. Made'
    BY DEF Made, CopiedElements, Shape, AllocInto, Complete, StringFirst, WithArray,
       WithString, RawCalls, Fields, ArgsTypeOK, String, Struct, List, Items
<1>8. Shim'
    BY <1>2 DEF Shim, AllocInto, Complete
<1> QED
    BY <1>2, <1>3, <1>4, <1>5, <1>6, <1>7, <1>8

\* The array of elements, held by the local of its unpack function.
LEMMA UnpackItemsKeeps ==
    ASSUME ArgsInv, UnpackItems
    PROVE  ArgsInv'
<1> USE DEF ArgsInv, UnpackItems
<1>1. /\ Items \in Memory /\ Items \notin mem
      /\ "items" \in Maps /\ maps["items"] = {} /\ Items[1] \in MapKinds["items"]
    BY MaxArgsAssumption DEF Memory, GoKinds, Maps, MapKinds, Filled, Reachable, Locals, InUse,
       NotYet, Shape, ArgsTypeOK, String, Struct, List, Items
<1>2. /\ Tracked'
      /\ mem' \in SUBSET Memory /\ maps' \in [Maps -> SUBSET Memory] /\ roots' \in SUBSET Maps
      /\ \A n \in Maps \ {"items"} : maps'[n] = maps[n]
      /\ PackedMemory' = PackedMemory
    BY <1>1, AllocTracks
<1>3. ArgsTypeOK'
    BY <1>2 DEF ArgsTypeOK, AllocInto, Steps, Complete
<1>4. Filled' /\ Reachable'
    BY <1>1 DEF Filled, Reachable, Locals, InUse, AllocInto, Owned, Complete, Shape,
       ArgsTypeOK, Maps, StringFirst, WithArray, WithString, RawCalls, Fields
<1>5. Shape'
    BY DEF Shape, AllocInto, Owned, Complete, StringFirst, WithArray, WithString, RawCalls,
       Fields, ArgsTypeOK
<1>6. NotYet'
    BY <1>1 DEF NotYet, Shape, AllocInto, Complete, StringFirst, WithArray, WithString,
       RawCalls, Fields, ArgsTypeOK, String, Struct, List, Items
<1>7. Made'
    BY DEF Made, CopiedElements, Shape, AllocInto, Complete, StringFirst, WithArray,
       WithString, RawCalls, Fields, ArgsTypeOK, String, Struct, List, Items
<1>8. Shim'
    BY <1>2 DEF Shim, AllocInto, Complete
<1> QED
    BY <1>2, <1>3, <1>4, <1>5, <1>6, <1>7, <1>8

\* An element is allocated once, at its turn.
LEMMA PassElementKeeps ==
    ASSUME ArgsInv, PassElement
    PROVE  ArgsInv'
<1> USE DEF ArgsInv, PassElement
<1>1. /\ <<"elem", next>> \in Memory /\ <<"elem", next>> \notin mem
      /\ "elem" \in Maps /\ maps["elem"] = {} /\ <<"elem", next>>[1] \in MapKinds["elem"]
    BY MaxArgsAssumption DEF Memory, GoKinds, Maps, MapKinds, Filled, Reachable, Locals, InUse,
       NotYet, Shape, ArgsTypeOK, String, Struct, List, Items
<1>2. /\ Tracked'
      /\ mem' \in SUBSET Memory /\ maps' \in [Maps -> SUBSET Memory] /\ roots' \in SUBSET Maps
      /\ \A n \in Maps \ {"elem"} : maps'[n] = maps[n]
      /\ PackedMemory' = PackedMemory
    BY <1>1, AllocTracks
<1>3. ArgsTypeOK'
    BY <1>2 DEF ArgsTypeOK, AllocInto, Steps, Complete
<1>4. Filled' /\ Reachable'
    BY <1>1 DEF Filled, Reachable, Locals, InUse, AllocInto, Owned, Complete, Shape,
       ArgsTypeOK, Maps, StringFirst, WithArray, WithString, RawCalls, Fields
<1>5. Shape'
    BY DEF Shape, AllocInto, Owned, Complete, StringFirst, WithArray, WithString, RawCalls,
       Fields, ArgsTypeOK
<1>6. NotYet'
  <2>1. \A a \in mem' : a[1] = "elem" => a[2] <= next
    BY <1>2 DEF NotYet, AllocInto, Memory, ArgsTypeOK
  <2> QED
    BY <2>1 DEF NotYet, AllocInto
<1>7. Made'
    BY DEF Made, CopiedElements, Shape, AllocInto, Complete, StringFirst, WithArray,
       WithString, RawCalls, Fields, ArgsTypeOK, String, Struct, List, Items
<1>8. Shim'
    BY <1>2 DEF Shim, AllocInto, Complete
<1> QED
    BY <1>2, <1>3, <1>4, <1>5, <1>6, <1>7, <1>8

\* A byte string is copied once for its element.
LEMMA CopyBytesKeeps ==
    ASSUME ArgsInv, CopyBytes
    PROVE  ArgsInv'
<1> USE DEF ArgsInv
<1>1. PICK k \in Uncopied : AllocInto("bytes", <<Fields[fn][k], next>>)
    BY DEF CopyBytes
<1> DEFINE a == <<Fields[fn][k], next>>
<1>2. Fields[fn][k] \in {"key", "value"} /\ a \notin mem
    BY FieldKinds DEF Uncopied, ArgsTypeOK
<1>3. a \in Memory /\ "bytes" \in Maps /\ maps["bytes"] = {} /\ a[1] \in MapKinds["bytes"]
    BY <1>2, MaxArgsAssumption DEF CopyBytes, Memory, GoKinds, Maps, MapKinds, Filled, InUse,
       Shape, ArgsTypeOK
<1>4. /\ Tracked'
      /\ mem' \in SUBSET Memory /\ maps' \in [Maps -> SUBSET Memory] /\ roots' \in SUBSET Maps
      /\ \A n \in Maps \ {"bytes"} : maps'[n] = maps[n]
      /\ PackedMemory' = PackedMemory
    BY <1>1, <1>2, <1>3, AllocTracks
<1>5. mem' = mem \cup {a} /\ roots' = roots \cup {"bytes"} /\ UNCHANGED <<fn, len, spoilt, next>>
    BY <1>1 DEF AllocInto, CopyBytes
<1> HIDE DEF a
<1>6. ArgsTypeOK'
    BY <1>4, <1>5 DEF ArgsTypeOK, CopyBytes, Steps
<1>7. Filled' /\ Reachable'
    BY <1>4, <1>5 DEF Filled, Reachable, Locals, InUse, Maps, StringFirst, Shape, CopyBytes
<1>8. Shape'
    BY <1>5 DEF Shape, CopyBytes
<1>9. NotYet'
    BY <1>2, <1>5 DEF NotYet, CopyBytes, a
<1>10. Made' /\ Shim'
    BY <1>4, <1>5 DEF Made, Shim, CopiedElements, CopyBytes, StringFirst
<1> QED
    BY <1>4, <1>6, <1>7, <1>8, <1>9, <1>10

\* The string has moved to the element before its own map is dropped.
LEMMA BorrowBytesKeeps ==
    ASSUME ArgsInv, BorrowBytes
    PROVE  ArgsInv'
<1> USE DEF ArgsInv, BorrowBytes
<1>1. Borrow("elem", "bytes")
    OBVIOUS
<1>2. /\ Tracked'
      /\ maps' \in [Maps -> SUBSET Memory] /\ roots' \in SUBSET Maps
      /\ maps'["bytes"] = {} /\ \A n \in Maps \ {"elem", "bytes"} : maps'[n] = maps[n]
      /\ PackedMemory' = PackedMemory
    BY <1>1, BorrowTracks DEF Maps, MapKinds
<1>3. roots' = roots \ {"bytes"} /\ UNCHANGED <<fn, len, mem, spoilt>>
    BY <1>1 DEF Borrow
<1>4. ArgsTypeOK'
    BY <1>2, <1>3, MaxArgsAssumption DEF ArgsTypeOK, Shape, Steps, Complete
<1>5. Filled' /\ Reachable'
    BY <1>2, <1>3 DEF Filled, Reachable, Locals, InUse, Maps, StringFirst, Shape
<1>6. Shape' /\ NotYet'
    BY <1>3 DEF Shape, NotYet, ArgsTypeOK, Memory
<1>7. Made'
    BY <1>3 DEF Made, CopiedElements, Uncopied, StringFirst, Shape, ArgsTypeOK
<1>8. Shim'
    BY <1>2, <1>3 DEF Shim
<1> QED
    BY <1>2, <1>4, <1>5, <1>6, <1>7, <1>8

\* The element has moved to the array, and all its strings with it.
LEMMA BorrowElementKeeps ==
    ASSUME ArgsInv, BorrowElement
    PROVE  ArgsInv'
<1> USE DEF ArgsInv, BorrowElement
<1>1. Borrow("items", "elem")
    OBVIOUS
<1>2. /\ Tracked'
      /\ maps' \in [Maps -> SUBSET Memory] /\ roots' \in SUBSET Maps
      /\ maps'["elem"] = {} /\ \A n \in Maps \ {"items", "elem"} : maps'[n] = maps[n]
      /\ PackedMemory' = PackedMemory
    BY <1>1, BorrowTracks DEF Maps, MapKinds
<1>3. roots' = roots \ {"elem"} /\ UNCHANGED <<fn, len, mem, spoilt>>
    BY <1>1 DEF Borrow
<1>4. ArgsTypeOK'
    BY <1>2, <1>3, MaxArgsAssumption DEF ArgsTypeOK, Shape, Steps, Complete
<1>5. Filled' /\ Reachable'
    BY <1>2, <1>3 DEF Filled, Reachable, Locals, InUse, Maps, StringFirst, Shape
<1>6. Shape' /\ NotYet'
    BY <1>3 DEF Shape, NotYet, ArgsTypeOK, Memory
<1>7. Made'
    BY <1>3 DEF Made, CopiedElements, Uncopied, StringFirst, Shape, ArgsTypeOK
<1>8. Shim'
    BY <1>2, <1>3 DEF Shim
<1> QED
    BY <1>2, <1>4, <1>5, <1>6, <1>7, <1>8

\* The array has moved to the struct, or to the list inside it.
LEMMA BorrowItemsKeeps ==
    ASSUME ArgsInv, BorrowItems
    PROVE  ArgsInv'
<1> USE DEF ArgsInv, BorrowItems
<1> DEFINE to == IF fn = "StoreCollectGarbage" THEN "list" ELSE "outer"
<1>1. Borrow(to, "items")
    OBVIOUS
<1>2. to \in Maps /\ "items" \in Maps /\ to # "items" /\ MapKinds["items"] \subseteq MapKinds[to]
    BY DEF Maps, MapKinds
<1>3. /\ Tracked'
      /\ maps' \in [Maps -> SUBSET Memory] /\ roots' \in SUBSET Maps
      /\ maps'["items"] = {} /\ \A n \in Maps \ {to, "items"} : maps'[n] = maps[n]
      /\ PackedMemory' = PackedMemory
    BY <1>1, <1>2, BorrowTracks
<1>4. roots' = roots \ {"items"} /\ UNCHANGED <<fn, len, mem, spoilt>>
    BY <1>1 DEF Borrow
<1>5. ArgsTypeOK'
    BY <1>3, <1>4 DEF ArgsTypeOK, Steps, Complete
<1>6. Filled' /\ Reachable'
    BY <1>3, <1>4 DEF Filled, Reachable, Locals, InUse, Maps, StringFirst, Shape, Complete
<1>7. Shape' /\ NotYet'
  <2>1. ~StringFirst => String \notin mem
    BY DEF Tracked, Filled, MapKinds, Maps, CKinds, String
  <2> QED
    BY <1>4, <2>1 DEF Shape, NotYet, Complete, StringFirst, WithString
<1>8. Made'
    BY <1>4 DEF Made, CopiedElements, Complete, StringFirst, Shape, ArgsTypeOK, WithString
<1>9. Shim'
    BY <1>3, <1>4 DEF Shim, Complete
<1> QED
    BY <1>3, <1>5, <1>6, <1>7, <1>8, <1>9

\* The list has moved to the struct.
LEMMA BorrowListKeeps ==
    ASSUME ArgsInv, BorrowList
    PROVE  ArgsInv'
<1> USE DEF ArgsInv, BorrowList
<1>1. Borrow("outer", "list")
    OBVIOUS
<1>2. /\ Tracked'
      /\ maps' \in [Maps -> SUBSET Memory] /\ roots' \in SUBSET Maps
      /\ maps'["list"] = {} /\ \A n \in Maps \ {"outer", "list"} : maps'[n] = maps[n]
      /\ PackedMemory' = PackedMemory
    BY <1>1, BorrowTracks DEF Maps, MapKinds
<1>3. roots' = roots \ {"list"} /\ UNCHANGED <<fn, len, mem, spoilt>>
    BY <1>1 DEF Borrow
<1>4. ArgsTypeOK'
    BY <1>2, <1>3, MaxArgsAssumption DEF ArgsTypeOK, Shape, Steps, Complete
<1>5. Filled' /\ Reachable'
    BY <1>2, <1>3 DEF Filled, Reachable, Locals, InUse, Maps, StringFirst, Shape, Complete
<1>6. Shape' /\ NotYet'
    BY <1>3 DEF Shape, NotYet, Complete, WithString, ArgsTypeOK, Memory
<1>7. Made'
    BY <1>3 DEF Made, Complete, WithString, CopiedElements, Uncopied, StringFirst, Shape,
       ArgsTypeOK
<1>8. Shim'
    BY <1>2, <1>3 DEF Shim, Complete, WithString, Shape
<1> QED
    BY <1>2, <1>4, <1>5, <1>6, <1>7, <1>8

-----------------------------------------------------------------------------
(* C: the argument is packed and Nix is called *)

\* The steps in C leave the Go side's memory alone.
LEMMA GoSideKept ==
    ASSUME ArgsInv, UNCHANGED maps, mem' \in SUBSET Memory,
           {a \in mem' : a[1] \notin CKinds} = {a \in mem : a[1] \notin CKinds}
    PROVE  Tracked'
<1>1. \A m \in Maps : \A a \in maps[m] : a \in mem /\ a[1] \notin CKinds
    BY DEF ArgsInv, Tracked, FreedOnce, MapKinds, CKinds, Maps
<1>2. FreedOnce'
    BY <1>1 DEF ArgsInv, Tracked, FreedOnce
<1> QED
    BY <1>2 DEF ArgsInv, Tracked

\* At the call everything is in the two maps that KeepAlive holds.
LEMMA EnterCKeeps ==
    ASSUME ArgsInv, EnterC
    PROVE  ArgsInv'
<1> USE DEF ArgsInv, EnterC
<1>1. ArgsTypeOK'
    BY MaxArgsAssumption DEF ArgsTypeOK, Steps
<1>2. Tracked'
    BY DEF Tracked, FreedOnce
<1>3. Filled' /\ Reachable'
    BY DEF Filled, Reachable, Locals, InUse, KeptAlive, Owned
<1>4. Shape' /\ NotYet'
    BY DEF Shape, NotYet, WithArray, Owned
<1>5. Made'
    BY DEF Made, CopiedElements, StringFirst
<1>6. Shim'
    BY DEF Shim, PackedMemory, ArgsTypeOK
<1> QED
    BY <1>1, <1>2, <1>3, <1>4, <1>5, <1>6

\* The first memory of the shim's own.
LEMMA PackArrayKeeps ==
    ASSUME ArgsInv, PackArray
    PROVE  ArgsInv'
<1> USE DEF ArgsInv, PackArray
<1>1. Array \in Memory /\ Array[1] \in CKinds
    BY MaxArgsAssumption DEF Array, Memory, CKinds
<1>2. ArgsTypeOK' /\ Tracked'
    BY <1>1, GoSideKept DEF ArgsTypeOK, Steps
<1>3. Filled' /\ Reachable' /\ Shape' /\ NotYet'
    BY DEF Filled, Reachable, Locals, InUse, Shape, NotYet, Owned, ArgsTypeOK
<1>4. Made'
    BY DEF Made, CopiedElements, StringFirst
<1>5. Shim'
    BY <1>1 DEF Shim, PackedMemory, Shape
<1> QED
    BY <1>2, <1>3, <1>4, <1>5

\* What the shim allocates for an element is not of the Go side.
LEMMA PackedOfType ==
    ASSUME ArgsTypeOK, fn \in Repacked, NEW i \in 1..MaxArgs
    PROVE  PackedOf(i) \subseteq Memory /\ \A a \in PackedOf(i) : a[1] \in CKinds /\ a[2] = i
BY MaxArgsAssumption DEF PackedOf, PackedParts, Repacked, Memory, CKinds

\* The elements before next are packed.
LEMMA PackElementKeeps ==
    ASSUME ArgsInv, PackElement
    PROVE  ArgsInv'
<1> USE DEF ArgsInv, PackElement, PairsLeft
<1>1. next \in 1..MaxArgs /\ fn \in Repacked
    BY MaxArgsAssumption DEF ArgsTypeOK, Shape
<1>2. PackedOf(next) \subseteq Memory /\ \A a \in PackedOf(next) : a[1] \in CKinds
    BY <1>1, PackedOfType
<1>3. ArgsTypeOK' /\ Tracked'
    BY <1>1, <1>2, MaxArgsAssumption, GoSideKept DEF ArgsTypeOK
<1>4. Filled' /\ Reachable' /\ Shape' /\ NotYet'
    BY <1>1 DEF Filled, Reachable, Locals, InUse, Shape, NotYet, Owned, ArgsTypeOK
<1>5. Made'
    BY DEF Made, CopiedElements, StringFirst
<1>6. Shim'
  <2>1. PackedMemory' = PackedMemory \cup PackedOf(next)
    BY <1>2 DEF PackedMemory
  <2>2. \A i : PackedOf(i)' = PackedOf(i)
    BY DEF PackedOf
  <2>3. 1..(next' - 1) = 1..(next - 1) \cup {next}
    BY <1>1
  <2> QED
    BY <2>1, <2>2, <2>3 DEF Shim
<1> QED
    BY <1>3, <1>4, <1>5, <1>6

\* Giving up frees memory of the shim and leaves what freed does not list.
LEMMA GiveUpKeeps ==
    ASSUME ArgsInv, NEW freed, freed \cap mem \subseteq PackedMemory, GiveUp(freed),
           argpc \in {"pack", "pair", "unpack"}, spoilt' \in 0..MaxArgs,
           PackedMemory \ freed \subseteq {"ckey", "cvalue"} \X (1..(spoilt' - 1))
    PROVE  ArgsInv'
<1> USE DEF ArgsInv, GiveUp
<1>1. ArgsTypeOK'
    BY DEF ArgsTypeOK, Steps
<1>2. Tracked'
    BY <1>1, GoSideKept DEF PackedMemory, ArgsTypeOK
<1>3. Filled' /\ Reachable' /\ Shape' /\ NotYet'
    BY DEF Filled, Reachable, Locals, InUse, Shape, NotYet, Owned, ArgsTypeOK
<1>4. Made'
    BY DEF Made, CopiedElements, PackedMemory, CKinds, Struct
<1>5. Shim'
    BY DEF Shim, PackedMemory
<1> QED
    BY <1>1, <1>2, <1>3, <1>4, <1>5

\* Failures that free all the shim has allocated, and the normal end.
LEMMA ShimFailsKeeps ==
    ASSUME ArgsInv, ArrayFails \/ CopyFails \/ FreePacked
    PROVE  ArgsInv'
<1>1. CASE ArrayFails
    BY <1>1, GiveUpKeeps DEF ArrayFails, ArgsInv, ArgsTypeOK, Shim
<1>2. CASE CopyFails
    BY <1>2, GiveUpKeeps DEF CopyFails, FreedAfterCopy, ArgsInv, ArgsTypeOK
<1>3. CASE FreePacked
    BY <1>3, GiveUpKeeps DEF FreePacked, ArgsInv, ArgsTypeOK
<1> QED
    BY <1>1, <1>2, <1>3

\* The failure that frees the pairs and forgets their strings.
LEMMA PairFailsKeeps ==
    ASSUME ArgsInv, PairFails
    PROVE  ArgsInv'
<1> DEFINE freed == {Array} \cup {<<"pair", i>> : i \in 1..(next - 1)}
<1>1. fn = "StoreOpen" /\ next \in 1..MaxArgs /\ spoilt' = next
    BY MaxArgsAssumption DEF PairFails, PairsLeft, PackedParts, Repacked, ArgsInv, ArgsTypeOK,
       Shape
<1>2. PackedMemory = {Array} \cup UNION {PackedOf(i) : i \in 1..(next - 1)}
    BY DEF PairFails, ArgsInv, Shim
<1>3. \A i : PackedOf(i) = {<<"pair", i>>, <<"ckey", i>>, <<"cvalue", i>>}
    BY <1>1 DEF PackedOf, PackedParts
<1>4. freed \cap mem \subseteq PackedMemory
    BY DEF PackedMemory, Array, CKinds
<1>5. PackedMemory \ freed \subseteq {"ckey", "cvalue"} \X (1..(spoilt' - 1))
    BY <1>1, <1>2, <1>3
<1>6. spoilt' \in 0..MaxArgs
    BY <1>1, MaxArgsAssumption
<1> QED
    BY <1>4, <1>5, <1>6, GiveUpKeeps DEF PairFails

\* The loop ends when every element is packed.
LEMMA PackedKeeps ==
    ASSUME ArgsInv, Packed
    PROVE  ArgsInv'
<1> USE DEF ArgsInv, Packed, PairsLeft
<1>1. ArgsTypeOK' /\ Tracked'
    BY DEF ArgsTypeOK, Steps, Tracked, FreedOnce
<1>2. Filled' /\ Reachable' /\ Shape' /\ NotYet'
    BY DEF Filled, Reachable, Locals, InUse, Shape, NotYet, Owned
<1>3. Made'
    BY DEF Made, CopiedElements
<1>4. Shim'
  <2>1. 1..(next - 1) = 1..len
    BY DEF Shape, ArgsTypeOK
  <2>2. UNION {PackedOf(i) : i \in 1..len} \subseteq mem
    BY <2>1 DEF Shim, PackedMemory
  <2>3. (UNION {PackedOf(i) : i \in 1..len})' = UNION {PackedOf(i) : i \in 1..len}
    BY DEF PackedOf
  <2>4. argpc' = "native" /\ mem' = mem
    OBVIOUS
  <2> HIDE DEF ArgsInv, Packed
  <2> QED
    BY <2>2, <2>3, <2>4 DEF Shim
<1> QED
    BY <1>1, <1>2, <1>3, <1>4

\* Nix reads the argument and keeps none of it.
LEMMA NixCallKeeps ==
    ASSUME ArgsInv, NixCall
    PROVE  ArgsInv'
<1> USE DEF ArgsInv, NixCall
<1>1. ArgsTypeOK' /\ Tracked'
    BY DEF ArgsTypeOK, Steps, Tracked, FreedOnce
<1>2. Filled' /\ Reachable' /\ Shape' /\ NotYet'
    BY DEF Filled, Reachable, Locals, InUse, Shape, NotYet, Owned
<1>3. Made' /\ Shim'
    BY DEF Made, CopiedElements, Shim
<1> QED
    BY <1>1, <1>2, <1>3

-----------------------------------------------------------------------------
(* Go again *)

\* Back in Go, only the struct of a caller with a deferred Free is reachable.
LEMMA LeaveCKeeps ==
    ASSUME ArgsInv, LeaveC
    PROVE  ArgsInv'
<1> USE DEF ArgsInv, LeaveC
<1>1. ArgsTypeOK' /\ Tracked'
    BY DEF ArgsTypeOK, Steps, Tracked, FreedOnce, Maps
<1>2. Filled' /\ Reachable' /\ Shape' /\ NotYet'
    BY DEF Filled, Reachable, Locals, InUse, Shape, NotYet, Owned
<1>3. Made' /\ Shim'
    BY DEF Made, CopiedElements, Shim, PackedMemory
<1> QED
    BY <1>1, <1>2, <1>3

\* Freeing a map takes its contents from no other.
LEMMA FreeTracks ==
    ASSUME ArgsInv, NEW m \in Maps, mem' = mem \ maps[m], maps' = [maps EXCEPT ![m] = {}]
    PROVE  Tracked' /\ PackedMemory' = PackedMemory /\ mem' \in SUBSET Memory
           /\ maps' \in [Maps -> SUBSET Memory]
<1>1. maps'[m] = {} /\ \A n \in Maps \ {m} : maps'[n] = maps[n]
    BY DEF ArgsInv, ArgsTypeOK
<1>2. FreedOnce'
    BY <1>1 DEF ArgsInv, Tracked, FreedOnce
<1>3. Tracked'
    BY <1>1, <1>2 DEF ArgsInv, Tracked
<1>4. \A a \in maps[m] : a[1] \notin CKinds
    BY DEF ArgsInv, Tracked, MapKinds, CKinds, Maps
<1> QED
    BY <1>3, <1>4 DEF ArgsInv, ArgsTypeOK, PackedMemory

\* Free releases what the map holds, which no other map does.
LEMMA FreeStructKeeps ==
    ASSUME ArgsInv, FreeStruct
    PROVE  ArgsInv'
<1> USE DEF ArgsInv, FreeStruct
<1>1. /\ Tracked' /\ PackedMemory' = PackedMemory /\ mem' \in SUBSET Memory
      /\ maps' \in [Maps -> SUBSET Memory]
    BY FreeTracks DEF Maps
<1>2. ArgsTypeOK'
    BY <1>1 DEF ArgsTypeOK, Steps
<1>3. Filled' /\ Reachable' /\ Shape' /\ NotYet'
    BY DEF Filled, Reachable, Locals, InUse, Shape, NotYet, Owned, ArgsTypeOK, Maps
<1>4. Made' /\ Shim'
    BY <1>1 DEF Made, CopiedElements, Shim
<1> QED
    BY <1>1, <1>2, <1>3, <1>4

\* Only a string that C has finished with is ever left to the collector.
LEMMA CollectKeeps ==
    ASSUME ArgsInv, NEW m \in Maps, Collect(m)
    PROVE  ArgsInv'
<1> USE DEF ArgsInv, Collect
<1>1. argpc \in {"idle", "free"} /\ m = "string"
    BY DEF Garbage, Finalized, Reachable, Filled, InUse
<1>2. /\ Tracked' /\ PackedMemory' = PackedMemory /\ mem' \in SUBSET Memory
      /\ maps' \in [Maps -> SUBSET Memory]
    BY FreeTracks
<1>3. ArgsTypeOK'
    BY <1>2 DEF ArgsTypeOK
<1>4. Filled' /\ Reachable' /\ Shape' /\ NotYet'
    BY <1>1 DEF Filled, Reachable, Locals, InUse, Shape, NotYet, Owned, ArgsTypeOK, Maps
<1>5. Struct \notin maps[m]
    BY <1>1 DEF Tracked, MapKinds, Struct
<1>6. Made' /\ Shim'
    BY <1>1, <1>2, <1>5 DEF Made, CopiedElements, Shim
<1> QED
    BY <1>2, <1>3, <1>4, <1>6

-----------------------------------------------------------------------------

\* Every step keeps the account of the memory.
LEMMA ArgsStepPreserves == ArgsInv /\ [ArgsNext]_argVars => ArgsInv'
<1> SUFFICES ASSUME ArgsInv, [ArgsNext]_argVars
             PROVE  ArgsInv'
    OBVIOUS
<1>1. CASE UNCHANGED argVars
    BY <1>1 DEF argVars, ArgsInv, ArgsTypeOK, Tracked, FreedOnce, Filled, Reachable, Locals,
       Shape, NotYet, Made,
       Shim, CopiedElements, PackedMemory, PackedOf, Owned, StringFirst
<1>2. CASE \E f \in RawCalls, k \in 0..MaxArgs : BeginRawCall(f, k)
    BY <1>2, BeginRawCallKeeps
<1>3. CASE UnpackString \/ PassStruct \/ PassList \/ UnpackItems \/ PassElement \/ CopyBytes
    BY <1>3, UnpackStringKeeps, PassStructKeeps, PassListKeeps, UnpackItemsKeeps,
       PassElementKeeps, CopyBytesKeeps
<1>4. CASE BorrowBytes \/ BorrowElement \/ BorrowItems \/ BorrowList
    BY <1>4, BorrowBytesKeeps, BorrowElementKeeps, BorrowItemsKeeps, BorrowListKeeps
<1>5. CASE EnterC \/ PackArray \/ PackElement \/ Packed \/ NixCall
    BY <1>5, EnterCKeeps, PackArrayKeeps, PackElementKeeps, PackedKeeps, NixCallKeeps
<1>6. CASE ArrayFails \/ PairFails \/ CopyFails \/ FreePacked
    BY <1>6, ShimFailsKeeps, PairFailsKeeps
<1>7. CASE LeaveC \/ FreeStruct \/ \E m \in Maps : Collect(m)
    BY <1>7, LeaveCKeeps, FreeStructKeeps, CollectKeeps
<1> QED
    BY <1>1, <1>2, <1>3, <1>4, <1>5, <1>6, <1>7 DEF ArgsNext

\* The memory of an argument is accounted for in every behaviour, for arrays of any
\* length.
THEOREM MemoryAccounted == ArgsSpec => []ArgsInv
<1>1. ArgsInit => ArgsInv
    BY ArgsInitEstablishes
<1>2. ArgsInv /\ [ArgsNext]_argVars => ArgsInv'
    BY ArgsStepPreserves
<1> QED
    BY <1>1, <1>2, PTL DEF ArgsSpec

\* No finalizer and no Free of cgo_helpers.go releases memory twice.
THEOREM NothingFreedTwice == ArgsSpec => []FreedOnce
<1>1. ArgsInv => FreedOnce
    BY DEF ArgsInv, Tracked
<1> QED
    BY <1>1, MemoryAccounted, PTL

\* What C and Nix read of an argument is allocated while they do, whenever the
\* collector runs.
THEOREM CReadsLiveMemory == ArgsSpec => []ArgumentsLive
<1>1. ASSUME ArgsInv PROVE ArgumentsLive
  <2>1. argpc \in {"pack", "pair", "native"} => Passed \subseteq mem
    BY <1>1 DEF ArgsInv, Made, CopiedElements, Passed, ArgsTypeOK, WithArray
  <2> QED
    BY <1>1, <2>1 DEF ArgsInv, Made, Shim, ArgumentsLive
<1> QED
    BY <1>1, MemoryAccounted, PTL

\* A finished call leaves only the memory the code is known to leak.
THEOREM LeaksAreKnown == ArgsSpec => []OnlyKnownLeaks
<1>1. ASSUME ArgsInv PROVE OnlyKnownLeaks
  <2> SUFFICES ASSUME argpc = "idle", Garbage = {}, NEW a \in mem
               PROVE  \/ a \in (IF Owned THEN {} ELSE maps["outer"])
                      \/ a \in {"ckey", "cvalue"} \X (1..(spoilt - 1))
    BY DEF OnlyKnownLeaks
  <2>1. CASE a[1] \in CKinds
    BY <1>1, <2>1 DEF ArgsInv, Shim, PackedMemory
  <2>2. CASE \E m \in Maps : a \in maps[m]
    BY <1>1, <2>2 DEF ArgsInv, Filled, Reachable, InUse, Garbage, Finalized, Maps
  <2> QED
    BY <1>1, <2>1, <2>2 DEF ArgsInv, Tracked
<1> QED
    BY <1>1, MemoryAccounted, PTL
=============================================================================
