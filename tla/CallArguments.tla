---------------------------- MODULE CallArguments ----------------------------
(***************************************************************************)
(* The C memory behind one structured argument of a raw call: how          *)
(* pkg/raw/cgo_helpers.go copies a Go struct for C, how the shims in       *)
(* nix_go_store.c and nix_go_expr.c pack that copy for Nix, and who frees  *)
(* it, with Go's garbage collector running finalizers at any moment.       *)
(*                                                                         *)
(* Memory has the name <<kind, i>> of what it holds, i being the element   *)
(* of the array it belongs to, or 0.  A cgoAllocMap is a set of memory:    *)
(* Borrow moves everything from one map to another, and a map with a       *)
(* finalizer is freed once no Go variable reaches it.  The model follows   *)
(* one call at a time and forgets what an earlier one left behind.         *)
(*                                                                         *)
(* A definition named Mutant... is a mistaken form of the definition after *)
(* it, used only to show that the properties notice the mistake.           *)
(***************************************************************************)
EXTENDS Integers, Sequences

CONSTANT
    MaxArgs   \* elements of an array argument

ASSUME MaxArgsAssumption == MaxArgs \in Nat

VARIABLES
    fn,      \* the raw call
    len,     \* the elements of its array
    argpc,   \* the next step
    next,    \* the element it is at
    mem,     \* C memory in use
    maps,    \* the contents of every cgoAllocMap
    roots,   \* the maps that a Go variable reaches
    spoilt   \* the pair that could not be allocated, 0 if none

argVars == <<fn, len, argpc, next, mem, maps, roots, spoilt>>

-----------------------------------------------------------------------------

\* The byte strings of an element, in the order PassRef copies them.
Fields ==
    [StoreOpen            |-> <<"key", "value">>,
     SetLookupPath        |-> <<"value">>,
     ValueCallMulti       |-> <<>>,
     StoreCollectGarbage  |-> <<>>,
     StorePathHash        |-> <<>>,
     StoreCreateFromParts |-> <<>>]

RawCalls == DOMAIN Fields

\* Calls whose argument is an array, that take a Go string as well, and whose shim
\* packs the array anew.
WithArray == RawCalls \ {"StorePathHash", "StoreCreateFromParts"}
WithString == {"StoreOpen", "StoreCreateFromParts"}
Repacked == {"StoreOpen", "SetLookupPath", "ValueCallMulti"}

\* What the shim allocates for an element.
PackedParts ==
    [StoreOpen      |-> {"pair", "ckey", "cvalue"},
     SetLookupPath  |-> {"cvalue"},
     ValueCallMulti |-> {}]

GoKinds == {"struct", "list", "items", "elem", "key", "value", "string"}
CKinds == {"array", "pair", "ckey", "cvalue"}
Memory == (GoKinds \cup CKinds) \X (0..MaxArgs)

Struct == <<"struct", 0>>
List == <<"list", 0>>
Items == <<"items", 0>>
String == <<"string", 0>>
Array == <<"array", 0>>

\* The struct's own map, that of the list nested in StoreGCOptions, those of
\* unpackS..., of the element at hand and of copyPCharBytes, and that of
\* unpackPCharString.
Maps == {"outer", "list", "items", "elem", "bytes", "string"}
Finalized == {"items", "bytes", "string"}

Steps == {"idle", "string", "struct", "list", "items", "elem", "field", "borrow", "lists",
          "enter", "pack", "pair", "native", "unpack", "leave", "free"}

\* The caller holds the struct whose memory this is, and its deferred Free releases it.
Owned == fn \in {"StorePathHash", "StoreCreateFromParts"} \/ (fn = "StoreOpen" /\ len > 0)

\* store.New passes an empty list by value, so its wrapper unpacks the URI first.
StringFirst == fn = "StoreOpen" /\ len = 0

ArgsTypeOK ==
    /\ fn \in RawCalls
    /\ len \in 0..MaxArgs
    /\ argpc \in Steps
    /\ next \in 1..(MaxArgs + 1)
    /\ mem \subseteq Memory
    /\ maps \in [Maps -> SUBSET Memory]
    /\ roots \subseteq Maps
    /\ spoilt \in 0..MaxArgs

ArgsInit ==
    /\ fn = "StorePathHash"
    /\ len = 0
    /\ argpc = "idle"
    /\ next = 1
    /\ mem = {}
    /\ maps = [m \in Maps |-> {}]
    /\ roots = {}
    /\ spoilt = 0

\* Maps the collector may still free.
Garbage == {m \in Finalized \ roots : maps[m] # {}}

-----------------------------------------------------------------------------
(* Go: the argument is copied *)

BeginRawCall(f, k) ==
    /\ argpc = "idle"
    /\ Garbage = {}
    /\ f \notin WithArray => k = 0
    /\ fn' = f
    /\ len' = k
    /\ argpc' = IF f = "StoreOpen" /\ k = 0 THEN "string" ELSE "struct"
    /\ next' = 1
    /\ mem' = {}
    /\ maps' = [m \in Maps |-> {}]
    /\ roots' = {}
    /\ spoilt' = 0

\* New memory a goes to the new map m, held by a local variable.
AllocInto(m, a) ==
    /\ mem' = mem \cup {a}
    /\ maps' = [maps EXCEPT ![m] = {a}]
    /\ roots' = roots \cup {m}
    /\ UNCHANGED <<fn, len, spoilt>>

\* to.Borrow(from), after which nothing refers to from.
MutantMoved(to, from) == [maps EXCEPT ![to] = @ \cup maps[from]]
Moved(to, from) == [maps EXCEPT ![to] = @ \cup maps[from], ![from] = {}]

Borrow(to, from) ==
    /\ maps' = Moved(to, from)
    /\ roots' = roots \ {from}
    /\ UNCHANGED <<fn, len, mem, spoilt>>

\* The struct is complete.
Complete == IF fn \in WithString /\ ~StringFirst THEN "string" ELSE "enter"

UnpackString ==
    /\ argpc = "string"
    /\ AllocInto("string", String)
    /\ argpc' = IF StringFirst THEN "struct" ELSE "enter"
    /\ UNCHANGED next

PassStruct ==
    /\ argpc = "struct"
    /\ AllocInto("outer", Struct)
    /\ argpc' = IF fn = "StoreCollectGarbage" THEN "list"
                ELSE IF fn \in WithArray THEN "items" ELSE Complete
    /\ UNCHANGED next

PassList ==
    /\ argpc = "list"
    /\ AllocInto("list", List)
    /\ argpc' = "items"
    /\ UNCHANGED next

UnpackItems ==
    /\ argpc = "items"
    /\ AllocInto("items", Items)
    /\ argpc' = "elem"
    /\ UNCHANGED next

PassElement ==
    /\ argpc = "elem"
    /\ next <= len
    /\ AllocInto("elem", <<"elem", next>>)
    /\ argpc' = "field"
    /\ UNCHANGED next

\* The byte strings of this element that have not been copied, by position.
Uncopied == {k \in DOMAIN Fields[fn] : <<Fields[fn][k], next>> \notin mem}

CopyBytes ==
    /\ argpc = "field"
    /\ \E k \in Uncopied :
        /\ \A j \in Uncopied : k <= j
        /\ AllocInto("bytes", <<Fields[fn][k], next>>)
    /\ argpc' = "borrow"
    /\ UNCHANGED next

BorrowBytes ==
    /\ argpc = "borrow"
    /\ Borrow("elem", "bytes")
    /\ argpc' = "field"
    /\ UNCHANGED next

BorrowElement ==
    /\ argpc = "field"
    /\ Uncopied = {}
    /\ Borrow("items", "elem")
    /\ argpc' = "elem"
    /\ next' = next + 1

BorrowItems ==
    /\ argpc = "elem"
    /\ next > len
    /\ Borrow(IF fn = "StoreCollectGarbage" THEN "list" ELSE "outer", "items")
    /\ argpc' = IF fn = "StoreCollectGarbage" THEN "lists" ELSE Complete
    /\ UNCHANGED next

BorrowList ==
    /\ argpc = "lists"
    /\ Borrow("outer", "list")
    /\ argpc' = Complete
    /\ UNCHANGED next

-----------------------------------------------------------------------------
(* C: the argument is packed and Nix is called *)

\* The wrapper keeps the maps of its arguments alive until C has returned.
MutantKeptAlive == {"outer"}
KeptAlive == {"outer", "string"}

EnterC ==
    /\ argpc = "enter"
    /\ roots' = roots \cap KeptAlive
    /\ next' = 1
    /\ argpc' = IF fn \in Repacked /\ len > 0 THEN "pack" ELSE "native"
    /\ UNCHANGED <<fn, len, mem, maps, spoilt>>

PackedMemory == {a \in mem : a[1] \in CKinds}
PackedOf(i) == {<<k, i>> : k \in PackedParts[fn]}

PackArray ==
    /\ argpc = "pack"
    /\ mem' = mem \cup {Array}
    /\ argpc' = "pair"
    /\ UNCHANGED <<fn, len, next, maps, roots, spoilt>>

\* for (size_t i = 0; i < params.len; i++)
MutantPairsLeft == next <= len + 1
PairsLeft == next <= len

PackElement ==
    /\ argpc = "pair"
    /\ PairsLeft
    /\ mem' = mem \cup PackedOf(next)
    /\ next' = next + 1
    /\ UNCHANGED <<fn, len, argpc, maps, roots, spoilt>>

\* The shim gives up and returns an error.
GiveUp(freed) ==
    /\ mem' = mem \ freed
    /\ argpc' = "leave"
    /\ UNCHANGED <<fn, len, next, maps, roots>>

ArrayFails == argpc = "pack" /\ GiveUp({}) /\ UNCHANGED spoilt

\* The earlier pairs are freed and the strings in them are not.
PairFails ==
    /\ argpc = "pair"
    /\ PairsLeft
    /\ "pair" \in PackedParts[fn]
    /\ GiveUp({Array} \cup {<<"pair", i>> : i \in 1..(next - 1)})
    /\ spoilt' = next

MutantFreedAfterCopy == {Array} \cup {<<"pair", i>> : i \in 1..(next - 1)}
FreedAfterCopy == PackedMemory

CopyFails ==
    /\ argpc = "pair"
    /\ PairsLeft
    /\ "cvalue" \in PackedParts[fn]
    /\ GiveUp(FreedAfterCopy)
    /\ UNCHANGED spoilt

Packed ==
    /\ argpc = "pair"
    /\ ~PairsLeft
    /\ argpc' = "native"
    /\ UNCHANGED <<fn, len, next, mem, maps, roots, spoilt>>

\* What Nix does with the argument.
NixCall ==
    /\ argpc = "native"
    /\ argpc' = "unpack"
    /\ UNCHANGED <<fn, len, next, mem, maps, roots, spoilt>>

FreePacked ==
    /\ argpc = "unpack"
    /\ GiveUp(PackedMemory)
    /\ UNCHANGED spoilt

-----------------------------------------------------------------------------
(* Go again *)

LeaveC ==
    /\ argpc = "leave"
    /\ roots' = IF Owned THEN {"outer"} ELSE {}
    /\ argpc' = IF Owned THEN "free" ELSE "idle"
    /\ UNCHANGED <<fn, len, next, mem, maps, spoilt>>

\* The deferred Free of store.New, storepath.New and FromParts.
FreeStruct ==
    /\ argpc = "free"
    /\ mem' = mem \ maps["outer"]
    /\ maps' = [maps EXCEPT !["outer"] = {}]
    /\ roots' = {}
    /\ argpc' = "idle"
    /\ UNCHANGED <<fn, len, next, spoilt>>

\* The collector runs the finalizer of a map nothing reaches, at any moment.
Collect(m) ==
    /\ m \in Garbage
    /\ mem' = mem \ maps[m]
    /\ maps' = [maps EXCEPT ![m] = {}]
    /\ UNCHANGED <<fn, len, argpc, next, roots, spoilt>>

ArgsNext ==
    \/ \E f \in RawCalls, k \in 0..MaxArgs : BeginRawCall(f, k)
    \/ UnpackString \/ PassStruct \/ PassList \/ UnpackItems \/ PassElement \/ CopyBytes
    \/ BorrowBytes \/ BorrowElement \/ BorrowItems \/ BorrowList
    \/ EnterC \/ PackArray \/ ArrayFails \/ PackElement \/ PairFails \/ CopyFails \/ Packed
    \/ NixCall \/ FreePacked \/ LeaveC \/ FreeStruct
    \/ \E m \in Maps : Collect(m)

ArgsSpec == ArgsInit /\ [][ArgsNext]_argVars

-----------------------------------------------------------------------------
(* Properties *)

\* What the C side reads of the Go copy: the array and its strings, the hash behind a
\* pointer, the string.
Passed ==
    UNION {IF fn \in WithArray THEN {Items} ELSE {Struct},
           IF fn \in WithString THEN {String} ELSE {},
           {<<Fields[fn][k], i>> : k \in DOMAIN Fields[fn], i \in 1..len}}

\* While C or Nix works on an argument, everything the argument refers to is still
\* allocated, whenever the collector runs finalizers: Borrow has emptied the maps of
\* the parts before they become unreachable, and KeepAlive holds those of the
\* strings.  storepath.New reads the hash back before it frees it.
ArgumentsLive ==
    /\ argpc \in {"pack", "pair", "native"} => Passed \subseteq mem
    /\ argpc = "native" /\ fn \in Repacked =>
        UNION {PackedOf(i) : i \in 1..len} \subseteq mem
    /\ argpc = "free" => Struct \in mem

\* A block of memory is in at most one map, and what is in a map has not been freed:
\* no finalizer and no Free releases memory twice, in whatever order they run.
FreedOnce ==
    /\ \A m \in Maps : maps[m] \subseteq mem
    /\ \A m1, m2 \in Maps : m1 # m2 => maps[m1] \cap maps[m2] = {}

\* When the call is over and the collector has caught up, nothing is left of it but
\* what the code is known to leak: a struct passed by value, whose map has no
\* finalizer and which nobody frees (the lookup path, the arguments of CallMulti,
\* the options of CollectGarbage, an empty list of store parameters), and the strings
\* of the pairs packed before one that could not be allocated.
OnlyKnownLeaks ==
    argpc = "idle" /\ Garbage = {} =>
        mem \subseteq (IF Owned THEN {} ELSE maps["outer"])
                      \cup ({"ckey", "cvalue"} \X (1..(spoilt - 1)))
=============================================================================
