------------------------------ MODULE LockGraph ------------------------------
(***************************************************************************)
(* A node of the lock graph on its way from Nix through Go and back:       *)
(* Flake.LockInfo decodes the JSON that Nix wrote, and flake.New marshals  *)
(* the LockInfo a caller passes to WithReferenceLockInfo                   *)
(* (flake/lock_info.go).                                                   *)
(*                                                                         *)
(* In a document a member that may be absent is a sequence of at most one  *)
(* element, and so is a Go slice that may be nil.  References keep their   *)
(* attributes as raw JSON, so that only their presence matters.            *)
(*                                                                         *)
(* A definition named Mutant... is a mistaken form of the definition after *)
(* it, used only to show that the properties notice the mistake.           *)
(***************************************************************************)
EXTENDS Integers, Sequences, SequencesExt

CONSTANT
    InputNames,  \* names of inputs
    NodeNames    \* names of nodes, and elements of paths

VARIABLES
    lockStep,  \* "written" by Nix, "read" into Go, "returned" to Nix, or "rejected"
    doc,       \* the document
    node,      \* the Go LockNode
    sent       \* the document Go marshals

lockVars == <<lockStep, doc, node, sent>>

-----------------------------------------------------------------------------

Optional(S) == {<<>>} \cup {<<x>> : x \in S}
Paths == {<<>>} \cup {<<a>> : a \in NodeNames} \cup {<<a, b>> : a, b \in NodeNames}

\* A direct edge is a string and a follows edge an array; a lock file may be
\* malformed.
Edges ==
    [kind : {"string"}, path : {<<a>> : a \in NodeNames}]
    \cup [kind : {"array"}, path : Paths]
    \cup [kind : {"other"}, path : {<<>>}]

Documents ==
    [inputs   : Optional(UNION {[I -> Edges] : I \in SUBSET InputNames}),
     original : BOOLEAN,
     locked   : BOOLEAN,
     flake    : Optional({TRUE, FALSE}),
     parent   : Optional(Paths)]

\* The zero LockNode, and a document without members.
NoNode == [inputs |-> <<>>, original |-> FALSE, locked |-> FALSE, flake |-> FALSE, parent |-> <<>>]
NoDocument == [NoNode EXCEPT !.flake = <<>>]

LockInit ==
    /\ lockStep = "written"
    /\ doc \in Documents
    /\ node = NoNode
    /\ sent = NoDocument

\* LockInput.UnmarshalJSON
Edge(e) ==
    IF e.kind = "string" THEN [node |-> e.path, follows |-> <<>>]
                         ELSE [node |-> <<>>, follows |-> <<e.path>>]

\* Nix omits the member when it is true.
MutantFlakeDefault == FALSE
FlakeDefault == TRUE

Malformed == doc.inputs # <<>> /\ \E i \in DOMAIN doc.inputs[1] : doc.inputs[1][i].kind = "other"

\* LockNode.UnmarshalJSON
ReadNode ==
    /\ lockStep = "written"
    /\ ~Malformed
    /\ node' = [inputs   |-> [k \in DOMAIN doc.inputs |->
                                 [i \in DOMAIN doc.inputs[k] |-> Edge(doc.inputs[k][i])]],
                original |-> doc.original,
                locked   |-> doc.locked,
                flake    |-> IF doc.flake = <<>> THEN FlakeDefault ELSE doc.flake[1],
                parent   |-> doc.parent]
    /\ lockStep' = "read"
    /\ UNCHANGED <<doc, sent>>

ReadFails ==
    /\ lockStep = "written"
    /\ Malformed
    /\ lockStep' = "rejected"
    /\ UNCHANGED <<doc, node, sent>>

\* LockInput.GetNode, GetFollows and MarshalJSON: a non-nil follows makes a follows
\* edge, an empty one as well.
MutantIsFollows(in) == in.follows # <<>> /\ in.follows[1] # <<>>
IsFollows(in) == in.follows # <<>>

EdgeJSON(in) ==
    IF IsFollows(in) THEN [kind |-> "array", path |-> in.follows[1]]
                     ELSE [kind |-> "string", path |-> in.node]

\* json's omitempty drops an empty slice or map, nil or not.
OmitEmpty(member) == IF member # <<>> /\ DOMAIN member[1] = {} THEN <<>> ELSE member

\* json.Marshal of the node.
MarshalNode ==
    /\ lockStep = "read"
    /\ sent' = [inputs   |-> OmitEmpty([k \in DOMAIN node.inputs |->
                                 [i \in DOMAIN node.inputs[k] |-> EdgeJSON(node.inputs[k][i])]]),
                original |-> node.original,
                locked   |-> node.locked,
                flake    |-> <<node.flake>>,
                parent   |-> OmitEmpty(node.parent)]
    /\ lockStep' = "returned"
    /\ UNCHANGED <<doc, node>>

LockNext == ReadNode \/ ReadFails \/ MarshalNode

LockSpec == LockInit /\ [][LockNext]_lockVars

-----------------------------------------------------------------------------
(* Properties *)

\* What Nix takes from a document: no inputs is the same as an empty set of them,
\* and flake is true unless the document says otherwise.
NixInputs(d) == IF d.inputs = <<>> THEN {} ELSE {<<i, d.inputs[1][i]>> : i \in DOMAIN d.inputs[1]}
NixFlake(d) == d.flake # <<FALSE>>
SameButParent(d1, d2) ==
    /\ NixInputs(d1) = NixInputs(d2)
    /\ NixFlake(d1) = NixFlake(d2)
    /\ d1.original = d2.original
    /\ d1.locked = d2.locked

\* The lock graph a caller passes back as a reference lock reads to Nix as the one
\* Nix wrote: edges stay direct or follows edges (an empty follows path included),
\* defaults stay the same, and the parent path is kept unless it is empty.
LockGraphKept ==
    lockStep = "returned" =>
        /\ SameButParent(doc, sent)
        /\ sent.parent = doc.parent \/ doc.parent = <<<<>>>>

\* Every node comes back as Nix wrote it, its parent path included.
LockNodeKept == lockStep = "returned" => SameButParent(doc, sent) /\ sent.parent = doc.parent
=============================================================================
