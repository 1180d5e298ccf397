------------------------------ MODULE Unmarshal ------------------------------
(***************************************************************************)
(* Conversion between Nix values and Go values: Evaluator.Unmarshal        *)
(* (eval/unmarshal.go) and goValueFromAny (eval/go_value.go).              *)
(*                                                                         *)
(* A Nix value has a type t, a scalar x, items (elements or attribute      *)
(* values) and names (of attributes, in Nix's order).  A Go type has a     *)
(* kind k with its parameters, a Go value a scalar x or nil, elements kids *)
(* (what a pointer points to, the fields of a struct, elements) and the    *)
(* names of map entries.  Integers are those of GoIntegers, and the        *)
(* parameter of an integer type is its span; strings are numbers; floats   *)
(* are classes: zero, in the range of float32, beyond it, infinite.        *)
(*                                                                         *)
(* Nix calls are numbered as Unmarshal makes them and the one numbered     *)
(* failAt fails, a Close of a child included; 0 stands for none.           *)
(*                                                                         *)
(* A definition named Mutant... is a mistaken form of the definition after *)
(* it, used only to show that the properties notice the mistake.           *)
(***************************************************************************)
EXTENDS GoIntegers, Sequences, SequencesExt

CONSTANTS
    NixValues, \* values to decode
    GoTypes,   \* types to decode into
    GoInputs,  \* pairs [type, val] to encode
    MaxCalls   \* the last Nix call that may fail

ASSUME MaxCallsAssumption == MaxCalls \in Nat

VARIABLES
    job,     \* "decode" or "encode", and "decoded" or "encoded" when it is done
    nval,    \* the Nix value
    gtype,   \* the Go type
    gold,    \* the Go value before
    failAt,  \* the Nix call that fails
    gres     \* what the conversion made: [val, err, n]

convVars == <<job, nval, gtype, gold, failAt, gres>>

-----------------------------------------------------------------------------

Go(x, isNil, kids, names) == [x |-> x, nil |-> isNil, kids |-> kids, names |-> names]
Scalar(x) == Go(x, FALSE, <<>>, <<>>)
Nil == Go(0, TRUE, <<>>, <<>>)
Box(kids) == Go(0, FALSE, kids, <<>>)

Nix(t, x, items, names) == [t |-> t, x |-> x, items |-> items, names |-> names]
NullValue == Nix("null", 0, <<>>, <<>>)

Elem(t) == t.e[1]

\* reflect's zero value.
RECURSIVE Zero(_)
Zero(t) ==
    CASE t.k \in {"ptr", "slice", "map", "iface", "func"} -> Nil
      [] t.k = "array"  -> Box([i \in 1..t.n |-> Zero(Elem(t))])
      [] t.k = "struct" -> Box([i \in DOMAIN t.fields |-> Zero(t.fields[i].type)])
      [] OTHER          -> Scalar(0)

\* OverflowFloat: infinity is not an overflow.
Beyond32 == 2
OverflowFloat(x, bits) == bits = 32 /\ x = Beyond32

\* fieldAttr: the tag nix:"-" alone skips the field; otherwise what stands before the
\* first comma names the attribute.  A tag is the sequence between its commas.
fieldSkipped(f) == f.tag = <<"-">>
fieldAttr(f) == IF Head(f.tag) = "" THEN f.name ELSE Head(f.tag)
Decoded(f) == f.exported /\ ~fieldSkipped(f)

HasAttr(v, name) == \E i \in DOMAIN v.names : v.names[i] = name
Attr(v, name) == v.items[CHOOSE i \in DOMAIN v.names : v.names[i] = name]

-----------------------------------------------------------------------------
(* Decoding *)

Result(val, err, n) == [val |-> val, err |-> err, n |-> n]
Fails(n) == n = failAt

\* A scalar is read by one call, checked, and set.
unmarshalScalar(v, t, old, n) ==
    LET accepts == CASE t.k = "string" -> {"string", "path"}
                     [] t.k = "uint"   -> {"int"}
                     [] OTHER          -> {t.k}
        overflows == CASE t.k = "int"   -> OverflowInt(v.x, t.n)
                       [] t.k = "uint"  -> UnsignedOverflow(v.x, t.n)
                       [] t.k = "float" -> OverflowFloat(v.x, t.n)
                       [] OTHER         -> FALSE
    IN CASE v.t \notin accepts -> Result(old, "type", n)
         [] Fails(n + 1)       -> Result(old, "nix", n + 1)
         [] overflows          -> Result(old, "type", n + 1)
         [] OTHER -> Result(Scalar(IF t.k = "uint" THEN Unsigned(v.x) ELSE v.x), "none", n + 1)

RECURSIVE unmarshalValue(_, _, _, _)

\* A child is fetched, decoded into a target that holds old, and closed; the first
\* error counts.
unmarshalChild(child, t, old, n) ==
    IF Fails(n + 1) THEN Result(old, "nix", n + 1)
    ELSE LET r == unmarshalValue(child, t, old, n + 1) IN
         Result(r.val, IF r.err = "none" /\ Fails(r.n + 1) THEN "nix" ELSE r.err, r.n + 1)

\* In place, field by field, up to the first error.
unmarshalStruct(v, t, old, n) ==
    LET Field(acc, i) ==
            LET f == t.fields[i]
                has == HasAttr(v, fieldAttr(f))
                r == unmarshalChild(Attr(v, fieldAttr(f)), f.type, acc.val.kids[i], acc.n + 1)
            IN CASE acc.err # "none" \/ ~Decoded(f) -> acc
                 [] Fails(acc.n + 1)     -> [acc EXCEPT !.err = "nix", !.n = @ + 1]
                 [] ~has /\ f.required   -> [acc EXCEPT !.err = "missing", !.n = @ + 1]
                 [] ~has /\ ~f.required  -> [acc EXCEPT !.n = @ + 1]
                 [] OTHER -> Result([acc.val EXCEPT !.kids[i] = r.val], r.err, r.n)
    IN IF v.t # "attrs" THEN Result(old, "type", n)
       ELSE FoldLeftDomain(Field, Result(old, "none", n), t.fields)

\* The children of v in order, decoded into the targets kids; a map asks for the
\* name of each first.
Children(v, t, kids, n) ==
    LET Child(acc, i) ==
            LET asked == IF t.k = "map" THEN acc.n + 1 ELSE acc.n
                r == unmarshalChild(v.items[i], Elem(t), acc.val[i], asked)
            IN CASE acc.err # "none" -> acc
                 [] t.k = "map" /\ Fails(asked) -> [acc EXCEPT !.err = "nix", !.n = asked]
                 [] OTHER -> Result([acc.val EXCEPT ![i] = r.val], r.err, r.n)
    IN FoldLeftDomain(Child, Result(kids, "none", n), v.items)

\* Decoded aside, and set at the end.
MutantAssigned(r, t, old, names) == Go(0, FALSE, r.val, names)
Assigned(r, t, old, names) ==
    IF r.err = "none" \/ t.k = "array" THEN Go(0, FALSE, r.val, names) ELSE old

unmarshalItems(v, t, old, n) ==
    LET wanted == IF t.k = "map" THEN "attrs" ELSE "list"
        kids == IF t.k = "array" THEN old.kids ELSE [i \in DOMAIN v.items |-> Zero(Elem(t))]
        r == Children(v, t, kids, n + 1)
        names == IF t.k = "map" THEN v.names ELSE <<>>
    IN CASE v.t # wanted                           -> Result(old, "type", n)
         [] t.k = "map" /\ ~t.strkey               -> Result(old, "unsupported", n)
         [] Fails(n + 1)                           -> Result(old, "nix", n + 1)
         [] t.k = "array" /\ Len(v.items) # t.n    -> Result(old, "type", n + 1)
         [] OTHER -> Result(Assigned(r, t, old, names), r.err, r.n)

\* null fits a pointer only; a nil pointer is allocated before the value is decoded.
unmarshalValue(v, t, old, n) ==
    LET target == IF old.nil THEN Zero(Elem(t)) ELSE old.kids[1]
        r == unmarshalValue(v, Elem(t), target, n + 1)
    IN CASE Fails(n + 1) -> Result(old, "nix", n + 1)
         [] v.t = "null" -> IF t.k = "ptr" THEN Result(Nil, "none", n + 1)
                                           ELSE Result(old, "type", n + 1)
         [] v.t # "null" /\ t.k = "ptr"    -> Result(Box(<<r.val>>), r.err, r.n)
         [] v.t # "null" /\ t.k = "struct" -> unmarshalStruct(v, t, old, n + 1)
         [] v.t # "null" /\ t.k \in {"map", "slice", "array"} -> unmarshalItems(v, t, old, n + 1)
         [] v.t # "null" /\ t.k \in {"iface", "func"} -> Result(old, "unsupported", n + 1)
         [] OTHER -> unmarshalScalar(v, t, old, n + 1)

-----------------------------------------------------------------------------
(* Encoding *)

Refused == Nix("refused", 0, <<>>, <<>>)
Container(t, items, names) ==
    IF \E i \in DOMAIN items : items[i].t = "refused" THEN Refused ELSE Nix(t, 0, items, names)

\* goValueFromReflect, and the value NewValue builds from what it returns.  The
\* element of an interface type is the type found in the interface.
RECURSIVE goValueFromReflect(_, _)
goValueFromReflect(g, t) ==
    LET items == [i \in DOMAIN g.kids |-> goValueFromReflect(g.kids[i], Elem(t))] IN
    CASE t.k = "iface" /\ g.nil    -> NullValue
      [] t.k = "iface" /\ ~g.nil   -> items[1]
      [] t.k \in {"bool", "string", "int", "float"} -> Nix(t.k, g.x, <<>>, <<>>)
      [] t.k = "uint"              -> IF TooLarge(g.x) THEN Refused ELSE Nix("int", Cut(g.x, Word), <<>>, <<>>)
      [] t.k = "slice"             -> Container("list", items, <<>>)
      [] t.k = "map" /\ t.strkey   -> Container("attrs", items, g.names)
      [] OTHER                     -> Refused

-----------------------------------------------------------------------------

\* A value of every kind that differs from the zero value.
RECURSIVE Filled(_)
Filled(t) ==
    CASE t.k \in {"ptr", "slice"} -> Box(<<Filled(Elem(t))>>)
      [] t.k = "map"    -> Go(0, FALSE, <<Filled(Elem(t))>>, <<"z">>)
      [] t.k = "array"  -> Box([i \in 1..t.n |-> Filled(Elem(t))])
      [] t.k = "struct" -> Box([i \in DOMAIN t.fields |-> Filled(t.fields[i].type)])
      [] t.k \in {"iface", "func"} -> Nil
      [] OTHER          -> Scalar(1)

ConvertInit ==
    /\ \/ /\ job = "decode"
          /\ nval \in NixValues
          /\ gtype \in GoTypes
          /\ gold \in {Zero(gtype), Filled(gtype)}
          /\ failAt \in 0..MaxCalls
       \/ /\ job = "encode"
          /\ nval = NullValue
          /\ \E g \in GoInputs : gtype = g.type /\ gold = g.val
          /\ failAt = 0
    /\ gres = Result(gold, "none", 0)

\* Evaluator.Unmarshal into a pointer to gold.
UnmarshalInto ==
    /\ job = "decode"
    /\ gres' = unmarshalValue(nval, gtype, gold, 0)
    /\ job' = "decoded"
    /\ UNCHANGED <<nval, gtype, gold, failAt>>

\* An interface reads back as a pointer, which also holds one value or none.
RECURSIVE ReadBack(_)
ReadBack(t) ==
    [t EXCEPT !.k = IF @ = "iface" THEN "ptr" ELSE @,
              !.e = [i \in DOMAIN t.e |-> ReadBack(t.e[i])]]

\* goValueFromAny and NewValue, with the result decoded again.
EncodeArgument ==
    /\ job = "encode"
    /\ nval' = goValueFromReflect(gold, gtype)
    /\ gres' = IF nval'.t = "refused" THEN Result(gold, "refused", 0)
               ELSE unmarshalValue(nval', ReadBack(gtype), Zero(gtype), 0)
    /\ job' = "encoded"
    /\ UNCHANGED <<gtype, gold, failAt>>

ConvertNext == UnmarshalInto \/ EncodeArgument

-----------------------------------------------------------------------------
(* Properties *)

\* What decoding v into a t that holds old means, and when it is possible.
RECURSIVE Fits(_, _), Meaning(_, _, _)

Fits(v, t) ==
    CASE v.t = "null"    -> t.k = "ptr"
      [] t.k = "ptr"     -> v.t # "null" => Fits(v, Elem(t))
      [] t.k = "bool"    -> v.t = "bool"
      [] t.k = "string"  -> v.t \in {"string", "path"}
      [] t.k = "int"     -> v.t = "int" /\ v.x \in Signed(t.n)
      [] t.k = "uint"    -> v.t = "int" /\ v.x \in Natural(t.n)
      [] t.k = "float"   -> v.t = "float" /\ ~(t.n = 32 /\ v.x = Beyond32)
      [] t.k = "slice"   -> v.t = "list" /\ \A i \in DOMAIN v.items : Fits(v.items[i], Elem(t))
      [] t.k = "array"   -> /\ v.t = "list"
                            /\ Len(v.items) = t.n
                            /\ \A i \in DOMAIN v.items : Fits(v.items[i], Elem(t))
      [] t.k = "map"     -> /\ v.t = "attrs"
                            /\ t.strkey
                            /\ \A i \in DOMAIN v.items : Fits(v.items[i], Elem(t))
      [] t.k = "struct"  -> /\ v.t = "attrs"
                            /\ \A i \in DOMAIN t.fields :
                                LET f == t.fields[i] IN
                                Decoded(f) => IF HasAttr(v, fieldAttr(f))
                                              THEN Fits(Attr(v, fieldAttr(f)), f.type)
                                              ELSE ~f.required
      [] OTHER           -> FALSE

Meaning(v, t, old) ==
    CASE v.t = "null"   -> Nil
      [] v.t # "null" /\ t.k = "ptr" ->
            Box(<<Meaning(v, Elem(t), IF old.nil THEN Zero(Elem(t)) ELSE old.kids[1])>>)
      [] t.k \in {"slice", "map"} ->
            Go(0, FALSE, [i \in DOMAIN v.items |-> Meaning(v.items[i], Elem(t), Zero(Elem(t)))],
               IF t.k = "map" THEN v.names ELSE <<>>)
      [] t.k = "array" -> Box([i \in 1..t.n |-> Meaning(v.items[i], Elem(t), old.kids[i])])
      [] t.k = "struct" ->
            Box([i \in DOMAIN t.fields |->
                    LET f == t.fields[i] IN
                    IF Decoded(f) /\ HasAttr(v, fieldAttr(f))
                    THEN Meaning(Attr(v, fieldAttr(f)), f.type, old.kids[i])
                    ELSE old.kids[i]])
      [] OTHER -> Scalar(v.x)

\* Unmarshal succeeds exactly when no Nix call failed and the whole value fits the
\* type, every integer its width and sign included, and then the target means the
\* value: absent, skipped and unexported fields are as they were, and nothing of an
\* old slice, map or pointer that was replaced shows through.
DecodesWhatFits ==
    job = "decoded" =>
        /\ gres.err = "none" <=> Fits(nval, gtype) /\ failAt \notin 1..gres.n
        /\ gres.err = "none" => gres.val = Meaning(nval, gtype, gold)

\* new is what a failed decoding may leave of old: fields and array elements before
\* some point are decoded, those after it untouched, the one at it either of the
\* two or itself broken off, and a slice or a map is never changed in part.
RECURSIVE BrokenOff(_, _, _, _)
BrokenOff(v, t, old, new) ==
    \/ new = old
    \/ /\ t.k = "ptr"
       /\ ~new.nil
       /\ BrokenOff(v, Elem(t), IF old.nil THEN Zero(Elem(t)) ELSE old.kids[1], new.kids[1])
    \/ /\ t.k \in {"struct", "array"}
       /\ LET Type(i) == IF t.k = "array" THEN Elem(t) ELSE t.fields[i].type
              Here(i) == t.k = "array" \/ (Decoded(t.fields[i]) /\ HasAttr(v, fieldAttr(t.fields[i])))
              Part(i) == IF t.k = "array" THEN v.items[i] ELSE Attr(v, fieldAttr(t.fields[i]))
              Full(i) == IF Here(i) THEN Meaning(Part(i), Type(i), old.kids[i]) ELSE old.kids[i]
          IN \E p \in DOMAIN old.kids :
                /\ \A i \in 1..(p - 1) : new.kids[i] = Full(i)
                /\ \A i \in (p + 1)..Len(old.kids) : new.kids[i] = old.kids[i]
                /\ Here(p)
                /\ \/ new.kids[p] = Full(p)
                   \/ BrokenOff(Part(p), Type(p), old.kids[p], new.kids[p])

\* A decoding that fails, at whatever call or value, leaves the caller's variable
\* decoded up to one point and untouched from there on; slices and maps are all new
\* or all old.
FailureIsClean ==
    job = "decoded" /\ gres.err # "none" => BrokenOff(nval, gtype, gold, gres.val)

\* What is lost on the way to Nix and back: a nil slice or map comes back empty.
RECURSIVE Canonical(_, _)
Canonical(g, t) ==
    IF t.k \in {"slice", "map", "iface"}
    THEN Go(0, t.k = "iface" /\ g.nil, [i \in DOMAIN g.kids |-> Canonical(g.kids[i], Elem(t))], g.names)
    ELSE g

RECURSIVE Encodable(_, _)
Encodable(g, t) ==
    /\ t.k \in {"bool", "string", "int", "uint", "float", "slice", "map", "iface"}
    /\ t.k = "map" => t.strkey
    /\ t.k = "uint" => g.x \in Signed(Word)
    /\ \A i \in DOMAIN g.kids : Encodable(g.kids[i], Elem(t))

\* An argument of EvalWithArgs is refused exactly when some part of it has no Nix
\* form (an unsupported kind, an unsigned integer beyond int64) and otherwise reads
\* back as the same Go value.
ArgumentsRoundTrip ==
    job = "encoded" =>
        /\ gres.err = "refused" <=> ~Encodable(gold, gtype)
        /\ gres.err \in {"none", "refused"}
        /\ gres.err = "none" => gres.val = Canonical(gold, gtype)
=============================================================================
