---------------------------- MODULE MCConversions ----------------------------
(***************************************************************************)
(* The instance of Conversions for TLC: the values and types that are      *)
(* converted.  With Word = 16 an int64 is one of -8..7; the narrower Go    *)
(* types have 8 values.                                                    *)
(***************************************************************************)
EXTENDS Conversions

V(t, x) == Nix(t, x, <<>>, <<>>)
L(items) == Nix("list", 0, items, <<>>)
A(names, items) == Nix("attrs", 0, items, names)
I(x) == V("int", x)

MCScalars ==
    {NullValue, V("bool", 1), V("string", 3), V("path", 4), V("function", 0)}
    \cup {I(x) : x \in {-8, -5, -4, -1, 0, 3, 4, 7}}
    \cup {V("float", c) : c \in 0..3}

MCNixValues ==
    MCScalars
    \cup {L(<<>>), A(<<>>, <<>>)}
    \cup {L(<<a>>) : a \in {NullValue, I(2)}}
    \cup {L(<<a, b>>) : a, b \in {NullValue, I(2), I(-1), I(5)}}
    \cup {A(<<n>>, <<I(2)>>) : n \in {"a", "b", "-", "Name"}}
    \cup {A(<<"a", "b">>, <<a, b>>) : a, b \in {I(2), I(-1), V("string", 3)}}
    \cup {A(<<"a", "b">>, <<L(<<I(2), x>>), y>>) : x, y \in {I(3), I(-1), NullValue}}
    \cup {L(<<A(<<"a", "b">>, <<I(2), x>>)>>) : x \in {I(1), I(-1)}}
    \cup {A(<<"a", "b">>, <<A(<<"a", "b">>, <<I(1), x>>), I(2)>>) : x \in {I(1), I(-1)}}

Type(k, n) == [k |-> k, n |-> n, strkey |-> TRUE, e |-> <<>>, fields |-> <<>>]
Of(k, n, e) == [Type(k, n) EXCEPT !.e = <<e>>]
Struct(fields) == [Type("struct", 0) EXCEPT !.fields = fields]
Field(tag, required, type) ==
    [name |-> "Name", tag |-> tag, required |-> required, exported |-> TRUE, type |-> type]
Hidden(type) == [Field(<<"a">>, TRUE, type) EXCEPT !.exported = FALSE]

Int8 == Type("int", 8)
Int16 == Type("int", 16)
Uint8 == Type("uint", 8)
Uint16 == Type("uint", 16)
Pair == Struct(<<Field(<<"a">>, FALSE, Int8), Field(<<"b", "omitempty">>, TRUE, Uint16)>>)

MCPlainTypes ==
    {Type("bool", 0), Type("string", 0), Int8, Int16, Uint8, Uint16,
     Type("float", 32), Type("float", 64), Type("func", 0)}

MCGoTypes ==
    MCPlainTypes
    \cup {Of("ptr", 0, t) : t \in {Int8, Of("ptr", 0, Uint8), Of("slice", 0, Int8), Pair}}
    \cup {Of("slice", 0, t) : t \in {Int8, Of("ptr", 0, Uint8), Pair}}
    \cup {Of("array", n, t) : n \in {0, 2}, t \in {Uint8, Of("ptr", 0, Int8)}}
    \cup {Of("map", 0, t) : t \in {Uint16, Of("slice", 0, Int16)}}
    \cup {[Of("map", 0, Int8) EXCEPT !.strkey = FALSE], Of("iface", 0, Int8), Pair}
    \cup {Struct(<<Field(<<"a">>, FALSE, Of("slice", 0, Int8)), Hidden(Int8), Field(<<"b">>, FALSE, Uint16)>>),
          Struct(<<Field(<<"-">>, TRUE, Int8), Field(<<"a">>, FALSE, Of("array", 2, Int8)), Field(<<"b">>, FALSE, Int8)>>),
          Struct(<<Field(<<"-", "">>, FALSE, Int8), Field(<<"">>, FALSE, Int8), Field(<<"z">>, FALSE, Int8)>>),
          Struct(<<Field(<<"a">>, FALSE, Of("ptr", 0, Pair)), Field(<<"b">>, TRUE, Int8)>>)}

\* Values of a type.  What an interface holds is never itself an interface.
RECURSIVE Samples(_)
Samples(t) ==
    CASE t.k = "int"   -> {Scalar(x) : x \in {-(t.n \div 2), 0, t.n \div 2 - 1}}
      [] t.k = "uint"  -> {Scalar(x) : x \in {0, t.n \div 2 - 1, t.n \div 2, t.n - 1}}
      [] t.k = "float" -> {Scalar(c) : c \in 0..3} \ (IF t.n = 32 THEN {Scalar(Beyond32)} ELSE {})
      [] t.k = "iface" -> {Nil} \cup {Box(<<g>>) : g \in Samples(Elem(t))}
      [] t.k = "slice" -> {Nil, Box(<<>>)} \cup {Box(<<g, h>>) : g, h \in Samples(Elem(t))}
      [] t.k = "map"   -> {Nil} \cup {Go(0, FALSE, <<g, h>>, <<"a", "b">>) : g, h \in Samples(Elem(t))}
      [] OTHER         -> {Zero(t), Filled(t)}

MCArgumentTypes ==
    LET base == MCPlainTypes \cup {Of("iface", 0, t) : t \in {Int16, Uint16}}
                \cup {Of("ptr", 0, Int8), Of("array", 2, Int8), Pair}
        nested == base \cup {Of(k, 0, t) : k \in {"slice", "map"}, t \in base}
    IN nested \cup {Of("iface", 0, t) : t \in {u \in nested : u.k # "iface"}}
              \cup {[Of("map", 0, Int8) EXCEPT !.strkey = FALSE]}
              \cup {Of("map", 0, Of("iface", 0, Of("slice", 0, Uint16)))}

MCGoInputs == UNION {{[type |-> t, val |-> g] : g \in Samples(t)} : t \in MCArgumentTypes}
=============================================================================
