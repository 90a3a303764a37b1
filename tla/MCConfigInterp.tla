--------------------------- MODULE MCConfigInterp ---------------------------
(* Config files for model checking ConfigInterp. *)
EXTENDS ConfigInterp

CONSTANTS a, b, c, num, txt

Typed   == [typed |-> TRUE, text |-> <<num>>]
Text(t) == [typed |-> FALSE, text |-> t]

(* A number, a word, one reference, a reference inside text, two references. *)
Values == {Typed, Text(<<txt>>)}
            \union {Text(<<r>>) : r \in Refs}
            \union {Text(<<txt, r>>) : r \in Refs}
            \union {Text(<<r, q>>) : r, q \in Refs}

AcyclicFiles == {f \in [Keys -> Values] : IsAcyclic(f)}

(* a names b, b names a. *)
CyclicFiles == {(a :> Text(<<b>>) @@ b :> Text(<<a>>) @@ c :> Typed)}
=============================================================================
