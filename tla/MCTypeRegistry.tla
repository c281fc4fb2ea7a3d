--------------------------- MODULE MCTypeRegistry ---------------------------
(* TypeRegistry with function types that share a trampoline type, and with struct types. *)
EXTENDS TypeRegistry

\* f: an open function type; g: a subtype of f that refers to f twice; t: the final
\* type both call through.
\* a: a struct type; b: a subtype of a with a field of type (ref a); c: a subtype of b.
MCRefs  == [f |-> <<>>, g |-> <<"f", "f">>, t |-> <<>>,
            a |-> <<>>, b |-> <<"a", "a">>, c |-> <<"b">>]
MCSuper == [f |-> Nil, g |-> "f", t |-> Nil, a |-> Nil, b |-> "a", c |-> "b"]
MCTrampoline == [s \in Shapes |-> IF s \in {"f", "g"} THEN "t" ELSE Nil]

\* A second handle of the same type matters to the count of its entry only, so the two
\* hierarchies are explored with one and a pair of types with two.
MCPrograms ==
  { [shapes |-> {"f", "g", "t"}, modules |-> {<<"f", "g">>}, max_held |-> 1],
    [shapes |-> {"a", "b", "c"}, modules |-> {<<"a", "b", "c">>}, max_held |-> 1],
    [shapes |-> {"a", "b"}, modules |-> {<<"a", "b">>}, max_held |-> 2] }

Symmetry == Permutations(Threads) \cup Permutations(Idx)
=============================================================================
