-------------------------- MODULE MCRequestValidation -------------------------
(* Constants for checking RequestValidation: one file under any path of at *)
(* most four characters, or up to three files under a few related paths.   *)
EXTENDS RequestValidation

At(path, lines) == [path |-> path, lines |-> lines]

AnyPath == UNION {[1..n -> Characters] : n \in 0..4}

Related == {<<"letter">>, <<"letter", "/", "odd">>, <<"letter", "\\", "odd">>, <<"odd">>,
            <<"decomposed">>, <<"composed">>, <<"composed", "/", "odd">>,
            <<"letter", "/", "odd", "/", "odd">>}

Contents == {<<0>>, <<2>>, <<3>>, <<1, 0>>, <<0, 3>>, <<1, 1, 1>>}

AnyRequest ==
  {<<>>} \cup {<<At(p, <<1>>)>> : p \in AnyPath}
         \cup {<<At(<<"odd">>, l)>> : l \in Contents}
         \cup {<<At(p, l), At(q, m)>> : p, q \in Related, l, m \in Contents}
         \cup {<<At(p, <<1>>), At(q, <<1>>), At(r, <<1>>)>> : p, q, r \in Related}
         \cup {[n \in 1..4 |-> At(<<"odd">>, <<0>>)]}
=============================================================================
