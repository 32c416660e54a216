----------------------------- MODULE MCEndpoint -----------------------------
(* The requests of the Endpoint run. *)
EXTENDS Endpoint, TLC

CONSTANTS g1, f1, t1, t2

\* Moves a triple to a named graph, which it opens.
Script == <<{Call("remove", Default, {t1})}, Ensure(g1), {Call("add", g1, {t1})}>>

MCRequests ==
    {[kind |-> "query", graphs |-> {Default, g1}],
     [kind |-> "Read", graphs |-> {g1}],
     [kind |-> "update", script |-> Script],
     [kind |-> "Write", script |-> <<{Call("drop", g1, Triple)}>>],
     [kind |-> "put", g |-> g1, triples |-> {t1, t2}],
     [kind |-> "put", g |-> Default, triples |-> {t2}],
     [kind |-> "post", g |-> g1, triples |-> {t2}],
     [kind |-> "postStore", g |-> f1, triples |-> {t1}],
     [kind |-> "get", g |-> g1],
     [kind |-> "delete", g |-> g1]}

Sym == Permutations(Proc)
=============================================================================
