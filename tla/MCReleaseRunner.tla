--------------------------- MODULE MCReleaseRunner ---------------------------
(* Bounded instances of ReleaseRunner. *)
EXTENDS ReleaseRunner, TLC

CONSTANTS r1, r2, a1, a2, a3, m1, pinA, pinB, relA, relB, i1, i2

Call(pr, pin, rel) ==
    [migration |-> m1, profile |-> pr, pin |-> pin, release |-> rel]

\* Two releases of one migration, the second with other reviewed bytes.
TableCalls == {Call("additive_tables_v1", pinA, relA),
               Call("additive_tables_v1", pinA, relB)}
OneCall == {Call("additive_tables_v1", pinA, relA)}
ModuleCalls == {Call("module_grants_v1", pinA, relA)}

Symmetric == Permutations({r1, r2}) \cup Permutations({a1, a2, a3})
=============================================================================
