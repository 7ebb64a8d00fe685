----------------------------- MODULE MCHostKey -----------------------------
(* Small instances of HostKey.                                             *)
EXTENDS HostKey, TLC

CONSTANTS c1, c2, c3, a, b, k1, k2

MCThreeConns == {c1, c2, c3}
MCTerminals  == {c1}

MCEndpoints == {a, b}
MCKeys      == {k1, k2}

MCBareOf == [e \in MCEndpoints |-> e]

(* Two connections to one endpoint and one to another; both servers have   *)
(* new keys, and the file has their old ones.                              *)
MCTwoEndpoints == (c1 :> a) @@ (c2 :> a) @@ (c3 :> b)
MCRekeyed      == [c \in MCThreeConns |-> k1]
MCOldHosts     == MCEndpoints \X {k2}

=============================================================================
