---------------------------- MODULE MCConnections ----------------------------
(* Instance of Connections for TLC: two connections and one pending slot.     *)
EXTENDS Connections, TLC

CONSTANTS c1, c2

\* A client of the bridge beside a TCP client that takes a slot, a tunnel and a
\* connection through it, and local clients beside others.
MCWays ==
    { (c1 :> w[1]) @@ (c2 :> w[2]) :
        w \in {<<"bridged", "direct">>, <<"open", "through">>,
               <<"direct", "local">>, <<"pipe", "local">>} }

MCMaxSent == (c1 :> 2) @@ (c2 :> 0)
=============================================================================
