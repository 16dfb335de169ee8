------------------------------ MODULE MCServer ------------------------------
(***************************************************************************)
(* A small instance of Server for TLC: two connections and one key.        *)
(***************************************************************************)
EXTENDS Server

CONSTANTS k1, v1, c1, c2

Req(cmd, val) == [cmd |-> cmd, key |-> k1, val |-> val]
MCRequests == {Req("Get", None), Req("Keys", None), Req("Set", v1), Req("Del", None),
               Req("Bad", None), Req("Unreadable", None)}

=============================================================================
