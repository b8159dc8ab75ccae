----------------------------- MODULE MCRpcRouting -----------------------------
(***************************************************************************)
(* A batch of two lookups on a local and a remote source, and a single log *)
(* call on the same local source and one that serves another chain.  The   *)
(* remote source takes one item at a time.                                 *)
(***************************************************************************)
EXTENDS RpcRouting

MCSize == [c \in Caller |-> IF c = "batch" THEN 2 ELSE 1]

MCSources ==
    [p \in Capabilities |->
        IF p = "logs" THEN <<"near", "fork">> ELSE <<"near", "far">>]

MCLimit == [s \in Source |-> IF s = "near" THEN 2 ELSE 1]
=============================================================================
