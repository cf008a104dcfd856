------------------------------ MODULE MCRpcFetch ------------------------------
(* Instances of RpcFetch for TLC. *)
EXTENDS RpcFetch

MCCalls ==
  TxCalls \cup ProofCalls \cup {<<"header", k>> : k \in 1 .. Window}
    \cup {<<name, 0>> : name \in {"checkpoint", "traces", "witness", "block", "prev",
                                  "target", "chainId", "tip"}}

(* Up to five tokens without 0, in which two numbers are never neighbours, *)
(* a follow-from 0, a hash, and ranges with a piece too many.              *)
MCTokens == {Num(n) : n \in Numbers \ {0}} \cup {Dot, Equals, Other}

MCArgs ==
  {s \in UNION {[1 .. n -> MCTokens] : n \in 0 .. 5} :
     \A i \in 1 .. Len(s) - 1 : s[i].t # "num" \/ s[i + 1].t # "num"}
    \cup {<<Num(0), Dot, Dot>>, <<Hash>>}
    \cup {<<Num(1), Dot, Dot, Num(4), Dot, Dot, x>> : x \in {Num(1), Other}}
    \cup {<<Num(1), Dot, Dot, Equals, Num(4), Dot, Dot, Equals, x>> : x \in {Num(1), Other}}

(* Genesis and block 1 are fetched; block 2 is one that cannot be. *)
MCUnsupported == {<<2, 1>>}

MCFollow == {<<Num(1), Dot, Dot>>}

===============================================================================
