---------------------------- MODULE MCLeaderClient ----------------------------
(* Instances of LeaderClient for TLC. *)
EXTENDS LeaderClient

Client(dir, keep) == [mode |-> "client", dir |-> dir, keep |-> keep, testOnly |-> FALSE]
Stdio             == [mode |-> "stdio", dir |-> FALSE, keep |-> FALSE, testOnly |-> FALSE]

Simulated(o)      == [o EXCEPT !.testOnly = TRUE]

(* Real runs of every kind, and simulations that write dummies. *)
MCOptions ==
  {Client(dir, keep) : dir \in BOOLEAN, keep \in BOOLEAN}
    \cup {Stdio, Simulated(Client(TRUE, FALSE))}

===============================================================================
