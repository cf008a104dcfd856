---------------------------- MODULE MCCircuitStore ----------------------------
(* Instances of CircuitStore for TLC. *)
EXTENDS CircuitStore, TLC

CONSTANTS p1, p2

MCSizes       == 1 .. 2
MCDefaultSize == [k \in Circuits |-> <<1, 3>>]

(* The configuration by default covers all sizes, narrow only the larger one. *)
Default == [k \in Circuits |-> NotGiven]
Narrow  == [k \in Circuits |-> <<2, 3>>]

Run(program, persistence, load_strategy, size) ==
  [program |-> program, persistence |-> persistence, load_strategy |-> load_strategy,
   size |-> size, env |-> NotGiven]

Leader     == Run("leader", "disk", "on-demand", Narrow)
OnDemand   == Run("worker", "disk", "on-demand", Default)
Monolithic == Run("worker", "disk", "monolithic", Narrow)
InMemory   == Run("worker", "none", "on-demand", Default)
Verifier   == Run("verifier", "disk", "on-demand", Narrow)

(* A verifier whose environment names the first series. *)
Labelled   == [Verifier EXCEPT !.env = 1]

MCCommandLines == {Leader, OnDemand, Monolithic, InMemory, Labelled}

(* The first two releases differ in the patch version only. *)
MCSeries == [v \in Versions |-> IF v <= 2 THEN 1 ELSE v]

MCFleets ==
  {p1 :> Leader @@ p2 :> Monolithic, p1 :> OnDemand @@ p2 :> Monolithic,
   p1 :> Leader @@ p2 :> Labelled,   p1 :> OnDemand @@ p2 :> InMemory}

MCOneWorker == {[p \in Procs |-> OnDemand]}

===============================================================================
