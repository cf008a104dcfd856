---------------------------- MODULE MCNativeTrace ----------------------------
(* Instances of NativeTrace for TLC. *)
EXTENDS NativeTrace, TLC

CONSTANTS a1, a2, c1, c2

Contract(code, slots) ==
  [balance |-> 1, nonce |-> 1, code |-> code, storage |-> [s \in Slots |-> IF s \in slots THEN 1 ELSE 0]]

(* A contract with some storage beside no account, beside a sender, and    *)
(* beside another contract.                                                *)
MCStarts ==
  {a1 :> Contract(c1, {1}) @@ a2 :> x :
     x \in {Empty, [Empty EXCEPT !.balance = 1], Contract(c2, {1, 2})}}

MCAccessLists ==
  {<<>>, <<[address |-> a2, keys |-> {1}], [address |-> a1, keys |-> {}],
           [address |-> a2, keys |-> {2}]>>}

===============================================================================
