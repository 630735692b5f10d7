----------------------------- MODULE MCBindings -----------------------------
(* Instances of Bindings. *)
EXTENDS Bindings, TLC

CONSTANTS d1, d2, a1, b1, v1, v2

\* A delivery that arrives twice, then one without a valid signature.
Retried == (1 :> v1) @@ (2 :> v1) @@ (3 :> v2)
\* Two deliveries, the second without a valid signature.
Distinct == (1 :> v1) @@ (2 :> v2)
Signed == {c \in Capture : DeliveryOf[c] = v1}
=============================================================================
