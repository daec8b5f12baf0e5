--------------------------- MODULE MCIdempotency ---------------------------
(* Small instances of Idempotency: a request, its retry with the same body, *)
(* and a request that reuses the key with another body.                     *)
EXTENDS Idempotency, TLC

CONSTANTS r1, r2, r3, b1, b2

MCBodyOf == (r1 :> b1) @@ (r2 :> b1) @@ (r3 :> b2)
=============================================================================
