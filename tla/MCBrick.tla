------------------------------- MODULE MCBrick ------------------------------
(***************************************************************************)
(* Two multipoles, a dipole and a monopole: parallel edges, a monopole on  *)
(* either side of its neighbour, and sides that fill up.                   *)
(***************************************************************************)
EXTENDS Brick, TLC

CONSTANTS m1, m2, d1, q1

MCKind == (m1 :> "MULTIPOLE") @@ (m2 :> "MULTIPOLE") @@ (d1 :> "DIPOLE") @@ (q1 :> "MONOPOLE")

MCMax == [b \in {m1, m2, d1, q1} |->
            [s \in Sides |-> IF b \in {m1, m2} THEN 2 ELSE 1]]
=============================================================================
