----------------------------- MODULE MCEntrega -----------------------------
(* A sale that is paid (1) and later given back (2); the app of the         *)
(* merchant is told of the payment only.                                    *)
EXTENDS Entrega, TLC

CONSTANTS p1, p2, w1, r1, r2, d1, d2, a1

Orc(e, f, r, t) == [eventos |-> e, falhas |-> f, reenvios |-> r, trocas |-> t]
MCOrcamentos == {
  Orc(1, 2, 0, 0),   \* one event and whatever fails twice
  Orc(1, 1, 1, 0),   \* a failure and a resend
  Orc(2, 0, 1, 0),   \* two events and a resend between them
  Orc(1, 0, 0, 1) }  \* the account or the app switched off
=============================================================================
