------------------------------ MODULE MCLedger ------------------------------
(* Five calls on one wallet: a settled cash-in, the hold of a withdrawal, a *)
(* release of the reserve, a MED debited directly (allowed to overdraw) and *)
(* a call that reuses the hold's key for another value.                     *)
EXTENDS LedgerRazao, TLC

CONSTANTS c1, c2, cashin, saque, liberacao, med, divergente

MCBaldes == {"DISPONIVEL", "RESERVADO"}
MCChamadas == {cashin, saque, liberacao, med, divergente}
MCChaves == {"cashin:disp", "cashin:reserva", "saque:hold", "saque:tarifa",
             "reserva:reservado", "reserva:disponivel", "med:debito"}
E(ch, b, v) ==
  [chave |-> ch, balde |-> b, natureza |-> "LIVRE", valor |-> v]
MCEntradas ==
  cashin :> << E("cashin:disp", "DISPONIVEL", 3),
               E("cashin:reserva", "RESERVADO", 1) >>
  @@ saque :> << E("saque:hold", "DISPONIVEL", -2),
                 E("saque:tarifa", "DISPONIVEL", -1) >>
  @@ liberacao :> << E("reserva:disponivel", "DISPONIVEL", 1),
                     E("reserva:reservado", "RESERVADO", -1) >>
  @@ med :> << E("med:debito", "DISPONIVEL", -3) >>
  @@ divergente :> << E("saque:hold", "DISPONIVEL", -1) >>
MCNegativo == [k \in MCChamadas |-> k = med]
MCSimetria == Permutations({c1, c2})
MCComEvento == [k \in MCChamadas |-> k \in {cashin, saque}]
=============================================================================
