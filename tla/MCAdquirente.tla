--------------------------- MODULE MCAdquirente ---------------------------
(* Three adquirentes with a chain, two clients and one not activated yet,   *)
(* three calls under one reference (the first and the last alike), two      *)
(* triggers on one account.                                                 *)
EXTENDS Adquirente, TLC

CONSTANTS a1, a2, a3, c1, c2, c3, s1, s2, k1, k2

MCCadeias == <<<<a2, a3>>, <<a3>>>>
MCClienteDe == [t \in Chamadas |-> c1]
MCDadosDe == [t \in Chamadas |-> t % 2]
MCGatilhos == <<
  [conta |-> a1, gatilho |-> 3, reserva |-> 1, minimo |-> 1, maximo |-> 2, intervalo |-> 2],
  [conta |-> a1, gatilho |-> 2, reserva |-> 1, minimo |-> 0, maximo |-> 0, intervalo |-> 3] >>

Nada == [escolhas |-> 0, ativacoes |-> 0, fichas |-> 0, admin |-> 0, massas |-> 0, cadeias |-> 0, saidas |-> 0,
         chamadas |-> 0, falhas |-> 0, quedas |-> 0, vencem |-> 0, pagamentos |-> 0,
         ticks |-> 0, manuais |-> 0, minutos |-> 0, entradas |-> 0, edicoes |-> 0]
MCOrcamentos == {
  \* who uses what
  [Nada EXCEPT !.escolhas = 1, !.admin = 2, !.saidas = 1],
  [Nada EXCEPT !.escolhas = 1, !.saidas = 1, !.massas = 1],
  [Nada EXCEPT !.escolhas = 1, !.fichas = 1, !.saidas = 1],
  [Nada EXCEPT !.fichas = 1, !.admin = 2],
  [Nada EXCEPT !.ativacoes = 1, !.fichas = 1, !.massas = 1, !.admin = 1],
  \* calls, failures and payments
  [Nada EXCEPT !.chamadas = 2, !.falhas = 2, !.pagamentos = 2, !.vencem = 1],
  [Nada EXCEPT !.chamadas = 1, !.falhas = 2, !.quedas = 1, !.pagamentos = 2],
  [Nada EXCEPT !.chamadas = 3, !.falhas = 1, !.pagamentos = 1],
  \* calls while adquirentes and the chain change
  [Nada EXCEPT !.chamadas = 1, !.falhas = 1, !.pagamentos = 1, !.saidas = 2, !.cadeias = 1],
  \* the treasury
  [Nada EXCEPT !.ticks = 3, !.manuais = 1, !.minutos = 3, !.entradas = 1],
  [Nada EXCEPT !.ticks = 2, !.manuais = 1, !.minutos = 1, !.entradas = 1, !.falhas = 1, !.quedas = 1],
  [Nada EXCEPT !.manuais = 2, !.entradas = 1],
  [Nada EXCEPT !.ticks = 1, !.manuais = 1, !.entradas = 1, !.edicoes = 1, !.saidas = 1] }
=============================================================================
