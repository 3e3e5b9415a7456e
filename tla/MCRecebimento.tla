--------------------------- MODULE MCRecebimento ---------------------------
(* Scenarios: each budget opens one group of interleavings.                 *)
EXTENDS Recebimento, TLC

CONSTANTS v1, v2, w1, w2, w3, s1, s2, o1, o2

MCBruto == [v \in Vendas |-> IF v = v1 THEN 2 ELSE 3]
MCPrincipal == [v \in Vendas |-> 2]
MCReserva == [v \in Vendas |-> IF v = v1 THEN 1 ELSE 0]
MCVendaDo == [w \in Avisos |-> IF w = w3 THEN v2 ELSE v1]
MCValorDo == [b \in Bloqueios |-> IF b = 1 THEN 3 ELSE 1]
MCBrutoOntem == [o \in Ontem |-> IF o = o1 THEN 1 ELSE 2]

Nada == [postbacks |-> 0, varreduras |-> 0, admin |-> 0, trocas |-> 0,
         viradas |-> 0, quedas |-> 0, bloqueios |-> 0, saques |-> 0, offset |-> 0]
MCOrcamentos == {
  (* retention across a day, and the release of a retained sale *)
  [Nada EXCEPT !.postbacks = 2, !.admin = 1, !.viradas = 1],
  (* postback and sweep, with a change of the release days *)
  [Nada EXCEPT !.postbacks = 1, !.varreduras = 1, !.trocas = 1, !.offset = 1],
  (* postback and sweep, with a crash *)
  [Nada EXCEPT !.postbacks = 1, !.varreduras = 1, !.quedas = 1, !.offset = 1],
  (* a hold made and ended while a sale is credited and released *)
  [Nada EXCEPT !.varreduras = 1, !.bloqueios = 2],
  (* a hold, with a crash *)
  [Nada EXCEPT !.varreduras = 1, !.bloqueios = 1, !.quedas = 1],
  (* two sales of one merchant, and a withdrawal *)
  [Nada EXCEPT !.varreduras = 2, !.saques = 1] }
=============================================================================
