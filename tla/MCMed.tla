------------------------------- MODULE MCMed -------------------------------
(* Two notices about one sale that cannot both be live: the first one is    *)
(* delivered twice.                                                         *)
EXTENDS Med, TLC

CONSTANTS c1, c2, v1, e1, e2, e3, a1, a2, w1, w2

MCValor == [c \in Casos |-> IF c = c1 THEN 2 ELSE 1]
MCVendaDe == [c \in Casos |-> v1]
MCBruto == [v \in Vendas |-> 2]
MCCasoDe == [e \in Entregas |-> IF e = e3 THEN c2 ELSE c1]
MCSimetria == Permutations(Analistas) \cup Permutations(Workers)
=============================================================================
