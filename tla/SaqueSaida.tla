----------------------------- MODULE SaqueSaida -----------------------------
(* The machinery of Saque, seen by the merchant, is a withdrawal of Saida.  *)
EXTENDS Saque

(* No order, one that may be paid, or what became of it.                    *)
OrdemDe(b) ==
  IF b \in {"nada", "recusado"} THEN "nenhuma"
  ELSE IF b \in {"emVoo", "aceito"} THEN "viva" ELSE b
OrdensVistas == [s \in Pedidos |-> OrdemDe(banco[s])]
CustoDe == [s \in Pedidos |-> Total(s)]
PodeCair == MaxQuedas > 0 \/ PerdeTrava

Promessa == INSTANCE Saida WITH
  Saques <- Pedidos, Custo <- CustoDe, Reenvia <- PodeCair,
  situacao <- tx, ordem <- OrdensVistas, devolvido <- estornado

(* Whatever is retried, repeated, late or lost between request, queue,       *)
(* worker, webhook and sweep, the merchant sees a withdrawal: charged once,  *)
(* sent once at most, and paid or refunded, each once, and told once.  Only  *)
(* where a process may die or a lock expire between refund and FALHA may an  *)
(* order still go out (criarSaque, process, encerrarPorBloqueio).           *)
ImplementaSaida == Promessa!Spec
-----------------------------------------------------------------------------
(* What the map needs beyond the other invariants: a withdrawal that is      *)
(* being refused has no order; and CobrancaInv wherever nothing can fall.   *)
SeloSemOrdem ==
  \A w \in Workers : fase[w] = "seloBloqueio" => banco[alvo[w]] \in SemOrdem
SaidaInv ==
  /\ SaqueInv /\ AvisoInv /\ TemLinha
  /\ PodeCair \/ (CobrancaInv /\ SeloSemOrdem)
=============================================================================
