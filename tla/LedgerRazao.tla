---------------------------- MODULE LedgerRazao ----------------------------
(* The sessions of Ledger, seen through what they committed, are the calls  *)
(* of Razao.                                                                *)
EXTENDS Ledger

(* A movement as its call asked for it.                                     *)
EntradaDe(m) ==
  [chave |-> m.chave, balde |-> m.balde, natureza |-> m.natureza, valor |-> m.valor]
Lancados == {EntradaDe(movs[i]) : i \in DOMAIN movs}

Promessa == INSTANCE Razao WITH lancados <- Lancados

(* Whatever sessions wait for the row, walk their entries, are refused or   *)
(* die, each commit of aplicarMovimentacoes is one whole call: its new      *)
(* movements, the balances they make and one event, and a retry that finds  *)
(* every key there writes and announces nothing.                            *)
ImplementaRazao == Promessa!Spec
-----------------------------------------------------------------------------
(* Why a commit is a whole call.  What the holder of the row inserted comes *)
(* from the entries it has walked, each of which is either one of those or  *)
(* was there before; its copy is the committed balances plus what it        *)
(* inserted; and it overdraws no further than it may.                       *)
NovasDe(c) == {EntradaDe(novas[c][i]) : i \in DOMAIN novas[c]}
Andados(c) == {Entradas[chamada[c]][i] : i \in 1..passo[c]}
Andamento(c) ==
  /\ NovasDe(c) \subseteq Andados(c)
  /\ Andados(c) \subseteq Lancados \cup NovasDe(c)
  /\ copia[c] = Promessa!Somado(NovasDe(c))
  /\ \/ Negativo[chamada[c]]
     \/ copia[c][Disponivel] >= 0
     \/ copia[c][Disponivel] >= saldo[Disponivel]

(* And what is committed comes from calls whose every entry is committed.   *)
ChamadasInteiras ==
  \A e \in Lancados : \E k \in Chamadas :
    e \in Promessa!Pedidos(k) /\ Promessa!Pedidos(k) \subseteq Lancados

RazaoInv ==
  /\ LedgerInv
  /\ ChamadasInteiras
  /\ \A c \in Chamadores : fase[c] = "dentro" => Andamento(c)
=============================================================================
