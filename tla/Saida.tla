-------------------------------- MODULE Saida --------------------------------
(***************************************************************************)
(* What a withdrawal is to the merchant: its value and fee leave the       *)
(* wallet with the request, one order at most goes out, and the outcome is *)
(* a payment or the money back, sealed once and announced once.  There are *)
(* no queues, workers, webhooks, sweeps, retries or crashes here.          *)
(***************************************************************************)
EXTENDS Integers

CONSTANTS
  Saques, Custo,    \* [Saques -> Nat]
  SaldoInicial,
  Reenvia           \* an order may follow a refund that was not sealed in time

VARIABLES
  saldo,                \* DISPONIVEL
  situacao,             \* [Saques -> situacao of the row]
  ordem,                \* [Saques -> the order at the liquidante]
  devolvido,            \* [Saques -> the money is back]
  avisoOk, avisoFalha   \* [Saques -> events written]

vars == <<saldo, situacao, ordem, devolvido, avisoOk, avisoFalha>>
Custosas == {"viva", "pago"}
-----------------------------------------------------------------------------
Init ==
  /\ saldo = SaldoInicial
  /\ situacao = [s \in Saques |-> "ausente"]
  /\ ordem = [s \in Saques |-> "nenhuma"]
  /\ devolvido = [s \in Saques |-> FALSE]
  /\ avisoOk = [s \in Saques |-> 0] /\ avisoFalha = [s \in Saques |-> 0]

(* Row and debits are one commit, and the wallet must be able to pay.       *)
Pedir(s) ==
  /\ situacao[s] = "ausente" /\ saldo >= Custo[s]
  /\ situacao' = [situacao EXCEPT ![s] = "PROCESSANDO"]
  /\ saldo' = saldo - Custo[s]
  /\ UNCHANGED <<ordem, devolvido, avisoOk, avisoFalha>>

(* An order goes out where none is, and not after the money came back.      *)
Mandar(s) ==
  /\ ordem[s] = "nenhuma" /\ situacao[s] # "ausente"
  /\ Reenvia \/ (situacao[s] = "PROCESSANDO" /\ ~devolvido[s])
  /\ ordem' = [ordem EXCEPT ![s] = "viva"]
  /\ UNCHANGED <<saldo, situacao, devolvido, avisoOk, avisoFalha>>

(* The liquidante pays it, loses it, fails it, or has the payment returned. *)
Mover(s) ==
  /\ \/ ordem[s] = "viva" /\ \E o \in {"pago", "nenhuma", "falhou"} :
                               ordem' = [ordem EXCEPT ![s] = o]
     \/ ordem[s] = "pago" /\ ordem' = [ordem EXCEPT ![s] = "devolvido"]
  /\ UNCHANGED <<saldo, situacao, devolvido, avisoOk, avisoFalha>>

(* The refund of a withdrawal without an order, ahead of its outcome.       *)
Devolver(s) ==
  /\ situacao[s] = "PROCESSANDO" /\ ordem[s] = "nenhuma" /\ ~devolvido[s]
  /\ saldo' = saldo + Custo[s]
  /\ devolvido' = [devolvido EXCEPT ![s] = TRUE]
  /\ UNCHANGED <<situacao, ordem, avisoOk, avisoFalha>>

(* FALHA: the money is back, now or before, and the merchant is told.       *)
Falhar(s) ==
  /\ situacao[s] = "PROCESSANDO"
  /\ ordem[s] \notin Custosas \/ (Reenvia /\ devolvido[s])
  /\ situacao' = [situacao EXCEPT ![s] = "FALHA"]
  /\ saldo' = IF devolvido[s] THEN saldo ELSE saldo + Custo[s]
  /\ devolvido' = [devolvido EXCEPT ![s] = TRUE]
  /\ avisoFalha' = [avisoFalha EXCEPT ![s] = 1]
  /\ UNCHANGED <<ordem, avisoOk>>

(* CONCLUIDA: it was paid.  The event is a commit of its own.               *)
Concluir(s) ==
  /\ situacao[s] = "PROCESSANDO" /\ ordem[s] \in {"pago", "devolvido"}
  /\ Reenvia \/ ~devolvido[s]
  /\ situacao' = [situacao EXCEPT ![s] = "CONCLUIDA"]
  /\ UNCHANGED <<saldo, ordem, devolvido, avisoOk, avisoFalha>>

Avisar(s) ==
  /\ situacao[s] = "CONCLUIDA" /\ avisoOk[s] = 0
  /\ avisoOk' = [avisoOk EXCEPT ![s] = 1]
  /\ UNCHANGED <<saldo, situacao, ordem, devolvido, avisoFalha>>

Next ==
  \E s \in Saques :
    \/ Pedir(s) \/ Mandar(s) \/ Mover(s) \/ Devolver(s)
    \/ Falhar(s) \/ Concluir(s) \/ Avisar(s)
Spec == Init /\ [][Next]_vars
=============================================================================
