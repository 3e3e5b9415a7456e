----------------------------- MODULE Adquirente -----------------------------
(***************************************************************************)
(* Everything that depends on which adquirente is in circulation: the      *)
(* clients' choice (Vitrine), the charges made through it (Cobranca) and   *)
(* the house's withdrawals from it (Tesouraria), at once.                  *)
(***************************************************************************)
EXTENDS Cobranca, Tesouraria

CONSTANT Orcamentos   \* bounds: how often the environment may do each thing

todas == <<vitrine, cobranca, tesouraria, orc>>

Init ==
  /\ VitrineInit /\ CobrancaInit /\ TesourariaInit
  /\ orc \in Orcamentos

Next ==
  \/ /\ PassoAdmin \/ \E s \in Sessoes : PassoVitrine(s)
     /\ UNCHANGED <<cobranca, tesouraria>>
  \/ PassoCobranca /\ UNCHANGED tesouraria
  \/ PassoTesouraria /\ UNCHANGED cobranca

Spec == Init /\ [][Next]_todas

(* A request that was taken goes on, and the reconciliation comes round;    *)
(* postbacks may all be lost.                                               *)
SpecJusta ==
  /\ Spec
  /\ \A t \in Chamadas :
       /\ WF_todas(PassoChamada(t) /\ UNCHANGED tesouraria)
       /\ WF_todas(Conciliar(t) /\ UNCHANGED tesouraria)
=============================================================================
