---------------------------- MODULE Recebimento ----------------------------
(***************************************************************************)
(* The life of received money: Cashin and Bloqueio, and what creditar      *)
(* calls last, MedAutomaticoService.avaliar, which may turn one sale of    *)
(* yesterday into a MED: a decision under the lock of the client's state,  *)
(* then three commits of their own and the state again.                    *)
(***************************************************************************)
EXTENDS Cashin

CONSTANTS
  Ontem,          \* yesterday's CONCLUIDA sales of the merchant
  BrutoOntem,     \* [Ontem -> valorBruto]
  PercentualMed,  \* of yesterday's revenue to be turned into MED
  Tolerancia,     \* between the current sale and what is missing
  MedNegativo     \* permiteSaldoNegativo

ASSUME RecebimentoAssumption ==
  /\ BrutoOntem \in [Ontem -> Nat \ {0}]
  /\ PercentualMed \in Nat /\ Tolerancia \in Nat /\ MedNegativo \in BOOLEAN

VARIABLES
  velha,          \* [Ontem -> [sit, auto, caso]]
  debitoMed,      \* ledger keys medauto:deb
  avisoMed,       \* outbox rows PIX_DEVOLUCAO_CONCLUIDA
  estado          \* estados_med_automatico_usuario: offset and value of the day

med  == <<velha, debitoMed, avisoMed, estado>>
vars == <<disp, manual, holds, entrada, fase, orc, med>>

FaturamentoOntem ==
  MapThenSumSet(LAMBDA o : BrutoOntem[o], {o \in Ontem : velha[o].sit = "CONCLUIDA"})
Modulo(x) == IF x < 0 THEN -x ELSE x

(* Candidates: CONCLUIDA, not converted, no case; the closest to what is    *)
(* missing is taken.                                                        *)
Candidatas ==
  {o \in Ontem : velha[o].sit = "CONCLUIDA" /\ ~velha[o].auto /\ velha[o].caso = "nenhum"}
Melhores(falta100) ==
  LET Longe(o) == Modulo(BrutoOntem[o] * 100 - falta100)
  IN {o \in Candidatas : \A p \in Candidatas : Longe(o) <= Longe(p)}
-----------------------------------------------------------------------------
Init ==
  /\ CashinInit
  /\ velha = [o \in Ontem |-> [sit |-> "CONCLUIDA", auto |-> FALSE, caso |-> "nenhum"]]
  /\ debitoMed = {}
  /\ avisoMed = [o \in Ontem |-> 0]
  /\ estado = [offset |-> 0, valor |-> 0]

FimDaAvaliacao(s, job) == FimDoJob(s, fase[s], "igual", job) /\ Vai(s, Livre)

(* The decision: an offset runs down, or no revenue, the target reached or  *)
(* the sale out of range end it, or a candidate is picked.                  *)
Avaliar(s) ==
  /\ fase[s].pc = "avaliar" /\ cap[s] = Parada
  /\ LET falta100 == FaturamentoOntem * PercentualMed - estado.valor * 100
         atual100 == Bruto[fase[s].v] * 100
         aplica == /\ estado.offset = 0
                   /\ falta100 > 0
                   /\ Modulo(atual100 - falta100) <= Tolerancia * 100
                   /\ Candidatas # {}
     IN \/ /\ ~aplica
           /\ estado' = IF estado.offset > 0
                        THEN [estado EXCEPT !.offset = @ - 1] ELSE estado
           /\ FimDaAvaliacao(s, "feito")
        \/ /\ aplica
           /\ \E o \in Melhores(falta100) :
                Vai(s, [p \in DOMAIN fase[s] \cup {"o", "antes"} |->
                          IF p = "pc" THEN "abrirCaso" ELSE IF p = "o" THEN o
                          ELSE IF p = "antes" THEN estado.valor ELSE fase[s][p]])
           /\ UNCHANGED <<aviso, estado>>
  /\ UNCHANGED <<disp, manual, holds, venda, creditos, pagoAvisado, pend,
                 reservado, lib, soltas, metodo, dias, orc, velha, debitoMed,
                 avisoMed>>

(* aplicarMedNaCandidata: the sale is read again; the case is unique per    *)
(* sale and day and is born DEBITADO.                                       *)
AbrirCaso(s) ==
  /\ fase[s].pc = "abrirCaso"
  /\ LET o == fase[s].o IN
     IF velha[o].sit # "CONCLUIDA" \/ velha[o].auto \/ velha[o].caso # "nenhum"
     THEN FimDaAvaliacao(s, "feito") /\ UNCHANGED velha
     ELSE /\ velha' = [velha EXCEPT ![o].caso = "DEBITADO"]
          /\ Vai2(s, fase[s], "debitarMed")
          /\ UNCHANGED aviso
  /\ UNCHANGED <<disp, manual, holds, venda, creditos, pagoAvisado, pend,
                 reservado, lib, soltas, metodo, dias, orc, debitoMed, avisoMed,
                 estado>>

(* The debit with its event; a refused one makes the job fail.              *)
DebitarMed(s) ==
  /\ fase[s].pc = "debitarMed"
  /\ LET o == fase[s].o IN
     IF ~MedNegativo /\ disp < BrutoOntem[o]
     THEN /\ \E job \in {"espera", "falhou"} : FimDaAvaliacao(s, job)
          /\ UNCHANGED <<disp, debitoMed, avisoMed>>
     ELSE /\ disp' = disp - (IF o \in debitoMed THEN 0 ELSE BrutoOntem[o])
          /\ debitoMed' = debitoMed \cup {o}
          /\ avisoMed' = [avisoMed EXCEPT ![o] = IF o \in debitoMed THEN @ ELSE @ + 1]
          /\ Vai2(s, fase[s], "gravarMed")
          /\ UNCHANGED aviso
  /\ UNCHANGED <<manual, holds, venda, creditos, pagoAvisado, pend, reservado,
                 lib, soltas, metodo, dias, orc, velha, estado>>

(* The sale is MED and the case ACEITO, in one commit.                      *)
ProntaParaMed_semDebito(s) ==  \* mutant: the sale does not wait for the debit
  fase[s].pc \in {"debitarMed", "gravarMed"}
ProntaParaMed(s) == fase[s].pc = "gravarMed"
GravarMed(s) ==
  /\ ProntaParaMed(s)
  /\ velha' = [velha EXCEPT ![fase[s].o] =
       [sit |-> "MED", auto |-> TRUE, caso |-> "ACEITO"]]
  /\ Vai2(s, fase[s], "gravarEstado")
  /\ UNCHANGED <<disp, manual, holds, entrada, orc, debitoMed, avisoMed, estado>>

(* A new offset, and the value of the day as it was read plus this one.     *)
GravarEstado(s) ==
  /\ fase[s].pc = "gravarEstado"
  /\ \E n \in Offsets :
       estado' = [offset |-> n, valor |-> fase[s].antes + BrutoOntem[fase[s].o]]
  /\ FimDaAvaliacao(s, "feito")
  /\ UNCHANGED <<disp, manual, holds, venda, creditos, pagoAvisado, pend,
                 reservado, lib, soltas, metodo, dias, orc, velha, debitoMed,
                 avisoMed>>

PassoMed(s) ==
  Avaliar(s) \/ AbrirCaso(s) \/ DebitarMed(s) \/ GravarMed(s) \/ GravarEstado(s)
PassoCredito(s) ==
  \/ Decidir(s) \/ LerParaReter(s) \/ GravarRetida(s) \/ LerParaCreditar(s)
  \/ GravarCredito(s) \/ CapturarCredito(s)
PassoLiberacao(s) == MoverLiberacao(s) \/ GravarLiberada(s)

Next ==
  \/ \E s \in Sessoes : PassoMed(s)
  \/ /\ \/ \E s \in Sessoes :
             \/ PassoCredito(s) \/ PassoLiberacao(s) \/ SeguirBloqueio(s)
             \/ GravarFalha(s) \/ Interromper(s) \/ PedidoDeBloqueio(s)
             \/ \E w \in Avisos : IniciarAviso(s, w)
             \/ \E v \in Vendas : ConciliarEntrada(s, v) \/ LiberarRetida(s, v)
             \/ \E l \in Liberacoes : Reivindicar(s, l)
        \/ \E w \in Avisos : Postback(w)
        \/ MudarDias
        \/ Sacar
     /\ UNCHANGED med

Spec == Init /\ [][Next]_vars

(* A running session goes on, and the release tick comes back every minute. *)
Segue(s) ==
  \/ PassoMed(s)
  \/ UNCHANGED med /\ (PassoCredito(s) \/ PassoLiberacao(s) \/ SeguirBloqueio(s))
Coleta == \E s \in Sessoes, l \in Liberacoes : Reivindicar(s, l) /\ UNCHANGED med
SpecJusta ==
  /\ Spec
  /\ \A s \in Sessoes : WF_vars(Segue(s))
  /\ \A s \in Sessoes : WF_vars(fase[s].pc = "falhar" /\ GravarFalha(s) /\ UNCHANGED med)
  /\ WF_vars(Coleta)
-----------------------------------------------------------------------------
TypeOK ==
  /\ BloqueioTypeOK /\ CashinTypeOK
  /\ velha \in [Ontem -> [sit : {"CONCLUIDA", "MED"}, auto : BOOLEAN,
                          caso : {"nenhum", "DEBITADO", "ACEITO"}]]
  /\ debitoMed \subseteq Ontem /\ avisoMed \in [Ontem -> Nat]
  /\ estado \in [offset : Nat, valor : Nat]

(* A sale that became MED by itself was debited first, once and with one    *)
(* event, whichever of the commits a crash falls between and whichever of   *)
(* two current sales picked it.                                             *)
ConvertidaFoiDebitada ==
  \A o \in Ontem :
    /\ velha[o].sit = "MED" => o \in debitoMed /\ velha[o].caso = "ACEITO"
    /\ avisoMed[o] = (IF o \in debitoMed THEN 1 ELSE 0)
    /\ o \in debitoMed => velha[o].caso # "nenhum"

(* A session that goes on with a MED has its case, and the sale turns only  *)
(* after the debit.                                                         *)
EmMed == {"abrirCaso", "debitarMed", "gravarMed", "gravarEstado"}
MedInv ==
  /\ ConvertidaFoiDebitada
  /\ \A s \in Sessoes :
       /\ fase[s].pc \in EmMed =>
            /\ {"o", "antes"} \subseteq DOMAIN fase[s]
            /\ fase[s].o \in Ontem /\ fase[s].antes \in Nat
       /\ fase[s].pc \in {"debitarMed", "gravarMed"} =>
            velha[fase[s].o].caso # "nenhum"
       /\ fase[s].pc = "gravarMed" => fase[s].o \in debitoMed

RecebimentoInv == TypeOK /\ BloqueioInv /\ CashinInv /\ MedInv
=============================================================================
