------------------------------ MODULE Cobranca ------------------------------
(***************************************************************************)
(* criarCobranca and its contingency.  A call of the shop either repeats   *)
(* the last sale of its reference or makes a new one, asks for the charge  *)
(* at the client's adquirente and then along the chain, and answers with   *)
(* the code of the one that gave it.  An adquirente that timed out may     *)
(* have made the charge all the same.  Payments come back as postbacks and *)
(* are matched to a sale through its attempts; the reconciliation asks for *)
(* the charges whose id was recorded.  Crediting itself is Cashin.         *)
(***************************************************************************)
EXTENDS Vitrine

CONSTANTS
  Chamadas,    \* calls of POST /pix/cobranca under one reference of a client
  ClienteDe,   \* [Chamadas -> Clientes]
  DadosDe      \* [Chamadas -> value, payer and items sent]

ASSUME CobrancaAssumption ==
  ClienteDe \in [Chamadas -> Clientes] /\ DOMAIN DadosDe = Chamadas

VARIABLES
  venda,       \* [Chamadas -> the sale a call made: sit, conta, qr, vencido]
  ordem,       \* the calls that made a sale, by id of the sale
  tent,        \* [Chamadas -> tentativas_transacoes of its sale, by id]
  cham,        \* [Chamadas -> where the call is]
  resposta,    \* [Chamadas -> what the shop was told]
  cobradas,    \* charges made at the adquirentes (external)
  pagas        \* charges paid there (external)

cobranca == <<venda, ordem, tent, cham, resposta, cobradas, pagas>>
Fim == [pc |-> "fim"]

Vai(t, r) == cham' = [cham EXCEPT ![t] = r]
Responde(t, r) == resposta' = [resposta EXCEPT ![t] = r] /\ Vai(t, Fim)
Erro == [erro |-> TRUE]
Codigo(t, qr) == [erro |-> FALSE, venda |-> t, qr |-> qr]
-----------------------------------------------------------------------------
CobrancaInit ==
  /\ venda = [t \in Chamadas |->
       [sit |-> "nenhuma", conta |-> Nenhum, qr |-> Nenhum, vencido |-> FALSE]]
  /\ ordem = <<>>
  /\ tent = [t \in Chamadas |-> <<>>]
  /\ cham = [t \in Chamadas |-> [pc |-> "nova"]]
  /\ resposta = [t \in Chamadas |-> Erro]
  /\ cobradas = {} /\ pagas = {}

(* ultimaTransacaoDaReferencia; then the replay: same data, and paid or     *)
(* with a code that still serves.                                           *)
Ultima(c) == SelectSeq(ordem, LAMBDA t : ClienteDe[t] = c)
Serve(u) == \/ venda[u].sit = "CONCLUIDA"
            \/ venda[u].sit = "AGUARDANDO" /\ venda[u].qr # Nenhum /\ ~venda[u].vencido
Repete(t) ==
  LET us == Ultima(ClienteDe[t]) IN
  {u \in Chamadas : us # <<>> /\ u = us[Len(us)] /\ DadosDe[u] = DadosDe[t] /\ Serve(u)}

(* Else the client's adquirente must be usable now.                         *)
Chamar(t) ==
  /\ cham[t].pc = "nova" /\ ClienteDe[t] \in ativos /\ Gasta("chamadas")
  /\ LET a == uso[ClienteDe[t]] IN
     \/ \E u \in Repete(t) : Responde(t, Codigo(u, venda[u].qr))
     \/ Repete(t) = {} /\ ~Usavel(ClienteDe[t], a) /\ Responde(t, Erro)
     \/ /\ Repete(t) = {} /\ Usavel(ClienteDe[t], a)
        /\ Vai(t, [pc |-> "criar", a |-> a])
        /\ UNCHANGED resposta
  /\ UNCHANGED <<vitrine, venda, ordem, tent, cobradas, pagas>>

(* The sale is born AGUARDANDO_PAGAMENTO; then the chain is read, without   *)
(* the accounts that are off and the client's own.                          *)
Fila(a) == <<a>> \o SelectSeq(cadeia, LAMBDA b : b # a /\ adq[b].ativa)
CriarVenda(t) ==
  /\ cham[t].pc = "criar"
  /\ LET a == cham[t].a IN
     /\ venda' = [venda EXCEPT ![t] = [@ EXCEPT !.sit = "AGUARDANDO", !.conta = a]]
     /\ Vai(t, [pc |-> "tentar", fila |-> Fila(a)])
  /\ ordem' = Append(ordem, t)
  /\ UNCHANGED <<vitrine, tent, resposta, cobradas, pagas, orc>>

(* createCharge under the clock.  Any failure, an answer without a code     *)
(* included, leaves the charge made or not.                                 *)
Tentar(t) ==
  /\ cham[t].pc = "tentar"
  /\ LET a == Head(cham[t].fila) IN
     \/ /\ cobradas' = cobradas \cup {<<t, a>>}
        /\ Vai(t, [pc |-> "vincular", a |-> a])
        /\ UNCHANGED orc
     \/ /\ Gasta("falhas")
        /\ cobradas' \in {cobradas, cobradas \cup {<<t, a>>}}
        /\ Vai(t, [cham[t] EXCEPT !.pc = "registrar"])
  /\ UNCHANGED <<vitrine, venda, ordem, tent, resposta, pagas>>

(* The attempt that won is recorded with the id of its charge, or nothing   *)
(* is answered (fail-closed).                                               *)
Vinculo(a) == [a |-> a, id |-> a]
Vincular(t) ==
  /\ cham[t].pc = "vincular"
  /\ LET a == cham[t].a IN
     \/ /\ tent' = [tent EXCEPT ![t] = Append(@, Vinculo(a))]
        /\ Vai(t, [cham[t] EXCEPT !.pc = IF a = venda[t].conta THEN "gravarQr" ELSE "trocar"])
        /\ UNCHANGED <<resposta, orc>>
     \/ Gasta("quedas") /\ Responde(t, Erro) /\ UNCHANGED tent
  /\ UNCHANGED <<vitrine, venda, ordem, cobradas, pagas>>

(* The attempt that failed is recorded (an error of that is swallowed) and  *)
(* the next account of the chain is asked.                                  *)
RegistrarFalha(t) ==
  /\ cham[t].pc = "registrar"
  /\ LET fila == cham[t].fila IN
     /\ \/ /\ tent' = [tent EXCEPT ![t] = Append(@, [a |-> Head(fila), id |-> Nenhum])]
           /\ UNCHANGED orc
        \/ Gasta("quedas") /\ UNCHANGED tent
     /\ Vai(t, IF Len(fila) > 1 THEN [pc |-> "tentar", fila |-> Tail(fila)]
               ELSE [pc |-> "desistir"])
  /\ UNCHANGED <<vitrine, venda, ordem, resposta, cobradas, pagas>>

Desistir(t) ==
  /\ cham[t].pc = "desistir"
  /\ venda' = [venda EXCEPT ![t].sit = "FALHA"]
  /\ Responde(t, Erro)
  /\ UNCHANGED <<vitrine, ordem, tent, cobradas, pagas, orc>>

(* The sale went out through another adquirente: its row is that one's.     *)
ContaVencedora_antiga(t) == venda[t].conta  \* mutant: contaProvedorId is kept
ContaVencedora(t) == cham[t].a
TrocarConta(t) ==
  /\ cham[t].pc = "trocar"
  /\ venda' = [venda EXCEPT ![t].conta = ContaVencedora(t)]
  /\ Vai(t, [cham[t] EXCEPT !.pc = "gravarQr"])
  /\ UNCHANGED <<vitrine, ordem, tent, resposta, cobradas, pagas, orc>>

GravarQr(t) ==
  /\ cham[t].pc = "gravarQr"
  /\ venda' = [venda EXCEPT ![t].qr = cham[t].a]
  /\ Responde(t, Codigo(t, cham[t].a))
  /\ UNCHANGED <<vitrine, ordem, tent, cobradas, pagas, orc>>

Cair(t) ==
  /\ cham[t].pc \notin {"nova", "fim"} /\ Gasta("quedas")
  /\ Responde(t, Erro)
  /\ UNCHANGED <<vitrine, venda, ordem, tent, cobradas, pagas>>
-----------------------------------------------------------------------------
Vencer(t) ==
  /\ venda[t].qr # Nenhum /\ ~venda[t].vencido /\ Gasta("vencem")
  /\ venda' = [venda EXCEPT ![t].vencido = TRUE]
  /\ UNCHANGED <<vitrine, ordem, tent, cham, resposta, cobradas, pagas>>

(* A code is paid at its adquirente: nobody holds it before the call ends.  *)
Pagar(t, a) ==
  /\ cham[t] = Fim /\ <<t, a>> \in cobradas \ pagas /\ Gasta("pagamentos")
  /\ pagas' = pagas \cup {<<t, a>>}
  /\ UNCHANGED <<vitrine, venda, ordem, tent, cham, resposta, cobradas>>

(* resolverTentativa: by the id; else, for a sale still to be credited, the *)
(* oldest attempt without an id, or the oldest.                             *)
Menor(s) == IF s = {} THEN {} ELSE {Min(s)}
Resolve(t, a) ==
  LET PorId == {i \in DOMAIN tent[t] : tent[t][i].id = a}
      Aberta == {i \in DOMAIN tent[t] : venda[t].sit \in {"AGUARDANDO", "FALHA"}}
      SemId == {i \in Aberta : tent[t][i].id = Nenhum}
  IN IF PorId # {} THEN {Max(PorId)}
     ELSE IF SemId # {} THEN Menor(SemId) ELSE Menor(Aberta)

(* The postback's job: another adquirente than the sale's, or another id    *)
(* than the attempt's, is refused; a missing id is filled in; the           *)
(* adquirente confirms the charge; the sale is credited.                    *)
Confere(t, a, i) == venda[t].conta = a /\ tent[t][i].id \in {Nenhum, a}
Postback(t, a) ==
  /\ <<t, a>> \in pagas /\ adq[a].ativa
  /\ \E i \in Resolve(t, a) :
       /\ Confere(t, a, i)
       /\ tent' = [tent EXCEPT ![t] = [@ EXCEPT ![i].id = a]]
       /\ venda' = [venda EXCEPT ![t].sit = "CONCLUIDA"]
  /\ UNCHANGED <<vitrine, ordem, cham, resposta, cobradas, pagas, orc>>

(* ConciliacaoProcessor: the latest attempt with an id is asked for at the  *)
(* adquirente of the sale.                                                  *)
Consultada_primeira(t, i) == i = 1 /\ tent[t][i].id # Nenhum  \* mutant: only the first is asked for
Consultada(t, i) ==
  tent[t][i].id # Nenhum /\ \A j \in DOMAIN tent[t] : j > i => tent[t][j].id = Nenhum
Conciliar(t) ==
  /\ venda[t].sit \in {"AGUARDANDO", "FALHA"} /\ adq[venda[t].conta].ativa
  /\ \E i \in DOMAIN tent[t] :
       /\ Consultada(t, i)
       /\ tent[t][i].id = venda[t].conta /\ <<t, venda[t].conta>> \in pagas
  /\ venda' = [venda EXCEPT ![t].sit = "CONCLUIDA"]
  /\ UNCHANGED <<vitrine, ordem, tent, cham, resposta, cobradas, pagas, orc>>

PassoChamada(t) ==
  \/ CriarVenda(t) \/ Tentar(t) \/ Vincular(t) \/ RegistrarFalha(t)
  \/ Desistir(t) \/ TrocarConta(t) \/ GravarQr(t)
PassoCobranca ==
  \E t \in Chamadas :
    \/ PassoChamada(t) \/ Chamar(t) \/ Cair(t) \/ Vencer(t) \/ Conciliar(t)
    \/ \E a \in Adqs : Pagar(t, a) \/ Postback(t, a)
-----------------------------------------------------------------------------
(* The code a shop was given is of a charge that exists, at the adquirente  *)
(* the row of the sale names and under an id its attempts know, so that its *)
(* payment will be recognised; and a sale is credited only for a payment at *)
(* the adquirente its row names: the one of a phantom left by a timeout     *)
(* never credits it twice over or at another's cost.                        *)
CobrancaCasa ==
  /\ \A t \in Chamadas :
       LET r == resposta[t] IN
       (~r.erro /\ r.qr # Nenhum) =>
          /\ <<r.venda, r.qr>> \in cobradas
          /\ venda[r.venda].conta = r.qr
          /\ \E i \in DOMAIN tent[r.venda] : tent[r.venda][i].id = r.qr
  /\ \A t \in Chamadas :
       venda[t].sit = "CONCLUIDA" => <<t, venda[t].conta>> \in pagas

(* Who pays a code that was answered is credited in the end, though every   *)
(* postback be lost and the code be answered by the contingency, unless the *)
(* adquirente was taken out of circulation with the payment under way.      *)
PagoCredita ==
  []<>(\A t \in Chamadas :
         \/ resposta[t].erro
         \/ LET u == resposta[t].venda IN
            \/ <<u, resposta[t].qr>> \notin pagas
            \/ venda[u].sit = "CONCLUIDA"
            \/ ~adq[venda[u].conta].ativa)

(* A charge is known to the attempts of its sale before its code is given,  *)
(* its code is given once and for good, and nobody pays before that.        *)
Conhecida(t, a) == \E i \in DOMAIN tent[t] : tent[t][i].id = a
ChamOK(t) ==
  LET r == cham[t] IN
  \/ r.pc \in {"nova", "fim", "desistir"} /\ r = [pc |-> r.pc]
  \/ r.pc \in {"criar", "vincular", "trocar", "gravarQr"} /\ r = [pc |-> r.pc, a |-> r.a]
  \/ r.pc \in {"tentar", "registrar"} /\ r = [pc |-> r.pc, fila |-> r.fila]
CobrancaInv ==
  /\ DOMAIN venda = Chamadas
  /\ \A t \in Chamadas : venda[t] = [sit |-> venda[t].sit, conta |-> venda[t].conta,
                                    qr |-> venda[t].qr, vencido |-> venda[t].vencido]
  /\ DOMAIN tent = Chamadas
  /\ \A t \in Chamadas :
       /\ tent[t] \in Seq({tent[t][i] : i \in DOMAIN tent[t]})
       /\ \A i \in DOMAIN tent[t] : tent[t][i] = [a |-> tent[t][i].a, id |-> tent[t][i].id]
  /\ DOMAIN resposta = Chamadas /\ DOMAIN cham = Chamadas
  /\ \A t \in Chamadas : ChamOK(t)
  /\ \A t \in Chamadas :
       cham[t].pc \in {"vincular", "trocar", "gravarQr"} =>
         /\ <<t, cham[t].a>> \in cobradas
         /\ cham[t].pc \in {"trocar", "gravarQr"} => Conhecida(t, cham[t].a)
         /\ cham[t].pc = "gravarQr" => venda[t].conta = cham[t].a
  /\ \A t \in Chamadas : cham[t] # Fim => \A p \in pagas : p[1] # t
  /\ \A t \in Chamadas : venda[t].qr # Nenhum =>
       /\ cham[t] = Fim /\ <<t, venda[t].qr>> \in cobradas
       /\ venda[t].conta = venda[t].qr /\ Conhecida(t, venda[t].qr)
  /\ \A t \in Chamadas :
       LET r == resposta[t] IN
       ~r.erro /\ r.qr # Nenhum => r.venda \in Chamadas /\ venda[r.venda].qr = r.qr
  /\ CobrancaCasa
=============================================================================
