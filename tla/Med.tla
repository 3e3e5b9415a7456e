-------------------------------- MODULE Med --------------------------------
(***************************************************************************)
(* MED: a payer contests a sale.  MedService.receber registers the case    *)
(* and holds or debits the merchant's money, MedService.decidir settles it *)
(* and DevolucaoPixProcessor (queue 9) sends the refund to the liquidante. *)
(* One merchant, one wallet.                                               *)
(***************************************************************************)
EXTENDS Integers, FiniteSets, Functions

CONSTANTS
  Casos, Vendas,
  VendaDe, Valor,     \* [Casos -> Vendas], [Casos -> valorSolicitado]
  Bruto,              \* [Vendas -> valorBruto]
  Entregas, CasoDe,   \* deliveries of the notice, [Entregas -> Casos]
  Analistas,          \* requests that decide a case
  Workers,            \* slots of queue 9
  SaldoInicial,
  Negativo,           \* configuracao.permiteSaldoNegativo
  ModoInicial,        \* modoTratamentoMed before any change
  LeituraVelha,       \* the case may move between decidir's read and its lock
  MaxTentativas,      \* DevolucaoPixProcessor.MAXIMO_TENTATIVAS
  MaxJobs,            \* bound: jobs of one refund in queue 9
  MaxQuedas,          \* bound: crashes
  MaxTrocas,          \* bound: changes of modoTratamentoMed
  MaxGiros            \* bound: other credits and withdrawals of the wallet

Modos == {"BLOQUEAR_SALDO", "DEBITAR_IMEDIATAMENTE"}

ASSUME MedAssumption ==
  /\ IsFiniteSet(Casos) /\ Casos # {}
  /\ VendaDe \in [Casos -> Vendas] /\ Valor \in [Casos -> Nat \ {0}]
  /\ Bruto \in [Vendas -> Nat] /\ CasoDe \in [Entregas -> Casos]
  /\ SaldoInicial \in Nat /\ Negativo \in BOOLEAN /\ LeituraVelha \in BOOLEAN
  /\ ModoInicial \in Modos
  /\ MaxTentativas \in Nat \ {0} /\ MaxJobs \in Nat /\ MaxQuedas \in Nat
  /\ MaxTrocas \in Nat /\ MaxGiros \in Nat

VARIABLES
  disp, bloq,      \* buckets DISPONIVEL and BLOQUEADO_MED
  entradas,        \* what other credits and withdrawals add up to
  caso,            \* [c -> casos_med.situacao]
  cBloq,           \* [c -> casos_med.valorBloqueado]
  venda,           \* [v -> transacoes.situacao]
  dev,             \* [c -> devolucoes_pix.situacao]
  devTent,         \* [c -> quantidadeTentativas]
  avisos,          \* [c -> PIX_DEVOLUCAO_CONCLUIDA rows in the outbox]
  devolvido,       \* [c -> refunds the liquidante executed]
  jobs,            \* [c -> jobs of its refund in queue 9]
  eFase, eModo, eDisp,   \* [e -> step, mode and DISPONIVEL as read]
  aFase, aCaso, aBloq, aNeg,  \* [a -> step, case, valorBloqueado and
                              \*  permiteSaldoNegativo as read]
  wFase, wCaso, wTent,   \* [w -> step, refund, quantidadeTentativas as read]
  modo, quedas, trocas, giros

carteira  == <<disp, bloq, entradas>>
registro  == <<caso, cBloq, venda>>
devolucao == <<dev, devTent, devolvido>>
entrega   == <<eFase, eModo, eDisp>>
analista  == <<aFase, aCaso, aBloq, aNeg>>
worker    == <<wFase, wCaso, wTent>>
ambiente  == <<modo, quedas, trocas, giros>>
vars == <<disp, bloq, entradas, caso, cBloq, venda, dev, devTent, devolvido,
          avisos, jobs, eFase, eModo, eDisp, aFase, aCaso, aBloq, aNeg, wFase,
          wCaso, wTent, modo, quedas, trocas, giros>>

Decidiveis == {"RECEBIDO", "SALDO_BLOQUEADO"}
Encerrados == {"DEBITADO", "ACEITO", "RECUSADO"}
Menor(a, b) == IF a < b THEN a ELSE b
CasosDa(v) == {c \in Casos : VendaDe[c] = v}
Nenhum == CHOOSE c \in Casos : TRUE
-----------------------------------------------------------------------------
Init ==
  /\ disp = SaldoInicial /\ bloq = 0 /\ entradas = SaldoInicial
  /\ caso = [c \in Casos |-> "ausente"]
  /\ cBloq = [c \in Casos |-> 0]
  /\ venda = [v \in Vendas |-> "CONCLUIDA"]
  /\ dev = [c \in Casos |-> "ausente"]
  /\ devTent = [c \in Casos |-> 0]
  /\ devolvido = [c \in Casos |-> 0]
  /\ avisos = [c \in Casos |-> 0]
  /\ jobs = [c \in Casos |-> 0]
  /\ eFase = [e \in Entregas |-> "inicio"]
  /\ eModo = [e \in Entregas |-> ModoInicial]
  /\ eDisp = [e \in Entregas |-> 0]
  /\ aFase = [a \in Analistas |-> "inicio"]
  /\ aCaso = [a \in Analistas |-> Nenhum]
  /\ aBloq = [a \in Analistas |-> 0]
  /\ aNeg = [a \in Analistas |-> FALSE]
  /\ wFase = [w \in Workers |-> "livre"]
  /\ wCaso = [w \in Workers |-> Nenhum]
  /\ wTent = [w \in Workers |-> 0]
  /\ modo = ModoInicial /\ quedas = 0 /\ trocas = 0 /\ giros = 0
-----------------------------------------------------------------------------
(* What a request or a job read ends with it.                              *)
FimEntrega(e, f) ==
  /\ eFase' = [eFase EXCEPT ![e] = f]
  /\ eModo' = [eModo EXCEPT ![e] = ModoInicial]
  /\ eDisp' = [eDisp EXCEPT ![e] = 0]
FimAnalista(a) ==
  /\ aFase' = [aFase EXCEPT ![a] = "inicio"]
  /\ aCaso' = [aCaso EXCEPT ![a] = Nenhum]
  /\ aBloq' = [aBloq EXCEPT ![a] = 0]
  /\ aNeg' = [aNeg EXCEPT ![a] = FALSE]
FimJob(w) ==
  /\ wFase' = [wFase EXCEPT ![w] = "livre"]
  /\ wCaso' = [wCaso EXCEPT ![w] = Nenhum]
  /\ wTent' = [wTent EXCEPT ![w] = 0]
-----------------------------------------------------------------------------
(* receber.  The case is created under a lock on the sale, which serialises *)
(* the ceiling: the live cases of a sale do not pass its value.             *)
Vivos(v) == {c \in CasosDa(v) : caso[c] \notin {"ausente", "RECUSADO"}}
CabeNaVenda_umPorVez(c) == Valor[c] <= Bruto[VendaDe[c]]  \* mutant: case by case
CabeNaVenda(c) ==
  SumFunctionOnSet(Valor, Vivos(VendaDe[c])) + Valor[c] <= Bruto[VendaDe[c]]

(* A notice delivered again takes up a case that never moved money.         *)
Registrar(e) ==
  LET c == CasoDe[e] IN
  /\ eFase[e] = "inicio"
  /\ \/ /\ \/ caso[c] = "RECEBIDO"
           \/ caso[c] = "ausente" /\ CabeNaVenda(c)
        /\ caso' = [caso EXCEPT ![c] = "RECEBIDO"]
        /\ eFase' = [eFase EXCEPT ![e] = "mover"]
        /\ eModo' = [eModo EXCEPT ![e] = modo]
        /\ UNCHANGED eDisp
     \/ /\ caso[c] # "RECEBIDO"
        /\ ~(caso[c] = "ausente" /\ CabeNaVenda(c))
        /\ FimEntrega(e, "fim")
        /\ UNCHANGED caso
  /\ UNCHANGED <<carteira, cBloq, venda, devolucao, avisos, jobs, analista,
                 worker, ambiente>>

(* BLOQUEAR_SALDO: the balance is read before the commit that moves it.     *)
LerSaldo(e) ==
  /\ eFase[e] = "mover" /\ eModo[e] = "BLOQUEAR_SALDO"
  /\ eFase' = [eFase EXCEPT ![e] = "bloquear"]
  /\ eDisp' = [eDisp EXCEPT ![e] = disp]
  /\ UNCHANGED <<carteira, registro, devolucao, avisos, jobs, eModo, analista,
                 worker, ambiente>>

(* Under a lock on the case; what moved it first wins.  If the balance went *)
(* down meanwhile the ledger refuses and the notice is discarded.           *)
AindaRecebido_semReler(c) == TRUE  \* mutant: the situation is not read again
AindaRecebido(c) == caso[c] = "RECEBIDO"

Bloquear(e) ==
  LET c == CasoDe[e]
      v == Menor(Valor[c], IF eDisp[e] > 0 THEN eDisp[e] ELSE 0)
  IN
  /\ eFase[e] = "bloquear"
  /\ FimEntrega(e, "fim")
  /\ IF AindaRecebido(c) /\ (v > 0 => disp >= v)
     THEN /\ disp' = disp - v
          /\ bloq' = bloq + v
          /\ cBloq' = [cBloq EXCEPT ![c] = v]
          /\ caso' = [caso EXCEPT ![c] = "SALDO_BLOQUEADO"]
     ELSE UNCHANGED <<disp, bloq, cBloq, caso>>
  /\ UNCHANGED <<entradas, venda, devolucao, avisos, jobs,
                 analista, worker, ambiente>>

(* DEBITAR_IMEDIATAMENTE: debit, outcome, sale and callback in one commit;  *)
(* the wallet may go negative.                                              *)
DebitarImediato(e) ==
  LET c == CasoDe[e] IN
  /\ eFase[e] = "mover" /\ eModo[e] = "DEBITAR_IMEDIATAMENTE"
  /\ FimEntrega(e, "fim")
  /\ IF AindaRecebido(c)
     THEN /\ disp' = disp - Valor[c]
          /\ caso' = [caso EXCEPT ![c] = "DEBITADO"]
          /\ venda' = [venda EXCEPT ![VendaDe[c]] = "MED"]
          /\ avisos' = [avisos EXCEPT ![c] = @ + 1]
     ELSE UNCHANGED <<disp, caso, venda, avisos>>
  /\ UNCHANGED <<bloq, entradas, cBloq, devolucao, jobs,
                 analista, worker, ambiente>>

(* The process dies; the liquidante or the administrator tries again.       *)
CairEntrega(e) ==
  /\ eFase[e] \in {"mover", "bloquear"} /\ quedas < MaxQuedas
  /\ quedas' = quedas + 1
  /\ FimEntrega(e, "inicio")
  /\ UNCHANGED <<carteira, registro, devolucao, avisos, jobs,
                 analista, worker, modo, trocas, giros>>
-----------------------------------------------------------------------------
(* decidir.  The amounts come from the first read, outside the lock; only   *)
(* the situation is read again.                                             *)
LerCaso(a, c, decisao) ==
  /\ aFase[a] = "inicio" /\ caso[c] \in Decidiveis
  /\ aFase' = [aFase EXCEPT ![a] = decisao]
  /\ aCaso' = [aCaso EXCEPT ![a] = c]
  /\ aBloq' = [aBloq EXCEPT ![a] = cBloq[c]]
  /\ aNeg' = [aNeg EXCEPT ![a] = Negativo \/ modo = "DEBITAR_IMEDIATAMENTE"]
  /\ UNCHANGED <<carteira, registro, devolucao, avisos, jobs, entrega, worker,
                 ambiente>>

(* Nothing of the case moved since it was read, unless LeituraVelha.        *)
AindaDecidivel_semReler(c) == TRUE  \* mutant: two clicks pass the check
AindaDecidivel(c) == caso[c] \in Decidiveis
Lida(a) == LeituraVelha \/ aBloq[a] = cBloq[aCaso[a]]

Aceitar(a) ==
  LET c == aCaso[a]
      resto == Valor[c] - aBloq[a]
  IN
  /\ aFase[a] = "ACEITO" /\ Lida(a)
  /\ FimAnalista(a)
  /\ IF /\ AindaDecidivel(c) /\ bloq >= aBloq[a]
        /\ resto > 0 => aNeg[a] \/ disp >= resto
     THEN /\ bloq' = bloq - aBloq[a]
          /\ disp' = disp - resto
          /\ caso' = [caso EXCEPT ![c] = "ACEITO"]
          /\ dev' = [dev EXCEPT ![c] = "PENDENTE"]
          /\ \/ jobs' = [jobs EXCEPT ![c] = @ + 1]
             \/ UNCHANGED jobs          \* the enqueue failed: only a log line
     ELSE UNCHANGED <<disp, bloq, caso, dev, jobs>>
  /\ UNCHANGED <<entradas, cBloq, venda, devTent, devolvido, avisos, entrega,
                 worker, ambiente>>

Recusar_semLiberar(a) == UNCHANGED <<disp, bloq>>  \* mutant: the hold is not undone
DesfazBloqueio(a) == disp' = disp + aBloq[a] /\ bloq' = bloq - aBloq[a]

Recusar(a) ==
  LET c == aCaso[a] IN
  /\ aFase[a] = "RECUSADO" /\ Lida(a)
  /\ FimAnalista(a)
  /\ IF AindaDecidivel(c) /\ bloq >= aBloq[a]
     THEN /\ DesfazBloqueio(a)
          /\ caso' = [caso EXCEPT ![c] = "RECUSADO"]
          /\ cBloq' = [cBloq EXCEPT ![c] = 0]
     ELSE UNCHANGED <<disp, bloq, caso, cBloq>>
  /\ UNCHANGED <<entradas, venda, devolucao, avisos, jobs, entrega, worker, ambiente>>
-----------------------------------------------------------------------------
(* Queue 9.  The refund has no idempotency key at the liquidante: only a    *)
(* PENDENTE row may be claimed, whatever jobs there are.                    *)
Vai(w, f) == wFase' = [wFase EXCEPT ![w] = f] /\ UNCHANGED <<wCaso, wTent>>

IniciarJob(w, c) ==
  /\ wFase[w] = "livre" /\ jobs[c] > 0
  /\ jobs' = [jobs EXCEPT ![c] = @ - 1]
  /\ IF dev[c] = "CONCLUIDA"
     THEN UNCHANGED worker
     ELSE /\ wFase' = [wFase EXCEPT ![w] = "claim"]
          /\ wCaso' = [wCaso EXCEPT ![w] = c]
          /\ wTent' = [wTent EXCEPT ![w] = devTent[c]]
  /\ UNCHANGED <<carteira, registro, devolucao, avisos, entrega, analista,
                 ambiente>>

Reivindicavel_processando(c) == dev[c] \in {"PENDENTE", "PROCESSANDO"}  \* mutant: an orphan is taken up
Reivindicavel(c) == dev[c] = "PENDENTE"

Reivindicar(w) ==
  LET c == wCaso[w] IN
  /\ wFase[w] = "claim"
  /\ IF Reivindicavel(c)
     THEN /\ dev' = [dev EXCEPT ![c] = "PROCESSANDO"]
          /\ devTent' = [devTent EXCEPT ![c] = @ + 1]
          /\ Vai(w, "postar")
     ELSE UNCHANGED <<dev, devTent>> /\ FimJob(w)
  /\ UNCHANGED <<carteira, registro, devolvido, avisos, jobs, entrega,
                 analista, ambiente>>

(* Nothing left (liquidante off, auth); refused; executed; no answer, and   *)
(* then the refund may have been executed or not.                           *)
Postar(w) ==
  LET c == wCaso[w] IN
  /\ wFase[w] = "postar"
  /\ \/ \E f \in {"antes", "recusa", "ambiguo"} : Vai(w, f) /\ UNCHANGED devolvido
     \/ \E f \in {"sucesso", "ambiguo"} :
          /\ Vai(w, f)
          /\ devolvido' = [devolvido EXCEPT ![c] = @ + 1]
  /\ UNCHANGED <<carteira, registro, dev, devTent, avisos, jobs, entrega,
                 analista, ambiente>>

(* reterPreEnvio: back to PENDENTE, and the job is retried while it has     *)
(* attempts; at the ceiling the row is left to a person.                    *)
Teto(w) == wTent[w] + 1 >= MaxTentativas

ReterPreEnvio(w) ==
  LET c == wCaso[w] IN
  /\ wFase[w] = "antes"
  /\ dev' = [dev EXCEPT ![c] =
       IF @ # "PROCESSANDO" THEN @ ELSE IF Teto(w) THEN "FALHA" ELSE "PENDENTE"]
  /\ \/ UNCHANGED jobs
     \/ ~Teto(w) /\ jobs' = [jobs EXCEPT ![c] = @ + 1]
  /\ FimJob(w)
  /\ UNCHANGED <<carteira, registro, devTent, devolvido, avisos, entrega,
                 analista, ambiente>>

(* A refusal is definitive, no answer is frozen; neither job is retried.    *)
Congelar(w) ==
  LET c == wCaso[w] IN
  /\ wFase[w] \in {"recusa", "ambiguo"}
  /\ dev' = [dev EXCEPT ![c] =
       IF @ # "PROCESSANDO" THEN @
       ELSE IF wFase[w] = "recusa" THEN "FALHA" ELSE "AMBIGUA"]
  /\ FimJob(w)
  /\ UNCHANGED <<carteira, registro, devTent, devolvido, avisos, jobs, entrega,
                 analista, ambiente>>

(* The sale turns MED when the refunds concluded, this one included, cover  *)
(* its value.                                                               *)
Coberta_emDobro(v, c) ==  \* mutant: this refund is counted twice
  Valor[c] + SumFunctionOnSet(Valor,
    {d \in CasosDa(v) : d = c \/ dev[d] = "CONCLUIDA"}) >= Bruto[v]
Coberta(v, c) ==
  SumFunctionOnSet(Valor,
    {d \in CasosDa(v) : d = c \/ dev[d] = "CONCLUIDA"}) >= Bruto[v]

Concluir(w) ==
  LET c == wCaso[w]
      v == VendaDe[c]
  IN
  /\ wFase[w] = "sucesso"
  /\ dev' = [dev EXCEPT ![c] = "CONCLUIDA"]
  /\ venda' = IF Coberta(v, c) THEN [venda EXCEPT ![v] = "MED"] ELSE venda
  /\ avisos' = [avisos EXCEPT ![c] = @ + 1]
  /\ FimJob(w)
  /\ UNCHANGED <<carteira, caso, cBloq, devTent, devolvido, jobs, entrega,
                 analista, ambiente>>

(* The process dies or the database fails; BullMQ may run the job again.    *)
CairWorker(w) ==
  /\ wFase[w] # "livre" /\ quedas < MaxQuedas
  /\ quedas' = quedas + 1
  /\ FimJob(w)
  /\ \/ UNCHANGED jobs
     \/ jobs' = [jobs EXCEPT ![wCaso[w]] = @ + 1]
  /\ UNCHANGED <<carteira, registro, devolucao, avisos, entrega, analista,
                 modo, trocas, giros>>

(* varrerDevolucoes, part of the reconciliation sweep.                      *)
Presa_soNova(c) == dev[c] = "PENDENTE" /\ devTent[c] = 0  \* mutant: tried ones are left out
Presa(c) == dev[c] = "PENDENTE" /\ devTent[c] < MaxTentativas

VarrerDevolucoes(c) ==
  /\ Presa(c) /\ jobs[c] < MaxJobs
  /\ jobs' = [jobs EXCEPT ![c] = @ + 1]
  /\ UNCHANGED <<carteira, registro, devolucao, avisos, entrega, analista,
                 worker, ambiente>>
-----------------------------------------------------------------------------
(* The rest of the wallet: a sale is credited, a withdrawal leaves.         *)
Girar(v) ==
  /\ giros < MaxGiros /\ (v > 0 \/ disp + v >= 0)
  /\ giros' = giros + 1
  /\ disp' = disp + v
  /\ entradas' = entradas + v
  /\ UNCHANGED <<bloq, registro, devolucao, avisos, jobs, entrega, analista,
                 worker, modo, quedas, trocas>>

MudarModo(m) ==
  /\ trocas < MaxTrocas /\ m # modo
  /\ modo' = m
  /\ trocas' = trocas + 1
  /\ UNCHANGED <<carteira, registro, devolucao, avisos, jobs, entrega,
                 analista, worker, quedas, giros>>

Next ==
  \/ \E e \in Entregas :
       Registrar(e) \/ LerSaldo(e) \/ Bloquear(e) \/ DebitarImediato(e)
       \/ CairEntrega(e)
  \/ \E a \in Analistas :
       \/ \E c \in Casos, d \in {"ACEITO", "RECUSADO"} : LerCaso(a, c, d)
       \/ Aceitar(a) \/ Recusar(a)
  \/ \E w \in Workers :
       \/ \E c \in Casos : IniciarJob(w, c)
       \/ Reivindicar(w) \/ Postar(w) \/ ReterPreEnvio(w) \/ Congelar(w)
       \/ Concluir(w) \/ CairWorker(w)
  \/ \E c \in Casos : VarrerDevolucoes(c)
  \/ \E v \in {-1, 1} : Girar(v)
  \/ \E m \in Modos : MudarModo(m)

Spec == Init /\ [][Next]_vars

(* The worker goes on, BullMQ hands out jobs and the sweep is a repeatable  *)
(* job.  Nothing is assumed of notices, analysts or the liquidante.         *)
ProcessarJob(w) ==
  \/ Reivindicar(w) \/ Postar(w) \/ ReterPreEnvio(w) \/ Congelar(w)
  \/ Concluir(w)
Justica ==
  /\ \A w \in Workers : WF_vars(ProcessarJob(w))
  /\ \A c \in Casos :
       /\ SF_vars(\E w \in Workers : IniciarJob(w, c))
       /\ WF_vars(VarrerDevolucoes(c))
SpecJusta == Spec /\ Justica
-----------------------------------------------------------------------------
TypeOK ==
  /\ disp \in Int /\ bloq \in Nat /\ entradas \in Int
  /\ caso \in [Casos -> {"ausente"} \cup Decidiveis \cup Encerrados]
  /\ cBloq \in [Casos -> Nat]
  /\ venda \in [Vendas -> {"CONCLUIDA", "MED"}]
  /\ dev \in [Casos -> {"ausente", "PENDENTE", "PROCESSANDO", "CONCLUIDA",
                        "FALHA", "AMBIGUA"}]
  /\ devTent \in [Casos -> Nat] /\ devolvido \in [Casos -> Nat]
  /\ avisos \in [Casos -> Nat] /\ jobs \in [Casos -> Nat]
  /\ eFase \in [Entregas -> {"inicio", "mover", "bloquear", "fim"}]
  /\ eModo \in [Entregas -> Modos] /\ eDisp \in [Entregas -> Int]
  /\ aFase \in [Analistas -> {"inicio", "ACEITO", "RECUSADO"}]
  /\ aCaso \in [Analistas -> Casos] /\ aBloq \in [Analistas -> Nat]
  /\ aNeg \in [Analistas -> BOOLEAN]
  /\ wFase \in [Workers -> {"livre", "claim", "postar", "antes", "recusa",
                            "ambiguo", "sucesso"}]
  /\ wCaso \in [Workers -> Casos] /\ wTent \in [Workers -> Nat]
  /\ modo \in Modos /\ quedas \in 0..MaxQuedas
  /\ trocas \in 0..MaxTrocas /\ giros \in 0..MaxGiros

(* What is in BLOQUEADO_MED is what the open cases say they hold: a hold is *)
(* neither lost nor left behind ("o saldo ficava preso em BLOQUEADO_MED     *)
(* indefinidamente", med.service.ts:432).                                   *)
BloqueadoFecha ==
  bloq = SumFunctionOnSet(cBloq, {c \in Casos : caso[c] = "SALDO_BLOQUEADO"})

(* The merchant loses the value of each accepted or debited case, once, and *)
(* nothing for the others, however notices and clicks are repeated.         *)
CarteiraFecha ==
  disp + bloq =
    entradas - SumFunctionOnSet(Valor, {c \in Casos : caso[c] \in {"ACEITO", "DEBITADO"}})

(* The live cases of a sale never pass its value (lock on the sale).        *)
TetoDaVenda == \A v \in Vendas : SumFunctionOnSet(Valor, Vivos(v)) <= Bruto[v]

(* A settled case is not settled again (lock on the case).                  *)
DecisaoFinal ==
  [][\A c \in Casos : caso[c] \in Encerrados => caso'[c] = caso[c]]_vars

(* The payer is refunded once at most, and only for an accepted case, with  *)
(* duplicate jobs, retries, crashes and lost answers (the claim of queue 9).*)
UmaDevolucao ==
  \A c \in Casos : devolvido[c] <= 1 /\ (devolvido[c] = 1 => caso[c] = "ACEITO")

(* PIX_DEVOLUCAO_CONCLUIDA goes out once per case, and only when the money  *)
(* did.                                                                     *)
AvisaUmaVez ==
  \A c \in Casos :
    /\ avisos[c] <= 1
    /\ avisos[c] = 1 => caso[c] = "DEBITADO" \/ (dev[c] = "CONCLUIDA" /\ devolvido[c] = 1)

(* A sale is MED only by an immediate debit or when its refunds cover it.   *)
MedSoCoberta ==
  \A v \in Vendas :
    venda[v] = "MED" =>
      \/ \E c \in CasosDa(v) : caso[c] = "DEBITADO"
      \/ SumFunctionOnSet(Valor, {c \in CasosDa(v) : devolvido[c] > 0}) >= Bruto[v]

(* A refund below the ceiling of attempts does not wait for ever, although  *)
(* its enqueue or a retry was lost, a worker died, and duplicate jobs run   *)
(* at once: the sweep carries it to an outcome or to the ceiling.           *)
NoTeto(c) == devTent[c] >= MaxTentativas
DevolucaoSai ==
  \A c \in Casos : dev[c] = "PENDENTE" ~> [](dev[c] # "PENDENTE" \/ NoTeto(c))

(* What the code says of the ceiling ("Depois disto a linha vira FALHA e    *)
(* sai da varredura", devolucao-pix.processor.ts:47), and does not keep with*)
(* two workers: the last claim may take itself for the one before.          *)
TetoViraFalha == \A c \in Casos : dev[c] = "PENDENTE" ~> [](dev[c] # "PENDENTE")

(* Why they hold.  A case holds money only from its hold on; a refund is of *)
(* an accepted case, is announced when it concluded, and may have left only *)
(* after a claim; who is past the claim is alone with it, and knows whether *)
(* it left.                                                                 *)
DevolucaoInv ==
  \A c \in Casos :
    /\ dev[c] # "ausente" <=> caso[c] = "ACEITO"
    /\ devolvido[c] <= 1
    /\ dev[c] \in {"ausente", "PENDENTE"} => devolvido[c] = 0
    /\ dev[c] = "CONCLUIDA" => devolvido[c] = 1
    /\ avisos[c] = (IF caso[c] = "DEBITADO" \/ dev[c] = "CONCLUIDA" THEN 1 ELSE 0)
NaMao == {"postar", "antes", "recusa", "ambiguo", "sucesso"}
MaoInv ==
  /\ \A w \in Workers : wFase[w] \in NaMao =>
       /\ dev[wCaso[w]] = "PROCESSANDO"
       /\ wFase[w] \in {"postar", "antes", "recusa"} => devolvido[wCaso[w]] = 0
       /\ wFase[w] = "sucesso" => devolvido[wCaso[w]] = 1
  /\ \A w, x \in Workers :
       wFase[w] \in NaMao /\ wFase[x] \in NaMao /\ wCaso[w] = wCaso[x] => w = x
MedInv ==
  /\ TypeOK
  /\ \A c \in Casos : caso[c] \in {"ausente", "RECEBIDO"} => cBloq[c] = 0
  /\ LeituraVelha \/ BloqueadoFecha
  /\ CarteiraFecha /\ TetoDaVenda
  /\ DevolucaoInv /\ MaoInv /\ MedSoCoberta
=============================================================================
