------------------------------- MODULE Saque -------------------------------
(***************************************************************************)
(* A PIX withdrawal from the request to its outcome: PixService.criarSaque *)
(* (API), the queue 4-pix-cash-out and its worker, the liquidante that     *)
(* pays, the webhook of queue 3 and the reconciliation sweep of queue 7.   *)
(* Requests and withdrawals share their names: withdrawal s is the one     *)
(* request s created.  One merchant, one wallet.                           *)
(***************************************************************************)
EXTENDS Integers, FiniteSets, Functions

CONSTANTS
  Pedidos,          \* calls to criarSaque
  Workers,          \* slots of the queue's worker
  Ninguem,          \* no slot holds a job's lock
  Ganchos,          \* slots of the webhook worker
  Ref,              \* [Pedidos -> referenciaExterna or SemReferencia]
  SemReferencia,
  Valor, Tarifa,    \* [Pedidos -> Nat]
  SaldoInicial,     \* DISPONIVEL before the first request
  Limite,           \* limiteDiarioPixSaida
  EcoaReferencia,   \* the liquidante sends our reference back in webhooks
  PerdeTrava,       \* a job lock may expire under a live worker
  MaxTentativas,    \* attempts of a job
  MaxParadas,       \* stalls before BullMQ gives a job up
  MaxQuedas,        \* bound: crashes and infrastructure errors
  MaxTrocas         \* bound: changes of the merchant's rules

ASSUME SaqueAssumption ==
  /\ Pedidos # {} /\ IsFiniteSet(Pedidos) /\ Ninguem \notin Workers
  /\ Valor \in [Pedidos -> Nat] /\ Tarifa \in [Pedidos -> Nat]
  /\ SaldoInicial \in Nat /\ Limite \in Nat
  /\ EcoaReferencia \in BOOLEAN /\ PerdeTrava \in BOOLEAN
  /\ MaxTentativas \in Nat \ {0} /\ MaxParadas \in Nat
  /\ MaxQuedas \in Nat /\ MaxTrocas \in Nat

VARIABLES
  saldo,       \* DISPONIVEL of the wallet
  debitado,    \* [s -> the hold and the fee were posted]
  estornado,   \* [s -> saque:estorno:<s> was posted]
  tx,          \* [s -> transacoes.situacao]
  tent,        \* [s -> situacao of the last tentativa]
  comId,       \* [s -> the tentativa holds idTransacaoLiquidante]
  avisoOk,     \* [s -> PIX_CASHOUT_CONCLUIDO rows in the outbox]
  avisoFalha,  \* [s -> PIX_CASHOUT_FALHOU rows in the outbox]
  job,         \* [s -> state of job saque-<s>]
  feitas,      \* [s -> attemptsMade]
  paradas,     \* [s -> times the job stalled]
  dono,        \* [s -> worker that holds the job's lock]
  banco,       \* [s -> the order at the liquidante]
  envios,      \* [s -> orders the liquidante took or may still take]
  api, apiAlvo,      \* [p -> step of the request], [p -> withdrawal to enqueue]
  fase, alvo,        \* [w -> step of process()], [w -> its withdrawal]
  gFase, gAlvo,      \* [h -> step of the webhook handler], [h -> its withdrawal]
  gLida,             \* [h -> tx.situacao as read at the start]
  aviso,             \* withdrawals the sweep concluded and has not announced
  orfaos,            \* withdrawals the sweep read as nobody's
  regras,            \* what the checks of criarSaque and revalidar say
  quedas, trocas

dinheiro == <<saldo, debitado, estornado>>
avisos   == <<avisoOk, avisoFalha>>
fila     == <<job, feitas, paradas, dono>>
liquid   == <<banco, envios>>
pedido   == <<api, apiAlvo>>
worker   == <<fase, alvo>>
gancho   == <<gFase, gAlvo, gLida>>
varredura == <<aviso, orfaos>>
ambiente == <<regras, quedas, trocas>>
vars == <<saldo, debitado, estornado, tx, tent, comId, avisoOk, avisoFalha,
          job, feitas, paradas, dono, banco, envios, api, apiAlvo, fase, alvo,
          gFase, gAlvo, gLida, aviso, orfaos, regras, quedas, trocas>>

Situacoes == {"ausente", "PROCESSANDO", "CONCLUIDA", "FALHA"}
Enviaveis == {"PROCESSANDO"}          \* PENDENTE is never given to a withdrawal
FasesWorker == {"livre", "claim", "postar", "aceito", "antes", "ambiguo",
                "recusa", "seloRecusa", "bloqueio", "seloBloqueio"}
Ordens == {"nada", "recusado", "emVoo", "aceito", "pago", "falhou", "devolvido"}

Total(s) == Valor[s] + Tarifa[s]
Criados == {s \in Pedidos : tx[s] # "ausente"}
Ativa(s) == tent[s] \in {"ENVIANDO", "SUCESSO"}
DaReferencia(p) ==
  {s \in Criados : Ref[p] # SemReferencia /\ Ref[s] = Ref[p]}
(* Today's withdrawals but one: refused and refunded ones count too.       *)
UsadoHoje(exceto) == SumFunctionOnSet(Valor, Criados \ exceto)
-----------------------------------------------------------------------------
Init ==
  /\ saldo = SaldoInicial
  /\ debitado = [s \in Pedidos |-> FALSE]
  /\ estornado = [s \in Pedidos |-> FALSE]
  /\ tx = [s \in Pedidos |-> "ausente"]
  /\ tent = [s \in Pedidos |-> "nenhuma"]
  /\ comId = [s \in Pedidos |-> FALSE]
  /\ avisoOk = [s \in Pedidos |-> 0]
  /\ avisoFalha = [s \in Pedidos |-> 0]
  /\ job = [s \in Pedidos |-> "nenhum"]
  /\ feitas = [s \in Pedidos |-> 0]
  /\ paradas = [s \in Pedidos |-> 0]
  /\ dono = [s \in Pedidos |-> Ninguem]
  /\ banco = [s \in Pedidos |-> "nada"]
  /\ envios = [s \in Pedidos |-> 0]
  /\ api = [p \in Pedidos |-> "inicio"]
  /\ apiAlvo = [p \in Pedidos |-> p]
  /\ fase = [w \in Workers |-> "livre"]
  /\ alvo = [w \in Workers |-> CHOOSE s \in Pedidos : TRUE]
  /\ gFase = [h \in Ganchos |-> "livre"]
  /\ gAlvo = [h \in Ganchos |-> CHOOSE s \in Pedidos : TRUE]
  /\ gLida = [h \in Ganchos |-> "ausente"]
  /\ aviso = {} /\ orfaos = {}
  /\ regras = "ok"
  /\ quedas = 0
  /\ trocas = 0
-----------------------------------------------------------------------------
(* The request.                                                            *)

(* replayDoSaque: a repeated reference with the same data enqueues again a *)
(* withdrawal nobody is sending, and never debits; other data is a 409.    *)
Replay(p, s) ==
  /\ IF Valor[s] = Valor[p] /\ tx[s] = "PROCESSANDO" /\ ~Ativa(s)
     THEN /\ api' = [api EXCEPT ![p] = "enfileirar"]
          /\ apiAlvo' = [apiAlvo EXCEPT ![p] = s]
     ELSE /\ api' = [api EXCEPT ![p] = "fim"]
          /\ UNCHANGED apiAlvo
  /\ UNCHANGED <<saldo, debitado, tx>>

PreChecar(p) ==
  /\ api[p] = "inicio"
  /\ IF DaReferencia(p) # {}
     THEN \E s \in DaReferencia(p) : Replay(p, s)
     ELSE /\ api' = [api EXCEPT ![p] =
               IF regras = "ok" /\ UsadoHoje({}) + Valor[p] <= Limite
               THEN "validado" ELSE "fim"]
          /\ UNCHANGED <<apiAlvo, saldo, debitado, tx>>
  /\ UNCHANGED <<estornado, tent, comId, avisos, fila, liquid, worker, gancho,
                 varredura, ambiente>>

(* The row and its debits are one commit.  The partial unique index turns  *)
(* the loser of a race on the reference into a replay; a wallet that       *)
(* cannot pay undoes everything.                                           *)
RefLivre_semUnique(p) == TRUE  \* mutant: the race between two requests is open
RefLivre(p) == DaReferencia(p) = {}

Criar(p) ==
  /\ api[p] = "validado"
  /\ IF ~RefLivre(p)
     THEN \E s \in DaReferencia(p) : Replay(p, s)
     ELSE IF saldo < Total(p)
     THEN /\ api' = [api EXCEPT ![p] = "fim"]
          /\ UNCHANGED <<apiAlvo, saldo, debitado, tx>>
     ELSE /\ tx' = [tx EXCEPT ![p] = "PROCESSANDO"]
          /\ saldo' = saldo - Total(p)
          /\ debitado' = [debitado EXCEPT ![p] = TRUE]
          /\ api' = [api EXCEPT ![p] = "enfileirar"]
          /\ UNCHANGED apiAlvo
  /\ UNCHANGED <<estornado, tent, comId, avisos, fila, liquid, worker, gancho,
                 varredura, ambiente>>

(* addComJobIdEstavel: one job per withdrawal; a finished one is replaced. *)
PorNaFila(s) ==
  IF job[s] \in {"espera", "ativo"}
  THEN UNCHANGED fila
  ELSE /\ job' = [job EXCEPT ![s] = "espera"]
       /\ feitas' = [feitas EXCEPT ![s] = 0]
       /\ paradas' = [paradas EXCEPT ![s] = 0]
       /\ UNCHANGED dono

Enfileirar(p) ==
  /\ api[p] = "enfileirar"
  /\ PorNaFila(apiAlvo[p])
  /\ api' = [api EXCEPT ![p] = "fim"]
  /\ UNCHANGED <<dinheiro, tx, tent, comId, avisos, liquid, apiAlvo, worker,
                 gancho, varredura, ambiente>>

(* The process dies, or Redis is away, before the enqueue.                 *)
PerderEnfileirar(p) ==
  /\ api[p] = "enfileirar"
  /\ quedas < MaxQuedas
  /\ quedas' = quedas + 1
  /\ api' = [api EXCEPT ![p] = "fim"]
  /\ UNCHANGED <<dinheiro, tx, tent, comId, avisos, fila, liquid, apiAlvo,
                 worker, gancho, varredura, regras, trocas>>
-----------------------------------------------------------------------------
(* The worker.  A job ends only in the hands of the lock's holder.         *)
Segura(w, s) == job[s] = "ativo" /\ dono[s] = w

JobVai(w, s, j) ==
  IF Segura(w, s)
  THEN job' = [job EXCEPT ![s] = j] /\ dono' = [dono EXCEPT ![s] = Ninguem]
  ELSE UNCHANGED <<job, dono>>

JobTermina(w, s) == JobVai(w, s, "completo") /\ UNCHANGED <<feitas, paradas>>
JobFalha(w, s) == JobVai(w, s, "falho") /\ UNCHANGED <<feitas, paradas>>

Esgotado(s) == feitas[s] + 1 >= MaxTentativas

JobRetenta(w, s) ==
  /\ JobVai(w, s, IF Esgotado(s) THEN "falho" ELSE "espera")
  /\ feitas' = IF Segura(w, s) /\ ~Esgotado(s)
               THEN [feitas EXCEPT ![s] = @ + 1] ELSE feitas
  /\ UNCHANGED paradas

Vai(w, f) == fase' = [fase EXCEPT ![w] = f] /\ UNCHANGED alvo

(* Everything criarSaque checked is checked again; the withdrawal itself   *)
(* does not count against its own limit.                                   *)
Bloqueado_semLimite(s) == regras # "ok" \/ ~debitado[s]  \* mutant: limit only at creation
Bloqueado(s) ==
  \/ regras # "ok"
  \/ ~debitado[s]
  \/ UsadoHoje({s}) + Valor[s] > Limite

IniciarJob(w, s) ==
  /\ fase[w] = "livre" /\ job[s] = "espera"
  /\ UNCHANGED <<feitas, paradas>>
  /\ IF tx[s] \notin Enviaveis
     THEN /\ job' = [job EXCEPT ![s] = "completo"]
          /\ UNCHANGED <<dono, worker>>
     ELSE /\ job' = [job EXCEPT ![s] = "ativo"]
          /\ dono' = [dono EXCEPT ![s] = w]
          /\ fase' = [fase EXCEPT ![w] = IF Bloqueado(s) THEN "bloqueio" ELSE "claim"]
          /\ alvo' = [alvo EXCEPT ![w] = s]
  /\ UNCHANGED <<dinheiro, tx, tent, comId, avisos, liquid, pedido, gancho,
                 varredura, ambiente>>

(* FOR UPDATE plus the partial unique index: any tentativa that is not     *)
(* FALHA bars the order.  The situation of the withdrawal is not read again.*)
Barrado_soSucesso(s) == tent[s] = "SUCESSO"  \* mutant: an order in flight does not bar
Barrado(s) == Ativa(s)

Reivindicar(w) ==
  LET s == alvo[w] IN
  /\ fase[w] = "claim"
  /\ IF Barrado(s)
     THEN JobTermina(w, s) /\ Vai(w, "livre") /\ UNCHANGED tent
     ELSE /\ tent' = [tent EXCEPT ![s] = "ENVIANDO"]
          /\ Vai(w, "postar")
          /\ UNCHANGED fila
  /\ UNCHANGED <<dinheiro, tx, comId, avisos, liquid, pedido, gancho, varredura,
                 ambiente>>

(* createCashOut.  Nothing left (auth, payload); a 4xx refusal; an order   *)
(* taken; or no answer, and then the order may be at the liquidante or not.*)
Postar(w) ==
  LET s == alvo[w] IN
  /\ fase[w] = "postar"
  /\ \/ Vai(w, "antes") /\ UNCHANGED liquid
     \/ /\ Vai(w, "recusa")
        /\ banco' = [banco EXCEPT ![s] = "recusado"]
        /\ UNCHANGED envios
     \/ /\ Vai(w, "aceito")
        /\ banco' = [banco EXCEPT ![s] = "aceito"]
        /\ envios' = [envios EXCEPT ![s] = @ + 1]
     \/ /\ Vai(w, "ambiguo")
        /\ banco' = [banco EXCEPT ![s] = "emVoo"]
        /\ envios' = [envios EXCEPT ![s] = @ + 1]
  /\ UNCHANGED <<dinheiro, tx, tent, comId, avisos, fila, pedido, gancho,
                 varredura, ambiente>>

(* The order id is stored; a final situation is not brought back.          *)
Promovida_semGuarda(s) == [tx EXCEPT ![s] = "PROCESSANDO"]  \* mutant: no where situacao in
Promovida(s) == IF tx[s] \in Enviaveis THEN [tx EXCEPT ![s] = "PROCESSANDO"] ELSE tx

GuardarAceite(w) ==
  LET s == alvo[w] IN
  /\ fase[w] = "aceito"
  /\ tent' = [tent EXCEPT ![s] = "SUCESSO"]
  /\ comId' = [comId EXCEPT ![s] = TRUE]
  /\ tx' = Promovida(s)
  /\ JobTermina(w, s)
  /\ Vai(w, "livre")
  /\ UNCHANGED <<dinheiro, avisos, liquid, pedido, gancho, varredura, ambiente>>

(* The tentativa is deleted and the job retried; the last attempt refunds. *)
(* BullMQ counts an attempt after it ends: hence the + 1.                  *)
Ultima_semMaisUm(s) == feitas[s] >= MaxTentativas  \* mutant: without the + 1
Ultima(s) == feitas[s] + 1 >= MaxTentativas

DesfazerTentativa(w) ==
  LET s == alvo[w] IN
  /\ fase[w] = "antes"
  /\ tent' = [tent EXCEPT ![s] = "nenhuma"]
  /\ IF Ultima(s)
     THEN Vai(w, "bloqueio") /\ UNCHANGED fila
     ELSE Vai(w, "livre") /\ JobRetenta(w, s)
  /\ UNCHANGED <<dinheiro, tx, comId, avisos, liquid, pedido, gancho, varredura,
                 ambiente>>

(* No answer: frozen.  The tentativa stays ENVIANDO and the job is dead.   *)
Congelar_solta(s) == [tent EXCEPT ![s] = "FALHA"]  \* mutant: a timeout taken for a refusal
Congelar(s) == tent

CongelarAmbiguo(w) ==
  LET s == alvo[w] IN
  /\ fase[w] = "ambiguo"
  /\ tent' = Congelar(s)
  /\ JobFalha(w, s)
  /\ Vai(w, "livre")
  /\ UNCHANGED <<dinheiro, tx, comId, avisos, liquid, pedido, gancho, varredura,
                 ambiente>>

(* The refund's ledger keys make it count once.                            *)
Estornar_semChave(s) ==  \* mutant: a refund that is retried posts again
  /\ saldo' = saldo + Total(s)
  /\ estornado' = [estornado EXCEPT ![s] = TRUE]
  /\ UNCHANGED debitado
Estornar(s) ==
  /\ saldo' = IF estornado[s] THEN saldo ELSE saldo + Total(s)
  /\ estornado' = [estornado EXCEPT ![s] = TRUE]
  /\ UNCHANGED debitado

(* registrarRecusa, first commit: the refund, unless the outcome is sealed.*)
EstornarRecusa(w) ==
  LET s == alvo[w] IN
  /\ fase[w] = "recusa"
  /\ IF tx[s] \in Enviaveis
     THEN /\ Estornar(s)
          /\ Vai(w, "seloRecusa")
          /\ UNCHANGED <<tent, fila>>
     ELSE /\ tent' = IF tent[s] = "ENVIANDO" THEN [tent EXCEPT ![s] = "FALHA"] ELSE tent
          /\ JobTermina(w, s)
          /\ Vai(w, "livre")
          /\ UNCHANGED dinheiro
  /\ UNCHANGED <<tx, comId, avisos, liquid, pedido, gancho, varredura, ambiente>>

(* The outcome and its event: one commit, and only from a situation that   *)
(* is not final.                                                           *)
Aberta_semGuarda(s) == tx[s] # "ausente"  \* mutant: updateMany without the situation
Aberta(s) == tx[s] \in Enviaveis

SelarFalha(s) ==
  IF Aberta(s)
  THEN /\ tx' = [tx EXCEPT ![s] = "FALHA"]
       /\ avisoFalha' = [avisoFalha EXCEPT ![s] = @ + 1]
  ELSE UNCHANGED <<tx, avisoFalha>>

SelarRecusa(w) ==
  LET s == alvo[w] IN
  /\ fase[w] = "seloRecusa"
  /\ tent' = IF tent[s] = "ENVIANDO" THEN [tent EXCEPT ![s] = "FALHA"] ELSE tent
  /\ SelarFalha(s)
  /\ JobTermina(w, s)
  /\ Vai(w, "livre")
  /\ UNCHANGED <<dinheiro, comId, avisoOk, liquid, pedido, gancho, varredura, ambiente>>

(* encerrarPorBloqueio, first commit: refund only if the withdrawal is     *)
(* open, no order can be out and the debit is there.                       *)
OrdemFora_soSucesso(s) == tent[s] = "SUCESSO"  \* mutant: ENVIANDO is not an order out
OrdemFora(s) == Ativa(s)

Bloquear(w) ==
  LET s == alvo[w] IN
  /\ fase[w] = "bloqueio"
  /\ IF tx[s] \notin Enviaveis \/ OrdemFora(s)
     THEN JobTermina(w, s) /\ Vai(w, "livre") /\ UNCHANGED dinheiro
     ELSE /\ IF debitado[s] THEN Estornar(s) ELSE UNCHANGED dinheiro
          /\ Vai(w, "seloBloqueio")
          /\ UNCHANGED fila
  /\ UNCHANGED <<tx, tent, comId, avisos, liquid, pedido, gancho, varredura, ambiente>>

SelarBloqueio(w) ==
  LET s == alvo[w] IN
  /\ fase[w] = "seloBloqueio"
  /\ SelarFalha(s)
  /\ JobTermina(w, s)
  /\ Vai(w, "livre")
  /\ UNCHANGED <<dinheiro, tent, comId, avisoOk, liquid, pedido, gancho, varredura,
                 ambiente>>

(* The database or Redis fails under a step: process() throws.             *)
ErroInfra(w) ==
  /\ fase[w] # "livre" /\ quedas < MaxQuedas
  /\ quedas' = quedas + 1
  /\ JobRetenta(w, alvo[w])
  /\ Vai(w, "livre")
  /\ UNCHANGED <<dinheiro, tx, tent, comId, avisos, liquid, pedido, gancho,
                 varredura, regras, trocas>>

(* The process dies; its job stays locked until it is found stalled.       *)
CairWorker(w) ==
  /\ fase[w] # "livre" /\ quedas < MaxQuedas
  /\ quedas' = quedas + 1
  /\ Vai(w, "livre")
  /\ UNCHANGED <<dinheiro, tx, tent, comId, avisos, fila, liquid, pedido,
                 gancho, varredura, regras, trocas>>

(* BullMQ takes back a job whose lock expired.                             *)
NasMaos(s) ==
  \E w \in Workers : dono[s] = w /\ fase[w] # "livre" /\ alvo[w] = s

Estagnar(s) ==
  /\ job[s] = "ativo"
  /\ PerdeTrava \/ ~NasMaos(s)
  /\ job' = [job EXCEPT ![s] = IF paradas[s] < MaxParadas THEN "espera" ELSE "falho"]
  /\ paradas' = [paradas EXCEPT ![s] = IF paradas[s] < MaxParadas THEN @ + 1 ELSE @]
  /\ dono' = [dono EXCEPT ![s] = Ninguem]
  /\ UNCHANGED <<dinheiro, tx, tent, comId, avisos, feitas, liquid,
                 pedido, worker, gancho, varredura, ambiente>>

(* Bull Board: an operator retries a job that failed.                      *)
RetentarAMao(s) ==
  /\ job[s] = "falho"
  /\ job' = [job EXCEPT ![s] = "espera"]
  /\ UNCHANGED <<dinheiro, tx, tent, comId, avisos, feitas, paradas, dono,
                 liquid, pedido, worker, gancho, varredura, ambiente>>
-----------------------------------------------------------------------------
(* The liquidante: a late order arrives or is lost, an order is paid or    *)
(* fails, a payment comes back.                                            *)
Ordem(s, de, para) ==
  /\ banco[s] = de
  /\ banco' = [banco EXCEPT ![s] = para]
  /\ UNCHANGED <<dinheiro, tx, tent, comId, avisos, fila, pedido, worker,
                 gancho, varredura, ambiente>>

Chegar(s)   == Ordem(s, "emVoo", "aceito") /\ UNCHANGED envios
Perder(s)   == Ordem(s, "emVoo", "nada") /\ envios' = [envios EXCEPT ![s] = @ - 1]
Pagar(s)    == Ordem(s, "aceito", "pago") /\ UNCHANGED envios
Falhar(s)   == Ordem(s, "aceito", "falhou") /\ UNCHANGED envios
Devolver(s) == Ordem(s, "pago", "devolvido") /\ UNCHANGED envios
-----------------------------------------------------------------------------
(* The webhook.  Events come late, repeated and in any order, and one that *)
(* says PAID is only a claim: the order may have failed or not be paid yet.*)
(* An event that finds no tentativa fails and is delivered again.          *)
Entregavel(s) == banco[s] \in {"aceito", "pago", "falhou", "devolvido"}
Casa(s) == comId[s] \/ (EcoaReferencia /\ Ativa(s))

(* The settlement id is bound to the tentativa; only a paid event goes on, *)
(* with the situation read now.                                            *)
Receber(h, s, evento) ==
  /\ gFase[h] = "livre" /\ regras # "provedorInativo"
  /\ Entregavel(s) /\ Casa(s)
  /\ tent' = [tent EXCEPT ![s] = "SUCESSO"]
  /\ comId' = [comId EXCEPT ![s] = TRUE]
  /\ IF evento = "PAID"
     THEN /\ gFase' = [gFase EXCEPT ![h] = "confirmar"]
          /\ gAlvo' = [gAlvo EXCEPT ![h] = s]
          /\ gLida' = [gLida EXCEPT ![h] = tx[s]]
     ELSE UNCHANGED gancho
  /\ UNCHANGED <<dinheiro, tx, avisos, fila, liquid, pedido, worker,
                 varredura, ambiente>>

GVai(h, f) == gFase' = [gFase EXCEPT ![h] = f] /\ UNCHANGED <<gAlvo, gLida>>

(* Outcome FALHA, refund and event in one commit.                          *)
EncerrarComoFalha(s) ==
  IF Aberta(s)
  THEN Estornar(s) /\ SelarFalha(s)
  ELSE UNCHANGED <<dinheiro, tx, avisoFalha>>

(* Camada 1: the liquidante is asked.  It answers what it knows, or of an  *)
(* order it paid that it does not know the id, and then the event decides: *)
(* that an authenticated claim is false AND cannot be looked up is left    *)
(* out, as the code relies on it.                                          *)
Respostas_semConsulta(s) == {"pago"}  \* mutant: a claim is believed without asking
Respostas(s) ==
  IF banco[s] \in {"pago", "devolvido"} THEN {banco[s], "desconhecida"} ELSE {banco[s]}

Confirmar(h) ==
  LET s == gAlvo[h] IN
  /\ gFase[h] = "confirmar"
  /\ IF gLida[h] \notin Enviaveis
     THEN GVai(h, "livre") /\ UNCHANGED <<dinheiro, tx, avisoFalha>>
     ELSE \E resposta \in Respostas(s) :
       IF resposta \in {"falhou", "devolvido"}
       THEN EncerrarComoFalha(s) /\ GVai(h, "livre")
       ELSE /\ IF resposta \in {"pago", "desconhecida"} /\ Aberta(s)
               THEN /\ tx' = [tx EXCEPT ![s] = "CONCLUIDA"]
                    /\ GVai(h, "avisar")
               ELSE UNCHANGED tx /\ GVai(h, "livre")
            /\ UNCHANGED <<dinheiro, avisoFalha>>
  /\ UNCHANGED <<tent, comId, avisoOk, fila, liquid, pedido, worker,
                 varredura, ambiente>>

(* History and event come in a second commit.                              *)
Avisar(h) ==
  /\ gFase[h] = "avisar"
  /\ avisoOk' = [avisoOk EXCEPT ![gAlvo[h]] = @ + 1]
  /\ GVai(h, "livre")
  /\ UNCHANGED <<dinheiro, tx, tent, comId, avisoFalha, fila, liquid, pedido,
                 worker, varredura, ambiente>>

CairGancho(h) ==
  /\ gFase[h] # "livre" /\ quedas < MaxQuedas
  /\ quedas' = quedas + 1
  /\ GVai(h, "livre")
  /\ UNCHANGED <<dinheiro, tx, tent, comId, avisos, fila, liquid, pedido,
                 worker, varredura, regras, trocas>>
-----------------------------------------------------------------------------
(* The reconciliation sweep: one at a time.                                *)
Consultavel_semCongelado(s) ==  \* mutant: a frozen job is left to an operator
  tx[s] = "PROCESSANDO" /\ comId[s] /\ job[s] # "falho"
Consultavel(s) == tx[s] = "PROCESSANDO" /\ comId[s]

Conciliar(s) ==
  /\ aviso = {} /\ regras # "provedorInativo"
  /\ Consultavel(s)
  /\ \/ /\ banco[s] = "pago"
        /\ tx' = [tx EXCEPT ![s] = "CONCLUIDA"]
        /\ aviso' = {s}
        /\ UNCHANGED <<dinheiro, avisoFalha>>
     \/ /\ banco[s] \in {"falhou", "devolvido"}
        /\ EncerrarComoFalha(s)
        /\ UNCHANGED aviso
  /\ UNCHANGED <<tent, comId, avisoOk, fila, liquid, pedido, worker, gancho,
                 orfaos, ambiente>>

AvisarConciliada(s) ==
  /\ s \in aviso
  /\ avisoOk' = [avisoOk EXCEPT ![s] = @ + 1]
  /\ aviso' = {}
  /\ UNCHANGED <<dinheiro, tx, tent, comId, avisoFalha, fila, liquid, pedido,
                 worker, gancho, orfaos, ambiente>>

CairConciliacao ==
  /\ varredura # <<{}, {}>> /\ quedas < MaxQuedas
  /\ quedas' = quedas + 1
  /\ aviso' = {} /\ orfaos' = {}
  /\ UNCHANGED <<dinheiro, tx, tent, comId, avisos, fila, liquid, pedido,
                 worker, gancho, regras, trocas>>

(* Withdrawals with no order that may be out are read once and then        *)
(* enqueued one by one.                                                    *)
Orfao(s) == tx[s] = "PROCESSANDO" /\ ~Ativa(s)

LerOrfaos ==
  /\ orfaos = {}
  /\ \E s \in Pedidos : Orfao(s)
  /\ orfaos' = {s \in Pedidos : Orfao(s)}
  /\ UNCHANGED <<dinheiro, tx, tent, comId, avisos, fila, liquid, pedido,
                 worker, gancho, aviso, ambiente>>

ReenfileirarOrfao(s) ==
  /\ s \in orfaos
  /\ orfaos' = orfaos \ {s}
  /\ PorNaFila(s)
  /\ UNCHANGED <<dinheiro, tx, tent, comId, avisos, liquid, pedido, worker,
                 gancho, aviso, ambiente>>
-----------------------------------------------------------------------------
(* An administrator blocks the account, changes a rule, switches the       *)
(* liquidante off, or undoes it.                                           *)
MudarRegras(r) ==
  /\ trocas < MaxTrocas /\ r # regras
  /\ regras' = r
  /\ trocas' = trocas + 1
  /\ UNCHANGED <<dinheiro, tx, tent, comId, avisos, fila, liquid, pedido,
                 worker, gancho, varredura, quedas>>

Next ==
  \/ \E p \in Pedidos :
       PreChecar(p) \/ Criar(p) \/ Enfileirar(p) \/ PerderEnfileirar(p)
  \/ \E w \in Workers :
       \/ \E s \in Pedidos : IniciarJob(w, s)
       \/ Reivindicar(w) \/ Postar(w) \/ GuardarAceite(w)
       \/ DesfazerTentativa(w) \/ CongelarAmbiguo(w)
       \/ EstornarRecusa(w) \/ SelarRecusa(w)
       \/ Bloquear(w) \/ SelarBloqueio(w)
       \/ ErroInfra(w) \/ CairWorker(w)
  \/ \E s \in Pedidos : Estagnar(s) \/ RetentarAMao(s)
  \/ \E s \in Pedidos :
       Chegar(s) \/ Perder(s) \/ Pagar(s) \/ Falhar(s) \/ Devolver(s)
  \/ \E h \in Ganchos :
       \/ \E s \in Pedidos, e \in {"PAID", "outro"} : Receber(h, s, e)
       \/ Confirmar(h) \/ Avisar(h) \/ CairGancho(h)
  \/ \E s \in Pedidos :
       Conciliar(s) \/ AvisarConciliada(s) \/ ReenfileirarOrfao(s)
  \/ LerOrfaos \/ CairConciliacao
  \/ \E r \in {"ok", "bloqueado", "provedorInativo"} : MudarRegras(r)

Spec == Init /\ [][Next]_vars

(* Workers and handlers do not stop, BullMQ keeps handing out jobs and     *)
(* collecting stalled ones, the sweep is a repeatable job.  Nothing is     *)
(* assumed of requests, webhooks, operators or the liquidante's decisions. *)
ProcessarJob(w) ==
  \/ Reivindicar(w) \/ Postar(w) \/ GuardarAceite(w) \/ DesfazerTentativa(w)
  \/ CongelarAmbiguo(w) \/ EstornarRecusa(w) \/ SelarRecusa(w)
  \/ Bloquear(w) \/ SelarBloqueio(w)
Justica ==
  /\ \A w \in Workers : WF_vars(ProcessarJob(w))
  /\ \A s \in Pedidos :
       /\ WF_vars(\E w \in Workers : IniciarJob(w, s))
       /\ WF_vars(~NasMaos(s) /\ Estagnar(s))
       /\ WF_vars(ReenfileirarOrfao(s))
       /\ WF_vars(Conciliar(s))
       /\ WF_vars(AvisarConciliada(s))
  /\ WF_vars(LerOrfaos)
  /\ \A h \in Ganchos : WF_vars(Confirmar(h) \/ Avisar(h))
SpecJusta == Spec /\ Justica
-----------------------------------------------------------------------------
TypeDinheiro ==
  /\ saldo \in Int
  /\ debitado \in [Pedidos -> BOOLEAN] /\ estornado \in [Pedidos -> BOOLEAN]
TypeRegistro ==
  /\ tx \in [Pedidos -> Situacoes]
  /\ tent \in [Pedidos -> {"nenhuma", "ENVIANDO", "SUCESSO", "FALHA"}]
  /\ comId \in [Pedidos -> BOOLEAN]
  /\ avisoOk \in [Pedidos -> Nat] /\ avisoFalha \in [Pedidos -> Nat]
TypeFila ==
  /\ job \in [Pedidos -> {"nenhum", "espera", "ativo", "completo", "falho"}]
  /\ feitas \in [Pedidos -> 0..(MaxTentativas - 1)]
  /\ paradas \in [Pedidos -> 0..MaxParadas]
  /\ dono \in [Pedidos -> Workers \cup {Ninguem}]
  /\ \A s \in Pedidos : job[s] = "ativo" <=> dono[s] # Ninguem
TypeLiquid == banco \in [Pedidos -> Ordens] /\ envios \in [Pedidos -> Nat]
TypePedido ==
  /\ api \in [Pedidos -> {"inicio", "validado", "enfileirar", "fim"}]
  /\ apiAlvo \in [Pedidos -> Pedidos]
TypeWorker == fase \in [Workers -> FasesWorker] /\ alvo \in [Workers -> Pedidos]
TypeGancho ==
  /\ gFase \in [Ganchos -> {"livre", "confirmar", "avisar"}]
  /\ gAlvo \in [Ganchos -> Pedidos] /\ gLida \in [Ganchos -> Situacoes]
TypeResto ==
  /\ aviso \subseteq Pedidos /\ orfaos \subseteq Pedidos
  /\ regras \in {"ok", "bloqueado", "provedorInativo"}
  /\ quedas \in 0..MaxQuedas /\ trocas \in 0..MaxTrocas
TypeOK ==
  /\ TypeDinheiro /\ TypeRegistro /\ TypeFila /\ TypeLiquid
  /\ TypePedido /\ TypeWorker /\ TypeGancho /\ TypeResto

(* One PIX per withdrawal, whatever jobs are repeated, stall, are taken by  *)
(* two workers or are put back on the queue (claim of enviar).              *)
EnvioUnico == \A s \in Pedidos : envios[s] <= 1

(* One withdrawal per referenciaExterna, however many equal requests run at *)
(* once (unique index on the reference, replayDoSaque).                     *)
UmSaquePorReferencia ==
  \A s, t \in Criados : Ref[s] = Ref[t] /\ Ref[s] # SemReferencia => s = t

(* Money goes back to the merchant only when the order cannot be paid any   *)
(* more (encerrarPorBloqueio, registrarRecusa, encerrarComoFalha, sweep).   *)
SemOrdemViva(s) == banco[s] \in {"nada", "recusado", "falhou", "devolvido"}
EstornoSoSemOrdemViva ==
  [][\A s \in Pedidos : estornado'[s] /\ ~estornado[s] => SemOrdemViva(s)]_vars

(* CONCLUIDA means paid, FALHA means the money is back.                     *)
ConcluidaSoPaga ==
  \A s \in Pedidos : tx[s] = "CONCLUIDA" => banco[s] \in {"pago", "devolvido"}
FalhaDevolve == \A s \in Pedidos : tx[s] = "FALHA" => estornado[s]

(* A sealed outcome never changes, whichever of worker, webhook and sweep   *)
(* comes last.                                                              *)
Finais == {"CONCLUIDA", "FALHA"}
FinalNaoRegride ==
  [][\A s \in Pedidos : tx[s] \in Finais => tx'[s] = tx[s]]_vars

(* The merchant hears one outcome, the right one, and once.                 *)
UmDesfechoAvisado ==
  \A s \in Pedidos :
    /\ avisoOk[s] + avisoFalha[s] <= 1
    /\ avisoOk[s] > 0 => tx[s] = "CONCLUIDA"
    /\ avisoFalha[s] > 0 => tx[s] = "FALHA"

(* What is sent today stays within limiteDiarioPixSaida, although requests  *)
(* check it before anything is written.                                     *)
LimiteRespeitado ==
  SumFunctionOnSet(Valor, {s \in Pedidos : envios[s] > 0}) <= Limite

(* A payment that stands is one the merchant was charged for: "Sem as       *)
(* movimentacoes, enviar seria pagar sem ter cobrado".                      *)
PagoECobrado ==
  \A s \in Pedidos :
    banco[s] \in {"emVoo", "aceito", "pago"} => debitado[s] /\ ~estornado[s]

(* A withdrawal is not forgotten nor retried for ever: it comes to rest in  *)
(* an outcome or with a live tentativa, although the enqueue may be lost,   *)
(* workers die and jobs stall (sweep of orphans, last attempt).  A worker   *)
(* that dies between claim and POST leaves a live tentativa without an      *)
(* order: it counts as at rest, since only an operator takes it from there. *)
NaoFicaEsquecido ==
  \A s \in Pedidos :
    tx[s] = "PROCESSANDO" ~> [](tx[s] \in Finais \/ Ativa(s))

(* A paid order whose id is known ends in an outcome although every webhook *)
(* may be lost, workers die, enqueues are lost and the liquidante is        *)
(* switched off, if it is not left off for good (sweep).  Its callback      *)
(* follows too, unless a crash came after the withdrawal was last           *)
(* PROCESSANDO and took the announcement with it: the gap between           *)
(* CONCLUIDA and its event.                                                 *)
NasMaosDeQuemAvisa(s) ==
  s \in aviso \/ \E h \in Ganchos : gFase[h] = "avisar" /\ gAlvo[h] = s
PagoConclui ==
  \A s \in Pedidos, q \in 0..MaxQuedas :
    <>[](regras # "provedorInativo") =>
      ((banco[s] = "pago" /\ comId[s] /\ tx[s] = "PROCESSANDO" /\ quedas = q)
        ~> /\ tx[s] \in Finais
           /\ \/ avisoOk[s] + avisoFalha[s] = 1
              \/ quedas > q /\ ~NasMaosDeQuemAvisa(s))
-----------------------------------------------------------------------------
(* What makes the safety properties inductive.  An order that may be out    *)
(* always has a live tentativa, a live tentativa keeps every other worker   *)
(* out, and the step a worker is in says what the liquidante was told.      *)
Mao == {"postar", "aceito", "antes", "ambiguo", "recusa", "seloRecusa"}
SemOrdem == {"nada", "recusado"}

Cobrado == \A s \in Pedidos : tx[s] # "ausente" => debitado[s]
PedidoNovo ==
  \A p \in Pedidos : api[p] \in {"inicio", "validado"} => tx[p] = "ausente"
OrdemTemTentativa == \A s \in Pedidos : banco[s] \notin SemOrdem => Ativa(s)
EnviosContados ==
  \A s \in Pedidos : envios[s] = IF banco[s] \in SemOrdem THEN 0 ELSE 1
UmaMao ==
  /\ \A w \in Workers : fase[w] \in Mao => Ativa(alvo[w])
  /\ \A v, w \in Workers :
       fase[v] \in Mao /\ fase[w] \in Mao /\ alvo[v] = alvo[w] => v = w
FaseSabe ==
  \A w \in Workers :
    /\ fase[w] \in {"postar", "antes"} => banco[alvo[w]] \in SemOrdem
    /\ fase[w] \in {"recusa", "seloRecusa"} => banco[alvo[w]] = "recusado"
    /\ fase[w] \in {"seloRecusa", "seloBloqueio"} => estornado[alvo[w]]

Nucleo ==
  /\ Cobrado /\ PedidoNovo
  /\ OrdemTemTentativa /\ EnviosContados
  /\ UmaMao /\ FaseSabe
  /\ ConcluidaSoPaga /\ FalhaDevolve
  /\ UmSaquePorReferencia
SaqueInv == TypeOK /\ Nucleo

(* What makes UmDesfechoAvisado inductive: an outcome is announced with it   *)
(* or owes its announcement to exactly one webhook handler or to the sweep. *)
AvisosContados ==
  \A s \in Pedidos :
    /\ tx[s] \notin Finais => avisoOk[s] = 0 /\ avisoFalha[s] = 0
    /\ tx[s] = "FALHA" => avisoOk[s] = 0 /\ avisoFalha[s] <= 1
    /\ tx[s] = "CONCLUIDA" => avisoOk[s] <= 1 /\ avisoFalha[s] = 0
AvisoDevido(s) == tx[s] = "CONCLUIDA" /\ avisoOk[s] = 0
AvisosDevidos ==
  /\ \A s \in aviso : AvisoDevido(s)
  /\ \A h \in Ganchos :
       gFase[h] = "avisar" => AvisoDevido(gAlvo[h]) /\ gAlvo[h] \notin aviso
  /\ \A g, h \in Ganchos :
       gFase[g] = "avisar" /\ gFase[h] = "avisar" /\ gAlvo[g] = gAlvo[h] => g = h
AvisoInv == AvisosContados /\ AvisosDevidos

(* What makes LimiteRespeitado inductive: what a worker let past the limit   *)
(* counts as sent, until it turns out that it was not.                      *)
Passou ==
  {s \in Pedidos : \/ envios[s] > 0
                   \/ \E w \in Workers : alvo[w] = s /\ fase[w] \in Mao \cup {"claim"}}
LimiteInv ==
  Passou \subseteq Criados /\ SumFunctionOnSet(Valor, Passou) <= Limite

(* What makes PagoECobrado inductive where no process dies and no lock       *)
(* expires: a worker keeps its job to the end, so that a refund that is not *)
(* sealed yet is in the hands of the worker that is about to seal it.       *)
SelaEstorno == {"seloRecusa", "seloBloqueio"}
JobNasMaos == \A w \in Workers : fase[w] # "livre" => Segura(w, alvo[w])
TemLinha ==
  /\ \A s \in Pedidos : banco[s] \notin SemOrdem \/ estornado[s] => tx[s] # "ausente"
  /\ \A w \in Workers : fase[w] # "livre" => tx[alvo[w]] # "ausente"
EstornoSelado ==
  \A s \in Pedidos :
    estornado[s] /\ tx[s] = "PROCESSANDO" =>
      \E w \in Workers : alvo[w] = s /\ fase[w] \in SelaEstorno
AntesDaOrdem ==
  \A w \in Workers :
    /\ fase[w] = "claim" => ~estornado[alvo[w]] \/ Ativa(alvo[w])
    /\ fase[w] \in {"postar", "antes"} => ~estornado[alvo[w]]
CobrancaInv ==
  JobNasMaos /\ TemLinha /\ EstornoSelado /\ AntesDaOrdem /\ PagoECobrado
=============================================================================
