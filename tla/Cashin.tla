------------------------------- MODULE Cashin -------------------------------
(***************************************************************************)
(* A sale that was paid at the liquidante: the postback and its job (queue *)
(* 1), the retention method, CashInCreditoService, the reconciliation, the *)
(* release of a retained sale by an administrator, and the ticks that move *)
(* what is due to DISPONIVEL.  All of them run at once, and each await is  *)
(* a step.                                                                 *)
(***************************************************************************)
EXTENDS Bloqueio

CONSTANTS
  Vendas,        \* sales of one merchant
  Bruto,         \* [Vendas -> valorBruto]
  Principal,     \* [Vendas -> valorLiquidacaoEmpresa - valorReserva]
  Reserva,       \* [Vendas -> valorReserva]
  Avisos,        \* postbacks: one row of webhooks_recebidos per id and status
  VendaDo,       \* [Avisos -> the sale it is about]
  Pagos,         \* the postbacks whose status says paid
  Fantasmas,     \* sales left FALHA by a creation that timed out
  LimiteMetodo,  \* retention ceiling, in percent of the day's revenue
  Isentas,       \* sales exempt from it: text, least value, client at zero
  MinimoDia,     \* faturamento_minimo_dia
  Offsets,       \* values sortearOffset may draw
  MaxTentativas, \* LiberacaoSaldoProcessor.MAXIMO_TENTATIVAS
  Orcamentos     \* what the environment may do in one behaviour (bounds), and
                 \* the offset an earlier draw left

Tipos == {"PRINCIPAL", "RESERVA"}
Liberacoes == Vendas \X Tipos
OrigensDeCredito ==
  {<<"cashin", v>> : v \in Vendas} \cup {<<"lib", l>> : l \in Liberacoes}
    \cup {<<"criacao", b>> : b \in Bloqueios}

ASSUME CashinAssumption ==
  /\ IsFiniteSet(Vendas)
  /\ Bruto \in [Vendas -> Nat \ {0}]
  /\ Principal \in [Vendas -> Nat \ {0}] /\ Reserva \in [Vendas -> Nat]
  /\ VendaDo \in [Avisos -> Vendas] /\ Pagos \subseteq Avisos
  /\ Fantasmas \subseteq Vendas /\ Isentas \subseteq Vendas
  /\ LimiteMetodo \in Nat /\ MinimoDia \in Nat
  /\ Offsets \subseteq Nat
  /\ MaxTentativas \in Nat \ {0}
  /\ OrigensDeCredito \subseteq Origens

VARIABLES
  venda,         \* [Vendas -> [sit, retida]]
  creditos,      \* ledger keys cashin:pendente / disp / reserva
  pagoAvisado,   \* [Vendas -> PIX_CASHIN_PAGO rows in the outbox]
  pend,          \* PENDENTE_LIBERACAO
  reservado,     \* RESERVADO
  lib,           \* [Liberacoes -> row of liberacoes_saldo]
  soltas,        \* releases whose lib:deb / lib:cred are posted
  aviso,         \* [Avisos -> [linha, job]]
  metodo,        \* the retention singleton
  dias,          \* configuracoes_pix: diasLiberacaoSaldo
  fase,          \* [Sessoes -> where the session is in this module]
  orc            \* what the environment may still do (bounds)

entrada == <<venda, creditos, pagoAvisado, pend, reservado, lib, soltas,
             aviso, metodo, dias>>
cashinVars == <<disp, manual, holds, entrada, fase, orc>>

Livre == [pc |-> "livre"]
Solta(s) == fase[s] = Livre /\ cap[s] = Parada
Vai(s, f) == fase' = [fase EXCEPT ![s] = f]
Vai2(s, c, pc) == Vai(s, [c EXCEPT !.pc = pc])

(* A job that ended: done, to be run again, or given up.                    *)
FimDoJob(s, c, linha, job) ==
  IF "w" \in DOMAIN c
  THEN aviso' = [aviso EXCEPT ![c.w] =
         [linha |-> IF linha = "igual" THEN @.linha ELSE linha, job |-> job]]
  ELSE UNCHANGED aviso

Concluida(v) == venda[v].sit = "CONCLUIDA"
-----------------------------------------------------------------------------
CashinInit ==
  /\ BloqueioInit
  /\ orc \in Orcamentos
  /\ disp = 0 /\ pend = 0 /\ reservado = 0
  /\ venda = [v \in Vendas |->
       [sit |-> IF v \in Fantasmas THEN "FALHA" ELSE "AGUARDANDO", retida |-> FALSE]]
  /\ creditos = {} /\ soltas = {}
  /\ pagoAvisado = [v \in Vendas |-> 0]
  /\ lib = [l \in Liberacoes |-> [sit |-> "nenhuma", tent |-> 0]]
  /\ aviso = [w \in Avisos |-> [linha |-> "nenhuma", job |-> "nenhum"]]
  /\ metodo = [fat |-> 0, retido |-> 0, offset |-> orc.offset]
  /\ dias \in {0, 1}
  /\ fase = [s \in Sessoes |-> Livre]

(* ValorionWebhookController.handle: a new postback is recorded and its job *)
(* enqueued, or the enqueue fails and the liquidante is told 500; one that  *)
(* is not PROCESSADO is enqueued again unless its job is still there.       *)
Postback(w) ==
  /\ orc.postbacks > 0
  /\ aviso[w].linha # "PROCESSADO"
  /\ \E ok \in BOOLEAN :
       aviso' = [aviso EXCEPT ![w] =
         [linha |-> "RECEBIDO",
          job |-> IF ok /\ @.job \notin {"espera", "ativo"} THEN "espera"
                  ELSE @.job]]
  /\ orc' = [orc EXCEPT !.postbacks = @ - 1]
  /\ UNCHANGED <<disp, manual, holds, venda, creditos, pagoAvisado, pend,
                 reservado, lib, soltas, metodo, dias, fase>>

(* process: the sale is read.  One already credited or retained, or a       *)
(* status that is not a payment, only closes the row.                       *)
IniciarAviso(s, w) ==
  /\ Solta(s) /\ aviso[w].job = "espera"
  /\ LET v == VendaDo[w] IN
     IF Concluida(v) \/ venda[v].retida \/ w \notin Pagos
     THEN /\ aviso' = [aviso EXCEPT ![w] = [linha |-> "PROCESSADO", job |-> "feito"]]
          /\ UNCHANGED fase
     ELSE /\ aviso' = [aviso EXCEPT ![w].job = "ativo"]
          /\ Vai(s, [pc |-> "decidir", v |-> v, w |-> w])
  /\ UNCHANGED <<disp, manual, holds, venda, creditos, pagoAvisado, pend,
                 reservado, lib, soltas, metodo, dias, orc>>

(* RetencaoMetodoService.decidir under the lock of the singleton: a new day *)
(* starts from zero; exempt sales, a running offset, the ceiling reached,   *)
(* the ceiling that this sale would break (retained) or not.  Every branch  *)
(* counts the revenue.                                                      *)
Bateu_semTeto(m) == FALSE  \* mutant: the ceiling already reached is not looked at
Bateu(m) == IF m.fat > 0 THEN m.retido * 100 >= LimiteMetodo * m.fat
            ELSE LimiteMetodo = 0
Estoura(m, v) == (m.retido + Bruto[v]) * 100 > LimiteMetodo * (m.fat + Bruto[v])
NovoDia(m) == [m EXCEPT !.fat = 0, !.retido = 0]
Decisoes(m0, v) ==
  LET m == [m0 EXCEPT !.fat = @ + Bruto[v]]
      Solta1(n) == [reter |-> FALSE, m |-> n]
  IN
  IF v \in Isentas \/ m.fat < MinimoDia THEN {Solta1(m)}
  ELSE IF m0.offset > 0 THEN {Solta1([m EXCEPT !.offset = @ - 1])}
  ELSE IF Bateu(m0) THEN {Solta1([m EXCEPT !.offset = o]) : o \in Offsets}
  ELSE IF Estoura(m0, v)
       THEN {[reter |-> TRUE,
              m |-> [m EXCEPT !.retido = @ + Bruto[v], !.offset = o]] : o \in Offsets}
  ELSE {Solta1(m)}

(* The liquidante confirms (getStatus, compatible value), then the method   *)
(* decides.                                                                 *)
Decidir(s) ==
  /\ fase[s].pc = "decidir"
  /\ \E m0 \in {metodo} \cup (IF orc.viradas > 0 THEN {NovoDia(metodo)} ELSE {}) :
       /\ orc' = IF m0 = metodo THEN orc ELSE [orc EXCEPT !.viradas = @ - 1]
       /\ \E d \in Decisoes(m0, fase[s].v) :
            /\ metodo' = d.m
            /\ Vai2(s, fase[s], IF d.reter THEN "reter" ELSE "creditar")
  /\ UNCHANGED <<disp, manual, holds, venda, creditos, pagoAvisado, pend,
                 reservado, lib, soltas, aviso, dias>>

(* marcarRetida: the read, a repeated call, and the refusal once credited.  *)
LerParaReter(s) ==
  /\ fase[s].pc = "reter"
  /\ LET c == fase[s] IN
     IF venda[c.v].retida
     THEN FimDoJob(s, c, "igual", "feito") /\ Vai(s, Livre)
     ELSE IF Concluida(c.v)
     THEN FimDoJob(s, c, "igual", "espera") /\ Vai(s, Livre)
     ELSE Vai2(s, c, "gravarRetida") /\ UNCHANGED aviso
  /\ UNCHANGED <<disp, manual, holds, venda, creditos, pagoAvisado, pend,
                 reservado, lib, soltas, metodo, dias, orc>>

(* Its commit looks at nothing again.                                       *)
GravarRetida(s) ==
  /\ fase[s].pc = "gravarRetida"
  /\ venda' = [venda EXCEPT ![fase[s].v].retida = TRUE]
  /\ FimDoJob(s, fase[s], "PROCESSADO", "feito")
  /\ Vai(s, Livre)
  /\ UNCHANGED <<disp, manual, holds, creditos, pagoAvisado, pend, reservado,
                 lib, soltas, metodo, dias, orc>>

(* creditar reads the sale and the release days in force.                   *)
LerParaCreditar(s) ==
  /\ fase[s].pc = "creditar"
  /\ LET c == fase[s] IN
     IF Concluida(c.v)
     THEN FimDoJob(s, c, "igual", "feito") /\ Vai(s, Livre)
     ELSE /\ Vai(s, [p \in DOMAIN c \cup {"dias"} |->
                       IF p = "pc" THEN "gravarCredito"
                       ELSE IF p = "dias" THEN dias ELSE c[p]])
          /\ UNCHANGED aviso
  /\ UNCHANGED <<disp, manual, holds, venda, creditos, pagoAvisado, pend,
                 reservado, lib, soltas, metodo, dias, orc>>

(* One commit under the lock of the sale: refused as a repetition once      *)
(* CONCLUIDA; else movements by key, event if anything was new, CONCLUIDA,  *)
(* the postback's row, and the rows of what has to be released.             *)
JaCreditada_semReler(v) == FALSE  \* mutant: the situation is not read again
JaCreditada(v) == Concluida(v)
Entradas(v, d) ==
  {<<IF d > 0 THEN "pendente" ELSE "disp", v>>}
    \cup (IF Reserva[v] > 0 THEN {<<"reserva", v>>} ELSE {})
Agendadas_semReserva(v, d) ==  \* mutant: the reserve gets no release
  IF d > 0 THEN {<<v, "PRINCIPAL">>} ELSE {}
Agendadas(v, d) ==
  (IF d > 0 THEN {<<v, "PRINCIPAL">>} ELSE {})
    \cup (IF Reserva[v] > 0 THEN {<<v, "RESERVA">>} ELSE {})
ValorLib(l) == IF l[2] = "PRINCIPAL" THEN Principal[l[1]] ELSE Reserva[l[1]]

GravarCredito(s) ==
  /\ fase[s].pc = "gravarCredito"
  /\ LET c == fase[s]
         v == c.v
         novas == Entradas(v, c.dias) \ creditos
         Nova(k, x) == IF <<k, v>> \in novas THEN x ELSE 0
     IN IF JaCreditada(v)
        THEN /\ FimDoJob(s, c, "igual", "feito")
             /\ Vai(s, Livre)
             /\ UNCHANGED <<disp, venda, creditos, pagoAvisado, pend,
                            reservado, lib>>
        ELSE /\ creditos' = creditos \cup novas
             /\ pend' = pend + Nova("pendente", Principal[v])
             /\ disp' = disp + Nova("disp", Principal[v])
             /\ reservado' = reservado + Nova("reserva", Reserva[v])
             /\ pagoAvisado' = [pagoAvisado EXCEPT ![v] =
                  IF novas # {} THEN @ + 1 ELSE @]
             /\ venda' = [venda EXCEPT ![v].sit = "CONCLUIDA"]
             /\ lib' = [l \in Liberacoes |->
                  IF l \in Agendadas(v, c.dias) /\ lib[l].sit = "nenhuma"
                  THEN [sit |-> "AGENDADA", tent |-> 0] ELSE lib[l]]
             /\ FimDoJob(s, c, "PROCESSADO", "ativo")
             /\ Vai2(s, c, IF c.dias = 0 THEN "capturar" ELSE "avaliar")
  /\ UNCHANGED <<manual, holds, soltas, metodo, dias, orc>>

(* Money that reached DISPONIVEL is offered to the manual holds; a failure  *)
(* of the capture is swallowed.                                             *)
IniciarCaptura(s, de, para, origem) ==
  /\ fase[s].pc = de
  /\ ParaCapturar(s, origem)
  /\ Vai2(s, fase[s], para)
  /\ UNCHANGED <<disp, manual, bloq, capturas, desfechos, entrada, orc>>
CapturarCredito(s) ==
  /\ fase[s].pc = "capturar"
  /\ IniciarCaptura(s, "capturar", "avaliar", <<"cashin", fase[s].v>>)

(* ConciliacaoProcessor, cash-in half: the row as read must be creditable   *)
(* and not retained; then the liquidante confirms and creditar is called.   *)
ConciliarEntrada(s, v) ==
  /\ Solta(s) /\ orc.varreduras > 0
  /\ venda[v].sit \in {"AGUARDANDO", "FALHA"} /\ ~venda[v].retida
  /\ Vai(s, [pc |-> "creditar", v |-> v])
  /\ orc' = [orc EXCEPT !.varreduras = @ - 1]
  /\ UNCHANGED <<disp, manual, holds, entrada>>

(* An administrator releases a retained sale.                               *)
LiberarRetida(s, v) ==
  /\ Solta(s) /\ orc.admin > 0
  /\ venda[v].retida /\ venda[v].sit = "AGUARDANDO"
  /\ Vai(s, [pc |-> "creditar", v |-> v])
  /\ orc' = [orc EXCEPT !.admin = @ - 1]
  /\ UNCHANGED <<disp, manual, holds, entrada>>

MudarDias ==
  /\ orc.trocas > 0
  /\ dias' = 1 - dias
  /\ orc' = [orc EXCEPT !.trocas = @ - 1]
  /\ UNCHANGED <<disp, manual, holds, venda, creditos, pagoAvisado, pend,
                 reservado, lib, soltas, aviso, metodo, fase>>

(* LiberacaoSaldoProcessor: a due row is claimed.  FALHA and PROCESSANDO    *)
(* come back while attempts are left; ten minutes without an update are     *)
(* taken to mean that no session works on the row.                          *)
Devida_soAgendada(l) == lib[l].sit = "AGENDADA"  \* mutant: FALHA is final
Devida(l) ==
  \/ lib[l].sit = "AGENDADA"
  \/ /\ lib[l].sit \in {"FALHA", "PROCESSANDO"}
     /\ lib[l].tent < MaxTentativas
     /\ \A s \in Sessoes : "l" \in DOMAIN fase[s] => fase[s].l # l
Reivindicar(s, l) ==
  /\ Solta(s) /\ Devida(l)
  /\ lib' = [lib EXCEPT ![l] = [sit |-> "PROCESSANDO", tent |-> @.tent + 1]]
  /\ Vai(s, [pc |-> "liberar", l |-> l])
  /\ UNCHANGED <<disp, manual, holds, venda, creditos, pagoAvisado, pend,
                 reservado, soltas, aviso, metodo, dias, orc>>

(* The ledger moves the value between the balances, once per row.           *)
MoverLiberacao(s) ==
  /\ fase[s].pc = "liberar"
  /\ LET l == fase[s].l
         x == IF l \in soltas THEN 0 ELSE ValorLib(l)
         de == IF l[2] = "RESERVA" THEN reservado ELSE pend
     IN IF de < x
        THEN /\ Vai2(s, fase[s], "falhar")
             /\ UNCHANGED <<disp, pend, reservado, soltas>>
        ELSE /\ soltas' = soltas \cup {l}
             /\ disp' = disp + x
             /\ pend' = IF l[2] = "RESERVA" THEN pend ELSE pend - x
             /\ reservado' = IF l[2] = "RESERVA" THEN reservado - x ELSE reservado
             /\ Vai2(s, fase[s], "liberada")
  /\ UNCHANGED <<manual, holds, venda, creditos, pagoAvisado, lib, aviso,
                 metodo, dias, orc>>

(* LIBERADA in another commit, then the capture by manual holds; the catch  *)
(* writes FALHA.                                                            *)
GravarLiberada(s) ==
  /\ fase[s].pc = "liberada"
  /\ lib' = [lib EXCEPT ![fase[s].l].sit = "LIBERADA"]
  /\ ParaCapturar(s, <<"lib", fase[s].l>>)
  /\ Vai(s, Livre)
  /\ UNCHANGED <<disp, manual, bloq, capturas, desfechos, venda, creditos,
                 pagoAvisado, pend, reservado, soltas, aviso, metodo, dias, orc>>
GravarFalha(s) ==
  /\ \/ fase[s].pc = "falhar" /\ UNCHANGED orc
     \/ /\ fase[s].pc \in {"liberar", "liberada"} /\ orc.quedas > 0
        /\ orc' = [orc EXCEPT !.quedas = @ - 1]
  /\ lib' = [lib EXCEPT ![fase[s].l].sit = "FALHA"]
  /\ Vai(s, Livre)
  /\ UNCHANGED <<disp, manual, holds, venda, creditos, pagoAvisado, pend,
                 reservado, soltas, aviso, metodo, dias>>

(* A session dies, or its next statement fails: a job waits to be run again *)
(* or has no attempt left, anything else is gone.                           *)
Interromper(s) ==
  /\ ~Solta(s) /\ orc.quedas > 0
  /\ orc' = [orc EXCEPT !.quedas = @ - 1]
  /\ \E job \in {"espera", "falhou"} : FimDoJob(s, fase[s], "igual", job)
  /\ Vai(s, Livre)
  /\ cap' = [cap EXCEPT ![s] = Parada]
  /\ UNCHANGED <<disp, manual, bloq, capturas, desfechos, venda, creditos,
                 pagoAvisado, pend, reservado, lib, soltas, metodo, dias>>

(* Requests of administrators about manual holds, and a withdrawal.         *)
PedidoDeBloqueio(s) ==
  /\ Solta(s) /\ orc.bloqueios > 0
  /\ orc' = [orc EXCEPT !.bloqueios = @ - 1]
  /\ \E b \in Bloqueios :
       \/ Criar(s, b, <<"criacao", b>>)
       \/ \E t \in {"LIBERADO", "DEBITADO"} : BuscarAtivo(s, b, t)
  /\ UNCHANGED <<entrada, fase>>
Sacar ==
  /\ orc.saques > 0 /\ disp > 0
  /\ disp' = disp - 1
  /\ orc' = [orc EXCEPT !.saques = @ - 1]
  /\ UNCHANGED <<manual, holds, entrada, fase>>
SeguirBloqueio(s) == PassoBloqueio(s) /\ UNCHANGED <<entrada, fase, orc>>
-----------------------------------------------------------------------------
(* The money of a sale enters the wallet once, whatever calls creditar and  *)
(* whatever the release days became in between, with one event to the       *)
(* merchant, and the sale is CONCLUIDA exactly when it did (creditar's      *)
(* single commit; before it a crash left money under AGUARDANDO).           *)
CreditoUnico ==
  \A v \in Vendas :
    LET c == {k \in {"pendente", "disp"} : <<k, v>> \in creditos} IN
    /\ Cardinality(c) = pagoAvisado[v]
    /\ pagoAvisado[v] = (IF Concluida(v) THEN 1 ELSE 0)

(* What waits in PENDENTE_LIBERACAO and RESERVADO is what the rows still to *)
(* be released will move: no money is parked that no tick will ever reach,  *)
(* and no row asks for money that is not there.                             *)
AMover(t) ==
  {l \in Liberacoes : l[2] = t /\ lib[l].sit # "nenhuma" /\ l \notin soltas}
ParadoTemLiberacao ==
  \A t \in Tipos :
    SumFunctionOnSet([l \in Liberacoes |-> ValorLib(l)], AMover(t))
      = (IF t = "PRINCIPAL" THEN pend ELSE reservado)

(* The method keeps at most the ceiling, give or take the one sale that     *)
(* broke it, although jobs decide at once and are run again.                *)
RetencaoNoLimite ==
  metodo.retido > 0 =>
    \E v \in Vendas :
      (metodo.retido - Bruto[v]) * 100 <= LimiteMetodo * metodo.fat

(* Every scheduled release is made in the end, unless it used up its        *)
(* attempts: FALHA and PROCESSANDO are collected again (they used to freeze *)
(* the money for ever, says the processor's comment).                       *)
LiberacaoAcontece ==
  []<>(\A l \in Liberacoes :
         lib[l].sit \in {"nenhuma", "LIBERADA"} \/ lib[l].tent = MaxTentativas)

CashinTypeOK ==
  /\ venda \in [Vendas -> [sit : {"AGUARDANDO", "FALHA", "CONCLUIDA"}, retida : BOOLEAN]]
  /\ creditos \subseteq {"pendente", "disp", "reserva"} \X Vendas
  /\ pagoAvisado \in [Vendas -> Nat]
  /\ pend \in Nat /\ reservado \in Nat
  /\ lib \in [Liberacoes -> [sit : {"nenhuma", "AGENDADA", "PROCESSANDO", "FALHA",
                                    "LIBERADA"}, tent : 0..MaxTentativas]]
  /\ soltas \subseteq Liberacoes

(* Where a session is, and what it then knows.                              *)
ComVenda == {"decidir", "reter", "gravarRetida", "creditar", "gravarCredito",
             "capturar", "avaliar", "abrirCaso", "debitarMed", "gravarMed",
             "gravarEstado"}
ComLiberacao == {"liberar", "liberada", "falhar"}
FaseOK(f) ==
  /\ "pc" \in DOMAIN f
  /\ f.pc \in {"livre"} \cup ComVenda \cup ComLiberacao
  /\ f.pc \in ComVenda => "v" \in DOMAIN f /\ f.v \in Vendas
  /\ f.pc \in ComLiberacao <=> "l" \in DOMAIN f
  /\ "l" \in DOMAIN f => f.l \in Liberacoes
  /\ f.pc = "gravarCredito" => "dias" \in DOMAIN f /\ f.dias \in {0, 1}

(* A sale is in the ledger when, and only when, it is CONCLUIDA; its rows   *)
(* to be released were born with it; a row is worked on by one session, and *)
(* an origin is offered to the holds once.                                  *)
CreditoInv ==
  \A v \in Vendas :
    IF Concluida(v)
    THEN /\ pagoAvisado[v] = 1
         /\ \E k \in {"pendente", "disp"} :
              \A j \in {"pendente", "disp"} : <<j, v>> \in creditos <=> j = k
    ELSE /\ pagoAvisado[v] = 0
         /\ \A k \in {"pendente", "disp", "reserva"} : <<k, v>> \notin creditos
LiberacaoInv ==
  /\ \A l \in Liberacoes :
       /\ lib[l].sit # "nenhuma" => Concluida(l[1])
       /\ lib[l].sit = "nenhuma" => l \notin soltas
       /\ lib[l].sit \in {"nenhuma", "AGENDADA"} => lib[l].tent = 0
  /\ \A s \in Sessoes :
       "l" \in DOMAIN fase[s] => lib[fase[s].l].sit = "PROCESSANDO"
  /\ \A s, t \in Sessoes :
       "l" \in DOMAIN fase[s] /\ "l" \in DOMAIN fase[t] /\ fase[s].l = fase[t].l => s = t
OrigemInv ==
  /\ \A v \in Vendas : OrigemGasta(<<"cashin", v>>) => Concluida(v)
  /\ \A l \in Liberacoes : OrigemGasta(<<"lib", l>>) => lib[l].sit = "LIBERADA"
  /\ \A s \in Sessoes : fase[s].pc = "capturar" =>
       Concluida(fase[s].v) /\ ~OrigemGasta(<<"cashin", fase[s].v>>)
  /\ \A s, t \in Sessoes :
       fase[s].pc = "capturar" /\ fase[t].pc = "capturar" /\ fase[s].v = fase[t].v
         => s = t
RetencaoInv ==
  /\ metodo = [fat |-> metodo.fat, retido |-> metodo.retido, offset |-> metodo.offset]
  /\ metodo.fat \in Nat /\ metodo.retido \in Nat
  /\ metodo.fat = 0 => metodo.retido = 0
  /\ RetencaoNoLimite

CashinInv ==
  /\ CashinTypeOK /\ dias \in {0, 1}
  /\ DOMAIN fase = Sessoes /\ \A s \in Sessoes : FaseOK(fase[s])
  /\ CreditoInv /\ LiberacaoInv /\ OrigemInv /\ RetencaoInv
  /\ ParadoTemLiberacao
=============================================================================
