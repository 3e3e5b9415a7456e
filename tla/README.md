# A verification model of the VPay PIX gateway

TLA+ modules, TLC configurations and TLAPS proofs for the parts of the gateway
where money can be lost, duplicated or stuck, and for what decides who may use
it. Paths such as
`src/worker-processors/...` are relative to the repository; definitions keep
the program's own (Portuguese) names.

    tlc -config saque_falhas.cfg MCSaque      model-check one run
    tlapm SaqueProofs.tla                     check the proofs of one module

## 1. The system

A NestJS program with two entry points, the HTTP API and a worker that consumes
twelve BullMQ queues, over one PostgreSQL database and one Redis. Both run in
several processes. Money moves in three directions: sales come in (cash-in),
withdrawals go out (cash-out), and a contested sale goes back to its payer
(MED). A *liquidante* is the acquirer that executes PIX payments.

| Part | State | Operations | Module |
|---|---|---|---|
| Ledger `ledger/ledger.service.ts` | `saldos_usuarios`, `movimentacoes_saldo` | `aplicarMovimentacoes` | `Ledger`, `Razao` |
| Withdrawal request `pix/pix.service.ts`, `pix/saque-protecao.service.ts` | `transacoes` | `criarSaque`, `replayDoSaque`, `assertSaquePermitido` | `Saque`, `Saida` |
| Withdrawal worker `pix-cash-out.processor.ts` | `tentativas_transacoes`, `transacoes`, the job | `process`, `revalidar`, `enviar`, refunds | `Saque` |
| Withdrawal webhook `pix-webhook-cashout.processor.ts` | the same rows | `process`, `encerrarComoFalha` | `Saque` |
| Reconciliation `outbox-and-ops.processors.ts` | the same rows | sweeps of pending rows, orphans, refunds, releases | `Saque`, `Med`, `Cashin` |
| MED `med/med.service.ts` | `casos_med`, `bloqueios_saldo` | `receber`, `decidir` | `Med` |
| Refund worker `devolucao-pix.processor.ts` | `devolucoes_pix` | `process`, `reterPreEnvio` | `Med` |
| Cash-in `pix-webhook-received.processor.ts`, `retencao/` | `transacoes`, `webhooks_recebidos`, `liberacoes_saldo`, the retention singleton | postback, `decidir`, `creditar`, `marcarRetida`, releases | `Cashin` |
| Manual holds `ledger/bloqueios-saldo.service.ts` | `bloqueios_saldo` | `criar`, `capturar`, `liberar`, `debitar` | `Bloqueio` |
| Automatic MED `med/med-automatico.service.ts` | `casos_med`, `estados_med_automatico_usuario` | `avaliar` | `Recebimento` |
| Outbox, callbacks, apps `OutboxPublisherProcessor`, `entrega-webhook.service.ts`, `integracoes/` | `eventos_outbox`, `envios_integracao`, queues 2, 5, 11, 12 | publish, deliver, resend, `processarEnvio` | `Entrega` |
| Who may use which liquidante `providers/adquirentes*`, `admin-usuarios`, `ops` controllers | `provedores_pagamento`, client configurations, their default, the chain | choose, free, revoke, close, take out, move in mass, activate, edit a client or the default | `Vitrine` |
| Charge creation `criarCobranca`, `contingencia/` | `transacoes`, `tentativas_transacoes` | chain of liquidantes, replay, matching of postbacks | `Cobranca` |
| Treasury `tesouraria/` | `gatilhos_saque`, `execucoes_gatilho_saque` | ticks, manual dispatch, `processarExecucao` | `Tesouraria` |
| Accounts, documents, sessions `auth/`, `onboarding/` | `usuarios`, `documentos_usuarios`, tokens | registration, documents, decisions, login, renewal, passwords, second factor, closing | `Conta` |
| API credentials, PIX keys `api-credentials/`, `chaves-pix.controller.ts` | `credenciais_api`, `chaves_pix_usuarios`, nonces | create, rotate, authenticate, revoke, decide | `Credencial` |
| Adapters, roles, reports, e-mail, security trail | – | HTTP clients, CRUD, queries | none |

How they interact: `creditar` calls the ledger inside its own commit, then offers
the money to the manual holds, then lets the automatic MED look at yesterday's
sales; every one of them writes to the outbox, from which the publisher feeds
callbacks and apps. A charge goes out through the liquidante that `Vitrine` says
the client uses, and its payment comes back to `Cashin` through the attempt it
left. An account that stops being ATIVO stops its panel, its credentials and its
callbacks at the next read.

What is hard: two processes on one row; a step read before an `await` and used
after it; a job whose lock expired and that runs twice; a crash between two
commits of one operation; a POST whose answer never comes; webhooks late,
repeated, lost or before the row they speak of; a lost enqueue; a decision
checked on a row and written by id later. Every such place is in `PROJECT.json`
under `hazards`, with the properties that watch it or the reason why none does.

What makes each part correct, in one line each:

* Ledger: the statement adds up to the balances, a key counts once, a call is all or nothing and announced once.
* Withdrawal: one PIX at most, refunded only if it cannot be paid any more, a final outcome stays and is announced once, none is forgotten.
* MED: the wallet loses each accepted value once, holds are neither lost nor left behind, the payer is refunded once.
* Cash-in: a sale is credited once, what is parked has a release, every release is made.
* Manual holds: the row of a hold says what the statement captured for it.
* Automatic MED: a sale becomes MED only after its debit.
* Outbox: an event is announced once and reaches every destination and app.
* Charges: the code answered is of a charge that can be credited, and a paid one is.
* Liquidantes in circulation: one that is taken from its clients with substitutions takes all of them along or none (that nobody is left on one he may not use is what the code says, and not what it does: section 4).
* Treasury: one automatic dispatch per window of a trigger.
* Accounts: the approval queue follows the documents; a session ends at its ceiling; the last secret handed out works, until an older rewrite of its row lands (section 4).

## 2. The modules

Each module models one part: its parameters are CONSTANTS with a named
assumption, each operation, await or commit is one action, no operator is
RECURSIVE. `MC*` modules give the constants small values; `*Proofs` modules hold
theorems. An operator whose comment starts with "mutant" is a deliberate bug
that stands next to the definition it changes; no specification uses it.

    Razao <= LedgerRazao --> Ledger        LedgerProofs    (refinement: Ledger implements Razao)
    Saida <= SaqueSaida --> Saque          SaqueProofs     (refinement: Saque implements Saida)
    Med                                    MedProofs
    Entrega                                EntregaProofs
    Recebimento --> Cashin --> Bloqueio    RecebimentoProofs   (received money)
    Adquirente --> Cobranca, Tesouraria --> Vitrine   AdquirenteProofs
    Acesso --> Credencial --> Conta        AcessoProofs
    SomasProofs                            (sums, least and greatest elements; used by five of the others)

The last part of a module, after its properties, is its inductive invariant: a
conjunction of named parts (`LedgerInv`, `SaqueInv`, `CashinInv`...) that says why the
properties hold.

The others do not instantiate `Ledger`: they use what it shows (a call is atomic
and its keys count once), and keep of the wallet only the balances they move. So
a ledger call is part of the action of the commit that contains it, with the
refusal as a guard and the idempotency keys as a set.

### Ledger

One wallet. A session (`Chamadores`) opens a transaction (`Chamar`), gets the row
(`Travar`: `SELECT ... FOR UPDATE`, which gives it a private `copia`), handles its
entries one at a time (`Repetida`, `Lancar`), and commits (`Confirmar`), is
refused (`Recusar`) or dies (`Abortar`). `novas` are the movements inserted and
not yet visible. A debit is a negative `valor`; `tipoMovimento` is its sign.
Only `DISPONIVEL` may be overdrawn.

`Razao` is what the ledger promises: there, a call is one step that posts what is
new of it, moves the balances by that, and announces itself. `LedgerRazao` maps
the committed statement of `Ledger` to the set of movements of `Razao`
(`Lancados`), and `ImplementaRazao` is `Razao`'s specification under that mapping:
every session step but a commit that posts something is a stutter.

### Saque

| Code | Model |
|---|---|
| `transacoes.situacao`, `tentativas_transacoes.situacao`, `idTransacaoLiquidante` | `tx`, `tent` (of the last tentativa; "nenhuma" after a delete), `comId` |
| hold and fee; refund keys `saque:estorno*` | `debitado`, `estornado`, `saldo` |
| BullMQ job `saque-<id>`: state, `attemptsMade`, stalls, lock | `job`, `feitas`, `paradas`, `dono` |
| where a request, a worker or a webhook handler is | `api`, `fase`, `gFase` with its withdrawal and what it had read |
| the order at the liquidante | `banco`, `envios` |
| outbox rows | `avisoOk`, `avisoFalha` |
| reconciliation | `aviso` (CONCLUIDA committed, event not yet), `orfaos` (rows read, not yet enqueued) |
| account, key, liquidante and rule checks | `regras` |

`criarSaque` is `PreChecar` (pre-check and limits), `Criar` (the commit, with
P2002 as a replay) and `Enfileirar`, or `PerderEnfileirar`. `process()` is
`IniciarJob` (reads and revalidation), `Reivindicar` (claim), `Postar` (the
liquidante's four kinds of answer), and one action for each commit of each
outcome. Reading the row and revalidating are one step: between the two only
the situation could change, and every later commit checks it again. The webhook
is `Receber`, `Confirmar`, `Avisar`; the sweep is `Conciliar`, `AvisarConciliada`,
`LerOrfaos`, `ReenfileirarOrfao`. `ErroInfra` fails a step before its commit,
`CairWorker`, `CairGancho` and `CairConciliacao` kill a process, `Estagnar` is
BullMQ's stalled-job check, `RetentarAMao` the Bull Board's retry button.

Of the liquidante it is assumed that a 4xx to the creation means that nothing
will be paid and that what it answers to a status question is true. It may lose
or delay a request, not answer, fail an order or return a payment. Its webhooks
only claim: one that says PAID may come of an order not paid yet, failed or
returned (`Entregavel`), and `Respostas` is what the status question then finds.
Of an order that was paid it may also answer that it does not know the id
("desconhecida"), and then `Confirmar` believes the webhook, because it was
authenticated. A claim that is false *and* cannot be looked up is left out: there
the code concludes an unpaid withdrawal, on purpose
(`pix-webhook-cashout.processor.ts:86`).

`Saida` is what a withdrawal is to the merchant, without queue, workers, handlers
or sweep: it is charged (`Pedir`), its order goes out once at most (`Mandar`), and it
ends paid (`Concluir`, then `Avisar`) or with the money back (`Devolver`, `Falhar`), each
once. `SaqueSaida` maps `Saque` to it: `situacao` is `tx`, `devolvido` is `estornado`, the order
is what `banco` says of it (`OrdemDe`: refused and absent are the same, so are in
flight and accepted), and `ImplementaSaida` is `Saida`'s specification under that mapping.
Its parameter `Reenvia` is `PodeCair`, crashes or expired locks: only then may an
order follow a refund that was not sealed as FALHA in time, which is what
`saque_pago_estornado` shows. The refinement is proved for both values, `saque_falhas`
checks it with crashes. That FALHA means the money is back (`FalhaDevolve`, a theorem)
has no run of its own: it is part of what `Falhar` of `Saida` says.

### Med

`receber` is `Registrar` (case and ceiling under the lock of the sale), then
`LerSaldo` and `Bloquear`, or `DebitarImediato`; the mode is the one read at the
start. `decidir` is `LerCaso` and `Aceitar` or `Recusar`. Queue 9 is `IniciarJob`,
`Reivindicar`, `Postar`, and `ReterPreEnvio`, `Congelar` or `Concluir`; the sweep
is `VarrerDevolucoes`. `Girar` and `MudarModo` are the rest of the system.
Simplifications: the same notice always carries the same value; `valorDebitado`
is 0 in every case that can still be decided and is left out, and so are
`valorNaoCoberto`, the row of `bloqueios_saldo` (it follows the case in the same
commits) and the capture by manual holds after a refusal; BullMQ's count of
attempts is not kept: a job of queue 9 that fails may or may not be run again.
`devTent` is the row's own count, of which a worker keeps what it read before its
claim.

`LeituraVelha` chooses whether the amounts of a case may change between
`decidir`'s read and its lock. With TRUE the model is the code as it is, and
`med_decisao_velha` shows what goes wrong. The other runs use FALSE, so that
the remaining properties are checked of everything else.

### Bloqueio, Cashin, Recebimento

One merchant. A session (`Sessoes`) is any job, tick or request; `fase` says where
it is and what it read, and `cap` where it is inside the holds' service, which it
enters after it brought money (`ParaCapturar`).

| Code | Model |
|---|---|
| `transacoes.situacao`, `retidaMetodo` | `venda` |
| ledger keys `cashin:*`, `lib:*`, `bloqman:*`, `medauto:*` | `creditos`, `soltas`, `capturas` and `desfechos`, `debitoMed` |
| balances | `disp`, `pend`, `reservado`, `manual` |
| `liberacoes_saldo`, `bloqueios_saldo` | `lib`, `bloq` |
| `webhooks_recebidos` and the job of queue 1 | `aviso` |
| retention singleton; `diasLiberacaoSaldo` | `metodo`; `dias` |
| automatic MED: yesterday's sales, state of the day | `velha`, `estado` |

The job is `IniciarAviso`, `Decidir` (the retention method, whose row it locks),
`LerParaReter`/`GravarRetida` or `LerParaCreditar`/`GravarCredito`, `CapturarCredito`,
then the steps of `Recebimento`. Reconciliation (`ConciliarEntrada`) and the panel
(`LiberarRetida`) enter at `creditar`. The release tick is `Reivindicar`,
`MoverLiberacao`, `GravarLiberada` or `GravarFalha`. `Interromper` is death anywhere.
Assumed: ten minutes without an update mean that nobody works on a release
(`Devida`); `liberarReservaEm` is set when there is a reserve; yesterday's sales
have no job pending; the same retention parameters for all sales.

### Entrega

`Anunciar` is the commit of the business code. The publisher is `LerCandidatos`,
`ReivindicarEvento` (the compare-and-set on `publicadoRedisEm` and the app rows, one
commit), `Enfileirar` or `FalharEnfileirar` (the claim is given back). Delivery is
`IniciarEntrega`, one `Entregar` per destination, `TerminarEntrega`; apps are
`IniciarEnvio`, `Postar`, `Registrar`, and `ReenfileirarPendentes` is the sweep.
`Reenviar` is the resend by hand, `Trocar` switches account or app. A failed enqueue is
assumed to have made no job.

### Vitrine, Cobranca, Tesouraria, Adquirente

`adq`, `uso` and `cadeia` are who is in circulation, who uses it and the
contingency chain, `padrao` what new clients get, `ativos` the clients activated;
`ato` holds what a handler read before its commit. All writers of a client's
liquidante of entry are there: his own choice (`Escolher`, `GravarEscolha`), his activation
(`Ativar`, `GravarAtivacao`), his configuration edited (`EditarConfig`, `LiberarFicha`, which
is a commit of its own, `GravarFicha`), the substitutions of revoking, closing and
taking out of circulation, and the mass move. `aplicarSubstituicoes` reads and
writes in the caller's transaction, and is one step here: a choice committed
between its read and its writes is not modelled. A call of
`criarCobranca` is `Chamar` (replay or the client's liquidante), `CriarVenda`,
`Tentar` along `Fila`, `Vincular` or `RegistrarFalha`, `TrocarConta`, `GravarQr`;
`cobradas` and `pagas` are what exists and is paid at the liquidantes, one
account each. `Postback` is queue 1's matching (`Resolve`, `Confere`), with the
credit itself left to `Cashin`. A treasury worker is `Tick`, `Avaliar`, `Disparar`,
`Enviar`, `GravarEnvio`; a dispatch by hand is `Manual`, `CriarManual`,
`Enfileirar`, `PegarJob`. `execs` are the executions by their unique key (trigger,
origin, last dispatch read). The liquidante takes an execution's id once. Nobody
holds a code before the call that made it ends.

### Conta, Credencial, Acesso

A handler of the panel reads and checks (`Pedir*`, `Enviar`, `Subir`, `Validar`,
`AbrirLink`, `PedirFator`) and commits later (`Gravar*`, `Rotacionar`), from `ato`.
`Transacao` is a transaction that replaced rows of documents (which it locks:
`Trancada`) and re-evaluated the situation (`Reavaliada`) on what was committed
then. Secrets are numbers in the order they were handed out (`entregues`);
`migra` are the rewrites of an old hash still on their way, each with the number of
secrets that were out when it began (`n`); `desfeitas` are the credentials whose
last rotation an older rewrite overwrote. Passwords and codes
typed are right, `SESSAO_PAINEL_MAX_HORAS` is set and not below `JWT_EXPIRES_IN`.

## 3. The runs

| Run | Instance | Shows |
|---|---|---|
| `ledger` | 2 sessions, 5 calls (one overdraws, one reuses a key for another value), 2 balances | `ExtratoFecha`, `UmaPorChave`, `SemDescoberto`, `TudoOuNada`, `ImplementaRazao` |
| `saque` | 3 requests (2 equal with one reference), limit for one, 1 worker, 1 change of rules, no crash | `LimiteRespeitado`, `PagoECobrado`, `UmDesfechoAvisado`, `UmSaquePorReferencia` |
| `saque_falhas` | 1 withdrawal, 2 workers, locks that expire, 2 crashes, 1 stall, 2 attempts, 1 change of rules | `EnvioUnico`, `ConcluidaSoPaga`, `EstornoSoSemOrdemViva`, `FinalNaoRegride`, `ImplementaSaida` |
| `saque_vivo` | 1 withdrawal, 1 crash, error or lost enqueue, 2 changes of rules, fairness | `NaoFicaEsquecido`, `PagoConclui` |
| `saque_pago_estornado` | 1 withdrawal, 1 error, 2 changes of rules | **violates** `PagoECobrado` |
| `med` | 2 cases of one sale that cannot both be live, one delivered twice, 2 analysts, 2 workers, 1 crash | `BloqueadoFecha`, `CarteiraFecha`, `TetoDaVenda`, `UmaDevolucao`, `MedSoCoberta`, `DecisaoFinal` |
| `med_vivo` | 1 case delivered twice, 2 refund workers, 2 jobs at once, ceiling of 2 attempts, 1 crash, 1 change of mode, 1 other movement, fairness | `AvisaUmaVez`, `DevolucaoSai` |
| `med_decisao_velha` | 1 case, 2 deliveries, 1 analyst, `LeituraVelha` | **violates** `BloqueadoFecha` |
| `recebimento` | 2 sales (one with a reserve, one left FALHA by a timeout), 3 postbacks, 2 sessions, 2 holds, 2 sales of yesterday, fairness | `CreditoUnico`, `ParadoTemLiberacao`, `LinhaIgualExtrato`, `RetencaoNoLimite`, `ConvertidaFoiDebitada`, `LiberacaoAcontece` |
| `entrega` | 2 events, 2 publishers, 1 delivery worker, 2 senders, 2 destinations, 1 app, fairness | `PublicaUmaVez`, `EventoChega`, `AppSabe` |
| `adquirente` | 3 liquidantes with a chain, 3 clients (1 not activated yet), 3 calls of one reference, 2 triggers on one account, 2 workers, fairness of the calls | `RemanejaTudoOuNada`, `CobrancaCasa`, `UmDisparoPorJanela`, `PagoCredita` |
| `acesso` | 1 account, 1 credential, 1 PIX key, 2 requests at once | `AnaliseAcompanhaDocumentos`, `SessaoTemTeto`, `UltimoSegredoVale` |

Each passing property has a mutant of the code's definition that breaks it.

**Bounds.** Two actors are enough for the races listed: every one of them is
between two (two sessions, two workers on one job, worker and webhook, two
analysts, two publishers, a sweep and a job). Two attempts distinguish "an
attempt left" from "the last one"; one stall distinguishes "taken back" from
"given up". `MaxQuedas`, `MaxTrocas`, `MaxJobs` and `MaxGiros` bound the
environment, not the code: the crash or change may come at any step. Amounts are
small integers chosen so that two withdrawals fit the wallet and one does not
fit the limit, so that a hold is partly covered, and so that a sale breaks the
retention ceiling of 30 percent while the next one is let through.

The runs with an `Orcamentos` constant bound what the environment may do by
*budgets*: each member of the set is a scenario (so many postbacks, crashes,
changes, minutes...), an initial state of its own. Within a scenario every
interleaving is explored; a scenario puts together the things that race with
each other, and things that touch no common state are not multiplied. Budgets
bound only the environment: a step the program takes is never budgeted once it
started. The scenarios stand in the `MC*` module, each with a comment.

Sessions, workers, analysts and equal requests are interchangeable, and `ledger`, `saque`,
`saque_falhas` and `med`, which check no liveness, use that as a symmetry.

The proofs of section 5 need none of these bounds. `CHECK_DEADLOCK FALSE`,
except in `ledger`, because the system really rests once every request is
answered and every outcome sealed.

**Fairness** (`SpecJusta`). A worker or handler that is running goes on; BullMQ
hands out waiting jobs and collects stalled ones; the sweeps are repeatable jobs
(`ensureRepeatables`: reconciliation every 300 s, releases every 60 s, outbox
every 5 s) and are therefore run again and again. Nothing is assumed of
requests, webhooks, operators, analysts or of what the liquidante decides.
In `Med` that a refund's job is taken by *some* worker is strongly fair: a job
stays in Redis while others are being run. Liveness properties name what they
except. `PagoConclui`: a liquidante left switched off for good; and, of the callback
but not of the outcome, a crash after the withdrawal was last PROCESSANDO that left
nobody with the announcement (`NasMaosDeQuemAvisa`), which is the gap between
CONCLUIDA and its event. `DevolucaoSai`: a row at the ceiling of attempts, which
may wait for ever (section 4). `LiberacaoAcontece`: a release that used up its
attempts. `EventoChega`: a publisher that died between claim and enqueue, a job out
of attempts, and everything once account or app was switched. `AppSabe`: an account
or app switched off. `PagoCredita`: a liquidante out of circulation. Except for
`DevolucaoSai` the code does not promise more.

## 4. Where the code departs from what it says

* `saque_pago_estornado`. `encerrarPorBloqueio` refunds in one commit and seals
  FALHA in another. If the second one fails, the job is retried with the
  withdrawal still PROCESSANDO; if the rule that blocked it was lifted meanwhile,
  `revalidar` passes, since it adds up the debits and does not subtract the
  refund, and the withdrawal is paid after it was refunded. The same happens with no
  error at all when the job's lock expires between the two commits. This is why
  `saque` checks `PagoECobrado`, and `PagoFoiCobrado` proves it, with no crash and no
  lock that expires.
* `med_decisao_velha`. `decidir` takes `valorBloqueado` from a read made before
  its lock and reads again only `situacao`. A case read as RECEBIDO whose hold is
  posted before the lock is then refused without giving the hold back: the money
  stays in BLOQUEADO_MED and no case holds it.

Four more things that the code says of itself do not hold. They are not runs of
their own, but each is a definition of the model, and TLC prints a
trace when it is added to the instance named:

* `NinguemSemAdquirente` (`adquirente.cfg`). No crossing is needed: `editarConfig` looks
  at the account of the adquirente asked for, and not whether the adquirente itself is
  in circulation (`admin-usuarios.controller.ts:891`); neither do `ativar`, which hands
  out `configuracaoPadrao`, and `alternar-massa`. And two handlers that cross do it too:
  taking an adquirente out of circulation (or revoking it) asks who uses it before its
  commit (`ops.controller.ts:194`), and a client's choice is checked before his, so he
  may be left on it. `adquirentes.controller.ts:220` says "ninguém pode ficar sem
  adquirente de entrada". What does hold, whatever crosses, is that a commit that moves
  clients off an adquirente it takes from them moves all of them
  (`RemanejaTudoOuNada`): the transaction reads again who is there.
* `TetoViraFalha` (`med_vivo.cfg`). A refund worker computes its attempt from a read made
  before its claim (`devolucao-pix.processor.ts:103`). With duplicate jobs on two workers
  the last claim may take itself for the one before: the row is PENDENTE at the
  ceiling, the sweep takes only rows below it (`outbox-and-ops.processors.ts:753`), and
  the refund waits for ever, against "Depois disto a linha vira FALHA"
  (`devolucao-pix.processor.ts:47`). With the code's numbers (8, two jobs of 5
  attempts): A claims 1 to 4, B 5 and 6; A, at its 5th and last run, reads 6; B claims
  7 and fails; A claims 8, computes 7 and writes PENDENTE; B's next run came while A
  held the row, and it completed.
* `RotacaoNaoSeDesfaz` (`acesso.cfg`). A rewrite of the then current secret that is still
  in flight when a rotation commits undoes it: it writes by id and compares nothing
  (`credencial-auth.service.ts:182`). The comment at line 143 there explains why the
  *previous* secret is never rewritten: "a rotação seria desfeita sozinha".
* `NaFilaSoCompleta` (`acesso.cfg`). `reavaliarSituacoes` reads without a lock: a refusal
  evaluated while the account was PENDENTE and a sending evaluated before the refusal
  was committed put an account in the approval queue with a refused document, which
  `admin-documentos.controller.ts:212` says cannot be.

Other places where the code departs from what it says or seems to intend. Each
one is a behaviour of the models; where a property would fail because of it, its
statement says so, with a history variable (`cruzadas`, `editadas`, `tropecos`,
`desfeitas`, `perdidos`) that marks the behaviours it does not speak of.

* Retention. `marcarRetida` commits on an old read and `creditar` does not look
  at `retidaMetodo`: with the sweep in between, a sale ends credited and retained,
  although its comment says "sem crédito nem callback"
  (`cashin-credito.service.ts:253`). `decidir` counts a sale again when its job
  is run again.
* Manual holds. Release and debit of one hold at once post under two keys and take
  the value twice, the second time from what other holds keep.
* Automatic MED. `estado.valor` is written from an old read and loses an update of
  a concurrent sale; a crash after the case leaves it DEBITADO without a debit.
* Callbacks. A publisher that dies between claim and enqueue loses the callback;
  an app row already SUCESSO may be overwritten by the FALHA of a duplicate job.
* Rotation (`Rotacionar`). Of two rotations that read the same row the last secret
  works, but the one the first of them handed out is cut off at once, without a
  window.
* Documents. `reavaliarSituacoes` reads and writes the account without a lock: a
  re-evaluation that read EM_ANALISE may overwrite an activation, and two that
  do not see each other's documents leave a complete account PENDENTE. This is why
  `AnaliseAcompanhaDocumentos` speaks only of commits that do not cross.
* Decisions. `ativar`, `mudarSituacao`, `encerrar`, PIX-key decisions and the second
  factor check a read and write by id; `mudarSituacao` may lead from REPROVADO to
  ATIVO without a wallet; a reset link is read and marked without compare-and-set.
* Liquidantes. `editarConfig` may write back an account read before a move; closing one
  with clients both freed and not is refused; deactivating one leaves `configuracaoPadrao` on it, stops crediting what was
  already paid there, and `editarVitrine` passes on only the substitutions of
  those it moves.
* Charges. The replay looks only at the last sale of a reference; a charge left
  by a timeout at a liquidante of the chain is never credited.
* Treasury. A tick that loses the key goes on to the next trigger of the account
  with the same old balance (the comment at `tesouraria.service.ts:189` says one
  dispatch per account); an error after the order was taken is recorded as FALHA;
  a crash leaves PENDENTE for ever; a late commit moves `ultimaExecucaoEm` back.

## 5. The proofs

Every invariant and every action property that a passing run checks is a theorem here,
for any number of merchants' requests, sales, sessions, workers, crashes and so
on: none of the bounds of section 3 is assumed. Each inductive invariant was
checked by TLC, on the instances of section 3, before it was proved. All proofs
have the same shape: the first state satisfies the invariant, one lemma per
action (or per group of actions that touch the same variables) shows that the
step keeps it, the theorem combines the two, and the properties follow.

The assumptions are those of the modules (`*Assumption`): types of the constants;
finiteness of the sets that sums or counts range over (`Pedidos`, `Casos`, `Vendas`,
`Bloqueios`, `Eventos`); a chain of liquidantes at the start (`Vitrine`); some document
required of each kind of person (`Conta`, from `DOCUMENTOS_OBRIGATORIOS_USUARIO` in
`shared/enums.ts:43`); a session's ceiling not below its token's life. Two theorems
have a hypothesis of their own, which the model shows to be needed:
`BloqueioBate` and `PagoFoiCobrado`.

**SomasProofs.** What `SumFunctionOnSet` does: the sum of nothing, of one more element, of a
function changed in one place, of a subset. The community module defines it by
a fold over a recursive function; the equation is obtained by well-founded
reasoning on the subsets of a finite set (a minimal counterexample), which needs
no induction theorem with an operator parameter.

**LedgerProofs.** `LedgerIntegro`, and from it the types, `ExtratoFecha`, `UmaPorChave` and
`SemDescoberto`. They are not inductive by themselves, since `Confirmar` copies a
session's private balances over the wallet: `LedgerInv` adds that the same
integrity holds of what the lock's holder sees (`Integro(Visiveis(c), copia[c])`),
that whoever does not hold the lock has inserted nothing, and that lock and
phase agree. The lemma that does the work is `AnexarIntegro`: appending a movement
with a fresh key and the balance it leaves keeps a statement integral.
`LedgerImplementaRazao` is the refinement, step by step: `RazaoInv` adds the loop
invariant of `Lancar` (`Andamento`: what a session inserted comes from the entries it
has walked, each of which is one of those or was committed before, and its copy
is the committed balances plus what it inserted) and that what is committed
comes from calls committed whole (`ChamadasInteiras`). So a commit that posts is
`Aplicar` of its call, everything else is a stutter, and `TudoOuNada` follows.

**SaqueProofs.** `SaqueIntegro`: `SaqueInv` strengthens the properties with what each step
knows. An order that may be out has a live tentativa (`OrdemTemTentativa`), at most
one worker at a time is past the claim of a withdrawal (`UmaMao`), the step of a
worker says what the liquidante was told (`FaseSabe`), and sends are counted (`EnviosContados`). From it:
`EnvioUnico`, `ConcluidaSoPaga`, `FalhaDevolve`, `UmSaquePorReferencia` and the two action
properties. Three more invariants stand on top of it. `AvisoInv`: a final outcome
is announced already, or owes its announcement to exactly one handler or to the
sweep (`UmDesfechoAvisado`). `LimiteInv`: the withdrawals let past the limit (sent, or
with a worker between revalidation and answer) are of rows that exist and fit
the limit together; only `IniciarJob` lets one past (`PassouSoNoInicio`), and it has
just counted all rows of the day (`LimiteRespeitado`). `CobrancaInv`, with no crash and no
lock that expires: a worker keeps its job to the end, so a refund not sealed yet
is in the hands of the worker about to seal it, and no other can be on its way
to an order (`PagoECobrado`). `SaqueImplementaSaida` is the refinement, with one lemma for
each kind of commit (`PedirVisto`, `MandarVisto`...) and the rest a stutter (`NadaSeVe`).
It holds with crashes and without: `SaidaInv` is `SaqueInv`, `AvisoInv`, that nothing happens
to a withdrawal without a row (`TemLinha`) and, where nothing can fall, `CobrancaInv` and
that a worker that refunded a block still has no order (`SeloSemOrdem`); the latter
two are what bars `Mandar` after a refund and `Concluir` of a refunded one.

**MedProofs.** `MedIntegro`: a case holds nothing before its hold, a refund exists for an
accepted case and for no other, it may have left only after a claim, and the
worker past the claim is alone with it and knows whether it left (`MaoInv`). The
sums over cases (`BloqueadoFecha`, `CarteiraFecha`, `TetoDaVenda`, `MedSoCoberta`) move with
`SomaMuda`, one lemma per way a case can move. `BloqueioBate` assumes `LeituraVelha` FALSE;
all others hold with the stale reads of `decidir`.

**RecebimentoProofs.** `RecebimentoIntegro`, for the three modules at once, since a session
passes through all of them. `BloqueioInv`: a session that captures has an origin of
its own and takes only from holds that did not have it, hence `LinhaIgualExtrato`.
`CashinInv`: a sale is in the ledger exactly when it is CONCLUIDA, a release is
worked on by one session, an origin is offered to the holds once; the parked
balances are the sums of the rows to be released (`ParadoTemLiberacao`), and
`RetencaoNoLimite` survives because revenue only grows within a day. `MedInv`: a
session that goes on with a MED has its case and turns the sale only after the
debit.

**EntregaProofs.** `EntregaIntegra`: an event is waiting, or claimed by one publisher, or
its right to a job is spent; jobs of an event never exceed the resends beyond
that. This gives `PublicaUmaVez`.

**AdquirenteProofs.** Three invariants, one per component. `VitrineInv`: types, of
what handlers are about to write too; `TodosOuNinguem` (`RemanejaTudoOuNada`) goes over the
commits: only those with substitutions take and move at once, and they move everybody
who is there then. `CobrancaInv`: a charge is known to the attempts of its sale
before its code is given, the code is given once, nobody pays before
(`CobrancaCasa`). `TesourariaInv`: take the automatic dispatches of a trigger, made or
about to be, each with the mark it read (the last dispatch) and its time. Two
with different marks are an interval apart; each has read the mark of now, or is
no later than it, or is an interval old; two with one mark have one key, so only
one is made. That is `UmDisparoPorJanela`, although marks may go back.

**AcessoProofs.** `SessaoInv`: a token belongs to the session its login opened
(`SessaoTemTeto`). `CadastroInv`: what a transaction evaluated still holds when it
commits, unless another crossed it (`AnaliseAcompanhaDocumentos`). `SegredoInv`: secrets are
numbered as handed out, the live row holds the last one unless it was undone, and
a rewrite that began after the last rotation carries the last
(`UltimoValeAteDesfeito`, of `UltimoSegredoVale`).

**Only model-checked.** The liveness properties: `NaoFicaEsquecido`, `PagoConclui`,
`DevolucaoSai`, `LiberacaoAcontece`, `EventoChega`, `AppSabe`, `PagoCredita`. Liveness under
fairness and ENABLED are outside what the prover can do. So are induction over
data (the library's induction theorems take an operator as a parameter) and
RECURSIVE operators; no module needs either.

## 6. Not modelled

* Batch limits of the sweeps (`take: 20`, `take: 40`) and their order: a backlog
  longer than a batch could starve rows.
* Keys of two different merchants that collide: wallets are independent here.
* Wallet credits of other flows during a withdrawal (they only add balance).
* A sale that is contested while a postback of it is still on its way: `Cashin`
  ends at CONCLUIDA and `Med` starts there. `creditar` refuses only LIQUIDADA and
  CONCLUIDA, so such a postback would bring a MED sale back.
* Of accounts: roles and permissions, profile data, failed logins and their lock,
  the HMAC and TOTP arithmetic, counters of the rate limit. Of charges: fees,
  payer data, images. Of liquidantes: credentials and texts. Of integrations: the
  payload of each app.
* The containment parameter of contingency is off, and each liquidante has one
  account.
* Adapters, reports, billing, operations panel, e-mail, security trail: HTTP
  clients, queries and output, with no state the models would read.
  `PROJECT.json` gives the reason for each.

## 7. Plan

Done: all modules of section 2; the refinements of `Razao` by `Ledger` and of `Saida` by
`Saque`, checked and proved; every safety invariant and action property of the runs
proved. Left:

1. An abstract sale (parked, credited, released) that `Cashin` refines.
2. The remaining parts of accounts (roles, failed logins) and of charges (fees), if
   a property of money comes to depend on them.
