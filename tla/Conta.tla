------------------------------- MODULE Conta -------------------------------
(***************************************************************************)
(* An account from its registration to its end: the documents and the      *)
(* situation they decide, the administrator's decisions, the password and  *)
(* the second factor, the session of the panel.  A handler reads the       *)
(* account, checks it, and commits in a later step; nothing is locked in   *)
(* between, and a handler may die before its commit.                       *)
(***************************************************************************)
EXTENDS Integers, FiniteSets, FiniteSetsExt

CONSTANTS
  Contas,        \* accounts
  Sessoes,       \* requests that run at once
  TiposDoc,      \* kinds of document
  DoCliente,     \* the kinds a client may send
  Exigidos,      \* [{"PF", "PJ"} -> mandatory kinds]
  MaxDocs,       \* MAX_DOCUMENTOS_POR_CONTA
  Duracao,       \* JWT_EXPIRES_IN
  Teto,          \* SESSAO_PAINEL_MAX_HORAS
  Margem,        \* MARGEM_MINIMA_RENOVACAO_MS
  Validade,      \* VALIDADE_MINUTOS of a reset link
  MaxRelogio,    \* last instant (bound)
  Orcamentos     \* what may happen in one behaviour (bounds)

ASSUME ContaAssumption ==
  /\ DoCliente \subseteq TiposDoc
  /\ Exigidos \in [{"PF", "PJ"} -> (SUBSET DoCliente) \ {{}}]
  /\ Duracao \in Nat \ {0} /\ Teto \in Nat /\ Teto >= Duracao
  /\ MaxDocs \in Nat /\ Margem \in Nat /\ Validade \in Nat /\ MaxRelogio \in Nat
  /\ \A o \in Orcamentos : o.madura \in BOOLEAN

Situacoes == {"PENDENTE", "EM_ANALISE", "ATIVO", "SUSPENSO", "BLOQUEADO",
              "REPROVADO", "ENCERRADO"}
Decididas == {"ATIVO", "SUSPENSO", "BLOQUEADO", "ENCERRADO"}

VARIABLES
  conta,      \* [Contas -> [sit, bloq, tipo, carteira, aberta, provisoria]]
  docs,       \* [Contas -> rows of documentos_usuarios: [id, tipo, sit]]
  dois,       \* [Contas -> [ligado, segredo]]: the second factor
  link,       \* [Contas -> last reset link: [n, expira, usado]]
  tokens,     \* tokens of the panel: [c, iat, exp, inicio, login]
  ato,        \* [Sessoes -> what the request read and is about to commit]
  relogio,
  cruzadas,   \* accounts with a commit between another handler's read and commit
  editadas,   \* accounts whose tipoPessoa was edited
  orc         \* what may still happen (bounds)

acesso == <<conta, docs, dois, link, tokens, ato, relogio, cruzadas, editadas>>

Existe(c) == conta[c].sit \in Situacoes
Habilitada(c) == conta[c].sit = "ATIVO" /\ ~conta[c].bloq

(* documentosFaltantes: what PENDENTE and VALIDO rows do not cover.         *)
Satisfeitos(ds) == {d.tipo : d \in {e \in ds : e.sit \in {"PENDENTE", "VALIDO"}}}
Faltantes(tipo, ds) == Exigidos[tipo] \ Satisfeitos(ds)

Livre == [op |-> "livre"]
Gasta(b) == orc[b] > 0 /\ orc' = [orc EXCEPT ![b] = @ - 1]
Ocupa(s, a) == ato' = [ato EXCEPT ![s] = a]
NoCadastro == {"gravarDocumento", "ativar", "reprovar", "situacao", "encerrar"}
Comita(s) ==
  LET c == ato[s].c IN
  /\ Ocupa(s, Livre)
  /\ cruzadas' = IF \E t \in Sessoes \ {s} : ato[t].op \in NoCadastro /\ ato[t].c = c
                 THEN cruzadas \cup {c} ELSE cruzadas

Completos(tipo) == {[id |-> 0, tipo |-> t, sit |-> "VALIDO"] : t \in Exigidos[tipo]}
ContaInit ==
  /\ orc \in Orcamentos
  /\ \E p \in {"PF", "PJ"} :
       /\ conta = [c \in Contas |->
            [sit |-> IF orc.madura THEN "ATIVO" ELSE "inexistente", bloq |-> FALSE,
             tipo |-> p, carteira |-> orc.madura, aberta |-> FALSE, provisoria |-> FALSE]]
       /\ docs = [c \in Contas |-> IF orc.madura THEN Completos(p) ELSE {}]
  /\ dois = [c \in Contas |-> [ligado |-> FALSE, segredo |-> 0]]
  /\ link = [c \in Contas |-> [n |-> 0, expira |-> 0, usado |-> TRUE]]
  /\ tokens = {}
  /\ ato = [s \in Sessoes |-> Livre]
  /\ relogio = 0
  /\ cruzadas = {} /\ editadas = {}
-----------------------------------------------------------------------------
(* Registration and documents.                                              *)
Cadastro(c) ==
  /\ conta[c].sit = "inexistente"
  /\ \E p \in {"PF", "PJ"} :
       conta' = [conta EXCEPT ![c].sit = "PENDENTE", ![c].tipo = p]
  /\ UNCHANGED <<docs, dois, link, tokens, ato, relogio, cruzadas, editadas, orc>>

DoTipo(c, t) == {d \in docs[c] : d.tipo = t}
Coberto(c, t) == t \in Satisfeitos(docs[c])

(* The client sends a document of a kind not covered; the invalid ones of   *)
(* that kind go away with the commit.                                       *)
Enviar(s, c, t) ==
  /\ ato[s] = Livre
  /\ Gasta("envios")
  /\ Existe(c) /\ ~conta[c].bloq /\ conta[c].sit # "ATIVO"
  /\ t \in DoCliente /\ ~Coberto(c, t)
  /\ Cardinality(docs[c]) - Cardinality(DoTipo(c, t)) + 1 <= MaxDocs
  /\ Ocupa(s, [op |-> "documento", c |-> c, velhos |-> DoTipo(c, t),
               nova |-> [id |-> orc.envios, tipo |-> t, sit |-> "PENDENTE"]])
  /\ UNCHANGED <<conta, docs, dois, link, tokens, relogio, cruzadas, editadas>>

(* The administrator uploads one, born VALIDO, of any account.              *)
Subir(s, c, t) ==
  /\ ato[s] = Livre
  /\ Gasta("envios")
  /\ Existe(c) /\ ~Coberto(c, t)
  /\ Ocupa(s, [op |-> "documento", c |-> c, velhos |-> {},
               nova |-> [id |-> orc.envios, tipo |-> t, sit |-> "VALIDO"]])
  /\ UNCHANGED <<conta, docs, dois, link, tokens, relogio, cruzadas, editadas>>

(* The transaction: its rows are replaced and locked, reavaliarSituacoes    *)
(* reads the account and what is committed with its own change, and         *)
(* everything is committed.                                                 *)
MesmaLinha(d, v) == d.id = v.id /\ d.tipo = v.tipo
Troca(a) ==
  {d \in docs[a.c] : \A v \in a.velhos : ~MesmaLinha(d, v)} \cup {a.nova}
Trancada(s, a) ==
  \E t \in Sessoes \ {s} :
    /\ ato[t].op = "gravarDocumento" /\ ato[t].c = a.c
    /\ \E v \in a.velhos, w \in ato[t].velhos : MesmaLinha(v, w)
Reavaliada_soEnvio(a) ==  \* mutant: what the administrator uploads does not count
  LET sit == conta[a.c].sit
      faltam == Faltantes(conta[a.c].tipo, Troca(a))
  IN IF sit = "PENDENTE" /\ faltam = {} /\ a.nova.sit = "PENDENTE" THEN "EM_ANALISE"
     ELSE IF sit = "EM_ANALISE" /\ faltam # {} THEN "PENDENTE" ELSE "igual"
Reavaliada(a) ==
  LET sit == conta[a.c].sit
      faltam == Faltantes(conta[a.c].tipo, Troca(a))
  IN IF sit = "PENDENTE" /\ faltam = {} THEN "EM_ANALISE"
     ELSE IF sit = "EM_ANALISE" /\ faltam # {} THEN "PENDENTE" ELSE "igual"

Transacao(s, a) ==
  /\ ~Trancada(s, a)
  /\ Ocupa(s, [op |-> "gravarDocumento", c |-> a.c, velhos |-> a.velhos,
               nova |-> a.nova, sit |-> Reavaliada(a)])
Reavaliar(s) ==
  /\ ato[s].op = "documento"
  /\ Transacao(s, ato[s])
  /\ UNCHANGED <<conta, docs, dois, link, tokens, relogio, cruzadas, editadas, orc>>

(* The analyst accepts or refuses a row, whatever was decided of it before. *)
Validar(s, c, d, n) ==
  /\ ato[s] = Livre
  /\ Gasta("analises")
  /\ d \in docs[c]
  /\ Transacao(s, [c |-> c, velhos |-> {d}, nova |-> [d EXCEPT !.sit = n]])
  /\ UNCHANGED <<conta, docs, dois, link, tokens, relogio, cruzadas, editadas>>

GravarDocumento(s) ==
  LET a == ato[s] IN
  /\ a.op = "gravarDocumento"
  /\ docs' = [docs EXCEPT ![a.c] = Troca(a)]
  /\ conta' = [conta EXCEPT ![a.c].sit = IF a.sit = "igual" THEN @ ELSE a.sit]
  /\ Comita(s)
  /\ UNCHANGED <<dois, link, tokens, relogio, editadas, orc>>
-----------------------------------------------------------------------------
(* The administrator's decisions: the situation is checked when read and    *)
(* written by id.                                                           *)
Decidir(s, a) ==
  /\ ato[s] = Livre
  /\ Gasta("decisoes")
  /\ Existe(a.c)
  /\ Ocupa(s, a)
  /\ UNCHANGED <<conta, docs, dois, link, tokens, relogio, cruzadas, editadas>>

Ativavel(c, semDocumentacao) ==
  \/ conta[c].sit = "EM_ANALISE" /\ Faltantes(conta[c].tipo, docs[c]) = {}
  \/ semDocumentacao /\ conta[c].sit \in {"EM_ANALISE", "PENDENTE"}
PedirAtivacao(s, c) ==
  /\ \E semDocumentacao \in BOOLEAN : Ativavel(c, semDocumentacao)
  /\ Decidir(s, [op |-> "ativar", c |-> c, sit |-> "ATIVO"])
PedirReprovacao(s, c) ==
  /\ conta[c].sit # "ATIVO"
  /\ Decidir(s, [op |-> "reprovar", c |-> c, sit |-> "REPROVADO"])
PedirSituacao(s, c, n) ==
  /\ conta[c].sit \notin {"PENDENTE", "EM_ANALISE"}
  /\ Decidir(s, [op |-> "situacao", c |-> c, sit |-> n])

(* Activation also makes the wallet and unlocks; a change of situation      *)
(* locks or unlocks; a refusal touches the situation alone.                 *)
GravarDecisao(s) ==
  LET a == ato[s] IN
  /\ a.op \in {"ativar", "reprovar", "situacao"}
  /\ conta' = [conta EXCEPT
       ![a.c].sit = a.sit,
       ![a.c].bloq = IF a.op = "reprovar" THEN @ ELSE a.sit = "BLOQUEADO",
       ![a.c].carteira = @ \/ a.op = "ativar"]
  /\ Comita(s)
  /\ UNCHANGED <<docs, dois, link, tokens, relogio, editadas, orc>>

(* editarDadosCadastrais may turn a PF into a PJ; nothing is evaluated      *)
(* again.                                                                   *)
EditarTipo(c) ==
  /\ Gasta("edicoes")
  /\ Existe(c)
  /\ \E p \in {"PF", "PJ"} : conta' = [conta EXCEPT ![c].tipo = p]
  /\ editadas' = editadas \cup {c}
  /\ UNCHANGED <<docs, dois, link, tokens, ato, relogio, cruzadas>>

(* Money or a charge in progress appears or is settled: what                *)
(* montarRequisitos looks at.                                               *)
Movimentar(c) ==
  /\ Gasta("movimentos")
  /\ conta[c].sit = "ATIVO" /\ conta[c].carteira
  /\ conta' = [conta EXCEPT ![c].aberta = ~@]
  /\ UNCHANGED <<docs, dois, link, tokens, ato, relogio, cruzadas, editadas>>
-----------------------------------------------------------------------------
(* The panel.  A token opens it while it lasts and the account may enter.   *)
Abre(t) == relogio < t.exp /\ Habilitada(t.c)
Sessao(s, t, a) ==
  /\ ato[s] = Livre
  /\ t \in tokens /\ Abre(t)
  /\ Ocupa(s, a)
  /\ UNCHANGED <<conta, docs, dois, link, tokens, relogio, cruzadas, editadas>>

Token(c, dura, inicio, entrou) ==
  [c |-> c, iat |-> relogio, exp |-> relogio + dura, inicio |-> inicio, login |-> entrou]

Login(c) ==
  /\ Gasta("entradas")
  /\ Habilitada(c) /\ ~conta[c].provisoria
  /\ tokens' = tokens \cup {Token(c, Duracao, relogio, relogio)}
  /\ UNCHANGED <<conta, docs, dois, link, ato, relogio, cruzadas, editadas>>

(* Half of its life must be spent, and what is left of the session bounds   *)
(* the new token, which keeps the start of the session.                     *)
RenovacaoPermitida(t) == 2 * (relogio - t.iat) >= t.exp - t.iat
Inicio_agora(t) == relogio  \* mutant: the renewed token starts a session
Inicio(t) == t.inicio
Renovar(t) ==
  LET resta == t.inicio + Teto - relogio
      dura == IF resta < Duracao THEN resta ELSE Duracao
  IN /\ Gasta("renovacoes")
     /\ t \in tokens /\ Abre(t)
     /\ RenovacaoPermitida(t)
     /\ resta > Margem
     /\ tokens' = tokens \cup {Token(t.c, dura, Inicio(t), t.login)}
     /\ UNCHANGED <<conta, docs, dois, link, ato, relogio, cruzadas, editadas>>

(* encerrar: everything is checked when read, and committed later; the      *)
(* credentials go in the same commit.                                       *)
PedirEncerramento(s, t) ==
  /\ Gasta("decisoes")
  /\ ~conta[t.c].aberta
  /\ Sessao(s, t, [op |-> "encerrar", c |-> t.c])
Encerrar(s) ==
  /\ ato[s].op = "encerrar"
  /\ conta' = [conta EXCEPT ![ato[s].c].sit = "ENCERRADO"]
  /\ Comita(s)
  /\ UNCHANGED <<docs, dois, link, tokens, relogio, editadas, orc>>
-----------------------------------------------------------------------------
(* Passwords: a reset link, the exchange of a provisional one, a change     *)
(* from the panel and the administrator's reset.                            *)
Esqueci(c) ==
  /\ Gasta("senhas")
  /\ Existe(c) /\ ~conta[c].bloq
  /\ link' = [link EXCEPT ![c] = [n |-> @.n + 1, expira |-> relogio + Validade, usado |-> FALSE]]
  /\ UNCHANGED <<conta, docs, dois, tokens, ato, relogio, cruzadas, editadas>>
AbrirLink(s, c) ==
  /\ ato[s] = Livre
  /\ ~link[c].usado /\ relogio <= link[c].expira
  /\ Ocupa(s, [op |-> "redefinir", c |-> c, n |-> link[c].n])
  /\ UNCHANGED <<conta, docs, dois, link, tokens, relogio, cruzadas, editadas, orc>>
PedirTroca(s, c) ==
  /\ ato[s] = Livre
  /\ Existe(c) /\ conta[c].provisoria
  /\ Ocupa(s, [op |-> "trocar", c |-> c])
  /\ UNCHANGED <<conta, docs, dois, link, tokens, relogio, cruzadas, editadas, orc>>
PedirSenha(s, t) == Gasta("senhas") /\ Sessao(s, t, [op |-> "trocar", c |-> t.c])

GravarSenha(s) ==
  LET a == ato[s] IN
  /\ a.op \in {"redefinir", "trocar"}
  /\ conta' = [conta EXCEPT ![a.c].provisoria = FALSE,
                            ![a.c].bloq = @ /\ a.op = "trocar"]
  /\ link' = [link EXCEPT ![a.c].usado = @ \/ (a.op = "redefinir" /\ a.n = link[a.c].n)]
  /\ Ocupa(s, Livre)
  /\ UNCHANGED <<docs, dois, tokens, relogio, cruzadas, editadas, orc>>
ResetarSenha(c) ==
  /\ Gasta("senhas")
  /\ Existe(c)
  /\ conta' = [conta EXCEPT ![c].provisoria = TRUE, ![c].bloq = FALSE]
  /\ UNCHANGED <<docs, dois, link, tokens, ato, relogio, cruzadas, editadas>>
-----------------------------------------------------------------------------
(* The second factor: a secret is stored, a code of it turns it on, the     *)
(* owner or an administrator turns it off.                                  *)
PedirFator(s, t) ==
  /\ Gasta("fatores")
  /\ \/ ~dois[t.c].ligado /\ Sessao(s, t, [op |-> "iniciar", c |-> t.c, n |-> orc.fatores])
     \/ dois[t.c].segredo # 0 /\ Sessao(s, t, [op |-> "confirmar", c |-> t.c])
     \/ dois[t.c].ligado /\ Sessao(s, t, [op |-> "desligar", c |-> t.c])
Resetar2fa(s, c) ==
  /\ ato[s] = Livre
  /\ Gasta("fatores")
  /\ dois[c].ligado
  /\ Ocupa(s, [op |-> "desligar", c |-> c])
  /\ UNCHANGED <<conta, docs, dois, link, tokens, relogio, cruzadas, editadas>>
GravarFator(s) ==
  LET a == ato[s] IN
  /\ a.op \in {"iniciar", "confirmar", "desligar"}
  /\ dois' = [dois EXCEPT ![a.c] =
       CASE a.op = "iniciar"   -> [@ EXCEPT !.segredo = a.n]
         [] a.op = "confirmar" -> [@ EXCEPT !.ligado = TRUE]
         [] a.op = "desligar"  -> [ligado |-> FALSE, segredo |-> 0]]
  /\ Ocupa(s, Livre)
  /\ UNCHANGED <<conta, docs, link, tokens, relogio, cruzadas, editadas, orc>>
-----------------------------------------------------------------------------
(* A request dies before its commit.                                        *)
Interromper(s) ==
  /\ ato[s] # Livre
  /\ Ocupa(s, Livre)
  /\ UNCHANGED <<conta, docs, dois, link, tokens, relogio, cruzadas, editadas, orc>>
Passar ==
  /\ Gasta("tempo")
  /\ relogio < MaxRelogio
  /\ relogio' = relogio + 1
  /\ UNCHANGED <<conta, docs, dois, link, tokens, ato, cruzadas, editadas>>

PassoConta ==
  \/ \E c \in Contas :
       \/ Cadastro(c) \/ EditarTipo(c) \/ Movimentar(c) \/ Login(c)
       \/ Esqueci(c) \/ ResetarSenha(c)
  \/ \E s \in Sessoes, c \in Contas :
       \/ \E t \in TiposDoc : Enviar(s, c, t) \/ Subir(s, c, t)
       \/ \E d \in docs[c], n \in {"VALIDO", "INVALIDO"} : Validar(s, c, d, n)
       \/ PedirAtivacao(s, c) \/ PedirReprovacao(s, c)
       \/ \E n \in Decididas : PedirSituacao(s, c, n)
       \/ AbrirLink(s, c) \/ PedirTroca(s, c) \/ Resetar2fa(s, c)
  \/ \E s \in Sessoes :
       \/ Reavaliar(s) \/ GravarDocumento(s) \/ GravarDecisao(s)
       \/ GravarSenha(s) \/ GravarFator(s) \/ Interromper(s)
       \/ \E t \in tokens : PedirEncerramento(s, t) \/ PedirSenha(s, t) \/ PedirFator(s, t)
  \/ \E t \in tokens : Renovar(t)
  \/ Passar
-----------------------------------------------------------------------------
(* The approval queue follows the documents: an account waits for documents *)
(* only while one is missing, and is in analysis only when none is, whoever *)
(* sent, uploaded or refused the last one, in whatever order and with       *)
(* whatever request dead half way.  The two ways out the code leaves: a     *)
(* commit between another handler's read and commit (where NaFilaSoCompleta *)
(* fails), and a change of tipoPessoa (reavaliarSituacoes).                 *)
AnaliseAcompanhaDocumentos ==
  \A c \in Contas \ (cruzadas \cup editadas) :
    /\ conta[c].sit = "PENDENTE" => Faltantes(conta[c].tipo, docs[c]) # {}
    /\ conta[c].sit = "EM_ANALISE" => Faltantes(conta[c].tipo, docs[c]) = {}

(* What validar is meant to give ("sem isto ela seguiria na fila de         *)
(* aprovação sem a documentação exigida", admin-documentos.controller.ts:   *)
(* 213), and the code does not keep when a refusal and a sending cross.     *)
NaFilaSoCompleta ==
  \A c \in Contas \ editadas :
    conta[c].sit = "EM_ANALISE" => Faltantes(conta[c].tipo, docs[c]) = {}

(* However often it is renewed, a session ends at its ceiling after the     *)
(* login that opened it (renovar copies inicioSessao and shortens the last  *)
(* token).                                                                  *)
SessaoTemTeto == \A t \in tokens : t.exp <= t.login + Teto

(* What a request holds between its read and its commit.                    *)
Operacoes == {"documento", "gravarDocumento", "ativar", "reprovar", "situacao",
              "encerrar", "redefinir", "trocar", "iniciar", "confirmar", "desligar",
              "rotacionar", "pix"}
LinhaOK(d) == d = [id |-> d.id, tipo |-> d.tipo, sit |-> d.sit] /\ d.tipo \in TiposDoc
AtoOK(a) ==
  \/ a = Livre
  \/ /\ a.op \in Operacoes /\ a.c \in Contas
     /\ a.op \in {"documento", "gravarDocumento"} => LinhaOK(a.nova)
     /\ a.op = "gravarDocumento" => a.sit \in {"PENDENTE", "EM_ANALISE", "igual"}
     /\ a.op \in {"ativar", "reprovar", "situacao"} => a.sit \in Decididas \cup {"REPROVADO"}

(* A token belongs to the session its login opened.                         *)
SessaoInv ==
  /\ relogio \in Nat
  /\ \A t \in tokens :
       /\ t.c \in Contas /\ t.login \in Nat /\ t.exp \in Nat
       /\ t.inicio = t.login /\ t.exp <= t.login + Teto

(* What a transaction evaluated still holds when it commits, unless another *)
(* commit crossed it; an account is born with no document and no request.   *)
CadastroInv ==
  /\ DOMAIN ato = Sessoes /\ \A s \in Sessoes : AtoOK(ato[s])
  /\ DOMAIN docs = Contas /\ \A c \in Contas : \A d \in docs[c] : LinhaOK(d)
  /\ cruzadas \subseteq Contas /\ editadas \subseteq Contas
  /\ \A c \in Contas : ~Existe(c) =>
       /\ docs[c] = {}
       /\ \A s \in Sessoes : ato[s].op \in NoCadastro \cup {"documento"} => ato[s].c # c
  /\ \A s \in Sessoes :
       ato[s].op = "gravarDocumento" /\ ato[s].c \notin cruzadas \cup editadas =>
         ato[s].sit = Reavaliada(ato[s])
  /\ AnaliseAcompanhaDocumentos
=============================================================================
