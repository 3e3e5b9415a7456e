------------------------------ MODULE Vitrine ------------------------------
(***************************************************************************)
(* Which adquirente receives the PIX of each client.  An adquirente is in  *)
(* circulation or not, open to all clients or to some by name; clients     *)
(* choose among those they may use; administrators activate clients, edit  *)
(* their configuration, revoke, close, take out of circulation and move    *)
(* clients in mass.  Handlers read first and commit later, and run at once.*)
(***************************************************************************)
EXTENDS Integers, FiniteSets, Sequences, FiniteSetsExt

CONSTANTS
  Adqs,       \* adquirentes, each with one account (garantirContaPadrao)
  Clientes,   \* merchants
  Novos,      \* those not activated yet, without a configuration
  Sessoes,    \* requests of clients and administrators at work
  Padrao,     \* the adquirente of configuracaoPadrao at start
  Cadeias     \* contingency chains an administrator defines, the first at start

ASSUME VitrineAssumption ==
  Cadeias \in Seq(Seq(Adqs)) /\ Cadeias # <<>> /\ Padrao \in Adqs /\ Novos \subseteq Clientes

VARIABLES
  adq,        \* [Adqs -> [ativa, aberta, liberados]]
  uso,        \* [Clientes -> contaProvedorPixEntrada, or Nenhum]
  padrao,     \* contaProvedorPixEntrada of configuracaoPadrao
  ativos,     \* clients whose situacao is ATIVO
  cadeia,     \* contingencia_adquirente in its order
  ato,        \* [Sessoes -> what the handler read and is about to commit]
  orc         \* what the environment may still do (bounds)

vitrine == <<adq, uso, padrao, ativos, cadeia, ato>>

Nenhum == "nenhum"
NoUso(a) == {c \in Clientes : uso[c] = a}
(* estaLiberada: in circulation, and open or freed for this client.         *)
Usavel(c, a) == a \in Adqs /\ adq[a].ativa /\ (adq[a].aberta \/ c \in adq[a].liberados)
(* The nominal release of those moved to a, when it is open to some only.   *)
Libera(a, cs) ==
  IF adq[a].aberta THEN adq ELSE [adq EXCEPT ![a].liberados = @ \cup cs]
Sem == [pc |-> "livre"]
Pega(s, r) == ato' = [ato EXCEPT ![s] = r]
Solta(s) == Pega(s, Sem)
Gasta(campo) == orc[campo] > 0 /\ orc' = [orc EXCEPT ![campo] = @ - 1]
-----------------------------------------------------------------------------
VitrineInit ==
  /\ adq \in [Adqs -> [ativa : {TRUE}, aberta : {TRUE}, liberados : {{}}]]
  /\ uso = [c \in Clientes |-> IF c \in Novos THEN Nenhum ELSE Padrao]
  /\ padrao = Padrao
  /\ ativos = Clientes \ Novos
  /\ cadeia = Cadeias[1]
  /\ ato = [s \in Sessoes |-> Sem]

(* escolherPixEntrada: checked, then written.                               *)
Escolher(s, c, a) ==
  /\ ato[s] = Sem /\ Gasta("escolhas")
  /\ c \in ativos /\ Usavel(c, a)
  /\ Pega(s, [pc |-> "escolher", a |-> a, quem |-> {c}])
  /\ UNCHANGED <<adq, uso, padrao, ativos, cadeia>>
GravarEscolha(s) ==
  /\ ato[s].pc = "escolher"
  /\ uso' = [c \in Clientes |-> IF c \in ato[s].quem THEN ato[s].a ELSE uso[c]]
  /\ Solta(s)
  /\ UNCHANGED <<adq, padrao, ativos, cadeia, orc>>

(* ativar: the default and its availability are read, then the new client   *)
(* gets it, unless he has a configuration already, and its nominal release. *)
(* Whether it is in circulation is not asked.                               *)
Ativar(s, c) ==
  /\ ato[s] = Sem /\ c \notin ativos /\ Gasta("ativacoes")
  /\ Pega(s, [pc |-> "ativar", a |-> padrao, quem |-> {c}, libera |-> ~adq[padrao].aberta])
  /\ UNCHANGED <<adq, uso, padrao, ativos, cadeia>>
GravarAtivacao(s) ==
  /\ ato[s].pc = "ativar"
  /\ LET r == ato[s] IN
     /\ uso' = [c \in Clientes |-> IF c \in r.quem /\ uso[c] = Nenhum THEN r.a ELSE uso[c]]
     /\ adq' = IF r.libera THEN [adq EXCEPT ![r.a].liberados = @ \cup r.quem] ELSE adq
     /\ ativos' = ativos \cup r.quem
  /\ Solta(s)
  /\ UNCHANGED <<padrao, cadeia, orc>>

(* editarConfig: the adquirente asked for (not asked whether it is in       *)
(* circulation), else the one read, else the default.  Only the one asked   *)
(* for is freed, in a commit of its own, and then the row is written.       *)
EditarConfig(s, c, pedida) ==
  /\ ato[s] = Sem /\ Gasta("fichas")
  /\ Pega(s, [pc |-> IF pedida # Nenhum THEN "liberarFicha" ELSE "ficha",
              a |-> IF pedida # Nenhum THEN pedida
                    ELSE IF uso[c] # Nenhum THEN uso[c] ELSE padrao,
              quem |-> {c}])
  /\ UNCHANGED <<adq, uso, padrao, ativos, cadeia>>
LiberarFicha(s) ==
  /\ ato[s].pc = "liberarFicha"
  /\ adq' = Libera(ato[s].a, ato[s].quem)
  /\ Pega(s, [pc |-> "ficha", a |-> ato[s].a, quem |-> ato[s].quem])
  /\ UNCHANGED <<uso, padrao, ativos, cadeia, orc>>
GravarFicha(s) ==
  /\ ato[s].pc = "ficha"
  /\ uso' = [c \in Clientes |-> IF c \in ato[s].quem THEN ato[s].a ELSE uso[c]]
  /\ Solta(s)
  /\ UNCHANGED <<adq, padrao, ativos, cadeia, orc>>

(* editarConfigPadrao: only to one in circulation.                          *)
EditarPadrao(a) ==
  /\ adq[a].ativa /\ a # padrao /\ Gasta("admin")
  /\ padrao' = a
  /\ UNCHANGED <<adq, uso, ativos, cadeia, ato>>

LiberarCliente(c, a) ==
  /\ c \notin adq[a].liberados /\ Gasta("admin")
  /\ adq' = [adq EXCEPT ![a].liberados = @ \cup {c}]
  /\ UNCHANGED <<uso, padrao, ativos, cadeia, ato>>

(* aplicarSubstituicoes, inside the caller's commit: every client in use    *)
(* now needs a destination in circulation other than the one that leaves,   *)
(* and a destination open to some frees him.                                *)
Destinos_pedidos(a, para) ==  \* mutant: who has no destination is passed over
  \A c \in NoUso(a) \cap DOMAIN para : para[c] # a /\ adq[para[c]].ativa
Destinos(a, para) ==
  /\ NoUso(a) \subseteq DOMAIN para
  /\ \A c \in NoUso(a) : para[c] # a /\ adq[para[c]].ativa
Movidos(a, para) == NoUso(a) \cap DOMAIN para
UsoApos(a, para) == [c \in Clientes |-> IF c \in Movidos(a, para) THEN para[c] ELSE uso[c]]
LiberadosApos(a, para) ==
  [b \in Adqs |-> IF adq[b].aberta THEN adq[b]
     ELSE [adq[b] EXCEPT !.liberados = @ \cup {c \in Movidos(a, para) : para[c] = b}]]

(* An administrator's handler reads who uses the adquirente (revogar and    *)
(* remanejarAntesDeTirarDeCirculacao do so before their commit).            *)
Pedir(s, acao, a, quem) ==
  /\ ato[s] = Sem /\ Gasta(IF acao = "tirar" THEN "saidas" ELSE "admin")
  /\ Pega(s, [pc |-> acao, a |-> a, quem |-> quem, emUso |-> NoUso(a) \cap quem])
  /\ UNCHANGED <<adq, uso, padrao, ativos, cadeia>>

(* revogar: substitution only if the client was in use when it was read;    *)
(* refused when somebody else is there too.                                 *)
GravarRevogacao(s) ==
  /\ ato[s].pc = "revogar"
  /\ LET r == ato[s] IN
     \/ /\ r.emUso = {}
        /\ adq' = [adq EXCEPT ![r.a].liberados = @ \ r.quem]
        /\ UNCHANGED uso
     \/ /\ r.emUso # {}
        /\ \E b \in Adqs :
             LET para == [c \in r.quem |-> b] IN
             /\ Destinos(r.a, para)
             /\ uso' = UsoApos(r.a, para)
             /\ adq' = [LiberadosApos(r.a, para) EXCEPT ![r.a].liberados = @ \ r.quem]
     \/ r.emUso # {} /\ UNCHANGED <<adq, uso>>
  /\ Solta(s)
  /\ UNCHANGED <<padrao, ativos, cadeia, orc>>

(* Out of circulation (situacao, or permitePixEntrada off): nobody was      *)
(* there when it was read, or all who are there now are moved, if the       *)
(* request names a destination for each.                                    *)
GravarSaida(s) ==
  /\ ato[s].pc = "tirar"
  /\ LET a == ato[s].a IN
     \/ /\ ato[s].emUso = {}
        /\ adq' = [adq EXCEPT ![a].ativa = FALSE]
        /\ UNCHANGED uso
     \/ /\ ato[s].emUso # {}
        /\ \E pedidos \in SUBSET Clientes : \E para \in [pedidos -> Adqs] :
             /\ Destinos(a, para)
             /\ uso' = UsoApos(a, para)
             /\ adq' = [LiberadosApos(a, para) EXCEPT ![a].ativa = FALSE]
     \/ ato[s].emUso # {} /\ UNCHANGED <<adq, uso>>
  /\ Solta(s)
  /\ UNCHANGED <<padrao, ativos, cadeia, orc>>
VoltarACircular(a) ==
  /\ ~adq[a].ativa /\ Gasta("saidas")
  /\ adq' = [adq EXCEPT ![a].ativa = TRUE]
  /\ UNCHANGED <<uso, padrao, ativos, cadeia, ato>>

(* editarVitrine: closing moves those in use and not freed by name, but     *)
(* only their substitutions are passed on: with anybody freed in use too it *)
(* is refused.                                                              *)
Fechar(a) ==
  /\ adq[a].aberta /\ Gasta("admin")
  /\ LET orfaos == NoUso(a) \ adq[a].liberados IN
     IF orfaos = {}
     THEN adq' = [adq EXCEPT ![a].aberta = FALSE] /\ UNCHANGED uso
     ELSE \E para \in [orfaos -> Adqs] :
            /\ Destinos(a, para)
            /\ uso' = UsoApos(a, para)
            /\ adq' = [LiberadosApos(a, para) EXCEPT ![a].aberta = FALSE]
  /\ UNCHANGED <<padrao, ativos, cadeia, ato>>
Abrir(a) ==
  /\ ~adq[a].aberta /\ Gasta("admin")
  /\ adq' = [adq EXCEPT ![a].aberta = TRUE]
  /\ UNCHANGED <<uso, padrao, ativos, cadeia, ato>>

(* alternar-massa: those on one adquirente, or all (de = Nenhum), and the   *)
(* default with them.  The destination's account must be ready, its         *)
(* adquirente need not be in circulation.                                   *)
DaOrigem(de, b) == b # Nenhum /\ de \in {Nenhum, b}
AlternarMassa(de, para) ==
  /\ de # para /\ Gasta("massas")
  /\ uso' = [c \in Clientes |-> IF DaOrigem(de, uso[c]) THEN para ELSE uso[c]]
  /\ padrao' = IF DaOrigem(de, padrao) THEN para ELSE padrao
  /\ adq' = Libera(para, {c \in Clientes : DaOrigem(de, uso[c])})
  /\ UNCHANGED <<ativos, cadeia, ato>>

DefinirCadeia ==
  /\ Gasta("cadeias")
  /\ \E i \in DOMAIN Cadeias : cadeia' = Cadeias[i]
  /\ UNCHANGED <<adq, uso, padrao, ativos, ato>>

PassoVitrine(s) ==
  \/ \E c \in Clientes :
       \/ Ativar(s, c)
       \/ \E a \in Adqs : Escolher(s, c, a) \/ Pedir(s, "revogar", a, {c})
       \/ \E a \in Adqs \cup {Nenhum} : EditarConfig(s, c, a)
  \/ \E a \in Adqs : Pedir(s, "tirar", a, Clientes)
  \/ GravarEscolha(s) \/ GravarAtivacao(s) \/ LiberarFicha(s) \/ GravarFicha(s)
  \/ GravarRevogacao(s) \/ GravarSaida(s)
PassoAdmin ==
  \/ \E a \in Adqs : VoltarACircular(a) \/ Abrir(a) \/ Fechar(a) \/ EditarPadrao(a)
  \/ \E a \in Adqs \cup {Nenhum}, b \in Adqs : AlternarMassa(a, b)
  \/ \E a \in Adqs, c \in Clientes : LiberarCliente(c, a)
  \/ DefinirCadeia
-----------------------------------------------------------------------------
VitrineTypeOK ==
  /\ adq \in [Adqs -> [ativa : BOOLEAN, aberta : BOOLEAN, liberados : SUBSET Clientes]]
  /\ uso \in [Clientes -> Adqs \cup {Nenhum}]
  /\ padrao \in Adqs /\ ativos \subseteq Clientes
  /\ cadeia \in Seq(Adqs)

(* What a handler at work holds.                                            *)
AtoOK(r) ==
  \/ r = Sem
  \/ /\ \/ r = [pc |-> r.pc, a |-> r.a, quem |-> r.quem]
           /\ r.pc \in {"escolher", "liberarFicha", "ficha"}
        \/ r = [pc |-> "ativar", a |-> r.a, quem |-> r.quem, libera |-> r.libera]
        \/ r = [pc |-> r.pc, a |-> r.a, quem |-> r.quem, emUso |-> r.emUso]
           /\ r.pc \in {"revogar", "tirar"}
     /\ r.a \in Adqs /\ r.quem \subseteq Clientes
VitrineInv ==
  VitrineTypeOK /\ DOMAIN ato = Sessoes /\ \A s \in Sessoes : AtoOK(ato[s])

(* What revogar says ("ninguem pode ficar sem adquirente de entrada"), and  *)
(* the code does not keep: GravarFicha and AlternarMassa break it alone,    *)
(* and so do a choice and an exit that cross.                               *)
NinguemSemAdquirente == \A c \in ativos : Usavel(c, uso[c])

(* aplicarSubstituicoes moves everybody or nobody ("ou tudo remaneja e a    *)
(* adquirente sai, ou nada acontece"): a commit that takes an adquirente    *)
(* from some and moves anybody off it leaves none of its clients without    *)
(* one, those who came to it after the handler read who uses it included.   *)
Tira(a) == \E c \in Clientes : Usavel(c, a) /\ ~Usavel(c, a)'
Remaneja(a) == \E c \in Clientes : uso[c] = a /\ uso'[c] # a
TudoOuNada ==
  \A a \in Adqs :
    Tira(a) /\ Remaneja(a) => \A c \in Clientes : uso[c] = a => Usavel(c, uso[c])'
RemanejaTudoOuNada == [][TudoOuNada]_vitrine
=============================================================================
