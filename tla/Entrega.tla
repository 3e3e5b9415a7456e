------------------------------ MODULE Entrega ------------------------------
(***************************************************************************)
(* From the outbox to the merchant.  Events of one sale are committed by   *)
(* the business code; the publisher (a tick and the direct job of an       *)
(* event, at once) claims them and enqueues a callback job; workers post   *)
(* to every destination and a failure runs the whole job again; connected  *)
(* apps get a row per event, reserved with the claim, and jobs of their    *)
(* own.  Queues may lose an enqueue, processes may die anywhere.           *)
(***************************************************************************)
EXTENDS Integers, FiniteSets, FiniteSetsExt

CONSTANTS
  Eventos,        \* events of the sale, numbered in the order they happen
  DosApps,        \* those with an entry in EVENTO_INTEGRACAO
  Destinos,       \* panel webhooks and urlCallback, one per distinct url
  Apps,           \* active integrations of the merchant
  Publicadores, Entregadores, Remetentes,  \* workers of queues 5, 2 and 11, 12
  MaxJobs,        \* callback jobs that may exist (bound)
  MaxTentativas,  \* attempts of a job
  Orcamentos      \* bounds of one behaviour: the events of the sale, failures
                  \* (lost enqueues, failed posts, deaths), resends, switches

ASSUME EntregaAssumption ==
  /\ Eventos \subseteq Nat /\ IsFiniteSet(Eventos) /\ DosApps \subseteq Eventos
  /\ MaxTentativas \in Nat \ {0} /\ MaxJobs \in Nat
  /\ Orcamentos \subseteq [eventos : Nat, falhas : Nat, reenvios : Nat, trocas : Nat]

VARIABLES
  outbox,      \* [Eventos -> "nenhum" | "novo" | "publicado"]
  pub,         \* [Publicadores -> candidates read, events claimed]
  perdidos,    \* events whose publisher died after the claim (history)
  job,         \* [Jobs -> [sit, ev, tent]], the jobs of queues 2 and 11
  ent,         \* [Entregadores -> the job, the destinations left, an error]
  recebeu,     \* [Destinos -> events received]
  envio,       \* [Eventos \X Apps -> row of envios_integracao]
  filaApp,     \* [Eventos \X Apps -> attempts left of its jobs, 0 for none]
  rem,         \* [Remetentes -> <<the row, "lendo" | "postou...">>]
  app,         \* [Eventos \X Apps -> what the app got]
  conta,       \* the account is ATIVO
  ligada,      \* [Apps -> integracoes_usuario.ativo]
  houve,       \* resends asked for, and whether anything was switched (history)
  orc          \* what the environment may still do

entrega == <<job, ent, recebeu>>
apps    == <<envio, filaApp, rem, app>>
mundo   == <<conta, ligada, houve>>
vars    == <<outbox, pub, perdidos, entrega, apps, mundo, orc>>

Jobs   == 1..MaxJobs
Envios == Eventos \X Apps
Ocioso == [pc |-> "ocioso"]
Falhar == orc.falhas > 0 /\ orc' = [orc EXCEPT !.falhas = @ - 1]
-----------------------------------------------------------------------------
Init ==
  /\ outbox = [e \in Eventos |-> "nenhum"]
  /\ pub = [p \in Publicadores |-> Ocioso]
  /\ perdidos = {}
  /\ job = [j \in Jobs |-> [sit |-> "nenhum"]]
  /\ ent = [w \in Entregadores |-> Ocioso]
  /\ recebeu = [d \in Destinos |-> {}]
  /\ envio = [x \in Envios |-> "nenhum"]
  /\ filaApp = [x \in Envios |-> 0]
  /\ rem = [r \in Remetentes |-> Ocioso]
  /\ app = [x \in Envios |-> FALSE]
  /\ conta = TRUE
  /\ ligada = [a \in Apps |-> TRUE]
  /\ houve = [reenvios |-> 0, troca |-> FALSE]
  /\ orc \in Orcamentos

(* The business commit writes the outbox row.                               *)
Anunciar(e) ==
  /\ outbox[e] = "nenhum" /\ orc.eventos > 0
  /\ orc' = [orc EXCEPT !.eventos = @ - 1]
  /\ \A f \in Eventos : f < e => outbox[f] # "nenhum"
  /\ outbox' = [outbox EXCEPT ![e] = "novo"]
  /\ UNCHANGED <<pub, perdidos, entrega, apps, mundo>>

(* The publisher reads its candidates: all that wait, or the event of its   *)
(* direct job.                                                              *)
LerCandidatos(p) ==
  /\ pub[p] = Ocioso
  /\ LET novos == {e \in Eventos : outbox[e] = "novo"} IN
     /\ novos # {}
     /\ \E c \in {novos} \cup {{e} : e \in novos} :
          pub' = [pub EXCEPT ![p] = [pc |-> "reivindicar", ler |-> c, meus |-> {}]]
  /\ UNCHANGED <<outbox, perdidos, entrega, apps, mundo, orc>>

(* Claim and reservation of the app rows, in one commit: a row already      *)
(* there is not made again, and one already sent is not enqueued.           *)
Reivindicavel_semCas(e) == TRUE  \* mutant: publicadoRedisEm is not compared
Reivindicavel(e) == outbox[e] = "novo"
Reserva_depois(e) == envio  \* mutant: the claim commits without the rows
Reserva(e) ==
  [x \in Envios |->
     IF x[1] = e /\ e \in DosApps /\ ligada[x[2]] /\ envio[x] = "nenhum"
     THEN "PENDENTE" ELSE envio[x]]
ReivindicarEvento(p) ==
  /\ pub[p].pc = "reivindicar"
  /\ LET c == pub[p] IN
     IF c.ler = {}
     THEN /\ pub' = [pub EXCEPT ![p] = IF c.meus = {} THEN Ocioso
                       ELSE [pc |-> "enfileirar", meus |-> c.meus]]
          /\ UNCHANGED <<outbox, envio>>
     ELSE LET e == Min(c.ler)
              meu == Reivindicavel(e)
          IN /\ outbox' = [outbox EXCEPT ![e] = IF meu THEN "publicado" ELSE @]
             /\ envio' = IF meu THEN Reserva(e) ELSE envio
             /\ pub' = [pub EXCEPT ![p] =
                  [pc |-> "reivindicar", ler |-> c.ler \ {e},
                   meus |-> IF meu THEN c.meus \cup {e} ELSE c.meus]]
  /\ UNCHANGED <<perdidos, entrega, filaApp, rem, app, mundo, orc>>

NovoJob(e) ==
  LET livres == {j \in Jobs : job[j].sit = "nenhum"} IN
  /\ livres # {}
  /\ job' = [job EXCEPT ![Min(livres)] = [sit |-> "espera", ev |-> e, tent |-> 0]]
SemEspera(p, e) ==
  LET meus == pub[p].meus \ {e} IN
  pub' = [pub EXCEPT ![p] = IF meus = {} THEN Ocioso
                             ELSE [pc |-> "enfileirar", meus |-> meus]]

(* The callback job, then the app jobs (their enqueue never throws and may  *)
(* be lost).                                                                *)
Enfileirar(p) ==
  /\ pub[p].pc = "enfileirar"
  /\ LET e == Min(pub[p].meus)
         meus == {x \in Envios : x[1] = e /\ envio[x] \in {"PENDENTE", "FALHA"}}
     IN /\ NovoJob(e)
        /\ SemEspera(p, e)
        /\ \/ /\ filaApp' = [x \in Envios |-> IF x \in meus THEN MaxTentativas
                                              ELSE filaApp[x]]
              /\ UNCHANGED orc
           \/ meus # {} /\ Falhar /\ UNCHANGED filaApp
  /\ UNCHANGED <<outbox, perdidos, ent, recebeu, envio, rem,
                 app, mundo>>

(* Redis refuses, and is assumed to have made no job then: the claim is     *)
(* given back, the reserved rows stay.                                      *)
DevolveClaim_nao(e) == outbox  \* mutant: the claim is kept
DevolveClaim(e) == [outbox EXCEPT ![e] = "novo"]
FalharEnfileirar(p) ==
  /\ pub[p].pc = "enfileirar" /\ Falhar
  /\ LET e == Min(pub[p].meus) IN
     /\ outbox' = DevolveClaim(e)
     /\ SemEspera(p, e)
  /\ UNCHANGED <<perdidos, entrega, apps, mundo>>

CairPublicador(p) ==
  /\ pub[p] # Ocioso /\ Falhar
  /\ perdidos' = perdidos \cup pub[p].meus
  /\ pub' = [pub EXCEPT ![p] = Ocioso]
  /\ UNCHANGED <<outbox, entrega, apps, mundo>>

(* The periodic tick enqueues again the rows that stayed PENDENTE, even one *)
(* whose job is at its POST (a row with a waiting job is taken as young).   *)
Presos == {x \in Envios : envio[x] = "PENDENTE" /\ filaApp[x] = 0}
ReenfileirarPendentes ==
  /\ Presos # {}
  /\ filaApp' = [x \in Envios |-> IF x \in Presos THEN MaxTentativas ELSE filaApp[x]]
  /\ UNCHANGED <<outbox, pub, perdidos, entrega, envio, rem, app,
                 mundo, orc>>
-----------------------------------------------------------------------------
(* A delivery worker starts a job: an account that is not ATIVO has no      *)
(* destination.                                                             *)
IniciarEntrega(w, j) ==
  /\ ent[w] = Ocioso /\ job[j].sit = "espera"
  /\ IF conta
     THEN /\ job' = [job EXCEPT ![j].sit = "ativo"]
          /\ ent' = [ent EXCEPT ![w] =
               [pc |-> "entregar", j |-> j, destinos |-> Destinos, erro |-> FALSE]]
     ELSE job' = [job EXCEPT ![j].sit = "feito"] /\ UNCHANGED ent
  /\ UNCHANGED <<outbox, pub, perdidos, recebeu, apps, mundo, orc>>

(* One POST and its row; the answer may be an error or never come, although *)
(* the merchant got it.  The error is kept and the next destination served. *)
Segue(c, d, ok) == [c EXCEPT !.destinos = @ \ {d}, !.erro = @ \/ ~ok]
Entregar(w, d) ==
  /\ ent[w].pc = "entregar" /\ d \in ent[w].destinos
  /\ LET e == job[ent[w].j].ev IN
     \E ok, chegou \in BOOLEAN :
       /\ ok => chegou
       /\ IF ok THEN UNCHANGED orc ELSE Falhar
       /\ recebeu' = [recebeu EXCEPT ![d] = IF chegou THEN @ \cup {e} ELSE @]
       /\ ent' = [ent EXCEPT ![w] = Segue(@, d, ok)]
  /\ UNCHANGED <<outbox, pub, perdidos, job, apps, mundo>>

(* The loop ends: an error makes BullMQ run the job again, to every         *)
(* destination, until its attempts are used up.                             *)
MaisUma(c) ==
  IF c.tent + 1 < MaxTentativas THEN [c EXCEPT !.sit = "espera", !.tent = @ + 1]
  ELSE [c EXCEPT !.sit = "falhou"]
TerminarEntrega(w) ==
  /\ ent[w].pc = "entregar" /\ ent[w].destinos = {}
  /\ job' = [job EXCEPT ![ent[w].j] =
       IF ent[w].erro THEN MaisUma(@) ELSE [@ EXCEPT !.sit = "feito"]]
  /\ ent' = [ent EXCEPT ![w] = Ocioso]
  /\ UNCHANGED <<outbox, pub, perdidos, recebeu, apps, mundo, orc>>

CairEntregador(w) ==
  /\ ent[w] # Ocioso /\ Falhar
  /\ job' = [job EXCEPT ![ent[w].j] = MaisUma(@)]
  /\ ent' = [ent EXCEPT ![w] = Ocioso]
  /\ UNCHANGED <<outbox, pub, perdidos, recebeu, apps, mundo>>

(* solicitar: the last event of the sale is delivered once more.            *)
Reenviar ==
  /\ orc.reenvios > 0
  /\ LET criados == {e \in Eventos : outbox[e] # "nenhum"} IN
     criados # {} /\ NovoJob(Max(criados))
  /\ orc' = [orc EXCEPT !.reenvios = @ - 1]
  /\ houve' = [houve EXCEPT !.reenvios = @ + 1]
  /\ UNCHANGED <<outbox, pub, perdidos, ent, recebeu, apps, conta, ligada>>

Trocar ==
  /\ orc.trocas > 0
  /\ houve' = [houve EXCEPT !.troca = TRUE]
  /\ orc' = [orc EXCEPT !.trocas = @ - 1]
  /\ \/ conta' = ~conta /\ UNCHANGED ligada
     \/ \E a \in Apps : ligada' = [ligada EXCEPT ![a] = ~@] /\ UNCHANGED conta
  /\ UNCHANGED <<outbox, pub, perdidos, entrega, apps>>
-----------------------------------------------------------------------------
(* processarEnvio reads the row: sent already, or the integration is off    *)
(* (a failure for good).                                                    *)
IniciarEnvio(r, x) ==
  /\ rem[r] = Ocioso /\ filaApp[x] > 0
  /\ IF envio[x] = "SUCESSO"
     THEN filaApp' = [filaApp EXCEPT ![x] = 0] /\ UNCHANGED <<envio, rem>>
     ELSE IF ~ligada[x[2]]
     THEN /\ filaApp' = [filaApp EXCEPT ![x] = 0]
          /\ envio' = [envio EXCEPT ![x] = "FALHA"]
          /\ UNCHANGED rem
     ELSE /\ rem' = [rem EXCEPT ![r] = [pc |-> "postar", x |-> x]]
          /\ filaApp' = [filaApp EXCEPT ![x] = @ - 1]
          /\ UNCHANGED envio
  /\ UNCHANGED <<outbox, pub, perdidos, entrega, app, mundo, orc>>

(* The POST; then the row: SUCESSO, or FALHA, which is final when the app   *)
(* refused and keeps the job's attempts otherwise.                          *)
Postar(r) ==
  /\ rem[r] # Ocioso /\ rem[r].pc = "postar"
  /\ \E res \in {"ok", "recusa", "erro"}, chegou \in BOOLEAN :
       /\ (res = "ok" => chegou) /\ (res = "recusa" => ~chegou)
       /\ IF res = "ok" THEN UNCHANGED orc ELSE Falhar
       /\ app' = [app EXCEPT ![rem[r].x] = @ \/ chegou]
       /\ rem' = [rem EXCEPT ![r] = [pc |-> res, x |-> @.x]]
  /\ UNCHANGED <<outbox, pub, perdidos, entrega, envio, filaApp, mundo>>
Registrar(r) ==
  /\ rem[r] # Ocioso /\ rem[r].pc # "postar"
  /\ LET x == rem[r].x IN
     /\ envio' = [envio EXCEPT ![x] = IF rem[r].pc = "ok" THEN "SUCESSO" ELSE "FALHA"]
     /\ filaApp' = [filaApp EXCEPT ![x] = IF rem[r].pc = "erro" THEN @ ELSE 0]
  /\ rem' = [rem EXCEPT ![r] = Ocioso]
  /\ UNCHANGED <<outbox, pub, perdidos, entrega, app, mundo, orc>>
CairRemetente(r) ==
  /\ rem[r] # Ocioso /\ Falhar
  /\ rem' = [rem EXCEPT ![r] = Ocioso]
  /\ UNCHANGED <<outbox, pub, perdidos, entrega, envio, filaApp, app,
                 mundo>>

PassoPublicador(p) == LerCandidatos(p) \/ ReivindicarEvento(p) \/ Enfileirar(p)
PassoEntregador(w) ==
  \/ \E j \in Jobs : IniciarEntrega(w, j)
  \/ \E d \in Destinos : Entregar(w, d)
  \/ TerminarEntrega(w)
PassoRemetente(r) == Postar(r) \/ Registrar(r) \/ \E x \in Envios : IniciarEnvio(r, x)

Next ==
  \/ \E e \in Eventos : Anunciar(e)
  \/ \E p \in Publicadores : PassoPublicador(p) \/ FalharEnfileirar(p) \/ CairPublicador(p)
  \/ ReenfileirarPendentes
  \/ \E w \in Entregadores : PassoEntregador(w) \/ CairEntregador(w)
  \/ Reenviar
  \/ Trocar
  \/ \E r \in Remetentes : PassoRemetente(r) \/ CairRemetente(r)

Spec == Init /\ [][Next]_vars

(* The outbox tick comes every 5 s and sweeps PENDENTE too; workers take    *)
(* what waits and go on with what they took.                                *)
SpecJusta ==
  /\ Spec
  /\ \A p \in Publicadores : WF_vars(PassoPublicador(p))
  /\ WF_vars(ReenfileirarPendentes)
  /\ \A w \in Entregadores : WF_vars(PassoEntregador(w))
  /\ \A r \in Remetentes : WF_vars(PassoRemetente(r))
-----------------------------------------------------------------------------
JobsDe(e) == {j \in Jobs : job[j].sit # "nenhum" /\ job[j].ev = e}

TypeOK ==
  /\ outbox \in [Eventos -> {"nenhum", "novo", "publicado"}]
  /\ perdidos \subseteq Eventos
  /\ recebeu \in [Destinos -> SUBSET Eventos]
  /\ envio \in [Envios -> {"nenhum", "PENDENTE", "SUCESSO", "FALHA"}]
  /\ filaApp \in [Envios -> 0..MaxTentativas]

(* The tick and the direct job of an event never both announce it: beyond   *)
(* the resends asked for, an event has one callback job (the comment of the *)
(* claim: without it the merchant gets the callback many times).            *)
PublicaUmaVez ==
  \A e \in Eventos : Cardinality(JobsDe(e)) <= 1 + houve.reenvios

(* Every event reaches every destination in the end, unless its job used up *)
(* its attempts or the publisher died between the claim and the enqueue;    *)
(* nothing is asked once the account or an app was switched (a job that     *)
(* finds the account not ATIVO ends without a post).                        *)
EventoChega ==
  []<>(\A e \in Eventos :
         \/ outbox[e] = "nenhum"
         \/ e \in perdidos
         \/ \E j \in JobsDe(e) : job[j].sit = "falhou"
         \/ houve.troca
         \/ \A d \in Destinos : e \in recebeu[d])

(* A sale announced to the merchant is announced to every app that was on   *)
(* all along, whoever dies and whichever enqueue is lost: its row exists    *)
(* and ends in SUCESSO or FALHA, never silently PENDENTE.                   *)
AppSabe ==
  []<>(\A x \in Envios :
         (x[1] \in DosApps /\ outbox[x[1]] = "publicado" /\ ~houve.troca) =>
           /\ envio[x] \in {"SUCESSO", "FALHA"}
           /\ envio[x] = "SUCESSO" => app[x])

(* What each worker holds; an event is announced by one publisher, which    *)
(* holds the right to make its job from the claim to the enqueue, and gives *)
(* the right back with the claim.                                           *)
Meus(p) == IF pub[p] = Ocioso THEN {} ELSE pub[p].meus
EmMaos(e) == \E p \in Publicadores : e \in Meus(p)
JobDe == [sit : {"espera", "ativo", "feito", "falhou"}, ev : Eventos, tent : Nat]
PubOK(r) ==
  \/ r = Ocioso
  \/ /\ r.pc = "reivindicar" /\ r = [pc |-> "reivindicar", ler |-> r.ler, meus |-> r.meus]
     /\ r.ler \subseteq Eventos /\ r.meus \subseteq Eventos
  \/ /\ r.pc = "enfileirar" /\ r = [pc |-> "enfileirar", meus |-> r.meus]
     /\ r.meus \subseteq Eventos /\ r.meus # {}
EntregaInv ==
  /\ TypeOK
  /\ houve = [reenvios |-> houve.reenvios, troca |-> houve.troca] /\ houve.reenvios \in Nat
  /\ DOMAIN pub = Publicadores /\ \A p \in Publicadores : PubOK(pub[p])
  /\ \A p \in Publicadores : \A e \in Meus(p) : outbox[e] = "publicado"
  /\ \A p, q \in Publicadores : p # q => Meus(p) \cap Meus(q) = {}
  /\ DOMAIN job = Jobs /\ \A j \in Jobs : job[j] = [sit |-> "nenhum"] \/ job[j] \in JobDe
  /\ DOMAIN ent = Entregadores
  /\ \A w \in Entregadores : ent[w] # Ocioso =>
       /\ ent[w] = [pc |-> "entregar", j |-> ent[w].j, destinos |-> ent[w].destinos,
                    erro |-> ent[w].erro]
       /\ ent[w].j \in Jobs /\ job[ent[w].j].sit # "nenhum"
  /\ DOMAIN rem = Remetentes
  /\ \A r \in Remetentes : rem[r] # Ocioso =>
       rem[r] = [pc |-> rem[r].pc, x |-> rem[r].x] /\ rem[r].x \in Envios
  /\ PublicaUmaVez
  /\ \A e \in Eventos : outbox[e] # "publicado" \/ EmMaos(e) =>
       Cardinality(JobsDe(e)) <= houve.reenvios
=============================================================================
