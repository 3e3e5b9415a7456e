----------------------------- MODULE Tesouraria -----------------------------
(***************************************************************************)
(* Automatic withdrawal of the house's money left at the adquirentes.  A   *)
(* tick (queue saque automatico) refreshes the balances, reconciles what   *)
(* was sent, evaluates the triggers and sends what it created; the panel   *)
(* dispatches by hand through a job.  Several workers run at once.         *)
(***************************************************************************)
EXTENDS Vitrine

CONSTANTS
  Gatilhos,        \* triggers, a sequence in the order (ordem, id)
  Operarios,       \* workers and panel requests at work
  MaxRelogio       \* bound: the last minute of a run

ASSUME TesourariaAssumption ==
  /\ \A i \in DOMAIN Gatilhos :
       /\ Gatilhos[i].conta \in Adqs
       /\ {Gatilhos[i].gatilho, Gatilhos[i].reserva, Gatilhos[i].minimo,
           Gatilhos[i].maximo, Gatilhos[i].intervalo} \subseteq Nat
  /\ MaxRelogio \in Nat

VARIABLES
  caixa,      \* what each adquirente holds for the house (external)
  saldo,      \* saldos_adquirentes: the last known of it
  gat,        \* [trigger -> ultimaExecucaoEm and ativo]
  execs,      \* execucoes_gatilho_saque, by their idempotency key
  ordens,     \* executions whose order the adquirente took (external)
  filaExec,   \* jobs of the panel's dispatches and their attempts left
  oper,       \* where each worker is
  relogio

tesouraria == <<caixa, saldo, gat, execs, ordens, filaExec, oper, relogio>>
NG == DOMAIN Gatilhos
Conta(g) == Gatilhos[g].conta
Livre == [pc |-> "livre"]
Passa(k, r) == oper' = [oper EXCEPT ![k] = r]
Nunca == 0   \* ultimaExecucaoEm null: marca 0
-----------------------------------------------------------------------------
TesourariaInit ==
  /\ caixa = [a \in Adqs |-> 0] /\ saldo = [a \in Adqs |-> 0]
  /\ gat = [g \in NG |-> [ultima |-> Nunca, ativo |-> TRUE]]
  /\ execs = {} /\ ordens = {} /\ filaExec = {}
  /\ oper = [k \in Operarios |-> Livre]
  /\ relogio = 1

(* calcularPayout: the reserve stays, then the ceiling, then the floor.     *)
Payout(g, disponivel) ==
  LET G == Gatilhos[g]
      livre == disponivel - G.reserva
      p == IF G.maximo > 0 /\ livre > G.maximo THEN G.maximo ELSE livre
  IN IF disponivel < G.gatilho \/ p <= 0 \/ p < G.minimo THEN 0 ELSE p
JanelaLiberada(g, ultima, agora) ==
  ultima = Nunca \/ agora - ultima >= Gatilhos[g].intervalo

(* criarExecucao: the key of the last dispatch read is reserved by a unique *)
(* index; the same commit moves ultimaExecucaoEm.                           *)
Marca_agora(ultima, agora) == agora  \* mutant: the key is of now, not of what was read
Marca(ultima, agora) == ultima
Execucao(g, origem, ultima, agora, valor) ==
  [g |-> g, origem |-> origem, marca |-> Marca(ultima, agora), agora |-> agora,
   valor |-> valor, sit |-> "PENDENTE"]
Chave(e) == <<e.g, e.origem, e.marca>>
Reservada(e) == \E f \in execs : Chave(f) = Chave(e)
Cria(e) ==
  /\ execs' = execs \cup {e}
  /\ gat' = [gat EXCEPT ![e.g].ultima = e.agora]
Muda(c, sit) == execs' = {IF Chave(e) = c THEN [e EXCEPT !.sit = sit] ELSE e : e \in execs}
Exec(c) == CHOOSE e \in execs : Chave(e) = c

(* atualizarSaldo: the snapshot, or what it was when the adquirente fails.  *)
Atualiza(as) ==
  saldo' \in {[a \in Adqs |-> IF a \in bons THEN caixa[a] ELSE saldo[a]] : bons \in SUBSET as}
-----------------------------------------------------------------------------
(* A tick: atualizarTodosSaldos, then reconciliarPendentes.                 *)
Apurada(e, feitas, falhas) ==
  IF e \in feitas THEN [e EXCEPT !.sit = "CONCLUIDA"]
  ELSE IF e \in falhas THEN [e EXCEPT !.sit = "FALHA"] ELSE e
Tick(k) ==
  /\ oper[k] = Livre /\ Gasta("ticks")
  /\ Atualiza({a \in Adqs : adq[a].ativa})
  /\ \E feitas, falhas \in SUBSET {e \in execs : e.sit = "ENVIADA"} :
       /\ feitas \cap falhas = {}
       /\ execs' = {Apurada(e, feitas, falhas) : e \in execs}
  /\ Passa(k, [pc |-> "avaliar"])
  /\ UNCHANGED <<vitrine, caixa, gat, ordens, filaExec, relogio>>

(* avaliarGatilhos reads accounts, balances and triggers in one query.      *)
Elegivel(g) ==
  /\ gat[g].ativo /\ adq[Conta(g)].ativa
  /\ JanelaLiberada(g, gat[g].ultima, relogio)
  /\ Payout(g, saldo[Conta(g)]) > 0
Candidata(g) == Execucao(g, "AUTOMATICO", gat[g].ultima, relogio, Payout(g, saldo[Conta(g)]))
Avaliar(k) ==
  /\ oper[k].pc = "avaliar"
  /\ Passa(k, [pc |-> "disparar", criadas |-> <<>>, agora |-> relogio,
               lidas |-> {Candidata(g) : g \in {h \in NG : Elegivel(h)}}])
  /\ UNCHANGED <<vitrine, caixa, saldo, gat, execs, ordens, filaExec, relogio, orc>>

(* One dispatch per account in a round, the triggers taken in their order:  *)
(* the others of the account are left out once one was created; a conflict  *)
(* goes on to the next.                                                     *)
Disparar(k) ==
  /\ oper[k].pc = "disparar"
  /\ LET o == oper[k] IN
     \/ /\ o.lidas = {}
        /\ Passa(k, [pc |-> "enviar", quem |-> "tick", criadas |-> o.criadas])
        /\ UNCHANGED <<gat, execs>>
     \/ \E e \in o.lidas :
          /\ \A f \in o.lidas : e.g <= f.g
          /\ IF Reservada(e)
             THEN Passa(k, [o EXCEPT !.lidas = o.lidas \ {e}]) /\ UNCHANGED <<gat, execs>>
             ELSE /\ Cria(e)
                  /\ Passa(k, [o EXCEPT !.criadas = Append(o.criadas, Chave(e)),
                       !.lidas = {f \in o.lidas : Conta(f.g) # Conta(e.g)}])
  /\ UNCHANGED <<vitrine, caixa, saldo, ordens, filaExec, relogio, orc>>

(* The panel: the trigger is read, the balance asked for, the dispatch      *)
(* created with the same rules of value and no window, and then enqueued.   *)
Manual(k, g) ==
  /\ oper[k] = Livre /\ Gasta("manuais")
  /\ gat[g].ativo /\ adq[Conta(g)].ativa
  /\ saldo' = [saldo EXCEPT ![Conta(g)] = caixa[Conta(g)]]
  /\ Payout(g, caixa[Conta(g)]) > 0
  /\ Passa(k, [pc |-> "manual", g |-> g, ultima |-> gat[g].ultima,
               valor |-> Payout(g, caixa[Conta(g)])])
  /\ UNCHANGED <<vitrine, caixa, gat, execs, ordens, filaExec, relogio>>
CriarManual(k) ==
  /\ oper[k].pc = "manual"
  /\ LET o == oper[k]
         e == Execucao(o.g, "MANUAL", o.ultima, relogio, o.valor)
     IN IF Reservada(e)
        THEN Passa(k, Livre) /\ UNCHANGED <<gat, execs>>
        ELSE Cria(e) /\ Passa(k, [pc |-> "enfileirar", c |-> Chave(e)])
  /\ UNCHANGED <<vitrine, caixa, saldo, ordens, filaExec, relogio, orc>>
Enfileirar(k) ==
  /\ oper[k].pc = "enfileirar"
  /\ filaExec' = filaExec \cup {[c |-> oper[k].c, resta |-> 2]}
  /\ Passa(k, Livre)
  /\ UNCHANGED <<vitrine, caixa, saldo, gat, execs, ordens, relogio, orc>>
PegarJob(k) ==
  /\ oper[k] = Livre
  /\ \E j \in filaExec :
       /\ filaExec' = filaExec \ {j}
       /\ Passa(k, [pc |-> "enviar", quem |-> "job", criadas |-> <<j.c>>, resta |-> j.resta - 1])
  /\ UNCHANGED <<vitrine, caixa, saldo, gat, execs, ordens, relogio, orc>>
-----------------------------------------------------------------------------
(* processarExecucao ended for the head of what this worker has to send: a  *)
(* job that threw is tried again; a tick goes on to the next.               *)
Segue(k, falhou) ==
  LET o == oper[k] IN
  /\ filaExec' = IF falhou /\ o.quem = "job" /\ o.resta > 0
                 THEN filaExec \cup {[c |-> Head(o.criadas), resta |-> o.resta]}
                 ELSE filaExec
  /\ Passa(k, IF Len(o.criadas) > 1 THEN [o EXCEPT !.pc = "enviar", !.criadas = Tail(o.criadas)]
              ELSE Livre)
Parar(k) ==
  /\ oper[k].pc = "enviar" /\ oper[k].criadas = <<>>
  /\ Passa(k, Livre)
  /\ UNCHANGED <<vitrine, caixa, saldo, gat, execs, ordens, filaExec, relogio, orc>>
Pular(k) ==
  /\ oper[k].pc = "enviar" /\ oper[k].criadas # <<>>
  /\ LET e == Exec(Head(oper[k].criadas)) IN
     \/ e.sit # "PENDENTE" /\ Segue(k, FALSE)
     \/ e.sit = "PENDENTE" /\ ~adq[Conta(e.g)].ativa /\ Segue(k, TRUE)
  /\ UNCHANGED <<vitrine, caixa, saldo, gat, execs, ordens, relogio, orc>>

(* The order at the adquirente, under the id of the execution: taken once,  *)
(* and it may be taken though the answer is an error.                       *)
Enviar(k) ==
  /\ oper[k].pc = "enviar" /\ oper[k].criadas # <<>>
  /\ LET c == Head(oper[k].criadas)
         e == Exec(c)
         a == Conta(e.g)
         aceita == /\ ordens' = ordens \cup {c}
                   /\ caixa' = IF c \in ordens THEN caixa
                               ELSE [caixa EXCEPT ![a] = @ - e.valor]
     IN /\ e.sit = "PENDENTE" /\ adq[a].ativa
        /\ \/ /\ c \in ordens \/ caixa[a] >= e.valor
              /\ aceita /\ UNCHANGED orc
              /\ Passa(k, [oper[k] EXCEPT !.pc = "gravarEnviada"])
           \/ /\ caixa[a] >= e.valor /\ Gasta("falhas") /\ aceita
              /\ Passa(k, [oper[k] EXCEPT !.pc = "gravarFalha"])
           \/ /\ c \notin ordens
              /\ \/ caixa[a] < e.valor /\ UNCHANGED orc
                 \/ Gasta("falhas")
              /\ UNCHANGED <<ordens, caixa>>
              /\ Passa(k, [oper[k] EXCEPT !.pc = "gravarFalha"])
  /\ UNCHANGED <<vitrine, saldo, gat, execs, filaExec, relogio>>

(* ENVIADA, the balance again and the status once; or FALHA.                *)
GravarEnvio(k) ==
  /\ LET c == Head(oper[k].criadas) IN
     \/ /\ oper[k].pc = "gravarEnviada"
        /\ \E sit \in {"ENVIADA", "CONCLUIDA", "FALHA"} : Muda(c, sit)
        /\ Atualiza({Conta(c[1])})
        /\ Segue(k, FALSE)
     \/ /\ oper[k].pc = "gravarFalha"
        /\ Muda(c, "FALHA") /\ Segue(k, TRUE)
        /\ UNCHANGED saldo
  /\ UNCHANGED <<vitrine, caixa, gat, ordens, relogio, orc>>

(* A worker dies: what a tick had still to send stays PENDENTE; the job of  *)
(* a panel's dispatch is tried again.                                       *)
Morrer(k) ==
  /\ oper[k] # Livre /\ Gasta("quedas")
  /\ LET o == oper[k] IN
     filaExec' = IF "resta" \in DOMAIN o THEN filaExec \cup {[c |-> Head(o.criadas), resta |-> o.resta]}
                 ELSE filaExec
  /\ Passa(k, Livre)
  /\ UNCHANGED <<vitrine, caixa, saldo, gat, execs, ordens, relogio>>
-----------------------------------------------------------------------------
(* Time, bounded; a worker does not take a whole interval of a trigger      *)
(* between reading it and committing its dispatch.                          *)
Minuto ==
  /\ relogio < MaxRelogio
  /\ \A k \in Operarios : oper[k].pc = "disparar" =>
       \A e \in oper[k].lidas :
         \/ Gatilhos[e.g].intervalo = 0
         \/ relogio + 1 - oper[k].agora < Gatilhos[e.g].intervalo
  /\ Gasta("minutos")
  /\ relogio' = relogio + 1
  /\ UNCHANGED <<vitrine, caixa, saldo, gat, execs, ordens, filaExec, oper>>
Entra(a, v) ==
  /\ Gasta("entradas")
  /\ caixa' = [caixa EXCEPT ![a] = @ + v]
  /\ UNCHANGED <<vitrine, saldo, gat, execs, ordens, filaExec, oper, relogio>>
(* editarGatilho switches one off or on.                                    *)
Ligar(g) ==
  /\ Gasta("edicoes")
  /\ gat' = [gat EXCEPT ![g].ativo = ~@]
  /\ UNCHANGED <<vitrine, caixa, saldo, execs, ordens, filaExec, oper, relogio>>

PassoOperario(k) ==
  \/ Tick(k) \/ Avaliar(k) \/ Disparar(k) \/ CriarManual(k) \/ Enfileirar(k)
  \/ \E g \in NG : Manual(k, g)
  \/ PegarJob(k) \/ Parar(k) \/ Pular(k) \/ Enviar(k) \/ GravarEnvio(k) \/ Morrer(k)
PassoTesouraria ==
  \/ \E k \in Operarios : PassoOperario(k)
  \/ Minuto
  \/ \E a \in Adqs, v \in {4} : Entra(a, v)
  \/ \E g \in NG : Ligar(g)
-----------------------------------------------------------------------------
(* Two automatic dispatches of a trigger are at least its interval apart    *)
(* ("Janela minima entre dois disparos do MESMO gatilho"), whatever ticks   *)
(* run at once and though a dispatch by hand moves ultimaExecucaoEm and a   *)
(* late tick moves it back.                                                 *)
UmDisparoPorJanela ==
  \A e, f \in execs :
    (e # f /\ e.g = f.g /\ {e.origem, f.origem} = {"AUTOMATICO"} /\ e.agora <= f.agora)
      => f.agora - e.agora >= Gatilhos[e.g].intervalo

(* The automatic dispatches of a trigger, made or about to be: each by what *)
(* was read of it, the last dispatch and the time.  Two that read different *)
(* marks are an interval apart, and each has read the mark of now, or is no *)
(* later than it, or is an interval old.                                    *)
Lidas == UNION {oper[k].lidas : k \in {i \in Operarios : oper[i].pc = "disparar"}}
Disparos(g) ==
  {<<e.marca, e.agora>> : e \in {x \in execs : x.g = g /\ x.origem = "AUTOMATICO"}
                             \cup {x \in Lidas : x.g = g /\ ~Reservada(x)}}
RegistroOK(e) ==
  /\ e = [g |-> e.g, origem |-> e.origem, marca |-> e.marca, agora |-> e.agora,
          valor |-> e.valor, sit |-> e.sit]
  /\ e.g \in NG /\ e.marca \in Nat /\ e.agora \in 1..relogio
OperOK(o) ==
  \/ o = Livre
  \/ o.pc = "avaliar" /\ o = [pc |-> "avaliar"]
  \/ o.pc = "disparar" /\ o = [pc |-> "disparar", criadas |-> o.criadas,
                              agora |-> o.agora, lidas |-> o.lidas]
  \/ o.pc = "manual" /\ o = [pc |-> "manual", g |-> o.g, ultima |-> o.ultima, valor |-> o.valor]
                      /\ o.g \in NG /\ o.ultima \in Nat
  \/ o.pc = "enfileirar"
  \/ /\ o.pc \in {"enviar", "gravarEnviada", "gravarFalha"}
     /\ \/ o = [pc |-> o.pc, quem |-> o.quem, criadas |-> o.criadas]
        \/ o = [pc |-> o.pc, quem |-> o.quem, criadas |-> o.criadas, resta |-> o.resta]
TesourariaInv ==
  /\ relogio \in Nat \ {0}
  /\ DOMAIN gat = NG
  /\ \A g \in NG : /\ gat[g] = [ultima |-> gat[g].ultima, ativo |-> gat[g].ativo]
                   /\ gat[g].ultima \in 0..relogio
  /\ \A e \in execs : RegistroOK(e)
  /\ \A e, f \in execs : Chave(e) = Chave(f) => e = f
  /\ DOMAIN oper = Operarios /\ \A k \in Operarios : OperOK(oper[k])
  /\ \A k \in Operarios : oper[k].pc = "disparar" =>
       \A e \in oper[k].lidas :
         /\ RegistroOK(e) /\ e.origem = "AUTOMATICO" /\ e.agora = oper[k].agora
         /\ Gatilhos[e.g].intervalo = 0 \/ relogio - e.agora < Gatilhos[e.g].intervalo
  /\ \A g \in NG : \A x, y \in Disparos(g) :
       x[1] # y[1] /\ x[2] <= y[2] => y[2] - x[2] >= Gatilhos[g].intervalo
  /\ \A g \in NG : \A x \in Disparos(g) :
       \/ x[1] = gat[g].ultima \/ x[2] <= gat[g].ultima
       \/ x[2] + Gatilhos[g].intervalo <= relogio
=============================================================================
