------------------------------ MODULE Bloqueio ------------------------------
(***************************************************************************)
(* Manual holds of a merchant's balance (BloqueiosSaldoService).  An       *)
(* administrator holds a value; what is available is captured at once and  *)
(* the rest whenever money reaches DISPONIVEL.  Captures run in the job or *)
(* request that brought the money: the list of holds, the balance and the  *)
(* movement are three different reads and writes, and only the movement    *)
(* and the row it updates are one commit.                                  *)
(***************************************************************************)
EXTENDS Integers, FiniteSets, FiniteSetsExt

CONSTANTS
  Sessoes,       \* requests, jobs and ticks that may be running at once
  Bloqueios,     \* holds, numbered in order of creation (FIFO)
  ValorDo,       \* [Bloqueios -> value asked for]
  Origens        \* events that may bring money: the tail of the capture key

ASSUME BloqueioAssumption ==
  /\ Bloqueios \subseteq Nat /\ IsFiniteSet(Bloqueios)
  /\ ValorDo \in [Bloqueios -> Nat \ {0}]

VARIABLES
  disp,          \* DISPONIVEL
  manual,        \* BLOQUEADO_MANUAL
  bloq,          \* [Bloqueios -> row of bloqueios_saldo]
  capturas,      \* movements bloqman:<hold>:<origin>:deb/:cred
  desfechos,     \* movements bloqman:<hold>:liberar / :debitar
  cap            \* [Sessoes -> where the session is in this service]

holds == <<bloq, capturas, desfechos, cap>>

Captura  == [b : Bloqueios, origem : Origens, valor : Int]
Desfecho == [b : Bloqueios, tipo : {"LIBERADO", "DEBITADO"}, valor : Int]
Parada == [pc |-> "livre"]  \* not inside the service

SomaCapturas(b) ==
  SumFunctionOnSet([m \in capturas |-> m.valor], {m \in capturas : m.b = b})
Ativos == {b \in Bloqueios : bloq[b].sit = "ATIVO"}
-----------------------------------------------------------------------------
BloqueioInit ==
  /\ manual = 0
  /\ bloq = [b \in Bloqueios |-> [sit |-> "nenhum", preso |-> 0, falta |-> 0]]
  /\ capturas = {} /\ desfechos = {}
  /\ cap = [s \in Sessoes |-> Parada]

(* The service is entered with the event that brought the money.            *)
ParaCapturar(s, origem) ==
  cap' = [cap EXCEPT ![s] = [pc |-> "listar", origem |-> origem]]

(* criar: the row is committed, then capturar is called.                    *)
Criar(s, b, origem) ==
  /\ cap[s] = Parada
  /\ bloq[b].sit = "nenhum"
  /\ \A a \in Bloqueios : a < b => bloq[a].sit # "nenhum"
  /\ bloq' = [bloq EXCEPT ![b] =
       [sit |-> "ATIVO", preso |-> 0, falta |-> ValorDo[b]]]
  /\ ParaCapturar(s, origem)
  /\ UNCHANGED <<disp, manual, capturas, desfechos>>

(* capturar reads the active holds that still want money, oldest first.     *)
Listar(s) ==
  /\ cap[s].pc = "listar"
  /\ LET fila == {b \in Ativos : bloq[b].falta > 0}
     IN cap' = [cap EXCEPT ![s] =
          [pc |-> "ler", origem |-> cap[s].origem, fila |-> fila,
           falta |-> [b \in fila |-> bloq[b].falta]]]
  /\ UNCHANGED <<disp, manual, bloq, capturas, desfechos>>

JaAplicada(b, origem) == \E m \in capturas : m.b = b /\ m.origem = origem

(* For the next hold of the list: the balance is read, nothing is left for  *)
(* the following ones if it has none, and a key already there is skipped.   *)
LerSaldoDisponivel(s) ==
  /\ cap[s].pc = "ler"
  /\ LET c == cap[s] IN
     IF c.fila = {}
     THEN cap' = [cap EXCEPT ![s] = Parada]
     ELSE LET b == Min(c.fila)
              mover == Min({disp, c.falta[b]})
          IN cap' = [cap EXCEPT ![s] =
               IF mover <= 0 THEN Parada
               ELSE IF JaAplicada(b, c.origem) THEN [c EXCEPT !.fila = @ \ {b}]
               ELSE [pc |-> "mover", origem |-> c.origem, fila |-> c.fila,
                     falta |-> c.falta, b |-> b, valor |-> mover]]
  /\ UNCHANGED <<disp, manual, bloq, capturas, desfechos>>

(* The movement and the row, in one commit.  A key posted meanwhile is      *)
(* skipped by the ledger, but not by the row; another value under that key  *)
(* or a balance that no longer suffices undoes the commit.                  *)
LinhaCapturada_semFalta(linha, valor) ==  \* mutant: the row still wants it all
  [linha EXCEPT !.preso = @ + valor]
LinhaCapturada(linha, valor) ==
  [linha EXCEPT !.preso = @ + valor, !.falta = @ - valor]

Mover(s) ==
  /\ cap[s].pc = "mover"
  /\ LET c == cap[s]
         m == [b |-> c.b, origem |-> c.origem, valor |-> c.valor]
         nova == ~JaAplicada(c.b, c.origem)
     IN IF (nova /\ disp < c.valor) \/ (~nova /\ m \notin capturas)
        THEN /\ cap' = [cap EXCEPT ![s] = Parada]
             /\ UNCHANGED <<disp, manual, bloq, capturas>>
        ELSE /\ disp' = IF nova THEN disp - c.valor ELSE disp
             /\ manual' = IF nova THEN manual + c.valor ELSE manual
             /\ capturas' = capturas \cup {m}
             /\ bloq' = [bloq EXCEPT ![c.b] = LinhaCapturada(@, c.valor)]
             /\ cap' = [cap EXCEPT ![s] =
                  [pc |-> "ler", origem |-> c.origem, fila |-> c.fila \ {c.b},
                   falta |-> c.falta]]
  /\ UNCHANGED desfechos

(* liberar and debitar read the hold: it must be active, and a debit needs  *)
(* something captured.                                                      *)
BuscarAtivo(s, b, tipo) ==
  /\ cap[s] = Parada
  /\ bloq[b].sit = "ATIVO"
  /\ tipo = "DEBITADO" => bloq[b].preso > 0
  /\ cap' = [cap EXCEPT ![s] =
       [pc |-> IF bloq[b].preso > 0 THEN "soltar" ELSE "encerrar",
        b |-> b, tipo |-> tipo, valor |-> bloq[b].preso]]
  /\ UNCHANGED <<disp, manual, bloq, capturas, desfechos>>

(* The movement, in a commit of its own: skipped if it was posted before,   *)
(* refused under the same key with another value or without the balance.    *)
Soltar(s) ==
  /\ cap[s].pc = "soltar"
  /\ LET c == cap[s]
         d == [b |-> c.b, tipo |-> c.tipo, valor |-> c.valor]
         outra == \E o \in desfechos : o.b = c.b /\ o.tipo = c.tipo /\ o # d
         nova == d \notin desfechos
     IN IF outra \/ (nova /\ manual < c.valor)
        THEN /\ cap' = [cap EXCEPT ![s] = Parada]
             /\ UNCHANGED <<disp, manual, desfechos>>
        ELSE /\ manual' = IF nova THEN manual - c.valor ELSE manual
             /\ disp' = IF nova /\ c.tipo = "LIBERADO" THEN disp + c.valor
                        ELSE disp
             /\ desfechos' = desfechos \cup {d}
             /\ cap' = [cap EXCEPT ![s] = [c EXCEPT !.pc = "encerrar"]]
  /\ UNCHANGED <<bloq, capturas>>

(* The row is closed whatever it is by now, and wants nothing more.         *)
Encerrar(s) ==
  /\ cap[s].pc = "encerrar"
  /\ bloq' = [bloq EXCEPT ![cap[s].b] = [@ EXCEPT !.sit = cap[s].tipo, !.falta = 0]]
  /\ cap' = [cap EXCEPT ![s] = Parada]
  /\ UNCHANGED <<disp, manual, capturas, desfechos>>

(* What a session does inside the service.                                  *)
PassoBloqueio(s) ==
  \/ Listar(s)
  \/ LerSaldoDisponivel(s)
  \/ Mover(s)
  \/ Soltar(s)
  \/ Encerrar(s)
-----------------------------------------------------------------------------
BloqueioTypeOK ==
  /\ disp \in Int /\ manual \in Nat
  /\ bloq \in [Bloqueios -> [sit : {"nenhum", "ATIVO", "LIBERADO", "DEBITADO"},
                             preso : Nat, falta : Int]]
  /\ capturas \subseteq Captura
  /\ desfechos \subseteq Desfecho

(* The row of a hold is what the statement says was captured for it, and an *)
(* active hold wants the rest of what was asked: a crash between the        *)
(* movement and the row would make liberar give back too little for ever    *)
(* (the comment of capturar's commit tells of that).                        *)
LinhaIgualExtrato ==
  \A b \in Bloqueios :
    /\ bloq[b].preso = SomaCapturas(b)
    /\ b \in Ativos => bloq[b].preso + bloq[b].falta = ValorDo[b]

(* Why the row can be trusted.  A session that captures works for an origin *)
(* of its own, over holds that were made and that this origin has not       *)
(* captured for yet: the key it writes is always new.                       *)
Capturando(s) == cap[s].pc \in {"listar", "ler", "mover"}
OrigemGasta(o) ==
  \/ \E s \in Sessoes : Capturando(s) /\ cap[s].origem = o
  \/ \E m \in capturas : m.origem = o

Lista(c) ==
  /\ c.origem \in Origens /\ c.fila \subseteq Bloqueios
  /\ c.falta \in [DOMAIN c.falta -> Int]
PosicaoOK(c) ==
  \/ c = Parada
  \/ /\ c.pc = "listar"
     /\ c = [pc |-> "listar", origem |-> c.origem] /\ c.origem \in Origens
  \/ /\ c.pc = "ler"
     /\ c = [pc |-> "ler", origem |-> c.origem, fila |-> c.fila, falta |-> c.falta]
     /\ Lista(c)
  \/ /\ c.pc = "mover"
     /\ c = [pc |-> "mover", origem |-> c.origem, fila |-> c.fila, falta |-> c.falta,
             b |-> c.b, valor |-> c.valor]
     /\ Lista(c) /\ c.b \in c.fila /\ c.valor \in Nat \ {0}
  \/ c \in [pc : {"soltar", "encerrar"}, b : Bloqueios,
            tipo : {"LIBERADO", "DEBITADO"}, valor : Nat]

PosicaoDe(c) ==
  /\ c.pc = "listar" => \A m \in capturas : m.origem # c.origem
  /\ c.pc \in {"ler", "mover"} =>
       \A b \in c.fila : /\ b \in DOMAIN c.falta /\ bloq[b].sit # "nenhum"
                         /\ ~JaAplicada(b, c.origem)
  /\ c.pc \in {"soltar", "encerrar"} => bloq[c.b].sit # "nenhum"

BloqueioInv ==
  /\ BloqueioTypeOK /\ LinhaIgualExtrato
  /\ IsFiniteSet(capturas)
  /\ DOMAIN cap = Sessoes
  /\ \A s \in Sessoes : PosicaoOK(cap[s]) /\ PosicaoDe(cap[s])
  /\ \A s, t \in Sessoes :
       Capturando(s) /\ Capturando(t) /\ cap[s].origem = cap[t].origem => s = t
  /\ \A b \in Bloqueios : bloq[b].sit = "nenhum" => bloq[b].preso = 0
  /\ \A b \in Bloqueios : OrigemGasta(<<"criacao", b>>) => bloq[b].sit # "nenhum"
=============================================================================
