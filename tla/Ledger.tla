------------------------------- MODULE Ledger -------------------------------
(***************************************************************************)
(* LedgerService.aplicarMovimentacoes, the only writer of a merchant's     *)
(* wallet.  One wallet (saldos_usuarios), its five balances, its statement *)
(* (movimentacoes_saldo) and the outbox events written by the same commit. *)
(* Several callers run at once: request handlers, workers, retried jobs.   *)
(* A call takes the row lock, walks its entries over private copies of the *)
(* balances and commits, or is undone as a whole.                          *)
(***************************************************************************)
EXTENDS Integers, Sequences, FiniteSets

CONSTANTS
  Chamadores,     \* database sessions that may be inside aplicarMovimentacoes
  Chamadas,       \* the distinct calls (an operation and all its retries)
  Baldes,         \* the balances of a wallet
  Disponivel,     \* the only balance that may be overdrawn
  Entradas,       \* [Chamadas -> sequence of entries]
  Negativo,       \* [Chamadas -> BOOLEAN]: params.permiteSaldoNegativo
  ComEvento,      \* [Chamadas -> BOOLEAN]: params.outbox is present
  Chaves,         \* idempotency keys
  Ninguem         \* no caller holds the row lock

Entrada == [chave : Chaves, balde : Baldes, natureza : STRING, valor : Int]

ASSUME LedgerAssumption ==
  /\ Disponivel \in Baldes
  /\ Ninguem \notin Chamadores
  /\ Entradas \in [Chamadas -> Seq(Entrada)]
  /\ Negativo \in [Chamadas -> BOOLEAN]
  /\ ComEvento \in [Chamadas -> BOOLEAN]

VARIABLES
  saldo,      \* committed balances
  movs,       \* committed statement, oldest first
  eventos,    \* calls whose outbox event was committed, one per event
  trava,      \* holder of SELECT ... FOR UPDATE on the wallet
  chamada,    \* [Chamadores -> the call being executed]
  copia,      \* [Chamadores -> balances as computed so far]
  novas,      \* [Chamadores -> movements inserted and not yet committed]
  passo,      \* [Chamadores -> how many entries were handled]
  fase        \* [Chamadores -> "fora" | "esperando" | "dentro"]

sessao == <<chamada, copia, novas, passo, fase>>
banco  == <<saldo, movs, eventos>>
vars   == <<saldo, movs, eventos, trava, chamada, copia, novas, passo, fase>>

Movimentacao == [chave : Chaves, balde : Baldes, natureza : STRING,
                 valor : Int, saldoApos : Int]

(* What a findUnique by key sees: the committed statement and the          *)
(* transaction's own inserts.                                              *)
Visiveis(c) == movs \o novas[c]
ComChave_soDaSessao(c, k) ==  \* mutant: the committed statement is not looked up
  {i \in DOMAIN Visiveis(c) : i > Len(movs) /\ Visiveis(c)[i].chave = k}
ComChave(c, k) == {i \in DOMAIN Visiveis(c) : Visiveis(c)[i].chave = k}
MesmaMovimentacao(m, e) ==
  m.balde = e.balde /\ m.natureza = e.natureza /\ m.valor = e.valor

Atual(c) == Entradas[chamada[c]][passo[c] + 1]
Falta(c) == passo[c] < Len(Entradas[chamada[c]])

(* What the balances become when an entry is new.                          *)
ComDelta(s, e) == [s EXCEPT ![e.balde] = @ + e.valor]

(* The two refusals: a debit may not leave DISPONIVEL negative unless the  *)
(* caller allows it, and no other balance may ever be negative.  A credit  *)
(* to an overdrawn DISPONIVEL passes.                                      *)
Descoberto(c, s, e) ==
  /\ e.balde = Disponivel
  /\ e.valor < 0
  /\ ~Negativo[chamada[c]]
  /\ s[Disponivel] < 0
Inconsistente(s) == \E b \in Baldes \ {Disponivel} : s[b] < 0
Recusada_soInterno(c, s, e) == Inconsistente(s)  \* mutant: overdraft not refused
Recusada(c, s, e) == Descoberto(c, s, e) \/ Inconsistente(s)
-----------------------------------------------------------------------------
(* The row lock of saldos_usuarios.                                         *)
LinhaLivre_semForUpdate == TRUE  \* mutant: a plain SELECT
LinhaLivre == trava = Ninguem

(* No event when every key was already there.                              *)
Anuncia_sempre(c) == ComEvento[chamada[c]]  \* mutant: a retry announces again
Anuncia(c) == ComEvento[chamada[c]] /\ novas[c] # <<>>

(* A call that throws or dies leaves nothing behind.                       *)
Desfeito_semTransacao(c) ==  \* mutant: what was done before the throw stays
  /\ saldo' = copia[c]
  /\ movs' = movs \o novas[c]
  /\ UNCHANGED eventos
Desfeito(c) == UNCHANGED banco

Init ==
  /\ saldo = [b \in Baldes |-> 0]
  /\ movs = <<>>
  /\ eventos = <<>>
  /\ trava = Ninguem
  /\ chamada \in [Chamadores -> Chamadas]
  /\ copia = [c \in Chamadores |-> saldo]
  /\ novas = [c \in Chamadores |-> <<>>]
  /\ passo = [c \in Chamadores |-> 0]
  /\ fase = [c \in Chamadores |-> "fora"]

(* A caller opens its transaction and waits for the row.                   *)
Chamar(c, k) ==
  /\ fase[c] = "fora"
  /\ fase' = [fase EXCEPT ![c] = "esperando"]
  /\ chamada' = [chamada EXCEPT ![c] = k]
  /\ UNCHANGED <<saldo, movs, eventos, trava, copia, novas, passo>>

(* SELECT ... FOR UPDATE: the lock is granted and the balances are read.   *)
Travar(c) ==
  /\ fase[c] = "esperando"
  /\ LinhaLivre
  /\ trava' = c
  /\ fase' = [fase EXCEPT ![c] = "dentro"]
  /\ copia' = [copia EXCEPT ![c] = saldo]
  /\ UNCHANGED <<saldo, movs, eventos, chamada, novas, passo>>

(* A key already used for the same movement: the entry is skipped.         *)
Repetida(c) ==
  /\ fase[c] = "dentro" /\ Falta(c)
  /\ \E i \in ComChave(c, Atual(c).chave) :
       MesmaMovimentacao(Visiveis(c)[i], Atual(c))
  /\ passo' = [passo EXCEPT ![c] = @ + 1]
  /\ UNCHANGED <<saldo, movs, eventos, trava, chamada, copia, novas, fase>>

(* A fresh key: the delta is applied to the copy and the movement inserted *)
(* with the balance it leaves.                                             *)
Lancar(c) ==
  /\ fase[c] = "dentro" /\ Falta(c)
  /\ ComChave(c, Atual(c).chave) = {}
  /\ LET e == Atual(c)
         s == ComDelta(copia[c], e)
     IN /\ ~Recusada(c, s, e)
        /\ copia' = [copia EXCEPT ![c] = s]
        /\ novas' = [novas EXCEPT ![c] =
             Append(@, [chave |-> e.chave, balde |-> e.balde,
                        natureza |-> e.natureza, valor |-> e.valor,
                        saldoApos |-> s[e.balde]])]
  /\ passo' = [passo EXCEPT ![c] = @ + 1]
  /\ UNCHANGED <<saldo, movs, eventos, trava, chamada, fase>>

(* The session forgets what it did and leaves.                             *)
Sair(c) ==
  /\ trava' = IF trava = c THEN Ninguem ELSE trava
  /\ fase' = [fase EXCEPT ![c] = "fora"]
  /\ novas' = [novas EXCEPT ![c] = <<>>]
  /\ passo' = [passo EXCEPT ![c] = 0]
  /\ UNCHANGED <<chamada, copia>>

(* The wallet row, the movements and the event become visible at once.     *)
Confirmar(c) ==
  /\ fase[c] = "dentro" /\ ~Falta(c)
  /\ saldo' = copia[c]
  /\ movs' = movs \o novas[c]
  /\ eventos' = IF Anuncia(c)
                THEN Append(eventos, chamada[c]) ELSE eventos
  /\ Sair(c)

(* A refusal of the current entry (key reused for something else, overdraft,*)
(* negative internal balance) throws and undoes the whole call.            *)
Recusar(c) ==
  /\ fase[c] = "dentro" /\ Falta(c)
  /\ LET e == Atual(c)
     IN \/ \E i \in ComChave(c, e.chave) :
             ~MesmaMovimentacao(Visiveis(c)[i], e)
        \/ /\ ComChave(c, e.chave) = {}
           /\ Recusada(c, ComDelta(copia[c], e), e)
  /\ Sair(c)
  /\ Desfeito(c)

(* Deadlock, timeout, lost connection or a dead process: rolled back.      *)
Abortar(c) ==
  /\ fase[c] # "fora"
  /\ Sair(c)
  /\ Desfeito(c)

Next ==
  \E c \in Chamadores :
    \/ \E k \in Chamadas : Chamar(c, k)
    \/ Travar(c)
    \/ Repetida(c)
    \/ Lancar(c)
    \/ Confirmar(c)
    \/ Recusar(c)
    \/ Abortar(c)

Spec == Init /\ [][Next]_vars
-----------------------------------------------------------------------------
TypeOK ==
  /\ saldo \in [Baldes -> Int]
  /\ movs \in Seq(Movimentacao)
  /\ eventos \in Seq(Chamadas)
  /\ trava \in Chamadores \cup {Ninguem}
  /\ chamada \in [Chamadores -> Chamadas]
  /\ copia \in [Chamadores -> [Baldes -> Int]]
  /\ novas \in [Chamadores -> Seq(Movimentacao)]
  /\ passo \in [Chamadores -> Nat]
  /\ \A c \in Chamadores : passo[c] <= Len(Entradas[chamada[c]])
  /\ fase \in [Chamadores -> {"fora", "esperando", "dentro"}]

(* Indices of the movements of balance b in statement m.                   *)
Do(m, b) == {i \in DOMAIN m : m[i].balde = b}

(* Every movement of m carries the balance the previous one of its bucket  *)
(* left, plus its own value: the statement adds up line by line.           *)
Encadeado(m) ==
  \A i \in DOMAIN m :
    LET antes == {j \in Do(m, m[i].balde) : j < i}
    IN \/ antes = {} /\ m[i].saldoApos = m[i].valor
       \/ \E j \in antes : /\ \A l \in antes : l <= j
                          /\ m[i].saldoApos = m[j].saldoApos + m[i].valor

(* s is what statement m leaves in each bucket.                            *)
FechaCom(s, m) ==
  \A b \in Baldes :
    \/ Do(m, b) = {} /\ s[b] = 0
    \/ \E i \in Do(m, b) : /\ \A l \in Do(m, b) : l <= i
                          /\ s[b] = m[i].saldoApos

(* However many sessions write at once, the merchant's statement adds up    *)
(* and ends in the balance shown in the wallet: no update is lost (the      *)
(* SELECT ... FOR UPDATE of aplicarMovimentacoes).                          *)
ExtratoFecha == Encadeado(movs) /\ FechaCom(saldo, movs)

(* A key stands for one movement for ever: retried jobs, repeated webhooks  *)
(* and concurrent callers never post it twice (the findUnique by            *)
(* chaveIdempotencia under the row lock).                                   *)
SemRepetir(m) == \A i, j \in DOMAIN m : m[i].chave = m[j].chave => i = j
UmaPorChave == SemRepetir(movs)

(* The buckets that are not DISPONIVEL never go below zero, and a debit that *)
(* leaves DISPONIVEL below zero belongs to a call that was allowed to.       *)
Permitida(m) ==
  \/ m.saldoApos >= 0
  \/ /\ m.balde = Disponivel
     /\ \/ m.valor >= 0
        \/ \E k \in Chamadas :
             /\ Negativo[k]
             /\ \E i \in DOMAIN Entradas[k] : Entradas[k][i].chave = m.chave
InternosPositivos(s) == \A b \in Baldes \ {Disponivel} : s[b] >= 0
Permitidas(m) == \A i \in DOMAIN m : Permitida(m[i])
SemDescoberto == InternosPositivos(saldo) /\ Permitidas(movs)

(* A call is posted whole or not at all: when one of its keys is in the     *)
(* statement so are all of them, whatever session died or was refused in    *)
(* the middle.                                                              *)
Postada(k, i) == \E j \in DOMAIN movs : movs[j].chave = Entradas[k][i].chave
Exclusiva(k, i) ==
  \A l \in Chamadas \ {k} : \A j \in DOMAIN Entradas[l] :
    Entradas[l][j].chave # Entradas[k][i].chave
TudoOuNada ==
  \A k \in Chamadas :
    (\E i \in DOMAIN Entradas[k] : Exclusiva(k, i) /\ Postada(k, i))
      => \A i \in DOMAIN Entradas[k] : Postada(k, i)

(* What makes those three inductive: the same holds of what the holder of   *)
(* the row sees, whose copy is the only one that can be committed.          *)
Integro(m, s) ==
  /\ Encadeado(m) /\ FechaCom(s, m)
  /\ SemRepetir(m)
  /\ InternosPositivos(s) /\ Permitidas(m)

LedgerInv ==
  /\ TypeOK
  /\ \A c \in Chamadores : trava = c <=> fase[c] = "dentro"
  /\ \A c \in Chamadores : fase[c] # "dentro" => novas[c] = <<>> /\ passo[c] = 0
  /\ Integro(movs, saldo)
  /\ \A c \in Chamadores : fase[c] = "dentro" => Integro(Visiveis(c), copia[c])
=============================================================================
