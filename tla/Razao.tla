-------------------------------- MODULE Razao --------------------------------
(***************************************************************************)
(* What the ledger promises to the rest of the system: a call happens at   *)
(* one instant and whole, posts what it has not posted before, moves the   *)
(* balances by that and no more, and announces itself when it posted       *)
(* something.  There are no sessions, locks, retries or crashes here.      *)
(***************************************************************************)
EXTENDS Integers, Sequences, Functions

CONSTANTS Chamadas, Baldes, Disponivel, Entradas, Negativo, ComEvento

VARIABLES
  saldo,      \* balances
  lancados,   \* movements posted so far, by key
  eventos     \* events written, oldest first

ChavesDe(ms) == {m.chave : m \in ms}
Pedidos(k) == {Entradas[k][i] : i \in DOMAIN Entradas[k]}
Novos(k) == {e \in Pedidos(k) : e.chave \notin ChavesDe(lancados)}
Total(ms, b) == SumFunctionOnSet([m \in ms |-> m.valor], {m \in ms : m.balde = b})
Somado(ms) == [b \in Baldes |-> saldo[b] + Total(ms, b)]
-----------------------------------------------------------------------------
Init ==
  /\ saldo = [b \in Baldes |-> 0]
  /\ lancados = {}
  /\ eventos = <<>>

(* A key stands for one movement: a call that uses one for something else   *)
(* never happens, and neither does one that would overdraw.                 *)
Coerente(k) ==
  \A e \in Pedidos(k), m \in lancados \cup Pedidos(k) : e.chave = m.chave => e = m
Coberta(k, s) ==
  /\ \A b \in Baldes \ {Disponivel} : s[b] >= 0
  /\ Negativo[k] \/ s[Disponivel] >= 0 \/ s[Disponivel] >= saldo[Disponivel]

Aplicar(k) ==
  /\ Coerente(k)
  /\ Novos(k) # {}
  /\ Coberta(k, Somado(Novos(k)))
  /\ saldo' = Somado(Novos(k))
  /\ lancados' = lancados \cup Novos(k)
  /\ eventos' = IF ComEvento[k] THEN Append(eventos, k) ELSE eventos

Next == \E k \in Chamadas : Aplicar(k)
Spec == Init /\ [][Next]_<<saldo, lancados, eventos>>
=============================================================================
