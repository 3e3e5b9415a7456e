------------------------------- MODULE Acesso -------------------------------
(***************************************************************************)
(* Accounts and what they use from outside: closing an account revokes its *)
(* credentials in the same commit, and every other step belongs to one of  *)
(* the two modules.                                                        *)
(***************************************************************************)
EXTENDS Credencial

vars == <<acesso, orc, externo>>

Init == ContaInit /\ CredencialInit

EncerrarConta(s) ==
  /\ Encerrar(s)
  /\ cred' = [k \in Chaves |->
       IF DonoDe[k] = ato[s].c THEN [cred[k] EXCEPT !.ativa = FALSE] ELSE cred[k]]
  /\ UNCHANGED <<entregues, migra, abertos, nonces, pix, marcas>>

Next ==
  \/ PassoConta /\ UNCHANGED externo
  \/ PassoCredencial
  \/ \E s \in Sessoes : EncerrarConta(s)

Spec == Init /\ [][Next]_vars
-----------------------------------------------------------------------------
TypeOK ==
  /\ conta \in [Contas -> [sit : Situacoes \cup {"inexistente"}, bloq : BOOLEAN,
                           tipo : {"PF", "PJ"}, carteira : BOOLEAN,
                           aberta : BOOLEAN, provisoria : BOOLEAN]]
  /\ \A c \in Contas : \A d \in docs[c] : d.tipo \in TiposDoc
  /\ \A t \in tokens : t.c \in Contas
  /\ cruzadas \subseteq Contas /\ editadas \subseteq Contas
  /\ \A k \in Chaves : cred[k].ips \subseteq Ips

AcessoInv == TypeOK /\ SessaoInv /\ CadastroInv /\ SegredoInv
=============================================================================
