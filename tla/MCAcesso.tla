------------------------------ MODULE MCAcesso ------------------------------
(* One account with one credential and one PIX key, two requests at once:   *)
(* each budget opens one group of interleavings.                            *)
EXTENDS Acesso, TLC

CONSTANTS c1, s1, s2, k1, x1, i1, i2

MCExigidos == [p \in {"PF", "PJ"} |->
  IF p = "PF" THEN {"identidade"} ELSE {"identidade", "contratoSocial"}]
MCDonoDe == [k \in Chaves |-> c1]

Nada == [madura |-> FALSE, envios |-> 0, analises |-> 0, decisoes |-> 0, edicoes |-> 0,
         movimentos |-> 0, entradas |-> 0, renovacoes |-> 0, senhas |-> 0, fatores |-> 0,
         credenciais |-> 0, rotacoes |-> 0, autenticacoes |-> 0, chaves |-> 0, chamadas |-> 0, tempo |-> 0]
Madura == [Nada EXCEPT !.madura = TRUE]
MCOrcamentos == {
  \* documents and decisions
  [Nada EXCEPT !.envios = 3, !.analises = 2],
  [Nada EXCEPT !.envios = 2, !.analises = 1, !.decisoes = 2],
  [Nada EXCEPT !.envios = 2, !.analises = 1, !.edicoes = 1],
  \* sessions, passwords and the second factor
  [Madura EXCEPT !.entradas = 1, !.renovacoes = 3, !.tempo = 9],
  [Madura EXCEPT !.entradas = 1, !.senhas = 2, !.fatores = 1, !.decisoes = 1, !.tempo = 1],
  [Madura EXCEPT !.entradas = 1, !.fatores = 3],
  [Madura EXCEPT !.entradas = 1, !.movimentos = 2, !.decisoes = 2, !.credenciais = 1],
  \* credentials
  [Madura EXCEPT !.rotacoes = 3, !.autenticacoes = 2, !.tempo = 2],
  [Madura EXCEPT !.rotacoes = 2, !.autenticacoes = 1, !.credenciais = 2, !.tempo = 1],
  [Nada EXCEPT !.envios = 2, !.decisoes = 1, !.credenciais = 2, !.autenticacoes = 1],
  [Madura EXCEPT !.autenticacoes = 1, !.chamadas = 2, !.credenciais = 1, !.tempo = 1],
  \* PIX keys
  [Madura EXCEPT !.chaves = 4, !.entradas = 1, !.decisoes = 1] }
=============================================================================
