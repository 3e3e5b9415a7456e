---------------------------- MODULE AcessoProofs ----------------------------
(* Accounts, sessions and credentials, for any number of each: AcessoInv is *)
(* inductive, and with it the properties the runs check.                    *)
EXTENDS Acesso, TLAPS

(* Who changes what: each group of variables, and the actions that touch it. *)
Comitou(s) == GravarDocumento(s) \/ GravarDecisao(s) \/ Encerrar(s)

Quadro ==
  /\ \/ UNCHANGED <<tokens, relogio>> \/ Passar
     \/ \E c \in Contas : Login(c)
     \/ \E t \in tokens : Renovar(t)
  /\ UNCHANGED docs \/ \E s \in Sessoes : GravarDocumento(s)
  /\ UNCHANGED cruzadas \/ \E s \in Sessoes : Comitou(s)
  /\ UNCHANGED editadas \/ \E c \in Contas : EditarTipo(c)
  /\ \/ UNCHANGED conta
     \/ \E s \in Sessoes : Comitou(s) \/ GravarSenha(s)
     \/ \E c \in Contas : Cadastro(c) \/ EditarTipo(c) \/ Movimentar(c) \/ ResetarSenha(c)
  /\ UNCHANGED tropecos \/ \E s \in Sessoes : Rotacionar(s)
  /\ UNCHANGED desfeitas \/ (\E s \in Sessoes : Rotacionar(s)) \/ \E m \in migra : Migrar(m)
  /\ \/ UNCHANGED entregues
     \/ \E s \in Sessoes : Rotacionar(s)
     \/ \E k \in Chaves : Criar(k)
  /\ \/ UNCHANGED migra
     \/ \E m \in migra : Migrar(m)
     \/ \E k \in Chaves : \E g \in {cred[k].atual, cred[k].anterior} \ {0}, i \in Ips :
          Autenticar(k, g, i)
  /\ \/ UNCHANGED cred
     \/ \E s \in Sessoes : Rotacionar(s) \/ EncerrarConta(s)
     \/ \E m \in migra : Migrar(m)
     \/ \E k \in Chaves : \/ Criar(k) \/ Editar(k) \/ EncerrarJanela(k) \/ Revogar(k)
                          \/ \E i \in Ips : EditarIp(k, i)

LEMMA QuemMuda == [Next]_vars => Quadro
<1> USE DEF Quadro, Comitou, vars, acesso, externo, marcas
<1>1. CASE UNCHANGED vars
  BY <1>1
<1>2. ASSUME UNCHANGED externo, NEW c \in Contas,
             \/ Cadastro(c) \/ EditarTipo(c) \/ Movimentar(c) \/ Login(c)
             \/ Esqueci(c) \/ ResetarSenha(c)
      PROVE  Quadro
  BY <1>2 DEF Cadastro, EditarTipo, Movimentar, Login, Esqueci, ResetarSenha
<1>3. ASSUME UNCHANGED externo, NEW s \in Sessoes, NEW c \in Contas,
             \/ \E t \in TiposDoc : Enviar(s, c, t) \/ Subir(s, c, t)
             \/ \E d \in docs[c], n \in {"VALIDO", "INVALIDO"} : Validar(s, c, d, n)
             \/ PedirAtivacao(s, c) \/ PedirReprovacao(s, c)
             \/ \E n \in Decididas : PedirSituacao(s, c, n)
             \/ AbrirLink(s, c) \/ PedirTroca(s, c) \/ Resetar2fa(s, c)
      PROVE  Quadro
  BY <1>3 DEF Enviar, Subir, Validar, PedirAtivacao, PedirReprovacao, PedirSituacao,
              AbrirLink, PedirTroca, Resetar2fa, Decidir
<1>4. ASSUME UNCHANGED externo, NEW s \in Sessoes,
             \/ Reavaliar(s) \/ GravarDocumento(s) \/ GravarDecisao(s)
             \/ GravarSenha(s) \/ GravarFator(s) \/ Interromper(s)
      PROVE  Quadro
  BY <1>4 DEF Reavaliar, GravarDocumento, GravarDecisao, GravarSenha, GravarFator, Interromper
<1>5. ASSUME UNCHANGED externo, NEW s \in Sessoes, NEW t \in tokens,
             PedirEncerramento(s, t) \/ PedirSenha(s, t) \/ PedirFator(s, t)
      PROVE  Quadro
  BY <1>5 DEF PedirEncerramento, PedirSenha, PedirFator, Sessao
<1>6. ASSUME UNCHANGED externo, NEW t \in tokens, Renovar(t) PROVE Quadro
  BY <1>6 DEF Renovar
<1>7. ASSUME UNCHANGED externo, Passar PROVE Quadro
  BY <1>7 DEF Passar
<1>8. ASSUME NEW k \in Chaves,
             \/ Criar(k) \/ Editar(k) \/ EncerrarJanela(k) \/ Revogar(k)
             \/ \E i \in Ips : EditarIp(k, i)
             \/ \E g \in {cred[k].atual, cred[k].anterior} \ {0}, i \in Ips : Autenticar(k, g, i)
      PROVE  Quadro
  BY <1>8 DEF Criar, Editar, EncerrarJanela, Revogar, EditarIp, Autenticar
<1>9. ASSUME NEW s \in Sessoes,
             \/ \E k \in Chaves : PedirRotacao(s, k)
             \/ Rotacionar(s) \/ GravarPix(s) \/ EncerrarConta(s)
             \/ \E c \in Contas, x \in ChavesPix : PedirPix(s, c, x)
      PROVE  Quadro
  BY <1>9 DEF PedirRotacao, Rotacionar, GravarPix, EncerrarConta, Encerrar, PedirPix
<1>10. ASSUME NEW m \in migra, Migrar(m) PROVE Quadro
  BY <1>10 DEF Migrar
<1>11. ASSUME NEW t \in abertos, NEW i \in Ips, NEW n \in Nonces, ChamarApi(t, i, n) PROVE Quadro
  BY <1>11 DEF ChamarApi
<1> HIDE DEF Quadro, Comitou, vars, acesso, externo, marcas
<1>12. PassoConta /\ UNCHANGED externo => Quadro
  BY <1>2, <1>3, <1>4, <1>5, <1>6, <1>7 DEF PassoConta
<1>13. PassoCredencial => Quadro
  <2>1. (\E s \in Sessoes, k \in Chaves : PedirRotacao(s, k)) => Quadro
    BY <1>9
  <2>2. (\E s \in Sessoes, c \in Contas, x \in ChavesPix : PedirPix(s, c, x)) => Quadro
    BY <1>9
  <2>3. (\E k \in Chaves :
       \/ Criar(k) \/ Editar(k) \/ EncerrarJanela(k) \/ Revogar(k)
       \/ \E i \in Ips : EditarIp(k, i)
       \/ \E g \in {cred[k].atual, cred[k].anterior} \ {0}, i \in Ips : Autenticar(k, g, i)) => Quadro
    BY <1>8
  <2>4. (\E s \in Sessoes : Rotacionar(s) \/ GravarPix(s)) => Quadro
    BY <1>9
  <2> QED BY <1>10, <1>11, <2>1, <2>2, <2>3, <2>4 DEF PassoCredencial
<1> QED BY <1>1, <1>9, <1>12, <1>13 DEF Next

-----------------------------------------------------------------------------
(* The session: a login starts it, a renewal never moves its start.         *)
LEMMA PassoSessao ==
  ASSUME AcessoInv, [Next]_vars
  PROVE  SessaoInv'
<1>1. /\ relogio \in Nat
      /\ \A t \in tokens : /\ t.c \in Contas /\ t.login \in Nat /\ t.exp \in Nat
                           /\ t.inicio = t.login /\ t.exp <= t.login + Teto
  BY DEF AcessoInv, SessaoInv
<1>2. Duracao \in Nat /\ Teto \in Nat /\ Teto >= Duracao /\ Margem \in Nat
  BY ContaAssumption
<1>3. CASE UNCHANGED <<tokens, relogio>>
  BY <1>1, <1>3 DEF SessaoInv
<1>4. CASE Passar
  BY <1>1, <1>4 DEF SessaoInv, Passar
<1>5. ASSUME NEW c \in Contas, Login(c) PROVE SessaoInv'
  <2>1. /\ relogio' = relogio
        /\ tokens' = tokens \cup {[c |-> c, iat |-> relogio, exp |-> relogio + Duracao,
                                   inicio |-> relogio, login |-> relogio]}
    BY <1>5 DEF Login, Token
  <2>2. relogio + Duracao \in Nat /\ relogio + Duracao <= relogio + Teto
    BY <1>1, <1>2
  <2> QED BY <1>1, <2>1, <2>2 DEF SessaoInv
<1>6. ASSUME NEW t \in tokens, Renovar(t) PROVE SessaoInv'
  <2>1. PICK resta : resta = t.inicio + Teto - relogio
    OBVIOUS
  <2>2. PICK dura : dura = IF resta < Duracao THEN resta ELSE Duracao
    OBVIOUS
  <2>3. /\ relogio' = relogio /\ resta > Margem
        /\ tokens' = tokens \cup {[c |-> t.c, iat |-> relogio, exp |-> relogio + dura,
                                   inicio |-> t.inicio, login |-> t.login]}
    BY <1>6, <2>1, <2>2 DEF Renovar, Token, Inicio
  <2>4. resta \in Int /\ t.inicio = t.login /\ t.login \in Nat /\ t.c \in Contas
    BY <1>1, <1>2, <2>1
  <2>5. dura \in Nat /\ dura <= resta
    BY <1>2, <2>2, <2>3, <2>4
  <2>6. relogio + dura \in Nat /\ relogio + dura <= t.login + Teto
    BY <1>1, <1>2, <2>1, <2>4, <2>5
  <2> QED BY <1>1, <2>3, <2>4, <2>6 DEF SessaoInv
<1> QED BY <1>3, <1>4, <1>5, <1>6, QuemMuda DEF Quadro

-----------------------------------------------------------------------------
(* Where a request goes: it ends, or it holds something it has just read.   *)
Chega(a) ==
  /\ AtoOK(a)
  /\ a.op \in NoCadastro \cup {"documento"} => Existe(a.c)
  /\ a.op = "gravarDocumento" => a.sit = Reavaliada(a) /\ UNCHANGED <<conta, docs>>
  /\ a.op = "rotacionar" =>
       /\ a.k \in Chaves /\ a.lida = cred[a.k] /\ cred[a.k].ativa /\ a.expira \in Nat
       /\ UNCHANGED externo

LEMMA ChegaLivre == Chega(Livre)
BY DEF Chega, AtoOK, Livre, NoCadastro

LEMMA TransacaoChega ==
  ASSUME AcessoInv, NEW s, NEW a, Transacao(s, a), a.c \in Contas, Existe(a.c),
         LinhaOK(a.nova), UNCHANGED <<conta, docs>>
  PROVE  \E b : Ocupa(s, b) /\ Chega(b)
<1>1. PICK b : b = [op |-> "gravarDocumento", c |-> a.c, velhos |-> a.velhos,
                    nova |-> a.nova, sit |-> Reavaliada(a)]
  OBVIOUS
<1>2. b.op = "gravarDocumento" /\ b.c = a.c /\ b.nova = a.nova /\ b.velhos = a.velhos
      /\ b.sit = Reavaliada(a)
  BY <1>1
<1>3. Troca(b) = Troca(a)
  BY <1>2 DEF Troca
<1>4. Reavaliada(b) = Reavaliada(a)
  BY <1>2, <1>3 DEF Reavaliada
<1>5. Reavaliada(a) \in {"PENDENTE", "EM_ANALISE", "igual"}
  BY DEF Reavaliada
<1>6. Chega(b)
  BY <1>2, <1>4, <1>5 DEF Chega, AtoOK, Operacoes
<1> QED BY <1>1, <1>6 DEF Transacao

LEMMA ComoAnda ==
  ASSUME AcessoInv, [Next]_vars
  PROVE  UNCHANGED ato \/ \E s \in Sessoes : \E a : Ocupa(s, a) /\ Chega(a)
<1> DEFINE Anda == UNCHANGED ato \/ \E s \in Sessoes : \E a : Ocupa(s, a) /\ Chega(a)
<1>0. /\ \A s \in Sessoes : AtoOK(ato[s])
      /\ \A s \in Sessoes : ato[s].op \in NoCadastro \cup {"documento"} => Existe(ato[s].c)
      /\ \A t \in tokens : t.c \in Contas
      /\ relogio \in Nat /\ cred \in [Chaves -> LinhaDeCred]
      /\ \A c \in Contas : \A d \in docs[c] : LinhaOK(d)
  BY DEF AcessoInv, CadastroInv, SessaoInv, SegredoInv, NoCadastro, Operacoes, AtoOK, Livre
<1> USE DEF Anda
<1>1. ASSUME UNCHANGED vars PROVE Anda
  BY <1>1 DEF vars, acesso
<1>2. ASSUME NEW c \in Contas,
             \/ Cadastro(c) \/ EditarTipo(c) \/ Movimentar(c) \/ Login(c)
             \/ Esqueci(c) \/ ResetarSenha(c)
      PROVE  Anda
  BY <1>2 DEF Cadastro, EditarTipo, Movimentar, Login, Esqueci, ResetarSenha
<1>3. ASSUME NEW s \in Sessoes, NEW a, Ocupa(s, a), Chega(a) PROVE Anda
  BY <1>3
<1>4. ASSUME NEW s \in Sessoes, NEW c \in Contas, NEW t \in TiposDoc, Enviar(s, c, t) \/ Subir(s, c, t)
      PROVE  Anda
  <2>1. PICK v, i, x : /\ Ocupa(s, [op |-> "documento", c |-> c, velhos |-> v,
                                    nova |-> [id |-> i, tipo |-> t, sit |-> x]])
                       /\ Existe(c)
    BY <1>4 DEF Enviar, Subir
  <2>2. Chega([op |-> "documento", c |-> c, velhos |-> v,
               nova |-> [id |-> i, tipo |-> t, sit |-> x]])
    BY <2>1 DEF Chega, AtoOK, Operacoes, LinhaOK
  <2> QED BY <2>1, <2>2, <1>3
<1>5. ASSUME NEW s \in Sessoes, NEW c \in Contas,
             \E d \in docs[c], n \in {"VALIDO", "INVALIDO"} : Validar(s, c, d, n)
      PROVE  Anda
  <2>1. PICK d \in docs[c], n \in {"VALIDO", "INVALIDO"} : Validar(s, c, d, n)
    BY <1>5
  <2>2. PICK a : a = [c |-> c, velhos |-> {d}, nova |-> [d EXCEPT !.sit = n]]
    OBVIOUS
  <2>3. Transacao(s, a) /\ UNCHANGED <<conta, docs>>
    BY <2>1, <2>2 DEF Validar
  <2>4. LinhaOK(d)
    BY <1>0
  <2>5. PICK i, t, x : d = [id |-> i, tipo |-> t, sit |-> x] /\ t \in TiposDoc
    BY <2>4 DEF LinhaOK
  <2>6. [d EXCEPT !.sit = n] = [id |-> i, tipo |-> t, sit |-> n]
    BY <2>5
  <2>7. LinhaOK(a.nova) /\ a.c = c
    BY <2>2, <2>5, <2>6 DEF LinhaOK
  <2>8. Existe(c)
    BY DEF AcessoInv, CadastroInv
  <2> QED BY <1>3, <2>3, <2>7, <2>8, TransacaoChega
<1>6. ASSUME NEW s \in Sessoes, NEW c \in Contas,
             PedirAtivacao(s, c) \/ PedirReprovacao(s, c) \/ \E n \in Decididas : PedirSituacao(s, c, n)
      PROVE  Anda
  <2>1. PICK o \in {"ativar", "reprovar", "situacao"}, n \in Decididas \cup {"REPROVADO"} :
          Decidir(s, [op |-> o, c |-> c, sit |-> n])
    BY <1>6 DEF PedirAtivacao, PedirReprovacao, PedirSituacao, Decididas
  <2>2. Chega([op |-> o, c |-> c, sit |-> n])
    BY <2>1 DEF Decidir, Chega, AtoOK, Operacoes
  <2> QED BY <1>3, <2>1, <2>2 DEF Decidir
<1>7. ASSUME NEW s \in Sessoes, NEW c \in Contas,
             AbrirLink(s, c) \/ PedirTroca(s, c) \/ Resetar2fa(s, c)
      PROVE  Anda
  <2>1. PICK a : /\ Ocupa(s, a) /\ a.c = c
                 /\ a.op \in {"redefinir", "trocar", "desligar"}
    BY <1>7 DEF AbrirLink, PedirTroca, Resetar2fa
  <2>2. Chega(a)
    BY <2>1 DEF Chega, AtoOK, Operacoes, NoCadastro
  <2> QED BY <1>3, <2>1, <2>2
<1>8. ASSUME NEW s \in Sessoes, Reavaliar(s) PROVE Anda
  <2>1. /\ ato[s].op = "documento" /\ Transacao(s, ato[s]) /\ UNCHANGED <<conta, docs>>
    BY <1>8 DEF Reavaliar
  <2>2. ato[s].c \in Contas /\ LinhaOK(ato[s].nova) /\ Existe(ato[s].c)
    BY <1>0, <2>1 DEF AtoOK, Livre
  <2> QED BY <1>3, <2>1, <2>2, TransacaoChega
<1>9. ASSUME NEW s \in Sessoes,
             \/ GravarDocumento(s) \/ GravarDecisao(s) \/ Encerrar(s)
             \/ GravarSenha(s) \/ GravarFator(s) \/ Interromper(s) \/ Rotacionar(s) \/ GravarPix(s)
      PROVE  Anda
  <2>1. Ocupa(s, Livre)
    BY <1>9 DEF GravarDocumento, GravarDecisao, Encerrar, GravarSenha, GravarFator,
                Interromper, Rotacionar, GravarPix, Comita
  <2> QED BY <1>3, <2>1, ChegaLivre
<1>10. ASSUME NEW s \in Sessoes, NEW t \in tokens,
             PedirEncerramento(s, t) \/ PedirSenha(s, t) \/ PedirFator(s, t)
      PROVE  Anda
  <2>1. PICK a : /\ Sessao(s, t, a) /\ a.c = t.c
                 /\ a.op \in {"encerrar", "trocar", "iniciar", "confirmar", "desligar"}
    BY <1>10 DEF PedirEncerramento, PedirSenha, PedirFator
  <2>2. Ocupa(s, a) /\ Existe(t.c) /\ t.c \in Contas
    BY <1>0, <2>1 DEF Sessao, Abre, Habilitada, Existe, Situacoes
  <2>3. Chega(a)
    BY <2>1, <2>2 DEF Chega, AtoOK, Operacoes
  <2> QED BY <1>3, <2>2, <2>3
<1>11. ASSUME NEW s \in Sessoes, NEW k \in Chaves, PedirRotacao(s, k) PROVE Anda
  <2>1. PICK j \in Janelas :
          Ocupa(s, [op |-> "rotacionar", c |-> DonoDe[k], k |-> k, lida |-> cred[k],
                    expira |-> relogio + j])
    BY <1>11 DEF PedirRotacao
  <2>2. cred[k].ativa /\ DonoDe[k] \in Contas /\ relogio + j \in Nat /\ UNCHANGED externo
    BY <1>0, <1>11, CredencialAssumption DEF PedirRotacao
  <2>3. Chega([op |-> "rotacionar", c |-> DonoDe[k], k |-> k, lida |-> cred[k],
               expira |-> relogio + j])
    BY <2>2 DEF Chega, AtoOK, Operacoes, NoCadastro
  <2> QED BY <1>3, <2>1, <2>3
<1>12. ASSUME NEW s \in Sessoes, NEW c \in Contas, NEW x, PedirPix(s, c, x) PROVE Anda
  <2>1. PICK a : Ocupa(s, a) /\ a.op = "pix" /\ a.c = c
    BY <1>12 DEF PedirPix
  <2>2. Chega(a)
    BY <2>1 DEF Chega, AtoOK, Operacoes, NoCadastro
  <2> QED BY <1>3, <2>1, <2>2
<1>13. ASSUME NEW t, Renovar(t) \/ Passar PROVE Anda
  BY <1>13 DEF Renovar, Passar
<1>14. ASSUME NEW k,
             \/ Criar(k) \/ Editar(k) \/ EncerrarJanela(k) \/ Revogar(k)
             \/ \E i \in Ips : EditarIp(k, i)
             \/ \E g \in {cred[k].atual, cred[k].anterior} \ {0}, i \in Ips : Autenticar(k, g, i)
      PROVE  Anda
  BY <1>14 DEF Criar, Editar, EncerrarJanela, Revogar, EditarIp, Autenticar, acesso
<1>15. ASSUME NEW m, Migrar(m) PROVE Anda
  BY <1>15 DEF Migrar, acesso
<1>16. ASSUME NEW t, NEW i, NEW n, ChamarApi(t, i, n) PROVE Anda
  BY <1>16 DEF ChamarApi, acesso
<1> HIDE DEF Anda
<1>17. PassoConta => Anda
  <2>1. (\E c \in Contas : \/ Cadastro(c) \/ EditarTipo(c) \/ Movimentar(c) \/ Login(c)
                           \/ Esqueci(c) \/ ResetarSenha(c)) => Anda
    BY <1>2
  <2>2. (\E s \in Sessoes, c \in Contas :
       \/ \E t \in TiposDoc : Enviar(s, c, t) \/ Subir(s, c, t)
       \/ \E d \in docs[c], n \in {"VALIDO", "INVALIDO"} : Validar(s, c, d, n)
       \/ PedirAtivacao(s, c) \/ PedirReprovacao(s, c)
       \/ \E n \in Decididas : PedirSituacao(s, c, n)
       \/ AbrirLink(s, c) \/ PedirTroca(s, c) \/ Resetar2fa(s, c)) => Anda
    BY <1>4, <1>5, <1>6, <1>7
  <2>3. (\E s \in Sessoes :
       \/ Reavaliar(s) \/ GravarDocumento(s) \/ GravarDecisao(s)
       \/ GravarSenha(s) \/ GravarFator(s) \/ Interromper(s)
       \/ \E t \in tokens : PedirEncerramento(s, t) \/ PedirSenha(s, t) \/ PedirFator(s, t)) => Anda
    BY <1>8, <1>9, <1>10
  <2> QED BY <1>13, <2>1, <2>2, <2>3 DEF PassoConta
<1>18. PassoCredencial => Anda
  <2>1. (\E s \in Sessoes, k \in Chaves : PedirRotacao(s, k)) => Anda
    BY <1>11
  <2>2. (\E s \in Sessoes, c \in Contas, x \in ChavesPix : PedirPix(s, c, x)) => Anda
    BY <1>12
  <2>3. (\E k \in Chaves :
       \/ Criar(k) \/ Editar(k) \/ EncerrarJanela(k) \/ Revogar(k)
       \/ \E i \in Ips : EditarIp(k, i)
       \/ \E g \in {cred[k].atual, cred[k].anterior} \ {0}, i \in Ips : Autenticar(k, g, i)) => Anda
    BY <1>14
  <2>4. (\E s \in Sessoes : Rotacionar(s) \/ GravarPix(s)) => Anda
    BY <1>9
  <2> QED BY <1>15, <1>16, <2>1, <2>2, <2>3, <2>4 DEF PassoCredencial
<1>19. Anda
  BY <1>1, <1>9, <1>17, <1>18 DEF Next, EncerrarConta
<1> QED BY <1>19 DEF Anda

-----------------------------------------------------------------------------
(* Rows of accounts, changed one field at a time.                           *)
LinhaDeConta == [sit : Situacoes \cup {"inexistente"}, bloq : BOOLEAN, tipo : {"PF", "PJ"},
                 carteira : BOOLEAN, aberta : BOOLEAN, provisoria : BOOLEAN]
OutrasContas(f, g, c) == DOMAIN g = DOMAIN f /\ \A d \in DOMAIN f \ {c} : g[d] = f[d]
MesmoCadastro(r, q) == q.sit = r.sit /\ q.tipo = r.tipo
ComSit(r, x) == [r EXCEPT !.sit = x]
ComBloq(r, x) == [r EXCEPT !.bloq = x]
ComTipo(r, x) == [r EXCEPT !.tipo = x]
ComCarteira(r, x) == [r EXCEPT !.carteira = x]
ComAberta(r, x) == [r EXCEPT !.aberta = x]
ComProvisoria(r, x) == [r EXCEPT !.provisoria = x]

LEMMA FichaTem ==
  ASSUME NEW r \in LinhaDeConta
  PROVE  /\ r = [sit |-> r.sit, bloq |-> r.bloq, tipo |-> r.tipo, carteira |-> r.carteira,
                 aberta |-> r.aberta, provisoria |-> r.provisoria]
         /\ r.sit \in Situacoes \cup {"inexistente"} /\ r.tipo \in {"PF", "PJ"}
         /\ r.bloq \in BOOLEAN /\ r.carteira \in BOOLEAN
         /\ r.aberta \in BOOLEAN /\ r.provisoria \in BOOLEAN
BY DEF LinhaDeConta

LEMMA FichaMuda ==
  ASSUME NEW r \in LinhaDeConta
  PROVE  /\ \A x \in Situacoes : ComSit(r, x) \in LinhaDeConta
                                /\ ComSit(r, x).sit = x /\ ComSit(r, x).tipo = r.tipo
         /\ \A x \in {"PF", "PJ"} : ComTipo(r, x) \in LinhaDeConta
                                /\ ComTipo(r, x).sit = r.sit /\ ComTipo(r, x).tipo = x
         /\ \A x \in BOOLEAN : ComBloq(r, x) \in LinhaDeConta /\ MesmoCadastro(r, ComBloq(r, x))
         /\ \A x \in BOOLEAN : ComCarteira(r, x) \in LinhaDeConta /\ MesmoCadastro(r, ComCarteira(r, x))
         /\ \A x \in BOOLEAN : ComAberta(r, x) \in LinhaDeConta /\ MesmoCadastro(r, ComAberta(r, x))
         /\ \A x \in BOOLEAN : ComProvisoria(r, x) \in LinhaDeConta /\ MesmoCadastro(r, ComProvisoria(r, x))
<1>1. PICK a, b, c, d, e, f : r = [sit |-> a, bloq |-> b, tipo |-> c, carteira |-> d, aberta |-> e, provisoria |-> f]
  BY FichaTem
<1>2. /\ a \in Situacoes \cup {"inexistente"} /\ c \in {"PF", "PJ"}
      /\ b \in BOOLEAN /\ d \in BOOLEAN /\ e \in BOOLEAN /\ f \in BOOLEAN
  BY <1>1, FichaTem
<1>3. ASSUME NEW x \in Situacoes
      PROVE  ComSit(r, x) \in LinhaDeConta /\ ComSit(r, x).sit = x /\ ComSit(r, x).tipo = r.tipo
  <2>1. ComSit(r, x) = [sit |-> x, bloq |-> b, tipo |-> c, carteira |-> d, aberta |-> e, provisoria |-> f]
    BY <1>1 DEF ComSit
  <2> QED BY <1>1, <1>2, <2>1 DEF LinhaDeConta, MesmoCadastro
<1>4. ASSUME NEW x \in BOOLEAN
      PROVE  ComBloq(r, x) \in LinhaDeConta /\ MesmoCadastro(r, ComBloq(r, x))
  <2>1. ComBloq(r, x) = [sit |-> a, bloq |-> x, tipo |-> c, carteira |-> d, aberta |-> e, provisoria |-> f]
    BY <1>1 DEF ComBloq
  <2> QED BY <1>1, <1>2, <2>1 DEF LinhaDeConta, MesmoCadastro
<1>5. ASSUME NEW x \in {"PF", "PJ"}
      PROVE  ComTipo(r, x) \in LinhaDeConta /\ ComTipo(r, x).sit = r.sit /\ ComTipo(r, x).tipo = x
  <2>1. ComTipo(r, x) = [sit |-> a, bloq |-> b, tipo |-> x, carteira |-> d, aberta |-> e, provisoria |-> f]
    BY <1>1 DEF ComTipo
  <2> QED BY <1>1, <1>2, <2>1 DEF LinhaDeConta, MesmoCadastro
<1>6. ASSUME NEW x \in BOOLEAN
      PROVE  ComCarteira(r, x) \in LinhaDeConta /\ MesmoCadastro(r, ComCarteira(r, x))
  <2>1. ComCarteira(r, x) = [sit |-> a, bloq |-> b, tipo |-> c, carteira |-> x, aberta |-> e, provisoria |-> f]
    BY <1>1 DEF ComCarteira
  <2> QED BY <1>1, <1>2, <2>1 DEF LinhaDeConta, MesmoCadastro
<1>7. ASSUME NEW x \in BOOLEAN
      PROVE  ComAberta(r, x) \in LinhaDeConta /\ MesmoCadastro(r, ComAberta(r, x))
  <2>1. ComAberta(r, x) = [sit |-> a, bloq |-> b, tipo |-> c, carteira |-> d, aberta |-> x, provisoria |-> f]
    BY <1>1 DEF ComAberta
  <2> QED BY <1>1, <1>2, <2>1 DEF LinhaDeConta, MesmoCadastro
<1>8. ASSUME NEW x \in BOOLEAN
      PROVE  ComProvisoria(r, x) \in LinhaDeConta /\ MesmoCadastro(r, ComProvisoria(r, x))
  <2>1. ComProvisoria(r, x) = [sit |-> a, bloq |-> b, tipo |-> c, carteira |-> d, aberta |-> e, provisoria |-> x]
    BY <1>1 DEF ComProvisoria
  <2> QED BY <1>1, <1>2, <2>1 DEF LinhaDeConta, MesmoCadastro
<1> QED BY <1>3, <1>4, <1>5, <1>6, <1>7, <1>8

Poe(f, g, c, r) == g = [d \in Contas |-> IF d = c THEN r ELSE f[d]]

LEMMA PoeFicha ==
  ASSUME NEW f \in [Contas -> LinhaDeConta], NEW c \in Contas, NEW r \in LinhaDeConta, NEW g,
         Poe(f, g, c, r)
  PROVE  g \in [Contas -> LinhaDeConta] /\ OutrasContas(f, g, c) /\ g[c] = r
BY DEF Poe, OutrasContas

(* The situation and the kind of person of an account change only by its    *)
(* own registration, edition or a commit about it.                          *)
Igual(c) == MesmoCadastro(conta[c], conta'[c]) /\ docs'[c] = docs[c]

MudaConta(c) ==
  \/ Igual(c)
  \/ conta[c].sit = "inexistente" /\ conta'[c].sit = "PENDENTE" /\ UNCHANGED docs
  \/ conta'[c].sit = conta[c].sit /\ UNCHANGED docs /\ editadas' = editadas \cup {c}
  \/ \E s \in Sessoes : /\ GravarDocumento(s) /\ ato[s].c = c
                        /\ conta'[c].tipo = conta[c].tipo
                        /\ conta'[c].sit = IF ato[s].sit = "igual" THEN conta[c].sit
                                           ELSE ato[s].sit
  \/ \E s \in Sessoes : /\ GravarDecisao(s) \/ Encerrar(s)
                        /\ ato[s].c = c /\ UNCHANGED docs
                        /\ conta'[c].sit \in Situacoes \ {"PENDENTE", "EM_ANALISE"}

LEMMA PassoContas ==
  ASSUME AcessoInv, [Next]_vars
  PROVE  conta' \in [Contas -> LinhaDeConta] /\ \A c \in Contas : MudaConta(c)
<1> DEFINE Certo == conta' \in [Contas -> LinhaDeConta]
<1> USE DEF MudaConta
<1>1. /\ conta \in [Contas -> LinhaDeConta] /\ DOMAIN docs = Contas
      /\ \A s \in Sessoes : AtoOK(ato[s])
  BY DEF AcessoInv, TypeOK, CadastroInv, LinhaDeConta
<1>2. ASSUME NEW c \in Contas, OutrasContas(conta, conta', c), UNCHANGED docs
      PROVE  \A d \in Contas \ {c} : MudaConta(d)
  BY <1>1, <1>2 DEF Igual, MesmoCadastro, OutrasContas
<1>3. ASSUME UNCHANGED <<conta, docs>> PROVE Certo /\ \A c \in Contas : MudaConta(c)
  BY <1>1, <1>3 DEF Igual, MesmoCadastro
<1>4. ASSUME NEW c \in Contas, Cadastro(c) PROVE Certo /\ \A d \in Contas : MudaConta(d)
  <2>1. PICK p \in {"PF", "PJ"} : conta' = [conta EXCEPT ![c].sit = "PENDENTE", ![c].tipo = p]
    BY <1>4 DEF Cadastro
  <2>2. PICK r : r = ComTipo(ComSit(conta[c], "PENDENTE"), p)
    OBVIOUS
  <2>3. Poe(conta, conta', c, r)
    BY <1>1, <2>1, <2>2 DEF Poe, ComTipo, ComSit
  <2>4. conta[c] \in LinhaDeConta /\ "PENDENTE" \in Situacoes
    BY <1>1 DEF Situacoes
  <2>5. r \in LinhaDeConta /\ r.sit = "PENDENTE"
    BY <2>2, <2>4, FichaMuda
  <2>6. Certo /\ OutrasContas(conta, conta', c) /\ conta'[c] = r
    BY <1>1, <2>3, <2>5, PoeFicha
  <2>7. conta[c].sit = "inexistente" /\ UNCHANGED docs
    BY <1>4 DEF Cadastro
  <2>8. MudaConta(c)
    BY <2>5, <2>6, <2>7
  <2> QED BY <1>2, <2>6, <2>7, <2>8
<1>5. ASSUME NEW c \in Contas, EditarTipo(c) PROVE Certo /\ \A d \in Contas : MudaConta(d)
  <2>1. PICK p \in {"PF", "PJ"} : conta' = [conta EXCEPT ![c].tipo = p]
    BY <1>5 DEF EditarTipo
  <2>2. PICK r : r = ComTipo(conta[c], p)
    OBVIOUS
  <2>3. Poe(conta, conta', c, r)
    BY <1>1, <2>1, <2>2 DEF Poe, ComTipo
  <2>4. conta[c] \in LinhaDeConta
    BY <1>1
  <2>5. r \in LinhaDeConta /\ r.sit = conta[c].sit
    BY <2>2, <2>4, FichaMuda
  <2>6. Certo /\ OutrasContas(conta, conta', c) /\ conta'[c] = r
    BY <1>1, <2>3, <2>5, PoeFicha
  <2>7. UNCHANGED docs /\ editadas' = editadas \cup {c}
    BY <1>5 DEF EditarTipo
  <2>8. MudaConta(c)
    BY <2>5, <2>6, <2>7
  <2> QED BY <1>2, <2>6, <2>7, <2>8
<1>6. ASSUME NEW c \in Contas, NEW r \in LinhaDeConta, Poe(conta, conta', c, r), UNCHANGED docs,
             MesmoCadastro(conta[c], r)
      PROVE  Certo /\ \A d \in Contas : MudaConta(d)
  <2>1. Certo /\ OutrasContas(conta, conta', c) /\ conta'[c] = r
    BY <1>1, <1>6, PoeFicha
  <2>2. MudaConta(c)
    BY <1>6, <2>1 DEF Igual
  <2> QED BY <1>2, <1>6, <2>1, <2>2
<1>7. ASSUME NEW c \in Contas, Movimentar(c) PROVE Certo /\ \A d \in Contas : MudaConta(d)
  <2>1. conta' = [conta EXCEPT ![c].aberta = ~conta[c].aberta] /\ UNCHANGED docs
    BY <1>7 DEF Movimentar
  <2>2. PICK x \in BOOLEAN : x = (~conta[c].aberta)
    OBVIOUS
  <2>3. PICK r : r = ComAberta(conta[c], x)
    OBVIOUS
  <2>4. Poe(conta, conta', c, r)
    BY <1>1, <2>1, <2>2, <2>3 DEF Poe, ComAberta
  <2>5. conta[c] \in LinhaDeConta
    BY <1>1
  <2>6. r \in LinhaDeConta /\ MesmoCadastro(conta[c], r)
    BY <2>2, <2>3, <2>5, FichaMuda
  <2> QED BY <1>6, <2>1, <2>4, <2>6
<1>8. ASSUME NEW c \in Contas, NEW x \in BOOLEAN, NEW y \in BOOLEAN, UNCHANGED docs,
             conta' = [conta EXCEPT ![c].provisoria = x, ![c].bloq = y]
      PROVE  Certo /\ \A d \in Contas : MudaConta(d)
  <2>1. PICK r : r = ComBloq(ComProvisoria(conta[c], x), y)
    OBVIOUS
  <2>2. Poe(conta, conta', c, r)
    BY <1>1, <1>8, <2>1 DEF Poe, ComBloq, ComProvisoria
  <2>3. conta[c] \in LinhaDeConta
    BY <1>1
  <2>4. PICK q : q = ComProvisoria(conta[c], x)
    OBVIOUS
  <2>5. q \in LinhaDeConta /\ MesmoCadastro(conta[c], q)
    BY <2>3, <2>4, FichaMuda
  <2>6. r \in LinhaDeConta /\ MesmoCadastro(q, r)
    BY <2>1, <2>4, <2>5, FichaMuda
  <2>7. MesmoCadastro(conta[c], r)
    BY <2>5, <2>6 DEF MesmoCadastro
  <2> QED BY <1>6, <1>8, <2>2, <2>6, <2>7
<1>9. ASSUME NEW c \in Contas, ResetarSenha(c) PROVE Certo /\ \A d \in Contas : MudaConta(d)
  BY <1>8, <1>9 DEF ResetarSenha
<1>10. ASSUME NEW s \in Sessoes, GravarSenha(s) PROVE Certo /\ \A d \in Contas : MudaConta(d)
  <2>1. PICK c \in Contas : c = ato[s].c
    BY <1>1, <1>10 DEF GravarSenha, AtoOK, Livre
  <2>2. PICK y : y = (conta[c].bloq /\ ato[s].op = "trocar")
    OBVIOUS
  <2>3. y \in BOOLEAN
    BY <2>2
  <2>4. conta' = [conta EXCEPT ![c].provisoria = FALSE, ![c].bloq = y] /\ UNCHANGED docs
    BY <1>10, <2>1, <2>2 DEF GravarSenha
  <2> QED BY <1>8, <2>3, <2>4
<1>11. ASSUME NEW s \in Sessoes, GravarDocumento(s) PROVE Certo /\ \A d \in Contas : MudaConta(d)
  <2>0. PICK c \in Contas : c = ato[s].c
    BY <1>1, <1>11 DEF GravarDocumento, AtoOK, Livre
  <2>1. PICK x : /\ c = ato[s].c
                 /\ x = IF ato[s].sit = "igual" THEN conta[c].sit ELSE ato[s].sit
    BY <2>0
  <2>2. Existe(c)
    BY <1>11, <2>1 DEF AcessoInv, CadastroInv, GravarDocumento, NoCadastro
  <2>3. x \in Situacoes
    BY <1>1, <1>11, <2>1, <2>2 DEF GravarDocumento, AtoOK, Livre, Existe, Situacoes
  <2>4. /\ conta' = [conta EXCEPT ![c].sit = x]
        /\ docs' = [docs EXCEPT ![c] = Troca(ato[s])]
    BY <1>11, <2>1 DEF GravarDocumento
  <2>5. PICK r : r = ComSit(conta[c], x)
    OBVIOUS
  <2>6. Poe(conta, conta', c, r)
    BY <1>1, <2>4, <2>5 DEF Poe, ComSit
  <2>7. conta[c] \in LinhaDeConta
    BY <1>1
  <2>8. r \in LinhaDeConta /\ r.sit = x /\ r.tipo = conta[c].tipo
    BY <2>3, <2>5, <2>7, FichaMuda
  <2>9. Certo /\ OutrasContas(conta, conta', c) /\ conta'[c] = r
    BY <1>1, <2>6, <2>8, PoeFicha
  <2>10. MudaConta(c)
    BY <1>11, <2>1, <2>8, <2>9
  <2>11. \A d \in Contas \ {c} : Igual(d)
    BY <1>1, <2>4, <2>9 DEF OutrasContas, Igual, MesmoCadastro
  <2> QED BY <2>9, <2>10, <2>11
<1>12. ASSUME NEW s \in Sessoes, GravarDecisao(s) PROVE Certo /\ \A d \in Contas : MudaConta(d)
  <2>0. PICK c \in Contas : c = ato[s].c
    BY <1>1, <1>12 DEF GravarDecisao, AtoOK, Livre
  <2>1. PICK x, y, z :
          /\ c = ato[s].c /\ x = ato[s].sit
          /\ y = (IF ato[s].op = "reprovar" THEN conta[c].bloq ELSE x = "BLOQUEADO")
          /\ z = (conta[c].carteira \/ ato[s].op = "ativar")
    BY <2>0
  <2>2. x \in Situacoes \ {"PENDENTE", "EM_ANALISE"}
    BY <1>1, <1>12, <2>1 DEF GravarDecisao, AtoOK, Livre, Decididas, Situacoes
  <2>3. conta[c] \in LinhaDeConta
    BY <1>1
  <2>4. y \in BOOLEAN /\ z \in BOOLEAN
    BY <2>1, <2>3 DEF LinhaDeConta
  <2>5. conta' = [conta EXCEPT ![c].sit = x, ![c].bloq = y, ![c].carteira = z] /\ UNCHANGED docs
    BY <1>12, <2>1 DEF GravarDecisao
  <2>6. PICK p, q, r : p = ComSit(conta[c], x) /\ q = ComBloq(p, y) /\ r = ComCarteira(q, z)
    OBVIOUS
  <2>7. Poe(conta, conta', c, r)
    BY <1>1, <2>5, <2>6 DEF Poe, ComSit, ComBloq, ComCarteira
  <2>8. p \in LinhaDeConta /\ p.sit = x
    BY <2>2, <2>3, <2>6, FichaMuda
  <2>9. q \in LinhaDeConta /\ MesmoCadastro(p, q)
    BY <2>4, <2>6, <2>8, FichaMuda
  <2>10. r \in LinhaDeConta /\ MesmoCadastro(q, r)
    BY <2>4, <2>6, <2>9, FichaMuda
  <2>11. r.sit = x
    BY <2>8, <2>9, <2>10 DEF MesmoCadastro
  <2>12. Certo /\ OutrasContas(conta, conta', c) /\ conta'[c] = r
    BY <1>1, <2>7, <2>10, PoeFicha
  <2>13. MudaConta(c)
    BY <1>12, <2>1, <2>2, <2>5, <2>11, <2>12
  <2> QED BY <1>2, <2>5, <2>12, <2>13
<1>13. ASSUME NEW s \in Sessoes, Encerrar(s) PROVE Certo /\ \A d \in Contas : MudaConta(d)
  <2>1. PICK c \in Contas : c = ato[s].c
    BY <1>1, <1>13 DEF Encerrar, AtoOK, Livre
  <2>2. conta' = [conta EXCEPT ![c].sit = "ENCERRADO"] /\ UNCHANGED docs
    BY <1>13, <2>1 DEF Encerrar
  <2>3. PICK r : r = ComSit(conta[c], "ENCERRADO")
    OBVIOUS
  <2>4. Poe(conta, conta', c, r)
    BY <1>1, <2>2, <2>3 DEF Poe, ComSit
  <2>5. conta[c] \in LinhaDeConta /\ "ENCERRADO" \in Situacoes \ {"PENDENTE", "EM_ANALISE"}
    BY <1>1 DEF Situacoes
  <2>6. r \in LinhaDeConta /\ r.sit = "ENCERRADO"
    BY <2>3, <2>5, FichaMuda
  <2>7. Certo /\ OutrasContas(conta, conta', c) /\ conta'[c] = r
    BY <1>1, <2>4, <2>6, PoeFicha
  <2>8. MudaConta(c)
    BY <1>13, <2>1, <2>2, <2>5, <2>6, <2>7
  <2> QED BY <1>2, <2>2, <2>7, <2>8
<1>14. UNCHANGED conta => Certo
  BY <1>1
<1>15. UNCHANGED docs \/ \E s \in Sessoes : GravarDocumento(s)
  BY QuemMuda DEF Quadro
<1>16. \/ UNCHANGED conta
       \/ \E s \in Sessoes : Comitou(s) \/ GravarSenha(s)
       \/ \E c \in Contas : Cadastro(c) \/ EditarTipo(c) \/ Movimentar(c) \/ ResetarSenha(c)
  BY QuemMuda DEF Quadro
<1> HIDE DEF Certo, MudaConta
<1>17. Certo /\ \A c \in Contas : MudaConta(c)
  BY <1>3, <1>4, <1>5, <1>7, <1>9, <1>10, <1>11, <1>12, <1>13, <1>15, <1>16 DEF Comitou
<1> QED BY <1>17 DEF Certo


-----------------------------------------------------------------------------
(* The registration: what each part of CadastroInv needs.                   *)
Marca(s) == \A t \in Sessoes \ {s} : ato[t].op \in NoCadastro /\ ato[t].c = ato[s].c =>
                                        ato[s].c \in cruzadas'

LEMMA PassoMarcas ==
  ASSUME AcessoInv, [Next]_vars
  PROVE  /\ cruzadas \subseteq cruzadas' /\ cruzadas' \subseteq Contas
         /\ editadas \subseteq editadas' /\ editadas' \subseteq Contas
         /\ \A s \in Sessoes : Comitou(s) => Marca(s) /\ ato' = [ato EXCEPT ![s] = Livre]
<1>1. /\ cruzadas \subseteq Contas /\ editadas \subseteq Contas
      /\ \A s \in Sessoes : AtoOK(ato[s])
  BY DEF AcessoInv, CadastroInv
<1>2. ASSUME NEW s \in Sessoes, Comitou(s)
      PROVE  /\ cruzadas \subseteq cruzadas' /\ cruzadas' \subseteq Contas
             /\ Marca(s) /\ ato' = [ato EXCEPT ![s] = Livre]
  <2>1. Comita(s) /\ ato[s].c \in Contas
    BY <1>1, <1>2 DEF Comitou, GravarDocumento, GravarDecisao, Encerrar, AtoOK, Livre
  <2> QED BY <1>1, <2>1 DEF Comita, Ocupa, Marca
<1>3. cruzadas \subseteq cruzadas' /\ cruzadas' \subseteq Contas
  BY <1>1, <1>2, QuemMuda DEF Quadro
<1>4. editadas \subseteq editadas' /\ editadas' \subseteq Contas
  BY <1>1, QuemMuda DEF Quadro, EditarTipo
<1> QED BY <1>2, <1>3, <1>4

LEMMA PassoDocs ==
  ASSUME AcessoInv, [Next]_vars
  PROVE  DOMAIN docs' = Contas /\ \A c \in Contas : \A d \in docs'[c] : LinhaOK(d)
<1>1. /\ DOMAIN docs = Contas /\ \A c \in Contas : \A d \in docs[c] : LinhaOK(d)
      /\ \A s \in Sessoes : AtoOK(ato[s])
  BY DEF AcessoInv, CadastroInv
<1>2. ASSUME NEW s \in Sessoes, GravarDocumento(s)
      PROVE  DOMAIN docs' = Contas /\ \A c \in Contas : \A d \in docs'[c] : LinhaOK(d)
  <2>1. ato[s].c \in Contas /\ LinhaOK(ato[s].nova)
    BY <1>1, <1>2 DEF GravarDocumento, AtoOK, Livre
  <2>2. \A d \in Troca(ato[s]) : LinhaOK(d)
    BY <1>1, <2>1 DEF Troca
  <2>3. docs' = [docs EXCEPT ![ato[s].c] = Troca(ato[s])]
    BY <1>2 DEF GravarDocumento
  <2> QED BY <1>1, <2>1, <2>2, <2>3
<1> QED BY <1>1, <1>2, QuemMuda DEF Quadro

LEMMA ContaFica ==
  ASSUME AcessoInv, [Next]_vars, NEW c \in Contas, Existe(c)
  PROVE  Existe(c)'
<1>1. MudaConta(c) /\ conta'[c].sit \in Situacoes \cup {"inexistente"}
  BY PassoContas DEF LinhaDeConta
<1>2. conta[c].sit # "inexistente"
  BY DEF Existe, Situacoes
<1>3. ASSUME NEW s \in Sessoes, GravarDocumento(s)
      PROVE  ato[s].sit \in {"PENDENTE", "EM_ANALISE", "igual"}
  BY <1>3 DEF AcessoInv, CadastroInv, AtoOK, GravarDocumento, Livre
<1>4. conta'[c].sit # "inexistente"
  BY <1>1, <1>2, <1>3 DEF MudaConta, Igual, MesmoCadastro, Situacoes
<1> QED BY <1>1, <1>4 DEF Existe

(* A request is the one it was, or has just begun or ended.                 *)
LEMMA PassoAto ==
  ASSUME AcessoInv, [Next]_vars
  PROVE  /\ DOMAIN ato' = Sessoes
         /\ \A s \in Sessoes : ato'[s] = ato[s] \/ Chega(ato'[s])
         /\ \A s \in Sessoes : AtoOK(ato'[s])
<1>1. DOMAIN ato = Sessoes /\ \A s \in Sessoes : AtoOK(ato[s])
  BY DEF AcessoInv, CadastroInv
<1>2. CASE UNCHANGED ato
  BY <1>1, <1>2
<1>3. ASSUME NEW s \in Sessoes, NEW a, Ocupa(s, a), Chega(a)
      PROVE  /\ DOMAIN ato' = Sessoes
             /\ \A t \in Sessoes : ato'[t] = ato[t] \/ Chega(ato'[t])
             /\ \A t \in Sessoes : AtoOK(ato'[t])
  <2>1. ato' = [ato EXCEPT ![s] = a]
    BY <1>3 DEF Ocupa
  <2>2. AtoOK(a)
    BY <1>3 DEF Chega
  <2>3. \A t \in Sessoes : ato'[t] = ato[t] \/ ato'[t] = a
    BY <1>1, <2>1
  <2>4. DOMAIN ato' = Sessoes
    BY <1>1, <2>1
  <2> QED BY <1>1, <1>3, <2>2, <2>3, <2>4
<1> QED BY <1>2, <1>3, ComoAnda

LEMMA PassoNascer ==
  ASSUME AcessoInv, [Next]_vars, NEW c \in Contas, ~Existe(c)'
  PROVE  /\ docs'[c] = {}
         /\ \A s \in Sessoes : ato'[s].op \in NoCadastro \cup {"documento"} => ato'[s].c # c
<1>1. ~Existe(c)
  BY ContaFica
<1>2. /\ docs[c] = {}
      /\ \A s \in Sessoes : ato[s].op \in NoCadastro \cup {"documento"} => ato[s].c # c
  BY <1>1 DEF AcessoInv, CadastroInv
<1>3. MudaConta(c)
  BY PassoContas
<1>4. docs'[c] = docs[c]
  BY <1>2, <1>3 DEF MudaConta, Igual, GravarDocumento, NoCadastro
<1>5. ASSUME NEW s \in Sessoes, ato'[s].op \in NoCadastro \cup {"documento"}, ato'[s].c = c
      PROVE  FALSE
  <2>1. Chega(ato'[s])
    BY <1>2, <1>5, PassoAto
  <2>2. Existe(c)
    BY <1>5, <2>1 DEF Chega
  <2> QED BY <1>1, <2>2
<1> QED BY <1>2, <1>4, <1>5

LEMMA PassoPendente ==
  ASSUME AcessoInv, [Next]_vars, NEW s \in Sessoes, ato'[s].op = "gravarDocumento",
         ato'[s].c \notin cruzadas' \cup editadas'
  PROVE  (ato[s].sit = Reavaliada(ato[s]))'
<1>1. PICK a : a = ato'[s]
  OBVIOUS
<1>2. PICK c \in Contas : c = a.c
  BY <1>1, PassoAto DEF AtoOK, Livre
<1>3. c \notin cruzadas' \cup editadas' /\ c \notin cruzadas \cup editadas
  BY <1>1, <1>2, PassoMarcas
<1>4. ASSUME conta'[c].sit = conta[c].sit, conta'[c].tipo = conta[c].tipo, docs'[c] = docs[c]
      PROVE  Reavaliada(a)' = Reavaliada(a)
  <2>1. Troca(a)' = Troca(a)
    BY <1>2, <1>4 DEF Troca
  <2> QED BY <1>2, <1>4, <2>1 DEF Reavaliada, Faltantes
<1>5. ASSUME Chega(a) PROVE a.sit = Reavaliada(a)'
  <2>1. a.sit = Reavaliada(a) /\ UNCHANGED <<conta, docs>>
    BY <1>1, <1>5 DEF Chega
  <2> QED BY <1>4, <2>1
<1>6. ASSUME a = ato[s] PROVE a.sit = Reavaliada(a)'
  <2>1. a.op = "gravarDocumento" /\ a.sit = Reavaliada(a) /\ Existe(c)
    BY <1>1, <1>2, <1>3, <1>6 DEF AcessoInv, CadastroInv, NoCadastro
  <2>2. ASSUME NEW t \in Sessoes, Comitou(t), ato[t].c = c PROVE FALSE
    <3>1. t # s
      BY <1>1, <2>1, <2>2, PassoMarcas DEF AcessoInv, CadastroInv, Livre
    <3> QED BY <1>2, <1>3, <1>6, <2>1, <2>2, <3>1, PassoMarcas DEF Marca, NoCadastro
  <2>3. MudaConta(c) /\ conta[c].sit # "inexistente"
    BY <2>1, PassoContas DEF Existe, Situacoes
  <2>4. Igual(c)
    BY <1>3, <2>2, <2>3 DEF MudaConta, Comitou
  <2> QED BY <1>4, <2>1, <2>4 DEF Igual, MesmoCadastro
<1>7. a = ato[s] \/ Chega(a)
  BY <1>1, PassoAto
<1>8. a.sit = Reavaliada(a)'
  BY <1>5, <1>6, <1>7
<1>9. Reavaliada(ato[s])' = Reavaliada(a)'
  BY <1>1 DEF Reavaliada, Troca
<1> QED BY <1>1, <1>8, <1>9

LEMMA PassoAnalise ==
  ASSUME AcessoInv, [Next]_vars, NEW c \in Contas, c \notin cruzadas' \cup editadas'
  PROVE  /\ conta'[c].sit = "PENDENTE" => Faltantes(conta'[c].tipo, docs'[c]) # {}
         /\ conta'[c].sit = "EM_ANALISE" => Faltantes(conta'[c].tipo, docs'[c]) = {}
<1>1. c \notin cruzadas \cup editadas
  BY PassoMarcas
<1>2. /\ conta[c].sit = "PENDENTE" => Faltantes(conta[c].tipo, docs[c]) # {}
      /\ conta[c].sit = "EM_ANALISE" => Faltantes(conta[c].tipo, docs[c]) = {}
      /\ DOMAIN docs = Contas
  BY <1>1 DEF AcessoInv, CadastroInv, AnaliseAcompanhaDocumentos
<1>3. MudaConta(c) /\ conta'[c] \in LinhaDeConta
  BY PassoContas
<1>4. CASE Igual(c)
  BY <1>2, <1>4 DEF Igual, MesmoCadastro
<1>5. CASE conta[c].sit = "inexistente" /\ conta'[c].sit = "PENDENTE" /\ UNCHANGED docs
  <2>1. docs'[c] = {}
    BY <1>5 DEF AcessoInv, CadastroInv, Existe, Situacoes
  <2>2. conta'[c].tipo \in {"PF", "PJ"}
    BY <1>3, FichaTem
  <2>3. Exigidos[conta'[c].tipo] # {}
    BY <2>2, ContaAssumption
  <2>4. Satisfeitos(docs'[c]) = {}
    BY <2>1 DEF Satisfeitos
  <2>5. Faltantes(conta'[c].tipo, docs'[c]) # {}
    BY <2>3, <2>4 DEF Faltantes
  <2> QED BY <1>5, <2>5
<1>6. ASSUME NEW s \in Sessoes, GravarDocumento(s), ato[s].c = c,
             conta'[c].tipo = conta[c].tipo,
             conta'[c].sit = IF ato[s].sit = "igual" THEN conta[c].sit ELSE ato[s].sit
      PROVE  /\ conta'[c].sit = "PENDENTE" => Faltantes(conta'[c].tipo, docs'[c]) # {}
             /\ conta'[c].sit = "EM_ANALISE" => Faltantes(conta'[c].tipo, docs'[c]) = {}
  <2>1. docs'[c] = Troca(ato[s])
    BY <1>2, <1>6 DEF GravarDocumento
  <2>2. ato[s].sit = Reavaliada(ato[s])
    BY <1>1, <1>6 DEF AcessoInv, CadastroInv, GravarDocumento
  <2> QED BY <1>6, <2>1, <2>2 DEF Reavaliada
<1> QED BY <1>3, <1>4, <1>5, <1>6 DEF MudaConta

LEMMA PassoCadastro ==
  ASSUME AcessoInv, [Next]_vars
  PROVE  CadastroInv'
<1>1. DOMAIN ato' = Sessoes /\ \A s \in Sessoes : AtoOK(ato'[s])
  BY PassoAto
<1>2. DOMAIN docs' = Contas /\ \A c \in Contas : \A d \in docs'[c] : LinhaOK(d)
  BY PassoDocs
<1>3. cruzadas' \subseteq Contas /\ editadas' \subseteq Contas
  BY PassoMarcas
<1>4. \A c \in Contas : ~Existe(c)' =>
        /\ docs'[c] = {}
        /\ \A s \in Sessoes : ato'[s].op \in NoCadastro \cup {"documento"} => ato'[s].c # c
  BY PassoNascer
<1>5. \A s \in Sessoes :
        ato'[s].op = "gravarDocumento" /\ ato'[s].c \notin cruzadas' \cup editadas' =>
          (ato[s].sit = Reavaliada(ato[s]))'
  BY PassoPendente
<1>6. AnaliseAcompanhaDocumentos'
  BY PassoAnalise DEF AnaliseAcompanhaDocumentos
<1> QED BY <1>1, <1>2, <1>3, <1>4, <1>5, <1>6 DEF CadastroInv

-----------------------------------------------------------------------------
(* Rows of credentials.                                                     *)
ComIps(r, x) == [r EXCEPT !.ips = x]
ComAtiva(r, x) == [r EXCEPT !.ativa = x]
ComAtual(r, g) == [r EXCEPT !.atual = g]
ComLegado(r, x) == [r EXCEPT !.legado = x]
ComAnterior(r, g) == [r EXCEPT !.anterior = g]
ComAntLegado(r, x) == [r EXCEPT !.antLegado = x]
ComExpira(r, e) == [r EXCEPT !.expira = e]
MesmosSegredos(r, q) == q.atual = r.atual /\ q.anterior = r.anterior /\ q.ativa = r.ativa

LEMMA CredMuda ==
  ASSUME NEW r \in LinhaDeCred
  PROVE  /\ \A x \in SUBSET Ips : ComIps(r, x) \in LinhaDeCred /\ MesmosSegredos(r, ComIps(r, x))
         /\ \A x \in BOOLEAN : ComLegado(r, x) \in LinhaDeCred /\ MesmosSegredos(r, ComLegado(r, x))
         /\ \A x \in BOOLEAN : ComAntLegado(r, x) \in LinhaDeCred /\ MesmosSegredos(r, ComAntLegado(r, x))
         /\ \A e \in Nat : ComExpira(r, e) \in LinhaDeCred /\ MesmosSegredos(r, ComExpira(r, e))
         /\ \A x \in BOOLEAN : /\ ComAtiva(r, x) \in LinhaDeCred /\ ComAtiva(r, x).ativa = x
                               /\ ComAtiva(r, x).atual = r.atual
                               /\ ComAtiva(r, x).anterior = r.anterior
         /\ \A g \in Nat : /\ ComAtual(r, g) \in LinhaDeCred /\ ComAtual(r, g).atual = g
                           /\ ComAtual(r, g).anterior = r.anterior /\ ComAtual(r, g).ativa = r.ativa
         /\ \A g \in Nat : /\ ComAnterior(r, g) \in LinhaDeCred /\ ComAnterior(r, g).anterior = g
                           /\ ComAnterior(r, g).atual = r.atual /\ ComAnterior(r, g).ativa = r.ativa
<1>1. PICK a, b, c, d, e, f, h : /\ r = [ativa |-> a, atual |-> b, legado |-> c, anterior |-> d,
                                         antLegado |-> e, expira |-> f, ips |-> h]
                                 /\ a \in BOOLEAN /\ b \in Nat /\ c \in BOOLEAN /\ d \in Nat
                                 /\ e \in BOOLEAN /\ f \in Nat /\ h \in SUBSET Ips
  BY DEF LinhaDeCred
<1>2. ASSUME NEW x \in SUBSET Ips
      PROVE  ComIps(r, x) \in LinhaDeCred /\ MesmosSegredos(r, ComIps(r, x))
  <2>1. ComIps(r, x) = [ativa |-> a, atual |-> b, legado |-> c, anterior |-> d,
                        antLegado |-> e, expira |-> f, ips |-> x]
    BY <1>1 DEF ComIps
  <2> QED BY <1>1, <2>1 DEF LinhaDeCred, MesmosSegredos
<1>3. ASSUME NEW x \in BOOLEAN
      PROVE  ComLegado(r, x) \in LinhaDeCred /\ MesmosSegredos(r, ComLegado(r, x))
  <2>1. ComLegado(r, x) = [ativa |-> a, atual |-> b, legado |-> x, anterior |-> d,
                           antLegado |-> e, expira |-> f, ips |-> h]
    BY <1>1 DEF ComLegado
  <2> QED BY <1>1, <2>1 DEF LinhaDeCred, MesmosSegredos
<1>4. ASSUME NEW x \in BOOLEAN
      PROVE  ComAntLegado(r, x) \in LinhaDeCred /\ MesmosSegredos(r, ComAntLegado(r, x))
  <2>1. ComAntLegado(r, x) = [ativa |-> a, atual |-> b, legado |-> c, anterior |-> d,
                              antLegado |-> x, expira |-> f, ips |-> h]
    BY <1>1 DEF ComAntLegado
  <2> QED BY <1>1, <2>1 DEF LinhaDeCred, MesmosSegredos
<1>5. ASSUME NEW x \in Nat
      PROVE  ComExpira(r, x) \in LinhaDeCred /\ MesmosSegredos(r, ComExpira(r, x))
  <2>1. ComExpira(r, x) = [ativa |-> a, atual |-> b, legado |-> c, anterior |-> d,
                           antLegado |-> e, expira |-> x, ips |-> h]
    BY <1>1 DEF ComExpira
  <2> QED BY <1>1, <2>1 DEF LinhaDeCred, MesmosSegredos
<1>6. ASSUME NEW x \in BOOLEAN
      PROVE  /\ ComAtiva(r, x) \in LinhaDeCred /\ ComAtiva(r, x).ativa = x
             /\ ComAtiva(r, x).atual = r.atual /\ ComAtiva(r, x).anterior = r.anterior
  <2>1. ComAtiva(r, x) = [ativa |-> x, atual |-> b, legado |-> c, anterior |-> d,
                          antLegado |-> e, expira |-> f, ips |-> h]
    BY <1>1 DEF ComAtiva
  <2> QED BY <1>1, <2>1 DEF LinhaDeCred
<1>7. ASSUME NEW x \in Nat
      PROVE  /\ ComAtual(r, x) \in LinhaDeCred /\ ComAtual(r, x).atual = x
             /\ ComAtual(r, x).anterior = r.anterior /\ ComAtual(r, x).ativa = r.ativa
  <2>1. ComAtual(r, x) = [ativa |-> a, atual |-> x, legado |-> c, anterior |-> d,
                          antLegado |-> e, expira |-> f, ips |-> h]
    BY <1>1 DEF ComAtual
  <2> QED BY <1>1, <2>1 DEF LinhaDeCred
<1>8. ASSUME NEW x \in Nat
      PROVE  /\ ComAnterior(r, x) \in LinhaDeCred /\ ComAnterior(r, x).anterior = x
             /\ ComAnterior(r, x).atual = r.atual /\ ComAnterior(r, x).ativa = r.ativa
  <2>1. ComAnterior(r, x) = [ativa |-> a, atual |-> b, legado |-> c, anterior |-> x,
                             antLegado |-> e, expira |-> f, ips |-> h]
    BY <1>1 DEF ComAnterior
  <2> QED BY <1>1, <2>1 DEF LinhaDeCred
<1> QED BY <1>2, <1>3, <1>4, <1>5, <1>6, <1>7, <1>8

LEMMA CredAtual ==
  ASSUME NEW r \in LinhaDeCred, NEW g \in Nat
  PROVE  /\ ComAtual(r, g) \in LinhaDeCred /\ ComAtual(r, g).atual = g
         /\ ComAtual(r, g).anterior = r.anterior /\ ComAtual(r, g).ativa = r.ativa
BY CredMuda

LEMMA CredAnterior ==
  ASSUME NEW r \in LinhaDeCred, NEW g \in Nat
  PROVE  /\ ComAnterior(r, g) \in LinhaDeCred /\ ComAnterior(r, g).anterior = g
         /\ ComAnterior(r, g).atual = r.atual /\ ComAnterior(r, g).ativa = r.ativa
BY CredMuda

PoeCred(f, g, k, r) == g = [x \in Chaves |-> IF x = k THEN r ELSE f[x]]

(* What a step does to one credential: its secrets stay (and it may only    *)
(* lose its previous one or be revoked), it is created, its rewrite lands,  *)
(* or it is rotated.                                                        *)
Guarda(k) ==
  /\ cred'[k].atual = cred[k].atual /\ cred'[k].anterior \in {0, cred[k].anterior}
  /\ cred'[k].ativa => cred[k].ativa
  /\ entregues'[k] = entregues[k]
MudaCred(k) ==
  \/ Guarda(k)
  \/ /\ entregues[k] = <<>> /\ entregues'[k] = <<1>>
     /\ cred'[k].atual = 1 /\ cred'[k].anterior = 0
  \/ \E m \in migra : /\ Migrar(m) /\ m.k = k /\ entregues'[k] = entregues[k]
                      /\ cred'[k].atual = m.segredo /\ cred'[k].anterior = cred[k].anterior
  \/ \E s \in Sessoes : /\ ato[s].op = "rotacionar" /\ ato[s].k = k /\ Rotacionar(s)
                        /\ entregues'[k] = Append(entregues[k], Len(entregues[k]) + 1)
                        /\ cred'[k].atual = Len(entregues[k]) + 1
                        /\ cred'[k].anterior = ato[s].lida.atual

LEMMA PassoCred ==
  ASSUME AcessoInv, [Next]_vars
  PROVE  /\ cred' \in [Chaves -> LinhaDeCred] /\ entregues' \in [Chaves -> Seq(Nat)]
         /\ \A k \in Chaves : MudaCred(k)
<1> DEFINE Certo == /\ cred' \in [Chaves -> LinhaDeCred] /\ entregues' \in [Chaves -> Seq(Nat)]
                    /\ \A k \in Chaves : MudaCred(k)
<1>1. cred \in [Chaves -> LinhaDeCred] /\ entregues \in [Chaves -> Seq(Nat)]
  BY DEF AcessoInv, SegredoInv
<1>2. ASSUME UNCHANGED <<cred, entregues>> PROVE Certo
  BY <1>1, <1>2 DEF MudaCred, Guarda
<1>3. ASSUME NEW k \in Chaves, NEW r \in LinhaDeCred, PoeCred(cred, cred', k, r),
             UNCHANGED entregues, r.atual = cred[k].atual, r.anterior \in {0, cred[k].anterior},
             r.ativa => cred[k].ativa
      PROVE  Certo
  <2>1. cred' \in [Chaves -> LinhaDeCred] /\ cred'[k] = r /\ \A x \in Chaves \ {k} : cred'[x] = cred[x]
    BY <1>1, <1>3 DEF PoeCred
  <2>2. \A x \in Chaves : Guarda(x)
    BY <1>1, <1>3, <2>1 DEF Guarda
  <2> QED BY <1>1, <1>3, <2>1, <2>2 DEF MudaCred
<1>4. ASSUME NEW k \in Chaves, NEW r \in LinhaDeCred, PoeCred(cred, cred', k, r), MesmosSegredos(cred[k], r),
             UNCHANGED entregues
      PROVE  Certo
  BY <1>3, <1>4 DEF MesmosSegredos
<1>5. ASSUME NEW k \in Chaves, NEW i \in SUBSET Ips, UNCHANGED entregues,
             cred' = [cred EXCEPT ![k].ips = i]
      PROVE  Certo
  <2>1. PICK r : r = ComIps(cred[k], i)
    OBVIOUS
  <2>2. PoeCred(cred, cred', k, r)
    BY <1>1, <1>5, <2>1 DEF PoeCred, ComIps
  <2>3. cred[k] \in LinhaDeCred
    BY <1>1
  <2>4. r \in LinhaDeCred /\ MesmosSegredos(cred[k], r)
    BY <2>1, <2>3, CredMuda
  <2> QED BY <1>4, <1>5, <2>2, <2>4
<1>6. ASSUME NEW k \in Chaves, Criar(k) PROVE Certo
  <2>1. PICK i \in SUBSET Ips :
          cred' = [cred EXCEPT ![k] = [Nenhuma EXCEPT !.ativa = TRUE, !.atual = 1, !.ips = i]]
    BY <1>6 DEF Criar
  <2>2. entregues[k] = <<>> /\ entregues' = [entregues EXCEPT ![k] = <<1>>]
    BY <1>6 DEF Criar
  <2>3. PICK n, a, b, r : /\ n = Nenhuma /\ a = ComAtiva(n, TRUE)
                          /\ b = ComAtual(a, 1) /\ r = ComIps(b, i)
    OBVIOUS
  <2>4. PoeCred(cred, cred', k, r)
    BY <1>1, <2>1, <2>3 DEF PoeCred, ComAtiva, ComAtual, ComIps
  <2>5. n \in LinhaDeCred /\ n.anterior = 0
    BY <2>3 DEF Nenhuma, LinhaDeCred
  <2>6. a \in LinhaDeCred /\ a.anterior = n.anterior
    BY <2>3, <2>5, CredMuda
  <2>7. b \in LinhaDeCred /\ b.atual = 1 /\ b.anterior = a.anterior
    <3>1. 1 \in Nat
      OBVIOUS
    <3> QED BY <2>3, <2>6, <3>1, CredMuda
  <2>8. r \in LinhaDeCred /\ MesmosSegredos(b, r)
    BY <2>3, <2>7, CredMuda
  <2>9. r.atual = 1 /\ r.anterior = 0
    BY <2>5, <2>6, <2>7, <2>8 DEF MesmosSegredos
  <2>10. /\ cred' \in [Chaves -> LinhaDeCred] /\ cred'[k] = r
         /\ \A x \in Chaves \ {k} : cred'[x] = cred[x]
    BY <1>1, <2>4, <2>8 DEF PoeCred
  <2>11. /\ entregues' \in [Chaves -> Seq(Nat)] /\ entregues'[k] = <<1>>
         /\ \A x \in Chaves \ {k} : entregues'[x] = entregues[x]
    BY <1>1, <2>2
  <2> QED BY <2>2, <2>9, <2>10, <2>11 DEF MudaCred, Guarda
<1>7. ASSUME NEW k \in Chaves, NEW i \in Ips, EditarIp(k, i) PROVE Certo
  <2>1. PICK x : x = IF i \in cred[k].ips THEN cred[k].ips \ {i} ELSE cred[k].ips \cup {i}
    OBVIOUS
  <2>2. cred[k].ips \in SUBSET Ips
    BY <1>1 DEF LinhaDeCred
  <2>3. x \in SUBSET Ips
    BY <2>1, <2>2
  <2>4. cred' = [cred EXCEPT ![k].ips = x] /\ UNCHANGED entregues
    BY <1>7, <2>1 DEF EditarIp
  <2> QED BY <1>5, <2>3, <2>4
<1>8. ASSUME NEW k \in Chaves, Editar(k) PROVE Certo
  BY <1>5, <1>8 DEF Editar
<1>9. ASSUME NEW k \in Chaves, EncerrarJanela(k) PROVE Certo
  <2>1. /\ cred' = [cred EXCEPT ![k].anterior = 0, ![k].antLegado = FALSE, ![k].expira = 0]
        /\ UNCHANGED entregues
    BY <1>9 DEF EncerrarJanela
  <2>2. PICK p, q, r : p = ComAnterior(cred[k], 0) /\ q = ComAntLegado(p, FALSE) /\ r = ComExpira(q, 0)
    OBVIOUS
  <2>3. PoeCred(cred, cred', k, r)
    BY <1>1, <2>1, <2>2 DEF PoeCred, ComAnterior, ComAntLegado, ComExpira
  <2>4. cred[k] \in LinhaDeCred
    BY <1>1
  <2>5. p \in LinhaDeCred /\ p.anterior = 0 /\ p.atual = cred[k].atual /\ p.ativa = cred[k].ativa
    BY <2>2, <2>4, CredMuda
  <2>6. q \in LinhaDeCred /\ MesmosSegredos(p, q)
    BY <2>2, <2>5, CredMuda
  <2>7. r \in LinhaDeCred /\ MesmosSegredos(q, r)
    BY <2>2, <2>6, CredMuda
  <2> QED BY <1>3, <2>1, <2>3, <2>5, <2>6, <2>7 DEF MesmosSegredos
<1>10. ASSUME NEW k \in Chaves, Revogar(k) PROVE Certo
  <2>1. cred' = [cred EXCEPT ![k].ativa = FALSE] /\ UNCHANGED entregues
    BY <1>10 DEF Revogar
  <2>2. PICK r : r = ComAtiva(cred[k], FALSE)
    OBVIOUS
  <2>3. PoeCred(cred, cred', k, r)
    BY <1>1, <2>1, <2>2 DEF PoeCred, ComAtiva
  <2>4. cred[k] \in LinhaDeCred
    BY <1>1
  <2>5. /\ r \in LinhaDeCred /\ r.ativa = FALSE
        /\ r.atual = cred[k].atual /\ r.anterior = cred[k].anterior
    BY <2>2, <2>4, CredMuda
  <2> QED BY <1>3, <2>1, <2>3, <2>5
<1>11. ASSUME NEW m \in migra, Migrar(m) PROVE Certo
  <2>1. m.k \in Chaves /\ m.segredo \in Nat /\ UNCHANGED entregues
    BY <1>11 DEF AcessoInv, SegredoInv, Migrar
  <2>2. CASE UNCHANGED cred
    BY <1>2, <2>1, <2>2
  <2>3. ASSUME cred' = [cred EXCEPT ![m.k].atual = m.segredo, ![m.k].legado = FALSE] PROVE Certo
    <3>1. PICK k \in Chaves, g \in Nat : k = m.k /\ g = m.segredo
      BY <2>1
    <3>2. PICK p, r : p = ComAtual(cred[k], g) /\ r = ComLegado(p, FALSE)
      OBVIOUS
    <3>3. PoeCred(cred, cred', k, r)
      BY <1>1, <2>3, <3>1, <3>2 DEF PoeCred, ComAtual, ComLegado
    <3>4. cred[k] \in LinhaDeCred
      BY <1>1
    <3>5. p \in LinhaDeCred /\ p.atual = g /\ p.anterior = cred[k].anterior
      BY <3>2, <3>4, CredMuda
    <3>6. r \in LinhaDeCred /\ MesmosSegredos(p, r)
      BY <3>2, <3>5, CredMuda
    <3>7. /\ cred' \in [Chaves -> LinhaDeCred] /\ cred'[k] = r
          /\ \A x \in Chaves \ {k} : cred'[x] = cred[x]
      BY <1>1, <3>3, <3>6 DEF PoeCred
    <3>8. MudaCred(k)
      <4>1. /\ m.k = k /\ entregues'[k] = entregues[k]
            /\ cred'[k].atual = m.segredo /\ cred'[k].anterior = cred[k].anterior
        BY <2>1, <3>1, <3>5, <3>6, <3>7 DEF MesmosSegredos
      <4> QED BY <1>11, <4>1, Zenon DEF MudaCred
    <3> QED BY <1>1, <2>1, <3>7, <3>8 DEF MudaCred, Guarda
  <2> QED BY <1>11, <2>2, <2>3 DEF Migrar
<1>12. ASSUME NEW s \in Sessoes, Rotacionar(s) PROVE Certo
  <2>1. ato[s].k \in Chaves /\ ato[s].lida \in LinhaDeCred /\ ato[s].expira \in Nat
    BY <1>12 DEF AcessoInv, SegredoInv, Rotacionar
  <2>2. PICK k \in Chaves, l \in LinhaDeCred, e \in Nat, n \in Nat :
          k = ato[s].k /\ l = ato[s].lida /\ e = ato[s].expira /\ n = Len(entregues[k]) + 1
    BY <1>1, <2>1
  <2>3. /\ cred' = [cred EXCEPT ![k].atual = n, ![k].legado = FALSE, ![k].anterior = l.atual,
                                ![k].antLegado = l.legado, ![k].expira = e]
        /\ entregues' = [entregues EXCEPT ![k] = Append(entregues[k], n)]
        /\ ato[s].op = "rotacionar"
    BY <1>12, <2>2 DEF Rotacionar
  <2>4. PICK v \in Nat, w \in BOOLEAN : v = l.atual /\ w = l.legado
    BY DEF LinhaDeCred
  <2>5. PICK o, p, q, u, r :
          /\ o = ComAtual(cred[k], n) /\ p = ComLegado(o, FALSE) /\ q = ComAnterior(p, v)
          /\ u = ComAntLegado(q, w) /\ r = ComExpira(u, e)
    OBVIOUS
  <2>6. PoeCred(cred, cred', k, r)
    BY <1>1, <2>3, <2>4, <2>5 DEF PoeCred, ComAtual, ComLegado, ComAnterior, ComAntLegado, ComExpira
  <2>7. cred[k] \in LinhaDeCred
    BY <1>1
  <2>8. o \in LinhaDeCred /\ o.atual = n
    <3>1. o = ComAtual(cred[k], n)
      BY <2>5
    <3>2. n \in Nat
      BY <2>2
    <3> QED BY <2>7, <3>1, <3>2, CredAtual
  <2>9. p \in LinhaDeCred /\ MesmosSegredos(o, p)
    BY <2>5, <2>8, CredMuda
  <2>10. q \in LinhaDeCred /\ q.anterior = v /\ q.atual = p.atual
    <3>1. q = ComAnterior(p, v)
      BY <2>5
    <3>2. v \in Nat
      BY <2>4
    <3> QED BY <2>9, <3>1, <3>2, CredAnterior
  <2>11. u \in LinhaDeCred /\ MesmosSegredos(q, u)
    BY <2>4, <2>5, <2>10, CredMuda
  <2>12. r \in LinhaDeCred /\ MesmosSegredos(u, r)
    BY <2>2, <2>5, <2>11, CredMuda
  <2>13. r.atual = n /\ r.anterior = l.atual
    BY <2>4, <2>8, <2>9, <2>10, <2>11, <2>12 DEF MesmosSegredos
  <2>14. /\ cred' \in [Chaves -> LinhaDeCred] /\ cred'[k] = r
         /\ \A x \in Chaves \ {k} : cred'[x] = cred[x]
    BY <1>1, <2>6, <2>12 DEF PoeCred
  <2>15. /\ entregues' \in [Chaves -> Seq(Nat)] /\ entregues'[k] = Append(entregues[k], n)
         /\ \A x \in Chaves \ {k} : entregues'[x] = entregues[x]
    BY <1>1, <2>3
  <2>16. MudaCred(k)
    <3>1. /\ ato[s].op = "rotacionar" /\ ato[s].k = k /\ Rotacionar(s)
          /\ entregues'[k] = Append(entregues[k], Len(entregues[k]) + 1)
          /\ cred'[k].atual = Len(entregues[k]) + 1
          /\ cred'[k].anterior = ato[s].lida.atual
      BY <1>12, <2>2, <2>3, <2>13, <2>14, <2>15
    <3> QED BY <3>1, Zenon DEF MudaCred
  <2>17. \A x \in Chaves \ {k} : Guarda(x)
    BY <2>14, <2>15 DEF Guarda
  <2> QED BY <2>14, <2>15, <2>16, <2>17 DEF MudaCred
<1>13. ASSUME NEW s \in Sessoes, EncerrarConta(s) PROVE Certo
  <2>1. UNCHANGED entregues /\ DOMAIN cred' = Chaves
    BY <1>13 DEF EncerrarConta
  <2>2. ASSUME NEW k \in Chaves PROVE cred'[k] \in LinhaDeCred /\ Guarda(k)
    <3>1. cred[k] \in LinhaDeCred
      BY <1>1
    <3>2. cred'[k] = cred[k] \/ cred'[k] = ComAtiva(cred[k], FALSE)
      BY <1>13 DEF EncerrarConta, ComAtiva
    <3>3. /\ cred'[k] \in LinhaDeCred /\ cred'[k].atual = cred[k].atual
          /\ cred'[k].anterior = cred[k].anterior /\ (cred'[k].ativa => cred[k].ativa)
      <4>1. PICK x, r : x = FALSE /\ r = ComAtiva(cred[k], x)
        OBVIOUS
      <4>2. r \in LinhaDeCred /\ r.ativa = x /\ r.atual = cred[k].atual /\ r.anterior = cred[k].anterior
        BY <3>1, <4>1, CredMuda
      <4> QED BY <3>1, <3>2, <4>1, <4>2
    <3> QED BY <2>1, <3>3 DEF Guarda
  <2>3. cred' = [k \in Chaves |-> cred'[k]]
    BY <1>13 DEF EncerrarConta
  <2> QED BY <1>1, <2>1, <2>2, <2>3 DEF MudaCred
<1>14. /\ \/ UNCHANGED cred
          \/ \E s \in Sessoes : Rotacionar(s) \/ EncerrarConta(s)
          \/ \E m \in migra : Migrar(m)
          \/ \E k \in Chaves : \/ Criar(k) \/ Editar(k) \/ EncerrarJanela(k) \/ Revogar(k)
                               \/ \E i \in Ips : EditarIp(k, i)
       /\ \/ UNCHANGED entregues
          \/ \E s \in Sessoes : Rotacionar(s)
          \/ \E k \in Chaves : Criar(k)
  BY QuemMuda DEF Quadro
<1> HIDE DEF Certo
<1>15. Certo
  BY <1>2, <1>6, <1>7, <1>8, <1>9, <1>10, <1>11, <1>12, <1>13, <1>14
<1> QED BY <1>15 DEF Certo

(* A rotation marks every credential that another rotation or a rewrite     *)
(* also holds.                                                              *)
Cruzou(s) ==
  /\ \A t \in Sessoes \ {s} : ato[t].op = "rotacionar" /\ ato[t].k = ato[s].k => ato[s].k \in tropecos'
  /\ \A m \in migra : m.k = ato[s].k => ato[s].k \in tropecos'

LEMMA PassoTropecos ==
  ASSUME AcessoInv, [Next]_vars
  PROVE  /\ tropecos \subseteq tropecos'
         /\ \A s \in Sessoes : Rotacionar(s) =>
              Cruzou(s) /\ ato' = [ato EXCEPT ![s] = Livre] /\ UNCHANGED migra
<1>1. ASSUME NEW s \in Sessoes, Rotacionar(s)
      PROVE  /\ tropecos \subseteq tropecos'
             /\ Cruzou(s) /\ ato' = [ato EXCEPT ![s] = Livre] /\ UNCHANGED migra
  BY <1>1 DEF Rotacionar, Cruzou, Ocupa
<1> QED BY <1>1, QuemMuda DEF Quadro

(* Only a rotation of the credential itself makes its undone one good.      *)
LEMMA PassoDesfeitas ==
  ASSUME AcessoInv, [Next]_vars, NEW k \in Chaves, entregues'[k] = entregues[k], k \notin desfeitas'
  PROVE  k \notin desfeitas
<1>1. ASSUME NEW s \in Sessoes, Rotacionar(s) PROVE k \notin desfeitas
  <2>1. /\ ato[s].op = "rotacionar" /\ desfeitas' = desfeitas \ {ato[s].k}
        /\ entregues' = [entregues EXCEPT ![ato[s].k] = Append(@, Len(entregues[ato[s].k]) + 1)]
    BY <1>1 DEF Rotacionar
  <2>2. entregues \in [Chaves -> Seq(Nat)] /\ entregues[k] \in Seq(Nat)
    BY DEF AcessoInv, SegredoInv
  <2>3. CASE ato[s].k = k
    <3>1. entregues'[k] = Append(entregues[k], Len(entregues[k]) + 1)
      BY <2>1, <2>2, <2>3
    <3>2. Len(Append(entregues[k], Len(entregues[k]) + 1)) # Len(entregues[k])
      BY <2>2
    <3> QED BY <3>1, <3>2
  <2> QED BY <2>1, <2>3
<1>2. ASSUME NEW m \in migra, Migrar(m) PROVE k \notin desfeitas
  BY <1>2 DEF Migrar
<1> QED BY <1>1, <1>2, QuemMuda DEF Quadro

LEMMA PassoLinha ==
  ASSUME AcessoInv, [Next]_vars, NEW k \in Chaves
  PROVE  /\ \A i \in 1..Len(entregues'[k]) : entregues'[k][i] = i
         /\ cred'[k].ativa => entregues'[k] # <<>>
         /\ k \notin desfeitas' => cred'[k].atual = Len(entregues'[k])
         /\ k \notin tropecos' =>
              /\ cred'[k].atual = Len(entregues'[k])
              /\ cred'[k].anterior = 0 \/ cred'[k].anterior + 1 = Len(entregues'[k])
<1>1. /\ \A i \in 1..Len(entregues[k]) : entregues[k][i] = i
      /\ cred[k].ativa => entregues[k] # <<>>
      /\ k \notin desfeitas => cred[k].atual = Len(entregues[k])
      /\ k \notin tropecos =>
            /\ cred[k].atual = Len(entregues[k])
            /\ cred[k].anterior = 0 \/ cred[k].anterior + 1 = Len(entregues[k])
      /\ entregues[k] \in Seq(Nat) /\ cred[k] \in LinhaDeCred
  BY DEF AcessoInv, SegredoInv
<1>2. /\ tropecos \subseteq tropecos' /\ MudaCred(k) /\ cred'[k] \in LinhaDeCred
  BY PassoTropecos, PassoCred
<1>3. CASE Guarda(k)
  <2>1. k \notin desfeitas' => k \notin desfeitas
    BY <1>1, <1>3, PassoDesfeitas DEF Guarda
  <2> QED BY <1>1, <1>2, <1>3, <2>1 DEF Guarda
<1>4. CASE /\ entregues[k] = <<>> /\ entregues'[k] = <<1>>
           /\ cred'[k].atual = 1 /\ cred'[k].anterior = 0
  BY <1>4
<1>5. ASSUME NEW m \in migra, Migrar(m), m.k = k, entregues'[k] = entregues[k],
             cred'[k].atual = m.segredo, cred'[k].anterior = cred[k].anterior
      PROVE  /\ \A i \in 1..Len(entregues'[k]) : entregues'[k][i] = i
             /\ cred'[k].ativa => entregues'[k] # <<>>
             /\ k \notin desfeitas' => cred'[k].atual = Len(entregues'[k])
             /\ k \notin tropecos' =>
                  /\ cred'[k].atual = Len(entregues'[k])
                  /\ cred'[k].anterior = 0 \/ cred'[k].anterior + 1 = Len(entregues'[k])
  <2>1. /\ entregues[k] # <<>> /\ (k \notin tropecos => m.segredo = Len(entregues[k]))
        /\ m.n \in Nat /\ m.n <= Len(entregues[k])
        /\ k \notin desfeitas /\ m.n = Len(entregues[k]) => m.segredo = m.n
    BY <1>5 DEF AcessoInv, SegredoInv
  <2>2. k \notin desfeitas' => cred'[k].atual = Len(entregues'[k])
    <3>1. CASE UNCHANGED <<cred, desfeitas>>
      BY <1>1, <1>5, <3>1
    <3>2. CASE desfeitas' = IF m.n < Len(entregues[m.k]) THEN desfeitas \cup {m.k} ELSE desfeitas
      BY <1>1, <1>5, <2>1, <3>2
    <3> QED BY <1>5, <3>1, <3>2 DEF Migrar
  <2> QED BY <1>1, <1>2, <1>5, <2>1, <2>2
<1>6. ASSUME NEW s \in Sessoes, ato[s].op = "rotacionar", ato[s].k = k,
             entregues'[k] = Append(entregues[k], Len(entregues[k]) + 1),
             cred'[k].atual = Len(entregues[k]) + 1, cred'[k].anterior = ato[s].lida.atual
      PROVE  /\ \A i \in 1..Len(entregues'[k]) : entregues'[k][i] = i
             /\ cred'[k].ativa => entregues'[k] # <<>>
             /\ k \notin desfeitas' => cred'[k].atual = Len(entregues'[k])
             /\ k \notin tropecos' =>
                  /\ cred'[k].atual = Len(entregues'[k])
                  /\ cred'[k].anterior = 0 \/ cred'[k].anterior + 1 = Len(entregues'[k])
  <2>1. k \notin tropecos => ato[s].lida.atual = Len(entregues[k])
    BY <1>6 DEF AcessoInv, SegredoInv
  <2>2. PICK e, f : e = entregues[k] /\ f = entregues'[k]
    OBVIOUS
  <2>3. e \in Seq(Nat) /\ f = Append(e, Len(e) + 1) /\ \A i \in 1..Len(e) : e[i] = i
    BY <1>1, <1>6, <2>2
  <2>4. /\ \A i \in 1..Len(f) : f[i] = i
        /\ f # <<>> /\ Len(f) = Len(e) + 1
    BY <2>3
  <2> QED BY <1>2, <1>6, <2>1, <2>2, <2>4
<1> QED BY <1>2, <1>3, <1>4, <1>5, <1>6 DEF MudaCred

(* What was handed out stays; it grows by a rotation alone.                 *)
LEMMA PassoEntregues ==
  ASSUME AcessoInv, [Next]_vars, NEW k \in Chaves, entregues[k] # <<>>
  PROVE  /\ entregues'[k] # <<>>
         /\ \/ entregues'[k] = entregues[k]
            \/ \E s \in Sessoes : Rotacionar(s) /\ ato[s].op = "rotacionar" /\ ato[s].k = k
<1>1. MudaCred(k) /\ entregues[k] \in Seq(Nat)
  BY PassoCred DEF AcessoInv, SegredoInv
<1>2. Append(entregues[k], Len(entregues[k]) + 1) # <<>>
  BY <1>1
<1> QED BY <1>1, <1>2 DEF MudaCred, Guarda

LEMMA PassoMigra ==
  ASSUME AcessoInv, [Next]_vars, NEW m \in migra'
  PROVE  /\ m = [k |-> m.k, segredo |-> m.segredo, n |-> m.n]
         /\ m.k \in Chaves /\ m.segredo \in Nat /\ m.n \in Nat
         /\ entregues'[m.k] # <<>> /\ m.n <= Len(entregues'[m.k])
         /\ m.k \notin desfeitas' /\ m.n = Len(entregues'[m.k]) => m.segredo = m.n
         /\ m.k \notin tropecos' => m.segredo = Len(entregues'[m.k])
<1> DEFINE Fica == /\ m = [k |-> m.k, segredo |-> m.segredo, n |-> m.n]
                   /\ m.k \in Chaves /\ m.segredo \in Nat /\ m.n \in Nat
                   /\ entregues'[m.k] # <<>> /\ m.n <= Len(entregues'[m.k])
                   /\ m.k \notin desfeitas' /\ m.n = Len(entregues'[m.k]) => m.segredo = m.n
                   /\ m.k \notin tropecos' => m.segredo = Len(entregues'[m.k])
<1>1. ASSUME m \in migra PROVE Fica
  <2>1. /\ m = [k |-> m.k, segredo |-> m.segredo, n |-> m.n]
        /\ m.k \in Chaves /\ m.segredo \in Nat /\ m.n \in Nat
        /\ entregues[m.k] # <<>> /\ m.n <= Len(entregues[m.k])
        /\ m.k \notin desfeitas /\ m.n = Len(entregues[m.k]) => m.segredo = m.n
        /\ m.k \notin tropecos => m.segredo = Len(entregues[m.k])
        /\ entregues[m.k] \in Seq(Nat)
    BY <1>1 DEF AcessoInv, SegredoInv
  <2>2. CASE entregues'[m.k] = entregues[m.k]
    <3>1. tropecos \subseteq tropecos'
      BY PassoTropecos
    <3>2. m.k \notin desfeitas' => m.k \notin desfeitas
      BY <2>1, <2>2, PassoDesfeitas
    <3> QED BY <2>1, <2>2, <3>1, <3>2
  <2>3. ASSUME NEW s \in Sessoes, Rotacionar(s), ato[s].k = m.k,
               entregues'[m.k] = Append(entregues[m.k], Len(entregues[m.k]) + 1)
        PROVE  Fica
    <3>1. m.k \in tropecos'
      BY <1>1, <2>3, PassoTropecos DEF Cruzou
    <3>2. entregues[m.k] \in Seq(Nat) /\ m.n <= Len(entregues[m.k]) /\ m.n \in Nat
      BY <2>1
    <3>3. PICK e : e = entregues[m.k]
      OBVIOUS
    <3>4. e \in Seq(Nat) /\ m.n <= Len(e) /\ m.n \in Nat
      BY <3>2, <3>3
    <3>5. /\ Append(e, Len(e) + 1) # <<>>
          /\ m.n <= Len(Append(e, Len(e) + 1)) /\ m.n # Len(Append(e, Len(e) + 1))
      BY <3>4
    <3> QED BY <2>1, <2>3, <3>1, <3>3, <3>5
  <2>4. \/ entregues'[m.k] = entregues[m.k]
        \/ \E s \in Sessoes : /\ Rotacionar(s) /\ ato[s].k = m.k
                              /\ entregues'[m.k] = Append(entregues[m.k], Len(entregues[m.k]) + 1)
    BY <2>1, PassoCred DEF MudaCred, Guarda
  <2> QED BY <2>2, <2>3, <2>4
<1>2. ASSUME NEW k \in Chaves, NEW g \in {cred[k].atual, cred[k].anterior} \ {0}, NEW i \in Ips,
             Autenticar(k, g, i), m \notin migra
      PROVE  Fica
  <2>1. /\ m = [k |-> k, segredo |-> g, n |-> Len(entregues[k])]
        /\ g = cred[k].atual /\ cred[k].ativa
        /\ entregues' = entregues /\ tropecos' = tropecos /\ desfeitas' = desfeitas
    BY <1>2 DEF Autenticar, PrecisaMigrar, Aceita, marcas
  <2>2. /\ g \in Nat /\ entregues[k] # <<>> /\ Len(entregues[k]) \in Nat
        /\ k \notin tropecos => g = Len(entregues[k])
        /\ k \notin desfeitas => g = Len(entregues[k])
    BY <2>1 DEF AcessoInv, SegredoInv, LinhaDeCred
  <2>3. m.k = k /\ m.segredo = g /\ m.n = Len(entregues[k])
    BY <2>1
  <2> QED BY <2>1, <2>2, <2>3
<1>3. \/ UNCHANGED migra
      \/ \E n \in migra : migra' = migra \ {n}
      \/ \E k \in Chaves : \E g \in {cred[k].atual, cred[k].anterior} \ {0}, i \in Ips :
           Autenticar(k, g, i)
  BY QuemMuda DEF Quadro, Migrar
<1> HIDE DEF Fica
<1>4. Fica
  BY <1>1, <1>2, <1>3
<1> QED BY <1>4 DEF Fica

LEMMA PassoRotacao ==
  ASSUME AcessoInv, [Next]_vars, NEW s \in Sessoes, ato'[s].op = "rotacionar"
  PROVE  /\ ato'[s].k \in Chaves /\ ato'[s].lida \in LinhaDeCred /\ ato'[s].expira \in Nat
         /\ entregues'[ato'[s].k] # <<>>
         /\ ato'[s].k \notin tropecos' => ato'[s].lida.atual = Len(entregues'[ato'[s].k])
<1>1. PICK a, k : a = ato'[s] /\ k = a.k
  OBVIOUS
<1>2. a = ato[s] \/ Chega(a)
  BY <1>1, PassoAto
<1>3. tropecos \subseteq tropecos'
  BY PassoTropecos
<1>4. ASSUME Chega(a)
      PROVE  /\ k \in Chaves /\ a.lida \in LinhaDeCred /\ a.expira \in Nat
             /\ entregues'[k] # <<>> /\ (k \notin tropecos' => a.lida.atual = Len(entregues'[k]))
  <2>1. /\ k \in Chaves /\ a.lida = cred[k] /\ cred[k].ativa /\ a.expira \in Nat
        /\ entregues' = entregues
    BY <1>1, <1>4 DEF Chega, externo
  <2> QED BY <1>3, <2>1 DEF AcessoInv, SegredoInv
<1>5. ASSUME a = ato[s]
      PROVE  /\ k \in Chaves /\ a.lida \in LinhaDeCred /\ a.expira \in Nat
             /\ entregues'[k] # <<>> /\ (k \notin tropecos' => a.lida.atual = Len(entregues'[k]))
  <2>1. /\ k \in Chaves /\ a.lida \in LinhaDeCred /\ a.expira \in Nat
        /\ entregues[k] # <<>> /\ (k \notin tropecos => a.lida.atual = Len(entregues[k]))
    BY <1>1, <1>5 DEF AcessoInv, SegredoInv
  <2>2. /\ entregues'[k] # <<>>
        /\ \/ entregues'[k] = entregues[k]
           \/ \E t \in Sessoes : Rotacionar(t) /\ ato[t].op = "rotacionar" /\ ato[t].k = k
    BY <2>1, PassoEntregues
  <2>3. ASSUME NEW t \in Sessoes, Rotacionar(t), ato[t].k = k PROVE k \in tropecos'
    <3>1. t # s
      BY <1>1, <2>3, PassoTropecos DEF AcessoInv, CadastroInv, Livre
    <3> QED BY <1>1, <1>5, <2>3, <3>1, PassoTropecos DEF Cruzou
  <2> QED BY <1>3, <2>1, <2>2, <2>3
<1> QED BY <1>1, <1>2, <1>4, <1>5

LEMMA PassoSegredo ==
  ASSUME AcessoInv, [Next]_vars
  PROVE  SegredoInv'
BY PassoCred, PassoLinha, PassoMigra, PassoRotacao DEF SegredoInv

-----------------------------------------------------------------------------
LEMMA PassoTipos ==
  ASSUME AcessoInv, [Next]_vars
  PROVE  TypeOK'
<1>1. conta' \in [Contas -> LinhaDeConta]
  BY PassoContas
<1>2. \A c \in Contas : \A d \in docs'[c] : d.tipo \in TiposDoc
  BY PassoDocs DEF LinhaOK
<1>3. \A t \in tokens' : t.c \in Contas
  BY PassoSessao DEF SessaoInv
<1>4. cruzadas' \subseteq Contas /\ editadas' \subseteq Contas
  BY PassoMarcas
<1>5. \A k \in Chaves : cred'[k].ips \subseteq Ips
  BY PassoCred DEF LinhaDeCred
<1> QED BY <1>1, <1>2, <1>3, <1>4, <1>5 DEF TypeOK, LinhaDeConta

LEMMA NoInicio == Init => AcessoInv
<1> SUFFICES ASSUME Init PROVE AcessoInv
  OBVIOUS
<1>1. /\ orc \in Orcamentos /\ orc.madura \in BOOLEAN
      /\ \A p \in {"PF", "PJ"} : Exigidos[p] \subseteq TiposDoc
  BY ContaAssumption DEF Init, ContaInit
<1>2. PICK p \in {"PF", "PJ"} :
        /\ conta = [c \in Contas |->
            [sit |-> IF orc.madura THEN "ATIVO" ELSE "inexistente", bloq |-> FALSE,
             tipo |-> p, carteira |-> orc.madura, aberta |-> FALSE, provisoria |-> FALSE]]
        /\ docs = [c \in Contas |-> IF orc.madura THEN Completos(p) ELSE {}]
  BY DEF Init, ContaInit
<1>3. /\ tokens = {} /\ ato = [s \in Sessoes |-> Livre] /\ relogio = 0
      /\ cruzadas = {} /\ editadas = {}
  BY DEF Init, ContaInit
<1>4. /\ cred = [k \in Chaves |->
           IF orc.madura THEN [Nenhuma EXCEPT !.ativa = TRUE, !.atual = 1, !.legado = TRUE]
           ELSE Nenhuma]
      /\ entregues = [k \in Chaves |-> IF orc.madura THEN <<1>> ELSE <<>>]
      /\ migra = {} /\ tropecos = {} /\ desfeitas = {}
  BY DEF Init, CredencialInit
<1>5. \A d \in Completos(p) : LinhaOK(d)
  BY <1>1 DEF Completos, LinhaOK
<1>6. \A c \in Contas : conta[c].sit \in {"ATIVO", "inexistente"}
  BY <1>2
<1>7. CadastroInv
  <2>1. \A s \in Sessoes : AtoOK(ato[s])
    BY <1>3 DEF AtoOK
  <2>2. DOMAIN docs = Contas /\ \A c \in Contas : \A d \in docs[c] : LinhaOK(d)
    BY <1>2, <1>5
  <2>3. \A s \in Sessoes : ato[s].op = "livre"
    BY <1>3 DEF Livre
  <2>4. \A c \in Contas : ~Existe(c) => docs[c] = {}
    BY <1>1, <1>2 DEF Existe, Situacoes
  <2>5. AnaliseAcompanhaDocumentos
    BY <1>6 DEF AnaliseAcompanhaDocumentos
  <2> QED BY <1>3, <2>1, <2>2, <2>3, <2>4, <2>5 DEF CadastroInv, NoCadastro
<1>8. SessaoInv
  BY <1>3 DEF SessaoInv
<1>9. SegredoInv
  <2>1. PICK n, a, b, r : /\ n = Nenhuma /\ a = ComAtiva(n, TRUE)
                          /\ b = ComAtual(a, 1) /\ r = ComLegado(b, TRUE)
    OBVIOUS
  <2>2. n \in LinhaDeCred /\ n.anterior = 0 /\ n.atual = 0 /\ ~n.ativa
    BY <2>1 DEF Nenhuma, LinhaDeCred
  <2>3. a \in LinhaDeCred /\ a.anterior = n.anterior
    BY <2>1, <2>2, CredMuda
  <2>4. b \in LinhaDeCred /\ b.atual = 1 /\ b.anterior = a.anterior
    <3>1. 1 \in Nat
      OBVIOUS
    <3> QED BY <2>1, <2>3, <3>1, CredAtual
  <2>5. r \in LinhaDeCred /\ MesmosSegredos(b, r)
    BY <2>1, <2>4, CredMuda
  <2>6. cred = [k \in Chaves |-> IF orc.madura THEN r ELSE n]
    BY <1>4, <2>1 DEF ComAtiva, ComAtual, ComLegado
  <2>7. cred \in [Chaves -> LinhaDeCred] /\ entregues \in [Chaves -> Seq(Nat)]
    BY <1>4, <2>2, <2>5, <2>6
  <2>8. ASSUME NEW k \in Chaves
        PROVE  /\ \A i \in 1..Len(entregues[k]) : entregues[k][i] = i
               /\ cred[k].ativa => entregues[k] # <<>>
               /\ cred[k].atual = Len(entregues[k]) /\ cred[k].anterior = 0
    <3>1. CASE orc.madura
      <4>1. entregues[k] = <<1>> /\ cred[k] = r
        BY <1>4, <2>6, <3>1
      <4>2. r.atual = 1 /\ r.anterior = 0
        BY <2>2, <2>3, <2>4, <2>5 DEF MesmosSegredos
      <4> QED BY <4>1, <4>2
    <3>2. CASE ~orc.madura
      <4>1. entregues[k] = <<>> /\ cred[k] = n
        BY <1>4, <2>6, <3>2
      <4> QED BY <2>2, <4>1
    <3> QED BY <3>1, <3>2
  <2>9. \A s \in Sessoes : ato[s].op # "rotacionar"
    BY <1>3 DEF Livre
  <2> QED BY <1>4, <2>7, <2>8, <2>9 DEF SegredoInv
<1>10. TypeOK
  <2>1. conta \in [Contas -> LinhaDeConta]
    BY <1>1, <1>2 DEF LinhaDeConta, Situacoes
  <2> QED BY <1>3, <1>7, <1>8, <1>9, <2>1 DEF TypeOK, LinhaDeConta, CadastroInv, SegredoInv,
                                              LinhaOK, LinhaDeCred
<1> QED BY <1>7, <1>8, <1>9, <1>10 DEF AcessoInv

(* Every reachable state of the accounts and the credentials satisfies the  *)
(* inductive invariant, for any number of accounts, requests, documents and *)
(* credentials (onboarding.util.ts, admin-documentos.controller.ts,         *)
(* sessao-painel.ts, credencial-auth.service.ts).                           *)
THEOREM AcessoIntegro == Spec => []AcessoInv
<1>1. AcessoInv /\ [Next]_vars => AcessoInv'
  BY PassoTipos, PassoSessao, PassoCadastro, PassoSegredo DEF AcessoInv
<1> QED BY NoInicio, <1>1, PTL DEF Spec

(* The type invariant the run checks.                                       *)
THEOREM TiposDoAcesso == Spec => []TypeOK
<1>1. AcessoInv => TypeOK
  BY DEF AcessoInv
<1> QED BY AcessoIntegro, <1>1, PTL

(* However often it is renewed, a session ends at its ceiling after the     *)
(* login that opened it (renovar).                                          *)
THEOREM SessaoAcaba == Spec => []SessaoTemTeto
<1>1. AcessoInv => SessaoTemTeto
  BY DEF AcessoInv, SessaoInv, SessaoTemTeto
<1> QED BY AcessoIntegro, <1>1, PTL

(* The approval queue follows the documents, in whatever order they are     *)
(* sent, uploaded and refused and whichever request dies half way           *)
(* (reavaliarSituacoes), except across the two ways out the property names. *)
THEOREM FilaAcompanha == Spec => []AnaliseAcompanhaDocumentos
<1>1. AcessoInv => AnaliseAcompanhaDocumentos
  BY DEF AcessoInv, CadastroInv
<1> QED BY AcessoIntegro, <1>1, PTL

(* However rotations (crossing ones included), rewrites of the old hash,    *)
(* authentications and deaths interleave, the last secret handed out is     *)
(* accepted until a rewrite begun before the last rotation lands after it;  *)
(* and until a rotation crosses another or a rewrite, no secret older than  *)
(* the one before the last is (rotacionar, autenticarPorChaveSegredo).      *)
THEOREM UltimoValeAteDesfeito == Spec => []UltimoSegredoVale
<1>1. ASSUME AcessoInv, NEW k \in Chaves, cred[k].ativa
      PROVE  /\ k \notin desfeitas => Aceita(k, Ultimo(k))
             /\ k \notin tropecos =>
                  \A g \in 1..Len(entregues[k]) :
                    Aceita(k, entregues[k][g]) => g >= Len(entregues[k]) - 1
  <2>1. /\ \A i \in 1..Len(entregues[k]) : entregues[k][i] = i
        /\ entregues[k] # <<>> /\ entregues[k] \in Seq(Nat) /\ cred[k] \in LinhaDeCred
        /\ k \notin desfeitas => cred[k].atual = Len(entregues[k])
        /\ k \notin tropecos =>
             /\ cred[k].atual = Len(entregues[k])
             /\ cred[k].anterior = 0 \/ cred[k].anterior + 1 = Len(entregues[k])
    BY <1>1 DEF AcessoInv, SegredoInv
  <2>2. Len(entregues[k]) \in 1..Len(entregues[k])
    BY <2>1
  <2>3. Ultimo(k) = Len(entregues[k])
    BY <2>1, <2>2 DEF Ultimo
  <2>4. cred[k].anterior \in Nat
    BY <2>1 DEF LinhaDeCred
  <2> QED BY <1>1, <2>1, <2>3, <2>4 DEF Aceita, AnteriorVale
<1>2. AcessoInv => UltimoSegredoVale
  BY <1>1 DEF UltimoSegredoVale
<1> QED BY AcessoIntegro, <1>2, PTL
=============================================================================
