----------------------------- MODULE MedProofs -----------------------------
(* Contested sales, for any number of cases, sales, notices, analysts and   *)
(* workers of queue 9: MedInv is inductive, and with it the wallet loses a  *)
(* case once and the payer gets his money back once.                        *)
EXTENDS Med, SomasProofs

LEMMA TiposEntrega ==
  ASSUME TypeOK, NEW e \in Entregas,
         Registrar(e) \/ LerSaldo(e) \/ Bloquear(e) \/ DebitarImediato(e) \/ CairEntrega(e)
  PROVE  TypeOK'
<1> USE DEF carteira, registro, devolucao, entrega, analista, worker, ambiente, FimEntrega
<1>0. CasoDe[e] \in Casos /\ VendaDe[CasoDe[e]] \in Vendas /\ Valor[CasoDe[e]] \in Nat
      /\ ModoInicial \in Modos
  BY MedAssumption
<1>1. CASE Registrar(e)
  BY <1>0, <1>1 DEF Registrar, TypeOK, Decidiveis
<1>2. CASE LerSaldo(e)
  BY <1>2 DEF LerSaldo, TypeOK
<1>3. CASE Bloquear(e)
  BY <1>0, <1>3 DEF Bloquear, TypeOK, Menor, Decidiveis
<1>4. CASE DebitarImediato(e)
  BY <1>0, <1>4 DEF DebitarImediato, TypeOK, Encerrados
<1>5. CASE CairEntrega(e)
  BY <1>0, <1>5, MedAssumption DEF CairEntrega, TypeOK
<1> QED BY <1>1, <1>2, <1>3, <1>4, <1>5

LEMMA NenhumECaso == Nenhum \in Casos
BY MedAssumption DEF Nenhum

LEMMA TiposAnalista ==
  ASSUME TypeOK, NEW a \in Analistas,
         \/ \E c \in Casos, d \in {"ACEITO", "RECUSADO"} : LerCaso(a, c, d)
         \/ Aceitar(a) \/ Recusar(a)
  PROVE  TypeOK'
<1> USE DEF carteira, registro, devolucao, entrega, analista, worker, ambiente, FimAnalista
<1>0. aCaso[a] \in Casos /\ Valor[aCaso[a]] \in Nat /\ aBloq[a] \in Nat /\ disp \in Int /\ bloq \in Nat
  BY MedAssumption DEF TypeOK
<1>1. ASSUME NEW c \in Casos, NEW d \in {"ACEITO", "RECUSADO"}, LerCaso(a, c, d) PROVE TypeOK'
  BY <1>1, MedAssumption DEF LerCaso, TypeOK
<1>2. CASE Aceitar(a)
  BY <1>0, <1>2, NenhumECaso DEF Aceitar, TypeOK, Encerrados
<1>3. CASE Recusar(a)
  BY <1>0, <1>3, NenhumECaso DEF Recusar, DesfazBloqueio, TypeOK, Encerrados
<1> QED BY <1>1, <1>2, <1>3

LEMMA TiposWorker ==
  ASSUME TypeOK, NEW w \in Workers,
         \/ \E c \in Casos : IniciarJob(w, c)
         \/ Reivindicar(w) \/ Postar(w) \/ ReterPreEnvio(w) \/ Congelar(w)
         \/ Concluir(w) \/ CairWorker(w)
  PROVE  TypeOK'
<1> USE DEF carteira, registro, devolucao, entrega, analista, worker, ambiente, FimJob, Vai
<1>0. wCaso[w] \in Casos /\ VendaDe[wCaso[w]] \in Vendas /\ Nenhum \in Casos
  BY MedAssumption, NenhumECaso DEF TypeOK
<1>1. ASSUME NEW c \in Casos, IniciarJob(w, c) PROVE TypeOK'
  BY <1>1 DEF IniciarJob, TypeOK
<1>2. CASE Reivindicar(w)
  BY <1>0, <1>2 DEF Reivindicar, TypeOK
<1>3. CASE Postar(w)
  BY <1>0, <1>3 DEF Postar, TypeOK
<1>4. CASE ReterPreEnvio(w)
  BY <1>0, <1>4 DEF ReterPreEnvio, TypeOK
<1>5. CASE Congelar(w)
  BY <1>0, <1>5 DEF Congelar, TypeOK
<1>6. CASE Concluir(w)
  BY <1>0, <1>6 DEF Concluir, TypeOK
<1>7. CASE CairWorker(w)
  BY <1>0, <1>7, MedAssumption DEF CairWorker, TypeOK
<1> QED BY <1>1, <1>2, <1>3, <1>4, <1>5, <1>6, <1>7

LEMMA TiposPasso == ASSUME TypeOK, [Next]_vars PROVE TypeOK'
<1> USE DEF carteira, registro, devolucao, entrega, analista, worker, ambiente
<1>1. ASSUME NEW c \in Casos, VarrerDevolucoes(c) PROVE TypeOK'
  BY <1>1 DEF VarrerDevolucoes, TypeOK
<1>2. ASSUME NEW v \in {-1, 1}, Girar(v) PROVE TypeOK'
  BY <1>2, MedAssumption DEF Girar, TypeOK
<1>3. ASSUME NEW m \in Modos, MudarModo(m) PROVE TypeOK'
  BY <1>3, MedAssumption DEF MudarModo, TypeOK
<1>4. CASE UNCHANGED vars
  BY <1>4 DEF vars, TypeOK
<1> QED BY <1>1, <1>2, <1>3, <1>4, TiposEntrega, TiposAnalista, TiposWorker DEF Next

-----------------------------------------------------------------------------
(* The refund.                                                              *)
Devolve == DevolucaoInv /\ MaoInv

LEMMA DevolveQuieto ==
  ASSUME Devolve, UNCHANGED <<caso, avisos, dev, devolvido, wFase, wCaso>>
  PROVE  Devolve'
BY DEF Devolve, DevolucaoInv, MaoInv

(* A case that moves and is neither accepted nor debited.                   *)
LEMMA DevolveCasoAnda ==
  ASSUME Devolve, UNCHANGED <<avisos, dev, devolvido, wFase, wCaso>>,
         NEW c \in Casos, caso[c] \notin Encerrados,
         NEW x, x \notin {"ACEITO", "DEBITADO"}, caso' = [caso EXCEPT ![c] = x], TypeOK
  PROVE  Devolve'
<1>1. MaoInv'
  BY DEF Devolve, MaoInv
<1>2. \A d \in Casos : (caso'[d] = "ACEITO" <=> caso[d] = "ACEITO")
                       /\ (caso'[d] = "DEBITADO" <=> caso[d] = "DEBITADO")
  BY DEF TypeOK, Encerrados
<1>3. DevolucaoInv'
  BY <1>2 DEF Devolve, DevolucaoInv
<1> QED BY <1>1, <1>3 DEF Devolve

LEMMA DevolveEntrega ==
  ASSUME TypeOK, Devolve, NEW e \in Entregas,
         Registrar(e) \/ LerSaldo(e) \/ Bloquear(e) \/ DebitarImediato(e) \/ CairEntrega(e)
  PROVE  Devolve'
<1> USE DEF carteira, registro, devolucao, entrega, analista, worker, ambiente
<1>0. PICK c \in Casos : c = CasoDe[e]
  BY MedAssumption
<1>1. CASE Registrar(e)
  BY <1>0, <1>1, DevolveQuieto, DevolveCasoAnda DEF Registrar, Encerrados
<1>2. CASE LerSaldo(e) \/ CairEntrega(e)
  BY <1>2, DevolveQuieto DEF LerSaldo, CairEntrega
<1>3. CASE Bloquear(e)
  BY <1>0, <1>3, DevolveQuieto, DevolveCasoAnda DEF Bloquear, AindaRecebido, Encerrados
<1>4. CASE DebitarImediato(e)
  <2>1. CASE ~AindaRecebido(c)
    BY <1>0, <1>4, <2>1, DevolveQuieto DEF DebitarImediato
  <2>2. CASE AindaRecebido(c)
    <3>1. /\ caso[c] = "RECEBIDO"
          /\ caso' = [caso EXCEPT ![c] = "DEBITADO"]
          /\ avisos' = [avisos EXCEPT ![c] = avisos[c] + 1]
          /\ UNCHANGED <<dev, devTent, devolvido, wFase, wCaso>>
      BY <1>0, <1>4, <2>2 DEF DebitarImediato, AindaRecebido
    <3>2. MaoInv'
      BY <3>1 DEF Devolve, MaoInv
    <3>3. DevolucaoInv'
      BY <3>1 DEF Devolve, DevolucaoInv, TypeOK
    <3> QED BY <3>2, <3>3 DEF Devolve
  <2> QED BY <2>1, <2>2
<1> QED BY <1>1, <1>2, <1>3, <1>4

LEMMA DevolveAnalista ==
  ASSUME TypeOK, Devolve, NEW a \in Analistas,
         \/ \E c \in Casos, d \in {"ACEITO", "RECUSADO"} : LerCaso(a, c, d)
         \/ Aceitar(a) \/ Recusar(a)
  PROVE  Devolve'
<1> USE DEF carteira, registro, devolucao, entrega, analista, worker, ambiente
<1>0. PICK c \in Casos : c = aCaso[a]
  BY DEF TypeOK
<1>1. ASSUME NEW k \in Casos, NEW d \in {"ACEITO", "RECUSADO"}, LerCaso(a, k, d) PROVE Devolve'
  BY <1>1, DevolveQuieto DEF LerCaso
<1>2. CASE Recusar(a)
  BY <1>0, <1>2, DevolveQuieto, DevolveCasoAnda DEF Recusar, AindaDecidivel, Decidiveis, Encerrados
<1>3. CASE Aceitar(a)
  <2>1. CASE UNCHANGED <<caso, dev>>
    BY <1>3, <2>1, DevolveQuieto DEF Aceitar
  <2>2. CASE ~UNCHANGED <<caso, dev>>
    <3>1. /\ caso[c] \in Decidiveis
          /\ caso' = [caso EXCEPT ![c] = "ACEITO"]
          /\ dev' = [dev EXCEPT ![c] = "PENDENTE"]
          /\ UNCHANGED <<devTent, devolvido, avisos, wFase, wCaso>>
      BY <1>0, <1>3, <2>2 DEF Aceitar, AindaDecidivel
    <3>2. dev[c] = "ausente"
      BY <3>1 DEF Devolve, DevolucaoInv, Decidiveis
    <3>3. MaoInv'
      BY <3>1, <3>2 DEF Devolve, MaoInv, TypeOK
    <3>4. DevolucaoInv'
      BY <3>1, <3>2 DEF Devolve, DevolucaoInv, TypeOK, Decidiveis
    <3> QED BY <3>3, <3>4 DEF Devolve
  <2> QED BY <2>1, <2>2
<1> QED BY <1>1, <1>2, <1>3

LEMMA DevolveWorker ==
  ASSUME TypeOK, Devolve, NEW w \in Workers,
         \/ \E c \in Casos : IniciarJob(w, c)
         \/ Reivindicar(w) \/ Postar(w) \/ ReterPreEnvio(w) \/ Congelar(w)
         \/ Concluir(w) \/ CairWorker(w)
  PROVE  Devolve'
<1> USE DEF carteira, registro, devolucao, entrega, analista, worker, ambiente, FimJob, Vai
<1>0. PICK c \in Casos : c = wCaso[w]
  BY DEF TypeOK
<1>1. ASSUME NEW k \in Casos, IniciarJob(w, k) PROVE Devolve'
  <2>1. MaoInv'
    BY <1>1 DEF IniciarJob, Devolve, MaoInv, TypeOK, NaMao
  <2>2. DevolucaoInv'
    BY <1>1 DEF IniciarJob, Devolve, DevolucaoInv
  <2> QED BY <2>1, <2>2 DEF Devolve
<1>2. CASE Reivindicar(w)
  <2>1. MaoInv'
    BY <1>0, <1>2 DEF Reivindicar, Reivindicavel, Devolve, MaoInv, DevolucaoInv, TypeOK, NaMao
  <2>2. DevolucaoInv'
    BY <1>0, <1>2 DEF Reivindicar, Reivindicavel, Devolve, DevolucaoInv, TypeOK
  <2> QED BY <2>1, <2>2 DEF Devolve
<1>3. CASE Postar(w)
  <2>1. MaoInv'
    BY <1>0, <1>3 DEF Postar, Devolve, MaoInv, TypeOK, NaMao
  <2>2. DevolucaoInv'
    BY <1>0, <1>3 DEF Postar, Devolve, MaoInv, DevolucaoInv, TypeOK, NaMao
  <2> QED BY <2>1, <2>2 DEF Devolve
<1>4. CASE ReterPreEnvio(w)
  <2>1. MaoInv'
    BY <1>0, <1>4 DEF ReterPreEnvio, Devolve, MaoInv, TypeOK, NaMao
  <2>2. DevolucaoInv'
    BY <1>0, <1>4 DEF ReterPreEnvio, Devolve, MaoInv, DevolucaoInv, TypeOK, NaMao
  <2> QED BY <2>1, <2>2 DEF Devolve
<1>5. CASE Congelar(w)
  <2>1. MaoInv'
    BY <1>0, <1>5 DEF Congelar, Devolve, MaoInv, TypeOK, NaMao
  <2>2. DevolucaoInv'
    BY <1>0, <1>5 DEF Congelar, Devolve, MaoInv, DevolucaoInv, TypeOK, NaMao
  <2> QED BY <2>1, <2>2 DEF Devolve
<1>6. CASE Concluir(w)
  <2>1. MaoInv'
    BY <1>0, <1>6 DEF Concluir, Devolve, MaoInv, TypeOK, NaMao
  <2>2. DevolucaoInv'
    BY <1>0, <1>6 DEF Concluir, Devolve, MaoInv, DevolucaoInv, TypeOK, NaMao
  <2> QED BY <2>1, <2>2 DEF Devolve
<1>7. CASE CairWorker(w)
  <2>1. MaoInv'
    BY <1>7 DEF CairWorker, Devolve, MaoInv, TypeOK, NaMao
  <2>2. DevolucaoInv'
    BY <1>7 DEF CairWorker, Devolve, DevolucaoInv
  <2> QED BY <2>1, <2>2 DEF Devolve
<1> QED BY <1>1, <1>2, <1>3, <1>4, <1>5, <1>6, <1>7

LEMMA DevolvePasso == ASSUME TypeOK, Devolve, [Next]_vars PROVE Devolve'
<1> USE DEF carteira, registro, devolucao, entrega, analista, worker, ambiente
<1>1. ASSUME NEW c \in Casos, VarrerDevolucoes(c) PROVE Devolve'
  BY <1>1, DevolveQuieto DEF VarrerDevolucoes
<1>2. ASSUME NEW v \in {-1, 1}, Girar(v) PROVE Devolve'
  BY <1>2, DevolveQuieto DEF Girar
<1>3. ASSUME NEW m \in Modos, MudarModo(m) PROVE Devolve'
  BY <1>3, DevolveQuieto DEF MudarModo
<1>4. CASE UNCHANGED vars
  BY <1>4, DevolveQuieto DEF vars
<1> QED BY <1>1, <1>2, <1>3, <1>4, DevolveEntrega, DevolveAnalista, DevolveWorker DEF Next

-----------------------------------------------------------------------------
(* The money.  BloqueadoFecha needs a case that was not held to hold        *)
(* nothing: decidir may take one that was only received.                    *)
Presos == {c \in Casos : caso[c] = "SALDO_BLOQUEADO"}
Perdidos == {c \in Casos : caso[c] \in {"ACEITO", "DEBITADO"}}
Vazios == \A c \in Casos : caso[c] \in {"ausente", "RECEBIDO"} => cBloq[c] = 0
Retido == SumFunctionOnSet(cBloq, Presos)
Perdido == SumFunctionOnSet(Valor, Perdidos)
Dinheiro ==
  /\ Vazios
  /\ LeituraVelha \/ bloq = Retido
  /\ disp + bloq = entradas - Perdido
  /\ TetoDaVenda

LEMMA DinheiroSao ==
  Dinheiro <=> Vazios /\ (LeituraVelha \/ BloqueadoFecha) /\ CarteiraFecha /\ TetoDaVenda
BY DEF Dinheiro, BloqueadoFecha, CarteiraFecha, Presos, Perdidos, Retido, Perdido

LEMMA CasosFinitos == \A S \in SUBSET Casos : IsFiniteSet(S)
BY MedAssumption, FS_Subset

LEMMA SomaDeValor ==
  ASSUME NEW S \in SUBSET Casos
  PROVE  /\ SumFunctionOnSet(Valor, S) \in Nat
         /\ \A R \in SUBSET S : SumFunctionOnSet(Valor, R) <= SumFunctionOnSet(Valor, S)
         /\ \A c \in Casos \ S :
              SumFunctionOnSet(Valor, S \cup {c}) = SumFunctionOnSet(Valor, S) + Valor[c]
<1>1. IsFiniteSet(S) /\ \A x \in Casos : Valor[x] \in Nat
  BY CasosFinitos, MedAssumption
<1>2. SumFunctionOnSet(Valor, S) \in Nat
  BY <1>1, SomaNatural
<1>3. ASSUME NEW R \in SUBSET S
      PROVE  SumFunctionOnSet(Valor, R) <= SumFunctionOnSet(Valor, S)
  BY <1>1, SomaCresce
<1>4. ASSUME NEW c \in Casos \ S
      PROVE  SumFunctionOnSet(Valor, S \cup {c}) = SumFunctionOnSet(Valor, S) + Valor[c]
  BY <1>1, SomaMaisUm
<1> QED BY <1>2, <1>3, <1>4

LEMMA DinheiroInteiro ==
  ASSUME TypeOK
  PROVE  /\ Perdidos \in SUBSET Casos /\ Perdido \in Nat
         /\ Presos \in SUBSET Casos /\ IsFiniteSet(Presos) /\ Retido \in Nat
         /\ \A v \in Vendas : Vivos(v) \in SUBSET Casos
<1>1. Perdidos \in SUBSET Casos /\ Presos \in SUBSET Casos /\ IsFiniteSet(Presos)
  BY CasosFinitos DEF Perdidos, Presos
<1>2. Perdido \in Nat
  BY <1>1, SomaDeValor DEF Perdido
<1>3. \A x \in Presos : cBloq[x] \in Nat
  BY DEF Presos, TypeOK
<1>4. Retido \in Nat
  BY <1>1, <1>3, SomaNatural DEF Retido
<1> QED BY <1>1, <1>2, <1>4 DEF Vivos, CasosDa

(* What a case that moves changes of the three sets.                        *)
Anda(c, x) == caso' = [caso EXCEPT ![c] = x]
LEMMA CasoMuda ==
  ASSUME TypeOK, NEW c \in Casos, NEW x, Anda(c, x)
  PROVE  /\ x = "SALDO_BLOQUEADO" => Presos' = Presos \cup {c}
         /\ x # "SALDO_BLOQUEADO" => Presos' = Presos \ {c}
         /\ x \in {"ACEITO", "DEBITADO"} => Perdidos' = Perdidos \cup {c}
         /\ x \notin {"ACEITO", "DEBITADO"} => Perdidos' = Perdidos \ {c}
         /\ \A v \in Vendas :
              \/ Vivos(v)' \in SUBSET Vivos(v)
              \/ v = VendaDe[c] /\ caso[c] \in {"ausente", "RECUSADO"}
                 /\ Vivos(v)' = Vivos(v) \cup {c}
<1>1. \A d \in Casos : caso'[d] = IF d = c THEN x ELSE caso[d]
  BY DEF TypeOK, Anda
<1>2. /\ x = "SALDO_BLOQUEADO" => Presos' = Presos \cup {c}
      /\ x # "SALDO_BLOQUEADO" => Presos' = Presos \ {c}
  BY <1>1 DEF Presos
<1>3. /\ x \in {"ACEITO", "DEBITADO"} => Perdidos' = Perdidos \cup {c}
      /\ x \notin {"ACEITO", "DEBITADO"} => Perdidos' = Perdidos \ {c}
  BY <1>1 DEF Perdidos
<1>4. ASSUME NEW v \in Vendas
      PROVE  \/ Vivos(v)' \in SUBSET Vivos(v)
             \/ v = VendaDe[c] /\ caso[c] \in {"ausente", "RECUSADO"}
                /\ Vivos(v)' = Vivos(v) \cup {c}
  BY <1>1 DEF Vivos, CasosDa
<1> QED BY <1>2, <1>3, <1>4

(* The cap of a sale holds on when no case comes to life.                   *)
LEMMA TetoFica ==
  ASSUME TypeOK, TetoDaVenda, \A v \in Vendas : Vivos(v)' \in SUBSET Vivos(v)
  PROVE  TetoDaVenda'
<1> SUFFICES ASSUME NEW v \in Vendas PROVE SumFunctionOnSet(Valor, Vivos(v)') <= Bruto[v]
  BY DEF TetoDaVenda
<1>1. Vivos(v) \in SUBSET Casos /\ Vivos(v)' \in SUBSET Vivos(v) /\ Vivos(v)' \in SUBSET Casos
  BY DinheiroInteiro
<1>2. SumFunctionOnSet(Valor, Vivos(v)) <= Bruto[v] /\ Bruto[v] \in Nat
  BY MedAssumption DEF TetoDaVenda
<1> QED BY <1>1, <1>2, SomaDeValor

LEMMA DinheiroQuieto ==
  ASSUME TypeOK, Dinheiro, UNCHANGED <<caso, cBloq, bloq>>, disp' - entradas' = disp - entradas,
         disp' \in Int, entradas' \in Int
  PROVE  Dinheiro'
<1>1. Presos' = Presos /\ Perdidos' = Perdidos /\ Retido' = Retido /\ Perdido' = Perdido
  BY DEF Presos, Perdidos, Retido, Perdido
<1>2. TetoDaVenda'
  BY TetoFica DEF Dinheiro, Vivos
<1>3. Perdido \in Nat /\ disp \in Int /\ bloq \in Int /\ entradas \in Int
  BY DinheiroInteiro DEF TypeOK
<1>4. disp' + bloq' = entradas' - Perdido'
  <2>1. disp + bloq = entradas - Perdido /\ bloq' = bloq /\ Perdido' = Perdido
    BY <1>1 DEF Dinheiro
  <2>2. PICK a \in Int, b \in Int, e \in Int, p \in Int, d \in Int, f \in Int :
          a = disp /\ b = bloq /\ e = entradas /\ p = Perdido /\ d = disp' /\ f = entradas'
    BY <1>3
  <2>3. a + b = e - p /\ d - f = a - e
    BY <2>1, <2>2
  <2>4. d + b = f - p
    BY <2>3
  <2> QED BY <2>1, <2>2, <2>4
<1> QED BY <1>1, <1>2, <1>4 DEF Dinheiro, Vazios

(* A notice.                                                                *)
LEMMA DinheiroRegistrar ==
  ASSUME TypeOK, Dinheiro, NEW e \in Entregas, Registrar(e)
  PROVE  Dinheiro'
<1> USE DEF carteira, registro
<1>0. PICK c \in Casos : c = CasoDe[e]
  BY MedAssumption
<1>1. /\ UNCHANGED <<disp, bloq, entradas, cBloq>>
      /\ disp \in Int /\ entradas \in Int
  BY <1>0 DEF Registrar, TypeOK
<1>2. CASE UNCHANGED caso
  BY <1>1, <1>2, DinheiroQuieto
<1>3. CASE ~UNCHANGED caso
  <2>1. caso[c] = "ausente" /\ CabeNaVenda(c) /\ caso' = [caso EXCEPT ![c] = "RECEBIDO"]
    BY <1>0, <1>3 DEF Registrar, TypeOK
  <2>2. Presos' = Presos /\ Perdidos' = Perdidos
    <3>1. Anda(c, "RECEBIDO")
      BY <2>1 DEF Anda
    <3>2. Presos' = Presos \ {c} /\ Perdidos' = Perdidos \ {c}
      BY <3>1, CasoMuda
    <3> QED BY <2>1, <3>2 DEF Presos, Perdidos
  <2>3. Retido' = Retido /\ Perdido' = Perdido
    BY <1>1, <2>2 DEF Retido, Perdido
  <2>4. TetoDaVenda'
    <3> SUFFICES ASSUME NEW v \in Vendas PROVE SumFunctionOnSet(Valor, Vivos(v)') <= Bruto[v]
      BY DEF TetoDaVenda
    <3>1. Vivos(v) \in SUBSET Casos /\ SumFunctionOnSet(Valor, Vivos(v)) <= Bruto[v]
          /\ Bruto[v] \in Nat
      BY DinheiroInteiro, MedAssumption DEF Dinheiro, TetoDaVenda
    <3>2. CASE Vivos(v)' \in SUBSET Vivos(v)
      <4>1. Vivos(v)' \in SUBSET Casos
        BY <3>1, <3>2
      <4> QED BY <3>1, <3>2, <4>1, SomaDeValor
    <3>3. CASE v = VendaDe[c] /\ Vivos(v)' = Vivos(v) \cup {c}
      <4>1. SumFunctionOnSet(Valor, Vivos(v)) + Valor[c] <= Bruto[v]
        BY <2>1, <3>3 DEF CabeNaVenda
      <4>2. c \in Casos \ Vivos(v)
        BY <2>1 DEF Vivos
      <4> QED BY <3>1, <3>3, <4>1, <4>2, SomaDeValor
    <3>4. Anda(c, "RECEBIDO")
      BY <2>1 DEF Anda
    <3> QED BY <3>2, <3>3, <3>4, CasoMuda
  <2>5. Vazios'
    BY <1>1, <2>1 DEF Dinheiro, Vazios, TypeOK
  <2> QED BY <1>1, <2>3, <2>4, <2>5 DEF Dinheiro
<1> QED BY <1>2, <1>3

(* The sums when a received case is held.                                   *)
LEMMA RetidoMais ==
  ASSUME TypeOK, NEW c \in Casos, caso[c] # "SALDO_BLOQUEADO", NEW v \in Nat,
         Presos' = Presos \cup {c}, cBloq' = [cBloq EXCEPT ![c] = v]
  PROVE  Retido' = Retido + v
<1>1. c \notin Presos /\ Presos \in SUBSET Casos /\ IsFiniteSet(Presos)
  BY DinheiroInteiro DEF Presos
<1>2. \A x \in Casos : cBloq'[x] = (IF x = c THEN v ELSE cBloq[x])
  BY DEF TypeOK
<1>3. SumFunctionOnSet(cBloq', Presos) = SumFunctionOnSet(cBloq, Presos)
  <2>1. \A x \in Presos : cBloq[x] = cBloq'[x]
    BY <1>1, <1>2
  <2> QED BY <1>1, <2>1, SomaIgual
<1>4. \A x \in Presos \cup {c} : cBloq'[x] \in Int
  BY <1>1, <1>2 DEF TypeOK
<1>5. SumFunctionOnSet(cBloq', Presos \cup {c}) = SumFunctionOnSet(cBloq', Presos) + cBloq'[c]
  BY <1>1, <1>4, SomaMaisUm
<1> QED BY <1>2, <1>3, <1>5 DEF Retido

LEMMA RetidoMenos ==
  ASSUME TypeOK, Vazios, NEW c \in Casos, caso[c] \in Decidiveis, Presos' = Presos \ {c},
         \A x \in Casos \ {c} : cBloq'[x] = cBloq[x]
  PROVE  Retido' = Retido - cBloq[c]
<1>1. /\ Presos \in SUBSET Casos /\ IsFiniteSet(Presos) /\ IsFiniteSet(Presos \ {c})
      /\ Retido \in Nat
  BY DinheiroInteiro, FS_Subset
<1>2. SumFunctionOnSet(cBloq', Presos \ {c}) = SumFunctionOnSet(cBloq, Presos \ {c})
  <2>1. \A x \in Presos \ {c} : cBloq[x] = cBloq'[x]
    BY <1>1
  <2> QED BY <1>1, <2>1, SomaIgual
<1>3. Retido' = SumFunctionOnSet(cBloq, Presos \ {c})
  BY <1>2 DEF Retido
<1>4. \A x \in Presos : cBloq[x] \in Int
  BY <1>1 DEF TypeOK
<1>5. CASE c \in Presos
  <2>1. Retido = cBloq[c] + SumFunctionOnSet(cBloq, Presos \ {c})
    BY <1>1, <1>4, <1>5, SomaSeparada DEF Retido
  <2>2. SumFunctionOnSet(cBloq, Presos \ {c}) \in Int
    BY <1>1, <1>4, SomaInteira
  <2> QED BY <1>3, <1>4, <1>5, <2>1, <2>2
<1>6. CASE c \notin Presos
  <2>1. caso[c] = "RECEBIDO" /\ Presos \ {c} = Presos
    BY <1>6 DEF Presos, Decidiveis
  <2>2. cBloq[c] = 0
    BY <2>1 DEF Vazios
  <2>3. Retido' = Retido
    BY <1>3, <2>1 DEF Retido
  <2> QED BY <1>1, <2>2, <2>3
<1> QED BY <1>5, <1>6

LEMMA DinheiroBloquear ==
  ASSUME TypeOK, Dinheiro, NEW e \in Entregas, Bloquear(e)
  PROVE  Dinheiro'
<1>0. PICK c \in Casos : c = CasoDe[e]
  BY MedAssumption
<1>1. CASE UNCHANGED <<disp, bloq, cBloq, caso>>
  BY <1>1, DinheiroQuieto DEF Bloquear, TypeOK
<1>2. CASE ~UNCHANGED <<disp, bloq, cBloq, caso>>
  <2>1. PICK v : v = Menor(Valor[c], IF eDisp[e] > 0 THEN eDisp[e] ELSE 0)
    OBVIOUS
  <2>2. v \in Nat
    <3>1. Valor[c] \in Nat /\ eDisp[e] \in Int
      BY MedAssumption DEF TypeOK
    <3> QED BY <2>1, <3>1 DEF Menor
  <2>3. /\ caso[c] = "RECEBIDO"
        /\ disp' = disp - v /\ bloq' = bloq + v
        /\ cBloq' = [cBloq EXCEPT ![c] = v]
        /\ caso' = [caso EXCEPT ![c] = "SALDO_BLOQUEADO"]
        /\ UNCHANGED entradas
    BY <1>0, <1>2, <2>1 DEF Bloquear, AindaRecebido
  <2>13. Anda(c, "SALDO_BLOQUEADO")
    BY <2>3 DEF Anda
  <2>4. Presos' = Presos \cup {c} /\ Perdidos' = Perdidos \ {c}
    BY <2>13, CasoMuda
  <2>5. Perdidos' = Perdidos
    BY <2>3, <2>4 DEF Perdidos
  <2>6. Perdido' = Perdido /\ Retido' = Retido + v
    BY <2>2, <2>3, <2>4, <2>5, RetidoMais DEF Perdido
  <2>7. TetoDaVenda'
    <3>1. \A x \in Vendas : Vivos(x)' \in SUBSET Vivos(x)
      BY <2>3, <2>13, CasoMuda
    <3> QED BY <3>1, TetoFica DEF Dinheiro
  <2>8. Vazios'
    BY <2>3 DEF Dinheiro, Vazios, TypeOK
  <2>9. disp \in Int /\ bloq \in Int /\ entradas \in Int /\ Perdido \in Int
        /\ disp + bloq = entradas - Perdido
    BY DinheiroInteiro DEF TypeOK, Dinheiro
  <2>10. disp' + bloq' = entradas' - Perdido'
    BY <2>2, <2>3, <2>6, <2>9
  <2>11. LeituraVelha \/ bloq' = Retido'
    BY <2>3, <2>6 DEF Dinheiro
  <2> QED BY <2>7, <2>8, <2>10, <2>11 DEF Dinheiro
<1> QED BY <1>1, <1>2

(* A case is lost: debited at once, or accepted with b of it from the hold. *)
LEMMA DinheiroPerde ==
  ASSUME TypeOK, Dinheiro, NEW c \in Casos, caso[c] \in Decidiveis,
         NEW x \in {"ACEITO", "DEBITADO"}, Anda(c, x), NEW b \in Nat,
         bloq' = bloq - b, disp' = disp - (Valor[c] - b), UNCHANGED <<entradas, cBloq>>,
         LeituraVelha \/ b = cBloq[c]
  PROVE  Dinheiro'
<1>1. Presos' = Presos \ {c} /\ Perdidos' = Perdidos \cup {c}
  BY CasoMuda
<1>2. Perdido' = Perdido + Valor[c]
  <2>1. Perdidos \in SUBSET Casos /\ c \in Casos \ Perdidos
    BY DEF Perdidos, Decidiveis
  <2> QED BY <1>1, <2>1, SomaDeValor DEF Perdido
<1>3. Retido' = Retido - cBloq[c]
  BY <1>1, RetidoMenos DEF Dinheiro
<1>4. TetoDaVenda'
  <2>1. \A v \in Vendas : Vivos(v)' \in SUBSET Vivos(v)
    BY CasoMuda DEF Decidiveis
  <2> QED BY <2>1, TetoFica DEF Dinheiro
<1>5. Vazios'
  BY DEF Dinheiro, Vazios, TypeOK, Anda
<1>6. /\ disp \in Int /\ bloq \in Int /\ entradas \in Int /\ Perdido \in Int /\ Valor[c] \in Int
      /\ cBloq[c] \in Int /\ disp + bloq = entradas - Perdido
  BY DinheiroInteiro, MedAssumption DEF TypeOK, Dinheiro
<1>7. disp' + bloq' = entradas' - Perdido'
  BY <1>2, <1>6
<1>8. LeituraVelha \/ bloq' = Retido'
  BY <1>3 DEF Dinheiro
<1> QED BY <1>4, <1>5, <1>7, <1>8 DEF Dinheiro

LEMMA DinheiroDebitar ==
  ASSUME TypeOK, Dinheiro, NEW e \in Entregas, DebitarImediato(e)
  PROVE  Dinheiro'
<1>0. PICK c \in Casos : c = CasoDe[e]
  BY MedAssumption
<1>1. CASE UNCHANGED <<disp, caso>>
  BY <1>1, DinheiroQuieto DEF DebitarImediato, TypeOK
<1>2. CASE ~UNCHANGED <<disp, caso>>
  <2>1. /\ caso[c] = "RECEBIDO" /\ Anda(c, "DEBITADO")
        /\ disp' = disp - Valor[c] /\ UNCHANGED <<bloq, entradas, cBloq>>
    BY <1>0, <1>2 DEF DebitarImediato, AindaRecebido, Anda
  <2>2. cBloq[c] = 0 /\ caso[c] \in Decidiveis
    BY <2>1 DEF Dinheiro, Vazios, Decidiveis
  <2>3. bloq' = bloq - 0 /\ disp' = disp - (Valor[c] - 0)
    BY <2>1, MedAssumption DEF TypeOK
  <2> QED BY <2>1, <2>2, <2>3, DinheiroPerde
<1> QED BY <1>1, <1>2

LEMMA DinheiroAceitar ==
  ASSUME TypeOK, Dinheiro, NEW a \in Analistas, Aceitar(a)
  PROVE  Dinheiro'
<1>0. PICK c \in Casos, b \in Nat : c = aCaso[a] /\ b = aBloq[a]
  BY DEF TypeOK
<1>1. CASE UNCHANGED <<bloq, disp, caso>>
  BY <1>1, DinheiroQuieto DEF Aceitar, TypeOK
<1>2. CASE ~UNCHANGED <<bloq, disp, caso>>
  <2>1. /\ caso[c] \in Decidiveis /\ Anda(c, "ACEITO")
        /\ bloq' = bloq - b /\ disp' = disp - (Valor[c] - b) /\ UNCHANGED <<entradas, cBloq>>
        /\ LeituraVelha \/ b = cBloq[c]
    BY <1>0, <1>2 DEF Aceitar, AindaDecidivel, Lida, Anda
  <2> QED BY <2>1, DinheiroPerde
<1> QED BY <1>1, <1>2

LEMMA DinheiroRecusar ==
  ASSUME TypeOK, Dinheiro, NEW a \in Analistas, Recusar(a)
  PROVE  Dinheiro'
<1>0. PICK c \in Casos, b \in Nat : c = aCaso[a] /\ b = aBloq[a]
  BY DEF TypeOK
<1>1. CASE UNCHANGED <<bloq, disp, caso, cBloq>>
  BY <1>1, DinheiroQuieto DEF Recusar, TypeOK
<1>2. CASE ~UNCHANGED <<bloq, disp, caso, cBloq>>
  <2>1. /\ caso[c] \in Decidiveis /\ Anda(c, "RECUSADO")
        /\ cBloq' = [cBloq EXCEPT ![c] = 0]
        /\ disp' = disp + b /\ bloq' = bloq - b /\ UNCHANGED entradas
        /\ LeituraVelha \/ b = cBloq[c]
    BY <1>0, <1>2 DEF Recusar, DesfazBloqueio, AindaDecidivel, Lida, Anda
  <2>2. Presos' = Presos \ {c} /\ Perdidos' = Perdidos \ {c}
    BY <2>1, CasoMuda
  <2>3. Perdidos' = Perdidos
    BY <2>1, <2>2 DEF Perdidos, Decidiveis
  <2>4. Perdido' = Perdido
    BY <2>3 DEF Perdido
  <2>5. Retido' = Retido - cBloq[c]
    <3>1. \A x \in Casos \ {c} : cBloq'[x] = cBloq[x]
      BY <2>1 DEF TypeOK
    <3> QED BY <2>1, <2>2, <3>1, RetidoMenos DEF Dinheiro
  <2>6. TetoDaVenda'
    <3>1. \A v \in Vendas : Vivos(v)' \in SUBSET Vivos(v)
      BY <2>1, CasoMuda DEF Decidiveis
    <3> QED BY <3>1, TetoFica DEF Dinheiro
  <2>7. Vazios'
    BY <2>1 DEF Dinheiro, Vazios, TypeOK, Anda
  <2>8. /\ disp \in Int /\ bloq \in Int /\ entradas \in Int /\ Perdido \in Int
        /\ disp + bloq = entradas - Perdido
    BY DinheiroInteiro DEF TypeOK, Dinheiro
  <2>9. disp' + bloq' = entradas' - Perdido'
    BY <2>1, <2>4, <2>8
  <2>10. LeituraVelha \/ bloq' = Retido'
    BY <2>1, <2>5 DEF Dinheiro
  <2> QED BY <2>6, <2>7, <2>9, <2>10 DEF Dinheiro
<1> QED BY <1>1, <1>2

LEMMA DinheiroPasso == ASSUME TypeOK, Dinheiro, [Next]_vars PROVE Dinheiro'
<1> USE DEF carteira, registro, devolucao, entrega, analista, worker, ambiente
<1>0. disp \in Int /\ entradas \in Int
  BY DEF TypeOK
<1>1. CASE UNCHANGED <<disp, bloq, entradas, caso, cBloq>>
  BY <1>0, <1>1, DinheiroQuieto
<1>2. ASSUME NEW e \in Entregas, LerSaldo(e) \/ CairEntrega(e) PROVE Dinheiro'
  BY <1>1, <1>2 DEF LerSaldo, CairEntrega
<1>3. ASSUME NEW a \in Analistas, NEW c \in Casos, NEW d \in {"ACEITO", "RECUSADO"}, LerCaso(a, c, d)
      PROVE  Dinheiro'
  BY <1>1, <1>3 DEF LerCaso
<1>4. ASSUME NEW w \in Workers, NEW c \in Casos, IniciarJob(w, c) PROVE Dinheiro'
  BY <1>1, <1>4 DEF IniciarJob
<1>5. ASSUME NEW w \in Workers,
             \/ Reivindicar(w) \/ Postar(w) \/ ReterPreEnvio(w) \/ Congelar(w)
             \/ Concluir(w) \/ CairWorker(w)
      PROVE  Dinheiro'
  BY <1>1, <1>5 DEF Reivindicar, Postar, ReterPreEnvio, Congelar, Concluir, CairWorker
<1>6. ASSUME NEW c \in Casos, VarrerDevolucoes(c) PROVE Dinheiro'
  BY <1>1, <1>6 DEF VarrerDevolucoes
<1>7. ASSUME NEW m \in Modos, MudarModo(m) PROVE Dinheiro'
  BY <1>1, <1>7 DEF MudarModo
<1>8. ASSUME NEW v \in {-1, 1}, Girar(v) PROVE Dinheiro'
  <2>1. disp' - entradas' = disp - entradas /\ disp' \in Int /\ entradas' \in Int
    BY <1>0, <1>8 DEF Girar
  <2> QED BY <1>8, <2>1, DinheiroQuieto DEF Girar
<1>9. CASE UNCHANGED vars
  BY <1>1, <1>9 DEF vars
<1> QED BY <1>2, <1>3, <1>4, <1>5, <1>6, <1>7, <1>8, <1>9, DinheiroRegistrar,
           DinheiroBloquear, DinheiroDebitar, DinheiroAceitar, DinheiroRecusar DEF Next

-----------------------------------------------------------------------------
(* The outcome of a case is final, and a refund that left stays out.        *)
Definitivo(c) == caso[c] \in Encerrados => caso'[c] = caso[c]
Fica(c) == Definitivo(c) /\ (devolvido[c] > 0 => devolvido'[c] > 0)

LEMMA CasoDefinitivo == ASSUME TypeOK, [Next]_vars PROVE \A c \in Casos : Fica(c)
<1> USE DEF carteira, registro, devolucao, entrega, analista, worker, ambiente, Fica, Definitivo
<1>0. CASE UNCHANGED <<caso, devolvido>>
  BY <1>0
<1>1. ASSUME NEW e \in Entregas,
             Registrar(e) \/ LerSaldo(e) \/ Bloquear(e) \/ DebitarImediato(e) \/ CairEntrega(e)
      PROVE  \A c \in Casos : Fica(c)
  <2>1. CasoDe[e] \in Casos
    BY MedAssumption
  <2>2. CASE Registrar(e)
    BY <2>1, <2>2 DEF Registrar, TypeOK, Encerrados
  <2>3. CASE Bloquear(e)
    BY <2>1, <2>3 DEF Bloquear, AindaRecebido, TypeOK, Encerrados
  <2>4. CASE DebitarImediato(e)
    BY <2>1, <2>4 DEF DebitarImediato, AindaRecebido, TypeOK, Encerrados
  <2>5. CASE LerSaldo(e) \/ CairEntrega(e)
    BY <2>5 DEF LerSaldo, CairEntrega
  <2> QED BY <1>1, <2>2, <2>3, <2>4, <2>5
<1>2. ASSUME NEW a \in Analistas, NEW c \in Casos, NEW d \in {"ACEITO", "RECUSADO"}, LerCaso(a, c, d)
      PROVE  \A k \in Casos : Fica(k)
  BY <1>2 DEF LerCaso
<1>3. ASSUME NEW a \in Analistas, Aceitar(a) \/ Recusar(a)
      PROVE  \A c \in Casos : Fica(c)
  BY <1>3 DEF Aceitar, Recusar, AindaDecidivel, Decidiveis, TypeOK, Encerrados
<1>4. ASSUME NEW w \in Workers, NEW c \in Casos, IniciarJob(w, c)
      PROVE  \A k \in Casos : Fica(k)
  BY <1>4 DEF IniciarJob
<1>5. ASSUME NEW w \in Workers,
             Reivindicar(w) \/ ReterPreEnvio(w) \/ Congelar(w) \/ Concluir(w) \/ CairWorker(w)
      PROVE  \A c \in Casos : Fica(c)
  BY <1>5 DEF Reivindicar, ReterPreEnvio, Congelar, Concluir, CairWorker
<1>6. ASSUME NEW w \in Workers, Postar(w) PROVE \A c \in Casos : Fica(c)
  BY <1>6 DEF Postar, TypeOK
<1>7. ASSUME NEW c \in Casos, VarrerDevolucoes(c) PROVE \A k \in Casos : Fica(k)
  BY <1>7 DEF VarrerDevolucoes
<1>8. ASSUME NEW v \in {-1, 1}, Girar(v) PROVE \A c \in Casos : Fica(c)
  BY <1>8 DEF Girar
<1>9. ASSUME NEW m \in Modos, MudarModo(m) PROVE \A c \in Casos : Fica(c)
  BY <1>9 DEF MudarModo
<1>10. CASE UNCHANGED vars
  BY <1>10 DEF vars
<1> QED BY <1>1, <1>2, <1>3, <1>4, <1>5, <1>6, <1>7, <1>8, <1>9, <1>10 DEF Next

LEMMA VendaMuda ==
  ASSUME [Next]_vars
  PROVE  \/ UNCHANGED venda
         \/ \E e \in Entregas : DebitarImediato(e) /\ AindaRecebido(CasoDe[e])
         \/ \E w \in Workers : Concluir(w)
<1> USE DEF carteira, registro, devolucao, entrega, analista, worker, ambiente
<1>1. ASSUME NEW e \in Entregas, Registrar(e) \/ LerSaldo(e) \/ Bloquear(e) \/ CairEntrega(e)
      PROVE  UNCHANGED venda
  BY <1>1 DEF Registrar, LerSaldo, Bloquear, CairEntrega
<1>2. ASSUME NEW e \in Entregas, DebitarImediato(e)
      PROVE  UNCHANGED venda \/ (DebitarImediato(e) /\ AindaRecebido(CasoDe[e]))
  BY <1>2 DEF DebitarImediato
<1>3. ASSUME NEW a \in Analistas, Aceitar(a) \/ Recusar(a) PROVE UNCHANGED venda
  BY <1>3 DEF Aceitar, Recusar
<1>4. ASSUME NEW a \in Analistas, NEW c \in Casos, NEW d \in {"ACEITO", "RECUSADO"}, LerCaso(a, c, d)
      PROVE  UNCHANGED venda
  BY <1>4 DEF LerCaso
<1>5. ASSUME NEW w \in Workers, NEW c \in Casos, IniciarJob(w, c) PROVE UNCHANGED venda
  BY <1>5 DEF IniciarJob
<1>6. ASSUME NEW w \in Workers,
             Reivindicar(w) \/ Postar(w) \/ ReterPreEnvio(w) \/ Congelar(w) \/ CairWorker(w)
      PROVE  UNCHANGED venda
  BY <1>6 DEF Reivindicar, Postar, ReterPreEnvio, Congelar, CairWorker
<1>7. ASSUME NEW c \in Casos, VarrerDevolucoes(c) PROVE UNCHANGED venda
  BY <1>7 DEF VarrerDevolucoes
<1>8. ASSUME NEW v \in {-1, 1}, Girar(v) PROVE UNCHANGED venda
  BY <1>8 DEF Girar
<1>9. ASSUME NEW m \in Modos, MudarModo(m) PROVE UNCHANGED venda
  BY <1>9 DEF MudarModo
<1>10. CASE UNCHANGED vars
  BY <1>10 DEF vars
<1> QED BY <1>1, <1>2, <1>3, <1>4, <1>5, <1>6, <1>7, <1>8, <1>9, <1>10 DEF Next

Devolvidos(v) == {c \in CasosDa(v) : devolvido[c] > 0}

(* What covered a sale once covers it for ever.                             *)
LEMMA CoberturaFica ==
  ASSUME TypeOK, MedSoCoberta, \A c \in Casos : Fica(c),
         NEW v \in Vendas, venda[v] = "MED"
  PROVE  \/ \E c \in CasosDa(v) : caso'[c] = "DEBITADO"
         \/ SumFunctionOnSet(Valor, Devolvidos(v)') >= Bruto[v]
<1>1. CASE \E c \in CasosDa(v) : caso[c] = "DEBITADO"
  BY <1>1 DEF CasosDa, Fica, Definitivo, Encerrados
<1>2. CASE SumFunctionOnSet(Valor, Devolvidos(v)) >= Bruto[v]
  <2>1. /\ Devolvidos(v)' \in SUBSET Casos /\ Devolvidos(v) \in SUBSET Devolvidos(v)'
        /\ Devolvidos(v) \in SUBSET Casos
    BY DEF Devolvidos, CasosDa, Fica
  <2>2. /\ SumFunctionOnSet(Valor, Devolvidos(v)) <= SumFunctionOnSet(Valor, Devolvidos(v)')
        /\ SumFunctionOnSet(Valor, Devolvidos(v)) \in Nat
        /\ SumFunctionOnSet(Valor, Devolvidos(v)') \in Nat /\ Bruto[v] \in Nat
    BY <2>1, SomaDeValor, MedAssumption
  <2> QED BY <1>2, <2>2
<1> QED BY <1>1, <1>2 DEF MedSoCoberta, Devolvidos

LEMMA CobertaPasso ==
  ASSUME TypeOK, Devolve, MedSoCoberta, [Next]_vars
  PROVE  MedSoCoberta'
<1> SUFFICES ASSUME NEW v \in Vendas, venda'[v] = "MED"
             PROVE  \/ \E c \in CasosDa(v) : caso'[c] = "DEBITADO"
                    \/ SumFunctionOnSet(Valor, Devolvidos(v)') >= Bruto[v]
  BY DEF MedSoCoberta, Devolvidos
<1>0. CASE venda[v] = "MED"
  BY <1>0, CasoDefinitivo, CoberturaFica
<1>1. CASE venda[v] # "MED"
  <2>1. CASE UNCHANGED venda
    BY <1>1, <2>1
  <2>2. ASSUME NEW e \in Entregas, DebitarImediato(e), AindaRecebido(CasoDe[e])
        PROVE  \E c \in CasosDa(v) : caso'[c] = "DEBITADO"
    <3>1. PICK c \in Casos : c = CasoDe[e]
      BY MedAssumption
    <3>2. /\ caso' = [caso EXCEPT ![c] = "DEBITADO"]
          /\ venda' = [venda EXCEPT ![VendaDe[c]] = "MED"]
      BY <2>2, <3>1 DEF DebitarImediato
    <3>3. v = VendaDe[c] /\ caso'[c] = "DEBITADO"
      BY <1>1, <3>2 DEF TypeOK
    <3> QED BY <3>3 DEF CasosDa
  <2>3. ASSUME NEW w \in Workers, Concluir(w)
        PROVE  SumFunctionOnSet(Valor, Devolvidos(v)') >= Bruto[v]
    <3>1. PICK c \in Casos : c = wCaso[w]
      BY DEF TypeOK
    <3> DEFINE S == {d \in CasosDa(v) : d = c \/ dev[d] = "CONCLUIDA"}
    <3>2. /\ venda' = (IF Coberta(VendaDe[c], c) THEN [venda EXCEPT ![VendaDe[c]] = "MED"] ELSE venda)
          /\ wFase[w] = "sucesso" /\ UNCHANGED devolvido
      BY <2>3, <3>1 DEF Concluir
    <3>3. v = VendaDe[c] /\ Coberta(v, c)
      BY <1>1, <3>2 DEF TypeOK
    <3>4. S \subseteq Devolvidos(v)
      BY <3>1, <3>2 DEF Devolve, DevolucaoInv, MaoInv, NaMao, Devolvidos, CasosDa, TypeOK
    <3>5. SumFunctionOnSet(Valor, S) >= Bruto[v]
      BY <3>3 DEF Coberta
    <3>6. Devolvidos(v)' = Devolvidos(v)
      BY <3>2 DEF Devolvidos
    <3>7. /\ SumFunctionOnSet(Valor, S) <= SumFunctionOnSet(Valor, Devolvidos(v))
          /\ SumFunctionOnSet(Valor, S) \in Nat
          /\ SumFunctionOnSet(Valor, Devolvidos(v)) \in Nat /\ Bruto[v] \in Nat
      <4> HIDE DEF S
      <4>1. Devolvidos(v) \in SUBSET Casos /\ S \in SUBSET Devolvidos(v) /\ S \in SUBSET Casos
        BY <3>4 DEF Devolvidos, CasosDa
      <4> QED BY <4>1, SomaDeValor, MedAssumption
    <3> HIDE DEF S
    <3> QED BY <3>5, <3>6, <3>7
  <2> QED BY <2>1, <2>2, <2>3, VendaMuda
<1> QED BY <1>0, <1>1

-----------------------------------------------------------------------------
LEMMA MedComeca == Init => MedInv
<1> SUFFICES ASSUME Init PROVE MedInv
  OBVIOUS
<1>1. TypeOK
  BY MedAssumption, NenhumECaso DEF Init, TypeOK
<1>2. Presos = {} /\ Perdidos = {} /\ \A v \in Vendas : Vivos(v) = {}
  BY DEF Init, Presos, Perdidos, Vivos, CasosDa
<1>3. Retido = 0 /\ Perdido = 0 /\ \A v \in Vendas : SumFunctionOnSet(Valor, Vivos(v)) = 0
  BY <1>2, SomaVazia DEF Retido, Perdido
<1>4. TetoDaVenda
  BY <1>3, MedAssumption DEF TetoDaVenda
<1>5. Dinheiro
  BY <1>3, <1>4, MedAssumption DEF Init, Dinheiro, Vazios
<1>6. DevolucaoInv /\ MaoInv /\ MedSoCoberta
  BY DEF Init, DevolucaoInv, MaoInv, NaMao, MedSoCoberta
<1> QED BY <1>1, <1>5, <1>6, DinheiroSao DEF MedInv, Vazios

LEMMA MedPasso == MedInv /\ [Next]_vars => MedInv'
<1> SUFFICES ASSUME MedInv, [Next]_vars PROVE MedInv'
  OBVIOUS
<1>1. TypeOK /\ Dinheiro /\ Devolve /\ MedSoCoberta
  BY DinheiroSao DEF MedInv, Vazios, Devolve
<1>2. TypeOK' /\ Dinheiro' /\ Devolve' /\ MedSoCoberta'
  BY <1>1, TiposPasso, DinheiroPasso, DevolvePasso, CobertaPasso
<1>3. (Vazios /\ (LeituraVelha \/ BloqueadoFecha) /\ CarteiraFecha /\ TetoDaVenda)'
  BY <1>2, DinheiroSao, PTL
<1> QED BY <1>2, <1>3 DEF MedInv, Vazios, Devolve

(* The inductive invariant.                                                 *)
THEOREM MedIntegro == Spec => []MedInv
BY MedComeca, MedPasso, PTL DEF Spec

(* Types, for any number of cases, notices, analysts and workers.           *)
THEOREM TiposDoMed == Spec => []TypeOK
<1>1. MedInv => TypeOK
  BY DEF MedInv
<1> QED BY <1>1, MedIntegro, PTL

(* Unless a case moves between decidir's read and its lock, the bucket      *)
(* BLOQUEADO_MED is what the open cases hold (receber and decidir).         *)
THEOREM BloqueioBate == ASSUME ~LeituraVelha PROVE Spec => []BloqueadoFecha
<1>1. MedInv => BloqueadoFecha
  BY DEF MedInv
<1> QED BY <1>1, MedIntegro, PTL

(* The wallet loses each accepted or debited case once, and no other, even  *)
(* with the stale reads of decidir.                                         *)
THEOREM CarteiraBate == Spec => []CarteiraFecha
<1>1. MedInv => CarteiraFecha
  BY DEF MedInv
<1> QED BY <1>1, MedIntegro, PTL

(* The live cases of a sale never pass its value (the lock of receber).     *)
THEOREM VendaTemTeto == Spec => []TetoDaVenda
<1>1. MedInv => TetoDaVenda
  BY DEF MedInv
<1> QED BY <1>1, MedIntegro, PTL

(* One refund at most, and of an accepted case only (the claim of queue 9). *)
THEOREM DevolveUmaVez == Spec => []UmaDevolucao
<1>1. MedInv => UmaDevolucao
  <2> SUFFICES ASSUME MedInv, NEW c \in Casos
               PROVE  devolvido[c] <= 1 /\ (devolvido[c] = 1 => caso[c] = "ACEITO")
    BY DEF UmaDevolucao
  <2> QED BY DEF MedInv, DevolucaoInv
<1> QED BY <1>1, MedIntegro, PTL

(* One event per case, when its money went (Concluir, DebitarImediato).     *)
THEOREM AvisoUmaVez == Spec => []AvisaUmaVez
<1>1. MedInv => AvisaUmaVez
  BY DEF MedInv, DevolucaoInv, AvisaUmaVez
<1> QED BY <1>1, MedIntegro, PTL

(* A sale is MED by an immediate debit or by refunds that cover it.         *)
THEOREM MedFoiCoberta == Spec => []MedSoCoberta
<1>1. MedInv => MedSoCoberta
  BY DEF MedInv
<1> QED BY <1>1, MedIntegro, PTL

(* A settled case is not settled again (the lock of decidir and receber).   *)
THEOREM DecisaoEFinal == Spec => DecisaoFinal
<1>1. MedInv /\ [Next]_vars => [\A c \in Casos : caso[c] \in Encerrados => caso'[c] = caso[c]]_vars
  <2> SUFFICES ASSUME MedInv, [Next]_vars
               PROVE  \A c \in Casos : caso[c] \in Encerrados => caso'[c] = caso[c]
    OBVIOUS
  <2> QED BY CasoDefinitivo DEF MedInv, Fica, Definitivo
<1> QED BY <1>1, MedIntegro, PTL DEF Spec, DecisaoFinal
=============================================================================
