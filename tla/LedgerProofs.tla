---------------------------- MODULE LedgerProofs ----------------------------
(* The wallet's statement adds up, and each commit is one whole call of     *)
(* Razao, for any number of sessions, calls, buckets and keys.              *)
EXTENDS LedgerRazao, SomasProofs, SequenceTheorems, TLAPS

(* A movement appended to what a transaction sees is appended to what it    *)
(* will commit.                                                             *)
LEMMA JuntarAnexar ==
  ASSUME NEW a \in Seq(Movimentacao), NEW b \in Seq(Movimentacao),
         NEW y \in Movimentacao
  PROVE  a \o Append(b, y) = Append(a \o b, y)
<1>1. <<y>> \in Seq(Movimentacao) /\ a \o b \in Seq(Movimentacao)
  OBVIOUS
<1>2. Append(b, y) = b \o <<y>> /\ Append(a \o b, y) = (a \o b) \o <<y>>
  BY <1>1, AppendIsConcat
<1> QED BY <1>1, <1>2, ConcatAssociative

(* Inserting a movement that carries the balance it leaves keeps a          *)
(* statement chained and closed.                                            *)
LEMMA AnexarFecha ==
  ASSUME NEW m \in Seq(Movimentacao), NEW s \in [Baldes -> Int],
         NEW x \in Movimentacao,
         Encadeado(m), FechaCom(s, m),
         x.saldoApos = s[x.balde] + x.valor
  PROVE  /\ Encadeado(Append(m, x))
         /\ FechaCom([s EXCEPT ![x.balde] = x.saldoApos], Append(m, x))
<1> DEFINE n == Append(m, x)
<1>1. /\ Len(n) = Len(m) + 1 /\ Len(m) \in Nat
      /\ DOMAIN m = 1..Len(m)
      /\ DOMAIN n = 1..(Len(m) + 1)
      /\ n[Len(m) + 1] = x
      /\ \A i \in 1..Len(m) : n[i] = m[i] /\ m[i] \in Movimentacao
  OBVIOUS
<1>2. ASSUME NEW b \in Baldes
      PROVE  Do(n, b) = Do(m, b) \cup (IF x.balde = b THEN {Len(m) + 1} ELSE {})
  BY <1>1 DEF Do
<1>3. \A b \in Baldes : Do(m, b) \subseteq 1..Len(m)
  BY <1>1 DEF Do
<1>4. Encadeado(n)
  <2> SUFFICES ASSUME NEW i \in DOMAIN n
               PROVE  LET antes == {j \in Do(n, n[i].balde) : j < i}
                      IN \/ antes = {} /\ n[i].saldoApos = n[i].valor
                         \/ \E j \in antes :
                              /\ \A l \in antes : l <= j
                              /\ n[i].saldoApos = n[j].saldoApos + n[i].valor
    BY DEF Encadeado
  <2>1. CASE i = Len(m) + 1
    <3>1. n[i] = x /\ x.balde \in Baldes
      BY <1>1, <2>1 DEF Movimentacao
    <3>2. {j \in Do(n, x.balde) : j < i} = Do(m, x.balde)
      BY <1>1, <1>2, <1>3, <2>1, <3>1
    <3>3. \/ Do(m, x.balde) = {} /\ s[x.balde] = 0
          \/ \E j \in Do(m, x.balde) : /\ \A l \in Do(m, x.balde) : l <= j
                                       /\ s[x.balde] = m[j].saldoApos
      BY <3>1 DEF FechaCom
    <3>4. x.valor \in Int
      BY DEF Movimentacao
    <3> QED BY <1>1, <1>3, <3>1, <3>2, <3>3, <3>4
  <2>2. CASE i \in 1..Len(m)
    <3>1. n[i] = m[i] /\ m[i].balde \in Baldes
      BY <1>1, <2>2 DEF Movimentacao
    <3>2. {j \in Do(n, m[i].balde) : j < i} = {j \in Do(m, m[i].balde) : j < i}
      BY <1>1, <1>2, <2>2, <3>1
    <3>3. LET antes == {j \in Do(m, m[i].balde) : j < i}
          IN \/ antes = {} /\ m[i].saldoApos = m[i].valor
             \/ \E j \in antes : /\ \A l \in antes : l <= j
                                 /\ m[i].saldoApos = m[j].saldoApos + m[i].valor
      BY <1>1, <2>2 DEF Encadeado
    <3> QED BY <1>1, <1>3, <3>1, <3>2, <3>3
  <2>3. i = Len(m) + 1 \/ i \in 1..Len(m)
    BY <1>1
  <2> QED BY <2>1, <2>2, <2>3
<1>5. FechaCom([s EXCEPT ![x.balde] = x.saldoApos], n)
  <2> DEFINE t == [s EXCEPT ![x.balde] = x.saldoApos]
  <2> SUFFICES ASSUME NEW b \in Baldes
               PROVE  \/ Do(n, b) = {} /\ t[b] = 0
                      \/ \E i \in Do(n, b) : /\ \A l \in Do(n, b) : l <= i
                                             /\ t[b] = n[i].saldoApos
    BY DEF FechaCom
  <2>1. CASE x.balde = b
    <3>1. Do(n, b) = Do(m, b) \cup {Len(m) + 1}
      BY <1>2, <2>1
    <3>2. t[b] = n[Len(m) + 1].saldoApos
      BY <1>1, <2>1
    <3> QED BY <1>1, <1>3, <3>1, <3>2
  <2>2. CASE x.balde # b
    <3>1. Do(n, b) = Do(m, b) /\ t[b] = s[b]
      BY <1>2, <2>2
    <3>2. \/ Do(m, b) = {} /\ s[b] = 0
          \/ \E i \in Do(m, b) : /\ \A l \in Do(m, b) : l <= i
                                 /\ s[b] = m[i].saldoApos
      BY DEF FechaCom
    <3> QED BY <1>1, <1>3, <3>1, <3>2
  <2> QED BY <2>1, <2>2
<1> QED BY <1>4, <1>5

(* One more movement under a key nobody used, which the two refusals let    *)
(* through.                                                                 *)
LEMMA AnexarIntegro ==
  ASSUME NEW m \in Seq(Movimentacao), NEW s \in [Baldes -> Int],
         NEW x \in Movimentacao, NEW t,
         Integro(m, s),
         x.saldoApos = s[x.balde] + x.valor,
         t = [s EXCEPT ![x.balde] = x.saldoApos],
         \A i \in DOMAIN m : m[i].chave # x.chave,
         InternosPositivos(t), Permitida(x)
  PROVE  Integro(Append(m, x), t)
<1> DEFINE n == Append(m, x)
<1>1. /\ Len(m) \in Nat
      /\ DOMAIN m = 1..Len(m)
      /\ DOMAIN n = 1..(Len(m) + 1)
      /\ n[Len(m) + 1] = x
      /\ \A i \in 1..Len(m) : n[i] = m[i]
  OBVIOUS
<1>2. \A i \in DOMAIN n : i \in DOMAIN m \/ i = Len(m) + 1
  BY <1>1
<1>3. Encadeado(n) /\ FechaCom(t, n)
  BY AnexarFecha DEF Integro
<1>4. SemRepetir(n)
  BY <1>1, <1>2 DEF Integro, SemRepetir
<1>5. Permitidas(n)
  <2> SUFFICES ASSUME NEW i \in DOMAIN n
               PROVE  Permitida(n[i])
    BY DEF Permitidas
  <2>1. CASE i \in DOMAIN m
    BY <1>1, <2>1 DEF Integro, Permitidas
  <2>2. CASE i = Len(m) + 1
    BY <1>1, <2>2
  <2> QED BY <1>2, <2>1, <2>2
<1> QED BY <1>3, <1>4, <1>5 DEF Integro

(* A step that touches no variable keeps the invariant.                     *)
LEMMA SemChamadaNadaMuda ==
  LedgerInv /\ UNCHANGED vars => LedgerInv'
<1> SUFFICES ASSUME LedgerInv, UNCHANGED vars PROVE LedgerInv'
  OBVIOUS
<1>1. TypeOK'
  BY DEF LedgerInv, TypeOK, vars
<1>2. \A c \in Chamadores :
        /\ (trava = c <=> fase[c] = "dentro")'
        /\ (fase[c] # "dentro" => novas[c] = <<>> /\ passo[c] = 0)'
  BY DEF LedgerInv, vars
<1>3. Integro(movs, saldo)'
  BY DEF LedgerInv, vars
<1>4. \A c \in Chamadores : (fase[c] = "dentro" => Integro(Visiveis(c), copia[c]))'
  BY DEF LedgerInv, vars, Visiveis
<1> QED BY <1>1, <1>2, <1>3, <1>4 DEF LedgerInv

(* An empty wallet, without a statement and without sessions, is sound.     *)
LEMMA InicioIntegro == Init => LedgerInv
<1> SUFFICES ASSUME Init PROVE LedgerInv
  OBVIOUS
<1>1. TypeOK
  <2>1. \A k \in Chamadas : Len(Entradas[k]) \in Nat
    BY LedgerAssumption
  <2> QED BY <2>1 DEF Init, TypeOK
<1>2. Integro(movs, saldo)
  BY LedgerAssumption
  DEF Init, Integro, Encadeado, FechaCom, Do, SemRepetir, InternosPositivos, Permitidas
<1>3. \A c \in Chamadores : fase[c] = "fora" /\ trava # c /\ novas[c] = <<>> /\ passo[c] = 0
  BY LedgerAssumption DEF Init
<1> QED BY <1>1, <1>2, <1>3 DEF LedgerInv

(* Leaving, whether the call was committed, refused or lost.                *)
LEMMA SairMantem ==
  ASSUME LedgerInv, NEW c \in Chamadores, Sair(c), fase[c] # "fora",
         saldo' \in [Baldes -> Int], movs' \in Seq(Movimentacao),
         eventos' \in Seq(Chamadas),
         Integro(movs', saldo')
  PROVE  /\ TypeOK'
         /\ \A d \in Chamadores : (trava = d <=> fase[d] = "dentro")'
         /\ \A d \in Chamadores : (fase[d] # "dentro" => novas[d] = <<>> /\ passo[d] = 0)'
<1>1. TypeOK'
  <2>1. trava' \in Chamadores \cup {Ninguem}
    BY DEF LedgerInv, TypeOK, Sair
  <2>2. /\ chamada' = chamada /\ copia' = copia
        /\ novas' \in [Chamadores -> Seq(Movimentacao)]
        /\ passo' \in [Chamadores -> Nat]
        /\ fase' \in [Chamadores -> {"fora", "esperando", "dentro"}]
    BY DEF LedgerInv, TypeOK, Sair
  <2>3. \A k \in Chamadas : Len(Entradas[k]) \in Nat
    BY LedgerAssumption
  <2>4. \A d \in Chamadores : passo'[d] <= Len(Entradas[chamada[d]])
    BY <2>3 DEF LedgerInv, TypeOK, Sair
  <2> QED BY <2>1, <2>2, <2>4 DEF LedgerInv, TypeOK
<1>2. \A d \in Chamadores : (trava = d <=> fase[d] = "dentro")'
  BY LedgerAssumption DEF LedgerInv, TypeOK, Sair
<1>3. \A d \in Chamadores : (fase[d] # "dentro" => novas[d] = <<>> /\ passo[d] = 0)'
  BY DEF LedgerInv, TypeOK, Sair
<1> QED BY <1>1, <1>2, <1>3

(* The holder leaves: nobody is inside any more.                            *)
LEMMA SairDeFora ==
  ASSUME LedgerInv, NEW c \in Chamadores, Sair(c), banco' = banco
  PROVE  \A d \in Chamadores :
           (fase[d] = "dentro")' => /\ fase[d] = "dentro"
                                   /\ Visiveis(d)' = Visiveis(d)
                                   /\ copia'[d] = copia[d]
BY DEF LedgerInv, TypeOK, Sair, Visiveis, banco

(* Each step of aplicarMovimentacoes keeps it: one case per action.         *)
LEMMA PassoMantem == LedgerInv /\ [Next]_vars => LedgerInv'
<1> SUFFICES ASSUME LedgerInv, [Next]_vars PROVE LedgerInv'
  OBVIOUS
<1>0. /\ TypeOK
      /\ \A k \in Chamadas : Len(Entradas[k]) \in Nat
  BY LedgerAssumption DEF LedgerInv
<1>1. CASE UNCHANGED vars
  BY <1>1, SemChamadaNadaMuda
<1>2. ASSUME NEW c \in Chamadores, NEW k \in Chamadas, Chamar(c, k)
      PROVE  LedgerInv'
  <2>1. TypeOK'
    <3>1. passo[c] = 0 /\ chamada' = [chamada EXCEPT ![c] = k] /\ passo' = passo
      BY <1>2 DEF Chamar, LedgerInv
    <3>2. \A d \in Chamadores : passo'[d] <= Len(Entradas[chamada'[d]])
      BY <1>0, <3>1 DEF TypeOK
    <3> QED BY <1>0, <1>2, <3>2 DEF TypeOK, Chamar
  <2>2. \A d \in Chamadores :
          /\ (trava = d <=> fase[d] = "dentro")'
          /\ (fase[d] # "dentro" => novas[d] = <<>> /\ passo[d] = 0)'
    BY <1>0, <1>2 DEF LedgerInv, TypeOK, Chamar
  <2>3. Integro(movs, saldo)'
    BY <1>2 DEF LedgerInv, Chamar
  <2>4. \A d \in Chamadores : (fase[d] = "dentro" => Integro(Visiveis(d), copia[d]))'
    BY <1>0, <1>2 DEF Chamar, Visiveis, TypeOK, LedgerInv
  <2> QED BY <2>1, <2>2, <2>3, <2>4 DEF LedgerInv
<1>3. ASSUME NEW c \in Chamadores, Travar(c)
      PROVE  LedgerInv'
  <2>1. fase[c] = "esperando" /\ novas[c] = <<>> /\ passo[c] = 0
        /\ \A d \in Chamadores : fase[d] # "dentro"
    BY <1>0, <1>3, LedgerAssumption DEF LedgerInv, TypeOK, Travar, LinhaLivre
  <2>2. TypeOK'
    <3>1. \A d \in Chamadores : passo'[d] <= Len(Entradas[chamada'[d]])
      BY <1>0, <1>3 DEF TypeOK, Travar
    <3> QED BY <1>0, <1>3, <3>1 DEF TypeOK, Travar
  <2>3. \A d \in Chamadores :
          /\ (trava = d <=> fase[d] = "dentro")'
          /\ (fase[d] # "dentro" => novas[d] = <<>> /\ passo[d] = 0)'
    BY <1>0, <1>3, <2>1 DEF LedgerInv, TypeOK, Travar
  <2>4. Integro(movs, saldo)'
    BY <1>3 DEF LedgerInv, Travar
  <2>5. Visiveis(c)' = movs /\ copia'[c] = saldo
    BY <1>0, <1>3, <2>1 DEF Visiveis, Travar, TypeOK
  <2>6. \A d \in Chamadores : (fase[d] = "dentro" => Integro(Visiveis(d), copia[d]))'
    BY <1>0, <1>3, <2>1, <2>5 DEF LedgerInv, TypeOK, Travar
  <2> QED BY <2>2, <2>3, <2>4, <2>6 DEF LedgerInv
<1>4. ASSUME NEW c \in Chamadores, Repetida(c)
      PROVE  LedgerInv'
  <2>1. TypeOK'
    <3>1. passo[c] + 1 <= Len(Entradas[chamada[c]])
      BY <1>0, <1>4 DEF TypeOK, Repetida, Falta
    <3>2. \A d \in Chamadores : passo'[d] <= Len(Entradas[chamada'[d]])
      BY <1>0, <1>4, <3>1 DEF TypeOK, Repetida
    <3>3. passo' \in [Chamadores -> Nat]
      BY <1>0, <1>4 DEF TypeOK, Repetida
    <3> QED BY <1>0, <1>4, <3>2, <3>3 DEF TypeOK, Repetida
  <2>2. \A d \in Chamadores :
          /\ (trava = d <=> fase[d] = "dentro")'
          /\ (fase[d] # "dentro" => novas[d] = <<>> /\ passo[d] = 0)'
    BY <1>0, <1>4 DEF LedgerInv, TypeOK, Repetida
  <2>3. Integro(movs, saldo)'
    BY <1>4 DEF LedgerInv, Repetida
  <2>4. \A d \in Chamadores : (fase[d] = "dentro" => Integro(Visiveis(d), copia[d]))'
    BY <1>4 DEF Repetida, Visiveis, LedgerInv
  <2> QED BY <2>1, <2>2, <2>3, <2>4 DEF LedgerInv
<1>5. ASSUME NEW c \in Chamadores, Lancar(c)
      PROVE  LedgerInv'
  <2> DEFINE e == Atual(c)
             t == ComDelta(copia[c], e)
             x == [chave |-> e.chave, balde |-> e.balde, natureza |-> e.natureza,
                   valor |-> e.valor, saldoApos |-> t[e.balde]]
  <2>1. /\ fase[c] = "dentro" /\ Falta(c)
        /\ ComChave(c, e.chave) = {}
        /\ ~Recusada(c, t, e)
        /\ copia' = [copia EXCEPT ![c] = t]
        /\ novas' = [novas EXCEPT ![c] = Append(@, x)]
        /\ passo' = [passo EXCEPT ![c] = @ + 1]
        /\ UNCHANGED <<saldo, movs, eventos, trava, chamada, fase>>
    BY <1>5 DEF Lancar
  <2>2. e \in Entrada
    <3>1. Entradas[chamada[c]] \in Seq(Entrada)
      BY <1>0, LedgerAssumption DEF TypeOK
    <3>2. passo[c] + 1 \in 1..Len(Entradas[chamada[c]])
      BY <1>0, <2>1 DEF TypeOK, Falta
    <3> QED BY <3>1, <3>2 DEF Atual
  <2>3. /\ t \in [Baldes -> Int]
        /\ x \in Movimentacao
        /\ x.saldoApos = copia[c][x.balde] + x.valor
        /\ t = [copia[c] EXCEPT ![x.balde] = x.saldoApos]
    <3>1. /\ copia[c] \in [Baldes -> Int]
          /\ e.balde \in Baldes /\ e.valor \in Int /\ e.chave \in Chaves
          /\ e.natureza \in STRING
      BY <1>0, <2>2 DEF TypeOK, Entrada
    <3>2. t = [copia[c] EXCEPT ![e.balde] = copia[c][e.balde] + e.valor]
      BY DEF ComDelta
    <3>3. /\ t \in [Baldes -> Int]
          /\ t[e.balde] = copia[c][e.balde] + e.valor
      BY <3>1, <3>2
    <3>4. x \in Movimentacao
      BY <3>1, <3>3 DEF Movimentacao
    <3> QED BY <3>2, <3>3, <3>4
  <2>4. TypeOK'
    <3>1. passo[c] + 1 <= Len(Entradas[chamada[c]])
      BY <1>0, <2>1 DEF TypeOK, Falta
    <3>2. \A d \in Chamadores : passo'[d] <= Len(Entradas[chamada'[d]])
      BY <1>0, <2>1, <3>1 DEF TypeOK
    <3>3. novas' \in [Chamadores -> Seq(Movimentacao)]
      <4>1. novas[c] \in Seq(Movimentacao)
        BY <1>0 DEF TypeOK
      <4>2. Append(novas[c], x) \in Seq(Movimentacao)
        BY <2>3, <4>1
      <4> QED BY <1>0, <2>1, <4>2 DEF TypeOK
    <3>4. copia' \in [Chamadores -> [Baldes -> Int]]
      BY <1>0, <2>1, <2>3 DEF TypeOK
    <3>5. passo' \in [Chamadores -> Nat]
      BY <1>0, <2>1 DEF TypeOK
    <3> QED BY <1>0, <2>1, <3>2, <3>3, <3>4, <3>5 DEF TypeOK
  <2>5. \A d \in Chamadores :
          /\ (trava = d <=> fase[d] = "dentro")'
          /\ (fase[d] # "dentro" => novas[d] = <<>> /\ passo[d] = 0)'
    BY <1>0, <2>1 DEF LedgerInv, TypeOK
  <2>6. Integro(movs, saldo)'
    BY <2>1 DEF LedgerInv
  <2>7. Visiveis(c) \in Seq(Movimentacao)
        /\ Visiveis(c)' = Append(Visiveis(c), x)
    <3>1. movs \in Seq(Movimentacao) /\ novas[c] \in Seq(Movimentacao)
      BY <1>0 DEF TypeOK
    <3>2. movs' = movs /\ novas'[c] = Append(novas[c], x)
      BY <1>0, <2>1 DEF TypeOK
    <3>3. movs \o Append(novas[c], x) = Append(movs \o novas[c], x)
      <4>1. \A y \in Movimentacao :
              movs \o Append(novas[c], y) = Append(movs \o novas[c], y)
        BY ONLY <3>1, JuntarAnexar
      <4> QED BY <2>3, <4>1
    <3> QED BY <3>1, <3>2, <3>3 DEF Visiveis
  <2>8. Integro(Visiveis(c), copia[c])'
    <3>1. \A i \in DOMAIN Visiveis(c) : Visiveis(c)[i].chave # x.chave
      BY <2>1 DEF ComChave
    <3>2. InternosPositivos(t)
      BY <2>1, <2>3 DEF InternosPositivos, Recusada, Inconsistente
    <3>3. Permitida(x)
      <4>1. \A b \in Baldes \ {Disponivel} : t[b] >= 0
        BY <3>2 DEF InternosPositivos
      <4>2. x.saldoApos = t[e.balde] /\ x.valor = e.valor /\ x.balde = e.balde
            /\ x.chave = e.chave /\ e.balde \in Baldes /\ t[e.balde] \in Int
            /\ e.valor \in Int
        BY <2>2, <2>3 DEF Entrada
      <4>3. CASE Negativo[chamada[c]]
        <5>1. chamada[c] \in Chamadas /\ passo[c] + 1 \in DOMAIN Entradas[chamada[c]]
              /\ Entradas[chamada[c]][passo[c] + 1].chave = x.chave
          BY <1>0, <2>1, <4>2, LedgerAssumption DEF TypeOK, Falta, Atual
        <5> QED BY <4>1, <4>2, <4>3, <5>1 DEF Permitida
      <4>4. CASE ~Negativo[chamada[c]]
        BY <2>1, <4>1, <4>2, <4>4 DEF Permitida, Recusada, Descoberto
      <4> QED BY <4>3, <4>4
    <3>4. Integro(Append(Visiveis(c), x), t)
      <4>1. Integro(Visiveis(c), copia[c]) /\ copia[c] \in [Baldes -> Int]
        BY <1>0, <2>1 DEF LedgerInv, TypeOK
      <4> QED BY <2>3, <2>7, <3>1, <3>2, <3>3, <4>1, AnexarIntegro
    <3>5. copia'[c] = t
      BY <1>0, <2>1 DEF TypeOK
    <3> QED BY <2>7, <3>4, <3>5
  <2>9. \A d \in Chamadores : (fase[d] = "dentro" => Integro(Visiveis(d), copia[d]))'
    BY <1>0, <2>1, <2>8 DEF LedgerInv, TypeOK
  <2> QED BY <2>4, <2>5, <2>6, <2>9 DEF LedgerInv
<1>6. ASSUME NEW c \in Chamadores, Confirmar(c)
      PROVE  LedgerInv'
  <2>1. /\ fase[c] = "dentro" /\ Sair(c)
        /\ saldo' = copia[c] /\ movs' = Visiveis(c)
    BY <1>6 DEF Confirmar, Visiveis
  <2>2. Integro(movs', saldo')
    BY <1>0, <2>1 DEF LedgerInv
  <2>3. /\ saldo' \in [Baldes -> Int] /\ movs' \in Seq(Movimentacao)
        /\ eventos' \in Seq(Chamadas)
    <3>1. chamada[c] \in Chamadas /\ eventos \in Seq(Chamadas)
      BY <1>0 DEF TypeOK
    <3>2. eventos' \in Seq(Chamadas)
      BY <1>6, <3>1 DEF Confirmar
    <3>3. movs \in Seq(Movimentacao) /\ novas[c] \in Seq(Movimentacao)
      BY <1>0 DEF TypeOK
    <3> QED BY <1>0, <2>1, <3>2, <3>3 DEF TypeOK, Visiveis
  <2>4. \A d \in Chamadores : fase'[d] # "dentro"
    BY <1>0, <2>1 DEF LedgerInv, TypeOK, Sair
  <2> QED BY <2>1, <2>2, <2>3, <2>4, SairMantem DEF LedgerInv
<1>7. ASSUME NEW c \in Chamadores, Recusar(c) \/ Abortar(c)
      PROVE  LedgerInv'
  <2>1. /\ fase[c] # "fora" /\ Sair(c)
        /\ banco' = banco
    BY <1>7 DEF Recusar, Abortar, Desfeito
  <2>2. /\ Integro(movs', saldo')
        /\ saldo' \in [Baldes -> Int] /\ movs' \in Seq(Movimentacao)
        /\ eventos' \in Seq(Chamadas)
    BY <1>0, <2>1 DEF LedgerInv, TypeOK, banco
  <2>3. \A d \in Chamadores : (fase[d] = "dentro" => Integro(Visiveis(d), copia[d]))'
    BY <2>1, SairDeFora DEF LedgerInv
  <2> QED BY <2>1, <2>2, <2>3, SairMantem DEF LedgerInv
<1> QED BY <1>1, <1>2, <1>3, <1>4, <1>5, <1>6, <1>7 DEF Next

(* In every reachable state what is committed, and what each session inside *)
(* its transaction is about to commit, is a statement that adds up, repeats *)
(* no key and overdraws nothing it may not.                                 *)
THEOREM LedgerIntegro == Spec => []LedgerInv
<1>1. Init => LedgerInv
  BY InicioIntegro
<1>2. LedgerInv /\ [Next]_vars => LedgerInv'
  BY PassoMantem
<1> QED BY <1>1, <1>2, PTL DEF Spec

(* The types of the wallet, the statement and the sessions, and that a call *)
(* never walks past its last entry.                                         *)
THEOREM TiposDaCarteira == Spec => []TypeOK
<1>1. LedgerInv => TypeOK
  BY DEF LedgerInv
<1> QED BY <1>1, LedgerIntegro, PTL

(* No update is lost: the statement adds up line by line and ends in the    *)
(* wallet's balances, whatever sessions ran at once.                        *)
THEOREM ExtratoSempreFecha == Spec => []ExtratoFecha
<1>1. LedgerInv => ExtratoFecha
  BY DEF LedgerInv, Integro, ExtratoFecha
<1> QED BY <1>1, LedgerIntegro, PTL

(* No key is ever posted twice.                                             *)
THEOREM ChaveUmaVezSo == Spec => []UmaPorChave
<1>1. LedgerInv => UmaPorChave
  BY DEF LedgerInv, Integro, UmaPorChave
<1> QED BY <1>1, LedgerIntegro, PTL

(* No debit overdraws without permission, no internal bucket goes negative. *)
THEOREM NuncaDescoberto == Spec => []SemDescoberto
<1>1. LedgerInv => SemDescoberto
  BY DEF LedgerInv, Integro, SemDescoberto
<1> QED BY <1>1, LedgerIntegro, PTL
-----------------------------------------------------------------------------
(* What a set of entries adds to a bucket.                                  *)
LEMMA TotalDe ==
  ASSUME NEW ms, NEW b
  PROVE  Promessa!Total(ms, b) =
           SumFunctionOnSet([m \in ms |-> m.valor], {m \in ms : m.balde = b})
BY DEF Promessa!Total, Promessa!SumFunctionOnSet, Promessa!FoldFunctionOnSet,
       Promessa!MapThenFoldSet, SumFunctionOnSet, FoldFunctionOnSet, MapThenFoldSet

LEMMA TotalVazio == \A b : Promessa!Total({}, b) = 0
<1> TAKE b
<1> DEFINE f == [m \in {} |-> m.valor]
<1>1. {m \in {} : m.balde = b} = {}
  OBVIOUS
<1>2. SumFunctionOnSet(f, {}) = 0
  BY SomaVazia
<1> QED BY <1>1, <1>2, TotalDe

(* One more entry adds its value to its own bucket.                         *)
LEMMA TotalMaisUm ==
  ASSUME NEW ms, IsFiniteSet(ms), ms \subseteq Entrada,
         NEW e \in Entrada, e \notin ms, NEW b
  PROVE  /\ Promessa!Total(ms, b) \in Int
         /\ e.balde = b =>
              Promessa!Total(ms \cup {e}, b) = Promessa!Total(ms, b) + e.valor
         /\ e.balde # b => Promessa!Total(ms \cup {e}, b) = Promessa!Total(ms, b)
<1> DEFINE n == ms \cup {e}
           f == [m \in ms |-> m.valor]
           g == [m \in n |-> m.valor]
           S == {m \in ms : m.balde = b}
           R == {m \in n : m.balde = b}
<1>1. /\ IsFiniteSet(S) /\ e \notin S
      /\ R = IF e.balde = b THEN S \cup {e} ELSE S
  BY FS_Subset
<1>2. /\ \A m \in S : f[m] = g[m] /\ f[m] \in Int /\ g[m] \in Int
      /\ g[e] = e.valor /\ g[e] \in Int
  BY DEF Entrada
<1>3. Promessa!Total(ms, b) = SumFunctionOnSet(f, S)
      /\ Promessa!Total(n, b) = SumFunctionOnSet(g, R)
  BY TotalDe
<1> HIDE DEF n, f, g, S, R
<1>4. SumFunctionOnSet(f, S) = SumFunctionOnSet(g, S)
  BY <1>1, <1>2, SomaIgual
<1>5. SumFunctionOnSet(f, S) \in Int
  BY <1>1, <1>2, SomaInteira
<1>6. SumFunctionOnSet(g, S \cup {e}) = SumFunctionOnSet(g, S) + g[e]
  BY <1>1, <1>2, SomaMaisUm
<1> QED BY <1>1, <1>2, <1>3, <1>4, <1>5, <1>6 DEF n

(* What a session inserted is a finite set of entries.                      *)
LEMMA NovasFinitas ==
  ASSUME TypeOK, NEW c \in Chamadores
  PROVE  IsFiniteSet(NovasDe(c)) /\ NovasDe(c) \subseteq Entrada
<1> DEFINE D == DOMAIN novas[c]
           f == [i \in D |-> EntradaDe(novas[c][i])]
<1>1. novas[c] \in Seq(Movimentacao) /\ D = 1..Len(novas[c]) /\ Len(novas[c]) \in Nat
  BY DEF TypeOK
<1>2. IsFiniteSet(D)
  BY <1>1, FS_Interval
<1>3. \A i \in D : novas[c][i] \in Movimentacao
  BY <1>1
<1>4. NovasDe(c) \subseteq Entrada
  BY <1>3 DEF NovasDe, EntradaDe, Entrada, Movimentacao
<1>5. NovasDe(c) = {f[i] : i \in D}
  BY DEF NovasDe
<1> HIDE DEF D, f
<1>6. IsFiniteSet({f[i] : i \in D})
  <2>1. f \in Surjection(D, {f[i] : i \in D})
    BY DEF Surjection, f
  <2> QED BY <1>2, <2>1, FS_Surjection
<1> QED BY <1>4, <1>5, <1>6

(* Under one key per movement, a key names one entry, and no session has    *)
(* inserted one that is already committed.                                  *)
LEMMA ChavesDistintas ==
  ASSUME TypeOK, NEW c \in Chamadores, SemRepetir(Visiveis(c))
  PROVE  /\ \A e, m \in Lancados \cup NovasDe(c) : e.chave = m.chave => e = m
         /\ \A e \in Lancados, m \in NovasDe(c) : e.chave # m.chave
<1> DEFINE v == Visiveis(c)
<1>1. /\ movs \in Seq(Movimentacao) /\ novas[c] \in Seq(Movimentacao)
      /\ Len(movs) \in Nat /\ Len(novas[c]) \in Nat
      /\ DOMAIN movs = 1..Len(movs) /\ DOMAIN novas[c] = 1..Len(novas[c])
  BY DEF TypeOK
<1>2. /\ DOMAIN v = 1..(Len(movs) + Len(novas[c]))
      /\ \A i \in DOMAIN movs : v[i] = movs[i]
      /\ \A i \in DOMAIN novas[c] : v[Len(movs) + i] = novas[c][i]
  BY <1>1 DEF Visiveis
<1>3. \A e \in Lancados : \E i \in DOMAIN v : i <= Len(movs) /\ e = EntradaDe(v[i])
  BY <1>1, <1>2 DEF Lancados
<1>4. \A e \in NovasDe(c) : \E i \in DOMAIN v : i > Len(movs) /\ e = EntradaDe(v[i])
  <2> SUFFICES ASSUME NEW i \in DOMAIN novas[c]
               PROVE  \E j \in DOMAIN v :
                        j > Len(movs) /\ EntradaDe(novas[c][i]) = EntradaDe(v[j])
    BY DEF NovasDe
  <2>1. Len(movs) + i \in DOMAIN v /\ Len(movs) + i > Len(movs)
    BY <1>1, <1>2
  <2> QED BY <1>2, <2>1
<1>5. \A i, j \in DOMAIN v : EntradaDe(v[i]).chave = EntradaDe(v[j]).chave => i = j
  BY DEF EntradaDe, SemRepetir
<1>6. \A e \in Lancados \cup NovasDe(c) : \E i \in DOMAIN v : e = EntradaDe(v[i])
  BY <1>3, <1>4
<1> HIDE DEF v
<1>7. \A e, m \in Lancados \cup NovasDe(c) : e.chave = m.chave => e = m
  BY <1>5, <1>6
<1>8. \A e \in Lancados, m \in NovasDe(c) : e.chave # m.chave
  <2> SUFFICES ASSUME NEW e \in Lancados, NEW m \in NovasDe(c), e.chave = m.chave
               PROVE  FALSE
    OBVIOUS
  <2>1. PICK i \in DOMAIN v : i <= Len(movs) /\ e = EntradaDe(v[i])
    BY <1>3
  <2>2. PICK j \in DOMAIN v : j > Len(movs) /\ m = EntradaDe(v[j])
    BY <1>4
  <2>3. i = j
    BY <1>5, <2>1, <2>2
  <2>4. i \in Nat /\ Len(movs) \in Nat
    BY <1>1, <1>2 DEF v
  <2> QED BY <2>1, <2>2, <2>3, <2>4
<1> QED BY <1>7, <1>8

(* What the holder sees: what was posted and what it inserted.              *)
LEMMA VistosComoEntradas ==
  ASSUME TypeOK, NEW c \in Chamadores
  PROVE  {EntradaDe(Visiveis(c)[i]) : i \in DOMAIN Visiveis(c)}
           = Lancados \cup NovasDe(c)
<1> DEFINE v == Visiveis(c)
<1>1. /\ movs \in Seq(Movimentacao) /\ novas[c] \in Seq(Movimentacao)
      /\ Len(movs) \in Nat /\ Len(novas[c]) \in Nat
      /\ DOMAIN movs = 1..Len(movs) /\ DOMAIN novas[c] = 1..Len(novas[c])
  BY DEF TypeOK
<1>2. /\ DOMAIN v = 1..(Len(movs) + Len(novas[c]))
      /\ \A i \in DOMAIN movs : i \in DOMAIN v /\ v[i] = movs[i]
      /\ \A i \in DOMAIN novas[c] :
           Len(movs) + i \in DOMAIN v /\ v[Len(movs) + i] = novas[c][i]
      /\ \A i \in DOMAIN v : \/ i \in DOMAIN movs
                             \/ i - Len(movs) \in DOMAIN novas[c]
      /\ \A i \in DOMAIN v : i = Len(movs) + (i - Len(movs))
  BY <1>1 DEF Visiveis
<1> HIDE DEF v
<1>3. \A i \in DOMAIN v :
        EntradaDe(v[i]) \in Lancados \cup NovasDe(c)
  <2> SUFFICES ASSUME NEW i \in DOMAIN v
               PROVE  EntradaDe(v[i]) \in Lancados \cup NovasDe(c)
    OBVIOUS
  <2>1. CASE i \in DOMAIN movs
    BY <1>2, <2>1 DEF Lancados
  <2>2. CASE i - Len(movs) \in DOMAIN novas[c]
    <3>1. v[i] = novas[c][i - Len(movs)]
      BY <1>2, <2>2
    <3> QED BY <2>2, <3>1 DEF NovasDe
  <2> QED BY <1>2, <2>1, <2>2
<1>4. \A e \in Lancados \cup NovasDe(c) : \E i \in DOMAIN v : e = EntradaDe(v[i])
  BY <1>2 DEF Lancados, NovasDe
<1>5. {EntradaDe(v[i]) : i \in DOMAIN v} = Lancados \cup NovasDe(c)
  BY <1>3, <1>4
<1> QED BY <1>5 DEF v

(* What a commit leaves posted.                                             *)
LEMMA LancadosAoConfirmar ==
  ASSUME TypeOK, NEW c \in Chamadores, movs' = movs \o novas[c]
  PROVE  Lancados' = Lancados \cup NovasDe(c)
<1>1. Lancados' = {EntradaDe(Visiveis(c)[i]) : i \in DOMAIN Visiveis(c)}
  BY DEF Lancados, EntradaDe, Visiveis
<1> QED BY <1>1, VistosComoEntradas

(* A session that did not move is where it was.                             *)
LEMMA AndamentoIgual ==
  ASSUME NEW d \in Chamadores, Andamento(d), UNCHANGED <<saldo, movs>>,
         novas'[d] = novas[d], passo'[d] = passo[d],
         chamada'[d] = chamada[d], copia'[d] = copia[d]
  PROVE  Andamento(d)'
BY DEF Andamento, NovasDe, Andados, Lancados, EntradaDe, Promessa!Somado

(* One more entry walked.                                                   *)
LEMMA AndarUm ==
  ASSUME TypeOK, NEW c \in Chamadores, Falta(c), chamada' = chamada,
         passo' = [passo EXCEPT ![c] = @ + 1]
  PROVE  Andados(c)' = Andados(c) \cup {Atual(c)}
<1>1. passo[c] \in Nat /\ passo'[c] = passo[c] + 1 /\ chamada'[c] = chamada[c]
  BY DEF TypeOK
<1>2. 1..passo'[c] = 1..passo[c] \cup {passo[c] + 1}
  BY <1>1
<1>3. Andados(c)' = {Entradas[chamada[c]][i] : i \in 1..passo'[c]}
  BY <1>1 DEF Andados
<1> QED BY <1>2, <1>3 DEF Andados, Atual

(* The current entry is an entry.                                           *)
LEMMA AtualEntrada ==
  ASSUME TypeOK, NEW c \in Chamadores, Falta(c)
  PROVE  Atual(c) \in Entrada
<1>1. Entradas[chamada[c]] \in Seq(Entrada)
  BY LedgerAssumption DEF TypeOK
<1>2. passo[c] + 1 \in 1..Len(Entradas[chamada[c]])
  BY <1>1 DEF TypeOK, Falta
<1> QED BY <1>1, <1>2 DEF Atual

(* Inserting the current entry: the copy is still what was committed plus   *)
(* what the session inserted.                                               *)
LEMMA LancarAndamento ==
  ASSUME LedgerInv, NEW c \in Chamadores, Lancar(c), Andamento(c)
  PROVE  Andamento(c)'
<1> DEFINE e == Atual(c)
           t == ComDelta(copia[c], e)
           x == [chave |-> e.chave, balde |-> e.balde, natureza |-> e.natureza,
                 valor |-> e.valor, saldoApos |-> t[e.balde]]
           ms == NovasDe(c)
<1>1. /\ Falta(c) /\ fase[c] = "dentro" /\ ComChave(c, e.chave) = {}
      /\ ~Recusada(c, t, e)
      /\ copia' = [copia EXCEPT ![c] = t]
      /\ novas' = [novas EXCEPT ![c] = Append(@, x)]
      /\ passo' = [passo EXCEPT ![c] = @ + 1]
      /\ UNCHANGED <<saldo, movs, chamada>>
  BY DEF Lancar
<1>2. TypeOK /\ SemRepetir(Visiveis(c)) /\ e \in Entrada
  BY <1>1, AtualEntrada DEF LedgerInv, Integro
<1>3. Lancados' = Lancados
  BY <1>1 DEF Lancados, EntradaDe
<1>4. NovasDe(c)' = ms \cup {e}
  <2>1. novas[c] \in Seq(Movimentacao) /\ novas'[c] = Append(novas[c], x)
    BY <1>1, <1>2 DEF TypeOK
  <2>2. EntradaDe(x) = e
    BY <1>2 DEF EntradaDe, Entrada
  <2> DEFINE n == Append(novas[c], x)
  <2>3. /\ DOMAIN n = DOMAIN novas[c] \cup {Len(novas[c]) + 1}
        /\ n[Len(novas[c]) + 1] = x
        /\ \A i \in DOMAIN novas[c] : n[i] = novas[c][i]
    BY <2>1
  <2>4. NovasDe(c)' = {EntradaDe(n[i]) : i \in DOMAIN n}
    BY <2>1 DEF NovasDe, EntradaDe
  <2> HIDE DEF n, x
  <2>5. {EntradaDe(n[i]) : i \in DOMAIN n} = ms \cup {EntradaDe(x)}
    BY <2>3 DEF NovasDe
  <2> QED BY <2>2, <2>4, <2>5
<1>5. Andados(c)' = Andados(c) \cup {e}
  BY <1>1, <1>2, AndarUm
<1>6. e \notin ms
  <2>1. \A i \in DOMAIN Visiveis(c) : EntradaDe(Visiveis(c)[i]).chave # e.chave
    BY <1>1 DEF ComChave, EntradaDe
  <2> QED BY <1>2, <2>1, VistosComoEntradas
<1>7. copia'[c] = Promessa!Somado(ms \cup {e})
  <2>1. IsFiniteSet(ms) /\ ms \subseteq Entrada
    BY <1>2, NovasFinitas
  <2>2. \A b \in Baldes :
          /\ Promessa!Total(ms, b) \in Int
          /\ e.balde = b =>
               Promessa!Total(ms \cup {e}, b) = Promessa!Total(ms, b) + e.valor
          /\ e.balde # b => Promessa!Total(ms \cup {e}, b) = Promessa!Total(ms, b)
    BY <1>2, <1>6, <2>1, TotalMaisUm
  <2>3. copia[c] = [b \in Baldes |-> saldo[b] + Promessa!Total(ms, b)]
    BY DEF Andamento, Promessa!Somado
  <2>4. saldo \in [Baldes -> Int] /\ e.balde \in Baldes /\ e.valor \in Int
    BY <1>2 DEF TypeOK, Entrada
  <2>5. copia'[c] = [copia[c] EXCEPT ![e.balde] = copia[c][e.balde] + e.valor]
    BY <1>1, <1>2 DEF TypeOK, ComDelta
  <2> HIDE DEF e, ms
  <2>6. \A b \in Baldes : copia'[c][b] = saldo[b] + Promessa!Total(ms \cup {e}, b)
    <3> SUFFICES ASSUME NEW b \in Baldes
                 PROVE  copia'[c][b] = saldo[b] + Promessa!Total(ms \cup {e}, b)
      OBVIOUS
    <3> DEFINE T == Promessa!Total(ms, b)
               U == Promessa!Total(ms \cup {e}, b)
    <3>1. /\ copia[c][b] = saldo[b] + T
          /\ saldo[b] \in Int /\ T \in Int /\ e.valor \in Int
      BY <2>2, <2>3, <2>4
    <3>2. CASE e.balde = b
      <4>1. copia'[c][b] = copia[c][b] + e.valor
        BY <2>3, <2>4, <2>5, <3>2
      <4>2. U = T + e.valor
        BY <2>2, <3>2
      <4> HIDE DEF T, U
      <4>3. copia'[c][b] = saldo[b] + U
        BY <3>1, <4>1, <4>2
      <4> QED BY <4>3 DEF U
    <3>3. CASE e.balde # b
      BY <2>2, <2>3, <2>5, <3>1, <3>3
    <3> QED BY <3>2, <3>3
  <2>7. copia'[c] = [b \in Baldes |-> saldo[b] + Promessa!Total(ms \cup {e}, b)]
    BY <2>3, <2>5, <2>6
  <2> QED BY <2>7 DEF Promessa!Somado
<1>8. \/ Negativo[chamada'[c]]
      \/ copia'[c][Disponivel] >= 0
      \/ copia'[c][Disponivel] >= saldo'[Disponivel]
  <2>1. /\ copia'[c] = t /\ copia[c] \in [Baldes -> Int] /\ saldo[Disponivel] \in Int
        /\ e.balde \in Baldes /\ e.valor \in Int
        /\ t = [copia[c] EXCEPT ![e.balde] = copia[c][e.balde] + e.valor]
        /\ Disponivel \in Baldes
    BY <1>1, <1>2, LedgerAssumption DEF TypeOK, Entrada, ComDelta
  <2>2. \/ e.balde # Disponivel /\ t[Disponivel] = copia[c][Disponivel]
        \/ e.valor >= 0 /\ t[Disponivel] >= copia[c][Disponivel]
        \/ Negativo[chamada[c]]
        \/ t[Disponivel] >= 0
    BY <1>1, <2>1 DEF Recusada, Descoberto
  <2> HIDE DEF t, e
  <2>3. /\ t[Disponivel] \in Int /\ copia[c][Disponivel] \in Int
    BY <2>1
  <2> QED BY <1>1, <2>1, <2>2, <2>3 DEF Andamento
<1>9. Promessa!Somado(NovasDe(c))' = Promessa!Somado(ms \cup {e})
  BY <1>1, <1>4 DEF Promessa!Somado
<1> HIDE DEF e, ms
<1>10. NovasDe(c)' \subseteq Andados(c)' /\ Andados(c)' \subseteq (Lancados \cup NovasDe(c))'
  BY <1>3, <1>4, <1>5 DEF Andamento, ms
<1> QED BY <1>7, <1>8, <1>9, <1>10 DEF Andamento

(* What a confirmed call posts: all that it walked, which is all of it.     *)
LEMMA ConfirmarInteira ==
  ASSUME LedgerInv, NEW c \in Chamadores, fase[c] = "dentro", ~Falta(c),
         Andamento(c)
  PROVE  /\ Promessa!Pedidos(chamada[c]) = Andados(c)
         /\ Promessa!Novos(chamada[c]) = NovasDe(c)
<1>1. TypeOK /\ SemRepetir(Visiveis(c))
  BY DEF LedgerInv, Integro
<1>2. Entradas[chamada[c]] \in Seq(Entrada)
  BY <1>1, LedgerAssumption DEF TypeOK
<1>3. passo[c] = Len(Entradas[chamada[c]])
  BY <1>1, <1>2 DEF Falta, TypeOK
<1>4. Promessa!Pedidos(chamada[c]) = Andados(c)
  BY <1>2, <1>3 DEF Promessa!Pedidos, Andados
<1>5. \A e \in Lancados, m \in NovasDe(c) : e.chave # m.chave
  BY <1>1, ChavesDistintas
<1>6. Promessa!Novos(chamada[c]) =
        {e \in Andados(c) : \A m \in Lancados : m.chave # e.chave}
  BY <1>4 DEF Promessa!Novos, Promessa!ChavesDe
<1> QED BY <1>4, <1>5, <1>6 DEF Andamento

(* A commit is one whole call of Razao, or changes nothing it can see.      *)
LEMMA ConfirmarAplica ==
  ASSUME LedgerInv, NEW c \in Chamadores, Confirmar(c), Andamento(c)
  PROVE  \/ Promessa!Aplicar(chamada[c])
         \/ UNCHANGED <<saldo, Lancados, eventos>>
<1> DEFINE k == chamada[c]
           ms == NovasDe(c)
<1>1. /\ fase[c] = "dentro" /\ ~Falta(c)
      /\ saldo' = copia[c] /\ movs' = movs \o novas[c]
      /\ eventos' = IF Anuncia(c) THEN Append(eventos, k) ELSE eventos
  BY DEF Confirmar
<1>2. TypeOK /\ SemRepetir(Visiveis(c)) /\ InternosPositivos(copia[c])
  BY <1>1 DEF LedgerInv, Integro
<1>3. Lancados' = Lancados \cup ms
  BY <1>1, <1>2, LancadosAoConfirmar
<1>4. Promessa!Pedidos(k) = Andados(c) /\ Promessa!Novos(k) = ms
  BY <1>1, ConfirmarInteira
<1>5. CASE novas[c] = <<>>
  <2>1. ms = {}
    BY <1>5 DEF NovasDe
  <2>2. copia[c] = saldo
    <3>1. copia[c] = [b \in Baldes |-> saldo[b] + 0]
      BY <2>1, TotalVazio DEF Andamento, Promessa!Somado
    <3> QED BY <1>2, <3>1 DEF TypeOK
  <2> QED BY <1>1, <1>3, <1>5, <2>1, <2>2 DEF Anuncia
<1>6. CASE novas[c] # <<>>
  <2>1. ms # {}
    <3>1. novas[c] \in Seq(Movimentacao)
      BY <1>2 DEF TypeOK
    <3>2. 1 \in DOMAIN novas[c]
      BY <1>6, <3>1
    <3> QED BY <3>2 DEF NovasDe
  <2>2. Promessa!Coerente(k)
    <3>1. \A e, m \in Lancados \cup ms : e.chave = m.chave => e = m
      BY <1>2, ChavesDistintas
    <3> QED BY <1>4, <3>1 DEF Promessa!Coerente, Andamento
  <2>3. Promessa!Coberta(k, Promessa!Somado(ms))
    BY <1>2 DEF Promessa!Coberta, Andamento, InternosPositivos
  <2>4. eventos' = IF ComEvento[k] THEN Append(eventos, k) ELSE eventos
    BY <1>1, <1>6 DEF Anuncia
  <2>5. saldo' = Promessa!Somado(ms)
    BY <1>1 DEF Andamento
  <2> QED BY <1>3, <1>4, <2>1, <2>2, <2>3, <2>4, <2>5 DEF Promessa!Aplicar
<1> QED BY <1>5, <1>6

(* Each step keeps what a commit will need, and is a call of Razao or one   *)
(* that Razao does not see.                                                 *)
LEMMA PassoRazao ==
  ASSUME RazaoInv, [Next]_vars
  PROVE  /\ RazaoInv'
         /\ Promessa!Next \/ UNCHANGED <<saldo, Lancados, eventos>>
<1>0. TypeOK /\ LedgerInv /\ LedgerInv'
  BY PassoMantem DEF RazaoInv, LedgerInv
<1> DEFINE Parada == UNCHANGED <<saldo, Lancados, eventos>>
           Sessoes == \A d \in Chamadores : (fase[d] = "dentro" => Andamento(d))'
<1>1. ASSUME UNCHANGED <<saldo, movs, eventos>>
      PROVE  Parada /\ ChamadasInteiras'
  <2>1. Lancados' = Lancados
    BY <1>1 DEF Lancados, EntradaDe
  <2> QED BY <1>1, <2>1 DEF RazaoInv, ChamadasInteiras, Promessa!Pedidos
<1>2. CASE UNCHANGED vars
  <2>1. Sessoes
    BY <1>2, AndamentoIgual DEF RazaoInv, vars
  <2> QED BY <1>0, <1>1, <1>2, <2>1 DEF RazaoInv, vars
<1>3. ASSUME NEW c \in Chamadores, NEW k \in Chamadas, Chamar(c, k)
      PROVE  RazaoInv' /\ Parada
  <2>1. Sessoes
    <3> SUFFICES ASSUME NEW d \in Chamadores, fase'[d] = "dentro"
                 PROVE  Andamento(d)'
      OBVIOUS
    <3>1. d # c /\ fase[d] = "dentro" /\ chamada'[d] = chamada[d]
      BY <1>0, <1>3 DEF TypeOK, Chamar
    <3> QED BY <1>3, <3>1, AndamentoIgual DEF Chamar, RazaoInv
  <2> QED BY <1>0, <1>1, <1>3, <2>1 DEF RazaoInv, Chamar
<1>4. ASSUME NEW c \in Chamadores, Travar(c)
      PROVE  RazaoInv' /\ Parada
  <2>1. novas'[c] = <<>> /\ passo'[c] = 0 /\ copia'[c] = saldo /\ saldo' = saldo
    BY <1>0, <1>4 DEF LedgerInv, TypeOK, Travar
  <2>2. Andamento(c)'
    <3>1. NovasDe(c)' = {} /\ Andados(c)' = {}
      BY <2>1 DEF NovasDe, Andados
    <3>2. Promessa!Somado(NovasDe(c))' = saldo
      <4>1. Promessa!Somado(NovasDe(c))' = [b \in Baldes |-> saldo[b] + 0]
        BY <2>1, <3>1, TotalVazio DEF Promessa!Somado
      <4> QED BY <1>0, <4>1 DEF TypeOK
    <3>3. copia'[c][Disponivel] >= saldo'[Disponivel]
      BY <1>0, <2>1, LedgerAssumption DEF TypeOK
    <3> QED BY <2>1, <3>1, <3>2, <3>3 DEF Andamento
  <2>3. \A d \in Chamadores : fase'[d] = "dentro" => d = c
    BY <1>0, <1>4, LedgerAssumption DEF LedgerInv, TypeOK, Travar, LinhaLivre
  <2> QED BY <1>0, <1>1, <1>4, <2>2, <2>3 DEF RazaoInv, Travar
<1>5. ASSUME NEW c \in Chamadores, Repetida(c)
      PROVE  RazaoInv' /\ Parada
  <2>1. Andamento(c) /\ Falta(c) /\ fase[c] = "dentro"
    BY <1>5 DEF Repetida, RazaoInv
  <2>2. Atual(c) \in Lancados \cup NovasDe(c)
    <3>1. PICK i \in ComChave(c, Atual(c).chave) :
            MesmaMovimentacao(Visiveis(c)[i], Atual(c))
      BY <1>5 DEF Repetida
    <3>2. i \in DOMAIN Visiveis(c) /\ Visiveis(c)[i].chave = Atual(c).chave
      BY <3>1 DEF ComChave
    <3>3. EntradaDe(Visiveis(c)[i]) = Atual(c)
      BY <1>0, <2>1, <3>1, <3>2, AtualEntrada DEF EntradaDe, MesmaMovimentacao, Entrada
    <3> QED BY <1>0, <3>2, <3>3, VistosComoEntradas
  <2>3. Andados(c)' = Andados(c) \cup {Atual(c)}
    BY <1>0, <1>5, AndarUm DEF Repetida
  <2>4. NovasDe(c)' = NovasDe(c) /\ Lancados' = Lancados
        /\ Promessa!Somado(NovasDe(c))' = Promessa!Somado(NovasDe(c))
    BY <1>5 DEF Repetida, NovasDe, Lancados, EntradaDe, Promessa!Somado
  <2>5. Andamento(c)'
    BY <1>5, <2>1, <2>2, <2>3, <2>4 DEF Andamento, Repetida
  <2>6. \A d \in Chamadores : fase'[d] = "dentro" => d = c
    BY <1>0, <1>5 DEF LedgerInv, Repetida
  <2> QED BY <1>0, <1>1, <1>5, <2>5, <2>6 DEF RazaoInv, Repetida
<1>6. ASSUME NEW c \in Chamadores, Lancar(c)
      PROVE  RazaoInv' /\ Parada
  <2>1. Andamento(c) /\ fase[c] = "dentro"
    BY <1>6 DEF Lancar, RazaoInv
  <2>2. Andamento(c)'
    BY <1>0, <1>6, <2>1, LancarAndamento
  <2>3. \A d \in Chamadores : fase'[d] = "dentro" => d = c
    BY <1>0, <1>6 DEF LedgerInv, Lancar
  <2> QED BY <1>0, <1>1, <1>6, <2>2, <2>3 DEF RazaoInv, Lancar
<1>7. ASSUME NEW c \in Chamadores, Confirmar(c)
      PROVE  RazaoInv' /\ (Promessa!Aplicar(chamada[c]) \/ Parada)
  <2>1. /\ Andamento(c) /\ fase[c] = "dentro" /\ ~Falta(c)
        /\ movs' = movs \o novas[c] /\ Sair(c)
    BY <1>7 DEF Confirmar, RazaoInv
  <2>2. Promessa!Aplicar(chamada[c]) \/ Parada
    BY <1>0, <1>7, <2>1, ConfirmarAplica
  <2>3. \A d \in Chamadores : fase'[d] # "dentro"
    BY <1>0, <2>1 DEF LedgerInv, TypeOK, Sair
  <2>4. ChamadasInteiras'
    <3>1. Lancados' = Lancados \cup NovasDe(c)
      BY <1>0, <2>1, LancadosAoConfirmar
    <3>2. Promessa!Pedidos(chamada[c]) = Andados(c) /\ chamada[c] \in Chamadas
      BY <1>0, <2>1, ConfirmarInteira DEF TypeOK
    <3>3. \A e \in Lancados' : \E k \in Chamadas :
            e \in Promessa!Pedidos(k) /\ Promessa!Pedidos(k) \subseteq Lancados'
      BY <2>1, <3>1, <3>2 DEF RazaoInv, ChamadasInteiras, Andamento
    <3> QED BY <3>3 DEF ChamadasInteiras, Promessa!Pedidos
  <2> QED BY <1>0, <2>2, <2>3, <2>4 DEF RazaoInv
<1>8. ASSUME NEW c \in Chamadores, Recusar(c) \/ Abortar(c)
      PROVE  RazaoInv' /\ Parada
  <2>1. UNCHANGED <<saldo, movs, eventos>> /\ Sair(c)
    BY <1>8 DEF Recusar, Abortar, Desfeito, banco
  <2>2. Sessoes
    <3> SUFFICES ASSUME NEW d \in Chamadores, fase'[d] = "dentro"
                 PROVE  Andamento(d)'
      OBVIOUS
    <3>1. /\ d # c /\ fase[d] = "dentro" /\ novas'[d] = novas[d]
          /\ passo'[d] = passo[d] /\ chamada'[d] = chamada[d] /\ copia'[d] = copia[d]
      BY <1>0, <2>1 DEF TypeOK, Sair
    <3> QED BY <2>1, <3>1, AndamentoIgual DEF RazaoInv
  <2> QED BY <1>0, <1>1, <2>1, <2>2 DEF RazaoInv
<1>9. \A c \in Chamadores : Promessa!Aplicar(chamada[c]) => Promessa!Next
  BY <1>0 DEF TypeOK, Promessa!Next
<1> QED BY <1>2, <1>3, <1>4, <1>5, <1>6, <1>7, <1>8, <1>9 DEF Next

(* An empty wallet is one where nothing was posted.                         *)
LEMMA InicioRazao == Init => RazaoInv /\ Promessa!Init
<1> SUFFICES ASSUME Init PROVE RazaoInv /\ Promessa!Init
  OBVIOUS
<1>1. Lancados = {} /\ \A c \in Chamadores : fase[c] = "fora"
  BY DEF Init, Lancados
<1>2. RazaoInv
  BY <1>1, InicioIntegro DEF RazaoInv, ChamadasInteiras
<1> QED BY <1>1, <1>2 DEF Init, Promessa!Init

(* In every reachable state what is posted comes from calls posted whole,   *)
(* and a session inside its transaction is on its way to another one.       *)
THEOREM RazaoIntegro == Spec => []RazaoInv
<1>1. RazaoInv /\ [Next]_vars => RazaoInv'
  BY PassoRazao
<1> QED BY InicioRazao, <1>1, PTL DEF Spec

(* A call is posted whole or not at all, whatever session died or was       *)
(* refused in the middle.                                                   *)
THEOREM ChamadaTudoOuNada == Spec => []TudoOuNada
<1>1. RazaoInv => TudoOuNada
  <2> SUFFICES ASSUME RazaoInv, NEW k \in Chamadas, NEW i \in DOMAIN Entradas[k],
                      Exclusiva(k, i), Postada(k, i), NEW n \in DOMAIN Entradas[k]
               PROVE  Postada(k, n)
    BY DEF TudoOuNada
  <2>1. PICK j \in DOMAIN movs : movs[j].chave = Entradas[k][i].chave
    BY DEF Postada
  <2>2. PICK l \in Chamadas : /\ EntradaDe(movs[j]) \in Promessa!Pedidos(l)
                              /\ Promessa!Pedidos(l) \subseteq Lancados
    BY DEF RazaoInv, ChamadasInteiras, Lancados
  <2>3. PICK q \in DOMAIN Entradas[l] : EntradaDe(movs[j]) = Entradas[l][q]
    BY <2>2 DEF Promessa!Pedidos
  <2>4. Entradas[l][q].chave = Entradas[k][i].chave
    BY <2>1, <2>3 DEF EntradaDe
  <2>5. l = k
    BY <2>4 DEF Exclusiva
  <2>6. Entradas[k][n] \in Lancados
    BY <2>2, <2>5 DEF Promessa!Pedidos
  <2>7. PICK p \in DOMAIN movs : Entradas[k][n] = EntradaDe(movs[p])
    BY <2>6 DEF Lancados
  <2>8. movs[p].chave = Entradas[k][n].chave
    BY <2>7 DEF EntradaDe
  <2> QED BY <2>8 DEF Postada
<1> QED BY <1>1, RazaoIntegro, PTL

(* Sessions, locks, retries, refusals and deaths disappear: seen through    *)
(* what is committed, the ledger is Razao, one whole call at a time.        *)
THEOREM LedgerImplementaRazao == Spec => ImplementaRazao
<1>1. RazaoInv /\ [Next]_vars =>
        [Promessa!Next]_<<saldo, Lancados, eventos>>
  BY PassoRazao
<1> QED BY InicioRazao, <1>1, RazaoIntegro, PTL
        DEF Spec, ImplementaRazao, Promessa!Spec
=============================================================================
