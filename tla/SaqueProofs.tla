---------------------------- MODULE SaqueProofs ----------------------------
(* The withdrawal's safety, for any number of requests, workers, webhook    *)
(* slots, crashes and changes of rules.                                     *)
EXTENDS SaqueSaida, SomasProofs

USE DEF vars, dinheiro, avisos, fila, liquid, pedido, worker, gancho,
        varredura, ambiente

(* Each part of the invariant reads only a few variables: a step that       *)
(* leaves them alone keeps the part.                                        *)
LEMMA Quadro ==
  ASSUME SaqueInv
  PROVE  /\ UNCHANGED dinheiro => TypeDinheiro'
         /\ UNCHANGED <<tx, tent, comId, avisos>> => TypeRegistro'
         /\ UNCHANGED fila => TypeFila'
         /\ UNCHANGED liquid => TypeLiquid'
         /\ UNCHANGED pedido => TypePedido'
         /\ UNCHANGED worker => TypeWorker'
         /\ UNCHANGED gancho => TypeGancho'
         /\ UNCHANGED <<varredura, ambiente>> => TypeResto'
         /\ UNCHANGED <<tx, debitado>> => Cobrado'
         /\ UNCHANGED <<api, tx>> => PedidoNovo'
         /\ UNCHANGED <<banco, tent>> => OrdemTemTentativa'
         /\ UNCHANGED liquid => EnviosContados'
         /\ UNCHANGED <<worker, tent>> => UmaMao'
         /\ UNCHANGED <<worker, banco, estornado>> => FaseSabe'
         /\ UNCHANGED <<tx, banco>> => ConcluidaSoPaga'
         /\ UNCHANGED <<tx, estornado>> => FalhaDevolve'
         /\ UNCHANGED tx => UmSaquePorReferencia'
<1>1. TypeOK /\ Nucleo
  BY DEF SaqueInv
<1>2. /\ UNCHANGED dinheiro => TypeDinheiro'
      /\ UNCHANGED <<tx, tent, comId, avisos>> => TypeRegistro'
      /\ UNCHANGED fila => TypeFila'
      /\ UNCHANGED liquid => TypeLiquid'
      /\ UNCHANGED pedido => TypePedido'
      /\ UNCHANGED worker => TypeWorker'
      /\ UNCHANGED gancho => TypeGancho'
      /\ UNCHANGED <<varredura, ambiente>> => TypeResto'
  BY <1>1 DEF TypeOK, TypeDinheiro, TypeRegistro, TypeFila, TypeLiquid,
     TypePedido, TypeWorker, TypeGancho, TypeResto
<1>3. /\ UNCHANGED <<tx, debitado>> => Cobrado'
      /\ UNCHANGED <<api, tx>> => PedidoNovo'
      /\ UNCHANGED <<banco, tent>> => OrdemTemTentativa'
      /\ UNCHANGED liquid => EnviosContados'
  BY <1>1 DEF Nucleo, Cobrado, PedidoNovo, OrdemTemTentativa, EnviosContados,
     Ativa
<1>4. UNCHANGED <<worker, tent>> => UmaMao'
  BY <1>1 DEF Nucleo, UmaMao, Ativa
<1>5. UNCHANGED <<worker, banco, estornado>> => FaseSabe'
  BY <1>1 DEF Nucleo, FaseSabe
<1>6. /\ UNCHANGED <<tx, banco>> => ConcluidaSoPaga'
      /\ UNCHANGED <<tx, estornado>> => FalhaDevolve'
      /\ UNCHANGED tx => UmSaquePorReferencia'
  BY <1>1 DEF Nucleo, ConcluidaSoPaga, FalhaDevolve, UmSaquePorReferencia,
     Criados
<1> QED BY <1>2, <1>3, <1>4, <1>5, <1>6

(* The first state satisfies it.                                            *)
LEMMA InicioIntegro ==
  ASSUME Init
  PROVE  SaqueInv
<1>1. (CHOOSE s \in Pedidos : TRUE) \in Pedidos
  BY SaqueAssumption
<1>2. TypeOK
  BY <1>1, SaqueAssumption DEF Init, TypeOK, TypeDinheiro, TypeRegistro,
     TypeFila, TypeLiquid, TypePedido, TypeWorker, TypeGancho, TypeResto,
     Situacoes, FasesWorker, Ordens
<1>3. Nucleo
  BY DEF Init, Nucleo, Cobrado, PedidoNovo, OrdemTemTentativa, EnviosContados,
     UmaMao, FaseSabe, ConcluidaSoPaga, FalhaDevolve,
     UmSaquePorReferencia, Criados, Mao, SemOrdem
<1> QED BY <1>2, <1>3 DEF SaqueInv

(* What a withdrawal moves is a natural number.                            *)
LEMMA TotalNat ==
  ASSUME NEW s \in Pedidos
  PROVE  Total(s) \in Nat
<1>1. Valor[s] \in Nat /\ Tarifa[s] \in Nat
  BY SaqueAssumption
<1> QED BY <1>1 DEF Total

(* What the webhook handler does once the liquidante answered: nothing, the *)
(* refund of an order that cannot be paid, or the outcome of a paid one.    *)
LEMMA ConfirmarFaz ==
  ASSUME SaqueInv, NEW h \in Ganchos, Confirmar(h)
  PROVE  \/ UNCHANGED <<dinheiro, tx, avisoFalha>>
         \/ EncerrarComoFalha(gAlvo[h]) /\ banco[gAlvo[h]] \in {"falhou", "devolvido"}
         \/ /\ Aberta(gAlvo[h]) /\ tx' = [tx EXCEPT ![gAlvo[h]] = "CONCLUIDA"]
            /\ banco[gAlvo[h]] \in {"pago", "devolvido"}
            /\ UNCHANGED <<dinheiro, avisoFalha>>
<1> DEFINE s == gAlvo[h]
<1>1. CASE gLida[h] \notin Enviaveis
  BY <1>1 DEF Confirmar
<1>2. CASE gLida[h] \in Enviaveis
  <2>1. PICK resposta \in Respostas(s) :
          \/ resposta \in {"falhou", "devolvido"} /\ EncerrarComoFalha(s)
          \/ /\ resposta \in {"pago", "desconhecida"} /\ Aberta(s)
             /\ tx' = [tx EXCEPT ![s] = "CONCLUIDA"] /\ UNCHANGED <<dinheiro, avisoFalha>>
          \/ UNCHANGED <<dinheiro, tx, avisoFalha>>
    BY <1>2 DEF Confirmar
  <2>2. resposta = banco[s] \/ (resposta = "desconhecida" /\ banco[s] \in {"pago", "devolvido"})
    BY <2>1 DEF Respostas
  <2>3. resposta \in {"falhou", "devolvido"} => banco[s] \in {"falhou", "devolvido"}
    BY <2>2
  <2>4. resposta \in {"pago", "desconhecida"} => banco[s] \in {"pago", "devolvido"}
    <3>1. banco[s] # "desconhecida"
      BY DEF SaqueInv, TypeOK, TypeLiquid, TypeGancho, Ordens
    <3> QED BY <2>2, <3>1
  <2> QED BY <2>1, <2>3, <2>4, Zenon
<1> QED BY <1>1, <1>2

(* A refund leaves the wallet well typed.                                   *)
LEMMA EstornarTipo ==
  ASSUME TypeDinheiro, NEW s \in Pedidos, Estornar(s)
  PROVE  TypeDinheiro'
<1>1. Total(s) \in Nat
  BY TotalNat
<1> QED BY <1>1 DEF TypeDinheiro, Estornar

(* Every action of the request, the worker, the liquidante, the webhook,    *)
(* the sweep and the administrator keeps it.                                *)
LEMMA PassoMantem ==
  ASSUME SaqueInv, [Next]_vars
  PROVE  SaqueInv'
<1>0. /\ TypeDinheiro /\ TypeRegistro /\ TypeFila /\ TypeLiquid
      /\ TypePedido /\ TypeWorker /\ TypeGancho /\ TypeResto
      /\ Cobrado /\ PedidoNovo /\ OrdemTemTentativa /\ EnviosContados
      /\ UmaMao /\ FaseSabe
      /\ ConcluidaSoPaga /\ FalhaDevolve /\ UmSaquePorReferencia
  BY DEF SaqueInv, TypeOK, Nucleo
<1>1. ASSUME NEW p \in Pedidos, PreChecar(p)
      PROVE  SaqueInv'
  <2>1. TypePedido'
    BY <1>0, <1>1 DEF PreChecar, Replay, DaReferencia, Criados, TypePedido
  <2>2. PedidoNovo'
    BY <1>0, <1>1 DEF PreChecar, Replay, PedidoNovo, TypePedido
  <2> QED
    BY <1>0, <1>1, <2>1, <2>2, Quadro
      DEF PreChecar, Replay, SaqueInv, TypeOK, Nucleo
<1>2. ASSUME NEW p \in Pedidos, Criar(p)
      PROVE  SaqueInv'
  <2>1. TypeDinheiro'
    <3>1. Total(p) \in Nat
      BY TotalNat
    <3>2. \/ UNCHANGED <<saldo, debitado>>
          \/ /\ saldo' = saldo - Total(p)
             /\ debitado' = [debitado EXCEPT ![p] = TRUE]
      BY <1>2 DEF Criar, Replay
    <3>3. UNCHANGED estornado
      BY <1>2 DEF Criar
    <3>4. saldo' \in Int
      BY <1>0, <3>1, <3>2 DEF TypeDinheiro
    <3>5. debitado' \in [Pedidos -> BOOLEAN]
      BY <1>0, <3>2 DEF TypeDinheiro
    <3> QED BY <1>0, <3>3, <3>4, <3>5 DEF TypeDinheiro
  <2>2. TypeRegistro'
    BY <1>0, <1>2 DEF Criar, Replay, TypeRegistro, Situacoes
  <2>3. TypePedido'
    BY <1>0, <1>2 DEF Criar, Replay, DaReferencia, Criados, TypePedido
  <2>4. Cobrado'
    BY <1>0, <1>2 DEF Criar, Replay, Cobrado, TypeDinheiro, TypeRegistro
  <2>5. PedidoNovo'
    BY <1>0, <1>2 DEF Criar, Replay, PedidoNovo, TypePedido, TypeRegistro
  <2>6. ConcluidaSoPaga'
    BY <1>0, <1>2 DEF Criar, Replay, ConcluidaSoPaga, TypeRegistro
  <2>7. FalhaDevolve'
    BY <1>0, <1>2 DEF Criar, Replay, FalhaDevolve, TypeRegistro
  <2>8. UmSaquePorReferencia'
    BY <1>0, <1>2
      DEF Criar, Replay, RefLivre, DaReferencia, Criados, UmSaquePorReferencia,
          TypeRegistro
  <2> QED
    BY <1>0, <1>2, <2>1, <2>2, <2>3, <2>4, <2>5, <2>6, <2>7, <2>8, Quadro
      DEF Criar, SaqueInv, TypeOK, Nucleo
<1>3. ASSUME NEW p \in Pedidos, Enfileirar(p)
      PROVE  SaqueInv'
  <2>1. TypeFila'
    BY <1>0, <1>3, SaqueAssumption DEF Enfileirar, PorNaFila, TypeFila
  <2>2. TypePedido'
    BY <1>0, <1>3 DEF Enfileirar, TypePedido
  <2>3. PedidoNovo'
    BY <1>0, <1>3 DEF Enfileirar, PedidoNovo
  <2> QED
    BY <1>0, <1>3, <2>1, <2>2, <2>3, Quadro
      DEF Enfileirar, SaqueInv, TypeOK, Nucleo
<1>4. ASSUME NEW p \in Pedidos, PerderEnfileirar(p)
      PROVE  SaqueInv'
  <2>1. TypePedido'
    BY <1>0, <1>4 DEF PerderEnfileirar, TypePedido
  <2>2. TypeResto'
    BY <1>0, <1>4, SaqueAssumption DEF PerderEnfileirar, TypeResto
  <2>3. PedidoNovo'
    BY <1>0, <1>4 DEF PerderEnfileirar, PedidoNovo
  <2> QED
    BY <1>0, <1>4, <2>1, <2>2, <2>3, Quadro
      DEF PerderEnfileirar, SaqueInv, TypeOK, Nucleo
<1>5. ASSUME NEW w \in Workers, NEW s \in Pedidos, IniciarJob(w, s)
      PROVE  SaqueInv'
  <2>1. TypeFila'
    BY <1>0, <1>5, SaqueAssumption DEF IniciarJob, TypeFila
  <2>2. TypeWorker'
    BY <1>0, <1>5 DEF IniciarJob, TypeWorker, FasesWorker
  <2>3. UmaMao'
    BY <1>0, <1>5 DEF IniciarJob, UmaMao, Mao, Ativa, TypeWorker
  <2>4. FaseSabe'
    BY <1>0, <1>5 DEF IniciarJob, FaseSabe, TypeWorker
  <2> QED
    BY <1>0, <1>5, <2>1, <2>2, <2>3, <2>4, Quadro
      DEF IniciarJob, SaqueInv, TypeOK, Nucleo
<1>6. ASSUME NEW w \in Workers, Reivindicar(w)
      PROVE  SaqueInv'
  <2>1. TypeRegistro'
    BY <1>0, <1>6 DEF Reivindicar, TypeRegistro
  <2>2. TypeFila'
    BY <1>0, <1>6 DEF Reivindicar, JobTermina, JobVai, TypeFila
  <2>3. TypeWorker'
    BY <1>0, <1>6 DEF Reivindicar, Vai, TypeWorker, FasesWorker
  <2>4. OrdemTemTentativa'
    BY <1>0, <1>6 DEF Reivindicar, OrdemTemTentativa, Ativa, TypeRegistro
  <2>5. UmaMao'
    BY <1>0, <1>6
      DEF Reivindicar, Vai, Barrado, UmaMao, Mao, Ativa, TypeRegistro,
          TypeWorker
  <2>6. FaseSabe'
    BY <1>0, <1>6
      DEF Reivindicar, Vai, Barrado, FaseSabe, TypeWorker, OrdemTemTentativa
  <2> QED
    BY <1>0, <1>6, <2>1, <2>2, <2>3, <2>4, <2>5, <2>6, Quadro
      DEF Reivindicar, SaqueInv, TypeOK, Nucleo
<1>7. ASSUME NEW w \in Workers, Postar(w)
      PROVE  SaqueInv'
  <2>1. TypeLiquid'
    BY <1>0, <1>7 DEF Postar, TypeLiquid, Ordens
  <2>2. TypeWorker'
    BY <1>0, <1>7 DEF Postar, Vai, TypeWorker, FasesWorker
  <2>3. OrdemTemTentativa'
    BY <1>0, <1>7
      DEF Postar, OrdemTemTentativa, Ativa, TypeLiquid, UmaMao, Mao
  <2>4. EnviosContados'
    BY <1>0, <1>7 DEF Postar, EnviosContados, SemOrdem, TypeLiquid, FaseSabe
  <2>5. UmaMao'
    BY <1>0, <1>7 DEF Postar, Vai, UmaMao, Mao, Ativa, TypeWorker
  <2>6. FaseSabe'
    BY <1>0, <1>7
      DEF Postar, Vai, FaseSabe, Mao, TypeLiquid, TypeWorker, UmaMao
  <2>7. ConcluidaSoPaga'
    BY <1>0, <1>7 DEF Postar, ConcluidaSoPaga, TypeLiquid, FaseSabe, SemOrdem
  <2> QED
    BY <1>0, <1>7, <2>1, <2>2, <2>3, <2>4, <2>5, <2>6, <2>7, Quadro
      DEF Postar, SaqueInv, TypeOK, Nucleo
<1>8. ASSUME NEW w \in Workers, GuardarAceite(w)
      PROVE  SaqueInv'
  <2>1. TypeRegistro'
    BY <1>0, <1>8 DEF GuardarAceite, Promovida, TypeRegistro, Enviaveis
  <2>2. TypeFila'
    BY <1>0, <1>8 DEF GuardarAceite, JobTermina, JobVai, TypeFila
  <2>3. TypeWorker'
    BY <1>0, <1>8 DEF GuardarAceite, Vai, TypeWorker, FasesWorker
  <2>4. Cobrado'
    BY <1>0, <1>8 DEF GuardarAceite, Promovida, Cobrado, Enviaveis
  <2>5. PedidoNovo'
    BY <1>0, <1>8 DEF GuardarAceite, Promovida, PedidoNovo, Enviaveis
  <2>6. OrdemTemTentativa'
    BY <1>0, <1>8 DEF GuardarAceite, OrdemTemTentativa, Ativa
  <2>7. UmaMao'
    BY <1>0, <1>8 DEF GuardarAceite, Vai, UmaMao, Mao, Ativa
  <2>8. FaseSabe'
    BY <1>0, <1>8 DEF GuardarAceite, Vai, FaseSabe
  <2>9. ConcluidaSoPaga'
    BY <1>0, <1>8 DEF GuardarAceite, Promovida, ConcluidaSoPaga
  <2>10. FalhaDevolve'
    BY <1>0, <1>8 DEF GuardarAceite, Promovida, FalhaDevolve
  <2>11. UmSaquePorReferencia'
    BY <1>0, <1>8
      DEF GuardarAceite, Promovida, UmSaquePorReferencia, Criados, Enviaveis
  <2> QED
    BY <1>0, <1>8, <2>1, <2>2, <2>3, <2>4, <2>5, <2>6, <2>7, <2>8, <2>9, <2>10,
       <2>11, Quadro
      DEF GuardarAceite, SaqueInv, TypeOK, Nucleo
<1>9. ASSUME NEW w \in Workers, DesfazerTentativa(w)
      PROVE  SaqueInv'
  <2>1. TypeRegistro'
    BY <1>0, <1>9 DEF DesfazerTentativa, TypeRegistro
  <2>2. TypeFila'
    BY <1>0, <1>9, SaqueAssumption
      DEF DesfazerTentativa, JobRetenta, JobVai, Esgotado, TypeFila
  <2>3. TypeWorker'
    BY <1>0, <1>9 DEF DesfazerTentativa, Vai, TypeWorker, FasesWorker
  <2>4. OrdemTemTentativa'
    BY <1>0, <1>9 DEF DesfazerTentativa, OrdemTemTentativa, Ativa, FaseSabe
  <2>5. UmaMao'
    BY <1>0, <1>9 DEF DesfazerTentativa, Vai, UmaMao, Mao, Ativa, TypeWorker
  <2>6. FaseSabe'
    BY <1>0, <1>9 DEF DesfazerTentativa, Vai, FaseSabe, TypeWorker
  <2> QED
    BY <1>0, <1>9, <2>1, <2>2, <2>3, <2>4, <2>5, <2>6, Quadro
      DEF DesfazerTentativa, SaqueInv, TypeOK, Nucleo
<1>10. ASSUME NEW w \in Workers, CongelarAmbiguo(w)
      PROVE  SaqueInv'
  <2>1. TypeFila'
    BY <1>0, <1>10 DEF CongelarAmbiguo, JobFalha, JobVai, TypeFila
  <2>2. TypeWorker'
    BY <1>0, <1>10 DEF CongelarAmbiguo, Vai, TypeWorker, FasesWorker
  <2>3. UmaMao'
    BY <1>0, <1>10 DEF CongelarAmbiguo, Vai, Congelar, UmaMao, Mao, Ativa
  <2>4. FaseSabe'
    BY <1>0, <1>10 DEF CongelarAmbiguo, Vai, FaseSabe
  <2> QED
    BY <1>0, <1>10, <2>1, <2>2, <2>3, <2>4, Quadro
      DEF CongelarAmbiguo, Congelar, SaqueInv, TypeOK, Nucleo
<1>11. ASSUME NEW w \in Workers, EstornarRecusa(w)
      PROVE  SaqueInv'
  <2>1. TypeDinheiro'
    <3>1. alvo[w] \in Pedidos
      BY <1>0, <1>11 DEF TypeWorker
    <3>2. UNCHANGED dinheiro \/ Estornar(alvo[w])
      BY <1>11 DEF EstornarRecusa
    <3> QED BY <1>0, <3>1, <3>2, EstornarTipo, Quadro
  <2>2. TypeRegistro'
    BY <1>0, <1>11 DEF EstornarRecusa, TypeRegistro
  <2>3. TypeFila'
    BY <1>0, <1>11 DEF EstornarRecusa, JobTermina, JobVai, TypeFila
  <2>4. TypeWorker'
    BY <1>0, <1>11 DEF EstornarRecusa, Vai, TypeWorker, FasesWorker
  <2>5. OrdemTemTentativa'
    BY <1>0, <1>11
      DEF EstornarRecusa, OrdemTemTentativa, Ativa, SemOrdem, TypeRegistro,
          FaseSabe
  <2>6. UmaMao'
    BY <1>0, <1>11
      DEF EstornarRecusa, Vai, UmaMao, Mao, Ativa, TypeRegistro, TypeWorker
  <2>7. FaseSabe'
    BY <1>0, <1>11
      DEF EstornarRecusa, Vai, Estornar, FaseSabe, TypeDinheiro, TypeWorker
  <2>8. FalhaDevolve'
    BY <1>0, <1>11 DEF EstornarRecusa, Estornar, FalhaDevolve, TypeDinheiro
  <2> QED
    BY <1>0, <1>11, <2>1, <2>2, <2>3, <2>4, <2>5, <2>6, <2>7, <2>8, Quadro
      DEF EstornarRecusa, Estornar, SaqueInv, TypeOK, Nucleo
<1>12. ASSUME NEW w \in Workers, SelarRecusa(w)
      PROVE  SaqueInv'
  <2>1. TypeRegistro'
    BY <1>0, <1>12
      DEF SelarRecusa, SelarFalha, TypeRegistro, Situacoes, TypeWorker
  <2>2. TypeFila'
    BY <1>0, <1>12 DEF SelarRecusa, JobTermina, JobVai, TypeFila
  <2>3. TypeWorker'
    BY <1>0, <1>12 DEF SelarRecusa, Vai, TypeWorker, FasesWorker
  <2>4. Cobrado'
    BY <1>0, <1>12
      DEF SelarRecusa, SelarFalha, Aberta, Cobrado, TypeRegistro, Enviaveis
  <2>5. PedidoNovo'
    BY <1>0, <1>12
      DEF SelarRecusa, SelarFalha, Aberta, PedidoNovo, TypeRegistro, Enviaveis
  <2>6. OrdemTemTentativa'
    BY <1>0, <1>12
      DEF SelarRecusa, OrdemTemTentativa, Ativa, SemOrdem, FaseSabe
  <2>7. UmaMao'
    BY <1>0, <1>12 DEF SelarRecusa, Vai, UmaMao, Mao, Ativa, TypeWorker
  <2>8. FaseSabe'
    BY <1>0, <1>12 DEF SelarRecusa, Vai, FaseSabe
  <2>9. ConcluidaSoPaga'
    BY <1>0, <1>12 DEF SelarRecusa, SelarFalha, ConcluidaSoPaga, TypeRegistro
  <2>10. FalhaDevolve'
    BY <1>0, <1>12
      DEF SelarRecusa, SelarFalha, FalhaDevolve, TypeRegistro, FaseSabe
  <2>11. UmSaquePorReferencia'
    BY <1>0, <1>12
      DEF SelarRecusa, SelarFalha, Aberta, UmSaquePorReferencia, Criados,
          TypeRegistro, Enviaveis
  <2> QED
    BY <1>0, <1>12, <2>1, <2>2, <2>3, <2>4, <2>5, <2>6, <2>7, <2>8, <2>9,
       <2>10, <2>11, Quadro
      DEF SelarRecusa, SaqueInv, TypeOK, Nucleo
<1>13. ASSUME NEW w \in Workers, Bloquear(w)
      PROVE  SaqueInv'
  <2>1. TypeDinheiro'
    <3>1. alvo[w] \in Pedidos
      BY <1>0, <1>13 DEF TypeWorker
    <3>2. UNCHANGED dinheiro \/ Estornar(alvo[w])
      BY <1>13 DEF Bloquear
    <3> QED BY <1>0, <3>1, <3>2, EstornarTipo, Quadro
  <2>2. TypeFila'
    BY <1>0, <1>13 DEF Bloquear, JobTermina, JobVai, TypeFila
  <2>3. TypeWorker'
    BY <1>0, <1>13 DEF Bloquear, Vai, TypeWorker, FasesWorker
  <2>4. UmaMao'
    BY <1>0, <1>13 DEF Bloquear, Vai, UmaMao, Mao, Ativa, TypeWorker
  <2>5. FaseSabe'
    BY <1>0, <1>13
      DEF Bloquear, Vai, Estornar, FaseSabe, TypeDinheiro, TypeWorker, Cobrado,
          Enviaveis
  <2>6. FalhaDevolve'
    BY <1>0, <1>13 DEF Bloquear, Estornar, FalhaDevolve, TypeDinheiro
  <2> QED
    BY <1>0, <1>13, <2>1, <2>2, <2>3, <2>4, <2>5, <2>6, Quadro
      DEF Bloquear, Estornar, SaqueInv, TypeOK, Nucleo
<1>14. ASSUME NEW w \in Workers, SelarBloqueio(w)
      PROVE  SaqueInv'
  <2>1. TypeRegistro'
    BY <1>0, <1>14 DEF SelarBloqueio, SelarFalha, TypeRegistro, Situacoes
  <2>2. TypeFila'
    BY <1>0, <1>14 DEF SelarBloqueio, JobTermina, JobVai, TypeFila
  <2>3. TypeWorker'
    BY <1>0, <1>14 DEF SelarBloqueio, Vai, TypeWorker, FasesWorker
  <2>4. Cobrado'
    BY <1>0, <1>14
      DEF SelarBloqueio, SelarFalha, Aberta, Cobrado, TypeRegistro, Enviaveis
  <2>5. PedidoNovo'
    BY <1>0, <1>14
      DEF SelarBloqueio, SelarFalha, Aberta, PedidoNovo, TypeRegistro,
          Enviaveis
  <2>6. UmaMao'
    BY <1>0, <1>14 DEF SelarBloqueio, Vai, UmaMao, Mao, Ativa
  <2>7. FaseSabe'
    BY <1>0, <1>14 DEF SelarBloqueio, Vai, FaseSabe
  <2>8. ConcluidaSoPaga'
    BY <1>0, <1>14
      DEF SelarBloqueio, SelarFalha, ConcluidaSoPaga, TypeRegistro
  <2>9. FalhaDevolve'
    BY <1>0, <1>14
      DEF SelarBloqueio, SelarFalha, FalhaDevolve, TypeRegistro, FaseSabe
  <2>10. UmSaquePorReferencia'
    BY <1>0, <1>14
      DEF SelarBloqueio, SelarFalha, Aberta, UmSaquePorReferencia, Criados,
          TypeRegistro, Enviaveis
  <2> QED
    BY <1>0, <1>14, <2>1, <2>2, <2>3, <2>4, <2>5, <2>6, <2>7, <2>8, <2>9,
       <2>10, Quadro
      DEF SelarBloqueio, SaqueInv, TypeOK, Nucleo
<1>15. ASSUME NEW w \in Workers, ErroInfra(w)
      PROVE  SaqueInv'
  <2>1. TypeFila'
    BY <1>0, <1>15, SaqueAssumption
      DEF ErroInfra, JobRetenta, JobVai, Esgotado, TypeFila, TypeWorker
  <2>2. TypeWorker'
    BY <1>0, <1>15 DEF ErroInfra, Vai, TypeWorker, FasesWorker
  <2>3. TypeResto'
    BY <1>0, <1>15, SaqueAssumption DEF ErroInfra, TypeResto
  <2>4. UmaMao'
    BY <1>0, <1>15 DEF ErroInfra, Vai, UmaMao, Mao, Ativa
  <2>5. FaseSabe'
    BY <1>0, <1>15 DEF ErroInfra, Vai, FaseSabe
  <2> QED
    BY <1>0, <1>15, <2>1, <2>2, <2>3, <2>4, <2>5, Quadro
      DEF ErroInfra, SaqueInv, TypeOK, Nucleo
<1>16. ASSUME NEW w \in Workers, CairWorker(w)
      PROVE  SaqueInv'
  <2>1. TypeWorker'
    BY <1>0, <1>16 DEF CairWorker, Vai, TypeWorker, FasesWorker
  <2>2. TypeResto'
    BY <1>0, <1>16, SaqueAssumption DEF CairWorker, TypeResto
  <2>3. UmaMao'
    BY <1>0, <1>16 DEF CairWorker, Vai, UmaMao, Mao, Ativa
  <2>4. FaseSabe'
    BY <1>0, <1>16 DEF CairWorker, Vai, FaseSabe
  <2> QED
    BY <1>0, <1>16, <2>1, <2>2, <2>3, <2>4, Quadro
      DEF CairWorker, SaqueInv, TypeOK, Nucleo
<1>17. ASSUME NEW s \in Pedidos, Estagnar(s)
      PROVE  SaqueInv'
  <2>1. TypeFila'
    BY <1>0, <1>17, SaqueAssumption DEF Estagnar, TypeFila
  <2> QED
    BY <1>0, <1>17, <2>1, Quadro DEF Estagnar, SaqueInv, TypeOK, Nucleo
<1>18. ASSUME NEW s \in Pedidos, RetentarAMao(s)
      PROVE  SaqueInv'
  <2>1. TypeFila'
    BY <1>0, <1>18 DEF RetentarAMao, TypeFila
  <2> QED
    BY <1>0, <1>18, <2>1, Quadro DEF RetentarAMao, SaqueInv, TypeOK, Nucleo
<1>19. ASSUME NEW s \in Pedidos, Chegar(s)
      PROVE  SaqueInv'
  <2>1. TypeLiquid'
    BY <1>0, <1>19 DEF Chegar, Ordem, TypeLiquid, Ordens
  <2>2. OrdemTemTentativa'
    BY <1>0, <1>19 DEF Chegar, Ordem, OrdemTemTentativa, Ativa, SemOrdem
  <2>3. EnviosContados'
    BY <1>0, <1>19 DEF Chegar, Ordem, EnviosContados, SemOrdem
  <2>4. FaseSabe'
    BY <1>0, <1>19 DEF Chegar, Ordem, FaseSabe, SemOrdem
  <2>5. ConcluidaSoPaga'
    BY <1>0, <1>19 DEF Chegar, Ordem, ConcluidaSoPaga
  <2> QED
    BY <1>0, <1>19, <2>1, <2>2, <2>3, <2>4, <2>5, Quadro
      DEF Chegar, Ordem, SaqueInv, TypeOK, Nucleo
<1>20. ASSUME NEW s \in Pedidos, Perder(s)
      PROVE  SaqueInv'
  <2>1. TypeLiquid'
    BY <1>0, <1>20
      DEF Perder, Ordem, TypeLiquid, Ordens, EnviosContados, SemOrdem
  <2>2. OrdemTemTentativa'
    BY <1>0, <1>20 DEF Perder, Ordem, OrdemTemTentativa, Ativa, SemOrdem
  <2>3. EnviosContados'
    BY <1>0, <1>20 DEF Perder, Ordem, EnviosContados, SemOrdem, TypeLiquid
  <2>4. FaseSabe'
    BY <1>0, <1>20 DEF Perder, Ordem, FaseSabe, SemOrdem
  <2>5. ConcluidaSoPaga'
    BY <1>0, <1>20 DEF Perder, Ordem, ConcluidaSoPaga
  <2> QED
    BY <1>0, <1>20, <2>1, <2>2, <2>3, <2>4, <2>5, Quadro
      DEF Perder, Ordem, SaqueInv, TypeOK, Nucleo
<1>21. ASSUME NEW s \in Pedidos, Pagar(s)
      PROVE  SaqueInv'
  <2>1. TypeLiquid'
    BY <1>0, <1>21 DEF Pagar, Ordem, TypeLiquid, Ordens
  <2>2. OrdemTemTentativa'
    BY <1>0, <1>21 DEF Pagar, Ordem, OrdemTemTentativa, Ativa, SemOrdem
  <2>3. EnviosContados'
    BY <1>0, <1>21 DEF Pagar, Ordem, EnviosContados, SemOrdem
  <2>4. FaseSabe'
    BY <1>0, <1>21 DEF Pagar, Ordem, FaseSabe, SemOrdem
  <2>5. ConcluidaSoPaga'
    BY <1>0, <1>21 DEF Pagar, Ordem, ConcluidaSoPaga
  <2> QED
    BY <1>0, <1>21, <2>1, <2>2, <2>3, <2>4, <2>5, Quadro
      DEF Pagar, Ordem, SaqueInv, TypeOK, Nucleo
<1>22. ASSUME NEW s \in Pedidos, Falhar(s)
      PROVE  SaqueInv'
  <2>1. TypeLiquid'
    BY <1>0, <1>22 DEF Falhar, Ordem, TypeLiquid, Ordens
  <2>2. OrdemTemTentativa'
    BY <1>0, <1>22 DEF Falhar, Ordem, OrdemTemTentativa, Ativa, SemOrdem
  <2>3. EnviosContados'
    BY <1>0, <1>22 DEF Falhar, Ordem, EnviosContados, SemOrdem
  <2>4. FaseSabe'
    BY <1>0, <1>22 DEF Falhar, Ordem, FaseSabe, SemOrdem
  <2>5. ConcluidaSoPaga'
    BY <1>0, <1>22 DEF Falhar, Ordem, ConcluidaSoPaga
  <2> QED
    BY <1>0, <1>22, <2>1, <2>2, <2>3, <2>4, <2>5, Quadro
      DEF Falhar, Ordem, SaqueInv, TypeOK, Nucleo
<1>23. ASSUME NEW s \in Pedidos, Devolver(s)
      PROVE  SaqueInv'
  <2>1. TypeLiquid'
    BY <1>0, <1>23 DEF Devolver, Ordem, TypeLiquid, Ordens
  <2>2. OrdemTemTentativa'
    BY <1>0, <1>23 DEF Devolver, Ordem, OrdemTemTentativa, Ativa, SemOrdem
  <2>3. EnviosContados'
    BY <1>0, <1>23 DEF Devolver, Ordem, EnviosContados, SemOrdem
  <2>4. FaseSabe'
    BY <1>0, <1>23 DEF Devolver, Ordem, FaseSabe, SemOrdem
  <2>5. ConcluidaSoPaga'
    BY <1>0, <1>23 DEF Devolver, Ordem, ConcluidaSoPaga
  <2> QED
    BY <1>0, <1>23, <2>1, <2>2, <2>3, <2>4, <2>5, Quadro
      DEF Devolver, Ordem, SaqueInv, TypeOK, Nucleo
<1>24. ASSUME NEW h \in Ganchos, NEW s \in Pedidos, NEW e \in {"PAID", "outro"},
             Receber(h, s, e)
      PROVE  SaqueInv'
  <2>1. TypeRegistro'
    BY <1>0, <1>24 DEF Receber, TypeRegistro
  <2>2. TypeGancho'
    BY <1>0, <1>24 DEF Receber, TypeGancho, TypeRegistro
  <2>3. OrdemTemTentativa'
    BY <1>0, <1>24 DEF Receber, OrdemTemTentativa, Ativa
  <2>4. UmaMao'
    BY <1>0, <1>24 DEF Receber, UmaMao, Ativa
  <2> QED
    BY <1>0, <1>24, <2>1, <2>2, <2>3, <2>4, Quadro
      DEF Receber, SaqueInv, TypeOK, Nucleo
<1>25. ASSUME NEW h \in Ganchos, Confirmar(h)
      PROVE  SaqueInv'
  <2>1. TypeDinheiro'
    <3>1. gAlvo[h] \in Pedidos
      BY <1>0, <1>25 DEF TypeGancho
    <3>2. UNCHANGED dinheiro \/ Estornar(gAlvo[h])
      BY <1>25 DEF Confirmar, EncerrarComoFalha
    <3> QED BY <1>0, <3>1, <3>2, EstornarTipo, Quadro
  <2>2. TypeRegistro'
    BY <1>0, <1>25
      DEF Confirmar, EncerrarComoFalha, SelarFalha, TypeRegistro, Situacoes
  <2>3. TypeGancho'
    BY <1>0, <1>25 DEF Confirmar, GVai, TypeGancho
  <2>4. Cobrado'
    BY <1>0, <1>25
      DEF Confirmar, EncerrarComoFalha, SelarFalha, Aberta, Cobrado,
          TypeRegistro, Enviaveis, Estornar
  <2>5. PedidoNovo'
    BY <1>0, <1>25
      DEF Confirmar, EncerrarComoFalha, SelarFalha, Aberta, PedidoNovo,
          TypeRegistro, Enviaveis
  <2>6. FaseSabe'
    BY <1>0, <1>25
      DEF Confirmar, EncerrarComoFalha, Estornar, FaseSabe, TypeDinheiro,
          TypeWorker
  <2>7. ConcluidaSoPaga'
    <3>1. banco' = banco
      BY <1>25 DEF Confirmar
    <3> QED BY <1>0, <1>25, <3>1, ConfirmarFaz
          DEF EncerrarComoFalha, SelarFalha, ConcluidaSoPaga, TypeRegistro, TypeGancho
  <2>8. FalhaDevolve'
    BY <1>0, <1>25
      DEF Confirmar, EncerrarComoFalha, SelarFalha, Estornar, FalhaDevolve,
          TypeDinheiro, TypeRegistro
  <2>9. UmSaquePorReferencia'
    BY <1>0, <1>25
      DEF Confirmar, EncerrarComoFalha, SelarFalha, Aberta,
          UmSaquePorReferencia, Criados, TypeRegistro, Enviaveis
  <2> QED
    BY <1>0, <1>25, <2>1, <2>2, <2>3, <2>4, <2>5, <2>6, <2>7, <2>8,
       <2>9, Quadro
      DEF Confirmar, SaqueInv, TypeOK, Nucleo
<1>26. ASSUME NEW h \in Ganchos, Avisar(h)
      PROVE  SaqueInv'
  <2>1. TypeRegistro'
    BY <1>0, <1>26 DEF Avisar, TypeRegistro, TypeGancho
  <2>2. TypeGancho'
    BY <1>0, <1>26 DEF Avisar, GVai, TypeGancho
  <2> QED
    BY <1>0, <1>26, <2>1, <2>2, Quadro
      DEF Avisar, SaqueInv, TypeOK, Nucleo
<1>27. ASSUME NEW h \in Ganchos, CairGancho(h)
      PROVE  SaqueInv'
  <2>1. TypeGancho'
    BY <1>0, <1>27 DEF CairGancho, GVai, TypeGancho
  <2>2. TypeResto'
    BY <1>0, <1>27, SaqueAssumption DEF CairGancho, TypeResto
  <2> QED
    BY <1>0, <1>27, <2>1, <2>2, Quadro
      DEF CairGancho, SaqueInv, TypeOK, Nucleo
<1>28. ASSUME NEW s \in Pedidos, Conciliar(s)
      PROVE  SaqueInv'
  <2>1. TypeDinheiro'
    <3>1. UNCHANGED dinheiro \/ Estornar(s)
      BY <1>28 DEF Conciliar, EncerrarComoFalha
    <3> QED BY <1>0, <1>28, <3>1, EstornarTipo, Quadro
  <2>2. TypeRegistro'
    BY <1>0, <1>28
      DEF Conciliar, EncerrarComoFalha, SelarFalha, TypeRegistro, Situacoes
  <2>3. TypeResto'
    BY <1>0, <1>28 DEF Conciliar, TypeResto
  <2>4. Cobrado'
    BY <1>0, <1>28
      DEF Conciliar, Consultavel, EncerrarComoFalha, SelarFalha, Cobrado, TypeRegistro,
          Estornar
  <2>5. PedidoNovo'
    BY <1>0, <1>28
      DEF Conciliar, Consultavel, EncerrarComoFalha, SelarFalha, PedidoNovo, TypeRegistro
  <2>6. FaseSabe'
    BY <1>0, <1>28
      DEF Conciliar, EncerrarComoFalha, Estornar, FaseSabe, TypeDinheiro,
          TypeWorker
  <2>7. ConcluidaSoPaga'
    BY <1>0, <1>28
      DEF Conciliar, EncerrarComoFalha, SelarFalha, Consultavel, ConcluidaSoPaga,
          TypeRegistro
  <2>8. FalhaDevolve'
    BY <1>0, <1>28
      DEF Conciliar, EncerrarComoFalha, SelarFalha, Estornar, FalhaDevolve,
          TypeDinheiro, TypeRegistro
  <2>9. UmSaquePorReferencia'
    BY <1>0, <1>28
      DEF Conciliar, Consultavel, EncerrarComoFalha, SelarFalha, UmSaquePorReferencia,
          Criados, TypeRegistro
  <2> QED
    BY <1>0, <1>28, <2>1, <2>2, <2>3, <2>4, <2>5, <2>6, <2>7, <2>8, <2>9,
       Quadro
      DEF Conciliar, SaqueInv, TypeOK, Nucleo
<1>29. ASSUME NEW s \in Pedidos, AvisarConciliada(s)
      PROVE  SaqueInv'
  <2>1. TypeRegistro'
    BY <1>0, <1>29 DEF AvisarConciliada, TypeRegistro
  <2>2. TypeResto'
    BY <1>0, <1>29 DEF AvisarConciliada, TypeResto
  <2> QED
    BY <1>0, <1>29, <2>1, <2>2, Quadro
      DEF AvisarConciliada, SaqueInv, TypeOK, Nucleo
<1>30. ASSUME NEW s \in Pedidos, ReenfileirarOrfao(s)
      PROVE  SaqueInv'
  <2>1. TypeFila'
    BY <1>0, <1>30, SaqueAssumption DEF ReenfileirarOrfao, PorNaFila, TypeFila
  <2>2. TypeResto'
    BY <1>0, <1>30 DEF ReenfileirarOrfao, TypeResto
  <2> QED
    BY <1>0, <1>30, <2>1, <2>2, Quadro
      DEF ReenfileirarOrfao, SaqueInv, TypeOK, Nucleo
<1>31. CASE LerOrfaos
  <2>1. TypeResto'
    BY <1>0, <1>31 DEF LerOrfaos, TypeResto
  <2> QED
    BY <1>0, <1>31, <2>1, Quadro DEF LerOrfaos, SaqueInv, TypeOK, Nucleo
<1>32. CASE CairConciliacao
  <2>1. TypeResto'
    BY <1>0, <1>32, SaqueAssumption DEF CairConciliacao, TypeResto
  <2> QED
    BY <1>0, <1>32, <2>1, Quadro DEF CairConciliacao, SaqueInv, TypeOK, Nucleo
<1>33. ASSUME NEW r \in {"ok", "bloqueado", "provedorInativo"}, MudarRegras(r)
      PROVE  SaqueInv'
  <2>1. TypeResto'
    BY <1>0, <1>33, SaqueAssumption DEF MudarRegras, TypeResto
  <2> QED
    BY <1>0, <1>33, <2>1, Quadro DEF MudarRegras, SaqueInv, TypeOK, Nucleo
<1>34. CASE UNCHANGED vars
  BY <1>0, <1>34, Quadro DEF SaqueInv, TypeOK, Nucleo
<1> QED
  BY <1>1, <1>2, <1>3, <1>4, <1>5, <1>6, <1>7, <1>8, <1>9, <1>10, <1>11, <1>12,
     <1>13, <1>14, <1>15, <1>16, <1>17, <1>18, <1>19, <1>20, <1>21, <1>22,
     <1>23, <1>24, <1>25, <1>26, <1>27, <1>28, <1>29, <1>30, <1>31, <1>32,
     <1>33, <1>34
      DEF Next

(* The inductive invariant: an order that may be out has a live tentativa,  *)
(* a live tentativa keeps the other workers out, and each step knows what   *)
(* the liquidante was told.                                                 *)
THEOREM SaqueIntegro == Spec => []SaqueInv
<1>1. Init => SaqueInv
  BY InicioIntegro
<1>2. SaqueInv /\ [Next]_vars => SaqueInv'
  BY PassoMantem
<1> QED BY <1>1, <1>2, PTL DEF Spec

(* Every variable keeps its type; in particular a lock is held exactly     *)
(* while its job is active and no job counts more attempts than it has.     *)
THEOREM TiposDoSaque == Spec => []TypeOK
<1>1. SaqueInv => TypeOK
  BY DEF SaqueInv
<1> QED BY <1>1, SaqueIntegro, PTL

(* One PIX per withdrawal, whatever the jobs do: the claim of enviar bars   *)
(* a second order for any number of workers, stalls and retries.            *)
THEOREM NuncaDoisEnvios == Spec => []EnvioUnico
<1>1. SaqueInv => EnvioUnico
  BY DEF SaqueInv, Nucleo, EnviosContados, EnvioUnico
<1> QED BY <1>1, SaqueIntegro, PTL

(* CONCLUIDA is only given to a withdrawal whose order was paid, by the     *)
(* webhook handler and the sweep alike.                                     *)
THEOREM ConcluidaFoiPaga == Spec => []ConcluidaSoPaga
<1>1. SaqueInv => ConcluidaSoPaga
  BY DEF SaqueInv, Nucleo
<1> QED BY <1>1, SaqueIntegro, PTL

(* FALHA is only given to a withdrawal whose money is back.                 *)
THEOREM FalhaSempreDevolve == Spec => []FalhaDevolve
<1>1. SaqueInv => FalhaDevolve
  BY DEF SaqueInv, Nucleo
<1> QED BY <1>1, SaqueIntegro, PTL

(* Equal requests that race create one withdrawal between them.             *)
THEOREM UmaReferenciaUmSaque == Spec => []UmSaquePorReferencia
<1>1. SaqueInv => UmSaquePorReferencia
  BY DEF SaqueInv, Nucleo
<1> QED BY <1>1, SaqueIntegro, PTL

(* A refund is only posted while no order of the withdrawal can be paid.    *)
LEMMA PassoEstorna ==
  ASSUME SaqueInv, [Next]_vars, NEW t \in Pedidos,
         estornado'[t], ~estornado[t]
  PROVE  SemOrdemViva(t)
<1>0. /\ TypeDinheiro /\ TypeWorker /\ TypeGancho
      /\ OrdemTemTentativa /\ FaseSabe
  BY DEF SaqueInv, TypeOK, Nucleo
<1>1. ASSUME NEW s \in Pedidos, Estornar(s)
      PROVE  s = t
  BY <1>0, <1>1 DEF Estornar, TypeDinheiro
<1>2. \/ \E w \in Workers : EstornarRecusa(w) \/ Bloquear(w)
      \/ \E h \in Ganchos : Confirmar(h)
      \/ \E s \in Pedidos : Conciliar(s)
  <2>1. estornado' # estornado
    OBVIOUS
  <2> QED BY <2>1 DEF Next, PreChecar, Criar, Enfileirar, PerderEnfileirar,
       IniciarJob, Reivindicar, Postar, GuardarAceite, DesfazerTentativa,
       CongelarAmbiguo, SelarRecusa, SelarBloqueio, ErroInfra, CairWorker,
       Estagnar, RetentarAMao, Chegar, Perder, Pagar, Falhar, Devolver, Ordem,
       Receber, Avisar, CairGancho, AvisarConciliada, ReenfileirarOrfao,
       LerOrfaos, CairConciliacao, MudarRegras
<1>3. ASSUME NEW w \in Workers, EstornarRecusa(w)
      PROVE  SemOrdemViva(t)
  <2>1. alvo[w] \in Pedidos /\ Estornar(alvo[w])
    BY <1>0, <1>3 DEF EstornarRecusa, TypeWorker
  <2>2. alvo[w] = t
    BY <1>1, <2>1
  <2> QED BY <1>0, <1>3, <2>2 DEF EstornarRecusa, FaseSabe, SemOrdemViva
<1>4. ASSUME NEW w \in Workers, Bloquear(w)
      PROVE  SemOrdemViva(t)
  <2>1. alvo[w] \in Pedidos /\ Estornar(alvo[w]) /\ ~Ativa(alvo[w])
    BY <1>0, <1>4 DEF Bloquear, OrdemFora, TypeWorker
  <2>2. alvo[w] = t
    BY <1>1, <2>1
  <2> QED BY <1>0, <2>1, <2>2 DEF OrdemTemTentativa, SemOrdem, SemOrdemViva
<1>5. ASSUME NEW h \in Ganchos, Confirmar(h)
      PROVE  SemOrdemViva(t)
  <2>1. /\ gAlvo[h] \in Pedidos /\ Estornar(gAlvo[h])
        /\ banco[gAlvo[h]] \in {"falhou", "devolvido"}
    BY <1>0, <1>5 DEF Confirmar, Respostas, EncerrarComoFalha, TypeGancho
  <2>2. gAlvo[h] = t
    BY <1>1, <2>1
  <2> QED BY <2>1, <2>2 DEF SemOrdemViva
<1>6. ASSUME NEW s \in Pedidos, Conciliar(s)
      PROVE  SemOrdemViva(t)
  <2>1. Estornar(s) /\ banco[s] \in {"falhou", "devolvido"}
    BY <1>0, <1>6 DEF Conciliar, EncerrarComoFalha
  <2>2. s = t
    BY <1>1, <2>1
  <2> QED BY <2>1, <2>2 DEF SemOrdemViva
<1> QED BY <1>2, <1>3, <1>4, <1>5, <1>6

(* The worker, the webhook handler and the sweep refund a withdrawal only   *)
(* when its order cannot be paid any more.                                  *)
THEOREM EstornoNuncaComOrdemViva == Spec => EstornoSoSemOrdemViva
<1> DEFINE A == \A s \in Pedidos : estornado'[s] /\ ~estornado[s] => SemOrdemViva(s)
<1>1. SaqueInv /\ [Next]_vars => [A]_vars
  BY PassoEstorna
<1> QED BY <1>1, SaqueIntegro, PTL DEF Spec, EstornoSoSemOrdemViva

(* A sealed outcome stays as it is.                                         *)
LEMMA PassoFinal ==
  ASSUME SaqueInv, [Next]_vars, NEW t \in Pedidos, tx[t] \in Finais
  PROVE  tx'[t] = tx[t]
<1>0. TypeRegistro /\ TypeWorker /\ TypeGancho /\ PedidoNovo
  BY DEF SaqueInv, TypeOK, Nucleo
<1>1. tx[t] \notin Enviaveis /\ tx[t] # "ausente"
  BY DEF Finais, Enviaveis
<1>2. ASSUME NEW s \in Pedidos, SelarFalha(s)
      PROVE  tx'[t] = tx[t]
  BY <1>0, <1>1, <1>2 DEF SelarFalha, Aberta, TypeRegistro
<1>3. CASE UNCHANGED tx
  BY <1>3
<1>4. ASSUME NEW p \in Pedidos, Criar(p)
      PROVE  tx'[t] = tx[t]
  BY <1>0, <1>1, <1>4 DEF Criar, Replay, PedidoNovo, TypeRegistro
<1>5. ASSUME NEW w \in Workers, GuardarAceite(w)
      PROVE  tx'[t] = tx[t]
  BY <1>0, <1>1, <1>5 DEF GuardarAceite, Promovida, TypeRegistro
<1>6. ASSUME NEW w \in Workers, SelarRecusa(w) \/ SelarBloqueio(w)
      PROVE  tx'[t] = tx[t]
  BY <1>0, <1>2, <1>6 DEF SelarRecusa, SelarBloqueio, TypeWorker
<1>7. ASSUME NEW h \in Ganchos, Confirmar(h)
      PROVE  tx'[t] = tx[t]
  <2>1. \/ UNCHANGED tx
        \/ SelarFalha(gAlvo[h])
        \/ Aberta(gAlvo[h]) /\ tx' = [tx EXCEPT ![gAlvo[h]] = "CONCLUIDA"]
    BY <1>7 DEF Confirmar, EncerrarComoFalha
  <2> QED BY <1>0, <1>1, <1>2, <2>1 DEF Aberta, TypeGancho, TypeRegistro
<1>8. ASSUME NEW s \in Pedidos, Conciliar(s)
      PROVE  tx'[t] = tx[t]
  <2>1. \/ UNCHANGED tx
        \/ SelarFalha(s)
        \/ tx[s] = "PROCESSANDO" /\ tx' = [tx EXCEPT ![s] = "CONCLUIDA"]
    BY <1>8 DEF Conciliar, Consultavel, EncerrarComoFalha
  <2> QED BY <1>0, <1>1, <1>2, <2>1 DEF Enviaveis, TypeRegistro
<1> QED BY <1>3, <1>4, <1>5, <1>6, <1>7, <1>8 DEF Next, PreChecar, Replay,
     Enfileirar, PerderEnfileirar, IniciarJob, Reivindicar, Postar,
     DesfazerTentativa, CongelarAmbiguo, EstornarRecusa, Bloquear, ErroInfra,
     CairWorker, Estagnar, RetentarAMao, Chegar, Perder, Pagar, Falhar,
     Devolver, Ordem, Receber, Avisar, CairGancho, AvisarConciliada,
     ReenfileirarOrfao, LerOrfaos, CairConciliacao, MudarRegras

(* CONCLUIDA and FALHA are final, whichever of worker, webhook handler and  *)
(* sweep comes last.                                                        *)
THEOREM FinalEFinal == Spec => FinalNaoRegride
<1> DEFINE A == \A s \in Pedidos : tx[s] \in Finais => tx'[s] = tx[s]
<1>1. SaqueInv /\ [Next]_vars => [A]_vars
  BY PassoFinal
<1> QED BY <1>1, SaqueIntegro, PTL DEF Spec, FinalNaoRegride

(* Announcements, step by step.  A handler that announces now announced     *)
(* before and of the same withdrawal, unless it concludes one.              *)
SoSai ==
  /\ aviso' \subseteq aviso
  /\ \A h \in Ganchos :
       gFase'[h] = "avisar" => gFase[h] = "avisar" /\ gAlvo'[h] = gAlvo[h]

LEMMA AvisoSemDesfecho ==
  ASSUME AvisoInv, UNCHANGED <<tx, avisos>>, SoSai
  PROVE  AvisoInv'
BY DEF AvisoInv, AvisosContados, AvisosDevidos, AvisoDevido, SoSai

LEMMA AvisoAberta ==
  ASSUME SaqueInv, AvisoInv, NEW s \in Pedidos, tx[s] \notin Finais,
         tx' = [tx EXCEPT ![s] = "PROCESSANDO"], UNCHANGED avisos, SoSai
  PROVE  AvisoInv'
<1>1. tx \in [Pedidos -> Situacoes] /\ gAlvo \in [Ganchos -> Pedidos] /\ aviso \subseteq Pedidos
  BY DEF SaqueInv, TypeOK, TypeRegistro, TypeGancho, TypeResto
<1>2. AvisosContados'
  BY <1>1 DEF AvisoInv, AvisosContados, Finais
<1>3. \A t \in Pedidos : AvisoDevido(t) => AvisoDevido(t)'
  BY <1>1 DEF AvisoDevido, Finais
<1>4. AvisosDevidos'
  BY <1>1, <1>3 DEF AvisoInv, AvisosDevidos, SoSai
<1> QED BY <1>2, <1>4 DEF AvisoInv

LEMMA AvisoFalha ==
  ASSUME SaqueInv, AvisoInv, NEW s \in Pedidos, SelarFalha(s), UNCHANGED avisoOk, SoSai
  PROVE  AvisoInv'
<1>1. /\ tx \in [Pedidos -> Situacoes] /\ avisoFalha \in [Pedidos -> Nat]
      /\ gAlvo \in [Ganchos -> Pedidos] /\ aviso \subseteq Pedidos
  BY DEF SaqueInv, TypeOK, TypeRegistro, TypeGancho, TypeResto
<1>2. CASE UNCHANGED <<tx, avisoFalha>>
  BY <1>2, AvisoSemDesfecho
<1>3. CASE /\ tx[s] = "PROCESSANDO"
           /\ tx' = [tx EXCEPT ![s] = "FALHA"]
           /\ avisoFalha' = [avisoFalha EXCEPT ![s] = @ + 1]
  <2>1. avisoFalha[s] = 0 /\ avisoOk[s] = 0
    BY <1>3 DEF AvisoInv, AvisosContados, Finais
  <2>2. AvisosContados'
    BY <1>1, <1>3, <2>1 DEF AvisoInv, AvisosContados, Finais
  <2>3. \A t \in Pedidos : AvisoDevido(t) => AvisoDevido(t)'
    BY <1>1, <1>3 DEF AvisoDevido
  <2>4. AvisosDevidos'
    BY <1>1, <2>3 DEF AvisoInv, AvisosDevidos, SoSai
  <2> QED BY <2>2, <2>4 DEF AvisoInv
<1> QED BY <1>2, <1>3 DEF SelarFalha, Aberta, Enviaveis

(* CONCLUIDA: the outcome is committed, its announcement is owed.           *)
LEMMA AvisoConclui ==
  ASSUME SaqueInv, AvisoInv, NEW s \in Pedidos, tx[s] = "PROCESSANDO",
         tx' = [tx EXCEPT ![s] = "CONCLUIDA"], UNCHANGED avisos
  PROVE  /\ AvisosContados'
         /\ \A t \in Pedidos : AvisoDevido(t) \/ t = s => AvisoDevido(t)'
         /\ s \notin aviso /\ \A h \in Ganchos : gFase[h] = "avisar" => gAlvo[h] # s
<1>1. tx \in [Pedidos -> Situacoes]
  BY DEF SaqueInv, TypeOK, TypeRegistro
<1> QED BY <1>1 DEF AvisoInv, AvisosContados, AvisosDevidos, AvisoDevido, Finais

LEMMA AvisoConfirmar ==
  ASSUME SaqueInv, AvisoInv, NEW h \in Ganchos, Confirmar(h)
  PROVE  AvisoInv'
<1> DEFINE s == gAlvo[h]
<1>1. /\ s \in Pedidos /\ gFase \in [Ganchos -> {"livre", "confirmar", "avisar"}]
      /\ gAlvo \in [Ganchos -> Pedidos] /\ aviso \subseteq Pedidos
  BY DEF SaqueInv, TypeOK, TypeGancho, TypeResto
<1>2. UNCHANGED <<avisoOk, varredura, gAlvo>>
  BY DEF Confirmar, GVai, EncerrarComoFalha, SelarFalha
<1>3. CASE gFase' = [gFase EXCEPT ![h] = "livre"] /\ UNCHANGED <<tx, avisoFalha>>
  BY <1>1, <1>2, <1>3, AvisoSemDesfecho DEF SoSai
<1>4. CASE gFase' = [gFase EXCEPT ![h] = "livre"] /\ SelarFalha(s)
  <2>1. SoSai
    BY <1>1, <1>2, <1>4 DEF SoSai
  <2> QED BY <1>1, <1>2, <1>4, <2>1, AvisoFalha
<1>5. CASE /\ tx[s] = "PROCESSANDO" /\ tx' = [tx EXCEPT ![s] = "CONCLUIDA"]
           /\ gFase' = [gFase EXCEPT ![h] = "avisar"] /\ UNCHANGED avisoFalha
  <2>1. /\ AvisosContados'
        /\ \A t \in Pedidos : AvisoDevido(t) \/ t = s => AvisoDevido(t)'
        /\ s \notin aviso /\ \A g \in Ganchos : gFase[g] = "avisar" => gAlvo[g] # s
    <3> HIDE DEF s
    <3> QED BY <1>1, <1>2, <1>5, AvisoConclui
  <2>2. AvisosDevidos'
    BY <1>1, <1>2, <1>5, <2>1 DEF AvisoInv, AvisosDevidos
  <2> QED BY <2>1, <2>2 DEF AvisoInv
<1> QED BY <1>3, <1>4, <1>5 DEF Confirmar, GVai, EncerrarComoFalha, SelarFalha,
     Aberta, Enviaveis

LEMMA AvisoConciliar ==
  ASSUME SaqueInv, AvisoInv, NEW s \in Pedidos, Conciliar(s)
  PROVE  AvisoInv'
<1>1. gAlvo \in [Ganchos -> Pedidos] /\ UNCHANGED <<avisoOk, gancho>>
  BY DEF SaqueInv, TypeOK, TypeGancho, Conciliar
<1>2. CASE UNCHANGED <<tx, avisoFalha, aviso>>
  BY <1>1, <1>2, AvisoSemDesfecho DEF SoSai
<1>3. CASE UNCHANGED aviso /\ SelarFalha(s)
  BY <1>1, <1>3, AvisoFalha DEF SoSai
<1>4. CASE /\ tx[s] = "PROCESSANDO" /\ tx' = [tx EXCEPT ![s] = "CONCLUIDA"]
           /\ aviso = {} /\ aviso' = {s} /\ UNCHANGED avisoFalha
  <2>1. /\ AvisosContados'
        /\ \A t \in Pedidos : AvisoDevido(t) \/ t = s => AvisoDevido(t)'
        /\ \A g \in Ganchos : gFase[g] = "avisar" => gAlvo[g] # s
    BY <1>1, <1>4, AvisoConclui
  <2>2. AvisosDevidos'
    BY <1>1, <1>4, <2>1 DEF AvisoInv, AvisosDevidos
  <2> QED BY <2>1, <2>2 DEF AvisoInv
<1> QED BY <1>2, <1>3, <1>4 DEF Conciliar, Consultavel, EncerrarComoFalha, SelarFalha

LEMMA AvisoDado ==
  ASSUME SaqueInv, AvisoInv, NEW s \in Pedidos, AvisoDevido(s),
         avisoOk' = [avisoOk EXCEPT ![s] = @ + 1], UNCHANGED <<tx, avisoFalha>>, SoSai,
         s \notin aviso', \A h \in Ganchos : gFase'[h] = "avisar" => gAlvo'[h] # s
  PROVE  AvisoInv'
<1>1. /\ tx \in [Pedidos -> Situacoes] /\ avisoOk \in [Pedidos -> Nat]
      /\ gAlvo \in [Ganchos -> Pedidos] /\ aviso \subseteq Pedidos
  BY DEF SaqueInv, TypeOK, TypeRegistro, TypeGancho, TypeResto
<1>2. AvisosContados'
  BY <1>1 DEF AvisoInv, AvisosContados, AvisoDevido, Finais
<1>3. \A t \in Pedidos \ {s} : AvisoDevido(t) => AvisoDevido(t)'
  BY <1>1 DEF AvisoDevido
<1>4. AvisosDevidos'
  BY <1>1, <1>3 DEF AvisoInv, AvisosDevidos, SoSai
<1> QED BY <1>2, <1>4 DEF AvisoInv

LEMMA AvisoPasso ==
  ASSUME SaqueInv, AvisoInv, [Next]_vars
  PROVE  AvisoInv'
<1>0. /\ TypeRegistro /\ TypeWorker /\ TypeGancho /\ TypeResto /\ PedidoNovo
  BY DEF SaqueInv, TypeOK, Nucleo
<1>1. CASE UNCHANGED <<tx, avisos, gFase, gAlvo, aviso>>
  BY <1>1, AvisoSemDesfecho DEF SoSai
<1>2. ASSUME NEW p \in Pedidos, Criar(p)
      PROVE  AvisoInv'
  <2>1. \/ UNCHANGED <<tx, avisos, gancho, varredura>>
        \/ /\ tx' = [tx EXCEPT ![p] = "PROCESSANDO"] /\ tx[p] = "ausente"
           /\ UNCHANGED <<avisos, gancho, varredura>>
    BY <1>0, <1>2 DEF Criar, Replay, PedidoNovo
  <2>2. SoSai
    BY <2>1 DEF SoSai
  <2> QED BY <2>1, <2>2, AvisoSemDesfecho, AvisoAberta DEF Finais
<1>3. ASSUME NEW w \in Workers, GuardarAceite(w)
      PROVE  AvisoInv'
  <2>1. alvo[w] \in Pedidos
    BY <1>0 DEF TypeWorker
  <2>2. SoSai /\ UNCHANGED avisos
    BY <1>3 DEF GuardarAceite, SoSai
  <2>3. \/ UNCHANGED tx
        \/ tx' = [tx EXCEPT ![alvo[w]] = "PROCESSANDO"] /\ tx[alvo[w]] \notin Finais
    BY <1>3 DEF GuardarAceite, Promovida, Enviaveis, Finais
  <2> QED BY <2>1, <2>2, <2>3, AvisoSemDesfecho, AvisoAberta
<1>4. ASSUME NEW w \in Workers, SelarRecusa(w) \/ SelarBloqueio(w)
      PROVE  AvisoInv'
  <2>1. alvo[w] \in Pedidos /\ SelarFalha(alvo[w]) /\ UNCHANGED avisoOk
    BY <1>0, <1>4 DEF SelarRecusa, SelarBloqueio, TypeWorker
  <2>2. SoSai
    BY <1>4 DEF SelarRecusa, SelarBloqueio, SoSai
  <2> QED BY <2>1, <2>2, AvisoFalha
<1>5. ASSUME NEW h \in Ganchos, NEW s \in Pedidos, NEW e \in {"PAID", "outro"},
             Receber(h, s, e)
      PROVE  AvisoInv'
  <2>1. SoSai
    BY <1>0, <1>5 DEF Receber, SoSai, TypeGancho
  <2> QED BY <1>5, <2>1, AvisoSemDesfecho DEF Receber
<1>6. ASSUME NEW h \in Ganchos, CairGancho(h)
      PROVE  AvisoInv'
  <2>1. SoSai
    BY <1>0, <1>6 DEF CairGancho, GVai, SoSai, TypeGancho
  <2> QED BY <1>6, <2>1, AvisoSemDesfecho DEF CairGancho
<1>7. CASE CairConciliacao
  BY <1>7, AvisoSemDesfecho DEF CairConciliacao, SoSai
<1>8. ASSUME NEW h \in Ganchos, Avisar(h)
      PROVE  AvisoInv'
  <2>1. gAlvo[h] \in Pedidos /\ UNCHANGED <<tx, avisoFalha, gAlvo, aviso>>
    BY <1>0, <1>8 DEF Avisar, GVai, TypeGancho
  <2>2. SoSai
    BY <1>0, <1>8 DEF Avisar, GVai, SoSai, TypeGancho
  <2>3. /\ AvisoDevido(gAlvo[h]) /\ gAlvo[h] \notin aviso'
        /\ \A g \in Ganchos : gFase'[g] = "avisar" => gAlvo'[g] # gAlvo[h]
    BY <1>0, <1>8 DEF Avisar, GVai, AvisoInv, AvisosDevidos, TypeGancho
  <2>4. avisoOk' = [avisoOk EXCEPT ![gAlvo[h]] = @ + 1]
    BY <1>8 DEF Avisar
  <2> QED BY <2>1, <2>2, <2>3, <2>4, AvisoDado
<1>9. ASSUME NEW s \in Pedidos, AvisarConciliada(s)
      PROVE  AvisoInv'
  <2>1. SoSai /\ UNCHANGED <<tx, avisoFalha>> /\ s \notin aviso'
    BY <1>9 DEF AvisarConciliada, SoSai
  <2>2. /\ AvisoDevido(s)
        /\ \A g \in Ganchos : gFase'[g] = "avisar" => gAlvo'[g] # s
    BY <1>9 DEF AvisarConciliada, AvisoInv, AvisosDevidos
  <2>3. avisoOk' = [avisoOk EXCEPT ![s] = @ + 1]
    BY <1>9 DEF AvisarConciliada
  <2> QED BY <2>1, <2>2, <2>3, AvisoDado
<1>10. \/ UNCHANGED <<tx, avisos, gFase, gAlvo, aviso>>
       \/ \E p \in Pedidos : Criar(p)
       \/ \E w \in Workers : GuardarAceite(w) \/ SelarRecusa(w) \/ SelarBloqueio(w)
       \/ \E h \in Ganchos : \/ \E s \in Pedidos, e \in {"PAID", "outro"} : Receber(h, s, e)
                             \/ Confirmar(h) \/ Avisar(h) \/ CairGancho(h)
       \/ \E s \in Pedidos : Conciliar(s) \/ AvisarConciliada(s)
       \/ CairConciliacao
  BY DEF Next, PreChecar, Replay, Enfileirar, PerderEnfileirar, IniciarJob,
     Reivindicar, Postar, DesfazerTentativa, CongelarAmbiguo, EstornarRecusa,
     Bloquear, ErroInfra, CairWorker, Estagnar, RetentarAMao, Chegar, Perder,
     Pagar, Falhar, Devolver, Ordem, ReenfileirarOrfao, LerOrfaos, MudarRegras
<1> QED BY <1>1, <1>2, <1>3, <1>4, <1>5, <1>6, <1>7, <1>8, <1>9, <1>10,
     AvisoConfirmar, AvisoConciliar

LEMMA AvisoComeca ==
  ASSUME Init
  PROVE  AvisoInv
BY DEF Init, AvisoInv, AvisosContados, AvisosDevidos, Finais

(* An outcome is announced in its own commit (FALHA) or owes its            *)
(* announcement to one handler or to the sweep (CONCLUIDA): the merchant     *)
(* hears one outcome, the right one, and once.                              *)
THEOREM UmAvisoPorDesfecho == Spec => []UmDesfechoAvisado
<1>1. Init => AvisoInv
  BY AvisoComeca
<1>2. SaqueInv /\ AvisoInv /\ [Next]_vars => AvisoInv'
  BY AvisoPasso
<1>3. SaqueInv /\ AvisoInv => UmDesfechoAvisado
  <2> SUFFICES ASSUME SaqueInv, AvisoInv, NEW s \in Pedidos
               PROVE  /\ avisoOk[s] + avisoFalha[s] <= 1
                      /\ avisoOk[s] > 0 => tx[s] = "CONCLUIDA"
                      /\ avisoFalha[s] > 0 => tx[s] = "FALHA"
    BY DEF UmDesfechoAvisado
  <2>1. avisoOk[s] \in Nat /\ avisoFalha[s] \in Nat
    BY DEF SaqueInv, TypeOK, TypeRegistro
  <2> QED BY <2>1 DEF AvisoInv, AvisosContados, Finais
<1> QED BY <1>1, <1>2, <1>3, SaqueIntegro, PTL DEF Spec

(* Only the start of a job lets a withdrawal past the limit; in every other *)
(* step the set of those that passed stays or shrinks.                      *)
LEMMA PassouSoNoInicio ==
  ASSUME SaqueInv, [Next]_vars, NEW s \in Pedidos, s \in Passou', s \notin Passou
  PROVE  \E w \in Workers : IniciarJob(w, s) /\ tx[s] \in Enviaveis /\ ~Bloqueado(s)
<1>0. /\ fase \in [Workers -> FasesWorker] /\ alvo \in [Workers -> Pedidos]
      /\ banco \in [Pedidos -> Ordens] /\ envios \in [Pedidos -> Nat]
      /\ EnviosContados
  BY DEF SaqueInv, TypeOK, TypeLiquid, TypeWorker, Nucleo
<1>1. /\ envios[s] = 0
      /\ \A w \in Workers : alvo[w] = s => fase[w] \notin Mao \cup {"claim"}
  BY <1>0 DEF Passou
<1>2. \/ envios'[s] # 0
      \/ \E w \in Workers : alvo'[w] = s /\ fase'[w] \in Mao \cup {"claim"}
  BY DEF Passou
<1>3. ASSUME NEW w \in Workers, NEW f \in FasesWorker, Vai(w, f), UNCHANGED liquid,
             f \in Mao => fase[w] \in Mao \cup {"claim"}, f # "claim"
      PROVE  FALSE
  BY <1>0, <1>1, <1>2, <1>3 DEF Vai
<1>4. ASSUME NEW w \in Workers, NEW t \in Pedidos, IniciarJob(w, t)
      PROVE  t = s /\ tx[s] \in Enviaveis /\ ~Bloqueado(s)
  BY <1>0, <1>1, <1>2, <1>4 DEF IniciarJob, Mao
<1>5. ASSUME NEW w \in Workers, Postar(w)
      PROVE  FALSE
  <2>1. fase[w] = "postar" /\ alvo[w] # s
    BY <1>1, <1>5 DEF Postar, Mao
  <2>2. envios'[s] = envios[s]
    BY <1>0, <1>5, <2>1 DEF Postar
  <2>3. UNCHANGED alvo /\ \A v \in Workers \ {w} : fase'[v] = fase[v]
    BY <1>0, <1>5 DEF Postar, Vai
  <2> QED BY <1>1, <1>2, <2>1, <2>2, <2>3
<1>6. ASSUME NEW w \in Workers, \/ Reivindicar(w) \/ GuardarAceite(w) \/ DesfazerTentativa(w)
                                \/ CongelarAmbiguo(w) \/ EstornarRecusa(w) \/ SelarRecusa(w)
                                \/ Bloquear(w) \/ SelarBloqueio(w) \/ ErroInfra(w) \/ CairWorker(w)
      PROVE  FALSE
  <2>1. UNCHANGED liquid
    BY <1>6 DEF Reivindicar, GuardarAceite, DesfazerTentativa, CongelarAmbiguo,
       EstornarRecusa, SelarRecusa, Bloquear, SelarBloqueio, ErroInfra, CairWorker
  <2>2. \/ Vai(w, "livre") \/ Vai(w, "bloqueio") \/ Vai(w, "seloBloqueio")
        \/ fase[w] = "claim" /\ Vai(w, "postar")
        \/ fase[w] = "recusa" /\ Vai(w, "seloRecusa")
    BY <1>6 DEF Reivindicar, GuardarAceite, DesfazerTentativa, CongelarAmbiguo,
       EstornarRecusa, SelarRecusa, Bloquear, SelarBloqueio, ErroInfra, CairWorker
  <2>3. {"livre", "bloqueio", "seloBloqueio", "postar", "seloRecusa"} \subseteq FasesWorker
    BY DEF FasesWorker
  <2>4. CASE Vai(w, "livre")
    BY <1>3, <2>1, <2>3, <2>4 DEF Mao
  <2>5. CASE Vai(w, "bloqueio")
    BY <1>3, <2>1, <2>3, <2>5 DEF Mao
  <2>6. CASE Vai(w, "seloBloqueio")
    BY <1>3, <2>1, <2>3, <2>6 DEF Mao
  <2>7. CASE fase[w] = "claim" /\ Vai(w, "postar")
    BY <1>3, <2>1, <2>3, <2>7 DEF Mao
  <2>8. CASE fase[w] = "recusa" /\ Vai(w, "seloRecusa")
    BY <1>3, <2>1, <2>3, <2>8 DEF Mao
  <2> QED BY <2>2, <2>4, <2>5, <2>6, <2>7, <2>8
<1>7. ASSUME UNCHANGED <<worker, liquid>>
      PROVE  FALSE
  BY <1>1, <1>2, <1>7
<1>8. ASSUME NEW t \in Pedidos, Chegar(t) \/ Perder(t) \/ Pagar(t) \/ Falhar(t) \/ Devolver(t)
      PROVE  FALSE
  <2>1. UNCHANGED worker
    BY <1>8 DEF Chegar, Perder, Pagar, Falhar, Devolver, Ordem
  <2>2. CASE UNCHANGED envios
    BY <1>1, <1>2, <2>1, <2>2
  <2>3. CASE Perder(t)
    <3>1. envios[t] = 1
      BY <1>0, <2>3 DEF Perder, Ordem, EnviosContados, SemOrdem
    <3>2. envios'[s] = envios[s]
      BY <1>0, <1>1, <2>3, <3>1 DEF Perder
    <3> QED BY <1>1, <1>2, <2>1, <3>2
  <2> QED BY <1>8, <2>2, <2>3 DEF Chegar, Pagar, Falhar, Devolver
<1> QED BY <1>4, <1>5, <1>6, <1>7, <1>8
      DEF Next, PreChecar, Criar, Enfileirar, PerderEnfileirar, Estagnar, RetentarAMao,
          Receber, Confirmar, GVai, Avisar, CairGancho, Conciliar, AvisarConciliada,
          ReenfileirarOrfao, LerOrfaos, CairConciliacao, MudarRegras

(* No step deletes the row of a withdrawal.                                 *)
LEMMA LinhaFica ==
  ASSUME SaqueInv, [Next]_vars
  PROVE  Criados \subseteq Criados'
<1>0. TypeRegistro /\ TypeWorker /\ TypeGancho
  BY DEF SaqueInv, TypeOK
<1>1. ASSUME NEW s \in Pedidos, tx[s] # "ausente"
      PROVE  tx'[s] # "ausente"
  <2>1. CASE UNCHANGED tx
    BY <1>1, <2>1
  <2>2. ASSUME NEW p \in Pedidos, Criar(p)
        PROVE  tx'[s] # "ausente"
    BY <1>0, <1>1, <2>2 DEF Criar, Replay, TypeRegistro
  <2>3. ASSUME NEW w \in Workers, GuardarAceite(w) \/ SelarRecusa(w) \/ SelarBloqueio(w)
        PROVE  tx'[s] # "ausente"
    BY <1>0, <1>1, <2>3
      DEF GuardarAceite, Promovida, SelarRecusa, SelarBloqueio, SelarFalha, TypeRegistro
  <2>4. ASSUME NEW h \in Ganchos, Confirmar(h)
        PROVE  tx'[s] # "ausente"
    <3>1. UNCHANGED tx \/ SelarFalha(gAlvo[h]) \/ tx' = [tx EXCEPT ![gAlvo[h]] = "CONCLUIDA"]
      BY <2>4 DEF Confirmar, EncerrarComoFalha
    <3> QED BY <1>0, <1>1, <3>1 DEF SelarFalha, TypeRegistro
  <2>5. ASSUME NEW t \in Pedidos, Conciliar(t)
        PROVE  tx'[s] # "ausente"
    <3>1. UNCHANGED tx \/ SelarFalha(t) \/ tx' = [tx EXCEPT ![t] = "CONCLUIDA"]
      BY <2>5 DEF Conciliar, EncerrarComoFalha
    <3> QED BY <1>0, <1>1, <3>1 DEF SelarFalha, TypeRegistro
  <2> QED BY <2>1, <2>2, <2>3, <2>4, <2>5
        DEF Next, PreChecar, Replay, Enfileirar, PerderEnfileirar, IniciarJob, Reivindicar,
            Postar, DesfazerTentativa, CongelarAmbiguo, EstornarRecusa, Bloquear,
            ErroInfra, CairWorker, Estagnar, RetentarAMao, Chegar, Perder, Pagar, Falhar,
            Devolver, Ordem, Receber, Avisar, CairGancho, AvisarConciliada,
            ReenfileirarOrfao, LerOrfaos, CairConciliacao, MudarRegras
<1> QED BY <1>1 DEF Criados

LEMMA LimitePasso ==
  ASSUME SaqueInv, LimiteInv, [Next]_vars
  PROVE  LimiteInv'
<1>0. /\ Passou \subseteq Criados /\ SumFunctionOnSet(Valor, Passou) <= Limite
      /\ Criados \subseteq Criados' /\ Criados \subseteq Pedidos /\ Passou' \subseteq Pedidos
  BY LinhaFica DEF LimiteInv, Passou, Criados
<1>1. IsFiniteSet(Pedidos) /\ (\A s \in Pedidos : Valor[s] \in Nat) /\ Limite \in Nat
  BY SaqueAssumption
<1>2. IsFiniteSet(Passou) /\ IsFiniteSet(Criados) /\ IsFiniteSet(Passou')
  BY <1>0, <1>1, FS_Subset
<1>3. CASE Passou' \subseteq Passou
  <2>1. SumFunctionOnSet(Valor, Passou') <= SumFunctionOnSet(Valor, Passou)
    BY <1>0, <1>1, <1>2, <1>3, SomaCresce
  <2>2. /\ SumFunctionOnSet(Valor, Passou') \in Nat
        /\ SumFunctionOnSet(Valor, Passou) \in Nat
    BY <1>0, <1>1, <1>2, SomaNatural
  <2>3. SumFunctionOnSet(Valor, Passou') <= Limite
    BY <1>0, <1>1, <2>1, <2>2
  <2>4. Passou' \subseteq Criados'
    BY <1>0, <1>3
  <2> QED BY <2>3, <2>4 DEF LimiteInv
<1>4. ASSUME NEW s \in Pedidos, s \in Passou', s \notin Passou
      PROVE  LimiteInv'
  <2>1. PICK w \in Workers : IniciarJob(w, s) /\ tx[s] \in Enviaveis /\ ~Bloqueado(s)
    BY <1>4, PassouSoNoInicio
  <2>2. s \in Criados
    BY <2>1 DEF Criados, Enviaveis
  <2>3. \A t \in Passou' : t \in Passou \/ t = s
    <3>1. SUFFICES ASSUME NEW t \in Passou', t \notin Passou PROVE t = s
      OBVIOUS
    <3>2. PICK v \in Workers : IniciarJob(v, t)
      BY <1>0, <3>1, PassouSoNoInicio
    <3>3. job[s] = "espera" /\ job'[s] = "ativo" /\ job \in [Pedidos -> {"nenhum", "espera", "ativo", "completo", "falho"}]
      BY <2>1 DEF IniciarJob, SaqueInv, TypeOK, TypeFila
    <3> QED BY <1>0, <3>2, <3>3 DEF IniciarJob
  <2>4. Passou' \subseteq Criados
    BY <1>0, <2>2, <2>3
  <2>5. /\ SumFunctionOnSet(Valor, Passou') <= SumFunctionOnSet(Valor, Criados)
        /\ SumFunctionOnSet(Valor, Criados) = Valor[s] + SumFunctionOnSet(Valor, Criados \ {s})
    BY <1>0, <1>1, <1>2, <2>2, <2>4, SomaCresce, SomaSeparada
  <2>6. /\ SumFunctionOnSet(Valor, Passou') \in Nat
        /\ SumFunctionOnSet(Valor, Criados) \in Nat
        /\ SumFunctionOnSet(Valor, Criados \ {s}) \in Nat
    <3>1. IsFiniteSet(Criados \ {s})
      BY <1>2, FS_Subset
    <3> QED BY <1>0, <1>1, <1>2, <3>1, SomaNatural
  <2>7. ~(SumFunctionOnSet(Valor, Criados \ {s}) + Valor[s] > Limite)
    BY <2>1 DEF Bloqueado, UsadoHoje
  <2>8. SumFunctionOnSet(Valor, Passou') <= Limite
    BY <1>1, <2>5, <2>6, <2>7
  <2> QED BY <1>0, <2>4, <2>8 DEF LimiteInv
<1> QED BY <1>0, <1>3, <1>4

(* limiteDiarioPixSaida holds of what is sent, for any number of requests    *)
(* that were checked at once: revalidar counts every withdrawal of the day, *)
(* and no other step lets one past.                                         *)
THEOREM LimiteNaoPassa == Spec => []LimiteRespeitado
<1>1. Init => LimiteInv
  <2> SUFFICES ASSUME Init PROVE LimiteInv
    OBVIOUS
  <2>1. Passou = {}
    BY DEF Init, Passou, Mao
  <2> QED BY <2>1, SomaVazia, SaqueAssumption DEF LimiteInv
<1>2. SaqueInv /\ LimiteInv /\ [Next]_vars => LimiteInv'
  BY LimitePasso
<1>3. SaqueInv /\ LimiteInv => LimiteRespeitado
  <2> SUFFICES ASSUME SaqueInv, LimiteInv PROVE LimiteRespeitado
    OBVIOUS
  <2> DEFINE E == {s \in Pedidos : envios[s] > 0}
  <2>1. IsFiniteSet(Passou) /\ IsFiniteSet(E) /\ E \subseteq Passou
    <3>1. E \subseteq Pedidos /\ Passou \subseteq Pedidos /\ E \subseteq Passou
      BY DEF Passou
    <3> QED BY <3>1, SaqueAssumption, FS_Subset
  <2>2. \A s \in Passou : Valor[s] \in Nat
    BY SaqueAssumption DEF Passou
  <2>3. Limite \in Nat /\ SumFunctionOnSet(Valor, Passou) <= Limite
    BY SaqueAssumption DEF LimiteInv
  <2>4. SumFunctionOnSet(Valor, E) <= Limite
    <3> HIDE DEF E
    <3>1. SumFunctionOnSet(Valor, E) <= SumFunctionOnSet(Valor, Passou)
      BY <2>1, <2>2, SomaCresce
    <3>2. SumFunctionOnSet(Valor, E) \in Nat /\ SumFunctionOnSet(Valor, Passou) \in Nat
      BY <2>1, <2>2, SomaNatural
    <3> QED BY <2>3, <3>1, <3>2
  <2> QED BY <2>4 DEF LimiteRespeitado
<1> QED BY <1>1, <1>2, <1>3, SaqueIntegro, PTL DEF Spec

(* Nothing dies and no lock expires: a job at work stays with its worker.   *)
LEMMA JobNasMaosPasso ==
  ASSUME MaxQuedas = 0, ~PerdeTrava, SaqueInv, JobNasMaos, [Next]_vars
  PROVE  JobNasMaos'
<1>0. /\ TypeFila /\ fase \in [Workers -> FasesWorker] /\ alvo \in [Workers -> Pedidos]
      /\ ~(quedas < MaxQuedas)
  BY DEF SaqueInv, TypeOK, TypeWorker, TypeResto
<1>1. CASE UNCHANGED <<worker, job, dono>>
  BY <1>1 DEF JobNasMaos, Segura
<1>2. ASSUME NEW s \in Pedidos, PorNaFila(s), UNCHANGED worker
      PROVE  JobNasMaos'
  BY <1>0, <1>2 DEF PorNaFila, JobNasMaos, Segura, TypeFila
<1>3. ASSUME NEW w \in Workers, NEW s \in Pedidos, IniciarJob(w, s)
      PROVE  JobNasMaos'
  BY <1>0, <1>3 DEF IniciarJob, JobNasMaos, Segura, TypeFila
<1>4. ASSUME NEW w \in Workers, NEW j, Vai(w, "livre"), JobVai(w, alvo[w], j)
      PROVE  JobNasMaos'
  BY <1>0, <1>4 DEF Vai, JobVai, JobNasMaos, Segura, TypeFila
<1>5. ASSUME NEW w \in Workers, fase[w] # "livre", NEW f, Vai(w, f), UNCHANGED <<job, dono>>
      PROVE  JobNasMaos'
  BY <1>0, <1>5 DEF Vai, JobNasMaos, Segura
<1>6. ASSUME NEW s \in Pedidos, Estagnar(s)
      PROVE  JobNasMaos'
  BY <1>0, <1>6 DEF Estagnar, NasMaos, JobNasMaos, Segura, TypeFila
<1>7. ASSUME NEW s \in Pedidos, RetentarAMao(s)
      PROVE  JobNasMaos'
  BY <1>0, <1>7 DEF RetentarAMao, JobNasMaos, Segura, TypeFila
<1>8. ASSUME NEW p \in Pedidos, Enfileirar(p)
      PROVE  JobNasMaos'
  <2>1. apiAlvo[p] \in Pedidos
    BY DEF SaqueInv, TypeOK, TypePedido
  <2> QED BY <1>2, <1>8, <2>1 DEF Enfileirar
<1>9. ASSUME NEW s \in Pedidos, ReenfileirarOrfao(s)
      PROVE  JobNasMaos'
  BY <1>2, <1>9 DEF ReenfileirarOrfao
<1>10. ASSUME NEW w \in Workers, \/ Reivindicar(w) \/ Postar(w) \/ GuardarAceite(w)
                                 \/ DesfazerTentativa(w) \/ CongelarAmbiguo(w)
                                 \/ EstornarRecusa(w) \/ SelarRecusa(w)
                                 \/ Bloquear(w) \/ SelarBloqueio(w)
       PROVE  JobNasMaos'
  <2>1. \/ \E j \in {"completo", "falho", "espera"} : Vai(w, "livre") /\ JobVai(w, alvo[w], j)
        \/ fase[w] # "livre" /\ UNCHANGED <<job, dono>>
           /\ \E f \in FasesWorker : Vai(w, f)
    BY <1>10 DEF Reivindicar, Postar, GuardarAceite, DesfazerTentativa, CongelarAmbiguo,
       EstornarRecusa, SelarRecusa, Bloquear, SelarBloqueio, JobTermina, JobFalha,
       JobRetenta, FasesWorker
  <2> QED BY <1>4, <1>5, <2>1
<1> QED BY <1>0, <1>1, <1>3, <1>6, <1>7, <1>8, <1>9, <1>10
      DEF Next, PreChecar, Criar, PerderEnfileirar, ErroInfra, CairWorker, Chegar, Perder,
          Pagar, Falhar, Devolver, Ordem, Receber, Confirmar, Avisar, CairGancho,
          Conciliar, AvisarConciliada, LerOrfaos, CairConciliacao, MudarRegras

(* Who posts a refund: a worker that is about to seal it, or the commit     *)
(* that seals FALHA for an order that failed.                               *)
LEMMA NovoEstorno ==
  ASSUME SaqueInv, [Next]_vars, NEW t \in Pedidos, estornado'[t], ~estornado[t]
  PROVE  /\ tx[t] = "PROCESSANDO" /\ UNCHANGED <<liquid, tent, alvo>>
         /\ \/ \E w \in Workers : /\ alvo[w] = t /\ fase[w] \in {"recusa", "bloqueio"}
                                  /\ fase' \in [Workers -> FasesWorker]
                                  /\ fase'[w] \in SelaEstorno
            \/ /\ tx'[t] = "FALHA" /\ banco[t] \in {"falhou", "devolvido"}
               /\ UNCHANGED fase
<1>0. /\ TypeDinheiro /\ TypeWorker /\ TypeGancho /\ TypeRegistro
  BY DEF SaqueInv, TypeOK
<1>1. ASSUME NEW s \in Pedidos, Estornar(s)
      PROVE  s = t
  BY <1>0, <1>1 DEF Estornar, TypeDinheiro
<1>2. \/ \E w \in Workers : EstornarRecusa(w) \/ Bloquear(w)
      \/ \E h \in Ganchos : Confirmar(h)
      \/ \E s \in Pedidos : Conciliar(s)
  <2>1. estornado' # estornado
    OBVIOUS
  <2> QED BY <2>1 DEF Next, PreChecar, Criar, Enfileirar, PerderEnfileirar,
       IniciarJob, Reivindicar, Postar, GuardarAceite, DesfazerTentativa,
       CongelarAmbiguo, SelarRecusa, SelarBloqueio, ErroInfra, CairWorker,
       Estagnar, RetentarAMao, Chegar, Perder, Pagar, Falhar, Devolver, Ordem,
       Receber, Avisar, CairGancho, AvisarConciliada, ReenfileirarOrfao,
       LerOrfaos, CairConciliacao, MudarRegras
<1>3. ASSUME NEW w \in Workers, EstornarRecusa(w) \/ Bloquear(w)
      PROVE  /\ tx[t] = "PROCESSANDO" /\ UNCHANGED <<liquid, tent, alvo>>
             /\ alvo[w] = t /\ fase[w] \in {"recusa", "bloqueio"}
             /\ fase' \in [Workers -> FasesWorker] /\ fase'[w] \in SelaEstorno
  <2>1. alvo[w] \in Pedidos
    BY <1>0 DEF TypeWorker
  <2>2. /\ tx[alvo[w]] = "PROCESSANDO" /\ UNCHANGED <<liquid, tent, alvo>>
        /\ fase[w] \in {"recusa", "bloqueio"} /\ Estornar(alvo[w])
        /\ Vai(w, "seloRecusa") \/ Vai(w, "seloBloqueio")
    BY <1>0, <1>3 DEF EstornarRecusa, Bloquear, Enviaveis, Vai
  <2>3. alvo[w] = t
    BY <1>1, <2>1, <2>2
  <2> QED BY <1>0, <2>2, <2>3 DEF Vai, TypeWorker, FasesWorker, SelaEstorno
<1>4. ASSUME NEW s \in Pedidos, EncerrarComoFalha(s), UNCHANGED <<liquid, tent, worker>>,
             banco[s] \in {"falhou", "devolvido"}
      PROVE  /\ tx[t] = "PROCESSANDO" /\ UNCHANGED <<liquid, tent, alvo>>
             /\ tx'[t] = "FALHA" /\ banco[t] \in {"falhou", "devolvido"} /\ UNCHANGED fase
  <2>1. Aberta(s) /\ Estornar(s) /\ SelarFalha(s)
    BY <1>4 DEF EncerrarComoFalha
  <2>2. s = t
    BY <1>1, <2>1
  <2> QED BY <1>0, <1>4, <2>1, <2>2 DEF Aberta, Enviaveis, SelarFalha, TypeRegistro
<1>5. ASSUME NEW h \in Ganchos, Confirmar(h)
      PROVE  /\ gAlvo[h] \in Pedidos /\ EncerrarComoFalha(gAlvo[h])
             /\ UNCHANGED <<liquid, tent, worker>>
             /\ banco[gAlvo[h]] \in {"falhou", "devolvido"}
  BY <1>0, <1>5 DEF Confirmar, Respostas, TypeGancho
<1>6. ASSUME NEW s \in Pedidos, Conciliar(s)
      PROVE  /\ EncerrarComoFalha(s) /\ UNCHANGED <<liquid, tent, worker>>
             /\ banco[s] \in {"falhou", "devolvido"}
  BY <1>6 DEF Conciliar
<1> QED BY <1>2, <1>3, <1>4, <1>5, <1>6

(* An order that may be paid comes from the POST of a worker.               *)
Vivas == {"emVoo", "aceito", "pago"}
LEMMA NovaOrdem ==
  ASSUME SaqueInv, [Next]_vars, NEW t \in Pedidos, banco'[t] # banco[t],
         \/ banco'[t] \in Vivas /\ banco[t] \notin Vivas
         \/ banco'[t] \notin SemOrdem /\ banco[t] \in SemOrdem
  PROVE  \E w \in Workers : Postar(w) /\ alvo[w] = t
<1>0. TypeLiquid /\ TypeWorker
  BY DEF SaqueInv, TypeOK
<1>1. \/ \E w \in Workers : Postar(w)
      \/ \E s \in Pedidos : Chegar(s) \/ Perder(s) \/ Pagar(s) \/ Falhar(s) \/ Devolver(s)
  <2>1. banco' # banco
    OBVIOUS
  <2> QED BY <2>1 DEF Next, PreChecar, Criar, Enfileirar, PerderEnfileirar,
       IniciarJob, Reivindicar, GuardarAceite, DesfazerTentativa,
       CongelarAmbiguo, EstornarRecusa, SelarRecusa, Bloquear, SelarBloqueio,
       ErroInfra, CairWorker, Estagnar, RetentarAMao, Receber, Confirmar, Avisar,
       CairGancho, Conciliar, AvisarConciliada, ReenfileirarOrfao,
       LerOrfaos, CairConciliacao, MudarRegras
<1>2. ASSUME NEW s \in Pedidos, Chegar(s) \/ Perder(s) \/ Pagar(s) \/ Falhar(s) \/ Devolver(s)
      PROVE  FALSE
  BY <1>0, <1>2 DEF Chegar, Perder, Pagar, Falhar, Devolver, Ordem, Vivas, SemOrdem, TypeLiquid
<1>3. ASSUME NEW w \in Workers, Postar(w)
      PROVE  alvo[w] = t
  BY <1>0, <1>3 DEF Postar, TypeLiquid
<1> QED BY <1>1, <1>2, <1>3

(* What a worker can do next from the steps the invariant speaks of.        *)
LEMMA PassoDoWorker ==
  ASSUME SaqueInv, [Next]_vars, MaxQuedas = 0, NEW w \in Workers
  PROVE  /\ fase[w] \in SelaEstorno =>
              \/ fase'[w] = fase[w] /\ alvo'[w] = alvo[w]
              \/ SelarRecusa(w) \/ SelarBloqueio(w)
         /\ fase'[w] = "claim" =>
              \/ fase[w] = "claim" /\ alvo'[w] = alvo[w]
              \/ \E s \in Pedidos : IniciarJob(w, s)
         /\ fase'[w] \in {"postar", "antes"} =>
              \/ fase[w] = fase'[w] /\ alvo'[w] = alvo[w]
              \/ Reivindicar(w) \/ Postar(w)
<1>0. TypeWorker /\ ~(quedas < MaxQuedas)
  BY DEF SaqueInv, TypeOK, TypeResto
<1>1. CASE UNCHANGED worker
  BY <1>1
<1>2. ASSUME NEW v \in Workers, NEW s \in Pedidos, IniciarJob(v, s)
      PROVE  v = w \/ (fase'[w] = fase[w] /\ alvo'[w] = alvo[w])
  BY <1>0, <1>2 DEF IniciarJob, TypeWorker
<1>3. ASSUME NEW v \in Workers, NEW f, Vai(v, f)
      PROVE  v = w \/ (fase'[w] = fase[w] /\ alvo'[w] = alvo[w])
  BY <1>0, <1>3 DEF Vai, TypeWorker
<1>4. ASSUME NEW s \in Pedidos, IniciarJob(w, s)
      PROVE  fase[w] = "livre" /\ fase'[w] \in {"livre", "claim", "bloqueio"}
  BY <1>0, <1>4 DEF IniciarJob, TypeWorker
<1>5. ASSUME NEW v \in Workers, \/ Reivindicar(v) \/ Postar(v) \/ GuardarAceite(v)
                                \/ DesfazerTentativa(v) \/ CongelarAmbiguo(v)
                                \/ EstornarRecusa(v) \/ SelarRecusa(v)
                                \/ Bloquear(v) \/ SelarBloqueio(v)
      PROVE  /\ fase[v] \notin {"livre"} /\ UNCHANGED alvo
             /\ \E f \in FasesWorker \ {"claim"} :
                 Vai(v, f) /\ (f \in {"postar", "antes"} => Reivindicar(v) \/ Postar(v))
             /\ fase[v] \in SelaEstorno => SelarRecusa(v) \/ SelarBloqueio(v)
  BY <1>5 DEF Reivindicar, Postar, GuardarAceite, DesfazerTentativa, CongelarAmbiguo,
     EstornarRecusa, SelarRecusa, Bloquear, SelarBloqueio, Vai, FasesWorker, SelaEstorno
<1>6. \/ UNCHANGED worker
      \/ \E v \in Workers : \E s \in Pedidos : IniciarJob(v, s)
      \/ \E v \in Workers : \/ Reivindicar(v) \/ Postar(v) \/ GuardarAceite(v)
                            \/ DesfazerTentativa(v) \/ CongelarAmbiguo(v)
                            \/ EstornarRecusa(v) \/ SelarRecusa(v)
                            \/ Bloquear(v) \/ SelarBloqueio(v)
  BY <1>0 DEF Next, PreChecar, Criar, Enfileirar, PerderEnfileirar, ErroInfra, CairWorker,
     Estagnar, RetentarAMao, Chegar, Perder, Pagar, Falhar, Devolver, Ordem, Receber,
     Confirmar, Avisar, CairGancho, Conciliar, AvisarConciliada, ReenfileirarOrfao,
     LerOrfaos, CairConciliacao, MudarRegras
<1>7. CASE \E v \in Workers : \E s \in Pedidos : IniciarJob(v, s)
  BY <1>2, <1>4, <1>7 DEF SelaEstorno
<1>8. ASSUME NEW v \in Workers, \/ Reivindicar(v) \/ Postar(v) \/ GuardarAceite(v)
                                \/ DesfazerTentativa(v) \/ CongelarAmbiguo(v)
                                \/ EstornarRecusa(v) \/ SelarRecusa(v)
                                \/ Bloquear(v) \/ SelarBloqueio(v)
      PROVE  /\ v # w => fase'[w] = fase[w] /\ alvo'[w] = alvo[w]
             /\ v = w =>
                  /\ fase[w] # "livre" /\ UNCHANGED alvo /\ fase'[w] # "claim"
                  /\ (fase'[w] \in {"postar", "antes"} => Reivindicar(w) \/ Postar(w))
                  /\ (fase[w] \in SelaEstorno => SelarRecusa(w) \/ SelarBloqueio(w))
  <2>1. PICK f \in FasesWorker \ {"claim"} :
                 Vai(v, f) /\ (f \in {"postar", "antes"} => Reivindicar(v) \/ Postar(v))
    BY <1>5, <1>8
  <2>2. fase' = [fase EXCEPT ![v] = f] /\ UNCHANGED alvo
    BY <2>1 DEF Vai
  <2>3. fase'[v] = f /\ \A u \in Workers \ {v} : fase'[u] = fase[u]
    BY <1>0, <2>2 DEF TypeWorker
  <2>4. fase[v] # "livre" /\ (fase[v] \in SelaEstorno => SelarRecusa(v) \/ SelarBloqueio(v))
    BY <1>5, <1>8
  <2> QED BY <2>1, <2>2, <2>3, <2>4
<1>9. ASSUME NEW v \in Workers, \/ Reivindicar(v) \/ Postar(v) \/ GuardarAceite(v)
                                \/ DesfazerTentativa(v) \/ CongelarAmbiguo(v)
                                \/ EstornarRecusa(v) \/ SelarRecusa(v)
                                \/ Bloquear(v) \/ SelarBloqueio(v)
      PROVE  \/ fase'[w] = fase[w] /\ alvo'[w] = alvo[w]
             \/ /\ fase[w] # "livre" /\ UNCHANGED alvo /\ fase'[w] # "claim"
                /\ (fase'[w] \in {"postar", "antes"} => Reivindicar(w) \/ Postar(w))
                /\ (fase[w] \in SelaEstorno => SelarRecusa(w) \/ SelarBloqueio(w))
  BY <1>8, <1>9
<1> QED BY <1>1, <1>6, <1>7, <1>9


(* A worker leaves "livre" only with the start of a job.                     *)
LEMMA OcupadoPasso ==
  ASSUME SaqueInv, [Next]_vars, NEW w \in Workers, fase'[w] # "livre"
  PROVE  \/ fase[w] # "livre" /\ alvo'[w] = alvo[w]
         \/ \E s \in Pedidos : IniciarJob(w, s)
<1>0. TypeWorker
  BY DEF SaqueInv, TypeOK
<1>1. CASE UNCHANGED worker
  BY <1>1
<1>2. ASSUME NEW v \in Workers, NEW s \in Pedidos, IniciarJob(v, s)
      PROVE  v = w \/ (fase'[w] = fase[w] /\ alvo'[w] = alvo[w])
  BY <1>0, <1>2 DEF IniciarJob, TypeWorker
<1>3. ASSUME NEW v \in Workers, NEW f, Vai(v, f), fase[v] # "livre"
      PROVE  fase[w] # "livre" /\ alvo'[w] = alvo[w]
  BY <1>0, <1>3 DEF Vai, TypeWorker
<1>4. \/ UNCHANGED worker
      \/ \E v \in Workers, s \in Pedidos : IniciarJob(v, s)
      \/ \E v \in Workers : \E f \in FasesWorker : Vai(v, f) /\ fase[v] # "livre"
  BY DEF Next, PreChecar, Criar, Enfileirar, PerderEnfileirar, Reivindicar, Postar,
     GuardarAceite, DesfazerTentativa, CongelarAmbiguo, EstornarRecusa, SelarRecusa,
     Bloquear, SelarBloqueio, ErroInfra, CairWorker, Estagnar, RetentarAMao, Chegar,
     Perder, Pagar, Falhar, Devolver, Ordem, Receber, Confirmar, Avisar, CairGancho,
     Conciliar, AvisarConciliada, ReenfileirarOrfao, LerOrfaos, CairConciliacao,
     MudarRegras, FasesWorker
<1> QED BY <1>1, <1>2, <1>3, <1>4

(* A withdrawal that anybody works on, or that was refunded or ordered, has  *)
(* its row.                                                                 *)
LEMMA TemLinhaPasso ==
  ASSUME SaqueInv, TemLinha, [Next]_vars
  PROVE  TemLinha'
<1>0. TypeLiquid /\ TypeDinheiro /\ TypeWorker
  BY DEF SaqueInv, TypeOK
<1>1. \A s \in Pedidos : tx[s] # "ausente" => tx'[s] # "ausente"
  BY LinhaFica DEF Criados
<1>2. ASSUME NEW s \in Pedidos, banco'[s] \notin SemOrdem, banco[s] \in SemOrdem
      PROVE  tx[s] # "ausente"
  <2>1. PICK w \in Workers : Postar(w) /\ alvo[w] = s
    BY <1>2, NovaOrdem
  <2>2. fase[w] = "postar"
    BY <2>1 DEF Postar
  <2> QED BY <2>1, <2>2 DEF TemLinha
<1>3. ASSUME NEW s \in Pedidos, estornado'[s], ~estornado[s]
      PROVE  tx[s] # "ausente"
  BY <1>3, NovoEstorno
<1>4. ASSUME NEW w \in Workers, fase'[w] # "livre"
      PROVE  tx'[alvo'[w]] # "ausente"
  <2>1. CASE fase[w] # "livre" /\ alvo'[w] = alvo[w]
    BY <1>0, <1>1, <2>1 DEF TemLinha, TypeWorker
  <2>2. ASSUME NEW s \in Pedidos, IniciarJob(w, s)
        PROVE  tx'[alvo'[w]] # "ausente"
    BY <1>0, <1>4, <2>2 DEF IniciarJob, Enviaveis, TypeWorker
  <2> QED BY <1>4, <2>1, <2>2, OcupadoPasso
<1>5. \A s \in Pedidos : banco'[s] \notin SemOrdem \/ estornado'[s] => tx'[s] # "ausente"
  BY <1>1, <1>2, <1>3 DEF TemLinha
<1> QED BY <1>4, <1>5 DEF TemLinha

(* Two workers are never at the same withdrawal.                            *)
LEMMA UmPorSaque ==
  ASSUME JobNasMaos, NEW v \in Workers, NEW w \in Workers,
         fase[v] # "livre", fase[w] # "livre", alvo[v] = alvo[w]
  PROVE  v = w
BY DEF JobNasMaos, Segura

LEMMA EstornoSeladoPasso ==
  ASSUME MaxQuedas = 0, SaqueInv, CobrancaInv, [Next]_vars
  PROVE  EstornoSelado'
<1>0. TypeWorker /\ TypeRegistro /\ TemLinha /\ EstornoSelado
  BY DEF SaqueInv, TypeOK, CobrancaInv
<1> SUFFICES ASSUME NEW s \in Pedidos, estornado'[s], tx'[s] = "PROCESSANDO"
             PROVE  \E w \in Workers : alvo'[w] = s /\ fase'[w] \in SelaEstorno
  BY DEF EstornoSelado
<1>1. CASE ~estornado[s]
  <2>1. PICK w \in Workers : alvo[w] = s /\ fase'[w] \in SelaEstorno
    BY <1>1, NovoEstorno
  <2>2. UNCHANGED alvo
    BY <1>1, NovoEstorno
  <2> QED BY <2>1, <2>2
<1>2. CASE estornado[s]
  <2>1. tx[s] \notin Finais
    BY PassoFinal DEF Finais
  <2>2. tx[s] = "PROCESSANDO"
    BY <1>0, <1>2, <2>1 DEF TemLinha, TypeRegistro, Situacoes, Finais
  <2>3. PICK w \in Workers : alvo[w] = s /\ fase[w] \in SelaEstorno
    BY <1>0, <1>2, <2>2 DEF EstornoSelado
  <2>4. ~SelarRecusa(w) /\ ~SelarBloqueio(w)
    BY <1>0, <2>2, <2>3 DEF SelarRecusa, SelarBloqueio, SelarFalha, Aberta, Enviaveis,
       TypeRegistro
  <2>5. fase'[w] = fase[w] /\ alvo'[w] = alvo[w]
    BY <2>3, <2>4, PassoDoWorker
  <2> QED BY <2>3, <2>5
<1> QED BY <1>1, <1>2

(* A live tentativa dies only in the hands of the worker that made it.      *)
LEMMA TentativaMorre ==
  ASSUME SaqueInv, [Next]_vars, NEW s \in Pedidos, Ativa(s), ~Ativa(s)'
  PROVE  \E v \in Workers : alvo[v] = s /\ fase[v] \in {"antes", "recusa", "seloRecusa"}
<1>0. TypeRegistro /\ TypeWorker
  BY DEF SaqueInv, TypeOK
<1>1. \/ \E w \in Workers : \/ Reivindicar(w) \/ GuardarAceite(w) \/ DesfazerTentativa(w)
                            \/ CongelarAmbiguo(w) \/ EstornarRecusa(w) \/ SelarRecusa(w)
      \/ \E h \in Ganchos : \E t \in Pedidos, e \in {"PAID", "outro"} : Receber(h, t, e)
  <2>1. tent' # tent
    BY DEF Ativa
  <2> QED BY <2>1 DEF Next, PreChecar, Criar, Enfileirar, PerderEnfileirar,
       IniciarJob, Postar, Bloquear, SelarBloqueio, ErroInfra, CairWorker, Estagnar,
       RetentarAMao, Chegar, Perder, Pagar, Falhar, Devolver, Ordem, Confirmar, Avisar,
       CairGancho, Conciliar, AvisarConciliada, ReenfileirarOrfao, LerOrfaos,
       CairConciliacao, MudarRegras
<1>2. ASSUME NEW w \in Workers, Reivindicar(w) \/ GuardarAceite(w) \/ CongelarAmbiguo(w)
      PROVE  FALSE
  BY <1>0, <1>2 DEF Reivindicar, GuardarAceite, CongelarAmbiguo, Congelar, Ativa, TypeRegistro
<1>3. ASSUME NEW w \in Workers, DesfazerTentativa(w) \/ EstornarRecusa(w) \/ SelarRecusa(w)
      PROVE  alvo[w] = s /\ fase[w] \in {"antes", "recusa", "seloRecusa"}
  BY <1>0, <1>3 DEF DesfazerTentativa, EstornarRecusa, SelarRecusa, Ativa, TypeRegistro
<1>4. ASSUME NEW h \in Ganchos, NEW t \in Pedidos, NEW e \in {"PAID", "outro"}, Receber(h, t, e)
      PROVE  FALSE
  BY <1>0, <1>4 DEF Receber, Ativa, TypeRegistro
<1> QED BY <1>1, <1>2, <1>3, <1>4

LEMMA AntesDaOrdemPasso ==
  ASSUME MaxQuedas = 0, SaqueInv, CobrancaInv, [Next]_vars
  PROVE  AntesDaOrdem'
<1>0. /\ TypeWorker /\ TypeFila /\ OrdemTemTentativa /\ FaseSabe
      /\ JobNasMaos /\ EstornoSelado /\ AntesDaOrdem
  BY DEF SaqueInv, TypeOK, Nucleo, CobrancaInv
<1>1. ASSUME NEW w \in Workers, fase[w] # "livre", fase'[w] = fase[w],
             fase[w] \notin {"antes", "recusa", "seloRecusa", "bloqueio"},
             estornado'[alvo[w]], ~estornado[alvo[w]]
      PROVE  banco[alvo[w]] \in {"falhou", "devolvido"} /\ UNCHANGED tent
  <2>1. alvo[w] \in Pedidos
    BY <1>0 DEF TypeWorker
  <2>2. ASSUME NEW v \in Workers, alvo[v] = alvo[w], fase[v] \in {"recusa", "bloqueio"}
        PROVE  FALSE
    BY <1>0, <1>1, <2>2, UmPorSaque
  <2> QED BY <1>1, <2>1, <2>2, NovoEstorno
<1>2. ASSUME NEW w \in Workers, fase'[w] = "claim", estornado'[alvo'[w]]
      PROVE  tent'[alvo'[w]] \in {"ENVIANDO", "SUCESSO"}
  <2>1. ASSUME NEW s \in Pedidos, IniciarJob(w, s)
        PROVE  tent'[alvo'[w]] \in {"ENVIANDO", "SUCESSO"}
    <3>1. /\ alvo'[w] = s /\ tx[s] = "PROCESSANDO" /\ job[s] = "espera"
          /\ UNCHANGED estornado
      BY <1>0, <1>2, <2>1 DEF IniciarJob, Enviaveis, TypeWorker
    <3>2. PICK v \in Workers : alvo[v] = s /\ fase[v] \in SelaEstorno
      BY <1>0, <1>2, <3>1 DEF EstornoSelado
    <3>3. job[s] = "ativo"
      BY <1>0, <3>2 DEF JobNasMaos, Segura, SelaEstorno
    <3> QED BY <3>1, <3>3
  <2>2. CASE fase[w] = "claim" /\ alvo'[w] = alvo[w]
    <3>1. alvo[w] \in Pedidos
      BY <1>0 DEF TypeWorker
    <3>2. CASE estornado[alvo[w]]
      <4>1. Ativa(alvo[w])
        BY <1>0, <2>2, <3>2 DEF AntesDaOrdem
      <4>2. ASSUME NEW v \in Workers, alvo[v] = alvo[w],
                   fase[v] \in {"antes", "recusa", "seloRecusa"}
            PROVE  FALSE
        BY <1>0, <2>2, <4>2, UmPorSaque
      <4>3. tent'[alvo[w]] \in {"ENVIANDO", "SUCESSO"}
        BY <3>1, <4>1, <4>2, TentativaMorre DEF Ativa
      <4> QED BY <2>2, <4>3 DEF Ativa
    <3>3. CASE ~estornado[alvo[w]]
      <4>1. banco[alvo[w]] \in {"falhou", "devolvido"} /\ UNCHANGED tent
        BY <1>1, <1>2, <2>2, <3>3
      <4> QED BY <1>0, <2>2, <3>1, <4>1 DEF OrdemTemTentativa, SemOrdem, Ativa
    <3> QED BY <3>2, <3>3
  <2> QED BY <1>2, <2>1, <2>2, PassoDoWorker
<1>3. ASSUME NEW w \in Workers, fase'[w] \in {"postar", "antes"}
      PROVE  ~estornado'[alvo'[w]]
  <2>1. CASE Reivindicar(w)
    <3>1. fase[w] = "claim" /\ ~Ativa(alvo[w]) /\ UNCHANGED <<alvo, estornado>>
      BY <1>0, <1>3, <2>1 DEF Reivindicar, Barrado, Vai, TypeWorker
    <3> QED BY <1>0, <3>1 DEF AntesDaOrdem
  <2>2. CASE Postar(w)
    <3>1. fase[w] = "postar" /\ UNCHANGED <<alvo, estornado>>
      BY <2>2 DEF Postar, Vai
    <3> QED BY <1>0, <3>1 DEF AntesDaOrdem
  <2>3. CASE fase'[w] = fase[w] /\ alvo'[w] = alvo[w]
    <3>1. alvo[w] \in Pedidos /\ ~estornado[alvo[w]] /\ banco[alvo[w]] \in SemOrdem
      BY <1>0, <1>3, <2>3 DEF AntesDaOrdem, FaseSabe, TypeWorker
    <3>2. SUFFICES ASSUME estornado'[alvo[w]] PROVE FALSE
      BY <2>3
    <3>3. PICK v \in Workers : /\ alvo[v] = alvo[w] /\ fase[v] \in {"recusa", "bloqueio"}
      BY <3>1, <3>2, NovoEstorno DEF SemOrdem
    <3> QED BY <1>0, <1>3, <2>3, <3>3, UmPorSaque
  <2> QED BY <1>3, <2>1, <2>2, <2>3, PassoDoWorker
<1>4. AntesDaOrdem' <=>
        \A w \in Workers :
          /\ fase'[w] = "claim" => ~estornado'[alvo'[w]] \/ tent'[alvo'[w]] \in {"ENVIANDO", "SUCESSO"}
          /\ fase'[w] \in {"postar", "antes"} => ~estornado'[alvo'[w]]
  BY DEF AntesDaOrdem, Ativa
<1> QED BY <1>2, <1>3, <1>4

LEMMA PagoECobradoPasso ==
  ASSUME MaxQuedas = 0, SaqueInv, SaqueInv', CobrancaInv, TemLinha', [Next]_vars
  PROVE  PagoECobrado'
<1>0. /\ TypeLiquid /\ AntesDaOrdem /\ PagoECobrado /\ Cobrado'
  BY DEF SaqueInv, TypeOK, Nucleo, CobrancaInv
<1> SUFFICES ASSUME NEW s \in Pedidos, banco'[s] \in Vivas
             PROVE  debitado'[s] /\ ~estornado'[s]
  BY DEF PagoECobrado, Vivas
<1>1. debitado'[s]
  BY <1>0 DEF TemLinha, Cobrado, Vivas, SemOrdem
<1>2. ASSUME estornado'[s], ~estornado[s]
      PROVE  FALSE
  BY <1>2, NovoEstorno, PassoEstorna DEF SemOrdemViva, Vivas
<1>3. ASSUME estornado[s]
      PROVE  FALSE
  <2>1. banco[s] \notin Vivas
    BY <1>0, <1>3 DEF PagoECobrado, Vivas
  <2>2. PICK w \in Workers : Postar(w) /\ alvo[w] = s
    BY <2>1, NovaOrdem
  <2>3. fase[w] = "postar"
    BY <2>2 DEF Postar
  <2> QED BY <1>0, <1>3, <2>2, <2>3 DEF AntesDaOrdem
<1> QED BY <1>1, <1>2, <1>3

LEMMA CobrancaComeca ==
  ASSUME Init
  PROVE  CobrancaInv
BY DEF Init, CobrancaInv, JobNasMaos, TemLinha, EstornoSelado, AntesDaOrdem,
   PagoECobrado, SemOrdem

LEMMA CobrancaPasso ==
  ASSUME MaxQuedas = 0, ~PerdeTrava, SaqueInv, CobrancaInv, [Next]_vars
  PROVE  CobrancaInv'
<1>1. JobNasMaos /\ TemLinha
  BY DEF CobrancaInv
<1>2. JobNasMaos' /\ TemLinha'
  BY <1>1, JobNasMaosPasso, TemLinhaPasso
<1>3. EstornoSelado' /\ AntesDaOrdem'
  BY EstornoSeladoPasso, AntesDaOrdemPasso
<1>4. PagoECobrado'
  BY <1>2, PassoMantem, PagoECobradoPasso
<1> QED BY <1>2, <1>3, <1>4 DEF CobrancaInv

(* While no process dies and no lock expires under its worker, a withdrawal  *)
(* that is or may be paid was charged and is not refunded.  Both conditions *)
(* are needed: refund and FALHA are two commits.                            *)
THEOREM PagoFoiCobrado ==
  ASSUME MaxQuedas = 0, ~PerdeTrava
  PROVE  Spec => []PagoECobrado
<1>1. Init => CobrancaInv
  BY CobrancaComeca
<1>2. SaqueInv /\ CobrancaInv /\ [Next]_vars => CobrancaInv'
  BY CobrancaPasso
<1>3. CobrancaInv => PagoECobrado
  BY DEF CobrancaInv
<1> QED BY <1>1, <1>2, <1>3, SaqueIntegro, PTL DEF Spec

(* Where nothing falls, a worker that refunded a block still has no order:   *)
(* nobody else works on the withdrawal.                                     *)
LEMMA SeloSemOrdemPasso ==
  ASSUME SaqueInv, CobrancaInv, SeloSemOrdem, [Next]_vars
  PROVE  SeloSemOrdem'
<1>0. TypeLiquid /\ TypeWorker /\ OrdemTemTentativa /\ JobNasMaos
  BY DEF SaqueInv, TypeOK, Nucleo, CobrancaInv
<1> SUFFICES ASSUME NEW w \in Workers, fase'[w] = "seloBloqueio"
             PROVE  banco'[alvo'[w]] \in SemOrdem
  BY DEF SeloSemOrdem
<1>1. ASSUME UNCHANGED worker
      PROVE  fase[w] = "seloBloqueio" /\ alvo'[w] = alvo[w]
  BY <1>1
<1>2. ASSUME NEW v \in Workers, NEW f, Vai(v, f)
      PROVE  /\ v # w \/ f = "seloBloqueio"
             /\ alvo'[w] = alvo[w] /\ (v # w => fase[w] = "seloBloqueio")
  BY <1>0, <1>2 DEF Vai, TypeWorker
<1>3. ASSUME NEW v \in Workers, NEW s \in Pedidos, IniciarJob(v, s)
      PROVE  fase[w] = "seloBloqueio" /\ alvo'[w] = alvo[w]
  BY <1>0, <1>3 DEF IniciarJob, TypeWorker
<1>4. ASSUME NEW v \in Workers, Bloquear(v)
      PROVE  \/ fase[w] = "seloBloqueio" /\ alvo'[w] = alvo[w]
             \/ ~Ativa(alvo[w]) /\ UNCHANGED <<alvo, banco>>
  BY <1>2, <1>4 DEF Bloquear, OrdemFora, Vai
<1>5. \/ fase[w] = "seloBloqueio" /\ alvo'[w] = alvo[w]
      \/ ~Ativa(alvo[w]) /\ UNCHANGED <<alvo, banco>>
  <2>1. \/ UNCHANGED worker
        \/ \E v \in Workers, s \in Pedidos : IniciarJob(v, s)
        \/ \E v \in Workers : Bloquear(v)
        \/ \E v \in Workers : \E f \in FasesWorker \ {"seloBloqueio"} : Vai(v, f)
    BY DEF Next, PreChecar, Criar, Enfileirar, PerderEnfileirar, Reivindicar, Postar,
       GuardarAceite, DesfazerTentativa, CongelarAmbiguo, EstornarRecusa, SelarRecusa,
       SelarBloqueio, ErroInfra, CairWorker, Estagnar, RetentarAMao, Chegar, Perder,
       Pagar, Falhar, Devolver, Ordem, Receber, Confirmar, Avisar, CairGancho,
       Conciliar, AvisarConciliada, ReenfileirarOrfao, LerOrfaos, CairConciliacao,
       MudarRegras, FasesWorker
  <2> QED BY <1>1, <1>2, <1>3, <1>4, <2>1
<1>6. alvo[w] \in Pedidos
  BY <1>0 DEF TypeWorker
<1>7. CASE ~Ativa(alvo[w]) /\ UNCHANGED <<alvo, banco>>
  BY <1>0, <1>6, <1>7 DEF OrdemTemTentativa
<1>8. CASE fase[w] = "seloBloqueio" /\ alvo'[w] = alvo[w]
  <2>1. banco[alvo[w]] \in SemOrdem
    BY <1>8 DEF SeloSemOrdem
  <2>2. ASSUME NEW v \in Workers, Postar(v), alvo[v] = alvo[w]
        PROVE  FALSE
    <3>1. fase[v] = "postar"
      BY <2>2 DEF Postar
    <3>2. v = w
      BY <1>0, <1>8, <2>2, <3>1, UmPorSaque
    <3> QED BY <1>8, <3>1, <3>2
  <2> QED BY <1>6, <1>8, <2>1, <2>2, NovaOrdem
<1> QED BY <1>5, <1>7, <1>8

LEMMA SaidaComeca ==
  ASSUME Init
  PROVE  SaidaInv
<1>1. SaqueInv /\ AvisoInv /\ CobrancaInv
  BY InicioIntegro, AvisoComeca, CobrancaComeca
<1>2. SeloSemOrdem
  BY DEF Init, SeloSemOrdem
<1> QED BY <1>1, <1>2 DEF SaidaInv, CobrancaInv

LEMMA SaidaPasso ==
  ASSUME SaidaInv, [Next]_vars
  PROVE  SaidaInv'
<1>1. SaqueInv' /\ AvisoInv' /\ TemLinha'
  BY PassoMantem, AvisoPasso, TemLinhaPasso DEF SaidaInv
<1>2. CASE PodeCair
  BY <1>1, <1>2 DEF SaidaInv, PodeCair
<1>3. CASE ~PodeCair
  <2>1. MaxQuedas = 0 /\ ~PerdeTrava
    BY <1>3, SaqueAssumption DEF PodeCair
  <2>2. CobrancaInv' /\ SeloSemOrdem'
    BY <1>3, <2>1, CobrancaPasso, SeloSemOrdemPasso DEF SaidaInv
  <2> QED BY <1>1, <2>2 DEF SaidaInv
<1> QED BY <1>2, <1>3

(* The order of one withdrawal changes, and so does what is seen of it.      *)
LEMMA OrdemMuda ==
  ASSUME TypeLiquid, NEW s \in Pedidos, NEW b, banco' = [banco EXCEPT ![s] = b]
  PROVE  OrdensVistas' = [OrdensVistas EXCEPT ![s] = OrdemDe(b)]
<1>1. \A t \in Pedidos : banco'[t] = IF t = s THEN b ELSE banco[t]
  BY DEF TypeLiquid
<1>2. OrdensVistas = [t \in Pedidos |-> OrdemDe(banco[t])]
  BY DEF OrdensVistas
<1>3. OrdensVistas' = [t \in Pedidos |-> OrdemDe(banco'[t])]
  BY DEF OrdensVistas, OrdemDe
<1> HIDE DEF OrdensVistas
<1> QED BY <1>1, <1>2, <1>3

LEMMA OrdemVista ==
  ASSUME NEW s \in Pedidos
  PROVE  OrdensVistas[s] = OrdemDe(banco[s])
BY DEF OrdensVistas

(* What the merchant sees, and the steps that change nothing of it.          *)
Visto == <<saldo, tx, OrdensVistas, estornado, avisoOk, avisoFalha>>
VistoPara == UNCHANGED Visto

LEMMA NadaSeVe ==
  ASSUME UNCHANGED <<saldo, tx, banco, estornado, avisoOk, avisoFalha>>
  PROVE  VistoPara
BY DEF VistoPara, Visto, OrdensVistas

(* A refund nobody has sealed yet is not of an order that was paid, where    *)
(* nothing falls.                                                           *)
LEMMA PagoNaoDevolvido ==
  ASSUME SaidaInv, NEW s \in Pedidos, tx[s] = "PROCESSANDO",
         banco[s] \notin SemOrdem
  PROVE  PodeCair \/ ~estornado[s]
<1> SUFFICES ASSUME ~PodeCair, estornado[s] PROVE FALSE
  OBVIOUS
<1>1. PICK w \in Workers : alvo[w] = s /\ fase[w] \in SelaEstorno
  BY DEF SaidaInv, CobrancaInv, EstornoSelado
<1> QED BY <1>1 DEF SaidaInv, SeloSemOrdem, SelaEstorno, SaqueInv, Nucleo, FaseSabe,
     SemOrdem

(* How one commit of the machinery looks to the merchant, one lemma for each *)
(* kind of commit.                                                          *)
LEMMA PedirVisto ==
  ASSUME SaidaInv, NEW p \in Pedidos, Criar(p)
  PROVE  Promessa!Pedir(p) \/ VistoPara
<1>1. tx[p] = "ausente" /\ UNCHANGED <<banco, estornado, avisoOk, avisoFalha>>
  BY DEF SaidaInv, SaqueInv, Nucleo, PedidoNovo, Criar
<1>2. CASE UNCHANGED <<saldo, tx>>
  BY <1>1, <1>2, NadaSeVe
<1>3. CASE /\ ~(saldo < Total(p)) /\ saldo' = saldo - Total(p)
           /\ tx' = [tx EXCEPT ![p] = "PROCESSANDO"]
  <2>1. saldo \in Int /\ Total(p) \in Nat
    BY TotalNat DEF SaidaInv, SaqueInv, TypeOK, TypeDinheiro
  <2>2. CustoDe[p] = Total(p) /\ saldo >= Total(p)
    BY <1>3, <2>1 DEF CustoDe
  <2> QED BY <1>1, <1>3, <2>2 DEF Promessa!Pedir, OrdensVistas
<1> QED BY <1>2, <1>3 DEF Criar, Replay

LEMMA MandarVisto ==
  ASSUME SaidaInv, NEW w \in Workers, Postar(w)
  PROVE  Promessa!Mandar(alvo[w]) \/ VistoPara
<1> DEFINE s == alvo[w]
<1>0. /\ s \in Pedidos /\ fase[w] = "postar" /\ TypeLiquid
      /\ banco[s] \in SemOrdem /\ tx \in [Pedidos -> Situacoes]
      /\ UNCHANGED <<saldo, tx, estornado, avisoOk, avisoFalha>>
  BY DEF SaidaInv, SaqueInv, TypeOK, TypeRegistro, TypeWorker, Nucleo, FaseSabe, Postar
<1>1. OrdensVistas[s] = "nenhuma"
  BY <1>0, OrdemVista DEF OrdemDe, SemOrdem
<1>2. PICK b \in {banco[s], "recusado", "aceito", "emVoo"} : banco' = [banco EXCEPT ![s] = b]
  BY <1>0 DEF Postar, TypeLiquid
<1>3. OrdensVistas' = [OrdensVistas EXCEPT ![s] = OrdemDe(b)]
  BY <1>0, <1>2, OrdemMuda
<1>4. CASE b \in {banco[s], "recusado"}
  <2>1. OrdemDe(b) = "nenhuma"
    BY <1>0, <1>4 DEF OrdemDe, SemOrdem
  <2>2. OrdensVistas' = OrdensVistas
    BY <1>1, <1>3, <2>1 DEF OrdensVistas
  <2> QED BY <1>0, <2>2 DEF VistoPara, Visto
<1>5. CASE b \in {"aceito", "emVoo"}
  <2>1. OrdemDe(b) = "viva"
    BY <1>5 DEF OrdemDe
  <2>2. tx[s] # "ausente"
    BY <1>0 DEF SaidaInv, TemLinha
  <2>3. PodeCair \/ (tx[s] = "PROCESSANDO" /\ ~estornado[s])
    <3>1. SUFFICES ASSUME ~PodeCair PROVE tx[s] = "PROCESSANDO" /\ ~estornado[s]
      OBVIOUS
    <3>2. ~estornado[s]
      BY <1>0, <3>1 DEF SaidaInv, CobrancaInv, AntesDaOrdem
    <3>3. tx[s] # "FALHA" /\ tx[s] # "CONCLUIDA"
      BY <1>0, <3>2 DEF SaidaInv, SaqueInv, Nucleo, FalhaDevolve, ConcluidaSoPaga, SemOrdem
    <3> QED BY <1>0, <2>2, <3>2, <3>3 DEF Situacoes
  <2> QED BY <1>0, <1>1, <1>3, <2>1, <2>2, <2>3 DEF Promessa!Mandar
<1> QED BY <1>2, <1>4, <1>5

LEMMA MoverVisto ==
  ASSUME SaidaInv, NEW s \in Pedidos, NEW de, NEW para, Ordem(s, de, para),
         \/ de = "emVoo" /\ para \in {"aceito", "nada"}
         \/ de = "aceito" /\ para \in {"pago", "falhou"}
         \/ de = "pago" /\ para = "devolvido"
  PROVE  Promessa!Mover(s) \/ VistoPara
<1>0. /\ TypeLiquid /\ banco[s] = de
      /\ UNCHANGED <<saldo, tx, estornado, avisoOk, avisoFalha>>
  BY DEF SaidaInv, SaqueInv, TypeOK, Ordem
<1>1. OrdensVistas' = [OrdensVistas EXCEPT ![s] = OrdemDe(para)]
  BY <1>0, OrdemMuda DEF Ordem
<1>2. OrdensVistas[s] = OrdemDe(de)
  BY <1>0, OrdemVista
<1>3. CASE para = "aceito"
  <2>1. OrdemDe(para) = OrdemDe(de)
    BY <1>3 DEF OrdemDe
  <2>2. OrdensVistas' = OrdensVistas
    BY <1>1, <1>2, <2>1 DEF OrdensVistas
  <2> QED BY <1>0, <2>2 DEF VistoPara, Visto
<1>4. CASE para # "aceito"
  <2>1. \/ OrdemDe(de) = "viva" /\ OrdemDe(para) \in {"pago", "nenhuma", "falhou"}
        \/ OrdemDe(de) = "pago" /\ OrdemDe(para) = "devolvido"
    BY <1>4 DEF OrdemDe
  <2> QED BY <1>0, <1>1, <1>2, <2>1 DEF Promessa!Mover
<1> QED BY <1>3, <1>4

LEMMA DevolverVisto ==
  ASSUME SaidaInv, NEW s \in Pedidos, Estornar(s), tx[s] = "PROCESSANDO",
         banco[s] \in SemOrdem, UNCHANGED <<tx, banco, avisoOk, avisoFalha>>
  PROVE  Promessa!Devolver(s) \/ VistoPara
<1>0. TypeDinheiro
  BY DEF SaidaInv, SaqueInv, TypeOK
<1>1. CASE estornado[s]
  <2>1. UNCHANGED <<saldo, estornado>>
    BY <1>0, <1>1 DEF Estornar, TypeDinheiro
  <2> QED BY <2>1, NadaSeVe
<1>2. CASE ~estornado[s]
  <2>1. CustoDe[s] = Total(s) /\ OrdensVistas[s] = "nenhuma"
    BY OrdemVista DEF CustoDe, OrdemDe, SemOrdem
  <2>2. UNCHANGED OrdensVistas
    BY DEF OrdensVistas
  <2> QED BY <1>2, <2>1, <2>2 DEF Estornar, Promessa!Devolver
<1> QED BY <1>1, <1>2

(* FALHA, sealed after its refund or in one commit with it.                 *)
LEMMA FalharVisto ==
  ASSUME SaidaInv, NEW s \in Pedidos, SelarFalha(s),
         \/ Estornar(s) /\ banco[s] \in {"falhou", "devolvido"}
         \/ /\ UNCHANGED <<saldo, estornado>> /\ estornado[s]
            /\ PodeCair \/ banco[s] \in SemOrdem,
         UNCHANGED <<banco, avisoOk>>, Aberta(s)
  PROVE  Promessa!Falhar(s)
<1>0. TypeDinheiro /\ TypeRegistro
  BY DEF SaidaInv, SaqueInv, TypeOK
<1>1. /\ tx[s] = "PROCESSANDO" /\ tx' = [tx EXCEPT ![s] = "FALHA"]
      /\ avisoFalha' = [avisoFalha EXCEPT ![s] = @ + 1]
  BY DEF SelarFalha, Aberta, Enviaveis
<1>2. avisoFalha[s] = 0
  BY <1>1 DEF SaidaInv, AvisoInv, AvisosContados, Finais
<1>3. avisoFalha' = [avisoFalha EXCEPT ![s] = 1]
  BY <1>1, <1>2
<1>4. CustoDe[s] = Total(s) /\ UNCHANGED OrdensVistas
  BY DEF CustoDe, OrdensVistas
<1>5. /\ saldo' = IF estornado[s] THEN saldo ELSE saldo + CustoDe[s]
      /\ estornado' = [estornado EXCEPT ![s] = TRUE]
  BY <1>0, <1>4 DEF Estornar, TypeDinheiro
<1>6. OrdensVistas[s] \notin {"viva", "pago"} \/ (PodeCair /\ estornado[s])
  BY OrdemVista DEF OrdemDe, SemOrdem
<1> QED BY <1>1, <1>3, <1>4, <1>5, <1>6 DEF Promessa!Falhar, Promessa!Custosas

LEMMA ConcluirVisto ==
  ASSUME SaidaInv, NEW s \in Pedidos, tx[s] = "PROCESSANDO",
         banco[s] \in {"pago", "devolvido"}, tx' = [tx EXCEPT ![s] = "CONCLUIDA"],
         UNCHANGED <<saldo, banco, estornado, avisoOk, avisoFalha>>
  PROVE  Promessa!Concluir(s)
<1>1. PodeCair \/ ~estornado[s]
  BY PagoNaoDevolvido DEF SemOrdem
<1>2. OrdensVistas[s] \in {"pago", "devolvido"} /\ UNCHANGED OrdensVistas
  BY OrdemVista DEF OrdemDe, OrdensVistas
<1> QED BY <1>1, <1>2 DEF Promessa!Concluir

LEMMA AvisarVisto ==
  ASSUME SaidaInv, NEW s \in Pedidos, AvisoDevido(s),
         avisoOk' = [avisoOk EXCEPT ![s] = @ + 1],
         UNCHANGED <<saldo, tx, banco, estornado, avisoFalha>>
  PROVE  Promessa!Avisar(s)
<1>1. avisoOk' = [avisoOk EXCEPT ![s] = 1] /\ UNCHANGED OrdensVistas
  BY DEF AvisoDevido, OrdensVistas
<1> QED BY <1>1 DEF AvisoDevido, Promessa!Avisar

(* Webhook and sweep: the commit of FALHA with its refund.                   *)
LEMMA EncerrarVisto ==
  ASSUME SaidaInv, NEW s \in Pedidos, EncerrarComoFalha(s),
         banco[s] \in {"falhou", "devolvido"}, UNCHANGED <<banco, avisoOk>>
  PROVE  Promessa!Falhar(s) \/ VistoPara
<1>1. CASE Aberta(s)
  BY <1>1, FalharVisto DEF EncerrarComoFalha
<1>2. CASE ~Aberta(s)
  BY <1>2, NadaSeVe DEF EncerrarComoFalha
<1> QED BY <1>1, <1>2

(* The steps of the withdrawal of Saida.                                     *)
Visivel(s) ==
  \/ Promessa!Pedir(s) \/ Promessa!Mandar(s) \/ Promessa!Mover(s)
  \/ Promessa!Devolver(s) \/ Promessa!Falhar(s) \/ Promessa!Concluir(s)
  \/ Promessa!Avisar(s)

LEMMA WorkerVisto ==
  ASSUME SaidaInv, NEW w \in Workers,
         \/ Reivindicar(w) \/ Postar(w) \/ GuardarAceite(w) \/ DesfazerTentativa(w)
         \/ CongelarAmbiguo(w) \/ EstornarRecusa(w) \/ SelarRecusa(w)
         \/ Bloquear(w) \/ SelarBloqueio(w)
  PROVE  Visivel(alvo[w]) \/ VistoPara
<1> DEFINE s == alvo[w]
<1>0. /\ s \in Pedidos /\ TypeRegistro /\ FaseSabe /\ OrdemTemTentativa
  BY DEF SaidaInv, SaqueInv, TypeOK, TypeWorker, Nucleo
<1>1. CASE Postar(w)
  BY <1>1, MandarVisto DEF Visivel
<1>2. CASE GuardarAceite(w)
  <2>1. tx' = tx
    BY <1>0, <1>2 DEF GuardarAceite, Promovida, Enviaveis, TypeRegistro
  <2> QED BY <1>2, <2>1, NadaSeVe DEF GuardarAceite
<1>3. CASE Reivindicar(w) \/ DesfazerTentativa(w) \/ CongelarAmbiguo(w)
  BY <1>3, NadaSeVe DEF Reivindicar, DesfazerTentativa, CongelarAmbiguo
<1>4. CASE EstornarRecusa(w)
  <2>1. CASE UNCHANGED dinheiro
    BY <1>4, <2>1, NadaSeVe DEF EstornarRecusa
  <2>2. CASE Estornar(s) /\ tx[s] = "PROCESSANDO"
    <3>1. banco[s] \in SemOrdem /\ UNCHANGED <<tx, banco, avisoOk, avisoFalha>>
      BY <1>0, <1>4 DEF EstornarRecusa, FaseSabe, SemOrdem
    <3> QED BY <1>0, <2>2, <3>1, DevolverVisto DEF Visivel
  <2> QED BY <1>4, <2>1, <2>2 DEF EstornarRecusa, Enviaveis
<1>5. CASE Bloquear(w)
  <2>1. CASE UNCHANGED dinheiro
    BY <1>5, <2>1, NadaSeVe DEF Bloquear
  <2>2. CASE Estornar(s) /\ tx[s] = "PROCESSANDO" /\ ~Ativa(s)
    <3>1. banco[s] \in SemOrdem /\ UNCHANGED <<tx, banco, avisoOk, avisoFalha>>
      BY <1>0, <1>5, <2>2 DEF Bloquear, OrdemTemTentativa
    <3> QED BY <1>0, <2>2, <3>1, DevolverVisto DEF Visivel
  <2> QED BY <1>5, <2>1, <2>2 DEF Bloquear, Enviaveis, OrdemFora
<1>6. CASE SelarRecusa(w) \/ SelarBloqueio(w)
  <2>1. SelarFalha(s) /\ UNCHANGED <<dinheiro, banco, avisoOk>>
    BY <1>6 DEF SelarRecusa, SelarBloqueio
  <2>2. CASE ~Aberta(s)
    BY <2>1, <2>2, NadaSeVe DEF SelarFalha
  <2>3. CASE Aberta(s)
    <3>1. estornado[s] /\ (PodeCair \/ banco[s] \in SemOrdem)
      BY <1>0, <1>6 DEF SelarRecusa, SelarBloqueio, FaseSabe, SemOrdem, SaidaInv,
         SeloSemOrdem
    <3> QED BY <1>0, <2>1, <2>3, <3>1, FalharVisto DEF Visivel
  <2> QED BY <2>2, <2>3
<1> QED BY <1>1, <1>2, <1>3, <1>4, <1>5, <1>6

LEMMA ConfirmarVisto ==
  ASSUME SaidaInv, NEW h \in Ganchos, Confirmar(h)
  PROVE  Visivel(gAlvo[h]) \/ VistoPara
<1> DEFINE s == gAlvo[h]
<1>1. s \in Pedidos /\ UNCHANGED <<banco, avisoOk>>
  BY DEF SaidaInv, SaqueInv, TypeOK, TypeGancho, Confirmar
<1>2. CASE UNCHANGED <<dinheiro, tx, avisoFalha>>
  BY <1>1, <1>2, NadaSeVe
<1>3. CASE EncerrarComoFalha(s) /\ banco[s] \in {"falhou", "devolvido"}
  BY <1>1, <1>3, EncerrarVisto DEF Visivel
<1>4. CASE /\ Aberta(s) /\ tx' = [tx EXCEPT ![s] = "CONCLUIDA"]
           /\ banco[s] \in {"pago", "devolvido"} /\ UNCHANGED <<dinheiro, avisoFalha>>
  BY <1>1, <1>4, ConcluirVisto DEF Visivel, Aberta, Enviaveis
<1> QED BY <1>2, <1>3, <1>4, ConfirmarFaz DEF SaidaInv

LEMMA ConciliarVisto ==
  ASSUME SaidaInv, NEW s \in Pedidos, Conciliar(s)
  PROVE  Visivel(s) \/ VistoPara
<1>1. tx[s] = "PROCESSANDO" /\ UNCHANGED <<banco, avisoOk>>
  BY DEF Conciliar, Consultavel
<1>2. CASE EncerrarComoFalha(s) /\ banco[s] \in {"falhou", "devolvido"}
  BY <1>1, <1>2, EncerrarVisto DEF Visivel
<1>3. CASE /\ banco[s] = "pago" /\ tx' = [tx EXCEPT ![s] = "CONCLUIDA"]
           /\ UNCHANGED <<dinheiro, avisoFalha>>
  BY <1>1, <1>3, ConcluirVisto DEF Visivel
<1> QED BY <1>2, <1>3 DEF Conciliar

LEMMA AnuncioVisto ==
  ASSUME SaidaInv, NEW s \in Pedidos,
         \/ AvisarConciliada(s)
         \/ \E h \in Ganchos : gAlvo[h] = s /\ Avisar(h)
  PROVE  Visivel(s)
<1>1. AvisoDevido(s)
  BY DEF SaidaInv, AvisoInv, AvisosDevidos, AvisarConciliada, Avisar
<1>2. /\ avisoOk' = [avisoOk EXCEPT ![s] = @ + 1]
      /\ UNCHANGED <<saldo, tx, banco, estornado, avisoFalha>>
  BY DEF AvisarConciliada, Avisar
<1> QED BY <1>1, <1>2, AvisarVisto DEF Visivel

(* Every step of requests, queue, worker, liquidante, webhook and sweep is a *)
(* step of the withdrawal of Saida, or nothing the merchant sees.           *)
LEMMA PassoVisto ==
  ASSUME SaidaInv, [Next]_vars
  PROVE  Promessa!Next \/ VistoPara
<1>0. SaqueInv
  BY DEF SaidaInv
<1>1. ASSUME NEW s \in Pedidos, Visivel(s)
      PROVE  Promessa!Next
  BY <1>1 DEF Visivel, Promessa!Next
<1>2. CASE UNCHANGED <<saldo, tx, banco, estornado, avisoOk, avisoFalha>>
  BY <1>2, NadaSeVe
<1>3. ASSUME NEW p \in Pedidos, Criar(p)
      PROVE  Promessa!Next \/ VistoPara
  BY <1>1, <1>3, PedirVisto DEF Visivel
<1>4. ASSUME NEW w \in Workers,
             \/ Reivindicar(w) \/ Postar(w) \/ GuardarAceite(w) \/ DesfazerTentativa(w)
             \/ CongelarAmbiguo(w) \/ EstornarRecusa(w) \/ SelarRecusa(w)
             \/ Bloquear(w) \/ SelarBloqueio(w)
      PROVE  Promessa!Next \/ VistoPara
  <2>1. alvo[w] \in Pedidos
    BY <1>0 DEF SaqueInv, TypeOK, TypeWorker
  <2> QED BY <1>1, <1>4, <2>1, WorkerVisto
<1>5. ASSUME NEW s \in Pedidos, Chegar(s) \/ Perder(s) \/ Pagar(s) \/ Falhar(s) \/ Devolver(s)
      PROVE  Promessa!Next \/ VistoPara
  <2>1. Promessa!Mover(s) \/ VistoPara
    BY <1>5, MoverVisto DEF Chegar, Perder, Pagar, Falhar, Devolver
  <2> QED BY <1>1, <2>1 DEF Visivel
<1>6. ASSUME NEW h \in Ganchos, Confirmar(h) \/ Avisar(h)
      PROVE  Promessa!Next \/ VistoPara
  <2>1. gAlvo[h] \in Pedidos
    BY <1>0 DEF SaqueInv, TypeOK, TypeGancho
  <2> QED BY <1>1, <1>6, <2>1, ConfirmarVisto, AnuncioVisto
<1>7. ASSUME NEW s \in Pedidos, Conciliar(s) \/ AvisarConciliada(s)
      PROVE  Promessa!Next \/ VistoPara
  BY <1>1, <1>7, ConciliarVisto, AnuncioVisto
<1> QED BY <1>2, <1>3, <1>4, <1>5, <1>6, <1>7
      DEF Next, PreChecar, Replay, Enfileirar, PerderEnfileirar, IniciarJob, ErroInfra,
          CairWorker, Estagnar, RetentarAMao, Receber, CairGancho, ReenfileirarOrfao,
          LerOrfaos, CairConciliacao, MudarRegras

(* In every reachable state a refund that is not sealed belongs to a         *)
(* withdrawal without an order, unless something fell, and an announcement  *)
(* is owed once.                                                            *)
THEOREM SaidaIntegra == Spec => []SaidaInv
<1>1. Init => SaidaInv
  BY SaidaComeca
<1>2. SaidaInv /\ [Next]_vars => SaidaInv'
  BY SaidaPasso
<1> QED BY <1>1, <1>2, PTL DEF Spec

(* Requests, queues, workers, webhooks, sweeps, retries and crashes          *)
(* disappear: what the merchant sees of the machinery is a withdrawal that   *)
(* is charged once, sent once at most, and paid or refunded and told once.  *)
THEOREM SaqueImplementaSaida == Spec => ImplementaSaida
<1>1. Init => Promessa!Init
  <2> SUFFICES ASSUME Init PROVE Promessa!Init
    OBVIOUS
  <2>1. OrdensVistas = [s \in Pedidos |-> "nenhuma"]
    BY DEF Init, OrdensVistas, OrdemDe
  <2> QED BY <2>1 DEF Init, Promessa!Init
<1>2. SaidaInv /\ [Next]_vars => [Promessa!Next]_Visto
  BY PassoVisto DEF VistoPara
<1> QED BY <1>1, <1>2, SaidaIntegra, PTL
        DEF Spec, ImplementaSaida, Promessa!Spec, Promessa!vars, Visto
=============================================================================
