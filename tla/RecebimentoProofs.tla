------------------------- MODULE RecebimentoProofs -------------------------
(* Received money, for any number of sales, holds, sessions and postbacks:  *)
(* RecebimentoInv is inductive, and with it the properties the runs check.  *)
EXTENDS Recebimento, SomasProofs, TLAPS

(* The first hold of a list is one of the list.                             *)
LEMMA MinDe == ASSUME NEW S, S \subseteq Nat, S # {} PROVE Min(S) \in S
BY TemMenor DEF Min

LEMMA MenorDeDois ==
  ASSUME NEW a \in Int, NEW b \in Int
  PROVE  Min({a, b}) \in Int /\ Min({a, b}) \in {a, b}
<1>1. \E x \in {a, b} : \A y \in {a, b} : x <= y
  OBVIOUS
<1> QED BY <1>1 DEF Min

-----------------------------------------------------------------------------
(* Captures.  One more of them adds its value to its own hold.              *)
LEMMA MaisUmaCaptura ==
  ASSUME IsFiniteSet(capturas), capturas \subseteq Captura, NEW m \in Captura,
         m \notin capturas, capturas' = capturas \cup {m}, NEW b
  PROVE  /\ SomaCapturas(b) \in Int
         /\ m.b = b => SomaCapturas(b)' = SomaCapturas(b) + m.valor
         /\ m.b # b => SomaCapturas(b)' = SomaCapturas(b)
<1> DEFINE n == capturas \cup {m}
           f == [x \in capturas |-> x.valor]
           g == [x \in n |-> x.valor]
           S == {x \in capturas : x.b = b}
           R == {x \in n : x.b = b}
<1>1. /\ IsFiniteSet(S) /\ m \notin S
      /\ R = IF m.b = b THEN S \cup {m} ELSE S
  BY FS_Subset
<1>2. /\ \A x \in S : f[x] = g[x] /\ f[x] \in Int /\ g[x] \in Int
      /\ g[m] = m.valor /\ g[m] \in Int
  BY DEF Captura
<1>3. SomaCapturas(b) = SumFunctionOnSet(f, S)
      /\ SomaCapturas(b)' = SumFunctionOnSet(g, R)
  BY DEF SomaCapturas
<1> HIDE DEF n, f, g, S, R
<1>4. SumFunctionOnSet(f, S) = SumFunctionOnSet(g, S)
  BY <1>1, <1>2, SomaIgual
<1>5. SumFunctionOnSet(f, S) \in Int
  BY <1>1, <1>2, SomaInteira
<1>6. SumFunctionOnSet(g, S \cup {m}) = SumFunctionOnSet(g, S) + g[m]
  BY <1>1, <1>2, SomaMaisUm
<1> QED BY <1>1, <1>2, <1>3, <1>4, <1>5, <1>6

LEMMA SemCapturas == capturas = {} => \A b : SomaCapturas(b) = 0
<1> SUFFICES ASSUME capturas = {}, NEW b PROVE SomaCapturas(b) = 0
  OBVIOUS
<1>1. {m \in capturas : m.b = b} = {}
  OBVIOUS
<1> QED BY <1>1, SomaVazia DEF SomaCapturas

-----------------------------------------------------------------------------
(* The service of the holds: what each of its steps does to BloqueioInv.    *)
LEMMA BloqueioParado ==
  ASSUME BloqueioInv, UNCHANGED <<manual, bloq, capturas, desfechos>>,
         disp' \in Int, UNCHANGED cap
  PROVE  BloqueioInv'
<1>1. BloqueioTypeOK'
  BY DEF BloqueioInv, BloqueioTypeOK
<1>2. \A b : SomaCapturas(b)' = SomaCapturas(b)
  BY DEF SomaCapturas
<1>3. LinhaIgualExtrato'
  BY <1>2 DEF BloqueioInv, LinhaIgualExtrato, Ativos
<1> QED BY <1>1, <1>3 DEF BloqueioInv, PosicaoOK, Lista, PosicaoDe, Capturando,
                          OrigemGasta, JaAplicada

(* A session moves inside the service, alone.                               *)
Andando(s, c) ==
  /\ PosicaoOK(c) /\ PosicaoDe(c)
  /\ c.pc \in {"listar", "ler", "mover"} =>
       /\ \A t \in Sessoes \ {s} : ~(Capturando(t) /\ cap[t].origem = c.origem)
       /\ \A b \in Bloqueios : c.origem = <<"criacao", b>> => bloq[b].sit # "nenhum"

LEMMA CursorDinheiro ==
  ASSUME BloqueioInv, NEW s \in Sessoes, NEW c, cap' = [cap EXCEPT ![s] = c],
         UNCHANGED <<bloq, capturas>>, disp' \in Int, manual' \in Nat,
         desfechos' \subseteq Desfecho, Andando(s, c)
  PROVE  BloqueioInv'
<1>1. BloqueioTypeOK'
  BY DEF BloqueioInv, BloqueioTypeOK
<1>2. LinhaIgualExtrato'
  <2>1. \A b : SomaCapturas(b)' = SomaCapturas(b)
    BY DEF SomaCapturas
  <2> QED BY <2>1 DEF BloqueioInv, LinhaIgualExtrato, Ativos
<1>3. cap'[s] = c /\ DOMAIN cap' = Sessoes /\ \A t \in Sessoes \ {s} : cap'[t] = cap[t]
  BY DEF BloqueioInv
<1>4. \A t \in Sessoes : PosicaoOK(cap[t])' /\ PosicaoDe(cap[t])'
  <2> SUFFICES ASSUME NEW t \in Sessoes
               PROVE  PosicaoOK(cap[t])' /\ PosicaoDe(cap[t])'
    OBVIOUS
  <2>1. CASE t = s
    BY <1>3, <2>1 DEF Andando, PosicaoOK, Lista, PosicaoDe, JaAplicada
  <2>2. CASE t # s
    BY <1>3, <2>2 DEF BloqueioInv, PosicaoOK, Lista, PosicaoDe, JaAplicada
  <2> QED BY <2>1, <2>2
<1>5. \A t, u \in Sessoes :
        (Capturando(t) /\ Capturando(u) /\ cap[t].origem = cap[u].origem)' => t = u
  BY <1>3 DEF BloqueioInv, Andando, Capturando
<1>6. \A b \in Bloqueios : OrigemGasta(<<"criacao", b>>)' => bloq'[b].sit # "nenhum"
  BY <1>3 DEF BloqueioInv, Andando, Capturando, OrigemGasta
<1> QED BY <1>1, <1>2, <1>3, <1>4, <1>5, <1>6 DEF BloqueioInv

LEMMA CursorAnda ==
  ASSUME BloqueioInv, NEW s \in Sessoes, NEW c, cap' = [cap EXCEPT ![s] = c],
         UNCHANGED <<manual, bloq, capturas, desfechos>>, disp' \in Int,
         Andando(s, c)
  PROVE  BloqueioInv'
BY CursorDinheiro DEF BloqueioInv, BloqueioTypeOK

LEMMA CapturaComeca ==
  ASSUME BloqueioInv, NEW s \in Sessoes, NEW o \in Origens, ParaCapturar(s, o),
         UNCHANGED <<manual, bloq, capturas, desfechos>>, disp' \in Int,
         ~OrigemGasta(o), \A b \in Bloqueios : o # <<"criacao", b>>
  PROVE  BloqueioInv'
<1> DEFINE c == [pc |-> "listar", origem |-> o]
<1>1. PosicaoOK(c) /\ PosicaoDe(c)
  BY DEF PosicaoOK, PosicaoDe, OrigemGasta
<1>2. Andando(s, c)
  BY <1>1 DEF Andando, OrigemGasta
<1> QED BY <1>2, CursorAnda DEF ParaCapturar

LEMMA CriarMantem ==
  ASSUME BloqueioInv, NEW s \in Sessoes, NEW b \in Bloqueios,
         <<"criacao", b>> \in Origens, Criar(s, b, <<"criacao", b>>)
  PROVE  BloqueioInv'
<1> DEFINE o == <<"criacao", b>>
<1> USE DEF Criar, ParaCapturar
<1>1. bloq'[b] = [sit |-> "ATIVO", preso |-> 0, falta |-> ValorDo[b]]
      /\ \A a \in Bloqueios \ {b} : bloq'[a] = bloq[a]
  BY DEF BloqueioInv, BloqueioTypeOK
<1>2. BloqueioTypeOK'
  <2>1. ValorDo[b] \in Int
    BY BloqueioAssumption
  <2>2. bloq'[b] \in [sit : {"nenhum", "ATIVO", "LIBERADO", "DEBITADO"}, preso : Nat, falta : Int]
    BY <1>1, <2>1
  <2> QED BY <2>2 DEF BloqueioInv, BloqueioTypeOK
<1>3. LinhaIgualExtrato'
  <2>1. \A a : SomaCapturas(a)' = SomaCapturas(a)
    BY DEF SomaCapturas
  <2>2. SomaCapturas(b) = 0
    BY DEF BloqueioInv, LinhaIgualExtrato
  <2> QED BY <1>1, <2>1, <2>2, BloqueioAssumption DEF BloqueioInv, LinhaIgualExtrato, Ativos
<1>4. ~OrigemGasta(o)
  BY DEF BloqueioInv
<1>5. cap'[s] = [pc |-> "listar", origem |-> o] /\ DOMAIN cap' = Sessoes
      /\ \A t \in Sessoes \ {s} : cap'[t] = cap[t]
  BY DEF BloqueioInv
<1>6. \A t \in Sessoes : PosicaoOK(cap[t])' /\ PosicaoDe(cap[t])'
  <2> SUFFICES ASSUME NEW t \in Sessoes
               PROVE  PosicaoOK(cap[t])' /\ PosicaoDe(cap[t])'
    OBVIOUS
  <2>1. CASE t = s
    BY <1>4, <1>5, <2>1 DEF PosicaoOK, PosicaoDe, OrigemGasta
  <2>2. CASE t # s
    <3>1. PosicaoOK(cap[t]) /\ PosicaoDe(cap[t])
      BY DEF BloqueioInv
    <3>2. \A a \in Bloqueios : bloq[a].sit # "nenhum" => bloq'[a].sit # "nenhum"
      BY <1>1
    <3>3. cap[t].pc \in {"ler", "mover"} => cap[t].fila \subseteq Bloqueios
      BY <3>1 DEF PosicaoOK, Lista, Parada
    <3>4. cap[t].pc \in {"soltar", "encerrar"} => cap[t].b \in Bloqueios
      BY <3>1 DEF PosicaoOK, Lista, Parada
    <3> QED BY <1>5, <2>2, <3>1, <3>2, <3>3, <3>4 DEF PosicaoOK, Lista, PosicaoDe, JaAplicada
  <2> QED BY <2>1, <2>2
<1>7. \A t, u \in Sessoes :
        (Capturando(t) /\ Capturando(u) /\ cap[t].origem = cap[u].origem)' => t = u
  BY <1>4, <1>5 DEF BloqueioInv, OrigemGasta, Capturando
<1>8. \A a \in Bloqueios : bloq'[a].sit = "nenhum" => bloq'[a].preso = 0
  BY <1>1 DEF BloqueioInv
<1>9. \A a \in Bloqueios : OrigemGasta(<<"criacao", a>>)' => bloq'[a].sit # "nenhum"
  BY <1>1, <1>5 DEF BloqueioInv, OrigemGasta, Capturando
<1> QED BY <1>2, <1>3, <1>5, <1>6, <1>7, <1>8, <1>9 DEF BloqueioInv

LEMMA ListarMantem ==
  ASSUME BloqueioInv, NEW s \in Sessoes, Listar(s)
  PROVE  BloqueioInv'
<1> DEFINE fila == {b \in Ativos : bloq[b].falta > 0}
           c == [pc |-> "ler", origem |-> cap[s].origem, fila |-> fila,
                 falta |-> [b \in fila |-> bloq[b].falta]]
<1>1. fila \subseteq Bloqueios /\ \A b \in fila : bloq[b].sit # "nenhum" /\ bloq[b].falta \in Int
  BY DEF BloqueioInv, BloqueioTypeOK, Ativos
<1>2. /\ cap[s].pc = "listar" /\ cap[s].origem \in Origens
      /\ \A m \in capturas : m.origem # cap[s].origem
  BY DEF Listar, BloqueioInv, PosicaoOK, PosicaoDe, Parada
<1> HIDE DEF fila
<1>3. Lista(c)
  BY <1>1, <1>2 DEF Lista
<1>4. PosicaoOK(c)
  BY <1>3 DEF PosicaoOK
<1>5. PosicaoDe(c)
  BY <1>1, <1>2 DEF PosicaoDe, JaAplicada
<1>6. Andando(s, c)
  BY <1>2, <1>4, <1>5 DEF Andando, BloqueioInv, Capturando, OrigemGasta
<1>7. cap' = [cap EXCEPT ![s] = c] /\ UNCHANGED <<disp, manual, bloq, capturas, desfechos>>
  BY DEF Listar, fila
<1> QED BY <1>6, <1>7, CursorAnda DEF BloqueioInv, BloqueioTypeOK

LEMMA LerMantem ==
  ASSUME BloqueioInv, NEW s \in Sessoes, LerSaldoDisponivel(s)
  PROVE  BloqueioInv'
<1> DEFINE c == cap[s]
           b == Min(c.fila)
           mover == Min({disp, c.falta[b]})
<1>1. /\ c.pc = "ler" /\ Lista(c) /\ PosicaoDe(c)
      /\ c = [pc |-> "ler", origem |-> c.origem, fila |-> c.fila, falta |-> c.falta]
  BY DEF LerSaldoDisponivel, BloqueioInv, PosicaoOK, Parada
<1>2. UNCHANGED <<disp, manual, bloq, capturas, desfechos>> /\ disp' \in Int
  BY DEF LerSaldoDisponivel, BloqueioInv, BloqueioTypeOK
<1>3. Andando(s, Parada)
  BY DEF Andando, PosicaoOK, PosicaoDe, Parada
<1>4. CASE cap' = [cap EXCEPT ![s] = Parada]
  BY <1>2, <1>3, <1>4, CursorAnda
<1>5. CASE ~(cap' = [cap EXCEPT ![s] = Parada])
  <2>1. c.fila # {} /\ ~(mover <= 0)
        /\ cap' = [cap EXCEPT ![s] =
             IF JaAplicada(b, c.origem) THEN [c EXCEPT !.fila = @ \ {b}]
             ELSE [pc |-> "mover", origem |-> c.origem, fila |-> c.fila,
                   falta |-> c.falta, b |-> b, valor |-> mover]]
    BY <1>5 DEF LerSaldoDisponivel
  <2>2. b \in c.fila
    BY <1>1, <2>1, MinDe, BloqueioAssumption DEF Lista
  <2>3. mover \in Nat \ {0}
    <3>1. disp \in Int /\ c.falta[b] \in Int
      BY <1>1, <2>2 DEF BloqueioInv, BloqueioTypeOK, Lista, PosicaoDe
    <3>2. mover \in Int
      BY <3>1, MenorDeDois
    <3> QED BY <2>1, <3>2
  <2> HIDE DEF b, mover
  <2>4. c.origem \in Origens /\ \A t \in Sessoes \ {s} : ~(Capturando(t) /\ cap[t].origem = c.origem)
    BY <1>1 DEF BloqueioInv, Capturando, Lista
  <2>5. \A a \in Bloqueios : c.origem = <<"criacao", a>> => bloq[a].sit # "nenhum"
    BY <1>1 DEF BloqueioInv, Capturando, OrigemGasta
  <2>6. CASE JaAplicada(b, c.origem)
    <3> DEFINE d == [pc |-> "ler", origem |-> c.origem, fila |-> c.fila \ {b}, falta |-> c.falta]
    <3>1. cap' = [cap EXCEPT ![s] = d]
      <4>1. PICK o, f, g : c = [pc |-> "ler", origem |-> o, fila |-> f, falta |-> g]
        BY <1>1
      <4>2. [c EXCEPT !.fila = @ \ {b}] = d
        <5> HIDE DEF c
        <5> QED BY <4>1
      <4> QED BY <2>1, <2>6, <4>2
    <3>2. Lista(d)
      BY <1>1 DEF Lista
    <3>3. PosicaoOK(d)
      BY <3>2 DEF PosicaoOK
    <3>4. PosicaoDe(d)
      BY <1>1 DEF PosicaoDe
    <3>5. Andando(s, d)
      BY <2>4, <2>5, <3>3, <3>4 DEF Andando
    <3> HIDE DEF d
    <3> QED BY <1>2, <3>1, <3>5, CursorAnda
  <2>7. CASE ~JaAplicada(b, c.origem)
    <3> DEFINE d == [pc |-> "mover", origem |-> c.origem, fila |-> c.fila,
                     falta |-> c.falta, b |-> b, valor |-> mover]
    <3>1. cap' = [cap EXCEPT ![s] = d]
      BY <2>1, <2>7
    <3>2. Lista(d) /\ d.b \in d.fila /\ d.valor \in Nat \ {0}
      BY <1>1, <2>2, <2>3 DEF Lista
    <3>3. PosicaoOK(d)
      BY <3>2 DEF PosicaoOK
    <3>4. PosicaoDe(d)
      BY <1>1 DEF PosicaoDe
    <3>5. Andando(s, d)
      BY <2>4, <2>5, <3>3, <3>4 DEF Andando
    <3> HIDE DEF d
    <3> QED BY <1>2, <3>1, <3>5, CursorAnda
  <2> QED BY <2>6, <2>7
<1> QED BY <1>4, <1>5

LinhaDeBloqueio ==
  [sit : {"nenhum", "ATIVO", "LIBERADO", "DEBITADO"}, preso : Nat, falta : Int]

LEMMA CapturaNaLinha ==
  ASSUME NEW r \in LinhaDeBloqueio, NEW v \in Nat
  PROVE  LinhaCapturada(r, v) =
           [sit |-> r.sit, preso |-> r.preso + v, falta |-> r.falta - v]
<1>1. PICK a, b, c : r = [sit |-> a, preso |-> b, falta |-> c]
  BY DEF LinhaDeBloqueio
<1>2. PICK q : q = [r EXCEPT !.preso = r.preso + v]
  OBVIOUS
<1>3. q = [sit |-> a, preso |-> b + v, falta |-> c]
  BY <1>1, <1>2
<1>4. [q EXCEPT !.falta = r.falta - v] = [sit |-> a, preso |-> b + v, falta |-> c - v]
  BY <1>1, <1>3
<1>5. LinhaCapturada(r, v) = [q EXCEPT !.falta = r.falta - v]
  BY <1>2, Zenon DEF LinhaCapturada
<1> QED BY <1>1, <1>4, <1>5

LEMMA FimNaLinha ==
  ASSUME NEW r \in LinhaDeBloqueio, NEW tipo
  PROVE  [r EXCEPT !.sit = tipo, !.falta = 0] =
           [sit |-> tipo, preso |-> r.preso, falta |-> 0]
<1>1. PICK a, b, c : r = [sit |-> a, preso |-> b, falta |-> c]
  BY DEF LinhaDeBloqueio
<1>2. PICK q : q = [r EXCEPT !.sit = tipo]
  OBVIOUS
<1>3. q = [sit |-> tipo, preso |-> b, falta |-> c]
  BY <1>1, <1>2
<1>4. [q EXCEPT !.falta = 0] = [sit |-> tipo, preso |-> b, falta |-> 0]
  BY <1>3
<1>5. [r EXCEPT !.sit = tipo, !.falta = 0] = [q EXCEPT !.falta = 0]
  BY <1>2, Zenon
<1> QED BY <1>1, <1>4, <1>5

(* What a session knows of a hold stays true while no hold is unmade and no *)
(* capture is added under its own origin.                                   *)
LEMMA OutraPosicao ==
  ASSUME BloqueioInv, NEW t \in Sessoes, cap'[t] = cap[t],
         \A a \in Bloqueios : bloq[a].sit # "nenhum" => bloq'[a].sit # "nenhum",
         Capturando(t) => \A m \in capturas' : m.origem = cap[t].origem => m \in capturas
  PROVE  PosicaoOK(cap[t])' /\ PosicaoDe(cap[t])'
<1>1. PosicaoOK(cap[t]) /\ PosicaoDe(cap[t])
  BY DEF BloqueioInv
<1>2. cap[t].pc \in {"ler", "mover"} => cap[t].fila \subseteq Bloqueios
  BY <1>1 DEF PosicaoOK, Lista, Parada
<1>3. cap[t].pc \in {"soltar", "encerrar"} => cap[t].b \in Bloqueios
  BY <1>1 DEF PosicaoOK, Lista, Parada
<1> QED BY <1>1, <1>2, <1>3 DEF PosicaoOK, Lista, PosicaoDe, JaAplicada, Capturando

(* The commit of a capture: its key is new, so row and statement grow by    *)
(* the same value.                                                          *)
LEMMA MoverMantem ==
  ASSUME BloqueioInv, NEW s \in Sessoes, Mover(s)
  PROVE  BloqueioInv'
<1>1. PICK o, fila, falta, b, v :
        cap[s] = [pc |-> "mover", origem |-> o, fila |-> fila, falta |-> falta,
                  b |-> b, valor |-> v]
  BY DEF Mover, BloqueioInv, PosicaoOK, Parada
<1> DEFINE m == [b |-> b, origem |-> o, valor |-> v]
           d == [pc |-> "ler", origem |-> o, fila |-> fila \ {b}, falta |-> falta]
<1>2. /\ o \in Origens /\ fila \subseteq Bloqueios /\ falta \in [DOMAIN falta -> Int]
      /\ b \in fila /\ v \in Nat \ {0} /\ PosicaoDe(cap[s])
  BY <1>1 DEF Mover, BloqueioInv, PosicaoOK, Lista, Parada
<1>3. /\ b \in Bloqueios /\ bloq[b].sit # "nenhum" /\ ~JaAplicada(b, o)
      /\ \A a \in fila : a \in DOMAIN falta /\ bloq[a].sit # "nenhum" /\ ~JaAplicada(a, o)
  BY <1>1, <1>2 DEF PosicaoDe
<1>4. CASE disp < v
  <2>1. cap' = [cap EXCEPT ![s] = Parada]
        /\ UNCHANGED <<disp, manual, bloq, capturas, desfechos>>
    BY <1>1, <1>3, <1>4 DEF Mover
  <2>2. Andando(s, Parada)
    BY DEF Andando, PosicaoOK, PosicaoDe, Parada
  <2> QED BY <2>1, <2>2, CursorAnda DEF BloqueioInv, BloqueioTypeOK
<1>5. CASE ~(disp < v)
  <2>1. /\ disp' = disp - v /\ manual' = manual + v
        /\ capturas' = capturas \cup {m}
        /\ bloq' = [bloq EXCEPT ![b] = LinhaCapturada(@, v)]
        /\ cap' = [cap EXCEPT ![s] = d]
        /\ UNCHANGED desfechos
    BY <1>1, <1>3, <1>5 DEF Mover
  <2>2. m \in Captura /\ m \notin capturas /\ m.b = b /\ m.valor = v /\ m.origem = o
    BY <1>2, <1>3 DEF Captura, JaAplicada
  <2>3. /\ bloq[b] \in LinhaDeBloqueio /\ disp \in Int /\ manual \in Nat
        /\ bloq \in [Bloqueios -> LinhaDeBloqueio]
    BY <1>3 DEF BloqueioInv, BloqueioTypeOK, LinhaDeBloqueio
  <2>4. /\ bloq'[b] = [sit |-> bloq[b].sit, preso |-> bloq[b].preso + v,
                       falta |-> bloq[b].falta - v]
        /\ \A a \in Bloqueios \ {b} : bloq'[a] = bloq[a]
    BY <1>2, <1>3, <2>1, <2>3, CapturaNaLinha
  <2>5. BloqueioTypeOK'
    <3>1. disp' \in Int /\ manual' \in Nat
      BY <1>2, <2>1, <2>3
    <3>2. capturas' \subseteq Captura
      BY <2>1, <2>2 DEF BloqueioInv, BloqueioTypeOK
    <3>3. bloq'[b] \in LinhaDeBloqueio
      BY <1>2, <2>3, <2>4 DEF LinhaDeBloqueio
    <3>4. bloq' \in [Bloqueios -> LinhaDeBloqueio]
      BY <2>1, <2>3, <3>3
    <3> QED BY <2>1, <3>1, <3>2, <3>4 DEF BloqueioInv, BloqueioTypeOK, LinhaDeBloqueio
  <2>6. \A a : /\ b = a => SomaCapturas(a)' = SomaCapturas(a) + v
               /\ b # a => SomaCapturas(a)' = SomaCapturas(a)
    <3>1. IsFiniteSet(capturas) /\ capturas \subseteq Captura
      BY DEF BloqueioInv, BloqueioTypeOK
    <3> HIDE DEF m
    <3> QED BY <2>1, <2>2, <3>1, MaisUmaCaptura
  <2>7. LinhaIgualExtrato'
    <3> SUFFICES ASSUME NEW a \in Bloqueios
                 PROVE  /\ bloq'[a].preso = SomaCapturas(a)'
                        /\ bloq'[a].sit = "ATIVO" =>
                              bloq'[a].preso + bloq'[a].falta = ValorDo[a]
      BY DEF LinhaIgualExtrato, Ativos
    <3>1. bloq[a].preso = SomaCapturas(a)
          /\ (bloq[a].sit = "ATIVO" => bloq[a].preso + bloq[a].falta = ValorDo[a])
      BY DEF BloqueioInv, LinhaIgualExtrato, Ativos
    <3>2. CASE a = b
      <4>1. v \in Int /\ bloq[b].preso \in Int /\ bloq[b].falta \in Int
        BY <1>2, <2>3 DEF LinhaDeBloqueio
      <4> QED BY <2>4, <2>6, <3>1, <3>2, <4>1
    <3>3. CASE a # b
      BY <2>4, <2>6, <3>1, <3>3
    <3> QED BY <3>2, <3>3
  <2>8. cap'[s] = d /\ DOMAIN cap' = Sessoes /\ \A t \in Sessoes \ {s} : cap'[t] = cap[t]
    BY <2>1 DEF BloqueioInv
  <2>9. \A t \in Sessoes : PosicaoOK(cap[t])' /\ PosicaoDe(cap[t])'
    <3> SUFFICES ASSUME NEW t \in Sessoes
                 PROVE  PosicaoOK(cap[t])' /\ PosicaoDe(cap[t])'
      OBVIOUS
    <3>1. CASE t = s
      <4>1. Lista(d)
        BY <1>2 DEF Lista
      <4>2. PosicaoOK(d)
        BY <4>1 DEF PosicaoOK
      <4>3. \A a \in d.fila : /\ a \in DOMAIN d.falta /\ bloq'[a].sit # "nenhum"
                              /\ ~JaAplicada(a, d.origem)'
        BY <1>2, <1>3, <2>1, <2>2, <2>4 DEF JaAplicada
      <4>4. d.pc = "ler"
        OBVIOUS
      <4> HIDE DEF d
      <4>5. PosicaoOK(d)' /\ PosicaoDe(d)'
        BY <4>2, <4>3, <4>4 DEF PosicaoOK, PosicaoDe, JaAplicada, Lista
      <4> QED BY <2>8, <3>1, <4>5 DEF PosicaoOK, PosicaoDe, JaAplicada, Lista
    <3>2. CASE t # s
      <4>1. \A a \in Bloqueios : bloq[a].sit # "nenhum" => bloq'[a].sit # "nenhum"
        BY <2>4
      <4>2. Capturando(t) => cap[t].origem # o
        BY <1>1, <3>2 DEF BloqueioInv, Capturando
      <4>3. cap'[t] = cap[t]
        BY <2>8, <3>2
      <4>4. Capturando(t) => \A n \in capturas' : n.origem = cap[t].origem => n \in capturas
        BY <2>1, <2>2, <4>2
      <4> QED BY <4>1, <4>3, <4>4, OutraPosicao
    <3> QED BY <3>1, <3>2
  <2>10. \A t, u \in Sessoes :
           (Capturando(t) /\ Capturando(u) /\ cap[t].origem = cap[u].origem)' => t = u
    BY <1>1, <2>8 DEF BloqueioInv, Capturando
  <2>11. \A a \in Bloqueios : bloq'[a].sit = "nenhum" => bloq'[a].preso = 0
    BY <1>3, <2>4 DEF BloqueioInv
  <2>12. \A a \in Bloqueios : OrigemGasta(<<"criacao", a>>)' => bloq'[a].sit # "nenhum"
    BY <1>1, <2>1, <2>4, <2>8 DEF BloqueioInv, OrigemGasta, Capturando
  <2>13. IsFiniteSet(capturas')
    <3> HIDE DEF m
    <3> QED BY <2>1, FS_AddElement DEF BloqueioInv
  <2> QED BY <2>5, <2>7, <2>8, <2>9, <2>10, <2>11, <2>12, <2>13 DEF BloqueioInv
<1> QED BY <1>4, <1>5

LEMMA BuscarMantem ==
  ASSUME BloqueioInv, NEW s \in Sessoes, NEW b \in Bloqueios,
         NEW tipo \in {"LIBERADO", "DEBITADO"}, BuscarAtivo(s, b, tipo)
  PROVE  BloqueioInv'
<1> DEFINE d == [pc |-> IF bloq[b].preso > 0 THEN "soltar" ELSE "encerrar",
                 b |-> b, tipo |-> tipo, valor |-> bloq[b].preso]
<1>1. bloq[b].preso \in Nat /\ bloq[b].sit = "ATIVO"
  BY DEF BloqueioInv, BloqueioTypeOK, BuscarAtivo
<1>2. d \in [pc : {"soltar", "encerrar"}, b : Bloqueios,
             tipo : {"LIBERADO", "DEBITADO"}, valor : Nat]
  BY <1>1
<1>3. PosicaoOK(d)
  BY <1>2 DEF PosicaoOK
<1>4. PosicaoDe(d)
  BY <1>1 DEF PosicaoDe
<1>5. Andando(s, d)
  BY <1>3, <1>4 DEF Andando
<1> QED BY <1>5, CursorAnda DEF BuscarAtivo, BloqueioInv, BloqueioTypeOK

LEMMA SoltarMantem ==
  ASSUME BloqueioInv, NEW s \in Sessoes, Soltar(s)
  PROVE  BloqueioInv'
<1> DEFINE c == cap[s]
           d == [c EXCEPT !.pc = "encerrar"]
<1>1. /\ c.pc = "soltar" /\ bloq[c.b].sit # "nenhum"
      /\ c \in [pc : {"soltar", "encerrar"}, b : Bloqueios,
                tipo : {"LIBERADO", "DEBITADO"}, valor : Nat]
  BY DEF Soltar, BloqueioInv, PosicaoOK, PosicaoDe, Lista, Parada
<1>2. manual' \in Nat /\ disp' \in Int /\ desfechos' \subseteq Desfecho
      /\ UNCHANGED <<bloq, capturas>>
  <2>1. [b |-> c.b, tipo |-> c.tipo, valor |-> c.valor] \in Desfecho
    BY <1>1 DEF Desfecho
  <2>2. disp \in Int /\ manual \in Nat /\ c.valor \in Nat /\ desfechos \subseteq Desfecho
    BY <1>1 DEF BloqueioInv, BloqueioTypeOK
  <2> QED BY <2>1, <2>2 DEF Soltar
<1>3. cap' = [cap EXCEPT ![s] = Parada] \/ cap' = [cap EXCEPT ![s] = d]
  BY DEF Soltar
<1>4. Andando(s, Parada) /\ Andando(s, d)
  <2>1. d = [pc |-> "encerrar", b |-> c.b, tipo |-> c.tipo, valor |-> c.valor]
    <3> HIDE DEF c
    <3> QED BY <1>1
  <2> HIDE DEF d
  <2>2. d \in [pc : {"soltar", "encerrar"}, b : Bloqueios,
               tipo : {"LIBERADO", "DEBITADO"}, valor : Nat]
    BY <1>1, <2>1
  <2>3. PosicaoOK(d) /\ PosicaoDe(d)
    BY <1>1, <2>1, <2>2 DEF PosicaoOK, PosicaoDe
  <2> QED BY <2>1, <2>3 DEF Andando, PosicaoOK, PosicaoDe, Parada
<1> HIDE DEF d
<1>5. PICK e : cap' = [cap EXCEPT ![s] = e] /\ Andando(s, e)
  BY <1>3, <1>4
<1> QED BY <1>2, <1>5, CursorDinheiro

LEMMA EncerrarMantem ==
  ASSUME BloqueioInv, NEW s \in Sessoes, Encerrar(s)
  PROVE  BloqueioInv'
<1> DEFINE c == cap[s]
           b == c.b
<1>1. /\ c.pc = "encerrar" /\ bloq[b].sit # "nenhum"
      /\ b \in Bloqueios /\ c.tipo \in {"LIBERADO", "DEBITADO"}
  BY DEF Encerrar, BloqueioInv, PosicaoOK, PosicaoDe, Lista, Parada
<1>2. /\ bloq' = [bloq EXCEPT ![b] = [@ EXCEPT !.sit = c.tipo, !.falta = 0]]
      /\ cap' = [cap EXCEPT ![s] = Parada]
      /\ UNCHANGED <<disp, manual, capturas, desfechos>>
  BY DEF Encerrar
<1>3. /\ bloq'[b].sit = c.tipo /\ bloq'[b].preso = bloq[b].preso
      /\ bloq'[b] \in LinhaDeBloqueio /\ \A a \in Bloqueios \ {b} : bloq'[a] = bloq[a]
  <2>1. bloq \in [Bloqueios -> LinhaDeBloqueio] /\ bloq[b] \in LinhaDeBloqueio
    BY <1>1 DEF BloqueioInv, BloqueioTypeOK, LinhaDeBloqueio
  <2>2. bloq'[b] = [sit |-> c.tipo, preso |-> bloq[b].preso, falta |-> 0]
        /\ \A a \in Bloqueios \ {b} : bloq'[a] = bloq[a]
    BY <1>1, <1>2, <2>1, FimNaLinha
  <2> HIDE DEF c, b
  <2> QED BY <1>1, <2>1, <2>2 DEF LinhaDeBloqueio
<1>4. BloqueioTypeOK'
  BY <1>2, <1>3 DEF BloqueioInv, BloqueioTypeOK, LinhaDeBloqueio
<1>5. LinhaIgualExtrato'
  <2>1. \A a : SomaCapturas(a)' = SomaCapturas(a)
    BY <1>2 DEF SomaCapturas
  <2>2. \A a \in Bloqueios : bloq'[a].preso = bloq[a].preso
        /\ (bloq'[a].sit = "ATIVO" => bloq'[a] = bloq[a])
    BY <1>1, <1>3
  <2> QED BY <2>1, <2>2 DEF BloqueioInv, LinhaIgualExtrato, Ativos
<1>6. cap'[s] = Parada /\ DOMAIN cap' = Sessoes /\ \A t \in Sessoes \ {s} : cap'[t] = cap[t]
  BY <1>2 DEF BloqueioInv
<1>7. \A t \in Sessoes : PosicaoOK(cap[t])' /\ PosicaoDe(cap[t])'
  <2> SUFFICES ASSUME NEW t \in Sessoes
               PROVE  PosicaoOK(cap[t])' /\ PosicaoDe(cap[t])'
    OBVIOUS
  <2>1. CASE t = s
    BY <1>6, <2>1 DEF PosicaoOK, PosicaoDe, Parada
  <2>2. CASE t # s
    <3>1. \A a \in Bloqueios : bloq[a].sit # "nenhum" => bloq'[a].sit # "nenhum"
      BY <1>1, <1>3
    <3> QED BY <1>2, <1>6, <2>2, <3>1, OutraPosicao
  <2> QED BY <2>1, <2>2
<1>8. \A t, u \in Sessoes :
        (Capturando(t) /\ Capturando(u) /\ cap[t].origem = cap[u].origem)' => t = u
  BY <1>6 DEF BloqueioInv, Capturando, Parada
<1>9. \A a \in Bloqueios : bloq'[a].sit = "nenhum" => bloq'[a].preso = 0
  BY <1>1, <1>3 DEF BloqueioInv
<1>10. \A a \in Bloqueios : OrigemGasta(<<"criacao", a>>)' => bloq'[a].sit # "nenhum"
  BY <1>1, <1>2, <1>3, <1>6 DEF BloqueioInv, OrigemGasta, Capturando, Parada
<1> QED BY <1>2, <1>4, <1>5, <1>6, <1>7, <1>8, <1>9, <1>10 DEF BloqueioInv

LEMMA PassoBloqueioMantem ==
  ASSUME BloqueioInv, NEW s \in Sessoes, PassoBloqueio(s)
  PROVE  BloqueioInv'
BY ListarMantem, LerMantem, MoverMantem, SoltarMantem, EncerrarMantem DEF PassoBloqueio

-----------------------------------------------------------------------------
(* Who changes what: each group of variables, and the actions that touch it. *)
EmHolds(s) == \/ CapturarCredito(s) \/ GravarLiberada(s) \/ SeguirBloqueio(s)
              \/ Interromper(s) \/ PedidoDeBloqueio(s)
EmCredito(s) == GravarCredito(s) \/ GravarRetida(s)
EmLib(s) == \/ GravarCredito(s) \/ MoverLiberacao(s) \/ GravarLiberada(s)
            \/ GravarFalha(s) \/ \E l \in Liberacoes : Reivindicar(s, l)
EmVelha(s) == AbrirCaso(s) \/ DebitarMed(s) \/ GravarMed(s)

Quadro ==
  /\ UNCHANGED <<manual, holds>> \/ \E s \in Sessoes : EmHolds(s)
  /\ UNCHANGED <<venda, creditos, pagoAvisado>> \/ \E s \in Sessoes : EmCredito(s)
  /\ UNCHANGED <<lib, soltas, pend, reservado>> \/ \E s \in Sessoes : EmLib(s)
  /\ UNCHANGED metodo \/ \E s \in Sessoes : Decidir(s)
  /\ UNCHANGED <<velha, debitoMed, avisoMed>> \/ \E s \in Sessoes : EmVelha(s)
  /\ \/ UNCHANGED disp \/ Sacar
     \/ \E s \in Sessoes : EmHolds(s) \/ GravarCredito(s) \/ MoverLiberacao(s) \/ DebitarMed(s)
  /\ UNCHANGED dias \/ MudarDias
  /\ UNCHANGED estado \/ \E s \in Sessoes : Avaliar(s) \/ GravarEstado(s)

LEMMA QuemMuda == [Next]_vars => Quadro
<1> USE DEF Quadro, EmHolds, EmCredito, EmLib, EmVelha, vars, entrada, holds, med
<1>1. CASE UNCHANGED vars
  BY <1>1
<1>2. ASSUME NEW s \in Sessoes, PassoMed(s) PROVE Quadro
  <2>1. CASE Avaliar(s)
    BY <2>1 DEF Avaliar
  <2>2. CASE AbrirCaso(s)
    BY <2>2 DEF AbrirCaso
  <2>3. CASE DebitarMed(s)
    BY <2>3 DEF DebitarMed
  <2>4. CASE GravarMed(s)
    BY <2>4 DEF GravarMed
  <2>5. CASE GravarEstado(s)
    BY <2>5 DEF GravarEstado
  <2> QED BY <1>2, <2>1, <2>2, <2>3, <2>4, <2>5 DEF PassoMed
<1>3. ASSUME NEW s \in Sessoes, PassoCredito(s), UNCHANGED med PROVE Quadro
  <2>1. CASE Decidir(s)
    BY <1>3, <2>1 DEF Decidir
  <2>2. CASE LerParaReter(s)
    BY <1>3, <2>2 DEF LerParaReter
  <2>3. CASE GravarRetida(s)
    BY <1>3, <2>3 DEF GravarRetida
  <2>4. CASE LerParaCreditar(s)
    BY <1>3, <2>4 DEF LerParaCreditar
  <2>5. CASE GravarCredito(s)
    <3>1. UNCHANGED <<manual, holds, soltas, metodo, dias>>
      BY <2>5 DEF GravarCredito
    <3> QED BY <1>3, <2>5, <3>1
  <2>6. CASE CapturarCredito(s)
    BY <1>3, <2>6 DEF CapturarCredito, IniciarCaptura
  <2> QED BY <1>3, <2>1, <2>2, <2>3, <2>4, <2>5, <2>6 DEF PassoCredito
<1>4. ASSUME NEW s \in Sessoes, UNCHANGED med,
             MoverLiberacao(s) \/ GravarLiberada(s) \/ GravarFalha(s) \/ Interromper(s)
      PROVE  Quadro
  BY <1>4 DEF MoverLiberacao, GravarLiberada, GravarFalha, Interromper
<1>5. ASSUME NEW s \in Sessoes, UNCHANGED med, SeguirBloqueio(s) \/ PedidoDeBloqueio(s)
      PROVE  Quadro
  BY <1>5 DEF SeguirBloqueio, PedidoDeBloqueio
<1>6. ASSUME NEW s \in Sessoes, UNCHANGED med, NEW w, IniciarAviso(s, w)
      PROVE  Quadro
  BY <1>6 DEF IniciarAviso
<1>7. ASSUME NEW s \in Sessoes, UNCHANGED med, NEW v, ConciliarEntrada(s, v) \/ LiberarRetida(s, v)
      PROVE  Quadro
  BY <1>7 DEF ConciliarEntrada, LiberarRetida
<1>8. ASSUME NEW s \in Sessoes, UNCHANGED med, NEW l \in Liberacoes, Reivindicar(s, l)
      PROVE  Quadro
  BY <1>8 DEF Reivindicar
<1>9. ASSUME UNCHANGED med, NEW w, Postback(w)
      PROVE  Quadro
  BY <1>9 DEF Postback
<1>10. ASSUME UNCHANGED med, MudarDias \/ Sacar
      PROVE  Quadro
  BY <1>10 DEF MudarDias, Sacar
<1> HIDE DEF Quadro, EmHolds, EmCredito, EmLib, EmVelha, vars, entrada, holds, med
<1> QED BY <1>1, <1>2, <1>3, <1>4, <1>5, <1>6, <1>7, <1>8, <1>9, <1>10 DEF Next, PassoLiberacao

-----------------------------------------------------------------------------
(* Where a session goes: every step moves at most one, and what it knows    *)
(* there follows from where it came from.                                   *)
Sucede(s, f) ==
  /\ FaseOK(f)
  /\ "l" \in DOMAIN f => \/ "l" \in DOMAIN fase[s] /\ f.l = fase[s].l
                         \/ Reivindicar(s, f.l)
  /\ f.pc = "capturar" => GravarCredito(s) /\ f.v = fase[s].v /\ ~Concluida(f.v)
  /\ f.pc \in EmMed => /\ {"o", "antes"} \subseteq DOMAIN f
                       /\ f.o \in Ontem /\ f.antes \in Nat
  /\ f.pc \in {"debitarMed", "gravarMed"} => velha'[f.o].caso # "nenhum"
  /\ f.pc = "gravarMed" => f.o \in debitoMed'

LEMMA MudaPc ==
  ASSUME NEW c, "pc" \in DOMAIN c, NEW p, NEW d, d = [c EXCEPT !.pc = p]
  PROVE  /\ DOMAIN d = DOMAIN c /\ d.pc = p
         /\ \A x \in DOMAIN c \ {"pc"} : d[x] = c[x]
OBVIOUS

(* Going on with the same data, at another place.                           *)
LEMMA SegueIgual ==
  ASSUME NEW c, FaseOK(c), NEW p, NEW d, d = [c EXCEPT !.pc = p],
         p \in ComVenda => c.pc \in ComVenda,
         c.pc \in ComLiberacao <=> p \in ComLiberacao,
         p \in ComVenda \cup ComLiberacao, p # "gravarCredito"
  PROVE  FaseOK(d) /\ d.pc = p /\ DOMAIN d = DOMAIN c
         /\ \A x \in DOMAIN c \ {"pc"} : d[x] = c[x]
<1>1. /\ DOMAIN d = DOMAIN c /\ d.pc = p
      /\ \A x \in DOMAIN c \ {"pc"} : d[x] = c[x]
  BY MudaPc DEF FaseOK
<1>2. ("l" \in DOMAIN c => d.l = c.l) /\ ("v" \in DOMAIN c => d.v = c.v)
  BY <1>1
<1> QED BY <1>1, <1>2 DEF FaseOK

LEMMA FaseLivre == \A s : Sucede(s, Livre)
BY DEF Sucede, Livre, FaseOK, ComVenda, ComLiberacao, EmMed

LEMMA Caminho ==
  ASSUME RecebimentoInv, [Next]_vars
  PROVE  UNCHANGED fase \/ \E s \in Sessoes : \E f : Vai(s, f) /\ Sucede(s, f)
<1> DEFINE Anda(s) == \E f : Vai(s, f) /\ Sucede(s, f)
<1> USE DEF Anda
<1>1. \A s \in Sessoes : FaseOK(fase[s])
  BY DEF RecebimentoInv, CashinInv
<1>2. ASSUME NEW s, Vai(s, Livre) PROVE Anda(s)
  BY <1>2, FaseLivre
<1>3. ASSUME NEW s \in Sessoes, NEW p, Vai2(s, fase[s], p),
             \/ /\ fase[s].pc \in ComVenda /\ p \in ComVenda \ EmMed
                /\ p \notin {"gravarCredito", "capturar"}
             \/ fase[s].pc \in ComLiberacao /\ p \in ComLiberacao
      PROVE  Anda(s)
  <2> DEFINE f == [fase[s] EXCEPT !.pc = p]
  <2>1. FaseOK(fase[s])
    BY <1>1
  <2>2. FaseOK(f) /\ f.pc = p /\ DOMAIN f = DOMAIN fase[s]
        /\ \A x \in DOMAIN f \ {"pc"} : f[x] = fase[s][x]
    <3>1. ComVenda \cap ComLiberacao = {} /\ p \in ComVenda \cup ComLiberacao
          /\ p # "gravarCredito"
      BY <1>3 DEF ComVenda, ComLiberacao
    <3>2. (p \in ComVenda => fase[s].pc \in ComVenda)
          /\ (fase[s].pc \in ComLiberacao <=> p \in ComLiberacao)
      BY <1>3, <3>1
    <3> HIDE DEF f
    <3>3. f = [fase[s] EXCEPT !.pc = p]
      BY DEF f
    <3> QED BY <2>1, <3>1, <3>2, <3>3, SegueIgual
  <2>3. p # "capturar" /\ p \notin EmMed
    BY <1>3 DEF ComVenda, ComLiberacao, EmMed
  <2>4. Sucede(s, f)
    <3> HIDE DEF f
    <3> QED BY <2>2, <2>3 DEF Sucede, EmMed
  <2> QED BY <1>3, <2>4 DEF Vai2
<1>4. UNCHANGED vars => UNCHANGED fase
  BY DEF vars
<1>5. ASSUME NEW s \in Sessoes, PassoMed(s) PROVE Anda(s)
  <2>0. TypeOK /\ MedInv
    BY DEF RecebimentoInv
  <2>1. CASE Avaliar(s)
    <3>1. CASE Vai(s, Livre)
      BY <1>2, <3>1
    <3>2. CASE ~Vai(s, Livre)
      <4>1. PICK o \in Ontem : Vai(s, [p \in DOMAIN fase[s] \cup {"o", "antes"} |->
                          IF p = "pc" THEN "abrirCaso" ELSE IF p = "o" THEN o
                          ELSE IF p = "antes" THEN estado.valor ELSE fase[s][p]])
        BY <2>1, <3>2 DEF Avaliar, FimDaAvaliacao, Melhores, Candidatas
      <4> DEFINE f == [p \in DOMAIN fase[s] \cup {"o", "antes"} |->
                          IF p = "pc" THEN "abrirCaso" ELSE IF p = "o" THEN o
                          ELSE IF p = "antes" THEN estado.valor ELSE fase[s][p]]
      <4>2. fase[s].pc = "avaliar" /\ FaseOK(fase[s]) /\ estado.valor \in Nat
        BY <1>1, <2>0, <2>1 DEF Avaliar, TypeOK
      <4>3. /\ f.pc = "abrirCaso" /\ f.o = o /\ f.antes = estado.valor
            /\ DOMAIN f = DOMAIN fase[s] \cup {"o", "antes"}
            /\ ("l" \in DOMAIN fase[s] => f.l = fase[s].l)
            /\ ("v" \in DOMAIN fase[s] => f.v = fase[s].v)
        BY <4>2 DEF FaseOK
      <4> HIDE DEF f
      <4>4. Sucede(s, f)
        BY <4>2, <4>3 DEF Sucede, FaseOK, ComVenda, ComLiberacao, EmMed
      <4> QED BY <4>1, <4>4 DEF f
    <3> QED BY <3>1, <3>2
  <2>2. ASSUME NEW p \in {"debitarMed", "gravarMed", "gravarEstado"},
               fase[s].pc \in EmMed, Vai2(s, fase[s], p),
               p \in {"debitarMed", "gravarMed"} => velha'[fase[s].o].caso # "nenhum",
               p = "gravarMed" => fase[s].o \in debitoMed'
        PROVE  Anda(s)
    <3> DEFINE f == [fase[s] EXCEPT !.pc = p]
    <3>1. FaseOK(fase[s]) /\ {"o", "antes"} \subseteq DOMAIN fase[s]
          /\ fase[s].o \in Ontem /\ fase[s].antes \in Nat
      BY <1>1, <2>0, <2>2 DEF MedInv
    <3>2. FaseOK(f) /\ f.pc = p /\ DOMAIN f = DOMAIN fase[s]
          /\ \A x \in DOMAIN f \ {"pc"} : f[x] = fase[s][x]
      <4>1. p \in ComVenda /\ p \notin ComLiberacao /\ p # "gravarCredito"
            /\ fase[s].pc \in ComVenda /\ fase[s].pc \notin ComLiberacao
        BY <2>2 DEF ComVenda, ComLiberacao, EmMed
      <4> HIDE DEF f
      <4>2. f = [fase[s] EXCEPT !.pc = p]
        BY DEF f
      <4> QED BY <3>1, <4>1, <4>2, SegueIgual
    <3> HIDE DEF f
    <3>3. f.o = fase[s].o /\ f.antes = fase[s].antes
      BY <3>1, <3>2
    <3>4. Sucede(s, f)
      BY <2>2, <3>1, <3>2, <3>3 DEF Sucede
    <3> QED BY <2>2, <3>4 DEF Vai2, f
  <2>3. CASE AbrirCaso(s)
    <3>1. CASE Vai(s, Livre)
      BY <1>2, <3>1
    <3>2. CASE ~Vai(s, Livre)
      <4>1. /\ fase[s].pc = "abrirCaso" /\ Vai2(s, fase[s], "debitarMed")
            /\ velha' = [velha EXCEPT ![fase[s].o].caso = "DEBITADO"]
        BY <2>3, <3>2 DEF AbrirCaso, FimDaAvaliacao
      <4>2. PICK o \in Ontem : o = fase[s].o
        BY <2>0, <4>1 DEF MedInv, EmMed
      <4>3. velha'[o].caso = "DEBITADO"
        BY <2>0, <4>1, <4>2 DEF TypeOK
      <4> QED BY <2>2, <4>1, <4>2, <4>3 DEF EmMed
    <3> QED BY <3>1, <3>2
  <2>4. CASE DebitarMed(s)
    <3>1. CASE Vai(s, Livre)
      BY <1>2, <3>1
    <3>2. CASE ~Vai(s, Livre)
      <4>1. /\ fase[s].pc = "debitarMed" /\ Vai2(s, fase[s], "gravarMed")
            /\ velha' = velha /\ fase[s].o \in debitoMed'
        BY <2>4, <3>2 DEF DebitarMed, FimDaAvaliacao
      <4>2. velha[fase[s].o].caso # "nenhum"
        BY <2>0, <4>1 DEF MedInv
      <4> QED BY <2>2, <4>1, <4>2 DEF EmMed
    <3> QED BY <3>1, <3>2
  <2>5. CASE GravarMed(s)
    <3>1. fase[s].pc = "gravarMed" /\ Vai2(s, fase[s], "gravarEstado")
      BY <2>5 DEF GravarMed, ProntaParaMed
    <3> QED BY <2>2, <3>1 DEF EmMed
  <2>6. CASE GravarEstado(s)
    BY <1>2, <2>6 DEF GravarEstado, FimDaAvaliacao
  <2> QED BY <1>5, <2>1, <2>3, <2>4, <2>5, <2>6 DEF PassoMed
<1>6. ASSUME NEW s \in Sessoes, PassoCredito(s) PROVE Anda(s)
  <2>1. CASE Decidir(s)
    <3>1. fase[s].pc = "decidir" /\ \E p \in {"reter", "creditar"} : Vai2(s, fase[s], p)
      BY <2>1 DEF Decidir
    <3> QED BY <1>3, <3>1 DEF ComVenda, EmMed
  <2>2. CASE LerParaReter(s)
    <3>1. fase[s].pc = "reter" /\ (Vai(s, Livre) \/ Vai2(s, fase[s], "gravarRetida"))
      BY <2>2 DEF LerParaReter
    <3> QED BY <1>2, <1>3, <3>1 DEF ComVenda, EmMed
  <2>3. CASE GravarRetida(s)
    BY <1>2, <2>3 DEF GravarRetida
  <2>4. CASE LerParaCreditar(s)
    <3> DEFINE f == [p \in DOMAIN fase[s] \cup {"dias"} |->
                       IF p = "pc" THEN "gravarCredito"
                       ELSE IF p = "dias" THEN dias ELSE fase[s][p]]
    <3>1. fase[s].pc = "creditar" /\ (Vai(s, Livre) \/ Vai(s, f))
      BY <2>4 DEF LerParaCreditar
    <3>2. FaseOK(fase[s]) /\ dias \in {0, 1}
      BY <1>1 DEF RecebimentoInv, CashinInv
    <3>3. /\ f.pc = "gravarCredito" /\ f.dias = dias
          /\ DOMAIN f = DOMAIN fase[s] \cup {"dias"}
          /\ ("l" \in DOMAIN fase[s] => f.l = fase[s].l)
          /\ ("v" \in DOMAIN fase[s] => f.v = fase[s].v)
      BY <3>2 DEF FaseOK
    <3> HIDE DEF f
    <3>4. Sucede(s, f)
      BY <3>1, <3>2, <3>3 DEF Sucede, FaseOK, ComVenda, ComLiberacao, EmMed
    <3> QED BY <1>2, <3>1, <3>4
  <2>5. CASE GravarCredito(s)
    <3> DEFINE v == fase[s].v
    <3>1. FaseOK(fase[s]) /\ fase[s].pc = "gravarCredito"
      BY <1>1, <2>5 DEF GravarCredito
    <3>2. \/ Vai(s, Livre)
          \/ Vai2(s, fase[s], "avaliar")
          \/ ~Concluida(v) /\ Vai2(s, fase[s], "capturar")
      BY <2>5 DEF GravarCredito, JaCreditada
    <3>3. CASE Vai2(s, fase[s], "avaliar")
      BY <1>3, <3>1, <3>3 DEF ComVenda, EmMed
    <3>4. CASE ~Concluida(v) /\ Vai2(s, fase[s], "capturar")
      <4> DEFINE f == [fase[s] EXCEPT !.pc = "capturar"]
      <4>1. FaseOK(f) /\ f.pc = "capturar" /\ DOMAIN f = DOMAIN fase[s]
            /\ \A x \in DOMAIN f \ {"pc"} : f[x] = fase[s][x]
        <5>1. FaseOK(fase[s]) /\ fase[s].pc \in ComVenda /\ fase[s].pc \notin ComLiberacao
              /\ "capturar" \in ComVenda /\ "capturar" \notin ComLiberacao
          BY <3>1 DEF ComVenda, ComLiberacao
        <5> HIDE DEF f
        <5>2. f = [fase[s] EXCEPT !.pc = "capturar"]
          BY DEF f
        <5> QED BY <5>1, <5>2, SegueIgual
      <4> HIDE DEF f
      <4>2. "v" \in DOMAIN fase[s]
        BY <3>1 DEF FaseOK, ComVenda
      <4>3. f.v = v
        BY <4>1, <4>2
      <4>4. Sucede(s, f)
        BY <2>5, <3>4, <4>1, <4>3 DEF Sucede, EmMed
      <4> QED BY <3>4, <4>4 DEF Vai2, f
    <3> QED BY <1>2, <3>2, <3>3, <3>4
  <2>6. CASE CapturarCredito(s)
    <3>1. fase[s].pc = "capturar" /\ Vai2(s, fase[s], "avaliar")
      BY <2>6 DEF CapturarCredito, IniciarCaptura
    <3> QED BY <1>3, <3>1 DEF ComVenda, EmMed
  <2> QED BY <1>6, <2>1, <2>2, <2>3, <2>4, <2>5, <2>6 DEF PassoCredito
<1>7. ASSUME NEW s \in Sessoes, PassoLiberacao(s) PROVE Anda(s)
  <2>1. CASE MoverLiberacao(s)
    <3>1. fase[s].pc = "liberar" /\ \E p \in {"falhar", "liberada"} : Vai2(s, fase[s], p)
      BY <2>1 DEF MoverLiberacao
    <3> QED BY <1>3, <3>1 DEF ComLiberacao
  <2>2. CASE GravarLiberada(s)
    BY <1>2, <2>2 DEF GravarLiberada
  <2> QED BY <1>7, <2>1, <2>2 DEF PassoLiberacao
<1>8. ASSUME NEW s \in Sessoes, GravarFalha(s) \/ Interromper(s) PROVE Anda(s)
  BY <1>2, <1>8 DEF GravarFalha, Interromper
<1>9. ASSUME NEW s \in Sessoes, NEW w \in Avisos, IniciarAviso(s, w)
      PROVE  UNCHANGED fase \/ Anda(s)
  <2> DEFINE f == [pc |-> "decidir", v |-> VendaDo[w], w |-> w]
  <2>1. UNCHANGED fase \/ Vai(s, f)
    BY <1>9 DEF IniciarAviso
  <2>2. Sucede(s, f)
    BY CashinAssumption DEF Sucede, FaseOK, ComVenda, ComLiberacao, EmMed
  <2> QED BY <2>1, <2>2
<1>10. ASSUME NEW s \in Sessoes, NEW v \in Vendas, ConciliarEntrada(s, v) \/ LiberarRetida(s, v)
       PROVE  Anda(s)
  <2> DEFINE f == [pc |-> "creditar", v |-> v]
  <2>1. Vai(s, f)
    BY <1>10 DEF ConciliarEntrada, LiberarRetida
  <2>2. Sucede(s, f)
    BY DEF Sucede, FaseOK, ComVenda, ComLiberacao, EmMed
  <2> QED BY <2>1, <2>2
<1>11. ASSUME NEW s \in Sessoes, NEW l \in Liberacoes, Reivindicar(s, l) PROVE Anda(s)
  <2> DEFINE f == [pc |-> "liberar", l |-> l]
  <2>1. Vai(s, f)
    BY <1>11 DEF Reivindicar
  <2>2. Sucede(s, f)
    BY <1>11 DEF Sucede, FaseOK, ComVenda, ComLiberacao, EmMed
  <2> QED BY <2>1, <2>2
<1>12. ASSUME NEW s \in Sessoes, SeguirBloqueio(s) \/ PedidoDeBloqueio(s) PROVE UNCHANGED fase
  BY <1>12 DEF SeguirBloqueio, PedidoDeBloqueio
<1>13. ASSUME NEW w, Postback(w) PROVE UNCHANGED fase
  BY <1>13 DEF Postback
<1>14. MudarDias \/ Sacar => UNCHANGED fase
  BY DEF MudarDias, Sacar
<1> HIDE DEF Anda
<1>15. UNCHANGED fase \/ \E s \in Sessoes : Anda(s)
  <2>1. CASE \E s \in Sessoes : PassoMed(s)
    BY <1>5, <2>1
  <2>2. ASSUME NEW s \in Sessoes,
               \/ PassoCredito(s) \/ PassoLiberacao(s) \/ SeguirBloqueio(s)
               \/ GravarFalha(s) \/ Interromper(s) \/ PedidoDeBloqueio(s)
               \/ \E w \in Avisos : IniciarAviso(s, w)
               \/ \E v \in Vendas : ConciliarEntrada(s, v) \/ LiberarRetida(s, v)
               \/ \E l \in Liberacoes : Reivindicar(s, l)
        PROVE  UNCHANGED fase \/ Anda(s)
    BY <1>6, <1>7, <1>8, <1>9, <1>10, <1>11, <1>12, <2>2
  <2>3. (\E w \in Avisos : Postback(w)) => UNCHANGED fase
    BY <1>13
  <2> QED BY <1>4, <1>14, <2>1, <2>2, <2>3 DEF Next
<1> QED BY <1>15 DEF Anda

-----------------------------------------------------------------------------
(* The conjuncts of the invariant, each by the actions that may disturb it. *)
LEMMA PassoFases ==
  ASSUME RecebimentoInv, [Next]_vars
  PROVE  /\ DOMAIN fase' = Sessoes
         /\ \A s \in Sessoes :
              /\ FaseOK(fase'[s])
              /\ fase'[s] = fase[s] \/ Sucede(s, fase'[s])
         /\ \A s, t \in Sessoes : fase'[s] # fase[s] /\ fase'[t] # fase[t] => s = t
<1>1. DOMAIN fase = Sessoes /\ \A s \in Sessoes : FaseOK(fase[s])
  BY DEF RecebimentoInv, CashinInv
<1>2. CASE UNCHANGED fase
  BY <1>1, <1>2
<1>3. ASSUME NEW s \in Sessoes, NEW f, Vai(s, f), Sucede(s, f)
      PROVE  /\ DOMAIN fase' = Sessoes /\ fase'[s] = f
             /\ \A t \in Sessoes \ {s} : fase'[t] = fase[t]
  BY <1>1, <1>3 DEF Vai
<1>4. CASE ~UNCHANGED fase
  <2>1. PICK s, f : s \in Sessoes /\ Vai(s, f) /\ Sucede(s, f)
    BY <1>4, Caminho
  <2>2. /\ DOMAIN fase' = Sessoes /\ fase'[s] = f
        /\ \A t \in Sessoes \ {s} : fase'[t] = fase[t]
    BY <1>3, <2>1
  <2>3. FaseOK(f)
    BY <2>1 DEF Sucede
  <2> QED BY <1>1, <2>1, <2>2, <2>3
<1> QED BY <1>2, <1>4

LEMMA PassoDisp ==
  ASSUME RecebimentoInv, [Next]_vars
  PROVE  disp' \in Int /\ dias' \in {0, 1}
<1>1. /\ disp \in Int /\ dias \in {0, 1} /\ BloqueioInv
      /\ \A v \in Vendas : Principal[v] \in Int /\ Reserva[v] \in Int
      /\ \A o \in Ontem : BrutoOntem[o] \in Int
  BY CashinAssumption, RecebimentoAssumption
     DEF RecebimentoInv, TypeOK, BloqueioTypeOK, CashinInv
<1>2. /\ UNCHANGED dias \/ MudarDias
      /\ \/ UNCHANGED disp \/ Sacar
         \/ \E s \in Sessoes : EmHolds(s) \/ GravarCredito(s) \/ MoverLiberacao(s) \/ DebitarMed(s)
  BY QuemMuda DEF Quadro
<1>3. dias' \in {0, 1}
  BY <1>1, <1>2 DEF MudarDias
<1>4. Sacar => disp' \in Int
  BY <1>1 DEF Sacar
<1>5. ASSUME NEW s \in Sessoes, EmHolds(s) PROVE disp' \in Int
  <2>1. ASSUME PassoBloqueio(s) PROVE disp' \in Int
    BY <1>1, <2>1, PassoBloqueioMantem DEF BloqueioInv, BloqueioTypeOK
  <2>2. ASSUME PedidoDeBloqueio(s) PROVE disp' \in Int
    BY <1>1, <2>2 DEF PedidoDeBloqueio, Criar, BuscarAtivo
  <2>3. ASSUME CapturarCredito(s) \/ GravarLiberada(s) \/ Interromper(s) PROVE disp' \in Int
    BY <1>1, <2>3 DEF CapturarCredito, IniciarCaptura, GravarLiberada, Interromper
  <2> QED BY <1>5, <2>1, <2>2, <2>3 DEF EmHolds, SeguirBloqueio
<1>6. ASSUME NEW s \in Sessoes, GravarCredito(s) PROVE disp' \in Int
  <2>1. fase[s].v \in Vendas
    BY <1>6 DEF RecebimentoInv, CashinInv, FaseOK, ComVenda, GravarCredito
  <2>2. disp' = disp \/ disp' = disp + Principal[fase[s].v] \/ disp' = disp + 0
    BY <1>6 DEF GravarCredito
  <2> QED BY <1>1, <2>1, <2>2
<1>7. ASSUME NEW s \in Sessoes, MoverLiberacao(s) PROVE disp' \in Int
  <2>1. fase[s].l \in Liberacoes
    BY <1>7 DEF RecebimentoInv, CashinInv, FaseOK, ComLiberacao, MoverLiberacao
  <2>2. ValorLib(fase[s].l) \in Int
    BY <1>1, <2>1 DEF ValorLib, Liberacoes
  <2>3. disp' = disp \/ disp' = disp + 0 \/ disp' = disp + ValorLib(fase[s].l)
    BY <1>7 DEF MoverLiberacao
  <2> QED BY <1>1, <2>2, <2>3
<1>8. ASSUME NEW s \in Sessoes, DebitarMed(s) PROVE disp' \in Int
  <2>1. fase[s].o \in Ontem
    BY <1>8 DEF RecebimentoInv, MedInv, EmMed, DebitarMed
  <2>2. disp' = disp \/ disp' = disp - 0 \/ disp' = disp - BrutoOntem[fase[s].o]
    BY <1>8 DEF DebitarMed
  <2> QED BY <1>1, <2>1, <2>2
<1> QED BY <1>1, <1>2, <1>3, <1>4, <1>5, <1>6, <1>7, <1>8

LEMMA PassoHolds ==
  ASSUME RecebimentoInv, [Next]_vars
  PROVE  BloqueioInv'
<1>1. BloqueioInv /\ OrigemInv /\ LiberacaoInv /\ \A s \in Sessoes : FaseOK(fase[s])
  BY DEF RecebimentoInv, CashinInv
<1>2. disp' \in Int
  BY PassoDisp
<1>3. CASE UNCHANGED <<manual, holds>>
  BY <1>1, <1>2, <1>3, BloqueioParado DEF holds
<1>4. ASSUME NEW s \in Sessoes, CapturarCredito(s) PROVE BloqueioInv'
  <2> DEFINE v == fase[s].v
             o == <<"cashin", v>>
  <2>1. v \in Vendas /\ ~OrigemGasta(o)
    BY <1>1, <1>4 DEF CapturarCredito, FaseOK, ComVenda, OrigemInv
  <2>2. o \in Origens
    BY <2>1, CashinAssumption DEF OrigensDeCredito
  <2>3. ParaCapturar(s, o) /\ UNCHANGED <<manual, bloq, capturas, desfechos>>
    BY <1>4 DEF CapturarCredito, IniciarCaptura
  <2>4. \A b \in Bloqueios : o # <<"criacao", b>>
    OBVIOUS
  <2> HIDE DEF o
  <2> QED BY <1>1, <1>2, <2>1, <2>2, <2>3, <2>4, CapturaComeca
<1>5. ASSUME NEW s \in Sessoes, GravarLiberada(s) PROVE BloqueioInv'
  <2> DEFINE l == fase[s].l
             o == <<"lib", l>>
  <2>1. l \in Liberacoes /\ lib[l].sit = "PROCESSANDO"
    BY <1>1, <1>5 DEF GravarLiberada, FaseOK, ComLiberacao, LiberacaoInv
  <2>2. ~OrigemGasta(o)
    BY <1>1, <2>1 DEF OrigemInv
  <2>3. o \in Origens
    BY <2>1, CashinAssumption DEF OrigensDeCredito
  <2>4. ParaCapturar(s, o) /\ UNCHANGED <<manual, bloq, capturas, desfechos>>
    BY <1>5 DEF GravarLiberada
  <2>5. \A b \in Bloqueios : o # <<"criacao", b>>
    OBVIOUS
  <2> HIDE DEF o
  <2> QED BY <1>1, <1>2, <2>2, <2>3, <2>4, <2>5, CapturaComeca
<1>6. ASSUME NEW s \in Sessoes, SeguirBloqueio(s) PROVE BloqueioInv'
  BY <1>1, <1>6, PassoBloqueioMantem DEF SeguirBloqueio
<1>7. ASSUME NEW s \in Sessoes, Interromper(s) PROVE BloqueioInv'
  <2>1. Andando(s, Parada)
    BY DEF Andando, PosicaoOK, PosicaoDe, Parada
  <2> QED BY <1>1, <1>2, <1>7, <2>1, CursorAnda DEF Interromper
<1>8. ASSUME NEW s \in Sessoes, PedidoDeBloqueio(s) PROVE BloqueioInv'
  <2>1. \A b \in Bloqueios : <<"criacao", b>> \in Origens
    BY CashinAssumption DEF OrigensDeCredito
  <2> QED BY <1>1, <1>8, <2>1, CriarMantem, BuscarMantem DEF PedidoDeBloqueio
<1>9. UNCHANGED <<manual, holds>> \/ \E s \in Sessoes : EmHolds(s)
  BY QuemMuda DEF Quadro
<1> QED BY <1>3, <1>4, <1>5, <1>6, <1>7, <1>8, <1>9 DEF EmHolds

LinhaDeLib == [sit : {"nenhuma", "AGENDADA", "PROCESSANDO", "FALHA", "LIBERADA"},
               tent : 0..MaxTentativas]

(* The credit: nothing of the sale was in the ledger and none of its rows   *)
(* existed, so every entry, the event and every row of it are new.          *)
CreditoNovo(v, d) ==
  /\ v \in Vendas /\ d \in {0, 1}
  /\ creditos' = creditos \cup Entradas(v, d)
  /\ \A k : <<k, v>> \notin creditos
  /\ d > 0 => pend' = pend + Principal[v]
  /\ d = 0 => pend' = pend
  /\ reservado' = reservado + Reserva[v]
  /\ pagoAvisado' = [pagoAvisado EXCEPT ![v] = 1]
  /\ venda' = [venda EXCEPT ![v].sit = "CONCLUIDA"]
  /\ \A l \in Agendadas(v, d) : lib[l].sit = "nenhuma" /\ l \in Liberacoes
  /\ lib' \in [Liberacoes -> LinhaDeLib]
  /\ \A l \in Agendadas(v, d) : lib'[l] = [sit |-> "AGENDADA", tent |-> 0]
  /\ \A l \in Liberacoes \ Agendadas(v, d) : lib'[l] = lib[l]

LEMMA EfeitoDoCredito ==
  ASSUME RecebimentoInv, NEW s \in Sessoes, GravarCredito(s), ~Concluida(fase[s].v)
  PROVE  \E v, d : v = fase[s].v /\ d = fase[s].dias /\ CreditoNovo(v, d)
<1>0. PICK v, d : v = fase[s].v /\ d = fase[s].dias
  OBVIOUS
<1>1. v \in Vendas /\ d \in {0, 1}
  BY <1>0 DEF RecebimentoInv, CashinInv, FaseOK, ComVenda, GravarCredito
<1>2. \A k : <<k, v>> \notin creditos
  <2>1. \A k \in {"pendente", "disp", "reserva"} : <<k, v>> \notin creditos
    BY <1>0, <1>1 DEF RecebimentoInv, CashinInv, CreditoInv
  <2>2. creditos \subseteq {"pendente", "disp", "reserva"} \X Vendas
    BY DEF RecebimentoInv, CashinInv, CashinTypeOK
  <2> QED BY <2>1, <2>2
<1>3. Entradas(v, d) \ creditos = Entradas(v, d)
  BY <1>2 DEF Entradas
<1>4. \A l \in Agendadas(v, d) : lib[l].sit = "nenhuma" /\ l \in Liberacoes
  <2>1. \A l \in Agendadas(v, d) : l \in Liberacoes /\ l[1] = v
    BY <1>1 DEF Agendadas, Liberacoes, Tipos
  <2> QED BY <1>0, <2>1 DEF RecebimentoInv, CashinInv, LiberacaoInv
<1>5. /\ creditos' = creditos \cup Entradas(v, d)
      /\ pend' = pend + (IF <<"pendente", v>> \in Entradas(v, d) THEN Principal[v] ELSE 0)
      /\ reservado' = reservado + (IF <<"reserva", v>> \in Entradas(v, d) THEN Reserva[v] ELSE 0)
      /\ pagoAvisado' = [pagoAvisado EXCEPT ![v] = IF Entradas(v, d) # {} THEN @ + 1 ELSE @]
      /\ venda' = [venda EXCEPT ![v].sit = "CONCLUIDA"]
      /\ lib' = [l \in Liberacoes |->
                  IF l \in Agendadas(v, d) /\ lib[l].sit = "nenhuma"
                  THEN [sit |-> "AGENDADA", tent |-> 0] ELSE lib[l]]
  BY <1>0, <1>3 DEF GravarCredito, JaCreditada
<1>6. /\ pagoAvisado[v] = 0 /\ pend \in Nat /\ reservado \in Nat
      /\ Principal[v] \in Nat /\ Reserva[v] \in Nat
  BY <1>0, <1>1, CashinAssumption
     DEF RecebimentoInv, CashinInv, CreditoInv, CashinTypeOK
<1>7. d > 0 => pend' = pend + Principal[v]
  <2>1. d > 0 => <<"pendente", v>> \in Entradas(v, d)
    BY DEF Entradas
  <2> QED BY <1>5, <2>1
<1>8. d = 0 => pend' = pend
  <2>1. d = 0 => <<"pendente", v>> \notin Entradas(v, d)
    BY DEF Entradas
  <2> QED BY <1>5, <1>6, <2>1
<1>9. reservado' = reservado + Reserva[v]
  <2>1. <<"reserva", v>> \in Entradas(v, d) <=> Reserva[v] > 0
    BY DEF Entradas
  <2> QED BY <1>5, <1>6, <2>1
<1>10. pagoAvisado' = [pagoAvisado EXCEPT ![v] = 1]
  <2>1. Entradas(v, d) # {}
    BY DEF Entradas
  <2>2. pagoAvisado' = [pagoAvisado EXCEPT ![v] = pagoAvisado[v] + 1]
    BY <1>5, <2>1
  <2> QED BY <1>6, <2>2
<1>11. lib' = [l \in Liberacoes |-> IF l \in Agendadas(v, d)
                                   THEN [sit |-> "AGENDADA", tent |-> 0] ELSE lib[l]]
  BY <1>4, <1>5
<1>12. /\ lib' \in [Liberacoes -> LinhaDeLib]
       /\ \A l \in Agendadas(v, d) : lib'[l] = [sit |-> "AGENDADA", tent |-> 0]
       /\ \A l \in Liberacoes \ Agendadas(v, d) : lib'[l] = lib[l]
  <2>1. [sit |-> "AGENDADA", tent |-> 0] \in LinhaDeLib /\ lib \in [Liberacoes -> LinhaDeLib]
    BY CashinAssumption DEF LinhaDeLib, RecebimentoInv, CashinInv, CashinTypeOK
  <2> QED BY <1>4, <1>11, <2>1
<1>13. CreditoNovo(v, d)
  BY <1>1, <1>2, <1>4, <1>5, <1>7, <1>8, <1>9, <1>10, <1>12, Zenon DEF CreditoNovo
<1> QED BY <1>0, <1>13

LinhaDeVenda == [sit : {"AGUARDANDO", "FALHA", "CONCLUIDA"}, retida : BOOLEAN]

LEMMA VendaMuda ==
  ASSUME NEW r \in LinhaDeVenda
  PROVE  /\ [r EXCEPT !.sit = "CONCLUIDA"] = [sit |-> "CONCLUIDA", retida |-> r.retida]
         /\ [r EXCEPT !.retida = TRUE] = [sit |-> r.sit, retida |-> TRUE]
<1>1. PICK a, b : r = [sit |-> a, retida |-> b]
  BY DEF LinhaDeVenda
<1>2. [r EXCEPT !.sit = "CONCLUIDA"] = [sit |-> "CONCLUIDA", retida |-> b]
  BY <1>1
<1>3. \A x : [r EXCEPT !.retida = x] = [sit |-> a, retida |-> x]
  BY <1>1
<1> QED BY <1>1, <1>2, <1>3

(* How the sales move: each keeps its situation, but the one that is        *)
(* credited.                                                                *)
LEMMA PassoVendas ==
  ASSUME RecebimentoInv, [Next]_vars
  PROVE  /\ venda' \in [Vendas -> LinhaDeVenda]
         /\ CreditoInv'
         /\ creditos' \subseteq {"pendente", "disp", "reserva"} \X Vendas
         /\ pagoAvisado' \in [Vendas -> Nat]
         /\ \A v \in Vendas : Concluida(v) => Concluida(v)'
         /\ \A v \in Vendas : Concluida(v)' =>
              \/ Concluida(v)
              \/ \E s \in Sessoes : GravarCredito(s) /\ fase[s].v = v /\ ~Concluida(v)
<1>1. /\ venda \in [Vendas -> LinhaDeVenda] /\ CreditoInv
      /\ creditos \subseteq {"pendente", "disp", "reserva"} \X Vendas
      /\ pagoAvisado \in [Vendas -> Nat]
  BY DEF RecebimentoInv, CashinInv, CashinTypeOK, LinhaDeVenda
<1>2. CASE UNCHANGED <<venda, creditos, pagoAvisado>>
  BY <1>1, <1>2 DEF CreditoInv, Concluida
<1>3. ASSUME NEW s \in Sessoes, GravarRetida(s)
      PROVE  /\ venda' \in [Vendas -> LinhaDeVenda]
             /\ UNCHANGED <<creditos, pagoAvisado>>
             /\ \A v \in Vendas : Concluida(v)' <=> Concluida(v)
  <2> DEFINE v == fase[s].v
  <2>1. v \in Vendas
    BY <1>3 DEF RecebimentoInv, CashinInv, FaseOK, ComVenda, GravarRetida
  <2>2. /\ venda'[v] = [sit |-> venda[v].sit, retida |-> TRUE]
        /\ \A u \in Vendas \ {v} : venda'[u] = venda[u]
        /\ venda' = [venda EXCEPT ![v] = venda'[v]]
    BY <1>1, <1>3, <2>1, VendaMuda DEF GravarRetida
  <2>3. venda'[v] \in LinhaDeVenda
    BY <1>1, <2>1, <2>2 DEF LinhaDeVenda
  <2>4. UNCHANGED <<creditos, pagoAvisado>>
    BY <1>3 DEF GravarRetida
  <2> QED BY <1>1, <2>1, <2>2, <2>3, <2>4 DEF Concluida
<1>4. CASE \E s \in Sessoes : GravarRetida(s)
  BY <1>1, <1>3, <1>4 DEF CreditoInv
<1>5. ASSUME NEW s \in Sessoes, GravarCredito(s), Concluida(fase[s].v)
      PROVE  UNCHANGED <<venda, creditos, pagoAvisado>>
  BY <1>5 DEF GravarCredito, JaCreditada
<1>6. ASSUME NEW s \in Sessoes, GravarCredito(s), ~Concluida(fase[s].v)
      PROVE  /\ venda' \in [Vendas -> LinhaDeVenda] /\ CreditoInv'
             /\ creditos' \subseteq {"pendente", "disp", "reserva"} \X Vendas
             /\ pagoAvisado' \in [Vendas -> Nat]
             /\ \A v \in Vendas : Concluida(v)' <=> Concluida(v) \/ v = fase[s].v
  <2>1. PICK v, d : v = fase[s].v /\ d = fase[s].dias /\ CreditoNovo(v, d)
    BY <1>6, EfeitoDoCredito
  <2>2. /\ v \in Vendas /\ d \in {0, 1} /\ creditos' = creditos \cup Entradas(v, d)
        /\ \A k : <<k, v>> \notin creditos
        /\ pagoAvisado' = [pagoAvisado EXCEPT ![v] = 1]
        /\ venda' = [venda EXCEPT ![v].sit = "CONCLUIDA"]
    BY <2>1 DEF CreditoNovo
  <2>3. /\ venda'[v] = [sit |-> "CONCLUIDA", retida |-> venda[v].retida]
        /\ \A u \in Vendas \ {v} : venda'[u] = venda[u]
        /\ venda' = [venda EXCEPT ![v] = venda'[v]]
    BY <1>1, <2>2, VendaMuda
  <2>4. venda'[v] \in LinhaDeVenda
    BY <1>1, <2>2, <2>3 DEF LinhaDeVenda
  <2>5. /\ Entradas(v, d) \subseteq {"pendente", "disp", "reserva"} \X {v}
        /\ \E k \in {"pendente", "disp"} :
             \A j \in {"pendente", "disp"} : <<j, v>> \in Entradas(v, d) <=> j = k
    <3>1. CASE d > 0
      BY <3>1 DEF Entradas
    <3>2. CASE ~(d > 0)
      BY <3>2 DEF Entradas
    <3> QED BY <3>1, <3>2
  <2>6. \A u \in Vendas : Concluida(u)' <=> Concluida(u) \/ u = v
    BY <2>2, <2>3 DEF Concluida
  <2>7. CreditoInv'
    <3> SUFFICES ASSUME NEW u \in Vendas
                 PROVE  IF Concluida(u)'
                        THEN /\ pagoAvisado'[u] = 1
                             /\ \E k \in {"pendente", "disp"} :
                                  \A j \in {"pendente", "disp"} : <<j, u>> \in creditos' <=> j = k
                        ELSE /\ pagoAvisado'[u] = 0
                             /\ \A k \in {"pendente", "disp", "reserva"} : <<k, u>> \notin creditos'
      BY DEF CreditoInv
    <3>1. CASE u = v
      BY <1>1, <2>2, <2>5, <2>6, <3>1
    <3>2. CASE u # v
      <4>1. \A k : <<k, u>> \in creditos' <=> <<k, u>> \in creditos
        BY <2>2, <2>5, <3>2
      <4>2. pagoAvisado'[u] = pagoAvisado[u]
        BY <1>1, <2>2, <3>2
      <4> QED BY <1>1, <2>6, <3>2, <4>1, <4>2 DEF CreditoInv
    <3> QED BY <3>1, <3>2
  <2> QED BY <1>1, <2>1, <2>2, <2>3, <2>4, <2>5, <2>6, <2>7
<1>7. UNCHANGED <<venda, creditos, pagoAvisado>> \/ \E s \in Sessoes : EmCredito(s)
  BY QuemMuda DEF Quadro
<1>8. CASE \E s \in Sessoes : GravarCredito(s)
  BY <1>2, <1>5, <1>6, <1>8
<1> QED BY <1>2, <1>4, <1>7, <1>8 DEF EmCredito

LEMMA LibMuda ==
  ASSUME NEW r \in LinhaDeLib, NEW x
  PROVE  [r EXCEPT !.sit = x] = [sit |-> x, tent |-> r.tent]
<1>1. PICK a, b : r = [sit |-> a, tent |-> b]
  BY DEF LinhaDeLib
<1> QED BY <1>1

(* How the rows to be released move: born with the credit, claimed by one   *)
(* session, moved while claimed, ended by the session that claimed them.    *)
Nascem(s) ==
  /\ GravarCredito(s) /\ ~Concluida(fase[s].v)
Termina(s, l, x) ==
  /\ "l" \in DOMAIN fase[s] /\ l = fase[s].l /\ lib[l].sit = "PROCESSANDO"
  /\ lib' = [lib EXCEPT ![l] = [sit |-> x, tent |-> lib[l].tent]]
  /\ UNCHANGED <<soltas, pend, reservado>> /\ fase'[s] = Livre

LEMMA ComoLibMuda ==
  ASSUME RecebimentoInv, [Next]_vars
  PROVE  \/ UNCHANGED <<lib, soltas, pend, reservado>>
         \/ \E s \in Sessoes : Nascem(s)
         \/ \E s \in Sessoes : MoverLiberacao(s)
         \/ \E s \in Sessoes, l \in Liberacoes : Reivindicar(s, l)
         \/ \E s \in Sessoes, l \in Liberacoes, x \in {"LIBERADA", "FALHA"} : Termina(s, l, x)
<1>1. /\ lib \in [Liberacoes -> LinhaDeLib] /\ LiberacaoInv /\ DOMAIN fase = Sessoes
      /\ \A s \in Sessoes : FaseOK(fase[s])
  BY DEF RecebimentoInv, CashinInv, CashinTypeOK, LinhaDeLib
<1>2. ASSUME NEW s \in Sessoes, GravarLiberada(s) \/ GravarFalha(s)
      PROVE  \E l \in Liberacoes, x \in {"LIBERADA", "FALHA"} : Termina(s, l, x)
  <2>1. PICK x \in {"LIBERADA", "FALHA"} :
          lib' = [lib EXCEPT ![fase[s].l].sit = x]
    BY <1>2 DEF GravarLiberada, GravarFalha
  <2>2. fase[s].pc \in ComLiberacao /\ Vai(s, Livre) /\ UNCHANGED <<soltas, pend, reservado>>
    BY <1>2 DEF GravarLiberada, GravarFalha, ComLiberacao
  <2>3. PICK l \in Liberacoes : "l" \in DOMAIN fase[s] /\ l = fase[s].l
    BY <1>1, <2>2 DEF FaseOK
  <2>4. lib[l].sit = "PROCESSANDO"
    BY <1>1, <2>3 DEF LiberacaoInv
  <2>5. lib' = [lib EXCEPT ![l] = [sit |-> x, tent |-> lib[l].tent]]
    <3>1. [lib[l] EXCEPT !.sit = x] = [sit |-> x, tent |-> lib[l].tent]
      BY <1>1, LibMuda
    <3> QED BY <2>1, <2>3, <3>1
  <2>6. fase'[s] = Livre
    BY <1>1, <2>2 DEF Vai
  <2> QED BY <2>2, <2>3, <2>4, <2>5, <2>6 DEF Termina
<1>3. ASSUME NEW s \in Sessoes, GravarCredito(s), Concluida(fase[s].v)
      PROVE  UNCHANGED <<lib, soltas, pend, reservado>>
  BY <1>3 DEF GravarCredito, JaCreditada
<1>4. UNCHANGED <<lib, soltas, pend, reservado>> \/ \E s \in Sessoes : EmLib(s)
  BY QuemMuda DEF Quadro
<1> QED BY <1>2, <1>3, <1>4 DEF EmLib, Nascem

LEMMA PassoLib ==
  ASSUME RecebimentoInv, [Next]_vars
  PROVE  /\ lib' \in [Liberacoes -> LinhaDeLib] /\ soltas' \subseteq Liberacoes
         /\ LiberacaoInv'
         /\ \A l \in Liberacoes : lib[l].sit = "LIBERADA" => lib'[l].sit = "LIBERADA"
<1>1. /\ lib \in [Liberacoes -> LinhaDeLib] /\ soltas \subseteq Liberacoes /\ LiberacaoInv
      /\ DOMAIN fase = Sessoes /\ \A s \in Sessoes : FaseOK(fase[s])
  BY DEF RecebimentoInv, CashinInv, CashinTypeOK, LinhaDeLib
<1>2. \A t \in Sessoes : "l" \in DOMAIN fase'[t] =>
         /\ fase'[t].l \in Liberacoes
         /\ \/ "l" \in DOMAIN fase[t] /\ fase'[t].l = fase[t].l
            \/ Reivindicar(t, fase'[t].l)
  BY PassoFases DEF Sucede, FaseOK
<1>3. \A l \in Liberacoes : Concluida(l[1]) => Concluida(l[1])'
  BY PassoVendas DEF Liberacoes
<1>4. CASE \E s \in Sessoes, l \in Liberacoes : Reivindicar(s, l)
  <2>1. PICK s \in Sessoes, l \in Liberacoes : Reivindicar(s, l)
    BY <1>4
  <2>2. /\ lib'[l] = [sit |-> "PROCESSANDO", tent |-> lib[l].tent + 1]
        /\ \A k \in Liberacoes \ {l} : lib'[k] = lib[k]
        /\ lib' = [lib EXCEPT ![l] = lib'[l]]
        /\ soltas' = soltas
        /\ fase'[s] = [pc |-> "liberar", l |-> l]
        /\ \A t \in Sessoes \ {s} : fase'[t] = fase[t]
    BY <1>1, <2>1 DEF Reivindicar, Vai
  <2>3. lib[l].tent < MaxTentativas /\ lib[l].sit \notin {"nenhuma", "LIBERADA"}
    BY <1>1, <2>1, CashinAssumption DEF Reivindicar, Devida, LiberacaoInv
  <2>4. \A t \in Sessoes : "l" \in DOMAIN fase[t] => fase[t].l # l
    BY <1>1, <2>1 DEF Reivindicar, Devida, LiberacaoInv
  <2>5. lib'[l] \in LinhaDeLib
    <3>1. lib[l].tent \in 0..MaxTentativas
      BY <1>1 DEF LinhaDeLib
    <3>2. lib[l].tent + 1 \in 0..MaxTentativas
      BY <2>3, <3>1, CashinAssumption
    <3> QED BY <2>2, <3>2 DEF LinhaDeLib
  <2>6. lib' \in [Liberacoes -> LinhaDeLib]
    BY <1>1, <2>2, <2>5
  <2>7. LiberacaoInv'
    <3>1. \A k \in Liberacoes :
            /\ lib'[k].sit # "nenhuma" => Concluida(k[1])'
            /\ lib'[k].sit = "nenhuma" => k \notin soltas'
            /\ lib'[k].sit \in {"nenhuma", "AGENDADA"} => lib'[k].tent = 0
      BY <1>1, <1>3, <2>2, <2>3 DEF LiberacaoInv
    <3>2. \A t \in Sessoes : "l" \in DOMAIN fase'[t] => lib'[fase'[t].l].sit = "PROCESSANDO"
      BY <1>1, <2>2, <2>4, <1>2 DEF LiberacaoInv
    <3>3. \A t, u \in Sessoes :
            "l" \in DOMAIN fase'[t] /\ "l" \in DOMAIN fase'[u] /\ fase'[t].l = fase'[u].l => t = u
      BY <1>1, <2>2, <2>4 DEF LiberacaoInv
    <3> QED BY <3>1, <3>2, <3>3 DEF LiberacaoInv
  <2>8. \A k \in Liberacoes : lib[k].sit = "LIBERADA" => lib'[k].sit = "LIBERADA"
    BY <2>2, <2>3
  <2> QED BY <1>1, <2>2, <2>6, <2>7, <2>8
<1>5. CASE ~\E s \in Sessoes, l \in Liberacoes : Reivindicar(s, l)
  <2>1. \A t \in Sessoes : "l" \in DOMAIN fase'[t] =>
           "l" \in DOMAIN fase[t] /\ fase'[t].l = fase[t].l /\ fase'[t].l \in Liberacoes
    BY <1>2, <1>5
  <2>2. \A t, u \in Sessoes :
          "l" \in DOMAIN fase'[t] /\ "l" \in DOMAIN fase'[u] /\ fase'[t].l = fase'[u].l => t = u
    BY <1>1, <2>1 DEF LiberacaoInv
  <2>3. CASE UNCHANGED <<lib, soltas, pend, reservado>>
    BY <1>1, <1>3, <2>1, <2>2, <2>3 DEF LiberacaoInv
  <2>4. ASSUME NEW s \in Sessoes, Nascem(s)
        PROVE  /\ lib' \in [Liberacoes -> LinhaDeLib] /\ soltas' \subseteq Liberacoes
               /\ LiberacaoInv'
               /\ \A l \in Liberacoes : lib[l].sit = "LIBERADA" => lib'[l].sit = "LIBERADA"
    <3>1. PICK v, d : v = fase[s].v /\ d = fase[s].dias /\ CreditoNovo(v, d)
      BY <2>4, EfeitoDoCredito DEF Nascem
    <3>2. /\ v \in Vendas /\ venda' = [venda EXCEPT ![v].sit = "CONCLUIDA"]
          /\ \A l \in Agendadas(v, d) : lib[l].sit = "nenhuma" /\ l \in Liberacoes
          /\ lib' \in [Liberacoes -> LinhaDeLib]
          /\ \A l \in Agendadas(v, d) : lib'[l] = [sit |-> "AGENDADA", tent |-> 0]
          /\ \A l \in Liberacoes \ Agendadas(v, d) : lib'[l] = lib[l]
      BY <3>1 DEF CreditoNovo
    <3>3. soltas' = soltas
      BY <2>4 DEF Nascem, GravarCredito
    <3>4. Concluida(v)' /\ \A l \in Agendadas(v, d) : l[1] = v
      <4>1. venda'[v] = [venda[v] EXCEPT !.sit = "CONCLUIDA"] /\ venda[v] \in LinhaDeVenda
        BY <3>2 DEF RecebimentoInv, CashinInv, CashinTypeOK, LinhaDeVenda
      <4>2. Concluida(v)'
        BY <4>1, VendaMuda DEF Concluida
      <4> QED BY <4>2 DEF Agendadas
    <3>7. \A k \in Liberacoes :
            /\ lib'[k].sit # "nenhuma" => Concluida(k[1])'
            /\ lib'[k].sit = "nenhuma" => k \notin soltas'
            /\ lib'[k].sit \in {"nenhuma", "AGENDADA"} => lib'[k].tent = 0
            /\ lib[k].sit # "nenhuma" => lib'[k] = lib[k]
      BY <1>1, <1>3, <3>2, <3>3, <3>4 DEF LiberacaoInv
    <3>8. \A t \in Sessoes : "l" \in DOMAIN fase'[t] => lib'[fase'[t].l].sit = "PROCESSANDO"
      BY <1>1, <2>1, <3>7 DEF LiberacaoInv
    <3> QED BY <1>1, <2>2, <3>2, <3>3, <3>7, <3>8 DEF LiberacaoInv
  <2>5. ASSUME NEW s \in Sessoes, MoverLiberacao(s)
        PROVE  /\ lib' = lib /\ soltas' \subseteq Liberacoes /\ LiberacaoInv'
    <3>1. /\ lib' = lib /\ fase[s].l \in Liberacoes /\ lib[fase[s].l].sit = "PROCESSANDO"
          /\ soltas' = soltas \/ soltas' = soltas \cup {fase[s].l}
      BY <1>1, <2>5 DEF MoverLiberacao, FaseOK, ComLiberacao, LiberacaoInv
    <3> QED BY <1>1, <1>3, <2>1, <2>2, <3>1 DEF LiberacaoInv
  <2>6. ASSUME NEW s \in Sessoes, NEW l \in Liberacoes, NEW x \in {"LIBERADA", "FALHA"},
               Termina(s, l, x)
        PROVE  /\ lib' \in [Liberacoes -> LinhaDeLib] /\ soltas' \subseteq Liberacoes
               /\ LiberacaoInv'
               /\ \A k \in Liberacoes : lib[k].sit = "LIBERADA" => lib'[k].sit = "LIBERADA"
    <3>1. /\ lib'[l] = [sit |-> x, tent |-> lib[l].tent] /\ lib[l].sit = "PROCESSANDO"
          /\ \A k \in Liberacoes \ {l} : lib'[k] = lib[k]
          /\ lib' = [lib EXCEPT ![l] = lib'[l]]
          /\ soltas' = soltas /\ fase'[s] = Livre
          /\ "l" \in DOMAIN fase[s] /\ fase[s].l = l
      BY <1>1, <2>6 DEF Termina
    <3>2. lib'[l] \in LinhaDeLib
      BY <1>1, <3>1 DEF LinhaDeLib
    <3>3. lib' \in [Liberacoes -> LinhaDeLib]
      BY <1>1, <3>1, <3>2
    <3>4. \A t \in Sessoes : "l" \in DOMAIN fase'[t] => lib'[fase'[t].l].sit = "PROCESSANDO"
      <4>1. "l" \notin DOMAIN fase'[s]
        BY <3>1 DEF Livre
      <4>2. \A t \in Sessoes \ {s} : "l" \in DOMAIN fase[t] => fase[t].l # l
        BY <1>1, <3>1 DEF LiberacaoInv
      <4> QED BY <1>1, <2>1, <3>1, <4>1, <4>2 DEF LiberacaoInv
    <3>5. \A k \in Liberacoes :
            /\ lib'[k].sit # "nenhuma" => Concluida(k[1])'
            /\ lib'[k].sit = "nenhuma" => k \notin soltas'
            /\ lib'[k].sit \in {"nenhuma", "AGENDADA"} => lib'[k].tent = 0
      BY <1>1, <1>3, <3>1 DEF LiberacaoInv
    <3>6. LiberacaoInv'
      BY <2>2, <3>4, <3>5 DEF LiberacaoInv
    <3> QED BY <1>1, <3>1, <3>3, <3>6
  <2>7. \/ UNCHANGED <<lib, soltas, pend, reservado>>
        \/ \E s \in Sessoes : Nascem(s)
        \/ \E s \in Sessoes : MoverLiberacao(s)
        \/ \E s \in Sessoes, l \in Liberacoes, x \in {"LIBERADA", "FALHA"} : Termina(s, l, x)
    BY <1>5, ComoLibMuda
  <2>8. CASE \E s \in Sessoes : Nascem(s)
    BY <2>4, <2>8
  <2>9. CASE \E s \in Sessoes : MoverLiberacao(s)
    BY <1>1, <2>5, <2>9
  <2>10. CASE \E s \in Sessoes, l \in Liberacoes, x \in {"LIBERADA", "FALHA"} : Termina(s, l, x)
    BY <2>6, <2>10
  <2> QED BY <2>3, <2>7, <2>8, <2>9, <2>10
<1> QED BY <1>4, <1>5

(* An origin is offered to the holds once: by the credit of its sale, by    *)
(* the release of its row, or by the creation of its hold.                  *)
LEMMA PassoOrigem ==
  ASSUME RecebimentoInv, [Next]_vars
  PROVE  OrigemInv'
<1>1. /\ OrigemInv /\ LiberacaoInv /\ BloqueioInv /\ DOMAIN fase = Sessoes
      /\ \A s \in Sessoes : FaseOK(fase[s])
  BY DEF RecebimentoInv, CashinInv
<1>2. /\ \A v \in Vendas : Concluida(v) => Concluida(v)'
      /\ \A l \in Liberacoes : lib[l].sit = "LIBERADA" => lib'[l].sit = "LIBERADA"
  BY PassoVendas, PassoLib
<1>3. \A s \in Sessoes :
        /\ FaseOK(fase'[s])
        /\ fase'[s] = fase[s] \/ Sucede(s, fase'[s])
  BY PassoFases
<1>4. /\ DOMAIN cap = Sessoes
      /\ \A s \in Sessoes : PosicaoOK(cap[s])
  BY <1>1 DEF BloqueioInv
(* Origins in use after the step: those before it, and at most a new one.   *)
<1>5. \/ \A o : OrigemGasta(o)' => OrigemGasta(o)
      \/ \E b \in Bloqueios : \A o : OrigemGasta(o)' => OrigemGasta(o) \/ o = <<"criacao", b>>
      \/ \E s \in Sessoes : GravarLiberada(s) /\
            \A o : OrigemGasta(o)' => OrigemGasta(o) \/ o = <<"lib", fase[s].l>>
      \/ \E s \in Sessoes : CapturarCredito(s) /\
            \A o : OrigemGasta(o)' => OrigemGasta(o) \/ o = <<"cashin", fase[s].v>>
  <2>1. CASE UNCHANGED <<manual, holds>>
    BY <2>1 DEF holds, OrigemGasta, Capturando
  <2>3. ASSUME NEW s \in Sessoes, CapturarCredito(s)
        PROVE  \A o : OrigemGasta(o)' => OrigemGasta(o) \/ o = <<"cashin", fase[s].v>>
    BY <1>4, <2>3 DEF CapturarCredito, IniciarCaptura, ParaCapturar, OrigemGasta, Capturando
  <2>4. ASSUME NEW s \in Sessoes, GravarLiberada(s)
        PROVE  \A o : OrigemGasta(o)' => OrigemGasta(o) \/ o = <<"lib", fase[s].l>>
    BY <1>4, <2>4 DEF GravarLiberada, ParaCapturar, OrigemGasta, Capturando
  <2>5. ASSUME NEW s \in Sessoes, Interromper(s) PROVE \A o : OrigemGasta(o)' => OrigemGasta(o)
    BY <1>4, <2>5 DEF Interromper, Parada, OrigemGasta, Capturando
  <2>6. ASSUME NEW s \in Sessoes, PedidoDeBloqueio(s)
        PROVE  \E b \in Bloqueios : \A o : OrigemGasta(o)' => OrigemGasta(o) \/ o = <<"criacao", b>>
    <3>1. PICK b \in Bloqueios : \/ Criar(s, b, <<"criacao", b>>)
                                 \/ \E t \in {"LIBERADO", "DEBITADO"} : BuscarAtivo(s, b, t)
      BY <2>6 DEF PedidoDeBloqueio
    <3>2. CASE Criar(s, b, <<"criacao", b>>)
      <4>1. \A o : OrigemGasta(o)' => OrigemGasta(o) \/ o = <<"criacao", b>>
        BY <1>4, <3>2 DEF Criar, ParaCapturar, OrigemGasta, Capturando
      <4> QED BY <4>1
    <3>3. ASSUME NEW t, BuscarAtivo(s, b, t) PROVE \A o : OrigemGasta(o)' => OrigemGasta(o)
      <4>1. PICK c : c = [pc |-> IF bloq[b].preso > 0 THEN "soltar" ELSE "encerrar",
                          b |-> b, tipo |-> t, valor |-> bloq[b].preso]
        OBVIOUS
      <4>2. cap' = [cap EXCEPT ![s] = c] /\ UNCHANGED capturas
        BY <3>3, <4>1 DEF BuscarAtivo
      <4>3. c.pc \notin {"listar", "ler", "mover"}
        BY <4>1
      <4> QED BY <1>4, <4>2, <4>3 DEF OrigemGasta, Capturando
    <3> QED BY <3>1, <3>2, <3>3
  <2>7. ASSUME NEW s \in Sessoes, PassoBloqueio(s) PROVE \A o : OrigemGasta(o)' => OrigemGasta(o)
    <3>1. CASE Listar(s)
      <4>1. cap'[s].origem = cap[s].origem /\ \A t \in Sessoes \ {s} : cap'[t] = cap[t]
        BY <1>4, <3>1 DEF Listar
      <4>2. UNCHANGED capturas /\ Capturando(s)
        BY <3>1 DEF Listar, Capturando
      <4> QED BY <1>4, <4>1, <4>2 DEF OrigemGasta, Capturando
    <3>2. CASE LerSaldoDisponivel(s)
      <4>1. UNCHANGED capturas /\ Capturando(s)
        BY <3>2 DEF LerSaldoDisponivel, Capturando
      <4>2. PICK o, fila, falta :
              cap[s] = [pc |-> "ler", origem |-> o, fila |-> fila, falta |-> falta]
        BY <1>4, <3>2 DEF LerSaldoDisponivel, PosicaoOK, Parada
      <4>3. PICK c : cap' = [cap EXCEPT ![s] = c] /\ (c = Parada \/ c.origem = o)
        BY <3>2, <4>2 DEF LerSaldoDisponivel
      <4> QED BY <1>4, <4>1, <4>2, <4>3 DEF OrigemGasta, Capturando, Parada
    <3>3. CASE Mover(s)
      <4>1. Capturando(s)
        BY <3>3 DEF Mover, Capturando
      <4>2. CASE UNCHANGED capturas
        <5>1. PICK c : cap' = [cap EXCEPT ![s] = c] /\ (c = Parada \/ c.origem = cap[s].origem)
          BY <3>3 DEF Mover
        <5> QED BY <1>4, <4>1, <4>2, <5>1 DEF OrigemGasta, Capturando, Parada
      <4>3. CASE ~UNCHANGED capturas
        <5>1. /\ capturas' = capturas \cup {[b |-> cap[s].b, origem |-> cap[s].origem,
                                             valor |-> cap[s].valor]}
              /\ cap' = [cap EXCEPT ![s] = [pc |-> "ler", origem |-> cap[s].origem,
                                            fila |-> cap[s].fila \ {cap[s].b},
                                            falta |-> cap[s].falta]]
          BY <3>3, <4>3 DEF Mover
        <5>2. \A m \in capturas' : m \in capturas \/ m.origem = cap[s].origem
          BY <5>1
        <5>3. \A t \in Sessoes : cap'[t].origem = cap[t].origem \/ ~Capturando(t)'
          BY <1>4, <5>1
        <5>4. \A t \in Sessoes : Capturando(t)' => Capturando(t)
          BY <1>4, <4>1, <5>1 DEF Capturando
        <5> QED BY <4>1, <5>2, <5>3, <5>4 DEF OrigemGasta
      <4> QED BY <4>2, <4>3
    <3>4. CASE Soltar(s)
      <4>1. UNCHANGED capturas
        BY <3>4 DEF Soltar
      <4>2. cap[s] \in [pc : {"soltar", "encerrar"}, b : Bloqueios,
                        tipo : {"LIBERADO", "DEBITADO"}, valor : Nat]
        BY <1>4, <3>4 DEF Soltar, PosicaoOK, Lista, Parada
      <4>3. PICK c : cap' = [cap EXCEPT ![s] = c] /\ (c = Parada \/ c = [cap[s] EXCEPT !.pc = "encerrar"])
        BY <3>4 DEF Soltar
      <4>4. c.pc \notin {"listar", "ler", "mover"}
        <5>1. "pc" \in DOMAIN cap[s]
          BY <4>2
        <5>2. c = [cap[s] EXCEPT !.pc = "encerrar"] => c.pc = "encerrar"
          BY <5>1, MudaPc
        <5> QED BY <4>3, <5>2 DEF Parada
      <4> QED BY <1>4, <4>1, <4>3, <4>4 DEF OrigemGasta, Capturando
    <3>5. CASE Encerrar(s)
      BY <1>4, <3>5 DEF Encerrar, Parada, OrigemGasta, Capturando
    <3> QED BY <2>7, <3>1, <3>2, <3>3, <3>4, <3>5 DEF PassoBloqueio
  <2>8. UNCHANGED <<manual, holds>> \/ \E s \in Sessoes : EmHolds(s)
    BY QuemMuda DEF Quadro
  <2> QED BY <2>1, <2>3, <2>4, <2>5, <2>6, <2>7, <2>8 DEF EmHolds, SeguirBloqueio
<1>6. \A v \in Vendas : OrigemGasta(<<"cashin", v>>)' =>
        \/ OrigemGasta(<<"cashin", v>>)
        \/ \E s \in Sessoes : CapturarCredito(s) /\ v = fase[s].v
  BY <1>5
<1>7. \A l \in Liberacoes : OrigemGasta(<<"lib", l>>)' =>
        \/ OrigemGasta(<<"lib", l>>)
        \/ \E s \in Sessoes : GravarLiberada(s) /\ l = fase[s].l
  BY <1>5
<1>8. \A v \in Vendas : OrigemGasta(<<"cashin", v>>)' => Concluida(v)'
  <2>1. \A s \in Sessoes : CapturarCredito(s) => Concluida(fase[s].v)
    BY <1>1 DEF OrigemInv, CapturarCredito
  <2>2. \A v \in Vendas : OrigemGasta(<<"cashin", v>>) => Concluida(v)
    BY <1>1 DEF OrigemInv
  <2> QED BY <1>2, <1>6, <2>1, <2>2
<1>9. \A l \in Liberacoes : OrigemGasta(<<"lib", l>>)' => lib'[l].sit = "LIBERADA"
  <2>1. ASSUME NEW s \in Sessoes, GravarLiberada(s) PROVE lib'[fase[s].l].sit = "LIBERADA"
    <3>1. fase[s].l \in Liberacoes
      BY <1>1, <2>1 DEF GravarLiberada, FaseOK, ComLiberacao
    <3>2. lib'[fase[s].l] = [lib[fase[s].l] EXCEPT !.sit = "LIBERADA"]
          /\ lib[fase[s].l] \in LinhaDeLib
      BY <2>1, <3>1 DEF GravarLiberada, RecebimentoInv, CashinInv, CashinTypeOK, LinhaDeLib
    <3> QED BY <3>2, LibMuda
  <2> QED BY <1>1, <1>2, <1>7, <2>1 DEF OrigemInv
<1>10. \A s \in Sessoes : fase'[s].pc = "capturar" =>
         /\ fase'[s].v \in Vendas
         /\ \/ fase[s] = fase'[s]
            \/ GravarCredito(s) /\ fase'[s].v = fase[s].v /\ ~Concluida(fase'[s].v)
  BY <1>3 DEF Sucede, FaseOK, ComVenda
<1>11. \A s \in Sessoes : (fase[s].pc = "capturar")' =>
         Concluida(fase[s].v)' /\ ~OrigemGasta(<<"cashin", fase[s].v>>)'
  <2> SUFFICES ASSUME NEW s \in Sessoes, fase'[s].pc = "capturar", NEW v, v = fase'[s].v
               PROVE  Concluida(v)' /\ ~OrigemGasta(<<"cashin", v>>)'
    BY DEF Concluida, OrigemGasta, Capturando
  <2>1. v \in Vendas
    BY <1>10
  <2>2. CASE fase[s] = fase'[s]
    <3>1. Concluida(v)' /\ ~OrigemGasta(<<"cashin", v>>)
      BY <1>1, <1>2, <2>1, <2>2 DEF OrigemInv
    <3>2. ASSUME NEW t \in Sessoes, CapturarCredito(t), fase[t].v = v PROVE FALSE
      <4>1. fase[t].pc = "capturar" /\ fase'[t] = [fase[t] EXCEPT !.pc = "avaliar"]
        BY <1>1, <3>2 DEF CapturarCredito, IniciarCaptura, Vai2, Vai
      <4>2. t = s
        BY <1>1, <2>2, <3>2, <4>1 DEF OrigemInv
      <4>3. fase'[t].pc = "avaliar"
        <5>1. "pc" \in DOMAIN fase[t]
          BY <1>1 DEF FaseOK
        <5> QED BY <4>1, <5>1, MudaPc
      <4> QED BY <4>2, <4>3
    <3> QED BY <1>6, <2>1, <3>1, <3>2
  <2>3. CASE GravarCredito(s) /\ v = fase[s].v /\ ~Concluida(v)
    <3>1. ~OrigemGasta(<<"cashin", v>>)
      BY <1>1, <2>1, <2>3 DEF OrigemInv
    <3>2. UNCHANGED <<cap, capturas>>
      BY <2>3 DEF GravarCredito, holds
    <3>3. ~OrigemGasta(<<"cashin", v>>)'
      BY <3>1, <3>2 DEF OrigemGasta, Capturando
    <3>4. venda'[v].sit = "CONCLUIDA"
      <4>1. PICK u, d : u = fase[s].v /\ d = fase[s].dias /\ CreditoNovo(u, d)
        BY <2>3, EfeitoDoCredito
      <4>2. u = v /\ venda' = [venda EXCEPT ![v].sit = "CONCLUIDA"]
        BY <2>3, <4>1 DEF CreditoNovo
      <4>3. venda \in [Vendas -> LinhaDeVenda]
        BY DEF RecebimentoInv, CashinInv, CashinTypeOK, LinhaDeVenda
      <4>4. venda'[v] = [venda[v] EXCEPT !.sit = "CONCLUIDA"] /\ venda[v] \in LinhaDeVenda
        BY <2>1, <4>2, <4>3
      <4>5. [venda[v] EXCEPT !.sit = "CONCLUIDA"] = [sit |-> "CONCLUIDA", retida |-> venda[v].retida]
        BY <4>4, VendaMuda
      <4> QED BY <4>4, <4>5
    <3> QED BY <3>3, <3>4 DEF Concluida
  <2> QED BY <1>10, <2>2, <2>3
<1>12. \A s, t \in Sessoes :
         fase'[s].pc = "capturar" /\ fase'[t].pc = "capturar" /\ fase'[s].v = fase'[t].v => s = t
  <2> SUFFICES ASSUME NEW s \in Sessoes, NEW t \in Sessoes, fase'[s].pc = "capturar",
                      fase'[t].pc = "capturar", fase'[s].v = fase'[t].v, s # t
               PROVE  FALSE
    OBVIOUS
  <2>1. fase'[s] = fase[s] \/ fase'[t] = fase[t]
    BY PassoFases
  <2> QED BY <1>1, <1>10, <2>1 DEF OrigemInv
<1> QED BY <1>8, <1>9, <1>11, <1>12 DEF OrigemInv

-----------------------------------------------------------------------------
(* The retention: the revenue only grows within a day, and a sale is kept   *)
(* back when the ceiling was not reached before it.                         *)
LEMMA TetoCresce ==
  ASSUME NEW L \in Nat, NEW a \in Nat, NEW b \in Nat, a <= b
  PROVE  L * a <= L * b /\ L * a \in Nat /\ L * b \in Nat
OBVIOUS

Dia(f, r, o) == [fat |-> f, retido |-> r, offset |-> o]
ComFat(m, x) == [m EXCEPT !.fat = x]
ComOffset(m, x) == [m EXCEPT !.offset = x]
ComRetido(m, x, y) == [m EXCEPT !.retido = x, !.offset = y]

LEMMA MetodoMuda ==
  ASSUME NEW a, NEW b, NEW c
  PROVE  /\ \A x : ComFat(Dia(a, b, c), x) = Dia(x, b, c)
         /\ \A x : ComOffset(Dia(a, b, c), x) = Dia(a, b, x)
         /\ \A x, y : ComRetido(Dia(a, b, c), x, y) = Dia(a, x, y)
         /\ NovoDia(Dia(a, b, c)) = Dia(0, 0, c)
<1>1. \A x : ComFat(Dia(a, b, c), x) = Dia(x, b, c)
  BY DEF ComFat, Dia
<1>2. \A x : ComOffset(Dia(a, b, c), x) = Dia(a, b, x)
  BY DEF ComOffset, Dia
<1>3. ASSUME NEW x, NEW y PROVE ComRetido(Dia(a, b, c), x, y) = Dia(a, x, y)
  <2>1. PICK q : q = [Dia(a, b, c) EXCEPT !.retido = x]
    OBVIOUS
  <2>2. q = Dia(a, x, c)
    BY <2>1 DEF Dia
  <2>3. [q EXCEPT !.offset = y] = Dia(a, x, y)
    BY <2>2 DEF Dia
  <2> QED BY <2>1, <2>3 DEF ComRetido
<1>4. NovoDia(Dia(a, b, c)) = Dia(0, 0, c)
  <2>1. PICK q : q = [Dia(a, b, c) EXCEPT !.fat = 0]
    OBVIOUS
  <2>2. q = Dia(0, b, c)
    BY <2>1 DEF Dia
  <2>3. [q EXCEPT !.retido = 0] = Dia(0, 0, c)
    BY <2>2 DEF Dia
  <2> QED BY <2>1, <2>3 DEF NovoDia
<1> QED BY <1>1, <1>2, <1>3, <1>4

(* What a decision does to the figures of the day.                          *)
LEMMA DecisaoConta ==
  ASSUME NEW v \in Vendas, NEW f \in Nat, NEW r \in Nat, NEW o,
         NEW m0, m0 = Dia(f, r, o), NEW d \in Decisoes(m0, v)
  PROVE  \E p : \/ d.m = Dia(f + Bruto[v], r, p)
                \/ d.m = Dia(f + Bruto[v], r + Bruto[v], p) /\ ~Bateu(m0)
<1>1. m0.fat = f /\ m0.retido = r /\ m0.offset = o
  BY DEF Dia
<1>2. PICK m : m = ComFat(m0, m0.fat + Bruto[v])
  OBVIOUS
<1>3. m = Dia(f + Bruto[v], r, o)
  BY <1>1, <1>2, MetodoMuda
<1>4. m.retido = r
  BY <1>3 DEF Dia
<1>5. \/ d = [reter |-> FALSE, m |-> m]
      \/ \E x : d = [reter |-> FALSE, m |-> ComOffset(m, x)]
      \/ \E x : d = [reter |-> TRUE, m |-> ComRetido(m, m.retido + Bruto[v], x)]
                /\ ~Bateu(m0)
  <2>1. m = [m0 EXCEPT !.fat = @ + Bruto[v]]
    BY <1>2 DEF ComFat
  <2>2. \A x : ComOffset(m, x) = [m EXCEPT !.offset = x]
    BY DEF ComOffset
  <2>3. \A x : ComRetido(m, m.retido + Bruto[v], x)
                 = [m EXCEPT !.retido = m.retido + Bruto[v], !.offset = x]
    BY DEF ComRetido
  <2>4. d \in IF v \in Isentas \/ m.fat < MinimoDia THEN {[reter |-> FALSE, m |-> m]}
              ELSE IF m0.offset > 0 THEN {[reter |-> FALSE, m |-> ComOffset(m, m.offset - 1)]}
              ELSE IF Bateu(m0) THEN {[reter |-> FALSE, m |-> ComOffset(m, x)] : x \in Offsets}
              ELSE IF Estoura(m0, v)
                   THEN {[reter |-> TRUE, m |-> ComRetido(m, m.retido + Bruto[v], x)] : x \in Offsets}
              ELSE {[reter |-> FALSE, m |-> m]}
    BY <1>2 DEF Decisoes, ComFat, ComOffset, ComRetido
  <2> QED BY <2>4
<1>6. /\ \A x : ComOffset(m, x) = Dia(f + Bruto[v], r, x)
      /\ \A x, y : ComRetido(m, x, y) = Dia(f + Bruto[v], x, y)
  BY <1>3, MetodoMuda
<1> QED BY <1>3, <1>4, <1>5, <1>6

LEMMA PassoRetencao ==
  ASSUME RecebimentoInv, [Next]_vars
  PROVE  RetencaoInv'
<1>1. RetencaoInv
  BY DEF RecebimentoInv, CashinInv
<1>2. CASE UNCHANGED metodo
  BY <1>1, <1>2 DEF RetencaoInv, RetencaoNoLimite
<1>3. ASSUME NEW s \in Sessoes, Decidir(s) PROVE RetencaoInv'
  <2>1. PICK v : v = fase[s].v /\ v \in Vendas
    BY <1>3 DEF RecebimentoInv, CashinInv, FaseOK, ComVenda, Decidir
  <2>2. PICK f, r, o : metodo = Dia(f, r, o)
    BY <1>1 DEF RetencaoInv, Dia
  <2>3. /\ f \in Nat /\ r \in Nat /\ (f = 0 => r = 0)
        /\ r > 0 => \E u \in Vendas : (r - Bruto[u]) * 100 <= LimiteMetodo * f
    BY <1>1, <2>2 DEF RetencaoInv, RetencaoNoLimite, Dia
  <2>4. PICK m0 : /\ m0 = metodo \/ m0 = NovoDia(metodo)
                  /\ \E d \in Decisoes(m0, v) : metodo' = d.m
    BY <1>3, <2>1 DEF Decidir
  <2>5. PICK d \in Decisoes(m0, v) : metodo' = d.m
    BY <2>4
  <2>6. PICK g, q : /\ m0 = Dia(g, q, o)
                    /\ (g = f /\ q = r) \/ (g = 0 /\ q = 0)
    <3>1. NovoDia(metodo) = Dia(0, 0, o)
      BY <2>2, MetodoMuda
    <3> QED BY <2>2, <2>4, <3>1
  <2>7. /\ g \in Nat /\ q \in Nat /\ (g = 0 => q = 0)
        /\ q > 0 => \E u \in Vendas : (q - Bruto[u]) * 100 <= LimiteMetodo * g
    BY <2>3, <2>6
  <2>8. PICK b : b = Bruto[v] /\ b \in Nat /\ b > 0
    BY <2>1, CashinAssumption
  <2>9. PICK p : \/ d.m = Dia(g + b, q, p)
                 \/ /\ d.m = Dia(g + b, q + b, p)
                    /\ ~Bateu(m0)
    <3>1. \E x : \/ d.m = Dia(g + Bruto[v], q, x)
                 \/ /\ d.m = Dia(g + Bruto[v], q + Bruto[v], x)
                    /\ ~Bateu(m0)
      BY <2>1, <2>6, <2>7, DecisaoConta
    <3> QED BY <2>8, <3>1
  <2>10. /\ g + b \in Nat /\ g + b # 0 /\ q + b \in Nat /\ LimiteMetodo \in Nat
         /\ g <= g + b
    BY <2>7, <2>8, CashinAssumption
  <2>11. LimiteMetodo * g <= LimiteMetodo * (g + b)
         /\ LimiteMetodo * g \in Nat /\ LimiteMetodo * (g + b) \in Nat
    BY <2>7, <2>10, TetoCresce
  <2>12. CASE d.m = Dia(g + b, q, p)
    <3>1. metodo' = Dia(g + b, q, p)
      BY <2>5, <2>12
    <3>2. q > 0 => \E u \in Vendas : (q - Bruto[u]) * 100 <= LimiteMetodo * (g + b)
      <4> SUFFICES ASSUME q > 0
                   PROVE  \E u \in Vendas : (q - Bruto[u]) * 100 <= LimiteMetodo * (g + b)
        OBVIOUS
      <4>1. PICK u \in Vendas : (q - Bruto[u]) * 100 <= LimiteMetodo * g
        BY <2>7
      <4>2. Bruto[u] \in Nat
        BY CashinAssumption
      <4>3. (q - Bruto[u]) * 100 <= LimiteMetodo * (g + b)
        BY <2>7, <2>11, <4>1, <4>2
      <4> QED BY <4>3
    <3> QED BY <2>7, <2>10, <3>1, <3>2 DEF RetencaoInv, RetencaoNoLimite, Dia
  <2>13. CASE d.m = Dia(g + b, q + b, p) /\ ~Bateu(m0)
    <3>1. metodo' = Dia(g + b, q + b, p)
      BY <2>5, <2>13
    <3>2. (q + b) - Bruto[v] = q
      BY <2>7, <2>8
    <3>3. q * 100 <= LimiteMetodo * (g + b)
      <4>1. m0.fat = g /\ m0.retido = q
        BY <2>6 DEF Dia
      <4>2. CASE g > 0
        <5>1. q * 100 < LimiteMetodo * g
          BY <2>7, <2>11, <2>13, <4>1, <4>2 DEF Bateu
        <5> QED BY <2>7, <2>11, <5>1
      <4>3. CASE g = 0
        BY <2>7, <2>11, <4>3
      <4> QED BY <2>7, <4>2, <4>3
    <3>4. ((q + b) - Bruto[v]) * 100 <= LimiteMetodo * (g + b)
      BY <3>2, <3>3
    <3> QED BY <2>1, <2>7, <2>10, <3>1, <3>4 DEF RetencaoInv, RetencaoNoLimite, Dia
  <2> QED BY <2>9, <2>12, <2>13
<1>4. UNCHANGED metodo \/ \E s \in Sessoes : Decidir(s)
  BY QuemMuda DEF Quadro
<1> QED BY <1>2, <1>3, <1>4

-----------------------------------------------------------------------------
(* The parked money: what the rows still to be released will move.          *)
SomaLib(A) == SumFunctionOnSet([l \in Liberacoes |-> ValorLib(l)], A)

LEMMA LiberacoesFinitas ==
  /\ IsFiniteSet(Liberacoes) /\ \A A \in SUBSET Liberacoes : IsFiniteSet(A)
  /\ \A l \in Liberacoes : ValorLib(l) \in Nat /\ [k \in Liberacoes |-> ValorLib(k)][l] = ValorLib(l)
<1>1. IsFiniteSet(Tipos)
  <2>1. Tipos = {"PRINCIPAL"} \cup {"RESERVA"}
    BY DEF Tipos
  <2> QED BY <2>1, FS_Singleton, FS_AddElement
<1>2. IsFiniteSet(Liberacoes)
  BY <1>1, CashinAssumption, FS_Product DEF Liberacoes
<1>3. \A A \in SUBSET Liberacoes : IsFiniteSet(A)
  BY <1>2, FS_Subset
<1>4. \A l \in Liberacoes : ValorLib(l) \in Nat
  BY CashinAssumption DEF ValorLib, Liberacoes
<1> QED BY <1>2, <1>3, <1>4

LEMMA LibEntra ==
  ASSUME NEW A \in SUBSET Liberacoes, NEW l \in Liberacoes, l \notin A
  PROVE  SomaLib(A \cup {l}) = SomaLib(A) + ValorLib(l)
<1>1. IsFiniteSet(A) /\ \A x \in A \cup {l} : [k \in Liberacoes |-> ValorLib(k)][x] \in Int
  BY LiberacoesFinitas
<1>2. SomaLib(A \cup {l}) = SomaLib(A) + [k \in Liberacoes |-> ValorLib(k)][l]
  BY <1>1, SomaMaisUm DEF SomaLib
<1> QED BY <1>2

LEMMA LibSai ==
  ASSUME NEW A \in SUBSET Liberacoes, NEW l \in A
  PROVE  SomaLib(A) = ValorLib(l) + SomaLib(A \ {l}) /\ SomaLib(A \ {l}) \in Nat
<1>1. /\ IsFiniteSet(A) /\ IsFiniteSet(A \ {l})
      /\ \A x \in A : [k \in Liberacoes |-> ValorLib(k)][x] \in Nat
  BY LiberacoesFinitas
<1>2. SomaLib(A) = [k \in Liberacoes |-> ValorLib(k)][l] + SomaLib(A \ {l})
  <2>1. PICK f : f = [k \in Liberacoes |-> ValorLib(k)]
    OBVIOUS
  <2>2. \A x \in A : f[x] \in Int
    BY <1>1, <2>1
  <2>3. SumFunctionOnSet(f, A) = f[l] + SumFunctionOnSet(f, A \ {l})
    BY <1>1, <2>2, SomaSeparada
  <2> QED BY <2>1, <2>3 DEF SomaLib
<1>3. SomaLib(A \ {l}) \in Nat
  BY <1>1, SomaNatural DEF SomaLib
<1> QED BY <1>2, <1>3

(* The parked balances, and the rows that explain each.                     *)
Explicado == SomaLib(AMover("PRINCIPAL")) = pend /\ SomaLib(AMover("RESERVA")) = reservado

LEMMA ParadoExplicado == ParadoTemLiberacao <=> Explicado
<1>1. "PRINCIPAL" # "RESERVA"
  OBVIOUS
<1> QED BY <1>1 DEF ParadoTemLiberacao, Explicado, SomaLib, Tipos

LEMMA PassoParado ==
  ASSUME RecebimentoInv, [Next]_vars
  PROVE  ParadoTemLiberacao' /\ pend' \in Nat /\ reservado' \in Nat
<1> DEFINE P == AMover("PRINCIPAL")
           R == AMover("RESERVA")
           Certo == Explicado' /\ pend' \in Nat /\ reservado' \in Nat
<1>1. /\ lib \in [Liberacoes -> LinhaDeLib] /\ soltas \subseteq Liberacoes /\ LiberacaoInv
      /\ pend \in Nat /\ reservado \in Nat /\ \A s \in Sessoes : FaseOK(fase[s])
  BY DEF RecebimentoInv, CashinInv, CashinTypeOK, LinhaDeLib
<1>2. SomaLib(P) = pend /\ SomaLib(R) = reservado
  BY ParadoExplicado DEF RecebimentoInv, CashinInv, Explicado
<1>3. P \in SUBSET Liberacoes /\ R \in SUBSET Liberacoes
  BY DEF AMover
<1>4. ASSUME P' = P, R' = R, UNCHANGED <<pend, reservado>> PROVE Certo
  BY <1>1, <1>2, <1>4 DEF Explicado, SomaLib
<1>5. ASSUME UNCHANGED <<lib, soltas, pend, reservado>> PROVE Certo
  <2>1. P' = P /\ R' = R
    BY <1>5 DEF AMover
  <2> QED BY <1>4, <1>5, <2>1
<1>6. ASSUME NEW s \in Sessoes, Nascem(s) PROVE Certo
  <2>1. PICK v, d : CreditoNovo(v, d)
    BY <1>6, EfeitoDoCredito DEF Nascem
  <2>2. soltas' = soltas
    BY <1>6 DEF Nascem, GravarCredito
  <2>3. PICK p, r : p = <<v, "PRINCIPAL">> /\ r = <<v, "RESERVA">>
    OBVIOUS
  <2>4. v \in Vendas /\ d \in {0, 1} /\ Principal[v] \in Nat /\ Reserva[v] \in Nat
    BY <2>1, CashinAssumption DEF CreditoNovo
  <2>5. /\ p \in Liberacoes /\ r \in Liberacoes /\ p # r
        /\ p[2] = "PRINCIPAL" /\ r[2] = "RESERVA"
        /\ ValorLib(p) = Principal[v] /\ ValorLib(r) = Reserva[v]
        /\ (p \in Agendadas(v, d) <=> d > 0) /\ (r \in Agendadas(v, d) <=> Reserva[v] > 0)
        /\ \A l \in Agendadas(v, d) : l = p \/ l = r
    BY <2>3, <2>4 DEF Liberacoes, Tipos, ValorLib, Agendadas
  <2>6. \A l \in Liberacoes :
          IF l \in Agendadas(v, d)
          THEN l \notin soltas /\ lib[l].sit = "nenhuma" /\ lib'[l].sit = "AGENDADA"
          ELSE lib'[l] = lib[l]
    BY <1>1, <2>1 DEF CreditoNovo, LiberacaoInv
  <2>7. /\ d > 0 => P' = P \cup {p} /\ p \notin P
        /\ ~(d > 0) => P' = P
        /\ Reserva[v] > 0 => R' = R \cup {r} /\ r \notin R
        /\ ~(Reserva[v] > 0) => R' = R
    BY <2>2, <2>5, <2>6 DEF AMover
  <2>8. /\ d > 0 => pend' = pend + Principal[v]
        /\ d = 0 => pend' = pend
        /\ reservado' = reservado + Reserva[v]
    BY <2>1 DEF CreditoNovo
  <2>9. SomaLib(P') = pend' /\ pend' \in Nat
    <3>1. CASE d > 0
      <4>1. SomaLib(P \cup {p}) = SomaLib(P) + Principal[v]
        BY <1>3, <2>5, <2>7, <3>1, LibEntra
      <4>2. SomaLib(P') = SomaLib(P \cup {p})
        BY <2>7, <3>1
      <4> HIDE DEF P
      <4> QED BY <1>1, <1>2, <2>4, <2>8, <3>1, <4>1, <4>2
    <3>2. CASE d = 0
      BY <1>1, <1>2, <2>7, <2>8, <3>2
    <3> QED BY <2>4, <3>1, <3>2
  <2>10. SomaLib(R') = reservado' /\ reservado' \in Nat
    <3>1. CASE Reserva[v] > 0
      <4>1. SomaLib(R \cup {r}) = SomaLib(R) + Reserva[v]
        BY <1>3, <2>5, <2>7, <3>1, LibEntra
      <4> QED BY <1>1, <1>2, <2>4, <2>7, <2>8, <3>1, <4>1
    <3>2. CASE ~(Reserva[v] > 0)
      <4>1. R' = R /\ Reserva[v] = 0
        BY <2>4, <2>7, <3>2
      <4> QED BY <1>1, <1>2, <2>8, <4>1
    <3> QED BY <3>1, <3>2
  <2> QED BY <2>9, <2>10 DEF Explicado, SomaLib
<1>7. ASSUME NEW s \in Sessoes, MoverLiberacao(s) PROVE Certo
  <2>1. PICK l \in Liberacoes : "l" \in DOMAIN fase[s] /\ l = fase[s].l
    BY <1>1, <1>7 DEF FaseOK, ComLiberacao, MoverLiberacao
  <2>2. lib' = lib /\ lib[l].sit # "nenhuma"
    BY <1>1, <1>7, <2>1 DEF LiberacaoInv, MoverLiberacao
  <2>3. PICK x : x = IF l \in soltas THEN 0 ELSE ValorLib(l)
    OBVIOUS
  <2>4. \/ UNCHANGED <<pend, reservado, soltas>>
        \/ /\ ~((IF l[2] = "RESERVA" THEN reservado ELSE pend) < x)
           /\ soltas' = soltas \cup {l}
           /\ pend' = IF l[2] = "RESERVA" THEN pend ELSE pend - x
           /\ reservado' = IF l[2] = "RESERVA" THEN reservado - x ELSE reservado
    BY <1>7, <2>1, <2>3 DEF MoverLiberacao
  <2>5. CASE UNCHANGED <<pend, reservado, soltas>>
    BY <1>5, <2>2, <2>5
  <2>6. CASE ~UNCHANGED <<pend, reservado, soltas>> /\ l \in soltas
    <3>1. P' = P /\ R' = R /\ pend' = pend /\ reservado' = reservado
      BY <1>1, <2>2, <2>3, <2>4, <2>6 DEF AMover
    <3> QED BY <1>4, <3>1
  <2>7. CASE ~UNCHANGED <<pend, reservado, soltas>> /\ l \notin soltas
    <3>1. x = ValorLib(l) /\ x \in Nat /\ (l[2] = "RESERVA" \/ l[2] = "PRINCIPAL")
          /\ soltas' = soltas \cup {l}
      BY <2>3, <2>4, <2>7, LiberacoesFinitas DEF Liberacoes, Tipos
    <3>2. CASE l[2] = "RESERVA"
      <4>1. R' = R \ {l} /\ P' = P /\ l \in R
        BY <2>2, <2>7, <3>1, <3>2 DEF AMover
      <4>2. pend' = pend /\ reservado' = reservado - x
        BY <2>4, <2>7, <3>2
      <4>3. SomaLib(R) = x + SomaLib(R \ {l}) /\ SomaLib(R \ {l}) \in Nat
        BY <1>3, <3>1, <4>1, LibSai
      <4>4. SomaLib(R') = reservado' /\ reservado' \in Nat
        <5>1. SomaLib(R') = SomaLib(R \ {l})
          BY <4>1
        <5> HIDE DEF R
        <5> QED BY <1>1, <1>2, <3>1, <4>2, <4>3, <5>1
      <4>5. SomaLib(P') = pend'
        BY <1>2, <4>1, <4>2
      <4> QED BY <1>1, <4>2, <4>4, <4>5 DEF Explicado, SomaLib
    <3>3. CASE l[2] = "PRINCIPAL"
      <4>1. P' = P \ {l} /\ R' = R /\ l \in P
        BY <2>2, <2>7, <3>1, <3>3 DEF AMover
      <4>2. pend' = pend - x /\ reservado' = reservado
        BY <2>4, <2>7, <3>3
      <4>3. SomaLib(P) = x + SomaLib(P \ {l}) /\ SomaLib(P \ {l}) \in Nat
        BY <1>3, <3>1, <4>1, LibSai
      <4>4. SomaLib(P') = pend' /\ pend' \in Nat
        <5>1. SomaLib(P') = SomaLib(P \ {l})
          BY <4>1
        <5> HIDE DEF P
        <5> QED BY <1>1, <1>2, <3>1, <4>2, <4>3, <5>1
      <4>5. SomaLib(R') = reservado'
        BY <1>2, <4>1, <4>2
      <4> QED BY <1>1, <4>2, <4>4, <4>5 DEF Explicado, SomaLib
    <3> QED BY <3>1, <3>2, <3>3
  <2> QED BY <2>5, <2>6, <2>7
<1>8. ASSUME NEW s \in Sessoes, NEW l \in Liberacoes, Reivindicar(s, l) PROVE Certo
  <2>1. /\ UNCHANGED <<soltas, pend, reservado>> /\ lib[l].sit # "nenhuma"
        /\ lib' = [lib EXCEPT ![l] = [sit |-> "PROCESSANDO", tent |-> lib[l].tent + 1]]
    BY <1>8 DEF Reivindicar, Devida
  <2>2. \A k \in Liberacoes : lib[k].sit = "nenhuma" <=> lib'[k].sit = "nenhuma"
    BY <1>1, <2>1
  <2>3. P' = P /\ R' = R
    BY <2>1, <2>2 DEF AMover
  <2> QED BY <1>4, <2>1, <2>3
<1>9. ASSUME NEW s \in Sessoes, NEW l \in Liberacoes, NEW x \in {"LIBERADA", "FALHA"},
             Termina(s, l, x)
      PROVE  Certo
  <2>1. \A k \in Liberacoes : lib[k].sit = "nenhuma" <=> lib'[k].sit = "nenhuma"
    BY <1>1, <1>9 DEF Termina
  <2>2. P' = P /\ R' = R
    BY <1>9, <2>1 DEF AMover, Termina
  <2> QED BY <1>4, <1>9, <2>2 DEF Termina
<1>10. Certo
  BY <1>5, <1>6, <1>7, <1>8, <1>9, ComoLibMuda
<1>11. ParadoTemLiberacao' <=> Explicado'
  BY ParadoExplicado, PTL
<1> QED BY <1>10, <1>11

-----------------------------------------------------------------------------
(* The automatic MED: a case is never undone and a debit never forgotten.   *)
LinhaVelha == [sit : {"CONCLUIDA", "MED"}, auto : BOOLEAN,
               caso : {"nenhum", "DEBITADO", "ACEITO"}]

LEMMA VelhaMuda ==
  ASSUME NEW r \in LinhaVelha, NEW x
  PROVE  [r EXCEPT !.caso = x] = [sit |-> r.sit, auto |-> r.auto, caso |-> x]
<1>1. PICK a, b, c : r = [sit |-> a, auto |-> b, caso |-> c]
  BY DEF LinhaVelha
<1> QED BY <1>1

MedTipos ==
  /\ velha \in [Ontem -> LinhaVelha]
  /\ debitoMed \subseteq Ontem /\ avisoMed \in [Ontem -> Nat]
MedCresce ==
  /\ \A o \in Ontem : velha[o].caso # "nenhum" => velha'[o].caso # "nenhum"
  /\ debitoMed \subseteq debitoMed'

LEMMA PassoVelhas ==
  ASSUME RecebimentoInv, [Next]_vars
  PROVE  MedTipos' /\ ConvertidaFoiDebitada' /\ MedCresce
<1>1. /\ MedTipos /\ ConvertidaFoiDebitada
      /\ \A s \in Sessoes : fase[s].pc \in EmMed => fase[s].o \in Ontem
      /\ \A s \in Sessoes : fase[s].pc \in {"debitarMed", "gravarMed"} =>
            velha[fase[s].o].caso # "nenhum"
      /\ \A s \in Sessoes : fase[s].pc = "gravarMed" => fase[s].o \in debitoMed
  BY DEF RecebimentoInv, TypeOK, MedInv, MedTipos, LinhaVelha
<1>2. ASSUME UNCHANGED <<velha, debitoMed, avisoMed>>
      PROVE  MedTipos' /\ ConvertidaFoiDebitada' /\ MedCresce
  BY <1>1, <1>2 DEF MedTipos, ConvertidaFoiDebitada, MedCresce
<1>3. ASSUME NEW s \in Sessoes, AbrirCaso(s)
      PROVE  MedTipos' /\ ConvertidaFoiDebitada' /\ MedCresce
  <2>1. PICK o \in Ontem : o = fase[s].o
    BY <1>1, <1>3 DEF AbrirCaso, EmMed
  <2>2. UNCHANGED <<debitoMed, avisoMed>>
    BY <1>3 DEF AbrirCaso
  <2>3. CASE UNCHANGED velha
    BY <1>2, <2>2, <2>3
  <2>4. CASE ~UNCHANGED velha
    <3>1. /\ velha[o].sit = "CONCLUIDA" /\ velha[o].caso = "nenhum"
          /\ velha' = [velha EXCEPT ![o].caso = "DEBITADO"]
      BY <1>3, <2>1, <2>4 DEF AbrirCaso
    <3>2. [velha[o] EXCEPT !.caso = "DEBITADO"]
            = [sit |-> "CONCLUIDA", auto |-> velha[o].auto, caso |-> "DEBITADO"]
      BY <1>1, <2>1, <3>1, VelhaMuda DEF MedTipos
    <3>3. velha' = [velha EXCEPT ![o] =
             [sit |-> "CONCLUIDA", auto |-> velha[o].auto, caso |-> "DEBITADO"]]
      BY <3>1, <3>2
    <3>4. [sit |-> "CONCLUIDA", auto |-> velha[o].auto, caso |-> "DEBITADO"] \in LinhaVelha
      BY <1>1 DEF MedTipos, LinhaVelha
    <3>5. MedTipos'
      BY <1>1, <2>2, <3>3, <3>4 DEF MedTipos
    <3>6. ConvertidaFoiDebitada' /\ MedCresce
      BY <1>1, <2>2, <3>3 DEF MedTipos, ConvertidaFoiDebitada, MedCresce
    <3> QED BY <3>5, <3>6
  <2> QED BY <2>3, <2>4
<1>4. ASSUME NEW s \in Sessoes, DebitarMed(s)
      PROVE  MedTipos' /\ ConvertidaFoiDebitada' /\ MedCresce
  <2>1. PICK o \in Ontem : o = fase[s].o /\ velha[o].caso # "nenhum"
    BY <1>1, <1>4 DEF DebitarMed, EmMed
  <2>2. velha' = velha
    BY <1>4 DEF DebitarMed
  <2>3. \/ UNCHANGED <<debitoMed, avisoMed>>
        \/ /\ debitoMed' = debitoMed \cup {o}
           /\ avisoMed' = [avisoMed EXCEPT ![o] =
                IF o \in debitoMed THEN avisoMed[o] ELSE avisoMed[o] + 1]
    BY <1>4, <2>1 DEF DebitarMed
  <2>4. CASE UNCHANGED <<debitoMed, avisoMed>>
    BY <1>2, <2>2, <2>4
  <2>5. CASE /\ debitoMed' = debitoMed \cup {o}
             /\ avisoMed' = [avisoMed EXCEPT ![o] =
                  IF o \in debitoMed THEN avisoMed[o] ELSE avisoMed[o] + 1]
    <3>1. avisoMed[o] \in Nat /\ (avisoMed[o] = IF o \in debitoMed THEN 1 ELSE 0)
      BY <1>1 DEF MedTipos, ConvertidaFoiDebitada
    <3>2. avisoMed' = [avisoMed EXCEPT ![o] = 1]
      BY <2>5, <3>1
    <3>3. MedTipos'
      BY <1>1, <2>2, <2>5, <3>2 DEF MedTipos
    <3>4. ConvertidaFoiDebitada' /\ MedCresce
      BY <1>1, <2>1, <2>2, <2>5, <3>2 DEF MedTipos, ConvertidaFoiDebitada, MedCresce
    <3> QED BY <3>3, <3>4
  <2> QED BY <2>3, <2>4, <2>5
<1>5. ASSUME NEW s \in Sessoes, GravarMed(s)
      PROVE  MedTipos' /\ ConvertidaFoiDebitada' /\ MedCresce
  <2>1. PICK o \in Ontem : o = fase[s].o /\ o \in debitoMed
    BY <1>1, <1>5 DEF GravarMed, ProntaParaMed, EmMed
  <2>2. /\ UNCHANGED <<debitoMed, avisoMed>>
        /\ velha' = [velha EXCEPT ![o] = [sit |-> "MED", auto |-> TRUE, caso |-> "ACEITO"]]
    BY <1>5, <2>1 DEF GravarMed
  <2>3. [sit |-> "MED", auto |-> TRUE, caso |-> "ACEITO"] \in LinhaVelha
    BY DEF LinhaVelha
  <2>4. MedTipos'
    BY <1>1, <2>2, <2>3 DEF MedTipos
  <2>5. ConvertidaFoiDebitada' /\ MedCresce
    BY <1>1, <2>1, <2>2 DEF MedTipos, ConvertidaFoiDebitada, MedCresce
  <2> QED BY <2>4, <2>5
<1>6. UNCHANGED <<velha, debitoMed, avisoMed>> \/ \E s \in Sessoes : EmVelha(s)
  BY QuemMuda DEF Quadro
<1> QED BY <1>2, <1>3, <1>4, <1>5, <1>6 DEF EmVelha

LEMMA PassoEstado ==
  ASSUME RecebimentoInv, [Next]_vars
  PROVE  estado' \in [offset : Nat, valor : Nat]
<1>1. PICK a \in Nat, b \in Nat : estado = [offset |-> a, valor |-> b]
  BY DEF RecebimentoInv, TypeOK
<1>2. ASSUME NEW s \in Sessoes, Avaliar(s) PROVE estado' \in [offset : Nat, valor : Nat]
  <2>1. estado' = estado \/ (a > 0 /\ estado' = [estado EXCEPT !.offset = a - 1])
    BY <1>1, <1>2 DEF Avaliar
  <2>2. \A x : [estado EXCEPT !.offset = x] = [offset |-> x, valor |-> b]
    BY <1>1
  <2>3. a > 0 => a - 1 \in Nat
    BY <1>1
  <2>4. estado' = estado \/ (a > 0 /\ estado' = [offset |-> a - 1, valor |-> b])
    <3>1. [estado EXCEPT !.offset = a - 1] = [offset |-> a - 1, valor |-> b]
      BY <1>1
    <3> QED BY <2>1, <3>1
  <2> QED BY <1>1, <2>3, <2>4
<1>3. ASSUME NEW s \in Sessoes, GravarEstado(s) PROVE estado' \in [offset : Nat, valor : Nat]
  <2>1. fase[s].o \in Ontem /\ fase[s].antes \in Nat
    BY <1>3 DEF RecebimentoInv, MedInv, EmMed, GravarEstado
  <2>2. BrutoOntem[fase[s].o] \in Nat
    BY <2>1, RecebimentoAssumption
  <2>3. PICK n \in Offsets :
          estado' = [offset |-> n, valor |-> fase[s].antes + BrutoOntem[fase[s].o]]
    BY <1>3 DEF GravarEstado
  <2>4. n \in Nat
    BY <2>3, CashinAssumption
  <2> QED BY <2>1, <2>2, <2>3, <2>4
<1>4. UNCHANGED estado \/ \E s \in Sessoes : Avaliar(s) \/ GravarEstado(s)
  BY QuemMuda DEF Quadro
<1> QED BY <1>1, <1>2, <1>3, <1>4

LEMMA PassoMedInv ==
  ASSUME RecebimentoInv, [Next]_vars
  PROVE  MedInv'
<1>1. ConvertidaFoiDebitada' /\ MedCresce
  BY PassoVelhas
<1>2. ASSUME NEW s \in Sessoes
      PROVE  /\ fase'[s].pc \in EmMed =>
                  /\ {"o", "antes"} \subseteq DOMAIN fase'[s]
                  /\ fase'[s].o \in Ontem /\ fase'[s].antes \in Nat
             /\ fase'[s].pc \in {"debitarMed", "gravarMed"} =>
                  velha'[fase'[s].o].caso # "nenhum"
             /\ fase'[s].pc = "gravarMed" => fase'[s].o \in debitoMed'
  <2>1. CASE Sucede(s, fase'[s])
    BY <2>1 DEF Sucede
  <2>2. CASE fase'[s] = fase[s]
    BY <1>1, <2>2 DEF RecebimentoInv, MedInv, MedCresce, EmMed
  <2> QED BY <2>1, <2>2, PassoFases
<1> QED BY <1>1, <1>2 DEF MedInv

-----------------------------------------------------------------------------
(* The invariant holds at the start and survives every step.                *)
LEMMA Inicio == Init => RecebimentoInv
<1> SUFFICES ASSUME Init PROVE RecebimentoInv
  OBVIOUS
<1> USE DEF Init, CashinInit, BloqueioInit
<1>1. \A b : SomaCapturas(b) = 0
  BY SemCapturas
<1>2. \A v \in Vendas : ~Concluida(v)
  BY DEF Concluida
<1>3. \A s \in Sessoes : cap[s] = Parada /\ fase[s] = Livre
  OBVIOUS
<1>4. \A o : ~OrigemGasta(o)
  BY <1>3 DEF OrigemGasta, Capturando, Parada
<1>5. BloqueioTypeOK
  BY DEF BloqueioTypeOK
<1>6. BloqueioInv
  <2>1. LinhaIgualExtrato
    BY <1>1 DEF LinhaIgualExtrato, Ativos
  <2>2. IsFiniteSet(capturas)
    BY FS_EmptySet
  <2>3. \A s \in Sessoes : PosicaoOK(cap[s]) /\ PosicaoDe(cap[s]) /\ ~Capturando(s)
    BY <1>3 DEF PosicaoOK, PosicaoDe, Capturando, Parada
  <2> QED BY <1>4, <1>5, <2>1, <2>2, <2>3 DEF BloqueioInv
<1>7. CashinTypeOK
  BY CashinAssumption DEF CashinTypeOK
<1>8. CreditoInv
  BY <1>2 DEF CreditoInv
<1>9. \A s \in Sessoes : FaseOK(fase[s]) /\ "l" \notin DOMAIN fase[s] /\ fase[s].pc = "livre"
  BY <1>3 DEF FaseOK, Livre, ComVenda, ComLiberacao
<1>10. LiberacaoInv
  BY <1>9 DEF LiberacaoInv
<1>11. OrigemInv
  BY <1>4, <1>9 DEF OrigemInv
<1>12. RetencaoInv
  BY DEF RetencaoInv, RetencaoNoLimite
<1>13. ParadoTemLiberacao
  <2>1. AMover("PRINCIPAL") = {} /\ AMover("RESERVA") = {}
    BY DEF AMover
  <2>2. SomaLib({}) = 0
    BY SomaVazia DEF SomaLib
  <2>3. Explicado
    BY <2>1, <2>2 DEF Explicado
  <2> QED BY <2>3, ParadoExplicado
<1>14. CashinInv
  BY <1>7, <1>8, <1>9, <1>10, <1>11, <1>12, <1>13 DEF CashinInv
<1>15. TypeOK
  BY <1>5, <1>7 DEF TypeOK
<1>16. MedInv
  BY <1>9 DEF MedInv, ConvertidaFoiDebitada, EmMed
<1> QED BY <1>6, <1>14, <1>15, <1>16 DEF RecebimentoInv

LEMMA Indutivo == RecebimentoInv /\ [Next]_vars => RecebimentoInv'
<1> SUFFICES ASSUME RecebimentoInv, [Next]_vars PROVE RecebimentoInv'
  OBVIOUS
<1>1. BloqueioInv' /\ BloqueioTypeOK'
  BY PassoHolds DEF BloqueioInv
<1>2. CashinTypeOK'
  BY PassoVendas, PassoLib, PassoParado DEF CashinTypeOK, LinhaDeVenda, LinhaDeLib
<1>3. CashinInv'
  BY <1>2, PassoDisp, PassoFases, PassoVendas, PassoLib, PassoOrigem, PassoRetencao, PassoParado
     DEF CashinInv
<1>4. TypeOK'
  BY <1>1, <1>2, PassoVelhas, PassoEstado DEF TypeOK, MedTipos, LinhaVelha
<1>5. MedInv'
  BY PassoMedInv
<1> QED BY <1>1, <1>3, <1>4, <1>5 DEF RecebimentoInv

(* Every behaviour of the received money keeps the invariant.               *)
THEOREM RecebimentoIntegro == Spec => []RecebimentoInv
<1> QED BY Inicio, Indutivo, PTL DEF Spec

(* The variables of the received money keep their types: no balance of      *)
(* parked money and no manual hold is ever negative.                        *)
THEOREM TiposDoRecebimento == Spec => []TypeOK
<1>1. RecebimentoInv => TypeOK
  BY DEF RecebimentoInv
<1> QED BY <1>1, RecebimentoIntegro, PTL

(* A sale is credited once, with one event, and is CONCLUIDA exactly then,  *)
(* whichever of postback, sweep and administrator calls creditar            *)
(* (CashInCreditoService.creditar).                                         *)
THEOREM CreditoUmaVez == Spec => []CreditoUnico
<1>1. RecebimentoInv => CreditoUnico
  <2> SUFFICES ASSUME RecebimentoInv, NEW v \in Vendas
               PROVE  LET c == {k \in {"pendente", "disp"} : <<k, v>> \in creditos} IN
                      /\ Cardinality(c) = pagoAvisado[v]
                      /\ pagoAvisado[v] = (IF Concluida(v) THEN 1 ELSE 0)
    BY DEF CreditoUnico
  <2> DEFINE c == {k \in {"pendente", "disp"} : <<k, v>> \in creditos}
  <2>1. CreditoInv
    BY DEF RecebimentoInv, CashinInv
  <2>2. CASE Concluida(v)
    <3>1. pagoAvisado[v] = 1
      BY <2>1, <2>2 DEF CreditoInv
    <3>2. PICK k \in {"pendente", "disp"} :
            \A j \in {"pendente", "disp"} : <<j, v>> \in creditos <=> j = k
      BY <2>1, <2>2 DEF CreditoInv
    <3>3. c = {k}
      BY <3>2
    <3>4. Cardinality(c) = 1
      <4> HIDE DEF c
      <4> QED BY <3>3, FS_Singleton
    <3> QED BY <2>2, <3>1, <3>4
  <2>3. CASE ~Concluida(v)
    <3>1. pagoAvisado[v] = 0 /\ c = {}
      BY <2>1, <2>3 DEF CreditoInv
    <3>2. Cardinality(c) = 0
      <4> HIDE DEF c
      <4> QED BY <3>1, FS_EmptySet
    <3> QED BY <2>3, <3>1, <3>2
  <2> QED BY <2>2, <2>3
<1> QED BY <1>1, RecebimentoIntegro, PTL

(* What is parked in PENDENTE_LIBERACAO and RESERVADO is, to the cent, what *)
(* the scheduled releases will move (liberacoes_saldo, LiberacaoSaldo).     *)
THEOREM ParadoExplicaSe == Spec => []ParadoTemLiberacao
<1>1. RecebimentoInv => ParadoTemLiberacao
  BY DEF RecebimentoInv, CashinInv
<1> QED BY <1>1, RecebimentoIntegro, PTL

(* The retention keeps at most its percentage of the day's revenue, give or *)
(* take the sale that broke it (RetencaoMetodoService.decidir).             *)
THEOREM RetencaoTemTeto == Spec => []RetencaoNoLimite
<1>1. RecebimentoInv => RetencaoNoLimite
  BY DEF RecebimentoInv, CashinInv, RetencaoInv
<1> QED BY <1>1, RecebimentoIntegro, PTL

(* The row of a manual hold is what the statement says was captured for it  *)
(* (BloqueiosSaldoService.capturar).                                        *)
THEOREM BloqueioConfere == Spec => []LinhaIgualExtrato
<1>1. RecebimentoInv => LinhaIgualExtrato
  BY DEF RecebimentoInv, BloqueioInv
<1> QED BY <1>1, RecebimentoIntegro, PTL

(* A sale that became MED by itself was debited first, once, with one event *)
(* (MedAutomaticoService.aplicarMedNaCandidata).                            *)
THEOREM ConversaoDebita == Spec => []ConvertidaFoiDebitada
<1>1. RecebimentoInv => ConvertidaFoiDebitada
  BY DEF RecebimentoInv, MedInv
<1> QED BY <1>1, RecebimentoIntegro, PTL
=============================================================================
