-------------------------- MODULE AdquirenteProofs --------------------------
(* What depends on the adquirente in circulation, for any number of         *)
(* adquirentes, clients, calls, triggers and handlers at work: VitrineInv,  *)
(* CobrancaInv and TesourariaInv are inductive, each for its component, and *)
(* a substitution moves everybody or nobody.                                *)
EXTENDS Adquirente, SequenceTheorems, TLAPS

LinhaDeAdq == [ativa : BOOLEAN, aberta : BOOLEAN, liberados : SUBSET Clientes]
AtosOK == DOMAIN ato = Sessoes /\ \A s \in Sessoes : AtoOK(ato[s])
TiposV ==
  /\ adq \in [Adqs -> LinhaDeAdq] /\ uso \in [Clientes -> Adqs \cup {Nenhum}]
  /\ padrao \in Adqs /\ ativos \subseteq Clientes /\ cadeia \in Seq(Adqs)

LEMMA PartesV == VitrineInv <=> TiposV /\ AtosOK
BY DEF VitrineInv, VitrineTypeOK, TiposV, AtosOK, LinhaDeAdq

LEMMA JuntaV == ASSUME TiposV', AtosOK' PROVE VitrineInv'
BY DEF VitrineInv, VitrineTypeOK, TiposV, AtosOK, LinhaDeAdq

LEMMA PegaV ==
  ASSUME AtosOK, NEW s \in Sessoes, NEW r, AtoOK(r), Pega(s, r)
  PROVE  AtosOK'
<1>1. DOMAIN ato' = Sessoes /\ ato'[s] = r /\ \A o \in Sessoes \ {s} : ato'[o] = ato[o]
  BY DEF Pega, AtosOK
<1> QED BY <1>1 DEF AtosOK

LEMMA SoltaV ==
  ASSUME AtosOK, NEW s \in Sessoes, Solta(s)
  PROVE  AtosOK'
<1>1. PICK r : r = Sem
  OBVIOUS
<1>2. AtoOK(r) /\ Pega(s, r)
  BY <1>1 DEF AtoOK, Solta
<1> QED BY <1>2, PegaV

(* What a handler at work holds, by what it is doing.                       *)
LEMMA NoAto ==
  ASSUME AtosOK, NEW s \in Sessoes, ato[s].pc # "livre"
  PROVE  ato[s].a \in Adqs /\ ato[s].quem \subseteq Clientes
BY DEF AtosOK, AtoOK, Sem

(* A row of adq with one field changed.                                     *)
ComLiberados(r, l) == [r EXCEPT !.liberados = l]
ComAberta(r, x) == [r EXCEPT !.aberta = x]
ComAtiva(r, x) == [r EXCEPT !.ativa = x]
LEMMA CampoLiberados ==
  ASSUME NEW r \in LinhaDeAdq, NEW l \in SUBSET Clientes
  PROVE  /\ ComLiberados(r, l) \in LinhaDeAdq /\ ComLiberados(r, l).liberados = l
         /\ ComLiberados(r, l).ativa = r.ativa /\ ComLiberados(r, l).aberta = r.aberta
BY DEF LinhaDeAdq, ComLiberados
LEMMA CampoAberta ==
  ASSUME NEW r \in LinhaDeAdq, NEW x \in BOOLEAN
  PROVE  /\ ComAberta(r, x) \in LinhaDeAdq /\ ComAberta(r, x).aberta = x
         /\ ComAberta(r, x).ativa = r.ativa /\ ComAberta(r, x).liberados = r.liberados
BY DEF LinhaDeAdq, ComAberta
LEMMA CampoAtiva ==
  ASSUME NEW r \in LinhaDeAdq, NEW x \in BOOLEAN
  PROVE  /\ ComAtiva(r, x) \in LinhaDeAdq /\ ComAtiva(r, x).ativa = x
         /\ ComAtiva(r, x).aberta = r.aberta /\ ComAtiva(r, x).liberados = r.liberados
BY DEF LinhaDeAdq, ComAtiva

(* Who could use an adquirente still can: then nobody had one taken.        *)
Cresce == \A c \in Clientes, b \in Adqs : Usavel(c, b) => Usavel(c, b)'
LEMMA CresceBasta == ASSUME Cresce PROVE TudoOuNada
BY DEF Cresce, TudoOuNada, Tira
LEMMA FicaBasta == ASSUME UNCHANGED uso PROVE TudoOuNada
BY DEF TudoOuNada, Remaneja
LEMMA MesmaBasta == ASSUME UNCHANGED adq PROVE TudoOuNada
<1>1. Cresce
  BY DEF Cresce, Usavel
<1> QED BY <1>1, CresceBasta

LEMMA LinhaCresce ==
  ASSUME adq \in [Adqs -> LinhaDeAdq], NEW a \in Adqs, NEW r \in LinhaDeAdq,
         adq' = [adq EXCEPT ![a] = r], adq[a].ativa => r.ativa, adq[a].aberta => r.aberta,
         adq[a].liberados \subseteq r.liberados
  PROVE  adq' \in [Adqs -> LinhaDeAdq] /\ TudoOuNada
<1>1. adq' \in [Adqs -> LinhaDeAdq] /\ adq'[a] = r /\ \A b \in Adqs \ {a} : adq'[b] = adq[b]
  OBVIOUS
<1>2. Cresce
  BY <1>1 DEF Cresce, Usavel
<1> QED BY <1>1, <1>2, CresceBasta

LEMMA FreiCresce ==
  ASSUME adq \in [Adqs -> LinhaDeAdq], NEW a \in Adqs, NEW cs \in SUBSET Clientes,
         adq' = [adq EXCEPT ![a].liberados = @ \cup cs]
  PROVE  adq' \in [Adqs -> LinhaDeAdq] /\ TudoOuNada
<1>1. PICK l \in SUBSET Clientes : l = adq[a].liberados \cup cs
  BY DEF LinhaDeAdq
<1>2. PICK r : r = ComLiberados(adq[a], l)
  OBVIOUS
<1>3. adq' = [adq EXCEPT ![a] = r]
  BY <1>1, <1>2, Zenon DEF ComLiberados
<1>4. /\ r \in LinhaDeAdq /\ (adq[a].ativa => r.ativa) /\ (adq[a].aberta => r.aberta)
      /\ adq[a].liberados \subseteq r.liberados
  BY <1>1, <1>2, CampoLiberados DEF LinhaDeAdq
<1> QED BY <1>3, <1>4, LinhaCresce

LEMMA LiberaCresce ==
  ASSUME adq \in [Adqs -> LinhaDeAdq], NEW a \in Adqs, NEW cs \in SUBSET Clientes,
         adq' = Libera(a, cs)
  PROVE  adq' \in [Adqs -> LinhaDeAdq] /\ TudoOuNada
<1>1. CASE adq[a].aberta
  BY <1>1, MesmaBasta DEF Libera
<1>2. CASE ~adq[a].aberta
  BY <1>2, FreiCresce DEF Libera
<1> QED BY <1>1, <1>2

-----------------------------------------------------------------------------
(* Steps that take nothing from anybody, one by one.                        *)
LEMMA PassoSessao ==
  ASSUME VitrineInv, NEW s \in Sessoes,
         \/ \E c \in Clientes :
              \/ Ativar(s, c)
              \/ \E a \in Adqs : Escolher(s, c, a) \/ Pedir(s, "revogar", a, {c})
              \/ \E a \in Adqs \cup {Nenhum} : EditarConfig(s, c, a)
         \/ \E a \in Adqs : Pedir(s, "tirar", a, Clientes)
  PROVE  VitrineInv' /\ TudoOuNada
<1>1. TiposV /\ AtosOK
  BY PartesV
<1>2. ASSUME NEW r, AtoOK(r), Pega(s, r), UNCHANGED <<adq, uso, padrao, ativos, cadeia>>
      PROVE  VitrineInv' /\ TudoOuNada
  <2>1. AtosOK'
    BY <1>1, <1>2, PegaV
  <2>2. TiposV'
    BY <1>1, <1>2 DEF TiposV
  <2> QED BY <1>2, <2>1, <2>2, JuntaV, MesmaBasta
<1>3. ASSUME NEW c \in Clientes, Ativar(s, c) PROVE VitrineInv' /\ TudoOuNada
  <2>1. PICK r : r = [pc |-> "ativar", a |-> padrao, quem |-> {c}, libera |-> ~adq[padrao].aberta]
    OBVIOUS
  <2>2. AtoOK(r)
    BY <1>1, <2>1 DEF AtoOK, TiposV
  <2> QED BY <1>2, <1>3, <2>1, <2>2 DEF Ativar
<1>4. ASSUME NEW c \in Clientes, NEW a \in Adqs, Escolher(s, c, a) PROVE VitrineInv' /\ TudoOuNada
  <2>1. PICK r : r = [pc |-> "escolher", a |-> a, quem |-> {c}]
    OBVIOUS
  <2>2. AtoOK(r)
    BY <2>1 DEF AtoOK
  <2> QED BY <1>2, <1>4, <2>1, <2>2 DEF Escolher
<1>5. ASSUME NEW acao \in {"revogar", "tirar"}, NEW quem \in SUBSET Clientes, NEW a \in Adqs,
             Pedir(s, acao, a, quem)
      PROVE  VitrineInv' /\ TudoOuNada
  <2>1. PICK r : r = [pc |-> acao, a |-> a, quem |-> quem, emUso |-> NoUso(a) \cap quem]
    OBVIOUS
  <2>2. AtoOK(r)
    BY <2>1 DEF AtoOK
  <2> QED BY <1>2, <1>5, <2>1, <2>2 DEF Pedir
<1>6. ASSUME NEW c \in Clientes, NEW p \in Adqs \cup {Nenhum}, EditarConfig(s, c, p)
      PROVE  VitrineInv' /\ TudoOuNada
  <2>1. PICK a : a = IF p # Nenhum THEN p ELSE IF uso[c] # Nenhum THEN uso[c] ELSE padrao
    OBVIOUS
  <2>2. PICK pc \in {"liberarFicha", "ficha"} : pc = IF p # Nenhum THEN "liberarFicha" ELSE "ficha"
    OBVIOUS
  <2>3. PICK r : r = [pc |-> pc, a |-> a, quem |-> {c}]
    OBVIOUS
  <2>4. a \in Adqs
    BY <1>1, <2>1 DEF TiposV
  <2>5. AtoOK(r)
    BY <2>2, <2>3, <2>4 DEF AtoOK
  <2>6. Pega(s, r) /\ UNCHANGED <<adq, uso, padrao, ativos, cadeia>>
    BY <1>6, <2>1, <2>2, <2>3, Zenon DEF EditarConfig
  <2> QED BY <1>2, <2>5, <2>6
<1> QED BY <1>3, <1>4, <1>5, <1>6

LEMMA PassoGravar ==
  ASSUME VitrineInv, NEW s \in Sessoes,
         GravarEscolha(s) \/ GravarAtivacao(s) \/ LiberarFicha(s) \/ GravarFicha(s)
  PROVE  VitrineInv' /\ TudoOuNada
<1>1. TiposV /\ AtosOK
  BY PartesV
<1>2. ato[s].a \in Adqs /\ ato[s].quem \subseteq Clientes
  BY <1>1, NoAto DEF GravarEscolha, GravarAtivacao, LiberarFicha, GravarFicha
<1>3. ASSUME GravarEscolha(s) \/ GravarFicha(s) PROVE VitrineInv' /\ TudoOuNada
  <2>1. uso' = [c \in Clientes |-> IF c \in ato[s].quem THEN ato[s].a ELSE uso[c]]
    BY <1>3 DEF GravarEscolha, GravarFicha
  <2>2. uso' \in [Clientes -> Adqs \cup {Nenhum}]
    BY <1>1, <1>2, <2>1 DEF TiposV
  <2>3. Solta(s) /\ UNCHANGED <<adq, padrao, ativos, cadeia>>
    BY <1>3 DEF GravarEscolha, GravarFicha
  <2>4. TiposV' /\ AtosOK'
    BY <1>1, <2>2, <2>3, SoltaV DEF TiposV
  <2> QED BY <2>3, <2>4, JuntaV, MesmaBasta
<1>4. ASSUME GravarAtivacao(s) PROVE VitrineInv' /\ TudoOuNada
  <2>1. uso' = [c \in Clientes |-> IF c \in ato[s].quem /\ uso[c] = Nenhum THEN ato[s].a ELSE uso[c]]
    BY <1>4 DEF GravarAtivacao
  <2>2. uso' \in [Clientes -> Adqs \cup {Nenhum}]
    BY <1>1, <1>2, <2>1 DEF TiposV
  <2>3. Solta(s) /\ UNCHANGED <<padrao, cadeia>> /\ ativos' = ativos \cup ato[s].quem
    BY <1>4 DEF GravarAtivacao
  <2>4. adq' \in [Adqs -> LinhaDeAdq] /\ TudoOuNada
    <3>1. adq' = adq \/ adq' = [adq EXCEPT ![ato[s].a].liberados = @ \cup ato[s].quem]
      BY <1>4 DEF GravarAtivacao
    <3>2. adq \in [Adqs -> LinhaDeAdq]
      BY <1>1 DEF TiposV
    <3>3. CASE adq' = adq
      BY <3>2, <3>3, MesmaBasta
    <3>4. CASE adq' = [adq EXCEPT ![ato[s].a].liberados = @ \cup ato[s].quem]
      BY <1>2, <3>2, <3>4, FreiCresce
    <3> QED BY <3>1, <3>3, <3>4
  <2>5. TiposV' /\ AtosOK'
    BY <1>1, <1>2, <2>2, <2>3, <2>4, SoltaV DEF TiposV
  <2> QED BY <2>4, <2>5, JuntaV
<1>5. ASSUME LiberarFicha(s) PROVE VitrineInv' /\ TudoOuNada
  <2>1. PICK r : r = [pc |-> "ficha", a |-> ato[s].a, quem |-> ato[s].quem]
    OBVIOUS
  <2>2. AtoOK(r)
    BY <1>2, <2>1 DEF AtoOK
  <2>3. Pega(s, r) /\ adq' = Libera(ato[s].a, ato[s].quem) /\ UNCHANGED <<uso, padrao, ativos, cadeia>>
    BY <1>5, <2>1 DEF LiberarFicha
  <2>4. adq' \in [Adqs -> LinhaDeAdq] /\ TudoOuNada
    BY <1>1, <1>2, <2>3, LiberaCresce DEF TiposV
  <2>5. TiposV' /\ AtosOK'
    BY <1>1, <2>2, <2>3, <2>4, PegaV DEF TiposV
  <2> QED BY <2>4, <2>5, JuntaV
<1> QED BY <1>3, <1>4, <1>5

LEMMA PassoAmplia ==
  ASSUME VitrineInv, NEW a \in Adqs, VoltarACircular(a) \/ Abrir(a)
  PROVE  VitrineInv' /\ TudoOuNada
<1>1. TiposV /\ AtosOK
  BY PartesV
<1>2. PICK v \in BOOLEAN : v = TRUE
  OBVIOUS
<1>3. PICK r : /\ r = ComAtiva(adq[a], v) \/ r = ComAberta(adq[a], v)
               /\ adq' = [adq EXCEPT ![a] = r]
  BY <1>2, Zenon DEF VoltarACircular, Abrir, ComAtiva, ComAberta
<1>4. /\ r \in LinhaDeAdq /\ (adq[a].ativa => r.ativa) /\ (adq[a].aberta => r.aberta)
      /\ adq[a].liberados \subseteq r.liberados
  <2>1. adq[a] \in LinhaDeAdq
    BY <1>1 DEF TiposV
  <2>2. CASE r = ComAtiva(adq[a], v)
    BY <1>2, <2>1, <2>2, CampoAtiva
  <2>3. CASE r = ComAberta(adq[a], v)
    BY <1>2, <2>1, <2>3, CampoAberta
  <2> QED BY <1>3, <2>2, <2>3
<1>5. adq' \in [Adqs -> LinhaDeAdq] /\ TudoOuNada
  BY <1>1, <1>3, <1>4, LinhaCresce DEF TiposV
<1>6. UNCHANGED <<uso, padrao, ativos, cadeia, ato>>
  BY DEF VoltarACircular, Abrir
<1>7. TiposV' /\ AtosOK'
  BY <1>1, <1>5, <1>6 DEF TiposV, AtosOK
<1> QED BY <1>5, <1>7, JuntaV

LEMMA PassoMassa ==
  ASSUME VitrineInv, NEW de \in Adqs \cup {Nenhum}, NEW para \in Adqs, AlternarMassa(de, para)
  PROVE  VitrineInv' /\ TudoOuNada
<1>1. TiposV /\ AtosOK
  BY PartesV
<1>2. adq' \in [Adqs -> LinhaDeAdq] /\ TudoOuNada
  <2>1. PICK cs \in SUBSET Clientes : cs = {c \in Clientes : DaOrigem(de, uso[c])}
    OBVIOUS
  <2>2. adq' = Libera(para, cs)
    BY <2>1 DEF AlternarMassa
  <2> QED BY <1>1, <2>2, LiberaCresce DEF TiposV
<1>3. uso' \in [Clientes -> Adqs \cup {Nenhum}]
  <2>1. uso' = [c \in Clientes |-> IF DaOrigem(de, uso[c]) THEN para ELSE uso[c]]
    BY DEF AlternarMassa
  <2> QED BY <1>1, <2>1 DEF TiposV
<1>4. padrao' \in Adqs /\ UNCHANGED <<ativos, cadeia, ato>>
  BY <1>1 DEF AlternarMassa, TiposV
<1>5. TiposV' /\ AtosOK'
  BY <1>1, <1>2, <1>3, <1>4 DEF TiposV, AtosOK
<1> QED BY <1>2, <1>5, JuntaV

LEMMA PassoPadrao ==
  ASSUME VitrineInv, DefinirCadeia \/ \E a \in Adqs : EditarPadrao(a)
  PROVE  VitrineInv' /\ TudoOuNada
<1>1. TiposV /\ AtosOK
  BY PartesV
<1>2. UNCHANGED <<adq, uso, ativos, ato>> /\ padrao' \in Adqs /\ cadeia' \in Seq(Adqs)
  BY <1>1, VitrineAssumption DEF DefinirCadeia, EditarPadrao, TiposV
<1>3. TiposV' /\ AtosOK'
  BY <1>1, <1>2 DEF TiposV, AtosOK
<1> QED BY <1>2, <1>3, JuntaV, MesmaBasta

LEMMA PassoLiberar ==
  ASSUME VitrineInv, NEW c \in Clientes, NEW a \in Adqs, LiberarCliente(c, a)
  PROVE  VitrineInv' /\ TudoOuNada
<1>1. TiposV /\ AtosOK
  BY PartesV
<1>2. PICK cs \in SUBSET Clientes : cs = {c}
  OBVIOUS
<1>3. adq' = [adq EXCEPT ![a].liberados = @ \cup cs] /\ UNCHANGED <<uso, padrao, ativos, cadeia, ato>>
  BY <1>2 DEF LiberarCliente
<1>4. adq' \in [Adqs -> LinhaDeAdq] /\ TudoOuNada
  BY <1>1, <1>3, FreiCresce DEF TiposV
<1>5. TiposV' /\ AtosOK'
  BY <1>1, <1>3, <1>4 DEF TiposV, AtosOK
<1> QED BY <1>4, <1>5, JuntaV

-----------------------------------------------------------------------------
(* aplicarSubstituicoes: the clients moved may use where they go, and those *)
(* who use another adquirente keep it.                                      *)
LEMMA LiberadosV ==
  ASSUME adq \in [Adqs -> LinhaDeAdq], NEW a \in Adqs, NEW para
  PROVE  /\ LiberadosApos(a, para) \in [Adqs -> LinhaDeAdq]
         /\ \A b \in Adqs : /\ LiberadosApos(a, para)[b].ativa = adq[b].ativa
                            /\ LiberadosApos(a, para)[b].aberta = adq[b].aberta
                            /\ adq[b].liberados \subseteq LiberadosApos(a, para)[b].liberados
                            /\ \A c \in Movidos(a, para) : para[c] = b =>
                                 adq[b].aberta \/ c \in LiberadosApos(a, para)[b].liberados
<1>1. ASSUME NEW b \in Adqs
      PROVE  \E r \in LinhaDeAdq :
               /\ LiberadosApos(a, para)[b] = r
               /\ r.ativa = adq[b].ativa /\ r.aberta = adq[b].aberta
               /\ adq[b].liberados \subseteq r.liberados
               /\ \A c \in Movidos(a, para) : para[c] = b => adq[b].aberta \/ c \in r.liberados
  <2>1. adq[b] \in LinhaDeAdq
    OBVIOUS
  <2>2. PICK m \in SUBSET Clientes : m = adq[b].liberados \cup {c \in Movidos(a, para) : para[c] = b}
    BY <2>1 DEF Movidos, NoUso, LinhaDeAdq
  <2>3. LiberadosApos(a, para)[b] = (IF adq[b].aberta THEN adq[b] ELSE ComLiberados(adq[b], m))
    BY <2>2, Zenon DEF LiberadosApos, ComLiberados
  <2>4. CASE adq[b].aberta
    BY <2>1, <2>3, <2>4
  <2>5. CASE ~adq[b].aberta
    <3>1. PICK r : r = ComLiberados(adq[b], m)
      OBVIOUS
    <3>2. r \in LinhaDeAdq /\ r.ativa = adq[b].ativa /\ r.aberta = adq[b].aberta /\ r.liberados = m
      BY <2>1, <3>1, CampoLiberados
    <3>3. adq[b].liberados \subseteq m /\ \A c \in Movidos(a, para) : para[c] = b => c \in m
      BY <2>2
    <3> QED BY <2>3, <2>5, <3>1, <3>2, <3>3
  <2> QED BY <2>4, <2>5
<1>2. LiberadosApos(a, para) = [b \in Adqs |-> LiberadosApos(a, para)[b]]
  BY DEF LiberadosApos
<1>3. LiberadosApos(a, para) \in [Adqs -> LinhaDeAdq]
  BY <1>1, <1>2
<1> QED BY <1>1, <1>3

LEMMA Remanejo ==
  ASSUME TiposV, NEW a \in Adqs, NEW para, Destinos(a, para),
         \A c \in NoUso(a) : para[c] \in Adqs,
         uso' = UsoApos(a, para), adq' \in [Adqs -> LinhaDeAdq],
         \A b \in Adqs \ {a} : adq'[b] = LiberadosApos(a, para)[b]
  PROVE  uso' \in [Clientes -> Adqs \cup {Nenhum}] /\ TudoOuNada
<1>1. adq \in [Adqs -> LinhaDeAdq] /\ uso \in [Clientes -> Adqs \cup {Nenhum}]
  BY DEF TiposV
<1>2. Movidos(a, para) = NoUso(a) /\ \A c \in Clientes : c \in NoUso(a) <=> uso[c] = a
  BY DEF Movidos, NoUso, Destinos
<1>3. \A b \in Adqs \ {a} :
        /\ adq'[b].ativa = adq[b].ativa /\ adq'[b].aberta = adq[b].aberta
        /\ adq[b].liberados \subseteq adq'[b].liberados
        /\ \A c \in NoUso(a) : para[c] = b => adq[b].aberta \/ c \in adq'[b].liberados
  BY <1>1, <1>2, LiberadosV
<1>4. uso' \in [Clientes -> Adqs \cup {Nenhum}]
  BY <1>1, <1>2 DEF UsoApos
<1>5. ASSUME NEW b \in Adqs \ {a} PROVE ~Tira(b)
  BY <1>3, <1>5 DEF Tira, Usavel
<1>6. ASSUME NEW c \in Clientes, uso[c] = a PROVE Usavel(c, uso[c])'
  <2>1. PICK b \in Adqs : b = para[c] /\ uso'[c] = b
    BY <1>2, <1>6 DEF UsoApos
  <2>2. b # a /\ adq[b].ativa
    BY <1>2, <1>6, <2>1 DEF Destinos
  <2> QED BY <1>2, <1>3, <1>6, <2>1, <2>2 DEF Usavel
<1> QED BY <1>4, <1>5, <1>6 DEF TudoOuNada

LEMMA PassoFechar ==
  ASSUME VitrineInv, NEW a \in Adqs, Fechar(a)
  PROVE  VitrineInv' /\ TudoOuNada
<1>1. TiposV /\ AtosOK /\ UNCHANGED <<padrao, ativos, cadeia, ato>>
  BY PartesV DEF Fechar
<1>2. PICK v \in BOOLEAN : v = FALSE
  OBVIOUS
<1>3. ASSUME adq' = [adq EXCEPT ![a].aberta = FALSE], UNCHANGED uso
      PROVE  TiposV' /\ TudoOuNada
  <2>1. PICK r : r = ComAberta(adq[a], v)
    OBVIOUS
  <2>2. adq' = [adq EXCEPT ![a] = r]
    BY <1>2, <1>3, <2>1, Zenon DEF ComAberta
  <2>3. adq[a] \in LinhaDeAdq /\ r \in LinhaDeAdq
    BY <1>1, <1>2, <2>1, CampoAberta DEF TiposV
  <2>4. TiposV'
    BY <1>1, <1>3, <2>2, <2>3 DEF TiposV
  <2> QED BY <1>3, <2>4, FicaBasta
<1>4. ASSUME NEW para \in [NoUso(a) \ adq[a].liberados -> Adqs], Destinos(a, para),
             uso' = UsoApos(a, para), adq' = [LiberadosApos(a, para) EXCEPT ![a].aberta = FALSE]
      PROVE  TiposV' /\ TudoOuNada
  <2>1. PICK f \in [Adqs -> LinhaDeAdq] : f = LiberadosApos(a, para)
    BY <1>1, LiberadosV DEF TiposV
  <2>2. PICK r : r = ComAberta(f[a], v)
    OBVIOUS
  <2>3. r \in LinhaDeAdq
    BY <1>2, <2>1, <2>2, CampoAberta
  <2>4. adq' = [f EXCEPT ![a] = r]
    BY <1>2, <1>4, <2>1, <2>2, Zenon DEF ComAberta
  <2>5. \A c \in NoUso(a) : para[c] \in Adqs
    BY <1>4 DEF Destinos
  <2>6. adq' \in [Adqs -> LinhaDeAdq] /\ \A b \in Adqs \ {a} : adq'[b] = LiberadosApos(a, para)[b]
    BY <2>1, <2>3, <2>4
  <2>7. uso' \in [Clientes -> Adqs \cup {Nenhum}] /\ TudoOuNada
    BY <1>1, <1>4, <2>5, <2>6, Remanejo
  <2> QED BY <1>1, <2>6, <2>7 DEF TiposV
<1>5. TiposV' /\ TudoOuNada
  BY <1>3, <1>4 DEF Fechar
<1>6. AtosOK'
  BY <1>1 DEF AtosOK
<1> QED BY <1>5, <1>6, JuntaV

(* Both handlers that commit on what they read earlier: nobody seemed to be *)
(* there, and nobody is moved; or all are moved; or the commit is refused.  *)
LEMMA PassoGravarRevogacao ==
  ASSUME VitrineInv, NEW s \in Sessoes, GravarRevogacao(s)
  PROVE  VitrineInv' /\ TudoOuNada
<1>1. /\ TiposV /\ AtosOK /\ ato[s].pc = "revogar" /\ Solta(s)
      /\ UNCHANGED <<padrao, ativos, cadeia>>
  BY PartesV DEF GravarRevogacao
<1>2. PICK a \in Adqs, cs \in SUBSET Clientes : a = ato[s].a /\ cs = ato[s].quem
  BY <1>1, NoAto
<1>3. ASSUME NEW f \in [Adqs -> LinhaDeAdq], adq' = [f EXCEPT ![a].liberados = @ \ cs]
      PROVE  \E r \in LinhaDeAdq : adq' = [f EXCEPT ![a] = r]
  <2>1. PICK l \in SUBSET Clientes : l = f[a].liberados \ cs
    BY DEF LinhaDeAdq
  <2>2. PICK r : r = ComLiberados(f[a], l)
    OBVIOUS
  <2>3. adq' = [f EXCEPT ![a] = r]
    BY <1>3, <2>1, <2>2, Zenon DEF ComLiberados
  <2>4. r \in LinhaDeAdq
    BY <2>2, CampoLiberados
  <2> QED BY <2>3, <2>4
<1>4. ASSUME adq' = [adq EXCEPT ![a].liberados = @ \ cs], UNCHANGED uso PROVE TiposV' /\ TudoOuNada
  <2>1. PICK r \in LinhaDeAdq : adq' = [adq EXCEPT ![a] = r]
    BY <1>1, <1>3, <1>4 DEF TiposV
  <2>2. TiposV'
    BY <1>1, <1>4, <2>1 DEF TiposV
  <2> QED BY <1>4, <2>2, FicaBasta
<1>5. ASSUME NEW b \in Adqs, NEW para, para = [c \in cs |-> b], Destinos(a, para),
             uso' = UsoApos(a, para), adq' = [LiberadosApos(a, para) EXCEPT ![a].liberados = @ \ cs]
      PROVE  TiposV' /\ TudoOuNada
  <2>1. PICK f \in [Adqs -> LinhaDeAdq] : f = LiberadosApos(a, para)
    BY <1>1, LiberadosV DEF TiposV
  <2>2. PICK r \in LinhaDeAdq : adq' = [f EXCEPT ![a] = r]
    BY <1>3, <1>5, <2>1
  <2>3. \A c \in NoUso(a) : para[c] \in Adqs
    BY <1>5 DEF Destinos
  <2>4. adq' \in [Adqs -> LinhaDeAdq] /\ \A d \in Adqs \ {a} : adq'[d] = LiberadosApos(a, para)[d]
    BY <2>1, <2>2
  <2>5. uso' \in [Clientes -> Adqs \cup {Nenhum}] /\ TudoOuNada
    BY <1>1, <1>5, <2>3, <2>4, Remanejo
  <2> QED BY <1>1, <2>4, <2>5 DEF TiposV
<1>6. ASSUME UNCHANGED <<adq, uso>> PROVE TiposV' /\ TudoOuNada
  BY <1>1, <1>6, FicaBasta DEF TiposV
<1>7. TiposV' /\ TudoOuNada
  BY <1>2, <1>4, <1>5, <1>6 DEF GravarRevogacao
<1> QED BY <1>1, <1>7, SoltaV, JuntaV

LEMMA PassoGravarSaida ==
  ASSUME VitrineInv, NEW s \in Sessoes, GravarSaida(s)
  PROVE  VitrineInv' /\ TudoOuNada
<1>1. /\ TiposV /\ AtosOK /\ ato[s].pc = "tirar" /\ Solta(s)
      /\ UNCHANGED <<padrao, ativos, cadeia>>
  BY PartesV DEF GravarSaida
<1>2. PICK a \in Adqs : a = ato[s].a
  BY <1>1, NoAto
<1>3. ASSUME NEW f \in [Adqs -> LinhaDeAdq], adq' = [f EXCEPT ![a].ativa = FALSE]
      PROVE  \E r \in LinhaDeAdq : adq' = [f EXCEPT ![a] = r]
  <2>1. PICK v \in BOOLEAN : v = FALSE
    OBVIOUS
  <2>2. PICK r : r = ComAtiva(f[a], v)
    OBVIOUS
  <2>3. adq' = [f EXCEPT ![a] = r]
    BY <1>3, <2>1, <2>2, Zenon DEF ComAtiva
  <2>4. r \in LinhaDeAdq
    BY <2>1, <2>2, CampoAtiva
  <2> QED BY <2>3, <2>4
<1>4. ASSUME adq' = [adq EXCEPT ![a].ativa = FALSE], UNCHANGED uso PROVE TiposV' /\ TudoOuNada
  <2>1. PICK r \in LinhaDeAdq : adq' = [adq EXCEPT ![a] = r]
    BY <1>1, <1>3, <1>4 DEF TiposV
  <2>2. TiposV'
    BY <1>1, <1>4, <2>1 DEF TiposV
  <2> QED BY <1>4, <2>2, FicaBasta
<1>5. ASSUME NEW pedidos \in SUBSET Clientes, NEW para \in [pedidos -> Adqs], Destinos(a, para),
             uso' = UsoApos(a, para), adq' = [LiberadosApos(a, para) EXCEPT ![a].ativa = FALSE]
      PROVE  TiposV' /\ TudoOuNada
  <2>1. PICK f \in [Adqs -> LinhaDeAdq] : f = LiberadosApos(a, para)
    BY <1>1, LiberadosV DEF TiposV
  <2>2. PICK r \in LinhaDeAdq : adq' = [f EXCEPT ![a] = r]
    BY <1>3, <1>5, <2>1
  <2>3. \A c \in NoUso(a) : para[c] \in Adqs
    BY <1>5 DEF Destinos
  <2>4. adq' \in [Adqs -> LinhaDeAdq] /\ \A b \in Adqs \ {a} : adq'[b] = LiberadosApos(a, para)[b]
    BY <2>1, <2>2
  <2>5. uso' \in [Clientes -> Adqs \cup {Nenhum}] /\ TudoOuNada
    BY <1>1, <1>5, <2>3, <2>4, Remanejo
  <2> QED BY <1>1, <2>4, <2>5 DEF TiposV
<1>6. ASSUME UNCHANGED <<adq, uso>> PROVE TiposV' /\ TudoOuNada
  BY <1>1, <1>6, FicaBasta DEF TiposV
<1>7. TiposV' /\ TudoOuNada
  BY <1>2, <1>4, <1>5, <1>6 DEF GravarSaida
<1> QED BY <1>1, <1>7, SoltaV, JuntaV

LEMMA InicioV == VitrineInit => VitrineInv
<1> SUFFICES ASSUME VitrineInit PROVE VitrineInv
  OBVIOUS
<1>1. adq \in [Adqs -> LinhaDeAdq]
  BY DEF VitrineInit, LinhaDeAdq
<1>2. /\ uso \in [Clientes -> Adqs \cup {Nenhum}] /\ padrao \in Adqs
      /\ ativos \subseteq Clientes /\ cadeia \in Seq(Adqs)
  BY VitrineAssumption DEF VitrineInit
<1>3. AtosOK
  BY DEF VitrineInit, AtosOK, AtoOK, Sem
<1> QED BY <1>1, <1>2, <1>3, PartesV DEF TiposV

LEMMA QuietoV == ASSUME VitrineInv, UNCHANGED vitrine PROVE VitrineInv'
<1>1. TiposV /\ AtosOK /\ UNCHANGED <<adq, uso, padrao, ativos, cadeia, ato>>
  BY PartesV DEF vitrine
<1>2. TiposV' /\ AtosOK'
  BY <1>1 DEF TiposV, AtosOK
<1> QED BY <1>2, JuntaV

LEMMA PassoV ==
  ASSUME VitrineInv, PassoAdmin \/ \E s \in Sessoes : PassoVitrine(s)
  PROVE  VitrineInv' /\ TudoOuNada
<1>1. ASSUME PassoAdmin PROVE VitrineInv' /\ TudoOuNada
  <2>1. ASSUME NEW a \in Adqs, VoltarACircular(a) \/ Abrir(a) PROVE VitrineInv' /\ TudoOuNada
    BY <2>1, PassoAmplia
  <2>2. ASSUME NEW a \in Adqs, Fechar(a) PROVE VitrineInv' /\ TudoOuNada
    BY <2>2, PassoFechar
  <2>3. ASSUME NEW a \in Adqs \cup {Nenhum}, NEW b \in Adqs, AlternarMassa(a, b)
        PROVE  VitrineInv' /\ TudoOuNada
    BY <2>3, PassoMassa
  <2>4. ASSUME NEW a \in Adqs, NEW c \in Clientes, LiberarCliente(c, a) PROVE VitrineInv' /\ TudoOuNada
    BY <2>4, PassoLiberar
  <2>5. ASSUME DefinirCadeia \/ \E a \in Adqs : EditarPadrao(a) PROVE VitrineInv' /\ TudoOuNada
    BY <2>5, PassoPadrao
  <2> QED BY <1>1, <2>1, <2>2, <2>3, <2>4, <2>5 DEF PassoAdmin
<1>2. ASSUME NEW s \in Sessoes, PassoVitrine(s) PROVE VitrineInv' /\ TudoOuNada
  <2>1. ASSUME GravarRevogacao(s) PROVE VitrineInv' /\ TudoOuNada
    BY <2>1, PassoGravarRevogacao
  <2>2. ASSUME GravarSaida(s) PROVE VitrineInv' /\ TudoOuNada
    BY <2>2, PassoGravarSaida
  <2> QED BY <1>2, <2>1, <2>2, PassoSessao, PassoGravar DEF PassoVitrine
<1> QED BY <1>1, <1>2

-----------------------------------------------------------------------------
(* The charges.  What holds of each call and its sale is kept apart, so     *)
(* that a step disturbs that of its own call only.                          *)
VendaOK(t) == venda[t] = [sit |-> venda[t].sit, conta |-> venda[t].conta,
                          qr |-> venda[t].qr, vencido |-> venda[t].vencido]
Tentativas(s) ==
  /\ s \in Seq({s[i] : i \in DOMAIN s})
  /\ \A i \in DOMAIN s : s[i] = [a |-> s[i].a, id |-> s[i].id]
Anda(t) ==
  cham[t].pc \in {"vincular", "trocar", "gravarQr"} =>
    /\ <<t, cham[t].a>> \in cobradas
    /\ cham[t].pc \in {"trocar", "gravarQr"} => Conhecida(t, cham[t].a)
    /\ cham[t].pc = "gravarQr" => venda[t].conta = cham[t].a
PagaDepois(t) == cham[t] # Fim => \A p \in pagas : p[1] # t
QrOK(t) ==
  venda[t].qr # Nenhum =>
    /\ cham[t] = Fim /\ <<t, venda[t].qr>> \in cobradas
    /\ venda[t].conta = venda[t].qr /\ Conhecida(t, venda[t].qr)
CreditoOK(t) == venda[t].sit = "CONCLUIDA" => <<t, venda[t].conta>> \in pagas
Unidade(t) ==
  /\ VendaOK(t) /\ Tentativas(tent[t]) /\ ChamOK(t) /\ Anda(t)
  /\ PagaDepois(t) /\ QrOK(t) /\ CreditoOK(t)
Dominios ==
  DOMAIN venda = Chamadas /\ DOMAIN tent = Chamadas /\ DOMAIN resposta = Chamadas
  /\ DOMAIN cham = Chamadas
Respostas ==
  \A t \in Chamadas :
    ~resposta[t].erro /\ resposta[t].qr # Nenhum =>
      resposta[t].venda \in Chamadas /\ venda[resposta[t].venda].qr = resposta[t].qr
EstadoC == Dominios /\ Respostas /\ \A t \in Chamadas : Unidade(t)

LEMMA PartesC == CobrancaInv <=> EstadoC
<1>1. ASSUME CobrancaInv PROVE EstadoC
  <2>1. \A t \in Chamadas : VendaOK(t)
    BY <1>1 DEF CobrancaInv, VendaOK
  <2>2. Dominios /\ Respostas
    BY <1>1 DEF CobrancaInv, Dominios, Respostas
  <2>3. \A t \in Chamadas : Tentativas(tent[t]) /\ ChamOK(t) /\ Anda(t)
    BY <1>1 DEF CobrancaInv, Tentativas, Anda
  <2>4. \A t \in Chamadas : PagaDepois(t) /\ QrOK(t) /\ CreditoOK(t)
    BY <1>1 DEF CobrancaInv, PagaDepois, QrOK, CreditoOK, CobrancaCasa
  <2> QED BY <2>1, <2>2, <2>3, <2>4 DEF EstadoC, Unidade
<1>2. ASSUME EstadoC PROVE CobrancaInv
  <2>1. \A t \in Chamadas : /\ VendaOK(t) /\ Tentativas(tent[t]) /\ ChamOK(t) /\ Anda(t)
                            /\ PagaDepois(t) /\ QrOK(t) /\ CreditoOK(t)
    BY <1>2 DEF EstadoC, Unidade
  <2>2. Dominios /\ Respostas
    BY <1>2 DEF EstadoC
  <2>3. ASSUME NEW t \in Chamadas, ~resposta[t].erro, resposta[t].qr # Nenhum
        PROVE  /\ <<resposta[t].venda, resposta[t].qr>> \in cobradas
               /\ venda[resposta[t].venda].conta = resposta[t].qr
               /\ \E i \in DOMAIN tent[resposta[t].venda] : tent[resposta[t].venda][i].id = resposta[t].qr
    <3>1. PICK u \in Chamadas : u = resposta[t].venda /\ venda[u].qr = resposta[t].qr
      BY <2>2, <2>3 DEF Respostas
    <3>2. QrOK(u)
      BY <2>1
    <3> QED BY <2>3, <3>1, <3>2 DEF QrOK, Conhecida
  <2>4. CobrancaCasa
    BY <2>1, <2>3 DEF CreditoOK, CobrancaCasa
  <2> QED
    BY <2>1, <2>2, <2>4
    DEF CobrancaInv, Dominios, Respostas, VendaOK, Tentativas, Anda, PagaDepois, QrOK
<1> QED BY <1>1, <1>2

(* A call that is not at its step is left as it was.                        *)
LEMMA OutraChamada ==
  ASSUME NEW u \in Chamadas, Unidade(u),
         venda'[u] = venda[u], tent'[u] = tent[u], cham'[u] = cham[u],
         cobradas \subseteq cobradas', pagas \subseteq pagas',
         \A p \in pagas' : p[1] = u => p \in pagas
  PROVE  Unidade(u)'
<1>1. VendaOK(u)' /\ Tentativas(tent[u])' /\ ChamOK(u)'
  BY DEF Unidade, VendaOK, Tentativas, ChamOK
<1>2. \A a : Conhecida(u, a) => Conhecida(u, a)'
  BY DEF Conhecida
<1>3. Anda(u)' /\ QrOK(u)'
  BY <1>2 DEF Unidade, Anda, QrOK
<1>4. PagaDepois(u)' /\ CreditoOK(u)'
  BY DEF Unidade, PagaDepois, CreditoOK
<1> QED BY <1>1, <1>3, <1>4 DEF Unidade

(* Until a call ends its sale has no code, no payment and no credit.        *)
LEMMA Aberta ==
  ASSUME NEW t \in Chamadas, Unidade(t), cham[t] # Fim
  PROVE  venda[t].qr = Nenhum /\ venda[t].sit # "CONCLUIDA" /\ \A p \in pagas : p[1] # t
<1>1. \A p \in pagas : p[1] # t
  BY DEF Unidade, PagaDepois
<1>2. venda[t].sit # "CONCLUIDA"
  <2>1. <<t, venda[t].conta>>[1] = t
    OBVIOUS
  <2> QED BY <1>1, <2>1 DEF Unidade, CreditoOK
<1> QED BY <1>1, <1>2 DEF Unidade, QrOK

SoDe(t) ==
  /\ DOMAIN venda' = Chamadas /\ DOMAIN tent' = Chamadas /\ DOMAIN resposta' = Chamadas
  /\ DOMAIN cham' = Chamadas
  /\ \A u \in Chamadas \ {t} : venda'[u] = venda[u] /\ tent'[u] = tent[u] /\ cham'[u] = cham[u]
  /\ cobradas \subseteq cobradas' /\ pagas \subseteq pagas'
  /\ \A p \in pagas' : p \in pagas \/ p[1] = t
QrFirme == \A u \in Chamadas : venda[u].qr # Nenhum => venda'[u].qr = venda[u].qr

LEMMA JuntaC ==
  ASSUME EstadoC, NEW t \in Chamadas, SoDe(t), Unidade(t)', Respostas'
  PROVE  EstadoC'
<1>1. \A u \in Chamadas \ {t} : Unidade(u)'
  BY OutraChamada DEF EstadoC, SoDe
<1>2. Dominios'
  BY DEF SoDe, Dominios
<1> QED BY <1>1, <1>2 DEF EstadoC

LEMMA RespostasFicam ==
  ASSUME EstadoC, QrFirme, UNCHANGED resposta
  PROVE  Respostas' /\ DOMAIN resposta' = Chamadas
<1>1. Respostas /\ DOMAIN resposta = Chamadas
  BY DEF EstadoC, Dominios
<1>2. Respostas'
  BY <1>1 DEF Respostas, QrFirme
<1> QED BY <1>1, <1>2

LEMMA RespostaNova ==
  ASSUME EstadoC, QrFirme, NEW t \in Chamadas, NEW r, resposta' = [resposta EXCEPT ![t] = r],
         ~r.erro /\ r.qr # Nenhum => r.venda \in Chamadas /\ venda'[r.venda].qr = r.qr
  PROVE  Respostas' /\ DOMAIN resposta' = Chamadas
<1>1. Respostas /\ DOMAIN resposta = Chamadas
  BY DEF EstadoC, Dominios
<1>2. DOMAIN resposta' = Chamadas /\ resposta'[t] = r /\ \A u \in Chamadas \ {t} : resposta'[u] = resposta[u]
  BY <1>1
<1>3. Respostas'
  BY <1>1, <1>2 DEF Respostas, QrFirme
<1> QED BY <1>2, <1>3

LEMMA RespostaErro ==
  ASSUME EstadoC, QrFirme, NEW t \in Chamadas, resposta' = [resposta EXCEPT ![t] = Erro]
  PROVE  Respostas' /\ DOMAIN resposta' = Chamadas
<1>1. PICK r : r = Erro
  OBVIOUS
<1>2. r.erro
  BY <1>1 DEF Erro
<1>3. resposta' = [resposta EXCEPT ![t] = r]
  BY <1>1
<1> QED BY <1>2, <1>3, RespostaNova

(* A step of a call under way.                                              *)
LEMMA EmCurso ==
  ASSUME NEW t \in Chamadas, Unidade(t), cham[t] # Fim, UNCHANGED pagas,
         VendaOK(t)', venda'[t].qr = Nenhum, venda'[t].sit # "CONCLUIDA",
         Tentativas(tent[t])', ChamOK(t)', Anda(t)'
  PROVE  Unidade(t)'
<1>1. \A p \in pagas' : p[1] # t
  BY Aberta
<1> QED BY <1>1 DEF Unidade, PagaDepois, QrOK, CreditoOK

LEMMA ChamadaVai ==
  ASSUME EstadoC, NEW t \in Chamadas, NEW r, Vai(t, r)
  PROVE  DOMAIN cham' = Chamadas /\ cham'[t] = r /\ \A u \in Chamadas \ {t} : cham'[u] = cham[u]
BY DEF EstadoC, Dominios, Vai

(* A step that changes the call only.                                       *)
LEMMA SoChamada ==
  ASSUME EstadoC, NEW t \in Chamadas, NEW r, Vai(t, r), cham[t] # Fim,
         UNCHANGED <<venda, tent, pagas>>, cobradas \subseteq cobradas',
         ChamOK(t)', Anda(t)', Respostas', DOMAIN resposta' = Chamadas
  PROVE  EstadoC'
<1>1. SoDe(t)
  BY ChamadaVai DEF EstadoC, Dominios, SoDe
<1>2. Unidade(t)
  BY DEF EstadoC
<1>3. VendaOK(t)' /\ Tentativas(tent[t])'
  BY <1>2 DEF Unidade, VendaOK, Tentativas
<1>4. Unidade(t)'
  BY <1>2, <1>3, Aberta, EmCurso
<1> QED BY <1>1, <1>4, JuntaC

LEMMA Firme ==
  UNCHANGED venda => QrFirme
BY DEF QrFirme

LEMMA Acaba ==
  ASSUME EstadoC, NEW t \in Chamadas, Vai(t, Fim)
  PROVE  ChamOK(t)' /\ Anda(t)' /\ cham'[t] = Fim
<1>1. PICK r : r = Fim
  OBVIOUS
<1>2. cham'[t] = r
  BY <1>1, ChamadaVai
<1>3. r = [pc |-> "fim"] /\ r.pc = "fim"
  BY <1>1 DEF Fim
<1> QED BY <1>1, <1>2, <1>3 DEF ChamOK, Anda

LEMMA Desiste ==
  ASSUME EstadoC, NEW t \in Chamadas, Responde(t, Erro), cham[t] # Fim,
         UNCHANGED <<venda, tent, pagas, cobradas>>
  PROVE  EstadoC'
<1>1. Vai(t, Fim) /\ resposta' = [resposta EXCEPT ![t] = Erro]
  BY DEF Responde
<1>2. QrFirme
  BY Firme
<1>3. Respostas' /\ DOMAIN resposta' = Chamadas
  BY <1>1, <1>2, RespostaErro
<1>4. ChamOK(t)' /\ Anda(t)'
  BY <1>1, Acaba
<1> QED BY <1>1, <1>3, <1>4, SoChamada

LEMMA PassoCair ==
  ASSUME EstadoC, NEW t \in Chamadas, Cair(t)
  PROVE  EstadoC'
<1>1. cham[t] # Fim /\ Responde(t, Erro) /\ UNCHANGED <<venda, tent, pagas, cobradas>>
  BY DEF Cair, Fim
<1> QED BY <1>1, Desiste

LEMMA PassoChamar ==
  ASSUME EstadoC, NEW t \in Chamadas, Chamar(t)
  PROVE  EstadoC'
<1>1. cham[t] # Fim /\ UNCHANGED <<venda, tent, pagas, cobradas>>
  BY DEF Chamar, Fim
<1>2. ASSUME NEW u \in Chamadas, Responde(t, Codigo(u, venda[u].qr)) PROVE EstadoC'
  <2>1. Vai(t, Fim) /\ resposta' = [resposta EXCEPT ![t] = Codigo(u, venda[u].qr)]
    BY <1>2 DEF Responde
  <2>2. PICK r : r = Codigo(u, venda[u].qr)
    OBVIOUS
  <2>3. r.venda = u /\ r.qr = venda[u].qr
    BY <2>2 DEF Codigo
  <2>4. resposta' = [resposta EXCEPT ![t] = r] /\ venda'[r.venda].qr = r.qr
    BY <1>1, <2>1, <2>2, <2>3
  <2>5. Respostas' /\ DOMAIN resposta' = Chamadas
    BY <1>1, <2>3, <2>4, Firme, RespostaNova
  <2>6. ChamOK(t)' /\ Anda(t)'
    BY <2>1, Acaba
  <2> QED BY <1>1, <2>1, <2>5, <2>6, SoChamada
<1>3. ASSUME NEW a, Vai(t, [pc |-> "criar", a |-> a]), UNCHANGED resposta PROVE EstadoC'
  <2>1. PICK r : r = [pc |-> "criar", a |-> a]
    OBVIOUS
  <2>2. Vai(t, r) /\ r = [pc |-> r.pc, a |-> r.a] /\ r.pc = "criar"
    BY <1>3, <2>1
  <2>3. cham'[t] = r
    BY <2>2, ChamadaVai
  <2>4. ChamOK(t)' /\ Anda(t)'
    BY <2>2, <2>3 DEF ChamOK, Anda
  <2>5. Respostas' /\ DOMAIN resposta' = Chamadas
    BY <1>1, <1>3, Firme, RespostasFicam
  <2> QED BY <1>1, <2>2, <2>4, <2>5, SoChamada
<1>4. ASSUME Responde(t, Erro) PROVE EstadoC'
  BY <1>1, <1>4, Desiste
<1>5. Repete(t) \subseteq Chamadas
  BY DEF Repete
<1> QED BY <1>2, <1>3, <1>4, <1>5 DEF Chamar

LEMMA SeqDeSi ==
  ASSUME NEW T, NEW r \in Seq(T)
  PROVE  r \in Seq({r[i] : i \in DOMAIN r})
<1>1. r \in [1..Len(r) -> T] /\ Len(r) \in Nat /\ DOMAIN r = 1..Len(r)
  BY LenProperties
<1>2. PICK U : U = {r[i] : i \in DOMAIN r}
  OBVIOUS
<1>3. r \in [1..Len(r) -> U]
  BY <1>1, <1>2
<1>4. r \in Seq(U)
  BY <1>1, <1>3
<1> QED BY <1>2, <1>4

-----------------------------------------------------------------------------
ComSit(r, x) == [r EXCEPT !.sit = x]
ComConta(r, x) == [r EXCEPT !.conta = x]
ComQr(r, x) == [r EXCEPT !.qr = x]
ComVencido(r, x) == [r EXCEPT !.vencido = x]
ComPc(r, x) == [r EXCEPT !.pc = x]
ComId(r, x) == [r EXCEPT !.id = x]
Linha(s, c, q, v) == [sit |-> s, conta |-> c, qr |-> q, vencido |-> v]

LEMMA SitMuda == ASSUME NEW s, NEW c, NEW q, NEW v, NEW x PROVE ComSit(Linha(s, c, q, v), x) = Linha(x, c, q, v)
BY DEF ComSit, Linha
LEMMA ContaMuda == ASSUME NEW s, NEW c, NEW q, NEW v, NEW x PROVE ComConta(Linha(s, c, q, v), x) = Linha(s, x, q, v)
BY DEF ComConta, Linha
LEMMA QrMuda == ASSUME NEW s, NEW c, NEW q, NEW v, NEW x PROVE ComQr(Linha(s, c, q, v), x) = Linha(s, c, x, v)
BY DEF ComQr, Linha
LEMMA VencidoMuda == ASSUME NEW s, NEW c, NEW q, NEW v, NEW x PROVE ComVencido(Linha(s, c, q, v), x) = Linha(s, c, q, x)
BY DEF ComVencido, Linha
LEMMA PcMuda ==
  ASSUME NEW pc, NEW a, NEW x
  PROVE  ComPc([pc |-> pc, a |-> a], x) = [pc |-> x, a |-> a]
BY DEF ComPc
LEMMA PcDaFila ==
  ASSUME NEW pc, NEW f, NEW x
  PROVE  ComPc([pc |-> pc, fila |-> f], x) = [pc |-> x, fila |-> f]
BY DEF ComPc
LEMMA IdMuda ==
  ASSUME NEW a, NEW y, NEW x
  PROVE  ComId([a |-> a, id |-> y], x) = [a |-> a, id |-> x]
BY DEF ComId

LEMMA VendaEm ==
  ASSUME EstadoC, NEW t \in Chamadas
  PROVE  \E s, c, q, v : venda[t] = Linha(s, c, q, v)
BY DEF EstadoC, Unidade, VendaOK, Linha

Poe(t, r) == venda' = [venda EXCEPT ![t] = r]
LEMMA VendaVira ==
  ASSUME EstadoC, NEW t \in Chamadas, NEW s, NEW c, NEW q, NEW v,
         NEW r, r = Linha(s, c, q, v), Poe(t, r)
  PROVE  /\ DOMAIN venda' = Chamadas /\ VendaOK(t)'
         /\ venda'[t].sit = s /\ venda'[t].conta = c /\ venda'[t].qr = q
         /\ \A u \in Chamadas \ {t} : venda'[u] = venda[u]
<1>1. /\ DOMAIN venda' = Chamadas /\ venda'[t] = Linha(s, c, q, v)
      /\ \A u \in Chamadas \ {t} : venda'[u] = venda[u]
  BY DEF EstadoC, Dominios, Poe
<1> QED BY <1>1 DEF VendaOK, Linha

LEMMA Anexa ==
  ASSUME NEW s, Tentativas(s), NEW e, e = [a |-> e.a, id |-> e.id]
  PROVE  /\ Tentativas(Append(s, e))
         /\ \A i \in DOMAIN s : i \in DOMAIN Append(s, e) /\ Append(s, e)[i] = s[i]
         /\ \E i \in DOMAIN Append(s, e) : Append(s, e)[i] = e
<1> DEFINE S == {s[i] : i \in DOMAIN s}
           T == S \cup {e}
           r == Append(s, e)
<1>1. s \in Seq(T) /\ e \in T
  <2>1. s \in Seq(S)
    BY DEF Tentativas
  <2>2. s \in [1..Len(s) -> S] /\ Len(s) \in Nat
    BY <2>1, LenProperties
  <2>3. s \in [1..Len(s) -> T]
    BY <2>2
  <2> QED BY <2>2, <2>3
<1>2. /\ r \in Seq(T) /\ Len(r) = Len(s) + 1
      /\ \A i \in 1..Len(s) : r[i] = s[i]
      /\ r[Len(s) + 1] = e
  <2> HIDE DEF T
  <2> QED BY <1>1, AppendProperties
<1>3. DOMAIN s = 1..Len(s) /\ Len(s) \in Nat /\ DOMAIN r = 1..(Len(s) + 1)
  <2>1. DOMAIN s = 1..Len(s) /\ Len(s) \in Nat /\ DOMAIN r = 1..Len(r)
    <3> HIDE DEF T, r
    <3> QED BY <1>1, <1>2, LenProperties
  <2> QED BY <1>2, <2>1
<1>4. \A i \in DOMAIN r : (i \in DOMAIN s /\ r[i] = s[i]) \/ r[i] = e
  <2> HIDE DEF r
  <2> QED BY <1>2, <1>3
<1>5. \A i \in DOMAIN r : r[i] = [a |-> r[i].a, id |-> r[i].id]
  <2> HIDE DEF r
  <2> SUFFICES ASSUME NEW i \in DOMAIN r PROVE r[i] = [a |-> r[i].a, id |-> r[i].id]
    OBVIOUS
  <2>1. CASE r[i] = e
    BY <2>1
  <2>2. CASE i \in DOMAIN s /\ r[i] = s[i]
    BY <2>2 DEF Tentativas
  <2> QED BY <1>4, <2>1, <2>2
<1>6. r \in Seq({r[i] : i \in DOMAIN r})
  BY <1>2, <1>3, SeqDeSi
<1>7. Len(s) + 1 \in DOMAIN r /\ \A i \in DOMAIN s : i \in DOMAIN r /\ r[i] = s[i]
  BY <1>2, <1>3
<1> QED BY <1>2, <1>5, <1>6, <1>7 DEF Tentativas

Preenche(s, i, x) == [s EXCEPT ![i] = ComId(s[i], x)]
Preencheu(s, k, x, n, w) == Tentativas(s) /\ s[k].id \in {n, x} /\ w = Preenche(s, k, x)
LEMMA Preenchida ==
  ASSUME NEW s, NEW k, NEW x, NEW n, NEW w, Preencheu(s, k, x, n, w)
  PROVE  Tentativas(w) /\ DOMAIN w = DOMAIN s /\ \A j \in DOMAIN s : w[j].id = s[j].id \/ s[j].id = n
<1> DEFINE r == Preenche(s, k, x)
<1>1. s \in [1..Len(s) -> {s[i] : i \in DOMAIN s}] /\ Len(s) \in Nat /\ DOMAIN s = 1..Len(s)
  BY LenProperties DEF Tentativas, Preencheu
<1>2. DOMAIN r = DOMAIN s /\ \A j \in DOMAIN s : r[j] = (IF j = k THEN ComId(s[k], x) ELSE s[j])
  BY <1>1 DEF Preenche
<1>3. ASSUME NEW j \in DOMAIN s
      PROVE  r[j] = [a |-> r[j].a, id |-> r[j].id] /\ (r[j].id = s[j].id \/ s[j].id = n)
  <2>1. PICK b, y : s[j] = [a |-> b, id |-> y]
    BY DEF Tentativas, Preencheu
  <2>2. CASE j = k
    <3>1. r[j] = [a |-> b, id |-> x]
      <4> HIDE DEF r
      <4>1. ComId([a |-> b, id |-> y], x) = [a |-> b, id |-> x]
        BY IdMuda
      <4>2. r[j] = ComId(s[k], x) /\ s[k] = [a |-> b, id |-> y]
        BY <1>2, <2>1, <2>2
      <4> QED BY <4>1, <4>2
    <3>2. y \in {n, x} /\ s[j].id = y
      BY <2>1, <2>2 DEF Preencheu
    <3> HIDE DEF r
    <3> QED BY <3>1, <3>2
  <2>3. CASE j # k
    <3>1. r[j] = s[j]
      BY <1>2, <2>3
    <3> HIDE DEF r
    <3> QED BY <2>1, <3>1
  <2> QED BY <2>2, <2>3
<1>4. r \in Seq({r[i] : i \in DOMAIN r})
  <2>1. r \in [1..Len(s) -> {r[i] : i \in DOMAIN r}]
    BY <1>1, <1>2 DEF Preenche
  <2> HIDE DEF r
  <2> QED BY <1>1, <2>1
<1> HIDE DEF r
<1>5. Tentativas(r) /\ DOMAIN r = DOMAIN s /\ \A j \in DOMAIN s : r[j].id = s[j].id \/ s[j].id = n
  BY <1>2, <1>3, <1>4 DEF Tentativas
<1>6. w = r
  BY DEF r, Preencheu
<1> QED BY <1>5, <1>6

-----------------------------------------------------------------------------
LEMMA PassoCriarVenda ==
  ASSUME EstadoC, NEW t \in Chamadas, CriarVenda(t)
  PROVE  EstadoC'
<1>1. Unidade(t) /\ cham[t].pc = "criar" /\ cham[t] # Fim
  BY DEF EstadoC, CriarVenda, Fim
<1>2. PICK a : a = cham[t].a
  OBVIOUS
<1>3. PICK s, c, q, v : venda[t] = Linha(s, c, q, v)
  BY VendaEm
<1>4. PICK x : x = "AGUARDANDO"
  OBVIOUS
<1>20. PICK l : l = Linha(x, a, q, v)
  OBVIOUS
<1>5. Poe(t, l)
  <2>1. venda' = [venda EXCEPT ![t] = ComConta(ComSit(venda[t], x), a)]
    BY <1>2, <1>4, Zenon DEF CriarVenda, ComConta, ComSit
  <2>2. ComSit(venda[t], x) = Linha(x, c, q, v)
    BY <1>3, SitMuda
  <2>3. ComConta(ComSit(venda[t], x), a) = l
    BY <1>20, <2>2, ContaMuda
  <2> QED BY <2>1, <2>3 DEF Poe
<1>6. /\ DOMAIN venda' = Chamadas /\ VendaOK(t)' /\ venda'[t].sit = x /\ venda'[t].qr = q
      /\ \A u \in Chamadas \ {t} : venda'[u] = venda[u]
  BY <1>5, <1>20, VendaVira
<1>7. q = Nenhum /\ venda[t].qr = Nenhum
  BY <1>1, <1>3, Aberta DEF Linha
<1>8. PICK r : r = [pc |-> "tentar", fila |-> Fila(a)]
  OBVIOUS
<1>9. Vai(t, r) /\ r = [pc |-> r.pc, fila |-> r.fila] /\ r.pc = "tentar"
  BY <1>2, <1>8 DEF CriarVenda
<1>10. DOMAIN cham' = Chamadas /\ cham'[t] = r /\ \A u \in Chamadas \ {t} : cham'[u] = cham[u]
  BY <1>9, ChamadaVai
<1>11. ChamOK(t)' /\ Anda(t)'
  BY <1>9, <1>10 DEF ChamOK, Anda
<1>12. UNCHANGED <<tent, resposta, cobradas, pagas>>
  BY DEF CriarVenda
<1>13. Tentativas(tent[t])'
  BY <1>1, <1>12 DEF Unidade, Tentativas
<1>14. Unidade(t)'
  BY <1>1, <1>4, <1>6, <1>7, <1>11, <1>12, <1>13, EmCurso
<1>15. QrFirme
  BY <1>6, <1>7 DEF QrFirme
<1>16. Respostas' /\ DOMAIN resposta' = Chamadas
  BY <1>12, <1>15, RespostasFicam
<1>17. SoDe(t)
  BY <1>6, <1>10, <1>12, <1>16 DEF SoDe, EstadoC, Dominios
<1> QED BY <1>14, <1>16, <1>17, JuntaC

LEMMA PassoTentar ==
  ASSUME EstadoC, NEW t \in Chamadas, Tentar(t)
  PROVE  EstadoC'
<1>1. Unidade(t) /\ cham[t].pc = "tentar" /\ cham[t] # Fim
  BY DEF EstadoC, Tentar, Fim
<1>2. PICK f, a : cham[t] = [pc |-> "tentar", fila |-> f] /\ a = Head(cham[t].fila)
  BY <1>1 DEF Unidade, ChamOK
<1>3. UNCHANGED <<venda, tent, resposta, pagas>>
  BY DEF Tentar
<1>4. Respostas' /\ DOMAIN resposta' = Chamadas
  BY <1>3, Firme, RespostasFicam
<1>5. ASSUME cobradas' = cobradas \cup {<<t, a>>}, Vai(t, [pc |-> "vincular", a |-> a]) PROVE EstadoC'
  <2>1. PICK r : r = [pc |-> "vincular", a |-> a]
    OBVIOUS
  <2>2. Vai(t, r) /\ r = [pc |-> r.pc, a |-> r.a] /\ r.pc = "vincular" /\ r.a = a
    BY <1>5, <2>1
  <2>3. cham'[t] = r
    BY <2>2, ChamadaVai
  <2>4. ChamOK(t)' /\ Anda(t)'
    BY <1>5, <2>2, <2>3 DEF ChamOK, Anda
  <2> QED BY <1>1, <1>3, <1>4, <1>5, <2>2, <2>4, SoChamada
<1>6. ASSUME cobradas \subseteq cobradas', Vai(t, [cham[t] EXCEPT !.pc = "registrar"]) PROVE EstadoC'
  <2>1. PICK x : x = "registrar"
    OBVIOUS
  <2>2. PICK r : r = [pc |-> x, fila |-> f]
    OBVIOUS
  <2>3. Vai(t, ComPc(cham[t], x))
    BY <1>6, <2>1 DEF ComPc
  <2>4. Vai(t, r) /\ r = [pc |-> r.pc, fila |-> r.fila] /\ r.pc = x
    BY <1>2, <2>2, <2>3, PcDaFila
  <2>5. cham'[t] = r
    BY <2>4, ChamadaVai
  <2>6. ChamOK(t)' /\ Anda(t)'
    BY <2>1, <2>4, <2>5 DEF ChamOK, Anda
  <2> QED BY <1>1, <1>3, <1>4, <1>6, <2>4, <2>6, SoChamada
<1> QED BY <1>2, <1>5, <1>6 DEF Tentar

LEMMA PassoDesistir ==
  ASSUME EstadoC, NEW t \in Chamadas, Desistir(t)
  PROVE  EstadoC'
<1>1. Unidade(t) /\ cham[t].pc = "desistir" /\ cham[t] # Fim
  BY DEF EstadoC, Desistir, Fim
<1>3. PICK s, c, q, v : venda[t] = Linha(s, c, q, v)
  BY VendaEm
<1>4. PICK x : x = "FALHA"
  OBVIOUS
<1>20. PICK l : l = Linha(x, c, q, v)
  OBVIOUS
<1>5. Poe(t, l)
  <2>1. venda' = [venda EXCEPT ![t] = ComSit(venda[t], x)]
    BY <1>4, Zenon DEF Desistir, ComSit
  <2>2. ComSit(venda[t], x) = l
    BY <1>3, <1>20, SitMuda
  <2> QED BY <2>1, <2>2 DEF Poe
<1>6. /\ DOMAIN venda' = Chamadas /\ VendaOK(t)' /\ venda'[t].sit = x /\ venda'[t].qr = q
      /\ \A u \in Chamadas \ {t} : venda'[u] = venda[u]
  BY <1>5, <1>20, VendaVira
<1>7. q = Nenhum /\ venda[t].qr = Nenhum
  BY <1>1, <1>3, Aberta DEF Linha
<1>9. Vai(t, Fim) /\ resposta' = [resposta EXCEPT ![t] = Erro] /\ UNCHANGED <<tent, cobradas, pagas>>
  BY DEF Desistir, Responde
<1>10. DOMAIN cham' = Chamadas /\ \A u \in Chamadas \ {t} : cham'[u] = cham[u]
  BY <1>9, ChamadaVai
<1>11. ChamOK(t)' /\ Anda(t)'
  BY <1>9, Acaba
<1>13. Tentativas(tent[t])'
  BY <1>1, <1>9 DEF Unidade, Tentativas
<1>14. Unidade(t)'
  BY <1>1, <1>4, <1>6, <1>7, <1>9, <1>11, <1>13, EmCurso
<1>15. QrFirme
  BY <1>6, <1>7 DEF QrFirme
<1>16. Respostas' /\ DOMAIN resposta' = Chamadas
  BY <1>9, <1>15, RespostaErro
<1>17. SoDe(t)
  BY <1>6, <1>9, <1>10, <1>16 DEF SoDe, EstadoC, Dominios
<1> QED BY <1>14, <1>16, <1>17, JuntaC

LEMMA PassoTrocarConta ==
  ASSUME EstadoC, NEW t \in Chamadas, TrocarConta(t)
  PROVE  EstadoC'
<1>1. Unidade(t) /\ cham[t].pc = "trocar" /\ cham[t] # Fim
  BY DEF EstadoC, TrocarConta, Fim
<1>2. PICK a : cham[t] = [pc |-> "trocar", a |-> a]
  BY <1>1 DEF Unidade, ChamOK
<1>3. PICK s, c, q, v : venda[t] = Linha(s, c, q, v)
  BY VendaEm
<1>4. PICK x : x = "gravarQr"
  OBVIOUS
<1>20. PICK l : l = Linha(s, a, q, v)
  OBVIOUS
<1>5. Poe(t, l)
  <2>1. cham[t].a = a
    BY <1>2
  <2>2. venda' = [venda EXCEPT ![t] = ComConta(venda[t], a)]
    BY <2>1, Zenon DEF TrocarConta, ContaVencedora, ComConta
  <2>3. ComConta(venda[t], a) = l
    BY <1>3, <1>20, ContaMuda
  <2> QED BY <2>2, <2>3 DEF Poe
<1>6. /\ DOMAIN venda' = Chamadas /\ VendaOK(t)' /\ venda'[t].sit = s /\ venda'[t].qr = q
      /\ venda'[t].conta = a
      /\ \A u \in Chamadas \ {t} : venda'[u] = venda[u]
  BY <1>5, <1>20, VendaVira
<1>7. q = Nenhum /\ venda[t].qr = Nenhum /\ s # "CONCLUIDA"
  BY <1>1, <1>3, Aberta DEF Linha
<1>8. PICK r : r = [pc |-> x, a |-> a]
  OBVIOUS
<1>9. Vai(t, r) /\ r = [pc |-> r.pc, a |-> r.a] /\ r.pc = x /\ r.a = a
  <2>1. Vai(t, ComPc(cham[t], x))
    BY <1>4 DEF TrocarConta, ComPc
  <2> QED BY <1>2, <1>8, <2>1, PcMuda
<1>10. DOMAIN cham' = Chamadas /\ cham'[t] = r /\ \A u \in Chamadas \ {t} : cham'[u] = cham[u]
  BY <1>9, ChamadaVai
<1>12. UNCHANGED <<tent, resposta, cobradas, pagas>>
  BY DEF TrocarConta
<1>11. ChamOK(t)' /\ Anda(t)'
  <2>1. <<t, a>> \in cobradas /\ Conhecida(t, a)
    BY <1>1, <1>2 DEF Unidade, Anda
  <2>2. Conhecida(t, a)'
    BY <1>12, <2>1 DEF Conhecida
  <2>3. cham'[t].pc = "gravarQr" /\ cham'[t].a = a
    BY <1>4, <1>9, <1>10
  <2>4. Anda(t)'
    BY <1>6, <1>12, <2>1, <2>2, <2>3 DEF Anda
  <2>5. ChamOK(t)'
    BY <1>4, <1>9, <1>10 DEF ChamOK
  <2> QED BY <2>4, <2>5
<1>13. Tentativas(tent[t])'
  BY <1>1, <1>12 DEF Unidade, Tentativas
<1>14. Unidade(t)'
  BY <1>1, <1>6, <1>7, <1>11, <1>12, <1>13, EmCurso
<1>15. QrFirme
  BY <1>6, <1>7 DEF QrFirme
<1>16. Respostas' /\ DOMAIN resposta' = Chamadas
  BY <1>12, <1>15, RespostasFicam
<1>17. SoDe(t)
  BY <1>6, <1>10, <1>12, <1>16 DEF SoDe, EstadoC, Dominios
<1> QED BY <1>14, <1>16, <1>17, JuntaC

PoeTent(t, w) == tent' = [tent EXCEPT ![t] = w]
LEMMA PassoAnexa ==
  ASSUME EstadoC, NEW t \in Chamadas, NEW r, Vai(t, r), cham[t] # Fim,
         NEW w, PoeTent(t, w), Tentativas(w), ChamOK(t)', Anda(t)',
         UNCHANGED <<venda, resposta, cobradas, pagas>>
  PROVE  EstadoC'
<1>1. DOMAIN tent' = Chamadas /\ tent'[t] = w /\ \A u \in Chamadas \ {t} : tent'[u] = tent[u]
  BY DEF EstadoC, Dominios, PoeTent
<1>2. Respostas' /\ DOMAIN resposta' = Chamadas
  BY Firme, RespostasFicam
<1>3. SoDe(t)
  BY <1>1, <1>2, ChamadaVai DEF EstadoC, Dominios, SoDe
<1>4. Unidade(t)
  BY DEF EstadoC
<1>5. VendaOK(t)' /\ Tentativas(tent[t])'
  BY <1>1, <1>4 DEF Unidade, VendaOK, Tentativas
<1>6. Unidade(t)'
  BY <1>4, <1>5, Aberta, EmCurso
<1> QED BY <1>2, <1>3, <1>6, JuntaC

Termina(w, e) == Tentativas(w) /\ \E i \in DOMAIN w : w[i] = e
LEMMA AnexaFim ==
  ASSUME NEW s, Tentativas(s), NEW e, e = [a |-> e.a, id |-> e.id]
  PROVE  Termina(Append(s, e), e)
BY Anexa DEF Termina

LEMMA PassoVincular ==
  ASSUME EstadoC, NEW t \in Chamadas, Vincular(t)
  PROVE  EstadoC'
<1>1. Unidade(t) /\ cham[t].pc = "vincular" /\ cham[t] # Fim
  BY DEF EstadoC, Vincular, Fim
<1>2. PICK a : cham[t] = [pc |-> "vincular", a |-> a]
  BY <1>1 DEF Unidade, ChamOK
<1>3. <<t, a>> \in cobradas /\ cham[t].a = a
  BY <1>1, <1>2 DEF Unidade, Anda
<1>4. UNCHANGED <<venda, cobradas, pagas>>
  BY DEF Vincular
<1>5. ASSUME tent' = [tent EXCEPT ![t] = Append(@, Vinculo(a))], UNCHANGED resposta,
             Vai(t, [cham[t] EXCEPT !.pc = IF a = venda[t].conta THEN "gravarQr" ELSE "trocar"])
      PROVE  EstadoC'
  <2>1. PICK x : x = IF a = venda[t].conta THEN "gravarQr" ELSE "trocar"
    OBVIOUS
  <2>2. PICK r : r = [pc |-> x, a |-> a]
    OBVIOUS
  <2>3. Vai(t, ComPc(cham[t], x))
    BY <1>5, <2>1 DEF ComPc
  <2>4. Vai(t, r) /\ r = [pc |-> r.pc, a |-> r.a] /\ r.pc = x /\ r.a = a
    BY <1>2, <2>2, <2>3, PcMuda
  <2>5. cham'[t] = r
    BY <2>4, ChamadaVai
  <2>6. PICK e, w : e = [a |-> a, id |-> a] /\ w = Append(tent[t], e)
    OBVIOUS
  <2>7. PoeTent(t, w)
    BY <1>5, <2>6 DEF PoeTent, Vinculo
  <2>8. Tentativas(tent[t])
    BY <1>1 DEF Unidade
  <2>9. Tentativas(w) /\ \E i \in DOMAIN w : w[i] = e
    <3>2. e = [a |-> e.a, id |-> e.id]
      BY <2>6
    <3>3. Termina(Append(tent[t], e), e)
      BY <2>8, <3>2, AnexaFim
    <3> QED BY <2>6, <3>3 DEF Termina
  <2>10. Conhecida(t, a)'
    <3>1. tent'[t] = w
      BY <2>7 DEF EstadoC, Dominios, PoeTent
    <3> QED BY <2>6, <2>9, <3>1 DEF Conhecida
  <2>11. ChamOK(t)'
    BY <2>1, <2>4, <2>5 DEF ChamOK
  <2>12. Anda(t)'
    BY <1>3, <1>4, <2>1, <2>4, <2>5, <2>10 DEF Anda
  <2> QED BY <1>1, <1>4, <1>5, <2>4, <2>7, <2>9, <2>11, <2>12, PassoAnexa
<1>6. ASSUME Responde(t, Erro), UNCHANGED tent PROVE EstadoC'
  BY <1>1, <1>4, <1>6, Desiste
<1> QED BY <1>3, <1>5, <1>6 DEF Vincular

LEMMA PassoRegistrarFalha ==
  ASSUME EstadoC, NEW t \in Chamadas, RegistrarFalha(t)
  PROVE  EstadoC'
<1>1. Unidade(t) /\ cham[t].pc = "registrar" /\ cham[t] # Fim
  BY DEF EstadoC, RegistrarFalha, Fim
<1>2. UNCHANGED <<venda, resposta, cobradas, pagas>>
  BY DEF RegistrarFalha
<1>3. PICK fila : fila = cham[t].fila
  OBVIOUS
<1>4. PICK r : r = IF Len(fila) > 1 THEN [pc |-> "tentar", fila |-> Tail(fila)] ELSE [pc |-> "desistir"]
  OBVIOUS
<1>5. Vai(t, r)
  BY <1>3, <1>4 DEF RegistrarFalha
<1>6. (r.pc = "desistir" /\ r = [pc |-> r.pc]) \/ (r.pc = "tentar" /\ r = [pc |-> r.pc, fila |-> r.fila])
  BY <1>4
<1>7. cham'[t] = r
  BY <1>5, ChamadaVai
<1>8. ChamOK(t)' /\ Anda(t)'
  BY <1>6, <1>7 DEF ChamOK, Anda
<1>9. Tentativas(tent[t])
  BY <1>1 DEF Unidade
<1>10. ASSUME tent' = [tent EXCEPT ![t] = Append(@, [a |-> Head(fila), id |-> Nenhum])] PROVE EstadoC'
  <2>1. PICK b, y : b = Head(fila) /\ y = Nenhum
    OBVIOUS
  <2>2. PICK e, w : e = [a |-> b, id |-> y] /\ w = Append(tent[t], e)
    OBVIOUS
  <2>3. PoeTent(t, w)
    BY <1>10, <2>1, <2>2 DEF PoeTent
  <2>4. Tentativas(w)
    <3>1. e = [a |-> e.a, id |-> e.id]
      BY <2>2
    <3> QED BY <1>9, <2>2, <3>1, Anexa
  <2> QED BY <1>1, <1>2, <1>5, <1>8, <2>3, <2>4, PassoAnexa
<1>11. ASSUME UNCHANGED tent PROVE EstadoC'
  <2>1. Respostas' /\ DOMAIN resposta' = Chamadas
    BY <1>2, Firme, RespostasFicam
  <2> QED BY <1>1, <1>2, <1>5, <1>8, <1>11, <2>1, SoChamada
<1> QED BY <1>3, <1>10, <1>11 DEF RegistrarFalha

LEMMA PassoGravarQr ==
  ASSUME EstadoC, NEW t \in Chamadas, GravarQr(t)
  PROVE  EstadoC'
<1>1. Unidade(t) /\ cham[t].pc = "gravarQr" /\ cham[t] # Fim
  BY DEF EstadoC, GravarQr, Fim
<1>2. PICK a : a = cham[t].a
  OBVIOUS
<1>3. PICK s, c, q, v : venda[t] = Linha(s, c, q, v)
  BY VendaEm
<1>4. PICK l : l = Linha(s, c, a, v)
  OBVIOUS
<1>5. Poe(t, l)
  <2>1. venda' = [venda EXCEPT ![t] = ComQr(venda[t], a)]
    BY <1>2, Zenon DEF GravarQr, ComQr
  <2>2. ComQr(venda[t], a) = l
    BY <1>3, <1>4, QrMuda
  <2> QED BY <2>1, <2>2 DEF Poe
<1>6. /\ DOMAIN venda' = Chamadas /\ VendaOK(t)' /\ venda'[t].sit = s /\ venda'[t].qr = a
      /\ venda'[t].conta = c
      /\ \A u \in Chamadas \ {t} : venda'[u] = venda[u]
  BY <1>4, <1>5, VendaVira
<1>7. venda[t].qr = Nenhum /\ s # "CONCLUIDA" /\ venda[t].conta = c /\ \A p \in pagas : p[1] # t
  BY <1>1, <1>3, Aberta DEF Linha
<1>8. /\ UNCHANGED <<tent, cobradas, pagas>> /\ Vai(t, Fim)
      /\ resposta' = [resposta EXCEPT ![t] = Codigo(t, a)]
  BY <1>2 DEF GravarQr, Responde
<1>9. QrFirme
  BY <1>6, <1>7 DEF QrFirme
<1>10. Respostas' /\ DOMAIN resposta' = Chamadas
  <2>1. PICK r : r = Codigo(t, a)
    OBVIOUS
  <2>2. r.venda = t /\ r.qr = a
    BY <2>1 DEF Codigo
  <2>3. resposta' = [resposta EXCEPT ![t] = r] /\ venda'[r.venda].qr = r.qr
    BY <1>6, <1>8, <2>1, <2>2
  <2> QED BY <1>9, <2>2, <2>3, RespostaNova
<1>11. ChamOK(t)' /\ Anda(t)' /\ cham'[t] = Fim
  BY <1>8, Acaba
<1>12. c = a /\ <<t, a>> \in cobradas /\ Conhecida(t, a)
  BY <1>1, <1>2, <1>7 DEF Unidade, Anda
<1>13. QrOK(t)'
  <2>1. Conhecida(t, a)'
    BY <1>8, <1>12 DEF Conhecida
  <2> QED BY <1>6, <1>8, <1>11, <1>12, <2>1 DEF QrOK
<1>14. PagaDepois(t)' /\ CreditoOK(t)'
  BY <1>6, <1>7, <1>11 DEF PagaDepois, CreditoOK
<1>15. Tentativas(tent[t])'
  BY <1>1, <1>8 DEF Unidade, Tentativas
<1>16. Unidade(t)'
  BY <1>6, <1>11, <1>13, <1>14, <1>15 DEF Unidade
<1>17. SoDe(t)
  BY <1>6, <1>8, <1>10, ChamadaVai DEF SoDe, EstadoC, Dominios
<1> QED BY <1>10, <1>16, <1>17, JuntaC

-----------------------------------------------------------------------------
(* A sale that changes: its code and what it goes by stay.                  *)
SoVenda(t) ==
  /\ DOMAIN venda' = Chamadas /\ VendaOK(t)' /\ UNCHANGED <<cham, resposta, cobradas, pagas>>
  /\ venda'[t].qr = venda[t].qr /\ venda'[t].conta = venda[t].conta
  /\ \A u \in Chamadas \ {t} : venda'[u] = venda[u]
  /\ DOMAIN tent' = Chamadas /\ Tentativas(tent[t])'
  /\ \A u \in Chamadas \ {t} : tent'[u] = tent[u]
  /\ \A a : Conhecida(t, a) => Conhecida(t, a)' \/ a = Nenhum
LEMMA PassoVenda ==
  ASSUME EstadoC, NEW t \in Chamadas, SoVenda(t), CreditoOK(t)',
         cham[t] = Fim \/ \A a : Conhecida(t, a) => Conhecida(t, a)'
  PROVE  EstadoC'
<1>1. Unidade(t)
  BY DEF EstadoC
<1>2. QrOK(t)'
  BY <1>1 DEF Unidade, QrOK, SoVenda
<1>3. cham[t] = Fim => cham[t].pc = "fim"
  BY DEF Fim
<1>4. Anda(t)'
  <2>1. PICK b : b = cham[t].a
    OBVIOUS
  <2>2. cham[t] = Fim \/ (Conhecida(t, b) => Conhecida(t, b)')
    OBVIOUS
  <2>3. Conhecida(t, b)' => Conhecida(t, cham[t].a)'
    BY <2>1 DEF Conhecida, SoVenda
  <2> QED BY <1>1, <1>3, <2>1, <2>2, <2>3 DEF Unidade, Anda, SoVenda
<1>5. ChamOK(t)' /\ PagaDepois(t)'
  BY <1>1 DEF Unidade, ChamOK, PagaDepois, SoVenda
<1>6. Unidade(t)'
  BY <1>2, <1>4, <1>5 DEF Unidade, SoVenda
<1>7. QrFirme
  BY DEF QrFirme, SoVenda
<1>8. Respostas' /\ DOMAIN resposta' = Chamadas
  BY <1>7, RespostasFicam DEF SoVenda
<1>9. SoDe(t)
  BY <1>8 DEF SoDe, SoVenda, EstadoC, Dominios
<1> QED BY <1>6, <1>8, <1>9, JuntaC

LEMMA PassoVencer ==
  ASSUME EstadoC, NEW t \in Chamadas, Vencer(t)
  PROVE  EstadoC'
<1>1. UNCHANGED <<tent, cham, resposta, cobradas, pagas>> /\ Unidade(t)
  BY DEF Vencer, EstadoC
<1>2. PICK s, c, q, v : venda[t] = Linha(s, c, q, v)
  BY VendaEm
<1>3. PICK x : x = TRUE
  OBVIOUS
<1>4. PICK l : l = Linha(s, c, q, x)
  OBVIOUS
<1>5. Poe(t, l)
  <2>1. venda' = [venda EXCEPT ![t] = ComVencido(venda[t], x)]
    BY <1>3, Zenon DEF Vencer, ComVencido
  <2>2. ComVencido(venda[t], x) = l
    BY <1>2, <1>4, VencidoMuda
  <2> QED BY <2>1, <2>2 DEF Poe
<1>6. /\ DOMAIN venda' = Chamadas /\ VendaOK(t)' /\ venda'[t].sit = s /\ venda'[t].qr = q
      /\ venda'[t].conta = c
      /\ \A u \in Chamadas \ {t} : venda'[u] = venda[u]
  BY <1>4, <1>5, VendaVira
<1>7. venda[t].sit = s /\ venda[t].conta = c /\ venda[t].qr = q
  BY <1>2 DEF Linha
<1>8. \A a : Conhecida(t, a) => Conhecida(t, a)'
  BY <1>1 DEF Conhecida
<1>9. Tentativas(tent[t])' /\ DOMAIN tent' = Chamadas
  BY <1>1 DEF Unidade, Tentativas, EstadoC, Dominios
<1>10. SoVenda(t)
  BY <1>1, <1>6, <1>7, <1>8, <1>9 DEF SoVenda
<1>11. CreditoOK(t)'
  BY <1>1, <1>6, <1>7 DEF Unidade, CreditoOK
<1> QED BY <1>8, <1>10, <1>11, PassoVenda

(* What credits a sale: it becomes CONCLUIDA on a payment at its account.   *)
LEMMA Credita ==
  ASSUME EstadoC, NEW t \in Chamadas, venda' = [venda EXCEPT ![t].sit = "CONCLUIDA"],
         <<t, venda[t].conta>> \in pagas, UNCHANGED <<cham, resposta, cobradas, pagas>>,
         DOMAIN tent' = Chamadas, Tentativas(tent[t])',
         \A u \in Chamadas \ {t} : tent'[u] = tent[u],
         \A a : Conhecida(t, a) => Conhecida(t, a)' \/ a = Nenhum
  PROVE  EstadoC'
<1>2. PICK s, c, q, v : venda[t] = Linha(s, c, q, v)
  BY VendaEm
<1>3. PICK x : x = "CONCLUIDA"
  OBVIOUS
<1>4. PICK l : l = Linha(x, c, q, v)
  OBVIOUS
<1>5. Poe(t, l)
  <2>1. venda' = [venda EXCEPT ![t] = ComSit(venda[t], x)]
    BY <1>3, Zenon DEF ComSit
  <2>2. ComSit(venda[t], x) = l
    BY <1>2, <1>4, SitMuda
  <2> QED BY <2>1, <2>2 DEF Poe
<1>6. /\ DOMAIN venda' = Chamadas /\ VendaOK(t)' /\ venda'[t].sit = x /\ venda'[t].qr = q
      /\ venda'[t].conta = c
      /\ \A u \in Chamadas \ {t} : venda'[u] = venda[u]
  BY <1>4, <1>5, VendaVira
<1>7. venda[t].conta = c /\ venda[t].qr = q
  BY <1>2 DEF Linha
<1>8. SoVenda(t) /\ CreditoOK(t)'
  BY <1>6, <1>7 DEF SoVenda, CreditoOK
<1>9. cham[t] = Fim
  <2>1. Unidade(t) /\ <<t, venda[t].conta>>[1] = t
    BY DEF EstadoC
  <2> QED BY <2>1 DEF Unidade, PagaDepois
<1> QED BY <1>8, <1>9, PassoVenda

LEMMA PassoConciliar ==
  ASSUME EstadoC, NEW t \in Chamadas, Conciliar(t)
  PROVE  EstadoC'
<1>1. /\ venda' = [venda EXCEPT ![t].sit = "CONCLUIDA"] /\ <<t, venda[t].conta>> \in pagas
      /\ UNCHANGED <<tent, cham, resposta, cobradas, pagas>> /\ Unidade(t)
  BY DEF Conciliar, EstadoC
<1>2. Tentativas(tent[t])' /\ DOMAIN tent' = Chamadas
  BY <1>1 DEF Unidade, Tentativas, EstadoC, Dominios
<1>3. \A a : Conhecida(t, a) => Conhecida(t, a)'
  BY <1>1 DEF Conhecida
<1> QED BY <1>1, <1>2, <1>3, Credita

LEMMA PassoPostback ==
  ASSUME EstadoC, NEW t \in Chamadas, NEW a \in Adqs, Postback(t, a)
  PROVE  EstadoC'
<1>1. PICK i \in Resolve(t, a) :
        /\ Confere(t, a, i)
        /\ tent' = [tent EXCEPT ![t] = [@ EXCEPT ![i].id = a]]
        /\ venda' = [venda EXCEPT ![t].sit = "CONCLUIDA"]
  BY DEF Postback
<1>2. <<t, a>> \in pagas /\ UNCHANGED <<cham, resposta, cobradas, pagas>> /\ Unidade(t)
  BY DEF Postback, EstadoC
<1>3. venda[t].conta = a /\ tent[t][i].id \in {Nenhum, a}
  BY <1>1 DEF Confere
<1>4. PICK s : s = tent[t]
  OBVIOUS
<1>5. PICK w : w = Preenche(s, i, a)
  OBVIOUS
<1>6. PoeTent(t, w)
  <2>1. tent' = [tent EXCEPT ![t] = Preenche(tent[t], i, a)]
    BY <1>1, Zenon DEF Preenche, ComId
  <2> QED BY <1>4, <1>5, <2>1 DEF PoeTent
<1>7. DOMAIN tent' = Chamadas /\ tent'[t] = w /\ \A u \in Chamadas \ {t} : tent'[u] = tent[u]
  BY <1>6 DEF EstadoC, Dominios, PoeTent
<1>8. PICK n : n = Nenhum
  OBVIOUS
<1>9. Tentativas(s) /\ s[i].id \in {n, a}
  BY <1>2, <1>3, <1>4, <1>8 DEF Unidade
<1>10. /\ Tentativas(w) /\ DOMAIN w = DOMAIN s
       /\ \A j \in DOMAIN s : w[j].id = s[j].id \/ s[j].id = n
  <2>1. Preencheu(s, i, a, n, w)
    BY <1>5, <1>9 DEF Preencheu
  <2> QED BY <2>1, Preenchida
<1>11. \A b : Conhecida(t, b) => Conhecida(t, b)' \/ b = Nenhum
  BY <1>4, <1>7, <1>8, <1>10 DEF Conhecida
<1>12. Tentativas(tent[t])'
  BY <1>7, <1>10 DEF Tentativas
<1> QED BY <1>1, <1>2, <1>3, <1>7, <1>11, <1>12, Credita

LEMMA PassoPagar ==
  ASSUME EstadoC, NEW t \in Chamadas, NEW a \in Adqs, Pagar(t, a)
  PROVE  EstadoC'
<1>1. /\ cham[t] = Fim /\ pagas' = pagas \cup {<<t, a>>}
      /\ UNCHANGED <<venda, tent, cham, resposta, cobradas>> /\ Unidade(t)
  BY DEF Pagar, EstadoC
<1>2. Respostas' /\ DOMAIN resposta' = Chamadas
  BY <1>1, Firme, RespostasFicam
<1>3. \A p \in pagas' : p \in pagas \/ p[1] = t
  BY <1>1
<1>4. SoDe(t)
  BY <1>1, <1>2, <1>3 DEF SoDe, EstadoC, Dominios
<1>5. VendaOK(t)' /\ Tentativas(tent[t])' /\ ChamOK(t)'
  BY <1>1 DEF Unidade, VendaOK, Tentativas, ChamOK
<1>6. Anda(t)' /\ QrOK(t)'
  <2>1. \A b : Conhecida(t, b) => Conhecida(t, b)'
    BY <1>1 DEF Conhecida
  <2> QED BY <1>1, <2>1 DEF Unidade, Anda, QrOK
<1>7. PagaDepois(t)' /\ CreditoOK(t)'
  BY <1>1 DEF Unidade, PagaDepois, CreditoOK
<1>8. Unidade(t)'
  BY <1>5, <1>6, <1>7 DEF Unidade
<1> QED BY <1>2, <1>4, <1>8, JuntaC

LEMMA InicioC == CobrancaInit => CobrancaInv
<1> SUFFICES ASSUME CobrancaInit PROVE EstadoC
  BY PartesC
<1>1. Dominios
  BY DEF CobrancaInit, Dominios
<1>2. Respostas
  BY DEF CobrancaInit, Respostas, Erro
<1>3. ASSUME NEW t \in Chamadas PROVE Unidade(t)
  <2>1. VendaOK(t)
    BY DEF CobrancaInit, VendaOK
  <2>2. Tentativas(tent[t])
    <3>1. tent[t] = << >>
      BY DEF CobrancaInit
    <3> QED BY <3>1 DEF Tentativas
  <2>3. cham[t].pc = "nova" /\ cham[t] = [pc |-> cham[t].pc]
    BY DEF CobrancaInit
  <2>4. ChamOK(t) /\ Anda(t)
    BY <2>3 DEF ChamOK, Anda
  <2>5. PagaDepois(t)
    BY DEF CobrancaInit, PagaDepois
  <2>6. QrOK(t) /\ CreditoOK(t)
    BY DEF CobrancaInit, QrOK, CreditoOK
  <2> QED BY <2>1, <2>2, <2>4, <2>5, <2>6 DEF Unidade
<1> QED BY <1>1, <1>2, <1>3 DEF EstadoC

LEMMA QuietoC == ASSUME CobrancaInv, UNCHANGED cobranca PROVE CobrancaInv'
<1>1. UNCHANGED <<venda, tent, cham, resposta, cobradas, pagas>>
  BY DEF cobranca
<1>2. EstadoC
  BY PartesC
<1>3. ASSUME NEW t \in Chamadas PROVE Unidade(t)'
  BY <1>1, <1>2, <1>3, OutraChamada DEF EstadoC
<1>4. Dominios' /\ Respostas'
  BY <1>1, <1>2 DEF EstadoC, Dominios, Respostas
<1>5. EstadoC'
  BY <1>3, <1>4 DEF EstadoC
<1>6. CobrancaInv' <=> EstadoC'
  BY PartesC, PTL
<1> QED BY <1>5, <1>6

LEMMA PassoC == ASSUME CobrancaInv, PassoCobranca PROVE CobrancaInv'
<1>1. EstadoC
  BY PartesC
<1>2. EstadoC'
  <2>1. PICK t \in Chamadas :
          \/ PassoChamada(t) \/ Chamar(t) \/ Cair(t) \/ Vencer(t) \/ Conciliar(t)
          \/ \E a \in Adqs : Pagar(t, a) \/ Postback(t, a)
    BY DEF PassoCobranca
  <2>2. ASSUME PassoChamada(t) PROVE EstadoC'
    BY <1>1, <2>2, PassoCriarVenda, PassoTentar, PassoVincular, PassoRegistrarFalha,
       PassoDesistir, PassoTrocarConta, PassoGravarQr DEF PassoChamada
  <2>3. ASSUME Chamar(t) \/ Cair(t) PROVE EstadoC'
    BY <1>1, <2>3, PassoChamar, PassoCair
  <2>4. ASSUME Vencer(t) \/ Conciliar(t) PROVE EstadoC'
    BY <1>1, <2>4, PassoVencer, PassoConciliar
  <2>5. ASSUME NEW a \in Adqs, Pagar(t, a) \/ Postback(t, a) PROVE EstadoC'
    BY <1>1, <2>5, PassoPagar, PassoPostback
  <2> QED BY <2>1, <2>2, <2>3, <2>4, <2>5
<1>3. CobrancaInv' <=> EstadoC'
  BY PartesC, PTL
<1> QED BY <1>2, <1>3

-----------------------------------------------------------------------------
(* The treasury: a step makes no dispatch but those it read for, and moves  *)
(* the last one of a trigger only forward or to what none contradicts.      *)
Tempo == relogio \in Nat \ {0}
GatOK == /\ DOMAIN gat = NG
         /\ \A g \in NG : /\ gat[g] = [ultima |-> gat[g].ultima, ativo |-> gat[g].ativo]
                          /\ gat[g].ultima \in 0..relogio
ExecsOK == \A e \in execs : RegistroOK(e)
Unicas == \A e, f \in execs : Chave(e) = Chave(f) => e = f
OperariosOK == DOMAIN oper = Operarios /\ \A k \in Operarios : OperOK(oper[k])
Vale(e) ==
  /\ RegistroOK(e) /\ e.origem = "AUTOMATICO"
  /\ Gatilhos[e.g].intervalo = 0 \/ relogio - e.agora < Gatilhos[e.g].intervalo
LidasOK == \A k \in Operarios : oper[k].pc = "disparar" =>
             \A e \in oper[k].lidas : Vale(e) /\ e.agora = oper[k].agora
Separados(g) == \A x, y \in Disparos(g) :
  x[1] # y[1] /\ x[2] <= y[2] => y[2] - x[2] >= Gatilhos[g].intervalo
Acompanha(g) == \A x \in Disparos(g) :
  \/ x[1] = gat[g].ultima \/ x[2] <= gat[g].ultima
  \/ x[2] + Gatilhos[g].intervalo <= relogio
Formas == Tempo /\ GatOK /\ ExecsOK /\ Unicas /\ OperariosOK /\ LidasOK

LEMMA PartesT ==
  TesourariaInv <=> Formas /\ \A g \in NG : Separados(g) /\ Acompanha(g)
<1>1. ASSUME TesourariaInv PROVE Formas /\ \A g \in NG : Separados(g) /\ Acompanha(g)
  <2>1. Tempo /\ GatOK /\ ExecsOK /\ Unicas /\ OperariosOK
    BY <1>1 DEF TesourariaInv, Tempo, GatOK, ExecsOK, Unicas, OperariosOK
  <2>2. LidasOK
    BY <1>1 DEF TesourariaInv, LidasOK, Vale
  <2>3. \A g \in NG : Separados(g) /\ Acompanha(g)
    BY <1>1 DEF TesourariaInv, Separados, Acompanha
  <2> QED BY <2>1, <2>2, <2>3 DEF Formas
<1>2. ASSUME Formas, \A g \in NG : Separados(g) /\ Acompanha(g) PROVE TesourariaInv
  <2>1. Tempo /\ GatOK /\ ExecsOK /\ Unicas /\ OperariosOK /\ LidasOK
    BY <1>2 DEF Formas
  <2>2. \A k \in Operarios : oper[k].pc = "disparar" =>
          \A e \in oper[k].lidas :
            /\ RegistroOK(e) /\ e.origem = "AUTOMATICO" /\ e.agora = oper[k].agora
            /\ Gatilhos[e.g].intervalo = 0 \/ relogio - e.agora < Gatilhos[e.g].intervalo
    BY <2>1 DEF LidasOK, Vale
  <2>3. \A g \in NG : \A x, y \in Disparos(g) :
          x[1] # y[1] /\ x[2] <= y[2] => y[2] - x[2] >= Gatilhos[g].intervalo
    BY <1>2 DEF Separados
  <2>4. \A g \in NG : \A x \in Disparos(g) :
          \/ x[1] = gat[g].ultima \/ x[2] <= gat[g].ultima
          \/ x[2] + Gatilhos[g].intervalo <= relogio
    BY <1>2 DEF Acompanha
  <2> QED BY <2>1, <2>2, <2>3, <2>4 DEF TesourariaInv, Tempo, GatOK, ExecsOK, Unicas, OperariosOK
<1> QED BY <1>1, <1>2

LEMMA PartesDepois ==
  ASSUME Formas', \A g \in NG : Separados(g)' /\ Acompanha(g)'
  PROVE  TesourariaInv'
<1>1. TesourariaInv' <=> (Formas /\ \A g \in NG : Separados(g) /\ Acompanha(g))'
  BY PartesT, PTL
<1> QED BY <1>1

LEMMA Intervalos == \A g \in NG : Gatilhos[g].intervalo \in Nat
BY TesourariaAssumption DEF NG

LEMMA LidasValem ==
  ASSUME LidasOK, NEW e \in Lidas
  PROVE  Vale(e)
BY DEF LidasOK, Lidas

(* Each dispatch is of an execution made, or of one read and not reserved.  *)
LEMMA DispararE ==
  ASSUME NEW g, NEW x \in Disparos(g)
  PROVE  \E e : /\ x = <<e.marca, e.agora>> /\ e.g = g
                /\ (e \in execs /\ e.origem = "AUTOMATICO") \/ (e \in Lidas /\ ~Reservada(e))
BY DEF Disparos
LEMMA EDisparo ==
  ASSUME NEW e, (e \in execs /\ e.origem = "AUTOMATICO") \/ (e \in Lidas /\ ~Reservada(e))
  PROVE  <<e.marca, e.agora>> \in Disparos(e.g)
BY DEF Disparos

LEMMA DisparosTipo ==
  ASSUME Formas, NEW g \in NG, NEW x \in Disparos(g)
  PROVE  x[1] \in Nat /\ x[2] \in 1..relogio
<1>1. PICK e : /\ x = <<e.marca, e.agora>> /\ e.g = g
               /\ (e \in execs /\ e.origem = "AUTOMATICO") \/ (e \in Lidas /\ ~Reservada(e))
  BY DispararE
<1>2. RegistroOK(e)
  BY <1>1, LidasValem DEF Formas, ExecsOK, Vale
<1> QED BY <1>1, <1>2 DEF RegistroOK

(* What a step may do to the executions and to what was read, for the       *)
(* dispatches to be among those there were.                                 *)
MesmoDisparo(e, f) == f.g = e.g /\ f.origem = e.origem /\ f.marca = e.marca /\ f.agora = e.agora
Herda ==
  /\ Lidas' \subseteq Lidas
  /\ \A e \in execs : \E f \in execs' : Chave(f) = Chave(e)
  /\ \A f \in execs' : \/ \E e \in execs : MesmoDisparo(e, f)
                       \/ f.origem # "AUTOMATICO"
                       \/ f \in Lidas /\ ~Reservada(f)
LEMMA Encolhe ==
  ASSUME Herda, NEW g
  PROVE  Disparos(g)' \subseteq Disparos(g)
<1> SUFFICES ASSUME NEW x \in Disparos(g)' PROVE x \in Disparos(g)
  OBVIOUS
<1>1. PICK f : /\ x = <<f.marca, f.agora>> /\ f.g = g
               /\ (f \in execs' /\ f.origem = "AUTOMATICO") \/ (f \in Lidas' /\ ~Reservada(f)')
  BY DEF Disparos
<1>2. ASSUME f \in execs', f.origem = "AUTOMATICO" PROVE x \in Disparos(g)
  <2>1. ASSUME NEW e \in execs, MesmoDisparo(e, f) PROVE x \in Disparos(g)
    BY <1>1, <1>2, <2>1, EDisparo DEF MesmoDisparo
  <2>2. ASSUME f \in Lidas, ~Reservada(f) PROVE x \in Disparos(g)
    BY <1>1, <2>2, EDisparo
  <2> QED BY <1>2, <2>1, <2>2 DEF Herda
<1>3. ASSUME f \in Lidas', ~Reservada(f)' PROVE x \in Disparos(g)
  <2>1. f \in Lidas /\ ~Reservada(f)
    BY <1>3 DEF Herda, Reservada
  <2> QED BY <1>1, <2>1, EDisparo
<1> QED BY <1>1, <1>2, <1>3

LEMMA JuntaT ==
  ASSUME TesourariaInv, Formas', Herda, relogio <= relogio',
         \A g \in NG : gat'[g].ultima = gat[g].ultima
  PROVE  TesourariaInv'
<1>1. Formas /\ \A g \in NG : Separados(g) /\ Acompanha(g)
  BY PartesT
<1>2. ASSUME NEW g \in NG PROVE Separados(g)' /\ Acompanha(g)'
  <2>1. Disparos(g)' \subseteq Disparos(g)
    BY Encolhe
  <2>2. Separados(g)'
    BY <1>1, <2>1 DEF Separados
  <2>3. ASSUME NEW x \in Disparos(g)' 
        PROVE  x[1] = gat'[g].ultima \/ x[2] <= gat'[g].ultima \/ x[2] + Gatilhos[g].intervalo <= relogio'
    <3>1. x \in Disparos(g)
      BY <2>1
    <3>2. x[2] \in Nat /\ Gatilhos[g].intervalo \in Nat
      BY <1>1, <3>1, DisparosTipo, Intervalos
    <3>3. relogio \in Nat /\ relogio' \in Nat
      BY <1>1 DEF Formas, Tempo
    <3>4. x[1] = gat[g].ultima \/ x[2] <= gat[g].ultima \/ x[2] + Gatilhos[g].intervalo <= relogio
      BY <1>1, <3>1 DEF Acompanha
    <3> QED BY <3>2, <3>3, <3>4
  <2> QED BY <2>2, <2>3 DEF Acompanha
<1> QED BY <1>2, PartesDepois

LEMMA Operario ==
  ASSUME Formas, NEW k \in Operarios, NEW r, Passa(k, r), OperOK(r), UNCHANGED relogio,
         r.pc = "disparar" => \A e \in r.lidas : Vale(e) /\ e.agora = r.agora
  PROVE  /\ OperariosOK' /\ LidasOK'
         /\ \A e \in Lidas' : e \in Lidas \/ (r.pc = "disparar" /\ e \in r.lidas)
<1>1. DOMAIN oper' = Operarios /\ oper'[k] = r /\ \A o \in Operarios \ {k} : oper'[o] = oper[o]
  BY DEF Formas, OperariosOK, Passa
<1>2. OperariosOK'
  BY <1>1 DEF Formas, OperariosOK
<1>3. \A e : Vale(e) => Vale(e)'
  BY DEF Vale, RegistroOK
<1>4. LidasOK'
  BY <1>1, <1>3 DEF Formas, LidasOK
<1>5. \A e \in Lidas' : e \in Lidas \/ (r.pc = "disparar" /\ e \in r.lidas)
  BY <1>1 DEF Lidas
<1> QED BY <1>2, <1>4, <1>5

LEMMA FormasFicam ==
  ASSUME Formas, UNCHANGED <<relogio, gat>>
  PROVE  Tempo' /\ GatOK' /\ (UNCHANGED execs => ExecsOK' /\ Unicas')
<1>1. Tempo' /\ GatOK'
  BY DEF Formas, Tempo, GatOK
<1>2. UNCHANGED execs => ExecsOK' /\ Unicas'
  BY DEF Formas, ExecsOK, RegistroOK, Unicas
<1> QED BY <1>1, <1>2

LEMMA SoOperario ==
  ASSUME TesourariaInv, NEW k \in Operarios, NEW r, Passa(k, r), OperOK(r),
         UNCHANGED <<relogio, gat, execs>>,
         r.pc = "disparar" =>
           oper[k].pc = "disparar" /\ r.lidas \subseteq oper[k].lidas /\ r.agora = oper[k].agora
  PROVE  TesourariaInv'
<1>1. Formas
  BY PartesT
<1>2. r.pc = "disparar" => \A e \in r.lidas : Vale(e) /\ e.agora = r.agora
  BY <1>1 DEF Formas, LidasOK
<1>3. r.pc = "disparar" => r.lidas \subseteq Lidas
  BY DEF Lidas
<1>4. OperariosOK' /\ LidasOK' /\ Lidas' \subseteq Lidas
  BY <1>1, <1>2, <1>3, Operario
<1>5. Formas'
  BY <1>1, <1>4, FormasFicam DEF Formas
<1>6. Herda
  BY <1>4 DEF Herda, MesmoDisparo
<1>7. relogio <= relogio'
  BY <1>1 DEF Formas, Tempo
<1> QED BY <1>5, <1>6, <1>7, JuntaT

(* Executions that change nothing but their state.                          *)
Registro(g, o, m, a, v, s) ==
  [g |-> g, origem |-> o, marca |-> m, agora |-> a, valor |-> v, sit |-> s]
ComSitE(e, x) == [e EXCEPT !.sit = x]
LEMMA SitEMuda ==
  ASSUME NEW g, NEW o, NEW m, NEW a, NEW v, NEW s, NEW x
  PROVE  ComSitE(Registro(g, o, m, a, v, s), x) = Registro(g, o, m, a, v, x)
BY DEF ComSitE, Registro
LEMMA RegistroMuda ==
  ASSUME NEW e, RegistroOK(e), NEW x
  PROVE  MesmoDisparo(e, ComSitE(e, x)) /\ RegistroOK(ComSitE(e, x))
<1>1. PICK g, o, m, a, v, s : e = Registro(g, o, m, a, v, s)
  BY DEF RegistroOK, Registro
<1>2. PICK f : f = Registro(g, o, m, a, v, x)
  OBVIOUS
<1>3. ComSitE(e, x) = f
  BY <1>1, <1>2, SitEMuda
<1>4. MesmoDisparo(e, f)
  BY <1>1, <1>2 DEF MesmoDisparo, Registro
<1>5. f = [g |-> f.g, origem |-> f.origem, marca |-> f.marca, agora |-> f.agora,
           valor |-> f.valor, sit |-> f.sit]
  BY <1>2 DEF Registro
<1>6. RegistroOK(f)
  BY <1>4, <1>5 DEF RegistroOK, MesmoDisparo
<1> QED BY <1>3, <1>4, <1>6

LEMMA Imagem ==
  ASSUME Formas, UNCHANGED relogio, NEW h, execs' = {h[e] : e \in execs},
         \A e \in execs : MesmoDisparo(e, h[e]) /\ RegistroOK(h[e])
  PROVE  /\ ExecsOK' /\ Unicas'
         /\ \A e \in execs : \E f \in execs' : Chave(f) = Chave(e)
         /\ \A f \in execs' : \E e \in execs : MesmoDisparo(e, f)
<1>1. \A e \in execs : Chave(h[e]) = Chave(e)
  BY DEF Chave, MesmoDisparo
<1>2. ExecsOK'
  BY DEF ExecsOK, RegistroOK
<1>3. Unicas'
  <2> SUFFICES ASSUME NEW x \in execs, NEW y \in execs, Chave(h[x]) = Chave(h[y]) PROVE h[x] = h[y]
    BY DEF Unicas
  <2>1. x = y
    BY <1>1 DEF Formas, Unicas
  <2> QED BY <2>1
<1> QED BY <1>1, <1>2, <1>3

LEMMA MudaExecs ==
  ASSUME TesourariaInv, NEW k \in Operarios, NEW r, Passa(k, r), OperOK(r), r.pc # "disparar",
         UNCHANGED <<relogio, gat>>, NEW h, execs' = {h[e] : e \in execs},
         \A e \in execs : MesmoDisparo(e, h[e]) /\ RegistroOK(h[e])
  PROVE  TesourariaInv'
<1>1. Formas
  BY PartesT
<1>2. OperariosOK' /\ LidasOK' /\ Lidas' \subseteq Lidas
  BY <1>1, Operario
<1>3. /\ ExecsOK' /\ Unicas'
      /\ \A e \in execs : \E f \in execs' : Chave(f) = Chave(e)
      /\ \A f \in execs' : \E e \in execs : MesmoDisparo(e, f)
  BY <1>1, Imagem
<1>4. Formas'
  BY <1>1, <1>2, <1>3, FormasFicam DEF Formas
<1>5. Herda
  BY <1>2, <1>3 DEF Herda
<1>6. relogio <= relogio'
  BY <1>1 DEF Formas, Tempo
<1> QED BY <1>4, <1>5, <1>6, JuntaT

ComUltima(r, x) == [r EXCEPT !.ultima = x]
ComAtivo(r, x) == [r EXCEPT !.ativo = x]
LEMMA UltimaMuda ==
  ASSUME NEW u, NEW b, NEW x
  PROVE  ComUltima([ultima |-> u, ativo |-> b], x) = [ultima |-> x, ativo |-> b]
BY DEF ComUltima
LEMMA AtivoMuda ==
  ASSUME NEW u, NEW b, NEW x
  PROVE  ComAtivo([ultima |-> u, ativo |-> b], x) = [ultima |-> u, ativo |-> x]
BY DEF ComAtivo

PoeGat(g, r) == gat' = [gat EXCEPT ![g] = r]
LEMMA GatVira ==
  ASSUME Formas, NEW g \in NG, NEW u \in 0..relogio, NEW b, NEW r, r = [ultima |-> u, ativo |-> b],
         PoeGat(g, r), Tempo', relogio <= relogio'
  PROVE  GatOK' /\ gat'[g].ultima = u /\ \A h \in NG \ {g} : gat'[h] = gat[h]
<1>1. DOMAIN gat' = NG /\ gat'[g] = r /\ \A h \in NG \ {g} : gat'[h] = gat[h]
  BY DEF Formas, GatOK, PoeGat
<1>2. relogio \in Nat /\ relogio' \in Nat
  BY DEF Formas, Tempo
<1>3. \A x \in 0..relogio : x \in 0..relogio'
  BY <1>2
<1>4. \A h \in NG : gat'[h] = [ultima |-> gat'[h].ultima, ativo |-> gat'[h].ativo]
  BY <1>1 DEF Formas, GatOK
<1>5. \A h \in NG : gat'[h].ultima \in 0..relogio'
  BY <1>1, <1>3 DEF Formas, GatOK
<1> QED BY <1>1, <1>4, <1>5 DEF GatOK

(* The dispatch that is created moves the last one of its trigger: what was *)
(* read of another mark is an interval before it, and of the same is        *)
(* reserved by it.                                                          *)
Autoriza(e) == \/ e \in Lidas
               \/ e.origem # "AUTOMATICO" /\ e.agora = relogio
LEMMA PassoCria ==
  ASSUME TesourariaInv, NEW e, RegistroOK(e), ~Reservada(e), Cria(e), Autoriza(e), UNCHANGED relogio,
         OperariosOK', LidasOK', Lidas' \subseteq Lidas
  PROVE  TesourariaInv'
<1>1. Formas /\ \A g \in NG : Separados(g) /\ Acompanha(g)
  BY PartesT
<1>2. Tempo /\ Tempo' /\ relogio <= relogio'
  BY <1>1 DEF Formas, Tempo
<1>3. PICK g \in NG, a \in 1..relogio : g = e.g /\ a = e.agora
  BY DEF RegistroOK
<1>4. PICK u, b : gat[g] = [ultima |-> u, ativo |-> b]
  BY <1>1 DEF Formas, GatOK
<1>5. PICK r : r = [ultima |-> a, ativo |-> b]
  OBVIOUS
<1>6. PoeGat(g, r)
  <2>1. gat' = [gat EXCEPT ![g] = ComUltima(gat[g], a)]
    BY <1>3, Zenon DEF Cria, ComUltima
  <2>2. ComUltima(gat[g], a) = r
    BY <1>4, <1>5, UltimaMuda
  <2> QED BY <2>1, <2>2 DEF PoeGat
<1>7. GatOK' /\ gat'[g].ultima = a /\ \A h \in NG \ {g} : gat'[h] = gat[h]
  <2>1. a \in 0..relogio
    BY <1>2 DEF Tempo
  <2> QED BY <1>1, <1>2, <1>5, <1>6, <2>1, GatVira
<1>8. execs' = execs \cup {e}
  BY DEF Cria
<1>9. ExecsOK' /\ Unicas'
  <2>1. ExecsOK'
    BY <1>1, <1>8 DEF Formas, ExecsOK, RegistroOK
  <2>2. Unicas'
    BY <1>1, <1>8 DEF Formas, Unicas, Reservada
  <2> QED BY <2>1, <2>2
<1>10. Herda
  BY <1>8 DEF Herda, MesmoDisparo, Autoriza
<1>11. Formas'
  BY <1>2, <1>7, <1>9 DEF Formas
<1>12. \A h \in NG : Disparos(h)' \subseteq Disparos(h)
  BY <1>10, Encolhe
<1>13. \A h \in NG : Separados(h)'
  BY <1>1, <1>12 DEF Separados
<1>14. \A h \in NG \ {g} : Acompanha(h)'
  BY <1>1, <1>7, <1>12 DEF Acompanha
<1>15. Acompanha(g)'
  <2> SUFFICES ASSUME NEW x \in Disparos(g)'
               PROVE  x[2] <= a \/ x[2] + Gatilhos[g].intervalo <= relogio
    BY <1>7 DEF Acompanha
  <2>1. x \in Disparos(g)
    BY <1>12
  <2>2. x[1] \in Nat /\ x[2] \in 1..relogio /\ Gatilhos[g].intervalo \in Nat /\ relogio \in Nat
    BY <1>1, <2>1, DisparosTipo, Intervalos DEF Formas, Tempo
  <2>3. ASSUME e.origem # "AUTOMATICO", e.agora = relogio PROVE x[2] <= a
    BY <1>3, <2>2, <2>3
  <2>4. ASSUME e \in Lidas PROVE x[2] <= a \/ x[2] + Gatilhos[g].intervalo <= relogio
    <3>1. Vale(e) /\ e.origem = "AUTOMATICO"
      BY <1>1, <2>4, LidasValem DEF Formas, Vale
    <3>2. PICK y : y = <<e.marca, e.agora>>
      OBVIOUS
    <3>3. y \in Disparos(g) /\ y[1] = e.marca /\ y[2] = a
      BY <1>3, <2>4, <3>2, EDisparo
    <3>4. ASSUME x[1] # e.marca, x[2] > a PROVE x[2] + Gatilhos[g].intervalo <= relogio
      <4>1. a <= x[2] => x[2] - a >= Gatilhos[g].intervalo
        BY <1>1, <2>1, <3>3, <3>4 DEF Separados
      <4>2. Gatilhos[g].intervalo = 0 \/ relogio - a < Gatilhos[g].intervalo
        BY <1>3, <3>1 DEF Vale
      <4> QED BY <2>2, <3>4, <4>1, <4>2
    <3>5. ASSUME x[1] = e.marca PROVE x[2] <= a
      <4>1. PICK f : /\ x = <<f.marca, f.agora>> /\ f.g = g
                     /\ (f \in execs' /\ f.origem = "AUTOMATICO") \/ (f \in Lidas' /\ ~Reservada(f)')
        BY DEF Disparos
      <4>2. f.marca = e.marca /\ x[2] = f.agora
        BY <3>5, <4>1
      <4>3. f.origem = "AUTOMATICO"
        BY <1>1, <4>1, LidasValem DEF Formas, Vale
      <4>4. Chave(f) = Chave(e)
        BY <1>3, <3>1, <4>1, <4>2, <4>3 DEF Chave
      <4>5. f = e
        BY <1>8, <4>1, <4>4 DEF Reservada
      <4> QED BY <1>3, <2>2, <4>2, <4>5
    <3> QED BY <2>2, <3>4, <3>5
  <2> QED BY <2>3, <2>4 DEF Autoriza
<1> QED BY <1>11, <1>13, <1>14, <1>15, PartesDepois

(* What is read of an eligible trigger is an interval after every dispatch  *)
(* that read another mark.                                                  *)
LEMMA ElegivelDista ==
  ASSUME TesourariaInv, NEW g \in NG, Elegivel(g), NEW x \in Disparos(g), x[1] # gat[g].ultima
  PROVE  relogio - x[2] >= Gatilhos[g].intervalo
<1>1. Formas /\ Acompanha(g)
  BY PartesT
<1>2. x[2] \in 1..relogio /\ Gatilhos[g].intervalo \in Nat /\ relogio \in Nat
  BY <1>1, DisparosTipo, Intervalos DEF Formas, Tempo
<1>3. gat[g].ultima \in 0..relogio
  BY <1>1 DEF Formas, GatOK
<1>4. gat[g].ultima = 0 \/ relogio - gat[g].ultima >= Gatilhos[g].intervalo
  BY DEF Elegivel, JanelaLiberada, Nunca
<1>5. x[2] <= gat[g].ultima \/ x[2] + Gatilhos[g].intervalo <= relogio
  BY <1>1 DEF Acompanha
<1> QED BY <1>2, <1>3, <1>4, <1>5

LEMMA CandidataVale ==
  ASSUME Formas, NEW g \in NG
  PROVE  /\ Vale(Candidata(g)) /\ Candidata(g).agora = relogio /\ Candidata(g).g = g
         /\ Candidata(g).marca = gat[g].ultima
<1>1. gat[g].ultima \in Nat /\ relogio \in 1..relogio
  BY DEF Formas, Tempo, GatOK
<1>2. PICK u, v : u = gat[g].ultima /\ v = Payout(g, saldo[Conta(g)])
  OBVIOUS
<1>3. PICK e : e = [g |-> g, origem |-> "AUTOMATICO", marca |-> u, agora |-> relogio,
                    valor |-> v, sit |-> "PENDENTE"]
  OBVIOUS
<1>4. Candidata(g) = e
  BY <1>2, <1>3 DEF Candidata, Execucao, Marca
<1>5. e.g = g /\ e.origem = "AUTOMATICO" /\ e.marca = u /\ e.agora = relogio
      /\ e = [g |-> e.g, origem |-> e.origem, marca |-> e.marca, agora |-> e.agora,
              valor |-> e.valor, sit |-> e.sit]
  BY <1>3
<1>6. RegistroOK(e)
  BY <1>1, <1>2, <1>5 DEF RegistroOK
<1>7. Gatilhos[g].intervalo = 0 \/ relogio - relogio < Gatilhos[g].intervalo
  BY Intervalos DEF Formas, Tempo
<1>8. Vale(e)
  BY <1>5, <1>6, <1>7 DEF Vale
<1> QED BY <1>2, <1>4, <1>5, <1>8

LEMMA PassoAvaliar ==
  ASSUME TesourariaInv, NEW k \in Operarios, Avaliar(k)
  PROVE  TesourariaInv'
<1>1. Formas /\ \A g \in NG : Separados(g) /\ Acompanha(g)
  BY PartesT
<1>2. PICK ls : ls = {Candidata(g) : g \in {h \in NG : Elegivel(h)}}
  OBVIOUS
<1>3. PICK n : n = << >>
  OBVIOUS
<1>4. PICK r : r = [pc |-> "disparar", criadas |-> n, agora |-> relogio, lidas |-> ls]
  OBVIOUS
<1>5. Passa(k, r)
  BY <1>2, <1>3, <1>4 DEF Avaliar
<1>6. OperOK(r) /\ r.pc = "disparar" /\ r.lidas = ls /\ r.agora = relogio
  BY <1>4 DEF OperOK
<1>7. UNCHANGED <<relogio, gat, execs>>
  BY DEF Avaliar
<1>8. \A e \in ls : Vale(e) /\ e.agora = relogio
  BY <1>1, <1>2, CandidataVale
<1>9. OperariosOK' /\ LidasOK' /\ \A e \in Lidas' : e \in Lidas \/ e \in ls
  BY <1>1, <1>5, <1>6, <1>7, <1>8, Operario
<1>10. Formas'
  BY <1>1, <1>7, <1>9, FormasFicam DEF Formas
<1>11. ASSUME NEW g \in NG, NEW x \in Disparos(g)'
       PROVE  x \in Disparos(g) \/ (Elegivel(g) /\ x[1] = gat[g].ultima /\ x[2] = relogio)
  <2>1. PICK f : /\ x = <<f.marca, f.agora>> /\ f.g = g
                 /\ (f \in execs' /\ f.origem = "AUTOMATICO") \/ (f \in Lidas' /\ ~Reservada(f)')
    BY <1>11 DEF Disparos
  <2>2. ASSUME f \in execs', f.origem = "AUTOMATICO" PROVE x \in Disparos(g)
    BY <1>7, <2>1, <2>2, EDisparo
  <2>3. ASSUME f \in Lidas, ~Reservada(f)' PROVE x \in Disparos(g)
    <3>1. ~Reservada(f)
      BY <1>7, <2>3 DEF Reservada
    <3> QED BY <2>1, <2>3, <3>1, EDisparo
  <2>4. ASSUME f \in ls PROVE Elegivel(g) /\ x[1] = gat[g].ultima /\ x[2] = relogio
    <3>1. PICK h \in NG : Elegivel(h) /\ f = Candidata(h)
      BY <1>2, <2>4
    <3>2. h = g /\ f.marca = gat[g].ultima /\ f.agora = relogio
      BY <1>1, <2>1, <3>1, CandidataVale
    <3> QED BY <2>1, <3>1, <3>2
  <2> QED BY <1>9, <2>1, <2>2, <2>3, <2>4
<1>12. ASSUME NEW g \in NG PROVE Separados(g)' /\ Acompanha(g)'
  <2>1. Gatilhos[g].intervalo \in Nat /\ relogio \in Nat
    BY <1>1, Intervalos DEF Formas, Tempo
  <2>2. Acompanha(g)'
    BY <1>1, <1>7, <1>11 DEF Acompanha
  <2>3. ASSUME NEW x \in Disparos(g)', NEW y \in Disparos(g)', x[1] # y[1], x[2] <= y[2]
        PROVE  y[2] - x[2] >= Gatilhos[g].intervalo
    <3>1. CASE x \in Disparos(g) /\ y \in Disparos(g)
      BY <1>1, <2>3, <3>1 DEF Separados
    <3>2. CASE x \in Disparos(g) /\ y[1] = gat[g].ultima /\ y[2] = relogio /\ Elegivel(g)
      BY <2>3, <3>2, ElegivelDista
    <3>3. CASE y \in Disparos(g) /\ x[1] = gat[g].ultima /\ x[2] = relogio /\ Elegivel(g)
      <4>1. relogio - y[2] >= Gatilhos[g].intervalo /\ y[2] \in 1..relogio
        BY <1>1, <2>3, <3>3, ElegivelDista, DisparosTipo
      <4> QED BY <2>1, <2>3, <3>3, <4>1
    <3> QED BY <1>11, <2>3, <3>1, <3>2, <3>3
  <2> QED BY <2>2, <2>3 DEF Separados
<1> QED BY <1>10, <1>12, PartesDepois

-----------------------------------------------------------------------------
ComCriadas(o, x) == [o EXCEPT !.criadas = x]
ComLidas(o, x) == [o EXCEPT !.lidas = x]
Disparando(c, a, l) == [pc |-> "disparar", criadas |-> c, agora |-> a, lidas |-> l]
Enviando(p, q, c) == [pc |-> p, quem |-> q, criadas |-> c]
EnviandoJob(p, q, c, n) == [pc |-> p, quem |-> q, criadas |-> c, resta |-> n]
LEMMA DisparandoLidas ==
  ASSUME NEW c, NEW a, NEW l, NEW x
  PROVE  ComLidas(Disparando(c, a, l), x) = Disparando(c, a, x)
BY DEF ComLidas, Disparando
LEMMA DisparandoCriadas ==
  ASSUME NEW c, NEW a, NEW l, NEW x
  PROVE  ComCriadas(Disparando(c, a, l), x) = Disparando(x, a, l)
BY DEF ComCriadas, Disparando
LEMMA EnviandoPc == ASSUME NEW p, NEW q, NEW c, NEW x PROVE ComPc(Enviando(p, q, c), x) = Enviando(x, q, c)
BY DEF ComPc, Enviando
LEMMA EnviandoCriadas ==
  ASSUME NEW p, NEW q, NEW c, NEW x PROVE ComCriadas(Enviando(p, q, c), x) = Enviando(p, q, x)
BY DEF ComCriadas, Enviando
LEMMA EnviandoJobPc ==
  ASSUME NEW p, NEW q, NEW c, NEW n, NEW x PROVE ComPc(EnviandoJob(p, q, c, n), x) = EnviandoJob(x, q, c, n)
BY DEF ComPc, EnviandoJob
LEMMA EnviandoJobCriadas ==
  ASSUME NEW p, NEW q, NEW c, NEW n, NEW x
  PROVE  ComCriadas(EnviandoJob(p, q, c, n), x) = EnviandoJob(p, q, x, n)
BY DEF ComCriadas, EnviandoJob

Envia(o) == \E p \in {"enviar", "gravarEnviada", "gravarFalha"} :
              (\E q, c : o = Enviando(p, q, c)) \/ \E q, c, n : o = EnviandoJob(p, q, c, n)
LEMMA EnviaOK ==
  ASSUME NEW o, Envia(o)
  PROVE  OperOK(o) /\ o.pc # "disparar"
<1>1. PICK p \in {"enviar", "gravarEnviada", "gravarFalha"} :
        (\E q, c : o = Enviando(p, q, c)) \/ \E q, c, n : o = EnviandoJob(p, q, c, n)
  BY DEF Envia
<1>2. ASSUME NEW q, NEW c, o = Enviando(p, q, c) PROVE OperOK(o) /\ o.pc # "disparar"
  <2>1. o.pc = p /\ o = [pc |-> o.pc, quem |-> o.quem, criadas |-> o.criadas]
    BY <1>2 DEF Enviando
  <2> QED BY <1>1, <2>1 DEF OperOK
<1>3. ASSUME NEW q, NEW c, NEW n, o = EnviandoJob(p, q, c, n) PROVE OperOK(o) /\ o.pc # "disparar"
  <2>1. o.pc = p /\ o = [pc |-> o.pc, quem |-> o.quem, criadas |-> o.criadas, resta |-> o.resta]
    BY <1>3 DEF EnviandoJob
  <2> QED BY <1>1, <2>1 DEF OperOK
<1> QED BY <1>1, <1>2, <1>3
LEMMA OperEnvia ==
  ASSUME NEW o, OperOK(o), o.pc \in {"enviar", "gravarEnviada", "gravarFalha"}
  PROVE  Envia(o)
<1>1. \/ o = [pc |-> o.pc, quem |-> o.quem, criadas |-> o.criadas]
      \/ o = [pc |-> o.pc, quem |-> o.quem, criadas |-> o.criadas, resta |-> o.resta]
  BY DEF OperOK, Livre
<1>2. o = Enviando(o.pc, o.quem, o.criadas) \/ o = EnviandoJob(o.pc, o.quem, o.criadas, o.resta)
  BY <1>1 DEF Enviando, EnviandoJob
<1> QED BY <1>2 DEF Envia
LEMMA EnviaSegue ==
  ASSUME NEW o, Envia(o), NEW x
  PROVE  /\ x \in {"enviar", "gravarEnviada", "gravarFalha"} => Envia(ComPc(o, x))
         /\ Envia(ComCriadas(o, x))
<1>1. PICK p \in {"enviar", "gravarEnviada", "gravarFalha"} :
        (\E q, c : o = Enviando(p, q, c)) \/ \E q, c, n : o = EnviandoJob(p, q, c, n)
  BY DEF Envia
<1>2. ASSUME NEW q, NEW c, o = Enviando(p, q, c)
      PROVE  ComPc(o, x) = Enviando(x, q, c) /\ ComCriadas(o, x) = Enviando(p, q, x)
  BY <1>2, EnviandoPc, EnviandoCriadas
<1>3. ASSUME NEW q, NEW c, NEW n, o = EnviandoJob(p, q, c, n)
      PROVE  ComPc(o, x) = EnviandoJob(x, q, c, n) /\ ComCriadas(o, x) = EnviandoJob(p, q, x, n)
  BY <1>3, EnviandoJobPc, EnviandoJobCriadas
<1>4. ASSUME NEW q, NEW c, o = Enviando(p, q, c)
      PROVE  (x \in {"enviar", "gravarEnviada", "gravarFalha"} => Envia(ComPc(o, x))) /\ Envia(ComCriadas(o, x))
  BY <1>1, <1>2, <1>4 DEF Envia
<1>5. ASSUME NEW q, NEW c, NEW n, o = EnviandoJob(p, q, c, n)
      PROVE  (x \in {"enviar", "gravarEnviada", "gravarFalha"} => Envia(ComPc(o, x))) /\ Envia(ComCriadas(o, x))
  BY <1>1, <1>3, <1>5 DEF Envia
<1> QED BY <1>1, <1>4, <1>5

LEMMA LivreOK == OperOK(Livre) /\ Livre.pc # "disparar"
BY DEF OperOK, Livre

LEMMA FicaLivre ==
  ASSUME TesourariaInv, NEW k \in Operarios, Passa(k, Livre), UNCHANGED <<relogio, gat, execs>>
  PROVE  TesourariaInv'
<1>1. PICK r : r = Livre
  OBVIOUS
<1>2. Passa(k, r) /\ OperOK(r) /\ r.pc # "disparar"
  BY <1>1, LivreOK
<1> QED BY <1>2, SoOperario

LEMMA OperarioOK ==
  ASSUME TesourariaInv, NEW k \in Operarios
  PROVE  OperOK(oper[k])
BY DEF TesourariaInv

LEMMA SegueOK ==
  ASSUME NEW k \in Operarios, Envia(oper[k]), NEW falhou, Segue(k, falhou)
  PROVE  \E r : Passa(k, r) /\ OperOK(r) /\ r.pc # "disparar"
<1>1. PICK o : o = oper[k]
  OBVIOUS
<1>2. PICK x, y : x = "enviar" /\ y = Tail(o.criadas)
  OBVIOUS
<1>3. Passa(k, [o EXCEPT !.pc = "enviar", !.criadas = Tail(o.criadas)]) \/ Passa(k, Livre)
  BY <1>1 DEF Segue
<1>4. ASSUME Passa(k, [o EXCEPT !.pc = "enviar", !.criadas = Tail(o.criadas)])
      PROVE  \E r : Passa(k, r) /\ OperOK(r) /\ r.pc # "disparar"
  <2>1. Passa(k, ComCriadas(ComPc(o, x), y))
    BY <1>2, <1>4, Zenon DEF ComCriadas, ComPc
  <2>2. Envia(ComPc(o, x))
    BY <1>1, <1>2, EnviaSegue
  <2>3. PICK m : m = ComPc(o, x)
    OBVIOUS
  <2>4. PICK r : r = ComCriadas(m, y)
    OBVIOUS
  <2>5. Envia(r)
    BY <2>2, <2>3, <2>4, EnviaSegue
  <2>6. Passa(k, r)
    BY <2>1, <2>3, <2>4
  <2> QED BY <2>5, <2>6, EnviaOK
<1> QED BY <1>3, <1>4, LivreOK

LEMMA PassoSegue ==
  ASSUME TesourariaInv, NEW k \in Operarios, Envia(oper[k]), NEW falhou, Segue(k, falhou),
         UNCHANGED <<relogio, gat, execs>>
  PROVE  TesourariaInv'
BY SegueOK, SoOperario

LEMMA PassoMuda ==
  ASSUME TesourariaInv, NEW k \in Operarios, Envia(oper[k]), NEW falhou, Segue(k, falhou),
         UNCHANGED <<relogio, gat>>, NEW c, NEW sit, Muda(c, sit)
  PROVE  TesourariaInv'
<1>1. PICK h : h = [e \in execs |-> IF Chave(e) = c THEN ComSitE(e, sit) ELSE e]
  OBVIOUS
<1>2. execs' = {IF Chave(e) = c THEN ComSitE(e, sit) ELSE e : e \in execs}
  BY Zenon DEF Muda, ComSitE
<1>3. execs' = {h[e] : e \in execs}
  BY <1>1, <1>2
<1>4. \A e \in execs : MesmoDisparo(e, h[e]) /\ RegistroOK(h[e])
  <2>1. \A e \in execs : RegistroOK(e)
    BY DEF TesourariaInv
  <2> QED BY <1>1, <2>1, RegistroMuda DEF MesmoDisparo
<1>5. PICK r : Passa(k, r) /\ OperOK(r) /\ r.pc # "disparar"
  BY SegueOK
<1> QED BY <1>3, <1>4, <1>5, MudaExecs

LEMMA PassoTick ==
  ASSUME TesourariaInv, NEW k \in Operarios, Tick(k)
  PROVE  TesourariaInv'
<1>1. PICK feitas, falhas : execs' = {Apurada(e, feitas, falhas) : e \in execs}
  BY DEF Tick
<1>2. PICK h : h = [e \in execs |-> Apurada(e, feitas, falhas)]
  OBVIOUS
<1>3. PICK x, y : x = "CONCLUIDA" /\ y = "FALHA"
  OBVIOUS
<1>4. \A e : Apurada(e, feitas, falhas) = (IF e \in feitas THEN ComSitE(e, x)
                                          ELSE IF e \in falhas THEN ComSitE(e, y) ELSE e)
  BY <1>3, Zenon DEF Apurada, ComSitE
<1>5. execs' = {h[e] : e \in execs}
  BY <1>1, <1>2
<1>6. \A e \in execs : h[e] = ComSitE(e, x) \/ h[e] = ComSitE(e, y) \/ h[e] = e
  BY <1>2, <1>4
<1>7. \A e \in execs : MesmoDisparo(e, h[e]) /\ RegistroOK(h[e])
  <2>1. \A e \in execs : RegistroOK(e)
    BY DEF TesourariaInv
  <2> QED BY <1>6, <2>1, RegistroMuda DEF MesmoDisparo
<1>8. PICK r : r = [pc |-> "avaliar"]
  OBVIOUS
<1>9. Passa(k, r) /\ OperOK(r) /\ r.pc # "disparar" /\ UNCHANGED <<relogio, gat>>
  BY <1>8 DEF Tick, OperOK
<1> QED BY <1>5, <1>7, <1>9, MudaExecs

LEMMA PassoManual ==
  ASSUME TesourariaInv, NEW k \in Operarios, NEW g \in NG, Manual(k, g)
  PROVE  TesourariaInv'
<1>1. PICK u, v : u = gat[g].ultima /\ v = Payout(g, caixa[Conta(g)])
  OBVIOUS
<1>2. PICK r : r = [pc |-> "manual", g |-> g, ultima |-> u, valor |-> v]
  OBVIOUS
<1>3. u \in Nat
  BY <1>1 DEF TesourariaInv
<1>4. Passa(k, r) /\ UNCHANGED <<relogio, gat, execs>>
  BY <1>1, <1>2 DEF Manual
<1>5. r.pc = "manual" /\ r = [pc |-> "manual", g |-> r.g, ultima |-> r.ultima, valor |-> r.valor]
      /\ r.g = g /\ r.ultima = u
  BY <1>2
<1>6. OperOK(r)
  BY <1>3, <1>5 DEF OperOK
<1> QED BY <1>4, <1>5, <1>6, SoOperario

LEMMA PassoCriarManual ==
  ASSUME TesourariaInv, NEW k \in Operarios, CriarManual(k)
  PROVE  TesourariaInv'
<1>1. oper[k].pc = "manual" /\ OperOK(oper[k]) /\ UNCHANGED relogio
  BY OperarioOK DEF CriarManual
<1>0. PICK g \in NG, u \in Nat : g = oper[k].g /\ u = oper[k].ultima
  BY <1>1 DEF OperOK, Livre
<1>2. PICK v : g = oper[k].g /\ u = oper[k].ultima /\ v = oper[k].valor
  BY <1>0
<1>3. PICK e : e = [g |-> g, origem |-> "MANUAL", marca |-> u, agora |-> relogio,
                    valor |-> v, sit |-> "PENDENTE"]
  OBVIOUS
<1>4. e = Execucao(oper[k].g, "MANUAL", oper[k].ultima, relogio, oper[k].valor)
  BY <1>2, <1>3 DEF Execucao, Marca
<1>5. ASSUME Passa(k, Livre), UNCHANGED <<gat, execs>> PROVE TesourariaInv'
  BY <1>1, <1>5, FicaLivre
<1>6. ASSUME ~Reservada(e), Cria(e), Passa(k, [pc |-> "enfileirar", c |-> Chave(e)]) PROVE TesourariaInv'
  <2>1. PICK r : r = [pc |-> "enfileirar", c |-> Chave(e)]
    OBVIOUS
  <2>2. Passa(k, r) /\ OperOK(r) /\ r.pc # "disparar"
    BY <1>6, <2>1 DEF OperOK
  <2>3. Formas
    BY PartesT
  <2>4. OperariosOK' /\ LidasOK' /\ Lidas' \subseteq Lidas
    BY <1>1, <2>2, <2>3, Operario
  <2>5. e.g = g /\ e.marca = u /\ e.agora = relogio /\ e.origem = "MANUAL"
        /\ e = [g |-> e.g, origem |-> e.origem, marca |-> e.marca, agora |-> e.agora,
                valor |-> e.valor, sit |-> e.sit]
    BY <1>3
  <2>6. relogio \in 1..relogio
    BY <2>3 DEF Formas, Tempo
  <2>7. RegistroOK(e) /\ Autoriza(e)
    BY <2>5, <2>6 DEF RegistroOK, Autoriza
  <2> QED BY <1>1, <1>6, <2>4, <2>7, PassoCria
<1> QED BY <1>4, <1>5, <1>6 DEF CriarManual

LEMMA PassoDisparar ==
  ASSUME TesourariaInv, NEW k \in Operarios, Disparar(k)
  PROVE  TesourariaInv'
<1>1. oper[k].pc = "disparar" /\ OperOK(oper[k]) /\ UNCHANGED relogio /\ Formas
  BY OperarioOK, PartesT DEF Disparar
<1>2. PICK o : o = oper[k]
  OBVIOUS
<1>3. PICK c, a, l : o = Disparando(c, a, l)
  <2>1. o = [pc |-> "disparar", criadas |-> o.criadas, agora |-> o.agora, lidas |-> o.lidas]
    BY <1>1, <1>2 DEF OperOK, Livre
  <2>2. o = Disparando(o.criadas, o.agora, o.lidas)
    BY <2>1 DEF Disparando
  <2> QED BY <2>2
<1>4. o.criadas = c /\ o.agora = a /\ o.lidas = l
  BY <1>3 DEF Disparando
<1>5. l \subseteq Lidas /\ \A e \in l : Vale(e) /\ e.agora = a
  BY <1>1, <1>2, <1>4 DEF Lidas, Formas, LidasOK
<1>6. ASSUME Passa(k, [pc |-> "enviar", quem |-> "tick", criadas |-> o.criadas]), UNCHANGED <<gat, execs>>
      PROVE  TesourariaInv'
  <2>1. PICK r : r = [pc |-> "enviar", quem |-> "tick", criadas |-> c]
    OBVIOUS
  <2>2. Passa(k, r) /\ Envia(r)
    BY <1>4, <1>6, <2>1 DEF Envia, Enviando
  <2> QED BY <1>1, <1>6, <2>2, EnviaOK, SoOperario
<1>7. ASSUME NEW e \in l, Passa(k, [o EXCEPT !.lidas = o.lidas \ {e}]), UNCHANGED <<gat, execs>>
      PROVE  TesourariaInv'
  <2>1. PICK m : m = l \ {e}
    OBVIOUS
  <2>2. PICK r : r = Disparando(c, a, m)
    OBVIOUS
  <2>3. Passa(k, ComLidas(o, m))
    BY <1>4, <1>7, <2>1, Zenon DEF ComLidas
  <2>4. ComLidas(o, m) = r
    BY <1>3, <2>2, DisparandoLidas
  <2>5. Passa(k, r)
    BY <2>3, <2>4
  <2>6. r = [pc |-> "disparar", criadas |-> r.criadas, agora |-> r.agora, lidas |-> r.lidas]
        /\ r.pc = "disparar" /\ r.lidas = m /\ r.agora = a
    BY <2>2 DEF Disparando
  <2>7. OperOK(r)
    BY <2>6 DEF OperOK
  <2> QED BY <1>1, <1>2, <1>4, <1>7, <2>1, <2>5, <2>6, <2>7, SoOperario
<1>8. ASSUME NEW e \in l, ~Reservada(e), Cria(e),
             Passa(k, [o EXCEPT !.criadas = Append(o.criadas, Chave(e)),
                       !.lidas = {f \in o.lidas : Conta(f.g) # Conta(e.g)}])
      PROVE  TesourariaInv'
  <2>1. PICK m, d : m = {f \in l : Conta(f.g) # Conta(e.g)} /\ d = Append(c, Chave(e))
    OBVIOUS
  <2>2. PICK r : r = Disparando(d, a, m)
    OBVIOUS
  <2>3. Passa(k, ComLidas(ComCriadas(o, d), m))
    <3>1. d = Append(o.criadas, Chave(e)) /\ m = {f \in o.lidas : Conta(f.g) # Conta(e.g)}
      BY <1>4, <2>1
    <3> QED BY <1>8, <3>1, Zenon DEF ComLidas, ComCriadas
  <2>4. ComLidas(ComCriadas(o, d), m) = r
    <3>1. ComCriadas(o, d) = Disparando(d, a, l)
      BY <1>3, DisparandoCriadas
    <3> QED BY <2>2, <3>1, DisparandoLidas
  <2>5. Passa(k, r)
    BY <2>3, <2>4
  <2>6. r = [pc |-> "disparar", criadas |-> r.criadas, agora |-> r.agora, lidas |-> r.lidas]
        /\ r.pc = "disparar" /\ r.lidas = m /\ r.agora = a
    BY <2>2 DEF Disparando
  <2>7. OperOK(r) /\ m \subseteq l
    BY <2>1, <2>6 DEF OperOK
  <2>8. OperariosOK' /\ LidasOK' /\ Lidas' \subseteq Lidas
    BY <1>1, <1>5, <2>5, <2>6, <2>7, Operario
  <2>9. RegistroOK(e) /\ Autoriza(e)
    BY <1>5 DEF Vale, Autoriza
  <2> QED BY <1>1, <1>8, <2>8, <2>9, PassoCria
<1> QED BY <1>2, <1>4, <1>6, <1>7, <1>8 DEF Disparar

LEMMA PassoPegarJob ==
  ASSUME TesourariaInv, NEW k \in Operarios, PegarJob(k)
  PROVE  TesourariaInv'
<1>1. PICK j : Passa(k, [pc |-> "enviar", quem |-> "job", criadas |-> <<j.c>>, resta |-> j.resta - 1])
  BY DEF PegarJob
<1>2. PICK c, n : c = <<j.c>> /\ n = j.resta - 1
  OBVIOUS
<1>3. PICK r : r = [pc |-> "enviar", quem |-> "job", criadas |-> c, resta |-> n]
  OBVIOUS
<1>4. Passa(k, r) /\ UNCHANGED <<relogio, gat, execs>>
  BY <1>1, <1>2, <1>3 DEF PegarJob
<1>5. Envia(r)
  BY <1>3 DEF Envia, EnviandoJob
<1> QED BY <1>4, <1>5, EnviaOK, SoOperario

LEMMA NoEnvio ==
  ASSUME TesourariaInv, NEW k \in Operarios, oper[k].pc \in {"enviar", "gravarEnviada", "gravarFalha"}
  PROVE  Envia(oper[k])
BY OperarioOK, OperEnvia

LEMMA PassoPular ==
  ASSUME TesourariaInv, NEW k \in Operarios, Pular(k)
  PROVE  TesourariaInv'
<1>1. PICK falhou : Segue(k, falhou)
  BY DEF Pular
<1>2. Envia(oper[k]) /\ UNCHANGED <<relogio, gat, execs>>
  BY NoEnvio DEF Pular
<1> QED BY <1>1, <1>2, PassoSegue

LEMMA PassoEnviar ==
  ASSUME TesourariaInv, NEW k \in Operarios, Enviar(k)
  PROVE  TesourariaInv'
<1>1. Envia(oper[k]) /\ UNCHANGED <<relogio, gat, execs>>
  BY NoEnvio DEF Enviar
<1>2. PICK o : o = oper[k]
  OBVIOUS
<1>3. \/ Passa(k, [o EXCEPT !.pc = "gravarEnviada"]) \/ Passa(k, [o EXCEPT !.pc = "gravarFalha"])
  BY <1>2 DEF Enviar
<1>4. PICK x \in {"gravarEnviada", "gravarFalha"} : Passa(k, ComPc(o, x))
  BY <1>3 DEF ComPc
<1>5. PICK r : r = ComPc(o, x)
  OBVIOUS
<1>6. Passa(k, r) /\ Envia(r)
  BY <1>1, <1>2, <1>4, <1>5, EnviaSegue
<1> QED BY <1>1, <1>6, EnviaOK, SoOperario

LEMMA PassoGravarEnvio ==
  ASSUME TesourariaInv, NEW k \in Operarios, GravarEnvio(k)
  PROVE  TesourariaInv'
<1>1. Envia(oper[k]) /\ UNCHANGED <<relogio, gat>>
  BY NoEnvio DEF GravarEnvio
<1>2. PICK c, sit, falhou : Muda(c, sit) /\ Segue(k, falhou)
  BY DEF GravarEnvio
<1> QED BY <1>1, <1>2, PassoMuda

LEMMA PassoMinuto == ASSUME TesourariaInv, Minuto PROVE TesourariaInv'
<1>1. Formas
  BY PartesT
<1>2. relogio \in Nat \ {0} /\ relogio' = relogio + 1 /\ UNCHANGED <<gat, execs, oper>>
  BY <1>1 DEF Minuto, Formas, Tempo
<1>3. Tempo' /\ relogio <= relogio' /\ \A x \in 0..relogio : x \in 0..relogio'
  BY <1>2 DEF Tempo
<1>4. GatOK'
  BY <1>1, <1>2, <1>3 DEF Formas, GatOK
<1>5. \A e : RegistroOK(e) => RegistroOK(e)'
  BY <1>2 DEF RegistroOK
<1>6. ExecsOK' /\ Unicas' /\ OperariosOK'
  BY <1>1, <1>2, <1>5 DEF Formas, ExecsOK, Unicas, OperariosOK
<1>7. LidasOK'
  <2>1. ASSUME NEW k \in Operarios, oper[k].pc = "disparar", NEW e \in oper[k].lidas
        PROVE  Vale(e)' /\ e.agora = oper[k].agora
    <3>1. Vale(e) /\ e.agora = oper[k].agora
      BY <1>1, <2>1 DEF Formas, LidasOK
    <3>2. RegistroOK(e)' /\ e.origem = "AUTOMATICO"
      BY <1>5, <3>1 DEF Vale
    <3>3. Gatilhos[e.g].intervalo = 0 \/ relogio + 1 - oper[k].agora < Gatilhos[e.g].intervalo
      BY <2>1 DEF Minuto
    <3>4. Gatilhos[e.g].intervalo = 0 \/ relogio' - e.agora < Gatilhos[e.g].intervalo
      <4>1. relogio' = relogio + 1 /\ e.agora = oper[k].agora
        BY <1>2, <3>1
      <4>2. PICK a \in Nat, d \in Nat, q \in Nat :
              a = e.agora /\ d = Gatilhos[e.g].intervalo /\ q = relogio
        BY <1>2, <3>1, Intervalos DEF Vale, RegistroOK
      <4>3. d = 0 \/ (q + 1) - a < d
        BY <3>3, <4>1, <4>2
      <4> QED BY <4>1, <4>2, <4>3
    <3> QED BY <3>1, <3>2, <3>4 DEF Vale
  <2> QED BY <1>2, <2>1 DEF LidasOK
<1>8. Formas'
  BY <1>3, <1>4, <1>6, <1>7 DEF Formas
<1>9. Herda
  BY <1>2 DEF Herda, Lidas, MesmoDisparo
<1> QED BY <1>2, <1>3, <1>8, <1>9, JuntaT

LEMMA QuietoT == ASSUME TesourariaInv, UNCHANGED <<relogio, gat, execs, oper>> PROVE TesourariaInv'
<1>1. Formas
  BY PartesT
<1>2. Tempo' /\ GatOK' /\ ExecsOK' /\ Unicas'
  BY <1>1, FormasFicam
<1>3. OperariosOK' /\ LidasOK'
  BY <1>1 DEF Formas, OperariosOK, LidasOK, Vale, RegistroOK
<1>4. Herda
  BY DEF Herda, Lidas, MesmoDisparo
<1>5. relogio <= relogio'
  BY <1>1 DEF Formas, Tempo
<1> QED BY <1>2, <1>3, <1>4, <1>5, JuntaT DEF Formas

LEMMA PassoLigar == ASSUME TesourariaInv, NEW g \in NG, Ligar(g) PROVE TesourariaInv'
<1>1. Formas /\ UNCHANGED <<relogio, execs, oper>>
  BY PartesT DEF Ligar
<1>0. PICK u \in 0..relogio : u = gat[g].ultima /\ gat[g] = [ultima |-> gat[g].ultima, ativo |-> gat[g].ativo]
  BY <1>1 DEF Formas, GatOK
<1>2. PICK b : gat[g] = [ultima |-> u, ativo |-> b]
  BY <1>0
<1>3. PICK x : x = ~b
  OBVIOUS
<1>4. PICK r : r = [ultima |-> u, ativo |-> x]
  OBVIOUS
<1>5. PoeGat(g, r)
  <2>1. x = ~gat[g].ativo
    BY <1>2, <1>3
  <2>2. gat' = [gat EXCEPT ![g] = ComAtivo(gat[g], x)]
    BY <2>1, Zenon DEF Ligar, ComAtivo
  <2>3. ComAtivo(gat[g], x) = r
    BY <1>2, <1>4, AtivoMuda
  <2> QED BY <2>2, <2>3 DEF PoeGat
<1>6. Tempo' /\ relogio <= relogio'
  BY <1>1 DEF Formas, Tempo
<1>7. GatOK' /\ gat'[g].ultima = u /\ \A h \in NG \ {g} : gat'[h] = gat[h]
  BY <1>1, <1>4, <1>5, <1>6, GatVira
<1>8. \A h \in NG : gat'[h].ultima = gat[h].ultima
  BY <1>2, <1>7
<1>9. OperariosOK' /\ LidasOK' /\ ExecsOK' /\ Unicas'
  BY <1>1 DEF Formas, OperariosOK, LidasOK, ExecsOK, Unicas, Vale, RegistroOK
<1>10. Formas'
  BY <1>6, <1>7, <1>9 DEF Formas
<1>11. Herda
  BY <1>1 DEF Herda, Lidas, MesmoDisparo
<1> QED BY <1>6, <1>8, <1>10, <1>11, JuntaT

LEMMA PassoT == ASSUME TesourariaInv, PassoTesouraria PROVE TesourariaInv'
<1>1. ASSUME NEW k \in Operarios, PassoOperario(k) PROVE TesourariaInv'
  <2>1. ASSUME Tick(k) \/ Avaliar(k) \/ Disparar(k) \/ CriarManual(k) PROVE TesourariaInv'
    BY <2>1, PassoTick, PassoAvaliar, PassoDisparar, PassoCriarManual
  <2>2. ASSUME Enfileirar(k) \/ Parar(k) \/ Morrer(k) PROVE TesourariaInv'
    <3>1. Passa(k, Livre) /\ UNCHANGED <<relogio, gat, execs>>
      BY <2>2 DEF Enfileirar, Parar, Morrer
    <3> QED BY <3>1, FicaLivre
  <2>3. ASSUME NEW g \in NG, Manual(k, g) PROVE TesourariaInv'
    BY <2>3, PassoManual
  <2>4. ASSUME PegarJob(k) \/ Pular(k) \/ Enviar(k) \/ GravarEnvio(k) PROVE TesourariaInv'
    BY <2>4, PassoPegarJob, PassoPular, PassoEnviar, PassoGravarEnvio
  <2> QED BY <1>1, <2>1, <2>2, <2>3, <2>4 DEF PassoOperario
<1>2. ASSUME NEW a \in Adqs, NEW v, Entra(a, v) PROVE TesourariaInv'
  BY <1>2, QuietoT DEF Entra
<1>3. ASSUME NEW g \in NG, Ligar(g) PROVE TesourariaInv'
  BY <1>3, PassoLigar
<1> QED BY <1>1, <1>2, <1>3, PassoMinuto DEF PassoTesouraria

LEMMA InicioT == TesourariaInit => TesourariaInv
<1> SUFFICES ASSUME TesourariaInit PROVE TesourariaInv
  OBVIOUS
<1>1. execs = {} /\ Lidas = {}
  BY DEF TesourariaInit, Lidas, Livre
<1>2. \A g \in NG : Separados(g) /\ Acompanha(g)
  <2>1. \A g \in NG : Disparos(g) = {}
    BY <1>1 DEF Disparos
  <2> QED BY <2>1 DEF Separados, Acompanha
<1>3. Tempo /\ GatOK
  BY DEF TesourariaInit, Tempo, GatOK, Nunca
<1>4. ExecsOK /\ Unicas
  BY <1>1 DEF ExecsOK, Unicas
<1>5. OperariosOK /\ LidasOK
  <2>1. DOMAIN oper = Operarios /\ \A k \in Operarios : oper[k] = Livre
    BY DEF TesourariaInit
  <2> QED BY <2>1, LivreOK DEF OperariosOK, LidasOK
<1> QED BY <1>2, <1>3, <1>4, <1>5, PartesT DEF Formas

-----------------------------------------------------------------------------
(* The three together.                                                      *)
AdquirenteInv == VitrineInv /\ CobrancaInv /\ TesourariaInv

LEMMA Comeca == Init => AdquirenteInv
BY InicioV, InicioC, InicioT DEF Init, AdquirenteInv

LEMMA Mantem ==
  ASSUME AdquirenteInv, [Next]_todas
  PROVE  AdquirenteInv'
<1>1. VitrineInv /\ CobrancaInv /\ TesourariaInv
  BY DEF AdquirenteInv
<1>2. ASSUME PassoAdmin \/ \E s \in Sessoes : PassoVitrine(s), UNCHANGED <<cobranca, tesouraria>>
      PROVE  AdquirenteInv'
  <2>1. VitrineInv' /\ CobrancaInv'
    BY <1>1, <1>2, PassoV, QuietoC
  <2>2. TesourariaInv'
    <3>1. UNCHANGED <<relogio, gat, execs, oper>>
      BY <1>2 DEF tesouraria
    <3> QED BY <1>1, <3>1, QuietoT
  <2> QED BY <2>1, <2>2 DEF AdquirenteInv
<1>3. ASSUME PassoCobranca, UNCHANGED tesouraria PROVE AdquirenteInv'
  <2>1. UNCHANGED vitrine
    BY <1>3 DEF PassoCobranca, PassoChamada, Chamar, CriarVenda, Tentar, Vincular, RegistrarFalha,
       Desistir, TrocarConta, GravarQr, Cair, Vencer, Pagar, Postback, Conciliar
  <2>2. UNCHANGED <<relogio, gat, execs, oper>>
    BY <1>3 DEF tesouraria
  <2>3. CobrancaInv'
    BY <1>1, <1>3, PassoC
  <2> QED BY <1>1, <2>1, <2>2, <2>3, QuietoV, QuietoT DEF AdquirenteInv
<1>4. ASSUME PassoTesouraria, UNCHANGED cobranca PROVE AdquirenteInv'
  <2>1. UNCHANGED vitrine
    BY <1>4 DEF PassoTesouraria, PassoOperario, Tick, Avaliar, Disparar, CriarManual, Enfileirar,
       Manual, PegarJob, Parar, Pular, Enviar, GravarEnvio, Morrer, Minuto, Entra, Ligar
  <2>2. TesourariaInv' /\ CobrancaInv'
    BY <1>1, <1>4, PassoT, QuietoC
  <2> QED BY <1>1, <2>1, <2>2, QuietoV DEF AdquirenteInv
<1>5. ASSUME UNCHANGED todas PROVE AdquirenteInv'
  <2>1. UNCHANGED <<vitrine, cobranca, relogio, gat, execs, oper>>
    BY <1>5 DEF todas, tesouraria
  <2> QED BY <1>1, <2>1, QuietoV, QuietoC, QuietoT DEF AdquirenteInv
<1> QED BY <1>2, <1>3, <1>4, <1>5 DEF Next

(* What a handler is about to commit, what an adquirente charged and what a *)
(* worker read of a trigger hold good whatever the others did since: the    *)
(* three invariants, for the vitrine of adquirentes, criarCobranca and the  *)
(* automatic withdrawals of the treasury at once.                           *)
THEOREM AdquirenteIntegro == Spec => []AdquirenteInv
BY Comeca, Mantem, PTL DEF Spec

(* A substitution moves everybody or nobody (aplicarSubstituicoes, called   *)
(* by revogar, situacao and editarVitrine): for any number of adquirentes,  *)
(* clients and handlers at work, a commit that takes an adquirente from     *)
(* some and moves anybody off it leaves each of its clients on one he may   *)
(* use, those who came to it since the handler read included.               *)
THEOREM TodosOuNinguem == Spec => RemanejaTudoOuNada
<1>1. AdquirenteInv /\ [Next]_todas => [TudoOuNada]_vitrine
  <2> SUFFICES ASSUME AdquirenteInv, Next PROVE TudoOuNada \/ UNCHANGED vitrine
    BY DEF todas, vitrine
  <2>1. VitrineInv
    BY DEF AdquirenteInv
  <2>2. ASSUME PassoAdmin \/ \E s \in Sessoes : PassoVitrine(s) PROVE TudoOuNada
    BY <2>1, <2>2, PassoV
  <2>3. ASSUME PassoCobranca PROVE UNCHANGED vitrine
    BY <2>3 DEF PassoCobranca, PassoChamada, Chamar, CriarVenda, Tentar, Vincular, RegistrarFalha,
       Desistir, TrocarConta, GravarQr, Cair, Vencer, Pagar, Postback, Conciliar
  <2>4. ASSUME PassoTesouraria PROVE UNCHANGED vitrine
    BY <2>4 DEF PassoTesouraria, PassoOperario, Tick, Avaliar, Disparar, CriarManual, Enfileirar,
       Manual, PegarJob, Parar, Pular, Enviar, GravarEnvio, Morrer, Minuto, Entra, Ligar
  <2> QED BY <2>2, <2>3, <2>4 DEF Next
<1> QED BY <1>1, AdquirenteIntegro, PTL DEF Spec, RemanejaTudoOuNada

(* A code that criarCobranca answered is of a charge that exists, at the    *)
(* account of its sale and under an id its attempts know, and a sale is     *)
(* credited only for a payment at that account, over every contingency,     *)
(* time-out, crash and postback.                                            *)
THEOREM CobrancaBate == Spec => []CobrancaCasa
<1>1. AdquirenteInv => CobrancaCasa
  BY DEF AdquirenteInv, CobrancaInv
<1> QED BY <1>1, AdquirenteIntegro, PTL

(* Two automatic dispatches of a trigger are its interval apart, for any    *)
(* number of workers, triggers and intervals: the key criarExecucao         *)
(* reserves is of the last dispatch that was read.                          *)
THEOREM JanelaDeDisparo == Spec => []UmDisparoPorJanela
<1>1. AdquirenteInv => UmDisparoPorJanela
  <2> SUFFICES ASSUME TesourariaInv PROVE UmDisparoPorJanela
    BY DEF AdquirenteInv
  <2>1. Formas /\ \A g \in NG : Separados(g)
    BY PartesT
  <2> SUFFICES ASSUME NEW e \in execs, NEW f \in execs, e # f, e.g = f.g,
                      {e.origem, f.origem} = {"AUTOMATICO"}, e.agora <= f.agora
               PROVE  f.agora - e.agora >= Gatilhos[e.g].intervalo
    BY DEF UmDisparoPorJanela
  <2>2. e.origem = "AUTOMATICO" /\ f.origem = "AUTOMATICO"
    OBVIOUS
  <2>3. PICK x, y : x = <<e.marca, e.agora>> /\ y = <<f.marca, f.agora>>
    OBVIOUS
  <2>4. x \in Disparos(e.g) /\ y \in Disparos(e.g)
    BY <2>2, <2>3, EDisparo
  <2>5. e.marca # f.marca
    BY <2>1, <2>2 DEF Formas, Unicas, Chave
  <2>6. e.g \in NG
    BY <2>1 DEF Formas, ExecsOK, RegistroOK
  <2> QED BY <2>1, <2>3, <2>4, <2>5, <2>6 DEF Separados
<1> QED BY <1>1, AdquirenteIntegro, PTL
=============================================================================
