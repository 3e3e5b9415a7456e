--------------------------- MODULE EntregaProofs ---------------------------
(* From the outbox to the merchant, for any number of events, destinations, *)
(* apps, workers and jobs: EntregaInv is inductive, and with it the claim   *)
(* of an event is given once.                                               *)
EXTENDS Entrega, SomasProofs

LEMMA MinDe == ASSUME NEW S, S \subseteq Nat, S # {} PROVE Min(S) \in S
BY TemMenor DEF Min

LEMMA MaxDe == ASSUME NEW S, IsFiniteSet(S), S \subseteq Nat, S # {} PROVE Max(S) \in S
BY TemMaior DEF Max

LEMMA EventosFinitos ==
  /\ Eventos \subseteq Nat
  /\ \A S \in SUBSET Eventos : IsFiniteSet(S)
  /\ \A S \in SUBSET Eventos : S # {} => Min(S) \in S /\ Max(S) \in S
<1>1. Eventos \subseteq Nat /\ IsFiniteSet(Eventos)
  BY EntregaAssumption
<1>2. ASSUME NEW S \in SUBSET Eventos PROVE IsFiniteSet(S)
  BY <1>1, FS_Subset
<1>3. ASSUME NEW S \in SUBSET Eventos, S # {} PROVE Min(S) \in S /\ Max(S) \in S
  <2>1. S \subseteq Nat
    BY <1>1
  <2> QED BY <1>2, <1>3, <2>1, MinDe, MaxDe
<1> QED BY <1>1, <1>2, <1>3

LEMMA JobsFinitos ==
  /\ IsFiniteSet(Jobs) /\ Jobs \subseteq Nat
  /\ \A e : IsFiniteSet(JobsDe(e)) /\ Cardinality(JobsDe(e)) \in Nat
<1>1. IsFiniteSet(Jobs) /\ Jobs \subseteq Nat
  <2>1. 1 \in Int /\ MaxJobs \in Int
    BY EntregaAssumption
  <2> QED BY <2>1, FS_Interval DEF Jobs
<1>2. ASSUME NEW e PROVE IsFiniteSet(JobsDe(e)) /\ Cardinality(JobsDe(e)) \in Nat
  <2>1. JobsDe(e) \subseteq Jobs
    BY DEF JobsDe
  <2>2. IsFiniteSet(JobsDe(e))
    BY <1>1, <2>1, FS_Subset
  <2> QED BY <2>2, FS_CardinalityType
<1> QED BY <1>1, <1>2

-----------------------------------------------------------------------------
(* Jobs keep their event; a new one takes a free place.                     *)
Vazio == [sit |-> "nenhum"]
ComSit(c, x) == [c EXCEPT !.sit = x]
ComTent(c, n) == [c EXCEPT !.tent = n]
ComDestinos(c, x) == [c EXCEPT !.destinos = x]
ComErro(c, y) == [c EXCEPT !.erro = y]

LEMMA JobMuda ==
  ASSUME NEW c \in JobDe
  PROVE  /\ \A x \in {"espera", "ativo", "feito", "falhou"} : ComSit(c, x) \in JobDe /\ ComSit(c, x).ev = c.ev
         /\ \A n \in Nat : ComTent(c, n) \in JobDe /\ ComTent(c, n).ev = c.ev
<1>1. PICK a, b, d : /\ c = [sit |-> a, ev |-> b, tent |-> d]
                     /\ a \in {"espera", "ativo", "feito", "falhou"} /\ b \in Eventos /\ d \in Nat
  BY DEF JobDe
<1>2. ASSUME NEW x \in {"espera", "ativo", "feito", "falhou"}
      PROVE  ComSit(c, x) \in JobDe /\ ComSit(c, x).ev = c.ev
  <2>1. ComSit(c, x) = [sit |-> x, ev |-> b, tent |-> d]
    BY <1>1 DEF ComSit
  <2> QED BY <1>1, <2>1 DEF JobDe
<1>3. ASSUME NEW n \in Nat
      PROVE  ComTent(c, n) \in JobDe /\ ComTent(c, n).ev = c.ev
  <2>1. ComTent(c, n) = [sit |-> a, ev |-> b, tent |-> n]
    BY <1>1 DEF ComTent
  <2> QED BY <1>1, <2>1 DEF JobDe
<1> QED BY <1>2, <1>3

LEMMA MaisUmaMuda ==
  ASSUME NEW c \in JobDe
  PROVE  MaisUma(c) \in JobDe /\ MaisUma(c).ev = c.ev
<1>1. c.tent \in Nat
  BY DEF JobDe
<1>2. PICK n, d : n \in Nat /\ n = c.tent + 1 /\ d = ComSit(c, "espera")
  BY <1>1
<1>3. d \in JobDe /\ d.ev = c.ev
  BY <1>2, JobMuda
<1>4. ComTent(d, n) \in JobDe /\ ComTent(d, n).ev = d.ev
  BY <1>2, <1>3, JobMuda
<1>5. ComSit(c, "falhou") \in JobDe /\ ComSit(c, "falhou").ev = c.ev
  BY JobMuda
<1>6. MaisUma(c) = ComTent(d, n) \/ MaisUma(c) = ComSit(c, "falhou")
  BY <1>2 DEF MaisUma, ComTent, ComSit
<1> QED BY <1>3, <1>4, <1>5, <1>6

(* What a step does to the jobs of each event.                              *)
MesmosJobs == \A e : JobsDe(e)' = JobsDe(e)
MaisUmJob(e) ==
  /\ \A f : f # e => JobsDe(f)' = JobsDe(f)
  /\ \E k : k \notin JobsDe(e) /\ JobsDe(e)' = JobsDe(e) \cup {k}

LEMMA TrocaJob ==
  ASSUME EntregaInv, NEW j \in Jobs, NEW c \in JobDe, job[j] # Vazio, c.ev = job[j].ev,
         job' = [job EXCEPT ![j] = c]
  PROVE  /\ DOMAIN job' = Jobs /\ \A i \in Jobs : job'[i] = Vazio \/ job'[i] \in JobDe
         /\ \A i \in Jobs : job[i].sit # "nenhum" => job'[i].sit # "nenhum"
         /\ MesmosJobs
<1>1. DOMAIN job = Jobs /\ \A i \in Jobs : job[i] = Vazio \/ job[i] \in JobDe
  BY DEF EntregaInv, Vazio
<1>2. job'[j] = c /\ \A i \in Jobs \ {j} : job'[i] = job[i]
  BY <1>1
<1>3. \A d \in JobDe : d.sit # "nenhum"
  BY DEF JobDe
<1>4. job[j].sit # "nenhum" /\ c.sit # "nenhum"
  BY <1>1, <1>3
<1>5. DOMAIN job' = Jobs
  BY <1>1
<1>6. \A i \in Jobs : (job'[i].sit # "nenhum" <=> job[i].sit # "nenhum") /\ (job[i].sit # "nenhum" => job'[i].ev = job[i].ev)
  BY <1>2, <1>4
<1>7. MesmosJobs
  BY <1>6 DEF MesmosJobs, JobsDe
<1> QED BY <1>1, <1>2, <1>5, <1>6, <1>7

LEMMA NasceJob ==
  ASSUME EntregaInv, NEW e \in Eventos, NovoJob(e)
  PROVE  /\ DOMAIN job' = Jobs /\ \A i \in Jobs : job'[i] = Vazio \/ job'[i] \in JobDe
         /\ \A i \in Jobs : job[i].sit # "nenhum" => job'[i].sit # "nenhum"
         /\ MaisUmJob(e)
<1>1. DOMAIN job = Jobs /\ \A i \in Jobs : job[i] = Vazio \/ job[i] \in JobDe
  BY DEF EntregaInv, Vazio
<1>2. PICK livres : livres = {j \in Jobs : job[j].sit = "nenhum"}
  OBVIOUS
<1>3. livres # {} /\ livres \subseteq Nat
  BY <1>2, JobsFinitos DEF NovoJob
<1>4. Min(livres) \in livres
  BY <1>3, MinDe
<1>5. PICK k \in Jobs : k = Min(livres) /\ job[k].sit = "nenhum"
  BY <1>2, <1>4
<1>6. PICK c : c = [sit |-> "espera", ev |-> e, tent |-> 0]
  OBVIOUS
<1>7. job' = [job EXCEPT ![k] = c]
  BY <1>2, <1>5, <1>6 DEF NovoJob
<1>8. c \in JobDe /\ c.sit = "espera" /\ c.ev = e
  BY <1>6 DEF JobDe
<1>9. DOMAIN job' = Jobs /\ job'[k] = c /\ \A i \in Jobs \ {k} : job'[i] = job[i]
  BY <1>1, <1>7
<1>10. k \notin JobsDe(e) /\ JobsDe(e)' = JobsDe(e) \cup {k}
  BY <1>5, <1>8, <1>9 DEF JobsDe
<1>11. \A f : f # e => JobsDe(f)' = JobsDe(f)
  BY <1>5, <1>8, <1>9 DEF JobsDe
<1> QED BY <1>1, <1>5, <1>8, <1>9, <1>10, <1>11 DEF MaisUmJob

LEMMA Contagem ==
  /\ \A e : (MesmosJobs => Cardinality(JobsDe(e))' = Cardinality(JobsDe(e)))
  /\ \A e : MaisUmJob(e) =>
       /\ Cardinality(JobsDe(e))' = Cardinality(JobsDe(e)) + 1
       /\ \A f : f # e => Cardinality(JobsDe(f))' = Cardinality(JobsDe(f))
<1>1. ASSUME NEW e, MesmosJobs PROVE Cardinality(JobsDe(e))' = Cardinality(JobsDe(e))
  BY <1>1 DEF MesmosJobs
<1>2. ASSUME NEW e, MaisUmJob(e)
      PROVE  /\ Cardinality(JobsDe(e))' = Cardinality(JobsDe(e)) + 1
             /\ \A f : f # e => Cardinality(JobsDe(f))' = Cardinality(JobsDe(f))
  <2>1. PICK k : k \notin JobsDe(e) /\ JobsDe(e)' = JobsDe(e) \cup {k}
    BY <1>2 DEF MaisUmJob
  <2>2. IsFiniteSet(JobsDe(e))
    BY JobsFinitos
  <2>3. PICK S, n : S = JobsDe(e) /\ n = Cardinality(JobsDe(e))
    OBVIOUS
  <2>4. Cardinality(S \cup {k}) = n + 1
    BY <2>1, <2>2, <2>3, FS_AddElement
  <2> QED BY <1>2, <2>1, <2>3, <2>4 DEF MaisUmJob
<1> QED BY <1>1, <1>2

-----------------------------------------------------------------------------
(* The workers of the queue: a worker holds a job that exists.              *)
JobsOK == DOMAIN job = Jobs /\ \A j \in Jobs : job[j] = Vazio \/ job[j] \in JobDe
EntOK ==
  /\ DOMAIN ent = Entregadores
  /\ \A w \in Entregadores : ent[w] # Ocioso =>
       /\ ent[w] = [pc |-> "entregar", j |-> ent[w].j, destinos |-> ent[w].destinos,
                    erro |-> ent[w].erro]
       /\ ent[w].j \in Jobs /\ job[ent[w].j].sit # "nenhum"

LEMMA Partes == EntregaInv => JobsOK /\ EntOK
BY DEF EntregaInv, JobsOK, EntOK, Vazio

LEMMA TrabalhoParado ==
  ASSUME EntregaInv, UNCHANGED <<job, ent>>
  PROVE  JobsOK' /\ EntOK' /\ MesmosJobs
<1>1. JobsOK /\ EntOK
  BY Partes
<1>2. JobsOK' /\ EntOK'
  BY <1>1 DEF JobsOK, EntOK
<1>3. MesmosJobs
  BY DEF MesmosJobs, JobsDe
<1> QED BY <1>2, <1>3

LEMMA EntFica ==
  ASSUME EntregaInv, UNCHANGED ent,
         \A i \in Jobs : job[i].sit # "nenhum" => job'[i].sit # "nenhum"
  PROVE  EntOK'
<1>1. EntOK
  BY Partes
<1> QED BY <1>1 DEF EntOK

LEMMA EntLarga ==
  ASSUME EntregaInv, NEW w \in Entregadores, ent' = [ent EXCEPT ![w] = Ocioso],
         \A i \in Jobs : job[i].sit # "nenhum" => job'[i].sit # "nenhum"
  PROVE  EntOK'
<1>1. EntOK
  BY Partes
<1>2. DOMAIN ent' = Entregadores /\ ent'[w] = Ocioso /\ \A v \in Entregadores \ {w} : ent'[v] = ent[v]
  BY <1>1 DEF EntOK
<1> QED BY <1>1, <1>2 DEF EntOK

LEMMA PassoNasce ==
  ASSUME EntregaInv, NEW e \in Eventos, NovoJob(e), UNCHANGED ent
  PROVE  JobsOK' /\ EntOK' /\ MaisUmJob(e)
<1>1. JobsOK' /\ MaisUmJob(e)
  BY NasceJob DEF JobsOK
<1>2. \A i \in Jobs : job[i].sit # "nenhum" => job'[i].sit # "nenhum"
  BY NasceJob
<1>3. EntOK'
  BY <1>2, EntFica
<1> QED BY <1>1, <1>3

LEMMA PassoIniciar ==
  ASSUME EntregaInv, NEW w \in Entregadores, NEW j \in Jobs, IniciarEntrega(w, j)
  PROVE  JobsOK' /\ EntOK' /\ MesmosJobs
<1>1. JobsOK /\ EntOK
  BY Partes
<1>2. job[j] \in JobDe /\ job[j] # Vazio
  <2>1. job[j].sit = "espera"
    BY DEF IniciarEntrega
  <2> QED BY <1>1, <2>1 DEF JobsOK, Vazio
<1>3. PICK x \in {"ativo", "feito"} :
        /\ job' = [job EXCEPT ![j] = ComSit(@, x)]
        /\ \/ UNCHANGED ent
           \/ ent' = [ent EXCEPT ![w] = [pc |-> "entregar", j |-> j,
                                          destinos |-> Destinos, erro |-> FALSE]]
  BY DEF IniciarEntrega, ComSit
<1>4. PICK c \in JobDe : c = ComSit(job[j], x) /\ c.ev = job[j].ev
  BY <1>2, JobMuda
<1>5. job' = [job EXCEPT ![j] = c]
  BY <1>3, <1>4
<1>6. /\ JobsOK' /\ MesmosJobs
      /\ \A i \in Jobs : job[i].sit # "nenhum" => job'[i].sit # "nenhum"
  BY <1>2, <1>4, <1>5, TrocaJob DEF JobsOK
<1>7. job[j].sit # "nenhum"
  BY <1>2 DEF JobDe
<1>8. ASSUME ent' # ent PROVE EntOK'
  <2>1. ent' = [ent EXCEPT ![w] = [pc |-> "entregar", j |-> j, destinos |-> Destinos, erro |-> FALSE]]
    BY <1>3, <1>8
  <2>2. /\ DOMAIN ent' = Entregadores /\ \A v \in Entregadores \ {w} : ent'[v] = ent[v]
        /\ ent'[w] = [pc |-> "entregar", j |-> j, destinos |-> Destinos, erro |-> FALSE]
    BY <1>1, <2>1 DEF EntOK
  <2>3. ent'[w].j = j
    BY <2>2
  <2> QED BY <1>1, <1>6, <1>7, <2>2, <2>3 DEF EntOK
<1>9. ASSUME ent' = ent PROVE EntOK'
  BY <1>6, <1>9, EntFica
<1> QED BY <1>6, <1>8, <1>9

LEMMA PassoLarga ==
  ASSUME EntregaInv, NEW w \in Entregadores, ent[w] # Ocioso, NEW c,
         c = MaisUma(job[ent[w].j]) \/ c = ComSit(job[ent[w].j], "feito"),
         job' = [job EXCEPT ![ent[w].j] = c],
         ent' = [ent EXCEPT ![w] = Ocioso]
  PROVE  JobsOK' /\ EntOK' /\ MesmosJobs
<1>1. JobsOK /\ EntOK
  BY Partes
<1>2. PICK j \in Jobs : j = ent[w].j /\ job[j].sit # "nenhum"
  BY <1>1 DEF EntOK
<1>3. job[j] \in JobDe /\ job[j] # Vazio
  BY <1>1, <1>2 DEF JobsOK, Vazio
<1>4. c \in JobDe /\ c.ev = job[j].ev
  BY <1>2, <1>3, JobMuda, MaisUmaMuda
<1>5. job' = [job EXCEPT ![j] = c]
  BY <1>2
<1>6. /\ JobsOK' /\ MesmosJobs
      /\ \A i \in Jobs : job[i].sit # "nenhum" => job'[i].sit # "nenhum"
  BY <1>3, <1>4, <1>5, TrocaJob DEF JobsOK
<1> QED BY <1>6, EntLarga

LEMMA PassoEntregar ==
  ASSUME EntregaInv, NEW w \in Entregadores, NEW d \in Destinos, Entregar(w, d)
  PROVE  JobsOK' /\ EntOK' /\ MesmosJobs
<1>1. JobsOK /\ EntOK
  BY Partes
<1>2. UNCHANGED job
  BY DEF Entregar
<1>3. MesmosJobs /\ JobsOK'
  BY <1>1, <1>2 DEF MesmosJobs, JobsDe, JobsOK
<1>4. PICK ok \in BOOLEAN : ent' = [ent EXCEPT ![w] = Segue(@, d, ok)]
  BY DEF Entregar
<1>5. ent[w] # Ocioso
  BY DEF Entregar, Ocioso
<1>6. PICK j, ds, er : /\ ent[w] = [pc |-> "entregar", j |-> j, destinos |-> ds, erro |-> er]
                       /\ j \in Jobs /\ job[j].sit # "nenhum"
  BY <1>1, <1>5 DEF EntOK
<1>7. PICK ds2, er2 : Segue(ent[w], d, ok) = [pc |-> "entregar", j |-> j, destinos |-> ds2, erro |-> er2]
  <2>1. PICK x, y : x = ent[w].destinos \ {d} /\ y = (ent[w].erro \/ ~ok)
    OBVIOUS
  <2>2. Segue(ent[w], d, ok) = ComErro(ComDestinos(ent[w], x), y)
    BY <2>1, Zenon DEF Segue, ComErro, ComDestinos
  <2>3. ComDestinos(ent[w], x) = [pc |-> "entregar", j |-> j, destinos |-> x, erro |-> er]
    BY <1>6 DEF ComDestinos
  <2>4. ComErro(ComDestinos(ent[w], x), y) = [pc |-> "entregar", j |-> j, destinos |-> x, erro |-> y]
    BY <2>3 DEF ComErro
  <2> QED BY <2>2, <2>4
<1>8. /\ DOMAIN ent' = Entregadores /\ \A v \in Entregadores \ {w} : ent'[v] = ent[v]
      /\ ent'[w] = [pc |-> "entregar", j |-> j, destinos |-> ds2, erro |-> er2]
  BY <1>1, <1>4, <1>7 DEF EntOK
<1>9. ent'[w].j = j /\ ent'[w].destinos = ds2 /\ ent'[w].erro = er2
  BY <1>8
<1> QED BY <1>1, <1>2, <1>3, <1>6, <1>8, <1>9 DEF EntOK

-----------------------------------------------------------------------------
(* Who may make the job of an event: nobody yet, or the one that holds the  *)
(* claim.  No step gives the right a second time.                           *)
PosseOK ==
  /\ outbox \in [Eventos -> {"nenhum", "novo", "publicado"}]
  /\ DOMAIN pub = Publicadores /\ \A p \in Publicadores : PubOK(pub[p])
  /\ \A p \in Publicadores : \A e \in Meus(p) : outbox[e] = "publicado"
  /\ \A p, q \in Publicadores : p # q => Meus(p) \cap Meus(q) = {}
Livre(e) == outbox[e] # "publicado" \/ EmMaos(e)
LivreFica == \A e \in Eventos : Livre(e)' => Livre(e)

LEMMA PosseAgora == EntregaInv => PosseOK
BY DEF EntregaInv, PosseOK, TypeOK

LEMMA PosseParada ==
  ASSUME EntregaInv, UNCHANGED pub, outbox' \in [Eventos -> {"nenhum", "novo", "publicado"}],
         \A e \in Eventos : (outbox[e] = "publicado" <=> outbox'[e] = "publicado")
  PROVE  PosseOK' /\ LivreFica
<1>1. PosseOK
  BY PosseAgora
<1>2. \A p \in Publicadores : Meus(p) \subseteq Eventos
  BY <1>1 DEF PosseOK, PubOK, Meus, Ocioso
<1>3. \A p \in Publicadores : Meus(p)' = Meus(p)
  BY DEF Meus
<1>4. PosseOK'
  BY <1>1, <1>2, <1>3 DEF PosseOK
<1>5. \A e \in Eventos : EmMaos(e)' => EmMaos(e)
  BY <1>3 DEF EmMaos
<1> QED BY <1>4, <1>5 DEF LivreFica, Livre

LEMMA MudaPub ==
  ASSUME EntregaInv, NEW p \in Publicadores, NEW r, PubOK(r), pub' = [pub EXCEPT ![p] = r],
         NEW M, M = (IF r = Ocioso THEN {} ELSE r.meus)
  PROVE  /\ DOMAIN pub' = Publicadores /\ \A q \in Publicadores : PubOK(pub'[q])
         /\ Meus(p)' = M
         /\ \A q \in Publicadores : q # p => Meus(q)' = Meus(q)
<1>1. DOMAIN pub = Publicadores /\ \A q \in Publicadores : PubOK(pub[q])
  BY DEF EntregaInv
<1>2. DOMAIN pub' = Publicadores /\ pub'[p] = r /\ \A q \in Publicadores \ {p} : pub'[q] = pub[q]
  BY <1>1
<1>3. \A q \in Publicadores : PubOK(pub'[q])
  BY <1>1, <1>2
<1>4. Meus(p)' = M
  BY <1>2 DEF Meus
<1>5. \A q \in Publicadores : q # p => Meus(q)' = Meus(q)
  BY <1>2 DEF Meus
<1> QED BY <1>2, <1>3, <1>4, <1>5

(* A publisher that gives events up keeps everything in order.              *)
LEMMA PosseDiminui ==
  ASSUME EntregaInv, NEW p \in Publicadores, NEW r, PubOK(r), pub' = [pub EXCEPT ![p] = r],
         NEW M, M = (IF r = Ocioso THEN {} ELSE r.meus), M \subseteq Meus(p),
         outbox' \in [Eventos -> {"nenhum", "novo", "publicado"}],
         \A e \in Eventos : outbox'[e] # outbox[e] => e \in Meus(p) \ M
  PROVE  PosseOK' /\ LivreFica
         /\ \A e \in Meus(p) \ M : ~EmMaos(e)'
<1>1. PosseOK
  BY PosseAgora
<1>2. /\ DOMAIN pub' = Publicadores /\ \A q \in Publicadores : PubOK(pub'[q])
      /\ Meus(p)' = M
      /\ \A q \in Publicadores : q # p => Meus(q)' = Meus(q)
  BY MudaPub
<1>3. \A q \in Publicadores : Meus(q)' \subseteq Meus(q) /\ Meus(q) \subseteq Eventos
  BY <1>1, <1>2 DEF PosseOK, PubOK, Meus, Ocioso
<1>4. \A e \in Meus(p) \ M : ~EmMaos(e)'
  <2> SUFFICES ASSUME NEW e \in Meus(p) \ M, NEW q \in Publicadores, e \in Meus(q)'
               PROVE FALSE
    BY DEF EmMaos
  <2> QED BY <1>1, <1>2 DEF PosseOK
<1>5. \A q \in Publicadores : \A e \in Meus(q)' : outbox'[e] = "publicado"
  <2> SUFFICES ASSUME NEW q \in Publicadores, NEW e \in Meus(q)' PROVE outbox'[e] = "publicado"
    OBVIOUS
  <2>1. EmMaos(e)' /\ e \in Eventos
    BY <1>3 DEF EmMaos
  <2>2. outbox'[e] = outbox[e]
    BY <1>4, <2>1
  <2> QED BY <1>1, <1>3, <2>2 DEF PosseOK
<1>6. \A q, s \in Publicadores : q # s => Meus(q)' \cap Meus(s)' = {}
  BY <1>1, <1>3 DEF PosseOK
<1>7. PosseOK'
  BY <1>2, <1>5, <1>6 DEF PosseOK
<1>8. LivreFica
  <2> SUFFICES ASSUME NEW e \in Eventos, Livre(e)' PROVE Livre(e)
    BY DEF LivreFica
  <2>1. ASSUME EmMaos(e)' PROVE EmMaos(e)
    BY <1>3, <2>1 DEF EmMaos
  <2>2. ASSUME outbox'[e] # "publicado" PROVE Livre(e)
    BY <2>2 DEF Livre, EmMaos
  <2> QED BY <2>1, <2>2 DEF Livre
<1> QED BY <1>4, <1>7, <1>8

LEMMA PosseCresce ==
  ASSUME EntregaInv, NEW p \in Publicadores, NEW e \in Eventos, outbox[e] = "novo",
         outbox' = [outbox EXCEPT ![e] = "publicado"], NEW r, PubOK(r), pub' = [pub EXCEPT ![p] = r],
         NEW M, M = (IF r = Ocioso THEN {} ELSE r.meus), M = Meus(p) \cup {e}
  PROVE  PosseOK' /\ LivreFica
<1>1. PosseOK
  BY PosseAgora
<1>2. /\ DOMAIN pub' = Publicadores /\ \A q \in Publicadores : PubOK(pub'[q])
      /\ Meus(p)' = M
      /\ \A q \in Publicadores : q # p => Meus(q)' = Meus(q)
  BY MudaPub
<1>3. /\ outbox' \in [Eventos -> {"nenhum", "novo", "publicado"}]
      /\ outbox'[e] = "publicado" /\ \A f : f # e => outbox'[f] = outbox[f]
  BY <1>1 DEF PosseOK
<1>4. \A q \in Publicadores : e \notin Meus(q)
  BY <1>1 DEF PosseOK
<1>5. \A q \in Publicadores : \A f \in Meus(q)' : outbox'[f] = "publicado"
  <2> SUFFICES ASSUME NEW q \in Publicadores, NEW f \in Meus(q)' PROVE outbox'[f] = "publicado"
    OBVIOUS
  <2>1. f = e \/ f \in Meus(q)
    BY <1>2
  <2> QED BY <1>1, <1>3, <2>1 DEF PosseOK
<1>6. \A q, s \in Publicadores : q # s => Meus(q)' \cap Meus(s)' = {}
  BY <1>1, <1>2, <1>4 DEF PosseOK
<1>7. PosseOK'
  BY <1>2, <1>3, <1>5, <1>6 DEF PosseOK
<1>8. LivreFica
  <2> SUFFICES ASSUME NEW f \in Eventos, Livre(f)' PROVE Livre(f)
    BY DEF LivreFica
  <2>1. ASSUME f # e PROVE Livre(f)
    <3>1. \A q \in Publicadores : f \in Meus(q)' => f \in Meus(q)
      BY <1>2, <2>1
    <3> QED BY <1>3, <2>1, <3>1 DEF Livre, EmMaos
  <2> QED BY <2>1 DEF Livre
<1> QED BY <1>7, <1>8

-----------------------------------------------------------------------------
LEMMA PassoLer ==
  ASSUME EntregaInv, NEW p \in Publicadores, LerCandidatos(p)
  PROVE  PosseOK' /\ LivreFica
<1>1. PosseOK
  BY PosseAgora
<1>2. PICK c \in SUBSET Eventos : pub' = [pub EXCEPT ![p] = [pc |-> "reivindicar", ler |-> c, meus |-> {}]]
  BY DEF LerCandidatos
<1>3. PICK r : r = [pc |-> "reivindicar", ler |-> c, meus |-> {}]
  OBVIOUS
<1>4. PubOK(r) /\ r # Ocioso /\ r.meus = {}
  BY <1>3 DEF PubOK, Ocioso
<1>5. pub' = [pub EXCEPT ![p] = r]
  BY <1>2, <1>3
<1>6. outbox' = outbox
  BY DEF LerCandidatos
<1>7. outbox' \in [Eventos -> {"nenhum", "novo", "publicado"}]
  BY <1>1, <1>6 DEF PosseOK
<1> QED BY <1>4, <1>5, <1>6, <1>7, PosseDiminui

LEMMA PassoReivindicar ==
  ASSUME EntregaInv, NEW p \in Publicadores, ReivindicarEvento(p)
  PROVE  PosseOK' /\ LivreFica
<1>1. PosseOK
  BY PosseAgora
<1>2. pub[p].pc = "reivindicar" /\ PubOK(pub[p])
  BY <1>1 DEF ReivindicarEvento, PosseOK
<1>3. PICK l \in SUBSET Eventos, m \in SUBSET Eventos :
        pub[p] = [pc |-> "reivindicar", ler |-> l, meus |-> m]
  <2>1. PICK x : x = pub[p]
    OBVIOUS
  <2>2. x # Ocioso /\ x.pc # "enfileirar"
    BY <1>2, <2>1 DEF Ocioso
  <2>3. /\ x = [pc |-> "reivindicar", ler |-> x.ler, meus |-> x.meus]
        /\ x.ler \in SUBSET Eventos /\ x.meus \in SUBSET Eventos
    BY <1>2, <2>1, <2>2 DEF PubOK
  <2>4. PICK l, m : l = x.ler /\ m = x.meus
    OBVIOUS
  <2> QED BY <2>1, <2>3, <2>4
<1>4. Meus(p) = m /\ pub[p].ler = l /\ pub[p].meus = m
  BY <1>3 DEF Meus, Ocioso
<1>5. ASSUME l = {} PROVE PosseOK' /\ LivreFica
  <2>1. PICK r : r = (IF m = {} THEN Ocioso ELSE [pc |-> "enfileirar", meus |-> m])
    OBVIOUS
  <2>2. pub' = [pub EXCEPT ![p] = r] /\ outbox' = outbox
    BY <1>4, <1>5, <2>1 DEF ReivindicarEvento
  <2>3. PubOK(r) /\ m = (IF r = Ocioso THEN {} ELSE r.meus)
    BY <2>1 DEF PubOK, Ocioso
  <2>4. outbox' \in [Eventos -> {"nenhum", "novo", "publicado"}]
    BY <1>1, <2>2 DEF PosseOK
  <2> QED BY <1>4, <2>2, <2>3, <2>4, PosseDiminui
<1>6. ASSUME l # {} PROVE PosseOK' /\ LivreFica
  <2>1. PICK e \in Eventos : e = Min(l)
    BY <1>6, EventosFinitos
  <2>2. PICK m2 \in SUBSET Eventos : m2 = (IF Reivindicavel(e) THEN m \cup {e} ELSE m)
    BY Zenon
  <2>3. PICK r : r = [pc |-> "reivindicar", ler |-> l \ {e}, meus |-> m2]
    OBVIOUS
  <2>4. /\ outbox' = [outbox EXCEPT ![e] = IF Reivindicavel(e) THEN "publicado" ELSE @]
        /\ pub' = [pub EXCEPT ![p] = [pc |-> "reivindicar", ler |-> l \ {e},
                     meus |-> IF Reivindicavel(e) THEN m \cup {e} ELSE m]]
    BY <1>4, <1>6, <2>1, Zenon DEF ReivindicarEvento
  <2>5. pub' = [pub EXCEPT ![p] = r]
    BY <2>2, <2>3, <2>4
  <2>6. PubOK(r) /\ r # Ocioso /\ r.meus = m2
    BY <2>3 DEF PubOK, Ocioso
  <2>7. ASSUME Reivindicavel(e) PROVE PosseOK' /\ LivreFica
    <3>1. outbox[e] = "novo" /\ outbox' = [outbox EXCEPT ![e] = "publicado"] /\ m2 = Meus(p) \cup {e}
      BY <1>4, <2>2, <2>4, <2>7 DEF Reivindicavel
    <3> QED BY <2>5, <2>6, <3>1, PosseCresce
  <2>8. ASSUME ~Reivindicavel(e) PROVE PosseOK' /\ LivreFica
    <3>1. outbox' = outbox /\ m2 = Meus(p)
      BY <1>1, <1>4, <2>2, <2>4, <2>8 DEF PosseOK
    <3>2. outbox' \in [Eventos -> {"nenhum", "novo", "publicado"}]
      BY <1>1, <3>1 DEF PosseOK
    <3> QED BY <2>5, <2>6, <3>1, <3>2, PosseDiminui
  <2> QED BY <2>7, <2>8
<1> QED BY <1>5, <1>6

(* The event at hand, and what is left when it has been dealt with.         *)
LEMMA EventoEmMaos ==
  ASSUME EntregaInv, NEW p \in Publicadores, pub[p].pc = "enfileirar"
  PROVE  /\ Min(pub[p].meus) \in Meus(p) /\ Meus(p) \subseteq Eventos
         /\ Meus(p) = pub[p].meus
<1>1. PubOK(pub[p])
  BY PosseAgora DEF PosseOK
<1>2. Meus(p) = pub[p].meus /\ pub[p].meus # {} /\ pub[p].meus \subseteq Eventos
  BY <1>1 DEF PubOK, Meus, Ocioso
<1> QED BY <1>2, EventosFinitos

LEMMA PosseSolta ==
  ASSUME EntregaInv, NEW p \in Publicadores, pub[p].pc = "enfileirar",
         NEW e \in Eventos, e = Min(pub[p].meus), SemEspera(p, e),
         outbox' = outbox \/ outbox' = [outbox EXCEPT ![e] = "novo"]
  PROVE  PosseOK' /\ LivreFica /\ EmMaos(e) /\ ~EmMaos(e)'
<1>1. PosseOK
  BY PosseAgora
<1>2. e \in Meus(p) /\ Meus(p) \subseteq Eventos /\ Meus(p) = pub[p].meus
  BY EventoEmMaos
<1>3. PICK m \in SUBSET Eventos : m = Meus(p) \ {e}
  BY <1>2
<1>4. PICK r : r = (IF m = {} THEN Ocioso ELSE [pc |-> "enfileirar", meus |-> m])
  OBVIOUS
<1>5. pub' = [pub EXCEPT ![p] = r]
  BY <1>2, <1>3, <1>4 DEF SemEspera
<1>6. PubOK(r) /\ m = (IF r = Ocioso THEN {} ELSE r.meus)
  BY <1>4 DEF PubOK, Ocioso
<1>7. /\ outbox' \in [Eventos -> {"nenhum", "novo", "publicado"}]
      /\ \A f \in Eventos : outbox'[f] # outbox[f] => f \in Meus(p) \ m
  BY <1>1, <1>2, <1>3 DEF PosseOK
<1>8. PosseOK' /\ LivreFica /\ \A f \in Meus(p) \ m : ~EmMaos(f)'
  BY <1>3, <1>5, <1>6, <1>7, PosseDiminui
<1> QED BY <1>2, <1>3, <1>8 DEF EmMaos

LEMMA PassoEnfileirar ==
  ASSUME EntregaInv, NEW p \in Publicadores, Enfileirar(p)
  PROVE  /\ PosseOK' /\ LivreFica
         /\ \E e \in Eventos : NovoJob(e) /\ Livre(e) /\ ~Livre(e)'
<1>1. pub[p].pc = "enfileirar" /\ UNCHANGED outbox
  BY DEF Enfileirar
<1>2. PICK e \in Eventos : e = Min(pub[p].meus)
  BY <1>1, EventoEmMaos
<1>3. NovoJob(e) /\ SemEspera(p, e)
  BY <1>2 DEF Enfileirar
<1>4. PosseOK' /\ LivreFica /\ EmMaos(e) /\ ~EmMaos(e)'
  BY <1>1, <1>2, <1>3, PosseSolta
<1>5. outbox[e] = "publicado"
  BY <1>4, PosseAgora DEF PosseOK, EmMaos
<1> QED BY <1>1, <1>3, <1>4, <1>5 DEF Livre

LEMMA PassoFalhar ==
  ASSUME EntregaInv, NEW p \in Publicadores, FalharEnfileirar(p)
  PROVE  PosseOK' /\ LivreFica
<1>1. pub[p].pc = "enfileirar"
  BY DEF FalharEnfileirar
<1>2. PICK e \in Eventos : e = Min(pub[p].meus)
  BY <1>1, EventoEmMaos
<1>3. SemEspera(p, e) /\ outbox' = [outbox EXCEPT ![e] = "novo"]
  BY <1>2 DEF FalharEnfileirar, DevolveClaim
<1> QED BY <1>1, <1>2, <1>3, PosseSolta

LEMMA PassoCairPub ==
  ASSUME EntregaInv, NEW p \in Publicadores, CairPublicador(p)
  PROVE  PosseOK' /\ LivreFica
<1>1. PosseOK
  BY PosseAgora
<1>2. pub' = [pub EXCEPT ![p] = Ocioso] /\ outbox' = outbox /\ PubOK(Ocioso)
  BY DEF CairPublicador, PubOK
<1>3. outbox' \in [Eventos -> {"nenhum", "novo", "publicado"}]
  BY <1>1, <1>2 DEF PosseOK
<1>4. PICK r : r = Ocioso
  OBVIOUS
<1>5. pub' = [pub EXCEPT ![p] = r] /\ PubOK(r) /\ {} = (IF r = Ocioso THEN {} ELSE r.meus)
  BY <1>2, <1>4
<1> QED BY <1>2, <1>3, <1>5, PosseDiminui

-----------------------------------------------------------------------------
(* The rest of the state, of which only its type matters to the claim.      *)
RemOK ==
  /\ DOMAIN rem = Remetentes
  /\ \A r \in Remetentes : rem[r] # Ocioso =>
       rem[r] = [pc |-> rem[r].pc, x |-> rem[r].x] /\ rem[r].x \in Envios
HouveOK == houve = [reenvios |-> houve.reenvios, troca |-> houve.troca] /\ houve.reenvios \in Nat
EnvioOK ==
  /\ envio \in [Envios -> {"nenhum", "PENDENTE", "SUCESSO", "FALHA"}]
  /\ filaApp \in [Envios -> 0..MaxTentativas]
CaixasOK == perdidos \subseteq Eventos /\ recebeu \in [Destinos -> SUBSET Eventos]
RestoOK == RemOK /\ HouveOK /\ EnvioOK /\ CaixasOK

LEMMA Pedacos ==
  EntregaInv <=> /\ JobsOK /\ EntOK /\ PosseOK /\ RestoOK
                 /\ PublicaUmaVez
                 /\ \A e \in Eventos : Livre(e) => Cardinality(JobsDe(e)) <= houve.reenvios
BY DEF EntregaInv, JobsOK, EntOK, PosseOK, RestoOK, RemOK, HouveOK, EnvioOK, CaixasOK, TypeOK, Livre, Vazio

LEMMA HouvePasso ==
  ASSUME EntregaInv
  PROVE  /\ UNCHANGED houve => HouveOK' /\ houve'.reenvios = houve.reenvios
         /\ Reenviar => HouveOK' /\ houve'.reenvios = houve.reenvios + 1
         /\ Trocar => HouveOK' /\ houve'.reenvios = houve.reenvios
<1>0. PICK n \in Nat : n = houve.reenvios /\ houve = [reenvios |-> houve.reenvios, troca |-> houve.troca]
  BY Pedacos DEF RestoOK, HouveOK
<1>1. PICK b : houve = [reenvios |-> n, troca |-> b]
  BY <1>0
<1>2. ASSUME UNCHANGED houve PROVE HouveOK' /\ houve'.reenvios = houve.reenvios
  BY <1>1, <1>2 DEF HouveOK
<1>3. ASSUME Reenviar PROVE HouveOK' /\ houve'.reenvios = houve.reenvios + 1
  <2>1. houve' = [reenvios |-> n + 1, troca |-> b]
    BY <1>1, <1>3 DEF Reenviar
  <2> QED BY <1>1, <2>1 DEF HouveOK
<1>4. ASSUME Trocar PROVE HouveOK' /\ houve'.reenvios = houve.reenvios
  <2>1. houve' = [reenvios |-> n, troca |-> TRUE]
    BY <1>1, <1>4 DEF Trocar
  <2> QED BY <1>1, <2>1 DEF HouveOK
<1> QED BY <1>2, <1>3, <1>4

LEMMA EnvioPasso ==
  ASSUME EntregaInv
  PROVE  /\ UNCHANGED <<envio, filaApp>> => EnvioOK'
         /\ \A p \in Publicadores : ReivindicarEvento(p) \/ Enfileirar(p) => EnvioOK'
         /\ ReenfileirarPendentes => EnvioOK'
         /\ \A r \in Remetentes : Registrar(r) => EnvioOK'
         /\ \A r \in Remetentes, x \in Envios : IniciarEnvio(r, x) => EnvioOK'
<1>1. EnvioOK /\ RemOK /\ MaxTentativas \in Nat /\ MaxTentativas \in 0..MaxTentativas /\ 0 \in 0..MaxTentativas
  BY Pedacos, EntregaAssumption DEF RestoOK
<1>2. UNCHANGED <<envio, filaApp>> => EnvioOK'
  BY <1>1 DEF EnvioOK
<1>3. ASSUME NEW p \in Publicadores, ReivindicarEvento(p) PROVE EnvioOK'
  <2>1. \A e : Reserva(e) \in [Envios -> {"nenhum", "PENDENTE", "SUCESSO", "FALHA"}]
    BY <1>1 DEF Reserva, EnvioOK
  <2>2. envio' = envio \/ \E e : envio' = Reserva(e)
    BY <1>3, Zenon DEF ReivindicarEvento
  <2>3. UNCHANGED filaApp
    BY <1>3 DEF ReivindicarEvento
  <2> QED BY <1>1, <2>1, <2>2, <2>3 DEF EnvioOK
<1>4. ASSUME NEW p \in Publicadores, Enfileirar(p) PROVE EnvioOK'
  <2>1. UNCHANGED envio /\ (UNCHANGED filaApp
          \/ \E S : filaApp' = [x \in Envios |-> IF x \in S THEN MaxTentativas ELSE filaApp[x]])
    BY <1>4, Zenon DEF Enfileirar
  <2> QED BY <1>1, <2>1 DEF EnvioOK
<1>5. ReenfileirarPendentes => EnvioOK'
  BY <1>1 DEF ReenfileirarPendentes, EnvioOK
<1>6. ASSUME NEW r \in Remetentes, Registrar(r) PROVE EnvioOK'
  <2>1. PICK x \in Envios : x = rem[r].x
    BY <1>1, <1>6 DEF RemOK, Registrar
  <2>2. /\ envio' = [envio EXCEPT ![x] = IF rem[r].pc = "ok" THEN "SUCESSO" ELSE "FALHA"]
        /\ filaApp' = [filaApp EXCEPT ![x] = IF rem[r].pc = "erro" THEN @ ELSE 0]
    BY <1>6, <2>1 DEF Registrar
  <2> QED BY <1>1, <2>1, <2>2 DEF EnvioOK
<1>7. ASSUME NEW r \in Remetentes, NEW x \in Envios, IniciarEnvio(r, x) PROVE EnvioOK'
  <2>1. filaApp[x] \in Nat /\ filaApp[x] > 0 /\ filaApp[x] <= MaxTentativas
    BY <1>1, <1>7 DEF EnvioOK, IniciarEnvio
  <2>2. filaApp[x] - 1 \in 0..MaxTentativas
    BY <1>1, <2>1
  <2>3. /\ filaApp' = [filaApp EXCEPT ![x] = 0] \/ filaApp' = [filaApp EXCEPT ![x] = filaApp[x] - 1]
        /\ envio' = envio \/ envio' = [envio EXCEPT ![x] = "FALHA"]
    BY <1>7 DEF IniciarEnvio
  <2> QED BY <1>1, <2>2, <2>3 DEF EnvioOK
<1> QED BY <1>2, <1>3, <1>4, <1>5, <1>6, <1>7

LEMMA RemPasso ==
  ASSUME EntregaInv
  PROVE  /\ UNCHANGED rem => RemOK'
         /\ \A r \in Remetentes : CairRemetente(r) \/ Registrar(r) \/ Postar(r) => RemOK'
         /\ \A r \in Remetentes, x \in Envios : IniciarEnvio(r, x) => RemOK'
<1>1. RemOK
  BY Pedacos DEF RestoOK
<1>2. UNCHANGED rem => RemOK'
  BY <1>1 DEF RemOK
<1>3. ASSUME NEW r \in Remetentes, CairRemetente(r) \/ Registrar(r) PROVE RemOK'
  <2>1. rem' = [rem EXCEPT ![r] = Ocioso]
    BY <1>3 DEF CairRemetente, Registrar
  <2> QED BY <1>1, <2>1 DEF RemOK
<1>4. ASSUME NEW r \in Remetentes, NEW x \in Envios, NEW pc, rem' = [rem EXCEPT ![r] = [pc |-> pc, x |-> x]]
      PROVE  RemOK'
  <2>1. PICK c : c = [pc |-> pc, x |-> x]
    OBVIOUS
  <2>2. c = [pc |-> c.pc, x |-> c.x] /\ c.x \in Envios
    BY <1>4, <2>1
  <2>3. DOMAIN rem' = Remetentes /\ rem'[r] = c /\ \A s \in Remetentes \ {r} : rem'[s] = rem[s]
    BY <1>1, <1>4, <2>1 DEF RemOK
  <2> QED BY <1>1, <2>2, <2>3 DEF RemOK
<1>5. ASSUME NEW r \in Remetentes, Postar(r) PROVE RemOK'
  <2>1. PICK x \in Envios : x = rem[r].x
    BY <1>1, <1>5 DEF RemOK, Postar
  <2>2. PICK pc : rem' = [rem EXCEPT ![r] = [pc |-> pc, x |-> x]]
    BY <1>5, <2>1 DEF Postar
  <2> QED BY <1>4, <2>2
<1>6. ASSUME NEW r \in Remetentes, NEW x \in Envios, IniciarEnvio(r, x) PROVE RemOK'
  <2>1. UNCHANGED rem \/ rem' = [rem EXCEPT ![r] = [pc |-> "postar", x |-> x]]
    BY <1>6 DEF IniciarEnvio
  <2> QED BY <1>2, <1>4, <2>1
<1> QED BY <1>2, <1>3, <1>5, <1>6

LEMMA CaixasPasso ==
  ASSUME EntregaInv
  PROVE  /\ UNCHANGED <<perdidos, recebeu>> => CaixasOK'
         /\ \A p \in Publicadores : CairPublicador(p) => CaixasOK'
         /\ \A w \in Entregadores, d \in Destinos : Entregar(w, d) => CaixasOK'
<1>1. CaixasOK /\ PosseOK /\ JobsOK /\ EntOK
  BY Pedacos DEF RestoOK
<1>2. UNCHANGED <<perdidos, recebeu>> => CaixasOK'
  BY <1>1 DEF CaixasOK
<1>3. ASSUME NEW p \in Publicadores, CairPublicador(p) PROVE CaixasOK'
  <2>1. PubOK(pub[p]) /\ pub[p] # Ocioso
    BY <1>1, <1>3 DEF PosseOK, CairPublicador
  <2>2. pub[p].meus \subseteq Eventos
    BY <2>1 DEF PubOK
  <2>3. perdidos' = perdidos \cup pub[p].meus /\ UNCHANGED recebeu
    BY <1>3 DEF CairPublicador, entrega
  <2> QED BY <1>1, <2>2, <2>3 DEF CaixasOK
<1>4. ASSUME NEW w \in Entregadores, NEW d \in Destinos, Entregar(w, d) PROVE CaixasOK'
  <2>1. ent[w] # Ocioso
    BY <1>4 DEF Entregar, Ocioso
  <2>2. PICK j \in Jobs : j = ent[w].j /\ job[j].sit # "nenhum"
    BY <1>1, <2>1 DEF EntOK
  <2>3. job[j] \in JobDe
    BY <1>1, <2>2 DEF JobsOK, Vazio
  <2>4. PICK e \in Eventos : e = job[ent[w].j].ev
    BY <2>2, <2>3 DEF JobDe
  <2>5. UNCHANGED perdidos /\ \E b \in BOOLEAN : recebeu' = [recebeu EXCEPT ![d] = IF b THEN @ \cup {e} ELSE @]
    BY <1>4, <2>4 DEF Entregar
  <2> QED BY <1>1, <2>4, <2>5 DEF CaixasOK
<1> QED BY <1>2, <1>3, <1>4

-----------------------------------------------------------------------------
(* The count of the jobs of each event.                                     *)
LivreLimite == \A e \in Eventos : Livre(e) => Cardinality(JobsDe(e)) <= houve.reenvios

LEMMA ContaFica ==
  ASSUME EntregaInv, MesmosJobs, LivreFica, houve'.reenvios = houve.reenvios
  PROVE  PublicaUmaVez' /\ LivreLimite'
<1>1. \A e : Cardinality(JobsDe(e))' = Cardinality(JobsDe(e))
  BY Contagem
<1>2. PublicaUmaVez /\ LivreLimite
  BY Pedacos DEF LivreLimite
<1>3. PublicaUmaVez'
  BY <1>1, <1>2 DEF PublicaUmaVez
<1>4. LivreLimite'
  BY <1>1, <1>2 DEF LivreLimite, LivreFica
<1> QED BY <1>3, <1>4

LEMMA ContaEnfileira ==
  ASSUME EntregaInv, NEW e \in Eventos, MaisUmJob(e), LivreFica, Livre(e), ~Livre(e)',
         houve'.reenvios = houve.reenvios
  PROVE  PublicaUmaVez' /\ LivreLimite'
<1>1. /\ Cardinality(JobsDe(e))' = Cardinality(JobsDe(e)) + 1
      /\ \A f : f # e => Cardinality(JobsDe(f))' = Cardinality(JobsDe(f))
  BY Contagem
<1>2. PublicaUmaVez /\ LivreLimite /\ houve.reenvios \in Nat /\ Cardinality(JobsDe(e)) \in Nat
  BY Pedacos, JobsFinitos DEF LivreLimite, RestoOK, HouveOK
<1>3. Cardinality(JobsDe(e)) <= houve.reenvios
  BY <1>2 DEF LivreLimite
<1>4. Cardinality(JobsDe(e))' <= 1 + houve'.reenvios
  BY <1>1, <1>2, <1>3
<1>5. PublicaUmaVez'
  BY <1>1, <1>2, <1>4 DEF PublicaUmaVez
<1>6. LivreLimite'
  BY <1>1, <1>2 DEF LivreLimite, LivreFica
<1> QED BY <1>5, <1>6

LEMMA ContaReenvia ==
  ASSUME EntregaInv, NEW e \in Eventos, MaisUmJob(e), LivreFica,
         houve'.reenvios = houve.reenvios + 1
  PROVE  PublicaUmaVez' /\ LivreLimite'
<1>1. /\ Cardinality(JobsDe(e))' = Cardinality(JobsDe(e)) + 1
      /\ \A f : f # e => Cardinality(JobsDe(f))' = Cardinality(JobsDe(f))
  BY Contagem
<1>2. /\ PublicaUmaVez /\ LivreLimite /\ houve.reenvios \in Nat
      /\ \A f : Cardinality(JobsDe(f)) \in Nat
  BY Pedacos, JobsFinitos DEF LivreLimite, RestoOK, HouveOK
<1>3. ASSUME NEW f \in Eventos
      PROVE  /\ Cardinality(JobsDe(f))' <= 1 + houve'.reenvios
             /\ Livre(f)' => Cardinality(JobsDe(f))' <= houve'.reenvios
  <2>1. PICK n \in Nat, m \in Nat, k \in Nat, l \in Nat :
          /\ n = Cardinality(JobsDe(f)) /\ m = Cardinality(JobsDe(f))'
          /\ k = houve.reenvios /\ l = houve'.reenvios
    <3>1. Cardinality(JobsDe(f))' \in Nat /\ houve'.reenvios \in Nat
      BY <1>1, <1>2
    <3> QED BY <1>2, <3>1
  <2>2. m <= n + 1 /\ l = k + 1
    BY <1>1, <2>1
  <2>3. n <= 1 + k /\ (Livre(f)' => n <= k)
    BY <1>2, <2>1 DEF PublicaUmaVez, LivreLimite, LivreFica
  <2>4. m <= 1 + l /\ (Livre(f)' => m <= l)
    BY <2>2, <2>3
  <2> QED BY <2>1, <2>4
<1>4. PublicaUmaVez'
  BY <1>3 DEF PublicaUmaVez
<1>5. LivreLimite'
  BY <1>3 DEF LivreLimite
<1> QED BY <1>4, <1>5

-----------------------------------------------------------------------------
Quieto == JobsOK' /\ EntOK' /\ MesmosJobs /\ PosseOK' /\ LivreFica
          /\ HouveOK' /\ houve'.reenvios = houve.reenvios
Resto  == EnvioOK' /\ RemOK' /\ CaixasOK'

LEMMA Inicio == Init => EntregaInv
<1> SUFFICES ASSUME Init PROVE EntregaInv
  OBVIOUS
<1>1. JobsOK /\ EntOK /\ PosseOK /\ RestoOK
  <2>1. JobsOK
    BY DEF Init, JobsOK, Vazio
  <2>2. EntOK /\ RemOK
    BY DEF Init, EntOK, RemOK
  <2>3. PosseOK
    BY DEF Init, PosseOK, PubOK, Meus
  <2>4. HouveOK /\ CaixasOK
    BY DEF Init, HouveOK, CaixasOK
  <2>5. EnvioOK
    BY EntregaAssumption DEF Init, EnvioOK
  <2> QED BY <2>1, <2>2, <2>3, <2>4, <2>5 DEF RestoOK
<1>2. ASSUME NEW e \in Eventos PROVE Cardinality(JobsDe(e)) = 0
  <2>1. JobsDe(e) = {}
    BY DEF Init, JobsDe
  <2> QED BY <2>1, FS_EmptySet
<1>3. houve.reenvios = 0
  BY DEF Init
<1>4. PublicaUmaVez /\ \A e \in Eventos : Livre(e) => Cardinality(JobsDe(e)) <= houve.reenvios
  BY <1>2, <1>3 DEF PublicaUmaVez
<1> QED BY <1>1, <1>4, Pedacos

LEMMA Inteiro ==
  JobsOK /\ EntOK /\ PosseOK /\ RestoOK /\ PublicaUmaVez /\ LivreLimite => EntregaInv
BY Pedacos DEF LivreLimite

LEMMA Junta ==
  ASSUME EntregaInv, Resto, HouveOK', JobsOK', EntOK', PosseOK', PublicaUmaVez', LivreLimite'
  PROVE  EntregaInv'
<1>1. RestoOK'
  BY DEF Resto, RestoOK
<1>2. (JobsOK /\ EntOK /\ PosseOK /\ RestoOK /\ PublicaUmaVez /\ LivreLimite)'
  BY <1>1
<1> QED BY <1>2, Inteiro, PTL

LEMMA JuntaQuieto ==
  ASSUME EntregaInv, Quieto, Resto
  PROVE  EntregaInv'
<1>1. PublicaUmaVez' /\ LivreLimite'
  BY ContaFica DEF Quieto
<1> QED BY <1>1, Junta DEF Quieto

LEMMA NadaMuda ==
  ASSUME EntregaInv, UNCHANGED <<outbox, pub, perdidos, entrega, apps, houve>>
  PROVE  EntregaInv'
<1>1. Quieto
  <2>1. UNCHANGED <<job, ent, pub, houve, outbox>>
    BY DEF entrega
  <2>2. JobsOK' /\ EntOK' /\ MesmosJobs
    BY <2>1, TrabalhoParado
  <2>3. PosseOK' /\ LivreFica
    <3>1. outbox' \in [Eventos -> {"nenhum", "novo", "publicado"}]
      BY <2>1, PosseAgora DEF PosseOK
    <3> QED BY <2>1, <3>1, PosseParada
  <2> QED BY <2>1, <2>2, <2>3, HouvePasso DEF Quieto
<1>2. Resto
  BY EnvioPasso, RemPasso, CaixasPasso DEF Resto, entrega, apps
<1> QED BY <1>1, <1>2, JuntaQuieto

LEMMA PosseQuieta ==
  ASSUME EntregaInv, UNCHANGED <<outbox, pub>>
  PROVE  PosseOK' /\ LivreFica
<1>1. outbox' \in [Eventos -> {"nenhum", "novo", "publicado"}]
  BY PosseAgora DEF PosseOK
<1> QED BY <1>1, PosseParada

LEMMA JuntaEntrega ==
  ASSUME EntregaInv, JobsOK', EntOK', MesmosJobs,
         UNCHANGED <<outbox, pub, perdidos, recebeu, envio, filaApp, rem, houve>>
  PROVE  EntregaInv'
<1>1. Quieto
  BY PosseQuieta, HouvePasso DEF Quieto
<1>2. Resto
  BY EnvioPasso, RemPasso, CaixasPasso DEF Resto
<1> QED BY <1>1, <1>2, JuntaQuieto

LEMMA JuntaApps ==
  ASSUME EntregaInv, EnvioOK', RemOK',
         UNCHANGED <<outbox, pub, perdidos, job, ent, recebeu, houve>>
  PROVE  EntregaInv'
<1>1. Quieto
  BY PosseQuieta, TrabalhoParado, HouvePasso DEF Quieto
<1>2. Resto
  BY CaixasPasso DEF Resto
<1> QED BY <1>1, <1>2, JuntaQuieto

LEMMA Passo == EntregaInv /\ [Next]_vars => EntregaInv'
<1> SUFFICES ASSUME EntregaInv, [Next]_vars PROVE EntregaInv'
  OBVIOUS
<1>1. ASSUME UNCHANGED vars PROVE EntregaInv'
  <2>1. UNCHANGED <<outbox, pub, perdidos, entrega, apps, houve>>
    BY <1>1 DEF vars, mundo
  <2> QED BY <2>1, NadaMuda
<1>2. ASSUME NEW e \in Eventos, Anunciar(e) PROVE EntregaInv'
  <2>1. UNCHANGED <<pub, perdidos, job, ent, recebeu, envio, filaApp, rem, houve>>
    BY <1>2 DEF Anunciar, entrega, apps, mundo
  <2>2. JobsOK' /\ EntOK' /\ MesmosJobs
    BY <2>1, TrabalhoParado
  <2>3. PosseOK' /\ LivreFica
    <3>1. outbox' \in [Eventos -> {"nenhum", "novo", "publicado"}]
      BY <1>2, PosseAgora DEF PosseOK, Anunciar
    <3>2. \A f \in Eventos : (outbox[f] = "publicado" <=> outbox'[f] = "publicado")
      BY <1>2, PosseAgora DEF PosseOK, Anunciar
    <3> QED BY <2>1, <3>1, <3>2, PosseParada
  <2>4. Quieto
    BY <2>1, <2>2, <2>3, HouvePasso DEF Quieto
  <2>5. Resto
    BY <2>1, EnvioPasso, RemPasso, CaixasPasso DEF Resto
  <2> QED BY <2>4, <2>5, JuntaQuieto
<1>3. ASSUME NEW p \in Publicadores,
             LerCandidatos(p) \/ ReivindicarEvento(p) \/ FalharEnfileirar(p) \/ CairPublicador(p)
      PROVE  EntregaInv'
  <2>1. UNCHANGED <<job, ent, recebeu, rem, houve>>
    BY <1>3 DEF LerCandidatos, ReivindicarEvento, FalharEnfileirar, CairPublicador, entrega, apps, mundo
  <2>2. JobsOK' /\ EntOK' /\ MesmosJobs
    BY <2>1, TrabalhoParado
  <2>3. PosseOK' /\ LivreFica
    BY <1>3, PassoLer, PassoReivindicar, PassoFalhar, PassoCairPub
  <2>4. Quieto
    BY <2>1, <2>2, <2>3, HouvePasso DEF Quieto
  <2>5. ReivindicarEvento(p) \/ UNCHANGED <<envio, filaApp>>
    BY <1>3 DEF LerCandidatos, FalharEnfileirar, CairPublicador, apps
  <2>6. CairPublicador(p) \/ UNCHANGED perdidos
    BY <1>3 DEF LerCandidatos, FalharEnfileirar, ReivindicarEvento
  <2>7. Resto
    BY <2>1, <2>5, <2>6, EnvioPasso, RemPasso, CaixasPasso DEF Resto
  <2> QED BY <2>4, <2>7, JuntaQuieto
<1>4. ASSUME NEW p \in Publicadores, Enfileirar(p) PROVE EntregaInv'
  <2>1. UNCHANGED <<perdidos, ent, recebeu, rem, houve>>
    BY <1>4 DEF Enfileirar, mundo
  <2>2. PICK e \in Eventos : NovoJob(e) /\ Livre(e) /\ ~Livre(e)'
    BY <1>4, PassoEnfileirar
  <2>3. PosseOK' /\ LivreFica
    BY <1>4, PassoEnfileirar
  <2>4. JobsOK' /\ EntOK' /\ MaisUmJob(e)
    BY <2>1, <2>2, PassoNasce
  <2>5. HouveOK' /\ houve'.reenvios = houve.reenvios
    BY <2>1, HouvePasso
  <2>6. PublicaUmaVez' /\ LivreLimite'
    BY <2>2, <2>3, <2>4, <2>5, ContaEnfileira
  <2>7. Resto
    BY <1>4, <2>1, EnvioPasso, RemPasso, CaixasPasso DEF Resto
  <2> QED BY <2>3, <2>4, <2>5, <2>6, <2>7, Junta
<1>5. ASSUME NEW w \in Entregadores, NEW j \in Jobs, IniciarEntrega(w, j) PROVE EntregaInv'
  <2>1. UNCHANGED <<outbox, pub, perdidos, recebeu, envio, filaApp, rem, houve>>
    BY <1>5 DEF IniciarEntrega, apps, mundo
  <2>2. JobsOK' /\ EntOK' /\ MesmosJobs
    BY <1>5, PassoIniciar
  <2> QED BY <2>1, <2>2, JuntaEntrega
<1>6. ASSUME NEW w \in Entregadores, TerminarEntrega(w) \/ CairEntregador(w) PROVE EntregaInv'
  <2>1. UNCHANGED <<outbox, pub, perdidos, recebeu, envio, filaApp, rem, houve>>
    BY <1>6 DEF TerminarEntrega, CairEntregador, apps, mundo
  <2>2. PICK c : /\ c = MaisUma(job[ent[w].j]) \/ c = ComSit(job[ent[w].j], "feito")
                 /\ job' = [job EXCEPT ![ent[w].j] = c]
    BY <1>6 DEF TerminarEntrega, CairEntregador, ComSit
  <2>3. ent[w] # Ocioso /\ ent' = [ent EXCEPT ![w] = Ocioso]
    BY <1>6 DEF TerminarEntrega, CairEntregador, Ocioso
  <2>4. JobsOK' /\ EntOK' /\ MesmosJobs
    BY <2>2, <2>3, PassoLarga
  <2> QED BY <2>1, <2>4, JuntaEntrega
<1>7. ASSUME NEW w \in Entregadores, NEW d \in Destinos, Entregar(w, d) PROVE EntregaInv'
  <2>1. UNCHANGED <<outbox, pub, perdidos, envio, filaApp, rem, houve>>
    BY <1>7 DEF Entregar, apps, mundo
  <2>2. JobsOK' /\ EntOK' /\ MesmosJobs
    BY <1>7, PassoEntregar
  <2>3. PosseOK' /\ LivreFica
    BY <2>1, PosseQuieta
  <2>4. Quieto
    BY <2>1, <2>2, <2>3, HouvePasso DEF Quieto
  <2>5. Resto
    BY <1>7, <2>1, EnvioPasso, RemPasso, CaixasPasso DEF Resto
  <2> QED BY <2>4, <2>5, JuntaQuieto
<1>8. ASSUME Reenviar PROVE EntregaInv'
  <2>1. UNCHANGED <<outbox, pub, perdidos, ent, recebeu, envio, filaApp, rem>>
    BY <1>8 DEF Reenviar, apps
  <2>2. PICK e \in Eventos : NovoJob(e)
    <3>1. PICK S \in SUBSET Eventos : S # {} /\ NovoJob(Max(S))
      BY <1>8 DEF Reenviar
    <3>2. Max(S) \in Eventos
      BY <3>1, EventosFinitos
    <3> QED BY <3>1, <3>2
  <2>3. PosseOK' /\ LivreFica
    BY <2>1, PosseQuieta
  <2>4. JobsOK' /\ EntOK' /\ MaisUmJob(e)
    BY <2>1, <2>2, PassoNasce
  <2>5. HouveOK' /\ houve'.reenvios = houve.reenvios + 1
    BY <1>8, HouvePasso
  <2>6. PublicaUmaVez' /\ LivreLimite'
    BY <2>3, <2>4, <2>5, ContaReenvia
  <2>7. Resto
    BY <2>1, EnvioPasso, RemPasso, CaixasPasso DEF Resto
  <2> QED BY <2>3, <2>4, <2>5, <2>6, <2>7, Junta
<1>9. ASSUME Trocar PROVE EntregaInv'
  <2>1. UNCHANGED <<outbox, pub, perdidos, job, ent, recebeu, envio, filaApp, rem>>
    BY <1>9 DEF Trocar, entrega, apps
  <2>2. JobsOK' /\ EntOK' /\ MesmosJobs
    BY <2>1, TrabalhoParado
  <2>3. PosseOK' /\ LivreFica
    BY <2>1, PosseQuieta
  <2>4. Quieto
    BY <1>9, <2>2, <2>3, HouvePasso DEF Quieto
  <2>5. Resto
    BY <2>1, EnvioPasso, RemPasso, CaixasPasso DEF Resto
  <2> QED BY <2>4, <2>5, JuntaQuieto
<1>10. ASSUME ReenfileirarPendentes PROVE EntregaInv'
  <2>1. UNCHANGED <<outbox, pub, perdidos, job, ent, recebeu, rem, houve>>
    BY <1>10 DEF ReenfileirarPendentes, entrega, mundo
  <2> QED BY <1>10, <2>1, EnvioPasso, JuntaApps, RemPasso
<1>11. ASSUME NEW r \in Remetentes, Postar(r) \/ Registrar(r) \/ CairRemetente(r) PROVE EntregaInv'
  <2>1. UNCHANGED <<outbox, pub, perdidos, job, ent, recebeu, houve>>
    BY <1>11 DEF Postar, Registrar, CairRemetente, entrega, mundo
  <2>2. Registrar(r) \/ UNCHANGED <<envio, filaApp>>
    BY <1>11 DEF Postar, CairRemetente
  <2>3. EnvioOK' /\ RemOK'
    BY <1>11, <2>2, EnvioPasso, RemPasso
  <2> QED BY <2>1, <2>3, JuntaApps
<1>12. ASSUME NEW r \in Remetentes, NEW x \in Envios, IniciarEnvio(r, x) PROVE EntregaInv'
  <2>1. UNCHANGED <<outbox, pub, perdidos, job, ent, recebeu, houve>>
    BY <1>12 DEF IniciarEnvio, entrega, mundo
  <2>2. EnvioOK' /\ RemOK'
    BY <1>12, EnvioPasso, RemPasso
  <2> QED BY <2>1, <2>2, JuntaApps
<1> QED
  BY <1>1, <1>2, <1>3, <1>4, <1>5, <1>6, <1>7, <1>8, <1>9, <1>10, <1>11, <1>12
  DEF Next, PassoPublicador, PassoEntregador, PassoRemetente

-----------------------------------------------------------------------------
(* What the publisher, the workers and the switches may find, whatever dies *)
(* and in whichever order they run: an event is waiting, or held by one     *)
(* publisher, or its right to a job is spent (publicarPendentes and         *)
(* publicarEvento in outbox-and-ops.processors.ts, queues.service.ts).      *)
THEOREM EntregaIntegra == Spec => []EntregaInv
<1>1. Spec => []EntregaInv
  BY Inicio, Passo, PTL DEF Spec
<1> QED BY <1>1

(* Outbox, inboxes, rows of the apps and their queue keep their types:      *)
(* attempts never go below zero and nothing is received that was not an     *)
(* event of the sale.                                                       *)
THEOREM TiposDaEntrega == Spec => []TypeOK
<1>1. EntregaInv => TypeOK
  BY DEF EntregaInv
<1> QED BY <1>1, EntregaIntegra, PTL

(* The tick and the direct job, a publisher that fails to enqueue and one   *)
(* that dies: whatever they do, beyond the resends that were asked for an   *)
(* event gets one callback job (the claim on publicadoRedisEm).             *)
THEOREM UmCallbackPorEvento == Spec => []PublicaUmaVez
<1>1. EntregaInv => PublicaUmaVez
  BY DEF EntregaInv
<1> QED BY <1>1, EntregaIntegra, PTL
=============================================================================
