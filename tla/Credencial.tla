----------------------------- MODULE Credencial -----------------------------
(***************************************************************************)
(* What an account uses from outside: the credentials of the API (secret,  *)
(* previous secret, allowed addresses) and the PIX keys it withdraws to.   *)
(* A rotation reads the row and writes it by id; the hash of an old format *)
(* is rewritten behind an answered request.                                *)
(***************************************************************************)
EXTENDS Conta, Sequences

CONSTANTS
  Chaves,        \* credentials (public keys)
  DonoDe,        \* [Chaves -> Contas]
  Ips,           \* addresses callers come from
  Janelas,       \* values of diasJanela
  Nonces,        \* values of x-vpay-nonce
  JanelaHmac,    \* how long a nonce stays reserved
  ChavesPix      \* PIX keys an account may register

ASSUME CredencialAssumption ==
  /\ DonoDe \in [Chaves -> Contas]
  /\ Janelas \subseteq Nat

VARIABLES
  cred,          \* [Chaves -> row of credenciais_api]; secrets are numbers, 0 none
  entregues,     \* [Chaves -> secrets handed out, oldest first]
  migra,         \* lazy rewrites in flight: [k, segredo, n]; n secrets were out
  abertos,       \* tokens of the API: [k, exp]
  nonces,        \* nonces reserved in Redis: [k, n, ate]
  pix,           \* [Contas -> [ChavesPix -> situacao, "nenhuma" when absent]]
  tropecos,      \* credentials whose rotation crossed another or a rewrite
  desfeitas      \* credentials whose last rotation an older rewrite overwrote

marcas == <<tropecos, desfeitas>>
externo == <<cred, entregues, migra, abertos, nonces, pix, tropecos, desfeitas>>

Nenhuma == [ativa |-> FALSE, atual |-> 0, legado |-> FALSE, anterior |-> 0,
            antLegado |-> FALSE, expira |-> 0, ips |-> {}]
CredencialInit ==
  /\ cred = [k \in Chaves |->
       IF orc.madura THEN [Nenhuma EXCEPT !.ativa = TRUE, !.atual = 1, !.legado = TRUE]
       ELSE Nenhuma]
  /\ entregues = [k \in Chaves |-> IF orc.madura THEN <<1>> ELSE <<>>]
  /\ migra = {} /\ abertos = {} /\ nonces = {}
  /\ pix = [c \in Contas |-> [x \in ChavesPix |-> "nenhuma"]]
  /\ tropecos = {} /\ desfeitas = {}

(* The guard of the panel and contaAtiva.                                   *)
ContaAtiva(k) == Habilitada(DonoDe[k])
Ultimo(k) == entregues[k][Len(entregues[k])]
-----------------------------------------------------------------------------
Criar(k) ==
  /\ Gasta("credenciais")
  /\ ContaAtiva(k) /\ entregues[k] = <<>>
  /\ \E i \in SUBSET Ips :
       cred' = [cred EXCEPT ![k] = [Nenhuma EXCEPT !.ativa = TRUE, !.atual = 1, !.ips = i]]
  /\ entregues' = [entregues EXCEPT ![k] = <<1>>]
  /\ UNCHANGED <<acesso, migra, abertos, nonces, pix, marcas>>

(* The owner replaces the allow-list as a whole; an administrator adds to   *)
(* that of a live credential and removes from any.                          *)
Editar(k) ==
  /\ Gasta("credenciais")
  /\ ContaAtiva(k) /\ cred[k].ativa
  /\ \E i \in SUBSET Ips : cred' = [cred EXCEPT ![k].ips = i]
  /\ UNCHANGED <<acesso, entregues, migra, abertos, nonces, pix, marcas>>
EditarIp(k, i) ==
  /\ Gasta("credenciais")
  /\ i \in cred[k].ips \/ cred[k].ativa
  /\ cred' = [cred EXCEPT ![k].ips = IF i \in @ THEN @ \ {i} ELSE @ \cup {i}]
  /\ UNCHANGED <<acesso, entregues, migra, abertos, nonces, pix, marcas>>

(* The row is read; the secret read becomes the previous one.               *)
PedirRotacao(s, k) ==
  /\ ato[s] = Livre
  /\ Gasta("rotacoes")
  /\ ContaAtiva(k) /\ cred[k].ativa
  /\ \E j \in Janelas :
       Ocupa(s, [op |-> "rotacionar", c |-> DonoDe[k], k |-> k, lida |-> cred[k],
                 expira |-> relogio + j])
  /\ UNCHANGED <<conta, docs, dois, link, tokens, relogio, cruzadas, editadas, externo>>
Rotacionar(s) ==
  LET a == ato[s]
      novo == Len(entregues[a.k]) + 1
  IN
  /\ a.op = "rotacionar"
  /\ cred' = [cred EXCEPT
       ![a.k].atual = novo, ![a.k].legado = FALSE,
       ![a.k].anterior = a.lida.atual, ![a.k].antLegado = a.lida.legado,
       ![a.k].expira = a.expira]
  /\ entregues' = [entregues EXCEPT ![a.k] = Append(@, novo)]
  /\ tropecos' = IF \/ \E t \in Sessoes \ {s} : ato[t].op = "rotacionar" /\ ato[t].k = a.k
                    \/ \E m \in migra : m.k = a.k
                 THEN tropecos \cup {a.k} ELSE tropecos
  /\ desfeitas' = desfeitas \ {a.k}
  /\ Ocupa(s, Livre)
  /\ UNCHANGED <<conta, docs, dois, link, tokens, relogio, cruzadas, editadas, orc,
                 migra, abertos, nonces, pix>>

EncerrarJanela(k) ==
  /\ Gasta("credenciais")
  /\ ContaAtiva(k) /\ entregues[k] # <<>>
  /\ cred' = [cred EXCEPT ![k].anterior = 0, ![k].antLegado = FALSE, ![k].expira = 0]
  /\ UNCHANGED <<acesso, entregues, migra, abertos, nonces, pix, marcas>>
Revogar(k) ==
  /\ Gasta("credenciais")
  /\ ContaAtiva(k) /\ entregues[k] # <<>>
  /\ cred' = [cred EXCEPT ![k].ativa = FALSE]
  /\ UNCHANGED <<acesso, entregues, migra, abertos, nonces, pix, marcas>>
-----------------------------------------------------------------------------
(* autenticarPorChaveSegredo: the current secret, or the previous one while *)
(* its window lasts.  Only the current one is rewritten in the new format.  *)
AnteriorVale(k) == cred[k].anterior # 0 /\ relogio < cred[k].expira
Aceita(k, g) ==
  cred[k].ativa /\ (g = cred[k].atual \/ (AnteriorVale(k) /\ g = cred[k].anterior))
PrecisaMigrar_qualquer(k, g) ==  \* mutant: the previous secret is rewritten too
  IF g = cred[k].atual THEN cred[k].legado ELSE cred[k].antLegado
PrecisaMigrar(k, g) == g = cred[k].atual /\ cred[k].legado

(* validarEstadoComum: the account may act and the address is allowed.  A   *)
(* token is given only then; the rewrite starts before that is looked at.   *)
Admite(k, ip) ==
  Habilitada(DonoDe[k]) /\ (cred[k].ips = {} \/ ip \in cred[k].ips)
Autenticar(k, g, ip) ==
  /\ Gasta("autenticacoes")
  /\ Aceita(k, g)
  /\ migra' = IF PrecisaMigrar(k, g) 
            THEN migra \cup {[k |-> k, segredo |-> g, n |-> Len(entregues[k])]} ELSE migra
  /\ abertos' = IF Admite(k, ip)
                THEN abertos \cup {[k |-> k, exp |-> relogio + Duracao]} ELSE abertos
  /\ UNCHANGED <<acesso, cred, entregues, nonces, pix, marcas>>
(* Every call reads the credential again: a token outlives neither it nor   *)
(* the account.  A signed call uses up its nonce; an unsigned one, or one   *)
(* that finds Redis down, reserves nothing.                                 *)
ChamarApi(t, ip, n) ==
  /\ Gasta("chamadas")
  /\ relogio < t.exp
  /\ cred[t.k].ativa /\ Admite(t.k, ip)
  /\ \/ /\ \A r \in nonces : r.k = t.k /\ r.n = n => r.ate <= relogio
        /\ nonces' = {r \in nonces : r.k # t.k \/ r.n # n}
                     \cup {[k |-> t.k, n |-> n, ate |-> relogio + JanelaHmac]}
     \/ UNCHANGED nonces
  /\ UNCHANGED <<acesso, cred, entregues, migra, abertos, pix, marcas>>
(* The rewrite lands by id, whatever was rotated since it began, or is lost *)
(* without anyone noticing.                                                 *)
Migrar(m) ==
  /\ migra' = migra \ {m}
  /\ \/ /\ cred' = [cred EXCEPT ![m.k].atual = m.segredo, ![m.k].legado = FALSE]
        /\ desfeitas' = IF m.n < Len(entregues[m.k]) THEN desfeitas \cup {m.k} ELSE desfeitas
     \/ UNCHANGED <<cred, desfeitas>>
  /\ UNCHANGED <<acesso, orc, entregues, abertos, nonces, pix, tropecos>>
-----------------------------------------------------------------------------
(* PIX keys: registered or registered again by the owner, decided, revoked  *)
(* or removed; the situation read is checked, the row is written by id.     *)
DoDono == ({"nenhuma", "REPROVADA", "REVOGADA"} \X {"PENDENTE"})
          \cup ({"PENDENTE", "APROVADA", "REPROVADA"} \X {"REVOGADA"})
DoAdmin == {<<"PENDENTE", "APROVADA">>, <<"PENDENTE", "REPROVADA">>, <<"APROVADA", "REVOGADA">>}
PedirPix(s, c, x) ==
  /\ ato[s] = Livre
  /\ Gasta("chaves")
  /\ \E p \in (IF Habilitada(c) THEN DoDono ELSE {}) \cup DoAdmin :
       /\ pix[c][x] = p[1]
       /\ Ocupa(s, [op |-> "pix", c |-> c, x |-> x, sit |-> p[2], nova |-> p[1] = "nenhuma"])
  /\ UNCHANGED <<conta, docs, dois, link, tokens, relogio, cruzadas, editadas, externo>>
(* A second registration of the same key is refused by its unique index.    *)
GravarPix(s) ==
  LET a == ato[s] IN
  /\ a.op = "pix"
  /\ pix' = [pix EXCEPT ![a.c][a.x] = IF a.nova /\ @ # "nenhuma" THEN @ ELSE a.sit]
  /\ Ocupa(s, Livre)
  /\ UNCHANGED <<conta, docs, dois, link, tokens, relogio, cruzadas, editadas, orc,
                 cred, entregues, migra, abertos, nonces, marcas>>

PassoCredencial ==
  \/ \E k \in Chaves :
       \/ Criar(k) \/ Editar(k) \/ EncerrarJanela(k) \/ Revogar(k)
       \/ \E i \in Ips : EditarIp(k, i)
       \/ \E g \in {cred[k].atual, cred[k].anterior} \ {0}, i \in Ips : Autenticar(k, g, i)
  \/ \E s \in Sessoes, k \in Chaves : PedirRotacao(s, k)
  \/ \E s \in Sessoes : Rotacionar(s) \/ GravarPix(s)
  \/ \E m \in migra : Migrar(m)
  \/ \E t \in abertos, i \in Ips, n \in Nonces : ChamarApi(t, i, n)
  \/ \E s \in Sessoes, c \in Contas, x \in ChavesPix : PedirPix(s, c, x)
-----------------------------------------------------------------------------
(* However rotations, rewrites of the old hash format, authentications and  *)
(* deaths interleave, the last secret handed out is accepted, two rotations *)
(* that read the same row included, until a rewrite begun before the last   *)
(* rotation lands after it (RotacaoNaoSeDesfaz fails there).  Of the older  *)
(* secrets only the one before the last is accepted, unless a rotation of   *)
(* the credential crossed another one or a rewrite: then an older one may   *)
(* be, and the one before the last is not.                                  *)
UltimoSegredoVale ==
  \A k \in Chaves :
    cred[k].ativa =>
      /\ k \notin desfeitas => Aceita(k, Ultimo(k))
      /\ k \notin tropecos =>
           \A g \in 1..Len(entregues[k]) :
             Aceita(k, entregues[k][g]) => g >= Len(entregues[k]) - 1

(* What a rotation promises without that exception ("durante a janela, os   *)
(* DOIS segredos funcionam", rotacao-segredo.spec.ts:51), and the code does *)
(* not keep: the rewrite writes by id and compares nothing.                 *)
RotacaoNaoSeDesfaz == \A k \in Chaves : cred[k].ativa => Aceita(k, Ultimo(k))

(* The secrets of a credential are numbered as handed out, the live row     *)
(* holds the last two, and a rotation or a rewrite in flight carries the    *)
(* last one; after a crossing, the row and a rewrite as young as the last   *)
(* rotation still hold the last one, unless that rotation was undone.       *)
LinhaDeCred == [ativa : BOOLEAN, atual : Nat, legado : BOOLEAN, anterior : Nat,
                antLegado : BOOLEAN, expira : Nat, ips : SUBSET Ips]
SegredoInv ==
  /\ cred \in [Chaves -> LinhaDeCred] /\ entregues \in [Chaves -> Seq(Nat)]
  /\ \A k \in Chaves :
       /\ \A i \in 1..Len(entregues[k]) : entregues[k][i] = i
       /\ cred[k].ativa => entregues[k] # <<>>
       /\ k \notin desfeitas => cred[k].atual = Len(entregues[k])
       /\ k \notin tropecos =>
            /\ cred[k].atual = Len(entregues[k])
            /\ cred[k].anterior = 0 \/ cred[k].anterior + 1 = Len(entregues[k])
  /\ \A m \in migra :
       /\ m = [k |-> m.k, segredo |-> m.segredo, n |-> m.n]
       /\ m.k \in Chaves /\ m.segredo \in Nat /\ m.n \in Nat
       /\ entregues[m.k] # <<>> /\ m.n <= Len(entregues[m.k])
       /\ m.k \notin desfeitas /\ m.n = Len(entregues[m.k]) => m.segredo = m.n
       /\ m.k \notin tropecos => m.segredo = Len(entregues[m.k])
  /\ \A s \in Sessoes : ato[s].op = "rotacionar" =>
       /\ ato[s].k \in Chaves /\ ato[s].lida \in LinhaDeCred /\ ato[s].expira \in Nat
       /\ entregues[ato[s].k] # <<>>
       /\ ato[s].k \notin tropecos => ato[s].lida.atual = Len(entregues[ato[s].k])
=============================================================================
