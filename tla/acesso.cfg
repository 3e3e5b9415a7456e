SPECIFICATION Spec
CHECK_DEADLOCK FALSE
CONSTANTS
  c1 = c1
  s1 = s1
  s2 = s2
  k1 = k1
  x1 = x1
  i1 = i1
  i2 = i2
  Contas = {c1}
  Sessoes = {s1, s2}
  TiposDoc = {"identidade", "contratoSocial", "contratoServico"}
  DoCliente = {"identidade", "contratoSocial"}
  Exigidos <- MCExigidos
  MaxDocs = 3
  Duracao = 4
  Teto = 6
  Margem = 0
  Validade = 1
  MaxRelogio = 9
  Orcamentos <- MCOrcamentos
  Chaves = {k1}
  DonoDe <- MCDonoDe
  Ips = {i1, i2}
  Janelas = {0, 1}
  Nonces = {1}
  JanelaHmac = 1
  ChavesPix = {x1}
INVARIANTS AnaliseAcompanhaDocumentos SessaoTemTeto UltimoSegredoVale
