SPECIFICATION SpecJusta
CHECK_DEADLOCK FALSE
CONSTANTS
  a1 = a1
  a2 = a2
  a3 = a3
  c1 = c1
  c2 = c2
  c3 = c3
  s1 = s1
  s2 = s2
  k1 = k1
  k2 = k2
  Adqs = {a1, a2, a3}
  Clientes = {c1, c2, c3}
  Novos = {c3}
  Sessoes = {s1, s2}
  Padrao = a1
  Cadeias <- MCCadeias
  Chamadas = {1, 2, 3}
  ClienteDe <- MCClienteDe
  DadosDe <- MCDadosDe
  Gatilhos <- MCGatilhos
  Operarios = {k1, k2}
  MaxRelogio = 5
  Orcamentos <- MCOrcamentos
INVARIANTS CobrancaCasa UmDisparoPorJanela
PROPERTIES  PagoCredita
