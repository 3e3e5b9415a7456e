SPECIFICATION SpecJusta
CHECK_DEADLOCK FALSE
CONSTANTS
  p1 = p1
  p2 = p2
  w1 = w1
  r1 = r1
  r2 = r2
  d1 = d1
  d2 = d2
  a1 = a1
  Eventos = {1, 2}
  DosApps = {1}
  Destinos = {d1, d2}
  Apps = {a1}
  Publicadores = {p1, p2}
  Entregadores = {w1}
  Remetentes = {r1, r2}
  MaxJobs = 3
  MaxTentativas = 2
  Orcamentos <- MCOrcamentos
INVARIANTS PublicaUmaVez
PROPERTIES EventoChega AppSabe
