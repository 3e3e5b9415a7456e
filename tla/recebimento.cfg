SPECIFICATION SpecJusta
CHECK_DEADLOCK FALSE
CONSTANTS
  v1 = v1
  v2 = v2
  w1 = w1
  w2 = w2
  w3 = w3
  s1 = s1
  s2 = s2
  o1 = o1
  o2 = o2
  Sessoes = {s1, s2}
  Bloqueios = {1, 2}
  ValorDo <- MCValorDo
  Origens <- OrigensDeCredito
  Vendas = {v1, v2}
  Bruto <- MCBruto
  Principal <- MCPrincipal
  Reserva <- MCReserva
  Avisos = {w1, w2, w3}
  VendaDo <- MCVendaDo
  Pagos = {w1, w3}
  Fantasmas = {v2}
  LimiteMetodo = 30
  Isentas = {}
  MinimoDia = 0
  Offsets = {0, 1}
  MaxTentativas = 2
  Ontem = {o1, o2}
  BrutoOntem <- MCBrutoOntem
  PercentualMed = 60
  Tolerancia = 1
  MedNegativo = FALSE
  Orcamentos <- MCOrcamentos
INVARIANTS CreditoUnico ParadoTemLiberacao LinhaIgualExtrato RetencaoNoLimite ConvertidaFoiDebitada
PROPERTY LiberacaoAcontece
