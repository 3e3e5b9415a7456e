SPECIFICATION SpecJusta
CHECK_DEADLOCK FALSE
CONSTANTS
  p1 = p1
  p2 = p2
  p3 = p3
  w1 = w1
  w2 = w2
  h1 = h1
  Pedidos = {p1}
  Workers = {w1}
  Ganchos = {h1}
  Ninguem = Ninguem
  Ref <- MCRef
  SemReferencia = "sem"
  Valor <- MCValor
  Tarifa <- MCTarifa
  SaldoInicial = 6
  Limite = 4
  EcoaReferencia = TRUE
  PerdeTrava = FALSE
  MaxTentativas = 2
  MaxParadas = 1
  MaxQuedas = 1
  MaxTrocas = 2
PROPERTIES PagoConclui NaoFicaEsquecido
