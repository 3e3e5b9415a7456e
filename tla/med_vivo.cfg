SPECIFICATION SpecJusta
CHECK_DEADLOCK FALSE
CONSTANTS
  c1 = c1
  c2 = c2
  v1 = v1
  e1 = e1
  e2 = e2
  e3 = e3
  a1 = a1
  a2 = a2
  w1 = w1
  w2 = w2
  Casos = {c1}
  Vendas = {v1}
  VendaDe <- MCVendaDe
  Valor <- MCValor
  Bruto <- MCBruto
  Entregas = {e1, e2}
  CasoDe <- MCCasoDe
  Analistas = {a1}
  Workers = {w1, w2}
  SaldoInicial = 1
  Negativo = FALSE
  ModoInicial = "BLOQUEAR_SALDO"
  LeituraVelha = FALSE
  MaxTentativas = 2
  MaxJobs = 2
  MaxQuedas = 1
  MaxTrocas = 1
  MaxGiros = 1
INVARIANT AvisaUmaVez
PROPERTY DevolucaoSai
