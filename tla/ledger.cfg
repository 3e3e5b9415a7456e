SPECIFICATION Spec
CONSTANTS
  c1 = c1
  c2 = c2
  cashin = cashin
  saque = saque
  liberacao = liberacao
  med = med
  divergente = divergente
  Ninguem = Ninguem
  Disponivel = "DISPONIVEL"
  Chamadores = {c1, c2}
  Baldes <- MCBaldes
  Chamadas <- MCChamadas
  Chaves <- MCChaves
  Entradas <- MCEntradas
  Negativo <- MCNegativo
  ComEvento <- MCComEvento
INVARIANTS ExtratoFecha UmaPorChave SemDescoberto TudoOuNada
PROPERTY ImplementaRazao
SYMMETRY MCSimetria
