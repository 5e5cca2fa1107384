SPECIFICATION Spec
CONSTANTS
  Envs = {dev, prod}
  NoEnv = NoEnv
  Runs = {r1, r2}
  MaxBundles = 2
  MaxDeploys = 3
SYMMETRY Symmetry
CHECK_DEADLOCK FALSE
INVARIANTS TypeOK DeployedIsWhole RenewedStaysCurrent
