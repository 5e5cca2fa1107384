SPECIFICATION Spec
CONSTANTS
  Envs = {dev}
  NoEnv = NoEnv
  Runs = {r1}
  MaxBundles = 2
  MaxDeploys = 3
CHECK_DEADLOCK FALSE
INVARIANT DeployedBundleIsTrusted
