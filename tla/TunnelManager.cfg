\* Settings change between restarts, tun2socks may fail once; two commands and
\* a callback of the core, or a command and two callbacks.
CONSTANTS
  Configs <- MCConfigs
  MaxCommands = 2
  MaxCore = 2
  MaxInputs = 3
  MaxFaults = 1
SPECIFICATION Spec
INVARIANTS SoundRoutingIsReal RelayAgreesUnlessEarly TornDownForGood PumpIsGuarded
INVARIANT HeardConnectionIsShown
PROPERTY StopCompletes
CHECK_DEADLOCK FALSE
