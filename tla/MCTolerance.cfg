SPECIFICATION Spec
CONSTANTS
    Exchange <- MCExchange
    Configs <- MCConfigs
    Ticks <- MCTicks
INVARIANTS ToleranceIsMilliseconds
