SPECIFICATION Spec
CONSTANTS
    Exchange <- MCExchange
    Configs <- MCConfigs
    Ticks <- MCTicks
PROPERTIES CalendarOrderPasses
