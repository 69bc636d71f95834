SPECIFICATION Spec
CONSTANTS
    Exchange <- MCExchange
    Configs <- MCConfigs
    Ticks <- MCTicks
INVARIANTS TypeOK StalenessBounded InOrderPasses MildDisorderPasses SortedBook
PROPERTIES StrangersLeaveNoTrace
