SPECIFICATION Spec
CONSTANTS
    Exchange <- MCExchange
    ContractList <- MCContractList
    CpuCount = 3
    MAX_TICK_QUEUE_SIZE = 3
    Packet <- MCPacket
    InstrumentID <- MCInstrumentID
    MarketData <- MCMarketData
    Rules <- MCRules
    MaxArrivals = 4
INVARIANTS BookVolumesForwarded
