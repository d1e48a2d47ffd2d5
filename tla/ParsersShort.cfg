CONSTANTS
    DataCounters = {"PortXmitData"}
    PlainCounters = {"SymbolErrorCounter", "PortLocalPhysicalErrors"}
    NotAPair = "comment"
    NoPort = ""
    NaN = NaN
    BadNumber = BadNumber
    LaneRates = {"SDR", "EDR", "HDR"}
    NoPeer = NoPeer
    NoName = NoName
    NoReading = NoReading
    Garbled = Garbled
    Blank = Blank
    NoPsu = ""
    OneDigit = {"0", "1", "2", "3", "4", "5", "6", "7", "8", "9"}
    MaxPerfLines = 1
    MaxNetLines = 3
    NoSwitch = NoSwitch
SPECIFICATION Spec
INVARIANTS NetShortSkipped
CHECK_DEADLOCK FALSE
