CONSTANTS
    Requests <- MCRequests
    Converters <- MCConverters
SPECIFICATION MCSpec
INVARIANTS TemperatureServed SlotsMatch
PROPERTY Served
