SPECIFICATION QuoteSpec
CONSTANTS
  Requests = {r1, r2}
  CnStocks = {"ss"}
  Mainland = {"ss"}
  Stocks = {"us"}
  CnIndices = {"sse"}
  Indices = {"sse", "spx"}
  Commodities = {"gold"}
  Funds = {"fund"}
  Known = {"fund"}
  Asks <- MCAsks
  Limit <- MCLimit
SYMMETRY Symmetry
INVARIANTS RateHolds CachedIsStored
