SPECIFICATION FairSpec
CONSTANTS
  coinbase = coinbase
  kraken = kraken
  ADAUSD = ADAUSD
  ADAUSDT = ADAUSDT
  Configured <- ADASources
  FeedSymbol = ADAUSD
  Ttl = 0
  FreshFor = 0
  MaxDelay = 1
  MaxTime = 1
  NoPrice = NoPrice
PROPERTIES
  NoUpdateIsLost
  Reflected
