------------------------ MODULE MCExchangeConnection ------------------------
EXTENDS ExchangeConnection
=============================================================================
