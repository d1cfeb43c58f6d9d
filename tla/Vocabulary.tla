------------------------------ MODULE Vocabulary ------------------------------
(* The enumerations of contracts/enums.py that several modules speak. *)

CONSTANT NULL    \* None

Broker == {"sim", "liberator", "streaming_pro"}
_REAL_BROKERS == {"liberator", "streaming_pro"}
Market == {"SET", "TFEX"}
Side == {"BUY", "SELL"}
OrderType == {"MARKET", "LIMIT", "STOP", "STOP_LIMIT", "ICEBERG", "MTL", "ATO", "ATC"}
Tif == {"DAY", "IOC", "FOK", "GTC"}
PositionEffect == {"OPEN", "CLOSE"}
Stage == {"sim", "paper", "micro_live", "live"}

Given(x, default) == IF x # NULL THEN x ELSE default
=============================================================================
