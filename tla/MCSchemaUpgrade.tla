--------------------------- MODULE MCSchemaUpgrade ---------------------------
EXTENDS SchemaUpgrade

MCKindOf == [u \in Symbols |-> IF u \in {"SPX", "NDX"} THEN "index"
                               ELSE IF u = "AAPL" THEN "equity" ELSE "future"]
=============================================================================
