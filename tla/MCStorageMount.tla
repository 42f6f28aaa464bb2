--------------------------- MODULE MCStorageMount ---------------------------
(* Boots without end, each of which may fail or be cut short anywhere.     *)
EXTENDS StorageMount
=============================================================================
