------------------------- MODULE MCRefDataCache -------------------------
(* Two goroutines over two keys: a reader refreshes a cell while a writer  *)
(* commits and empties it, or empties every cell.                          *)
EXTENDS RefDataCache
=========================================================================
