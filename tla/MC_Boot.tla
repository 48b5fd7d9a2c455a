------------------------------ MODULE MC_Boot ------------------------------
(* A key with the first, the last and a middle value of a byte; SD cards of  *)
(* the three generations; transfers of two sectors.                          *)
EXTENDS Boot

MCKeys    == {<<2, 0, 1>>}
MCSdKinds == {{}, {"v2"}, {"v2", "hc", "switch"}}
Msg(name, d, first, n) == [name |-> name, dev |-> d, first |-> first, n |-> n]
MCRequests ==
  {NandStart, Msg("sdcard_init", "sd", 0, 0), Msg("readsectors", "sd", 1, 2),
   Msg("readsectors", "nand", 1, 2), Msg("writesectors", "nand", 1, 2)}
=============================================================================
