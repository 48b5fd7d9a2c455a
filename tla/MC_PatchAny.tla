----------------------------- MODULE MC_PatchAny -----------------------------
(* Patches nobody would write on every image of a few bytes: patterns that   *)
(* overlap with themselves and each other, patches that produce or destroy   *)
(* other patterns, an entry that only searches, options that share names,    *)
(* values and defaults.                                                     *)
EXTENDS Patch

CONSTANTS MaxLen

MCByte == {0, 1}
Opt(n, v, d, b) == [name |-> n, value |-> v, asDefault |-> d, offset |-> 1, change |-> <<b>>]
MCPatches ==
  <<[pattern |-> <<0, 0>>, patch |-> <<0, 1>>,
     options |-> <<Opt("Region", "Japan", TRUE, 0), Opt("Language", "Japan", FALSE, 1)>>],
    [pattern |-> <<1, 0>>, patch |-> <<>>, options |-> <<>>],
    [pattern |-> <<0, 1, 1>>, patch |-> <<1, 1, 0>>,
     options |-> <<Opt("Region", "Europe", TRUE, 0), Opt("Region", "Japan", FALSE, 1)>>]>>
MCImages == UNION {[1 .. n -> MCByte] : n \in 0 .. MaxLen}
MCKey    == [up : BOOLEAN, down : BOOLEAN, a : BOOLEAN]
=============================================================================
