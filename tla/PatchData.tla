------------------------------ MODULE PatchData ------------------------------
(* The patches of patch_data.cpp: ARM code the launcher contains, and what  *)
(* replaces it.                                                             *)
EXTENDS Sequences

patternLangMaskPatch ==
  <<\h01, \h48, \h00, \h68, \h70, \h47, \hC0, \h46, \h68, \hFD, \hFF, \h02>>
patchLangMaskPatch ==
  <<\h01, \h4B, \h7F, \h20, \h18, \h60, \h70, \h47, \h68, \hFD, \hFF, \h02>>
patternFilterPatch ==
  <<\h02, \h98, \h08, \h42, \h00, \hD1, \h00, \h22, \h00, \h2A>>
patchFilterPatch ==
  <<\h02, \h98, \h08, \h42, \hC0, \h46, \h01, \h22, \h00, \h2A>>
patternRegionPatch ==
  <<\h01, \h48, \h00, \h7A, \h70, \h47, \hC0, \h46, \h68, \hFD, \hFF, \h02>>
patchRegionPatch ==
  <<\h01, \h4B, \h02, \h20, \h18, \h72, \h70, \h47, \h68, \hFD, \hFF, \h02>>

Region(value, asDefault, byte) ==
  [name |-> "Region", value |-> value, asDefault |-> asDefault,
   offset |-> 2, change |-> <<byte>>]
patchOptionsRegions ==
  <<Region("Japan", FALSE, 0), Region("North America", FALSE, 1),
    Region("Europe", TRUE, 2), Region("Australia", FALSE, 3)>>

patchList ==
  <<[pattern |-> patternLangMaskPatch, patch |-> patchLangMaskPatch, options |-> <<>>],
    [pattern |-> patternFilterPatch, patch |-> patchFilterPatch, options |-> <<>>],
    [pattern |-> patternRegionPatch, patch |-> patchRegionPatch,
     options |-> patchOptionsRegions]>>
=============================================================================
