-------------------------------- MODULE Patch --------------------------------
(***************************************************************************)
(* Patching the launcher in memory: patch_applyPatternPatches,             *)
(* patch_getAvailableOptions and patch_applySelectedOptions of patch.cpp,  *)
(* OptionSelect of ui.cpp, and the part of main.cpp that runs them         *)
(* (278-316).                                                              *)
(*                                                                         *)
(* The scan looks for every pattern at every offset of an image that it is *)
(* changing as it goes, and keeps of the matches only their number and the *)
(* last offset.  A patch entry is [pattern, patch, options]; a patch that  *)
(* only searches has the empty sequence for `patch`.  An option is         *)
(* [name, value, asDefault, offset, change].  Offsets count from 0, so the *)
(* byte at offset x is target[x + 1].                                      *)
(***************************************************************************)
EXTENDS Integers, Sequences

CONSTANTS
  Byte,      \* values of a byte
  Images,    \* launchers to patch, as read and decrypted
  Patches,   \* patchList
  Key        \* [up, down, a]: sets of keys that go down in one frame

Names == 1 .. Len(Patches)

VARIABLES
  original,  \* history: the image before the scan
  target,    \* the image in memory
  pc,        \* "scan", "check", "select", "apply", "write" or "error"
  i,         \* loop variable of the scan over the image; of main over the options
  patch,     \* loop variable over the patches, from 1
  optionNum, \* loop variable over the options of a patch, from 1
  result,    \* patchResults: [matchCount, lastFoundOffset] for each patch
  options    \* Seq of [name, values, selection]

vars == <<original, target, pc, i, patch, optionNum, result, options>>

-----------------------------------------------------------------------------
(* Images *)

Pattern(p) == Patches[p].pattern
Size(p)    == Len(Pattern(p))
Window(o, n)        == (o + 1) .. (o + n)           \* n bytes at offset o
Matches(img, o, p)  == /\ o + Size(p) <= Len(img)
                       /\ \A x \in 1 .. Size(p) : img[o + x] = Pattern(p)[x]
CopiedShort(img, o, bytes) ==            \* a mistake WrittenIsPatched would show
  [x \in 1 .. Len(img) |-> IF x \in Window(o, Len(bytes) - 1) THEN bytes[x - o] ELSE img[x]]
Copied(img, o, bytes) ==                            \* memcpy(img + o, bytes)
  [x \in 1 .. Len(img) |-> IF x \in Window(o, Len(bytes)) THEN bytes[x - o] ELSE img[x]]

(* patch_findOption, and its like for values: the first index, 0 if none.  *)
IndexWhere(seq, Test(_)) ==
  IF \E n \in 1 .. Len(seq) : Test(seq[n])
  THEN CHOOSE n \in 1 .. Len(seq) : Test(seq[n]) /\ \A m \in 1 .. (n - 1) : ~Test(seq[m])
  ELSE 0
FindOption(opts, name) == LET Named(o) == o.name = name IN IndexWhere(opts, Named)
FindValueShort(values, v) ==             \* a mistake OptionsMerged would show
  IF values = <<>> THEN 0
  ELSE LET Same(w) == w = v IN IndexWhere(SubSeq(values, 1, Len(values) - 1), Same)
FindValue(values, v)   == LET Same(w) == w = v IN IndexWhere(values, Same)

(* patch_getAvailableOptions: one round of the inner loop, all of them for *)
(* a patch, and the outer loop over the first p patches.                   *)
AddOption(opts, o) ==
  LET known == IF FindOption(opts, o.name) # 0 THEN opts
               ELSE Append(opts, [name |-> o.name, values |-> <<>>, selection |-> 1])
      n      == FindOption(known, o.name)
      values == IF FindValue(known[n].values, o.value) # 0 THEN known[n].values
                ELSE Append(known[n].values, o.value)
      chosen == IF o.asDefault THEN FindValue(values, o.value) ELSE known[n].selection
  IN  [known EXCEPT ![n] = [name |-> o.name, values |-> values, selection |-> chosen]]
Merged(opts, os) ==
  LET upTo[n \in 0 .. Len(os)] == IF n = 0 THEN opts ELSE AddOption(upTo[n - 1], os[n])
  IN  upTo[Len(os)]
Collected[p \in 0 .. Len(Patches)] ==
  IF p = 0 THEN <<>> ELSE Merged(Collected[p - 1], Patches[p].options)
AvailableOptions == Collected[Len(Patches)]

(* What the scan notes of a match at offset o, and what main refuses; with  *)
(* mistakes that AcceptedOnce, TypeOK and AcceptsOriginals would show.      *)
CountedOnce(r, o) == [matchCount |-> 1, lastFoundOffset |-> o]
CountedAhead(r, o) == [matchCount |-> r.matchCount + 1, lastFoundOffset |-> o - 1]
Counted(r, o)  == [matchCount |-> r.matchCount + 1, lastFoundOffset |-> o]
RefusedNone(r) == r.matchCount = 0
Refused(r)     == r.matchCount = 0 \/ r.matchCount > 1

-----------------------------------------------------------------------------
Init ==
  /\ target \in Images
  /\ original = target
  /\ pc = "scan"
  /\ i = 0
  /\ patch = 1
  /\ optionNum = 1
  /\ result = [p \in Names |-> [matchCount |-> 0, lastFoundOffset |-> 0]]
  /\ options = <<>>

(* patch_applyPatternPatches: one pattern at one offset.                   *)
TryPatch ==
  /\ pc = "scan"
  /\ i < Len(target)
  /\ patch <= Len(Patches)
  /\ IF Matches(target, i, patch)
     THEN /\ target' = Copied(target, i, Patches[patch].patch)
          /\ result' = [result EXCEPT ![patch] = Counted(@, i)]
     ELSE UNCHANGED <<target, result>>
  /\ patch' = patch + 1
  /\ UNCHANGED <<original, pc, i, optionNum, options>>

NextOffset ==
  /\ pc = "scan"
  /\ i < Len(target)
  /\ patch > Len(Patches)
  /\ i' = i + 1
  /\ patch' = 1
  /\ UNCHANGED <<original, target, pc, optionNum, result, options>>

ScanDone ==
  /\ pc = "scan"
  /\ i = Len(target)
  /\ pc' = "check"
  /\ patch' = 1
  /\ UNCHANGED <<original, target, i, optionNum, result, options>>

(* main.cpp:292-303, for one patch: Log(LOGLEVEL_ERROR) does not return.   *)
CheckResult ==
  /\ pc = "check"
  /\ patch <= Len(Patches)
  /\ pc' = IF Refused(result[patch]) THEN "error" ELSE "check"
  /\ patch' = patch + 1
  /\ UNCHANGED <<original, target, i, optionNum, result, options>>

GetOptions ==
  /\ pc = "check"
  /\ patch > Len(Patches)
  /\ options' = AvailableOptions
  /\ pc' = "select"
  /\ i' = 1
  /\ UNCHANGED <<original, target, patch, optionNum, result>>

(* One frame of OptionSelect for option i: the keys that went down.        *)
Frame(keys) ==
  LET last == Len(options[i].values)
      s0   == options[i].selection
      s1   == IF keys.up THEN (IF s0 = 1 THEN last ELSE s0 - 1) ELSE s0
      s2   == IF keys.down THEN (IF s1 = last THEN 1 ELSE s1 + 1) ELSE s1
  IN  /\ pc = "select"
      /\ i <= Len(options)
      /\ options' = [options EXCEPT ![i].selection = s2]
      /\ i' = IF keys.a THEN i + 1 ELSE i
      /\ UNCHANGED <<original, target, pc, patch, optionNum, result>>
OptionSelect == \E keys \in Key : Frame(keys)

SelectDone ==
  /\ pc = "select"
  /\ i > Len(options)
  /\ pc' = "apply"
  /\ patch' = 1
  /\ optionNum' = 1
  /\ UNCHANGED <<original, target, i, result, options>>

(* patch_applySelectedOptions: one option of one patch.                    *)
ApplyOption ==
  LET o == Patches[patch].options[optionNum]
      n == FindOption(options, o.name)
  IN  /\ pc = "apply"
      /\ patch <= Len(Patches)
      /\ optionNum <= Len(Patches[patch].options)
      /\ target' = IF /\ n # 0
                      /\ o.value = options[n].values[options[n].selection]
                      /\ result[patch].matchCount # 0
                   THEN Copied(target, result[patch].lastFoundOffset + o.offset, o.change)
                   ELSE target
      /\ optionNum' = optionNum + 1
      /\ UNCHANGED <<original, pc, i, patch, result, options>>

NextPatch ==
  /\ pc = "apply"
  /\ patch <= Len(Patches)
  /\ optionNum > Len(Patches[patch].options)
  /\ patch' = patch + 1
  /\ optionNum' = 1
  /\ UNCHANGED <<original, target, pc, i, result, options>>

ApplyDone ==
  /\ pc = "apply"
  /\ patch > Len(Patches)
  /\ pc' = "write"
  /\ UNCHANGED <<original, target, i, patch, optionNum, result, options>>

Next == \/ TryPatch \/ NextOffset \/ ScanDone \/ CheckResult \/ GetOptions
        \/ OptionSelect \/ SelectDone \/ ApplyOption \/ NextPatch \/ ApplyDone

Spec == Init /\ [][Next]_vars

-----------------------------------------------------------------------------
(* A patch replaces its whole pattern, and an option a part of the patch.  *)
ASSUME PatchAssumption ==
  /\ Images \subseteq Seq(Byte)
  /\ Patches \in Seq([pattern : Seq(Byte), patch : Seq(Byte),
                      options : Seq([name : STRING, value : STRING, asDefault : BOOLEAN,
                                     offset : Nat, change : Seq(Byte)])])
  /\ \A p \in Names :
       /\ Size(p) > 0
       /\ Len(Patches[p].patch) \in {0, Size(p)}
       /\ \A n \in 1 .. Len(Patches[p].options) :
            Patches[p].options[n].offset + Len(Patches[p].options[n].change) <= Size(p)
  /\ Key \subseteq [up : BOOLEAN, down : BOOLEAN, a : BOOLEAN]

-----------------------------------------------------------------------------
(* Properties *)

TypeOK ==
  /\ original \in Seq(Byte)
  /\ target \in Seq(Byte) /\ Len(target) = Len(original)
  /\ pc \in {"scan", "check", "select", "apply", "write", "error"}
  /\ i \in Nat /\ (pc = "scan" => i <= Len(target))
  /\ patch \in 1 .. (Len(Patches) + 1)
  /\ optionNum \in Nat \ {0}
  /\ result \in [Names -> [matchCount : Nat, lastFoundOffset : Nat]]

Accepted == pc \in {"select", "apply", "write"}

(* patch.cpp:18-26, 116-120, main.cpp:292-303.  A launcher that main        *)
(* accepted differs from the one that was read only inside the one place    *)
(* of a pattern that the results report: no match that was overlooked, and  *)
(* no option, altered anything else that ends up in launcher.dsi.           *)
AcceptedOnce ==
  Accepted => \A x \in 1 .. Len(target) : target[x] # original[x] =>
    \E p \in Names : /\ result[p].matchCount = 1
                     /\ x \in Window(result[p].lastFoundOffset, Size(p))

(* Patterns that may share bytes of a launcher, q beginning d bytes behind *)
(* p, leave them alone there; patterns that may not share them may not do  *)
(* so once p is patched either.  The properties below hold of such lists.  *)
Altered(p) ==
  {x \in 1 .. Size(p) :
     \/ Patches[p].patch # <<>> /\ Patches[p].patch[x] # Pattern(p)[x]
     \/ \E n \in 1 .. Len(Patches[p].options) :
          LET o == Patches[p].options[n] IN x \in Window(o.offset, Len(o.change))}
Shared(p, q, d)        == {x \in 1 .. Size(p) : x - d \in 1 .. Size(q)}
Differs(bytes, p, q, d) == \E x \in Shared(p, q, d) : bytes[x] # Pattern(q)[x - d]
Compatible(p, q, d) ==
  \/ Shared(p, q, d) \cap Altered(p) = {}
  \/ /\ Differs(Pattern(p), p, q, d)
     /\ Patches[p].patch # <<>> => Differs(Patches[p].patch, p, q, d)
PatchesCompatible ==
  \A p, q \in Names : \A d \in (1 - Size(q)) .. (Size(p) - 1) :
    p # q \/ d # 0 => Compatible(p, q, d)

(* main.cpp:292-303.  The check is done on counts of a scan over an image  *)
(* that the patches change; it lets a launcher pass if and only if the     *)
(* launcher that was read holds every pattern exactly once.                *)
Occurrences(img, p) == {o \in 0 .. (Len(img) - 1) : Matches(img, o, p)}
Once(img) == \A p \in Names : \E o \in Occurrences(img, p) : Occurrences(img, p) = {o}
AcceptsOriginals == (Accepted => Once(original)) /\ (pc = "error" => ~Once(original))

(* What is written is the launcher with each patch at the place of its     *)
(* pattern and in each patch the bytes of the options the user chose.      *)
Chosen(o) == \E n \in 1 .. Len(options) :
               options[n].name = o.name /\ options[n].values[options[n].selection] = o.value
PatchByte(p, x) ==
  LET hits == {n \in 1 .. Len(Patches[p].options) :
                 LET o == Patches[p].options[n] IN
                 Chosen(o) /\ x \in Window(o.offset, Len(o.change))}
      byte(n) == Patches[p].options[n].change[x - Patches[p].options[n].offset]
  IN  IF hits # {} THEN {byte(n) : n \in hits}
      ELSE {IF Patches[p].patch = <<>> THEN Pattern(p)[x] ELSE Patches[p].patch[x]}
WrittenIsPatched ==
  pc = "write" => \A x \in 1 .. Len(target) :
    LET covers == {p \in Names : \E o \in Occurrences(original, p) : x \in Window(o, Size(p))}
        place(p) == CHOOSE o \in Occurrences(original, p) : TRUE
    IN  IF covers = {} THEN target[x] = original[x]
        ELSE \A p \in covers : target[x] \in PatchByte(p, x - place(p))

(* patch_getAvailableOptions: every name is asked for once, with every     *)
(* value that some patch gives it once, and a selection among them at      *)
(* every moment, whatever keys are pressed.                                *)
OfPatch(p) == {<<Patches[p].options[n].name, Patches[p].options[n].value>> :
                 n \in 1 .. Len(Patches[p].options)}
Offered    == UNION {OfPatch(p) : p \in Names}
Asked      == UNION {{<<options[n].name, options[n].values[v]>> :
                        v \in 1 .. Len(options[n].values)} : n \in 1 .. Len(options)}
OptionsMerged ==
  /\ \A m, n \in 1 .. Len(options) : options[m].name = options[n].name => m = n
  /\ \A n \in 1 .. Len(options) : \A v, w \in 1 .. Len(options[n].values) :
       options[n].values[v] = options[n].values[w] => v = w
  /\ Accepted => Asked = Offered
  /\ \A n \in 1 .. Len(options) : options[n].selection \in 1 .. Len(options[n].values)
=============================================================================
