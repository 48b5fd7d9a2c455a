---------------------------- MODULE Patch_proofs ----------------------------
(***************************************************************************)
(* Proofs about Patch: the type invariant, and that nothing outside the    *)
(* places of the patterns is altered, for every launcher and every list of *)
(* patches.                                                                *)
(***************************************************************************)
EXTENDS Patch, TLAPS, SequenceTheorems, WellFoundedInduction

(* AcceptedOnce says nothing of the scan, where a byte may have been        *)
(* changed at any match so far: the invariant ties every altered byte to a  *)
(* pattern that was counted, and to its reported place if it was counted    *)
(* once.                                                                    *)
Reported(p, x) ==
  /\ result[p].matchCount >= 1
  /\ result[p].matchCount = 1 => x \in Window(result[p].lastFoundOffset, Size(p))
Confined == \A x \in 1 .. Len(target) :
              target[x] # original[x] => \E p \in Names : Reported(p, x)

(* What main has checked so far.                                            *)
Checked == /\ pc = "check" => \A p \in Names : p < patch => result[p].matchCount = 1
           /\ Accepted => \A p \in Names : result[p].matchCount = 1

Inv == TypeOK /\ Confined /\ Checked

-----------------------------------------------------------------------------
(* Induction over the natural numbers, in the form of a set.               *)

Less == {pair \in Nat \X Nat : pair[1] < pair[2]}

LEMMA LeastElement ==
  ASSUME NEW S \in SUBSET Nat, S # {}
  PROVE  \E x \in S : \A y \in S : x <= y
<1>1. IsWellFoundedOn(Less, Nat)
  BY NatLessThanWellFounded DEF OpToRel, Less
<1>2. PICK x \in S : \A y \in S : ~(<<y, x>> \in Less)
  BY <1>1, WFMin
<1>3. \A y \in S : ~(y < x)
  BY <1>2 DEF Less
<1> QED BY <1>3

LEMMA SetInduction ==
  ASSUME NEW S, 0 \in S, \A n \in Nat : n \in S => n + 1 \in S
  PROVE  \A n \in Nat : n \in S
<1> SUFFICES ASSUME Nat \ S # {}  PROVE FALSE
  OBVIOUS
<1>1. PICK x \in Nat \ S : \A y \in Nat \ S : x <= y
  BY LeastElement
<1>2. x - 1 \in Nat
  BY <1>1
<1>3. x - 1 \in S
  BY <1>1, <1>2
<1> QED BY <1>1, <1>2, <1>3

(* A first index that is in S.                                             *)
LEMMA FirstIndex ==
  ASSUME NEW len \in Nat, NEW S, NEW k \in 1 .. len, k \in S
  PROVE  \E n \in 1 .. len : n \in S /\ \A m \in 1 .. (n - 1) : m \notin S
<1>1. S \cap (1 .. len) \in SUBSET Nat /\ S \cap (1 .. len) # {}
  OBVIOUS
<1>2. PICK n \in S \cap (1 .. len) : \A m \in S \cap (1 .. len) : n <= m
  BY <1>1, LeastElement
<1> QED BY <1>2

(* A loop of m rounds, g[n] in round n, that keeps to the set X has a run f. *)
Loops(m, x0, g, f) == f[0] = x0 /\ \A n \in 1 .. m : f[n] = g[n][f[n - 1]]

LEMMA Iteration ==
  ASSUME NEW m \in Nat, NEW X, NEW x0 \in X, NEW g \in [1 .. m -> [X -> X]]
  PROVE  \E f \in [0 .. m -> X] : Loops(m, x0, g, f)
<1> DEFINE Run(k, f) == Loops(k, x0, g, f)
           S == {k \in Nat : k <= m => \E f \in [0 .. k -> X] : Run(k, f)}
<1> USE DEF Loops
<1>1. 0 \in S
  <2>1. [n \in 0 .. 0 |-> x0] \in [0 .. 0 -> X] /\ Run(0, [n \in 0 .. 0 |-> x0])
    OBVIOUS
  <2> QED BY <2>1
<1>2. ASSUME NEW k \in Nat, k \in S  PROVE k + 1 \in S
  <2> SUFFICES ASSUME k + 1 <= m  PROVE \E h \in [0 .. (k + 1) -> X] : Run(k + 1, h)
    OBVIOUS
  <2>1. PICK f \in [0 .. k -> X] : Run(k, f)
    BY <1>2
  <2> DEFINE h == [n \in 0 .. (k + 1) |-> IF n = k + 1 THEN g[k + 1][f[k]] ELSE f[n]]
  <2>2. f[k] \in X /\ g[k + 1][f[k]] \in X
    BY <2>1
  <2>3. h \in [0 .. (k + 1) -> X]
    BY <2>1, <2>2
  <2>4. ASSUME NEW n \in 1 .. (k + 1)  PROVE h[n] = g[n][h[n - 1]]
    <3>1. CASE n = k + 1
      <4>1. h[k + 1] = g[k + 1][f[k]] /\ h[k] = f[k] /\ n - 1 = k
        BY <3>1
      <4> QED BY <3>1, <4>1
    <3>2. CASE n \in 1 .. k
      <4>1. h[n] = f[n] /\ h[n - 1] = f[n - 1]
        BY <3>2
      <4> HIDE DEF h
      <4> QED BY <3>2, <4>1, <2>1
    <3> QED BY <3>1, <3>2
  <2>5. h[0] = x0
    BY <2>1
  <2> QED BY <2>3, <2>4, <2>5
<1> HIDE DEF S
<1>3. m \in S
  BY <1>1, <1>2, SetInduction
<1> QED BY <1>3 DEF S

-----------------------------------------------------------------------------
(* memcpy keeps the length and touches only its window.                     *)
LEMMA CopiedFacts ==
  ASSUME NEW img \in Seq(Byte), NEW bytes \in Seq(Byte), NEW o \in Nat
  PROVE  /\ Copied(img, o, bytes) \in Seq(Byte)
         /\ Len(Copied(img, o, bytes)) = Len(img)
         /\ \A x \in 1 .. Len(img) : x \notin Window(o, Len(bytes)) =>
              Copied(img, o, bytes)[x] = img[x]
<1> DEFINE C == [x \in 1 .. Len(img) |-> IF x \in Window(o, Len(bytes)) THEN bytes[x - o] ELSE img[x]]
<1>1. ASSUME NEW x \in 1 .. Len(img), x \in Window(o, Len(bytes))
      PROVE  bytes[x - o] \in Byte
  <2>1. x - o \in 1 .. Len(bytes)
    BY <1>1 DEF Window
  <2> QED BY <2>1
<1>2. \A x \in 1 .. Len(img) : img[x] \in Byte
  OBVIOUS
<1>3. \A x \in 1 .. Len(img) : C[x] \in Byte
  BY <1>1, <1>2
<1>4. C \in [1 .. Len(img) -> Byte]
  BY <1>3
<1>5. Len(img) \in Nat
  OBVIOUS
<1>6. C \in Seq(Byte) /\ Len(C) = Len(img)
  BY <1>4, <1>5
<1> QED BY <1>6 DEF Copied

(* Bytes b .. b + n of a window of m bytes at a.                            *)
LEMMA WindowNested ==
  ASSUME NEW a \in Nat, NEW b \in Nat, NEW n \in Nat, NEW m \in Nat, b + n <= m,
         NEW x \in Window(a + b, n)
  PROVE  x \in Window(a, m)
BY DEF Window

LEMMA WindowMoved ==
  ASSUME NEW a \in Nat, NEW b \in Nat, NEW n \in Nat, NEW x \in Int
  PROVE  /\ x - a \in Window(b, n) <=> x \in Window(a + b, n)
         /\ x - (a + b) = (x - a) - b
         /\ x \in Window(b, n) => x - b \in 1 .. n
BY DEF Window

LEMMA ElementType ==
  ASSUME NEW S, NEW s \in Seq(S), NEW n \in 1 .. Len(s)
  PROVE  s[n] \in S
OBVIOUS

Text       == STRING
OptionType == [name : Text, value : Text, asDefault : BOOLEAN,
               offset : Nat, change : Seq(Byte)]

(* The patch list as the code may rely on it.                               *)
LEMMA PatchFacts ==
  /\ Len(Patches) \in Nat
  /\ \A p \in Names :
       /\ Patches[p].pattern \in Seq(Byte)
       /\ Patches[p].patch \in Seq(Byte)
       /\ Patches[p].options \in Seq(OptionType)
       /\ Size(p) \in Nat /\ Size(p) > 0
       /\ Len(Patches[p].patch) \in {0, Size(p)}
       /\ \A n \in 1 .. Len(Patches[p].options) :
            /\ Patches[p].options[n].offset \in Nat
            /\ Patches[p].options[n].change \in Seq(Byte)
            /\ Patches[p].options[n].offset + Len(Patches[p].options[n].change) <= Size(p)
<1> DEFINE Entry == [pattern : Seq(Byte), patch : Seq(Byte), options : Seq(OptionType)]
<1>1. Patches \in Seq(Entry)
  BY PatchAssumption DEF OptionType, Text
<1>2. ASSUME NEW p \in Names
      PROVE  /\ Patches[p].patch \in Seq(Byte)
             /\ Patches[p].pattern \in Seq(Byte)
             /\ Patches[p].options \in Seq(OptionType)
  <2> HIDE DEF Entry
  <2>1. Patches[p] \in Entry
    BY <1>1, ElementType DEF Names
  <2> USE DEF Entry
  <2> QED BY <2>1
<1>3. ASSUME NEW p \in Names, NEW n \in 1 .. Len(Patches[p].options)
      PROVE  Patches[p].options[n].offset \in Nat /\ Patches[p].options[n].change \in Seq(Byte)
  <2>1. Patches[p].options[n] \in OptionType
    BY <1>2, ElementType
  <2> QED BY <2>1 DEF OptionType
<1>4. Len(Patches) \in Nat
  BY <1>1
<1>5. \A p \in Names : Size(p) \in Nat
  BY <1>2 DEF Size, Pattern
<1> QED BY <1>2, <1>3, <1>4, <1>5, PatchAssumption

-----------------------------------------------------------------------------
LEMMA InitInv == Init => Inv
<1> SUFFICES ASSUME Init PROVE Inv
  OBVIOUS
<1>1. target \in Seq(Byte)
  BY PatchAssumption DEF Init
<1>2. TypeOK
  BY <1>1, PatchFacts DEF Init, TypeOK, Names
<1>3. Confined
  BY DEF Init, Confined
<1>4. Checked
  BY DEF Init, Checked, Accepted
<1> QED BY <1>2, <1>3, <1>4 DEF Inv

(* One pattern at one offset.                                               *)
LEMMA TryPatchInv == Inv /\ TryPatch => Inv'
<1> SUFFICES ASSUME Inv, TryPatch PROVE Inv'
  OBVIOUS
<1> USE DEF Inv
<1>1. patch \in Names /\ patch' = patch + 1 /\ pc = "scan"
      /\ UNCHANGED <<original, pc, i, optionNum>>
  BY PatchFacts DEF TryPatch, TypeOK, Names
<1>2. CASE ~Matches(target, i, patch)
  <2>1. UNCHANGED <<target, result>>
    BY <1>2 DEF TryPatch
  <2>2. TypeOK'
    BY <1>1, <2>1, PatchFacts DEF TypeOK, Names
  <2>3. Confined'
    BY <2>1, <1>1 DEF Confined, Reported
  <2>4. Checked'
    BY <1>1 DEF Checked, Accepted
  <2> QED BY <2>2, <2>3, <2>4
<1>3. CASE Matches(target, i, patch)
  <2> DEFINE bytes == Patches[patch].patch
  <2> PICK q \in Names : q = patch
    BY <1>1
  <2>1. /\ target' = Copied(target, i, bytes)
        /\ result' = [result EXCEPT ![patch] =
              [matchCount |-> result[patch].matchCount + 1, lastFoundOffset |-> i]]
    BY <1>3 DEF TryPatch, Counted
  <2>2. /\ target \in Seq(Byte) /\ i \in Nat /\ original \in Seq(Byte)
        /\ Len(target) = Len(original)
        /\ result \in [Names -> [matchCount : Nat, lastFoundOffset : Nat]]
    BY DEF TypeOK
  <2>3. /\ target' \in Seq(Byte)
        /\ Len(target') = Len(target)
        /\ \A x \in 1 .. Len(target) : x \notin Window(i, Len(bytes)) => target'[x] = target[x]
    BY <2>1, <2>2, <1>1, PatchFacts, CopiedFacts, SMTT(30)
  <2>4. result' \in [Names -> [matchCount : Nat, lastFoundOffset : Nat]]
    BY <2>1, <2>2, <1>1
  <2>5. TypeOK'
    BY <1>1, <2>3, <2>4, PatchFacts DEF TypeOK, Names
  <2>6. Confined'
    <3> SUFFICES ASSUME NEW x \in 1 .. Len(target), target'[x] # original[x]
                 PROVE  \E p \in Names : Reported(p, x)'
      BY <2>3, <1>1 DEF Confined
    <3>1. CASE x \in Window(i, Len(bytes))
      <4>1. x \in Window(i, Size(patch))
        BY <3>1, <1>1, <2>2, PatchFacts, SMTT(30) DEF Window
      <4>2. result'[q].matchCount = result[q].matchCount + 1 /\ result[q].matchCount \in Nat
            /\ result'[q].lastFoundOffset = i
        BY <2>1, <2>2
      <4>3. Reported(q, x)'
        BY <4>1, <4>2 DEF Reported, Size, Pattern, Window
      <4> QED BY <4>3
    <3>2. CASE x \notin Window(i, Len(bytes))
      <4>1. PICK p \in Names : Reported(p, x)
        BY <3>2, <2>3 DEF Confined
      <4>2. CASE p = patch
        BY <4>1, <4>2, <2>1, <2>2, <1>1 DEF Reported
      <4>3. CASE p # patch
        BY <4>1, <4>3, <2>1, <2>2, <1>1, SMTT(30) DEF Reported, Size, Pattern, Window
      <4> QED BY <4>2, <4>3
    <3> QED BY <3>1, <3>2
  <2>7. Checked'
    BY <1>1 DEF Checked, Accepted
  <2> QED BY <2>5, <2>6, <2>7
<1> QED BY <1>2, <1>3

(* What an applied option leaves alone.                                     *)
LEMMA ApplyOptionFrame ==
  ASSUME TypeOK, ApplyOption
  PROVE  /\ patch \in Names /\ pc = "apply" /\ optionNum \in 1 .. Len(Patches[patch].options)
         /\ optionNum' = optionNum + 1
         /\ UNCHANGED <<original, pc, i, patch, result, options>>
<1>1. /\ pc = "apply" /\ patch <= Len(Patches) /\ optionNum <= Len(Patches[patch].options)
      /\ optionNum' = optionNum + 1
      /\ UNCHANGED <<original, pc, i, patch, result, options>>
  BY DEF ApplyOption
<1>2. patch \in Nat /\ optionNum \in Nat /\ patch >= 1 /\ optionNum >= 1
  BY PatchFacts DEF TypeOK
<1> QED BY <1>1, <1>2, PatchFacts DEF Names

(* One option of one patch: it lies inside the patch's place.               *)
LEMMA ApplyOptionInv == Inv /\ ApplyOption => Inv'
<1> SUFFICES ASSUME Inv, ApplyOption PROVE Inv'
  OBVIOUS
<1> USE DEF Inv
<1> DEFINE o == Patches[patch].options[optionNum]
           at == result[patch].lastFoundOffset + o.offset
<1>1. /\ patch \in Names /\ pc = "apply" /\ optionNum \in 1 .. Len(Patches[patch].options)
      /\ optionNum' = optionNum + 1
      /\ UNCHANGED <<original, pc, i, patch, result>>
  BY ApplyOptionFrame
<1>2. target' = Copied(target, at, o.change) \/ target' = target
  BY DEF ApplyOption
<1>3. /\ target \in Seq(Byte) /\ original \in Seq(Byte)
      /\ Len(target) = Len(original)
      /\ result \in [Names -> [matchCount : Nat, lastFoundOffset : Nat]]
  BY DEF TypeOK
<1>4. /\ o.offset \in Nat /\ o.change \in Seq(Byte) /\ Size(patch) \in Nat
      /\ o.offset + Len(o.change) <= Size(patch)
  BY <1>1, PatchFacts
<1>5. result[patch].matchCount = 1 /\ result[patch].lastFoundOffset \in Nat
  BY <1>1, <1>3 DEF Checked, Accepted
<1>6. at \in Nat
  BY <1>4, <1>5
<1> HIDE DEF at, o
<1>7. /\ target' \in Seq(Byte)
      /\ Len(target') = Len(target)
      /\ \A x \in 1 .. Len(target) : x \notin Window(at, Len(o.change)) => target'[x] = target[x]
  BY <1>2, <1>3, <1>4, <1>6, CopiedFacts
<1>8. TypeOK'
  BY <1>1, <1>7, PatchFacts DEF TypeOK, Names
<1>9. Confined'
  <2> SUFFICES ASSUME NEW x \in 1 .. Len(target), target'[x] # original[x]
               PROVE  \E p \in Names : Reported(p, x)'
    BY <1>7, <1>1 DEF Confined
  <2>1. CASE x \in Window(at, Len(o.change))
    <3>1. Len(o.change) \in Nat
      BY <1>4
    <3>2. x \in Window(result[patch].lastFoundOffset, Size(patch))
      BY <2>1, <3>1, <1>4, <1>5, WindowNested DEF at
    <3>3. Reported(patch, x)'
      BY <3>2, <1>1, <1>5 DEF Reported, Size, Pattern, Window
    <3> QED BY <3>3, <1>1
  <2>2. CASE x \notin Window(at, Len(o.change))
    BY <2>2, <1>7, <1>1 DEF Confined, Reported, Size, Pattern, Window
  <2> QED BY <2>1, <2>2
<1>10. Checked'
  BY <1>1 DEF Checked, Accepted
<1> QED BY <1>8, <1>9, <1>10

(* The steps that leave the image alone.                                    *)
LEMMA OtherInv ==
  Inv /\ (\/ NextOffset \/ ScanDone \/ CheckResult \/ GetOptions \/ OptionSelect
          \/ SelectDone \/ NextPatch \/ ApplyDone) => Inv'
<1> SUFFICES ASSUME Inv,
                    \/ NextOffset \/ ScanDone \/ CheckResult \/ GetOptions
                    \/ OptionSelect \/ SelectDone \/ NextPatch \/ ApplyDone
             PROVE  Inv'
  OBVIOUS
<1> USE DEF Inv
<1>1. UNCHANGED <<original, target, result>>
  BY DEF NextOffset, ScanDone, CheckResult, GetOptions, OptionSelect, Frame,
         SelectDone, NextPatch, ApplyDone
<1>2. TypeOK'
  <2>1. CASE NextOffset
    BY <2>1, <1>1, PatchFacts DEF NextOffset, TypeOK
  <2>2. CASE ScanDone
    BY <2>2, <1>1, PatchFacts DEF ScanDone, TypeOK
  <2>3. CASE CheckResult
    BY <2>3, <1>1, PatchFacts DEF CheckResult, TypeOK
  <2>4. CASE GetOptions
    BY <2>4, <1>1, PatchFacts DEF GetOptions, TypeOK
  <2>5. CASE OptionSelect
    BY <2>5, <1>1, PatchFacts DEF OptionSelect, Frame, TypeOK
  <2>6. CASE SelectDone
    BY <2>6, <1>1, PatchFacts DEF SelectDone, TypeOK
  <2>7. CASE NextPatch
    BY <2>7, <1>1, PatchFacts DEF NextPatch, TypeOK
  <2>8. CASE ApplyDone
    BY <2>8, <1>1, PatchFacts DEF ApplyDone, TypeOK
  <2> QED BY <2>1, <2>2, <2>3, <2>4, <2>5, <2>6, <2>7, <2>8
<1>3. Confined'
  BY <1>1 DEF Confined, Reported
<1>4. Checked'
  <2>1. CASE NextOffset
    BY <2>1 DEF NextOffset, Checked, Accepted
  <2>2. CASE ScanDone
    BY <2>2, PatchFacts DEF ScanDone, Checked, Accepted, Names
  <2>3. CASE CheckResult
    <3>1. /\ pc = "check" /\ patch \in Names /\ patch' = patch + 1
          /\ pc' \in {"check", "error"}
          /\ pc' = "check" => ~(result[patch].matchCount = 0 \/ result[patch].matchCount > 1)
      BY <2>3, PatchFacts DEF CheckResult, Refused, TypeOK, Names
    <3>2. result[patch].matchCount \in Nat
      BY <3>1 DEF TypeOK
    <3>3. pc' = "check" => result[patch].matchCount = 1
      BY <3>1, <3>2
    <3>4. pc' = "check" => \A p \in Names : p < patch + 1 => result[p].matchCount = 1
      BY <3>1, <3>3 DEF Checked, Names
    <3> QED BY <3>1, <3>4, <1>1 DEF Checked, Accepted
  <2>4. CASE GetOptions
    <3>1. pc = "check" /\ pc' = "select" /\ (\A p \in Names : p < patch)
      BY <2>4, PatchFacts DEF GetOptions, TypeOK, Names
    <3> QED BY <3>1, <1>1 DEF Checked, Accepted
  <2>5. CASE OptionSelect
    BY <2>5, <1>1 DEF OptionSelect, Frame, Checked, Accepted
  <2>6. CASE SelectDone
    BY <2>6, <1>1 DEF SelectDone, Checked, Accepted
  <2>7. CASE NextPatch
    BY <2>7, <1>1 DEF NextPatch, Checked, Accepted
  <2>8. CASE ApplyDone
    BY <2>8, <1>1 DEF ApplyDone, Checked, Accepted
  <2> QED BY <2>1, <2>2, <2>3, <2>4, <2>5, <2>6, <2>7, <2>8
<1> QED BY <1>2, <1>3, <1>4

-----------------------------------------------------------------------------
LEMMA StepInv == Inv /\ [Next]_vars => Inv'
<1> SUFFICES ASSUME Inv, [Next]_vars PROVE Inv'
  OBVIOUS
<1>1. CASE UNCHANGED vars
  BY <1>1 DEF Inv, vars, TypeOK, Confined, Reported, Checked, Accepted
<1>2. CASE TryPatch
  BY <1>2, TryPatchInv
<1>3. CASE ApplyOption
  BY <1>3, ApplyOptionInv
<1>4. CASE \/ NextOffset \/ ScanDone \/ CheckResult \/ GetOptions
           \/ OptionSelect \/ SelectDone \/ NextPatch \/ ApplyDone
  BY <1>4, OtherInv
<1> QED BY <1>1, <1>2, <1>3, <1>4 DEF Next

LEMMA Invariant == Spec => []Inv
BY InitInv, StepInv, PTL DEF Spec

(* The loop variables of patch.cpp and main stay in range, the image keeps  *)
(* its length, and what was counted has a place (patch.cpp:10-37, 106-123). *)
THEOREM TypeCorrect == Spec => []TypeOK
<1>1. Inv => TypeOK
  BY DEF Inv
<1> QED BY <1>1, Invariant, PTL

(* patch.cpp:18-26, 116-120.  What main accepts differs from the launcher   *)
(* only inside the one reported place of a pattern.                         *)
THEOREM AcceptedIsConfined == Spec => []AcceptedOnce
<1>1. Inv => AcceptedOnce
  <2> SUFFICES ASSUME Inv, Accepted,
                      NEW x \in 1 .. Len(target), target[x] # original[x]
               PROVE  \E p \in Names : /\ result[p].matchCount = 1
                                       /\ x \in Window(result[p].lastFoundOffset, Size(p))
    BY DEF AcceptedOnce
  <2>1. PICK p \in Names : Reported(p, x)
    BY DEF Inv, Confined
  <2>2. result[p].matchCount = 1
    BY DEF Inv, Checked
  <2> QED BY <2>1, <2>2 DEF Reported
<1> QED BY <1>1, Invariant, PTL

-----------------------------------------------------------------------------
(* The collection of options.                                              *)

EntryType  == [name : Text, values : Seq(Text), selection : Nat]

Apart(s)   == \A v, w \in 1 .. Len(s) : s[v] = s[w] => v = w
(* A list that can be offered: every name once, with each of its values once *)
(* and one of them selected.                                                 *)
Menus ==
  {m \in Seq(EntryType) :
     /\ \A a, b \in 1 .. Len(m) : m[a].name = m[b].name => a = b
     /\ \A n \in 1 .. Len(m) : Apart(m[n].values) /\ m[n].selection \in 1 .. Len(m[n].values)}
Pairs(m) == UNION {{<<m[n].name, m[n].values[v]>> : v \in 1 .. Len(m[n].values)} :
                     n \in 1 .. Len(m)}

(* patch_findOption returns an entry of that name if there is one.         *)
LEMMA FindOptionFacts ==
  ASSUME NEW m \in Seq(EntryType), NEW name
  PROVE  /\ FindOption(m, name) \in 0 .. Len(m)
         /\ FindOption(m, name) # 0 => m[FindOption(m, name)].name = name
         /\ (\E k \in 1 .. Len(m) : m[k].name = name) => FindOption(m, name) # 0
<1> DEFINE S == {k \in 1 .. Len(m) : m[k].name = name}
<1>0. Len(m) \in Nat
  OBVIOUS
<1>1. CASE S = {}
  <2>1. FindOption(m, name) = 0
    BY <1>1 DEF FindOption, IndexWhere
  <2> QED BY <1>0, <1>1, <2>1
<1>2. CASE S # {}
  <2>1. \E n \in 1 .. Len(m) : n \in S /\ \A l \in 1 .. (n - 1) : l \notin S
    BY <1>0, <1>2, FirstIndex
  <2>2. \E n \in 1 .. Len(m) : m[n].name = name /\ \A l \in 1 .. (n - 1) : ~(m[l].name = name)
    BY <2>1
  <2>3. FindOption(m, name) =
          CHOOSE n \in 1 .. Len(m) : m[n].name = name /\ \A l \in 1 .. (n - 1) : ~(m[l].name = name)
    BY <1>2 DEF FindOption, IndexWhere
  <2>4. FindOption(m, name) \in 1 .. Len(m) /\ m[FindOption(m, name)].name = name
    BY <2>2, <2>3
  <2> QED BY <1>0, <2>4
<1> QED BY <1>1, <1>2

(* So does the search of patch_addorFindOptionValue for a value.           *)
LEMMA FindValueFacts ==
  ASSUME NEW s \in Seq(Text), NEW value \in Text
  PROVE  /\ FindValue(s, value) \in 0 .. Len(s)
         /\ FindValue(s, value) # 0 => s[FindValue(s, value)] = value
         /\ (\E k \in 1 .. Len(s) : s[k] = value) => FindValue(s, value) # 0
<1> DEFINE S == {k \in 1 .. Len(s) : s[k] = value}
<1>0. Len(s) \in Nat
  OBVIOUS
<1>1. CASE S = {}
  <2>1. FindValue(s, value) = 0
    BY <1>1 DEF FindValue, IndexWhere
  <2> QED BY <1>0, <1>1, <2>1
<1>2. CASE S # {}
  <2>1. \E n \in 1 .. Len(s) : n \in S /\ \A l \in 1 .. (n - 1) : l \notin S
    BY <1>0, <1>2, FirstIndex
  <2>2. \E n \in 1 .. Len(s) : s[n] = value /\ \A l \in 1 .. (n - 1) : ~(s[l] = value)
    BY <2>1
  <2>3. FindValue(s, value) =
          CHOOSE n \in 1 .. Len(s) : s[n] = value /\ \A l \in 1 .. (n - 1) : ~(s[l] = value)
    BY <1>2 DEF FindValue, IndexWhere
  <2>4. FindValue(s, value) \in 1 .. Len(s) /\ s[FindValue(s, value)] = value
    BY <2>2, <2>3
  <2> QED BY <1>0, <2>4
<1> QED BY <1>1, <1>2


(* A value that is added to distinct ones.                                 *)
Values(s) == {s[v] : v \in 1 .. Len(s)}
WithValue(s, value) == IF FindValue(s, value) # 0 THEN s ELSE Append(s, value)

LEMMA WithValueFacts ==
  ASSUME NEW s \in Seq(Text), Apart(s), NEW value \in Text
  PROVE  /\ WithValue(s, value) \in Seq(Text)
         /\ Apart(WithValue(s, value))
         /\ Len(WithValue(s, value)) \in Nat
         /\ Len(WithValue(s, value)) >= 1
         /\ Len(WithValue(s, value)) >= Len(s)
         /\ FindValue(WithValue(s, value), value) \in 1 .. Len(WithValue(s, value))
         /\ Values(WithValue(s, value)) = Values(s) \cup {value}
<1> DEFINE f == FindValue(s, value)
           t == Append(s, value)
<1>0. Len(s) \in Nat /\ f \in 0 .. Len(s)
      /\ (f # 0 => s[f] = value)
      /\ ((\E k \in 1 .. Len(s) : s[k] = value) => f # 0)
  BY FindValueFacts
<1> HIDE DEF f
<1>1. CASE f # 0
  <2>1. WithValue(s, value) = s
    BY <1>1 DEF WithValue, f
  <2>2. f \in 1 .. Len(s) /\ s[f] = value
    BY <1>0, <1>1
  <2>3. value \in Values(s)
    BY <2>2 DEF Values
  <2>4. Values(s) = Values(s) \cup {value}
    BY <2>3
  <2>5. FindValue(s, value) \in 1 .. Len(s)
    BY <2>2 DEF f
  <2> QED BY <1>0, <2>1, <2>2, <2>4, <2>5
<1>2. CASE f = 0
  <2>1. WithValue(s, value) = t
    BY <1>2 DEF WithValue, f
  <2>2. /\ t \in Seq(Text) /\ Len(t) = Len(s) + 1 /\ t[Len(s) + 1] = value
        /\ \A k \in 1 .. Len(s) : t[k] = s[k] /\ s[k] # value
    BY <1>0, <1>2
  <2> HIDE DEF t
  <2>3. Apart(t)
    <3> SUFFICES ASSUME NEW v \in 1 .. Len(t), NEW w \in 1 .. Len(t), t[v] = t[w]  PROVE v = w
      BY DEF Apart
    <3>1. CASE v = Len(s) + 1 \/ w = Len(s) + 1
      BY <1>0, <2>2, <3>1
    <3>2. CASE v \in 1 .. Len(s) /\ w \in 1 .. Len(s)
      <4>1. s[v] = s[w]
        BY <2>2, <3>2
      <4> QED BY <3>2, <4>1 DEF Apart
    <3> QED BY <1>0, <2>2, <3>1, <3>2
  <2>4. FindValue(t, value) \in 1 .. Len(t)
    <3>1. Len(s) + 1 \in 1 .. Len(t)
      BY <1>0, <2>2
    <3>2. t \in Seq(Text) /\ t[Len(s) + 1] = value
      BY <2>2
    <3>3. FindValue(t, value) \in 0 .. Len(t) /\ FindValue(t, value) # 0
      BY <3>1, <3>2, FindValueFacts
    <3> QED BY <1>0, <2>2, <3>3
  <2>5. Values(t) = Values(s) \cup {value}
    <3>1. 1 .. Len(t) = (1 .. Len(s)) \cup {Len(s) + 1}
      BY <1>0, <2>2
    <3>2. ASSUME NEW x \in Values(t)  PROVE x \in Values(s) \cup {value}
      <4>1. PICK v \in 1 .. Len(t) : x = t[v]
        BY <3>2 DEF Values
      <4>2. CASE v \in 1 .. Len(s)
        BY <2>2, <4>1, <4>2 DEF Values
      <4>3. CASE v = Len(s) + 1
        BY <2>2, <4>1, <4>3
      <4> QED BY <3>1, <4>1, <4>2, <4>3
    <3>3. value \in Values(t)
      BY <1>0, <2>2, <3>1 DEF Values
    <3>4. ASSUME NEW x \in Values(s)  PROVE x \in Values(t)
      <4>1. PICK v \in 1 .. Len(s) : x = s[v]
        BY <3>4 DEF Values
      <4>2. v \in 1 .. Len(t) /\ t[v] = x
        BY <2>2, <3>1, <4>1
      <4> QED BY <4>2 DEF Values
    <3> QED BY <3>2, <3>3, <3>4
  <2> QED BY <1>0, <2>1, <2>2, <2>3, <2>4, <2>5
<1> QED BY <1>1, <1>2

(* The list that patch_addOrFindOption leaves.                             *)
WithName(m, name) ==
  IF FindOption(m, name) # 0 THEN m
  ELSE Append(m, [name |-> name, values |-> <<>>, selection |-> 1])

LEMMA WithNameFacts ==
  ASSUME NEW m \in Menus, NEW name \in Text
  PROVE  LET k == WithName(m, name)
             n == FindOption(k, name)
         IN  /\ k \in Seq(EntryType)
             /\ \A a, b \in 1 .. Len(k) : k[a].name = k[b].name => a = b
             /\ n \in 1 .. Len(k) /\ k[n].name = name
             /\ \A a \in 1 .. Len(k) : Apart(k[a].values)
             /\ \A a \in 1 .. Len(k) : a # n => k[a].selection \in 1 .. Len(k[a].values)
             /\ k[n].selection = 1 \/ k[n].selection \in 1 .. Len(k[n].values)
             /\ Pairs(k) = Pairs(m)
<1> DEFINE f == FindOption(m, name)
           e == [name |-> name, values |-> <<>>, selection |-> 1]
           t == Append(m, e)
<1>1. m \in Seq(EntryType) /\ Len(m) \in Nat
      /\ (\A a, b \in 1 .. Len(m) : m[a].name = m[b].name => a = b)
      /\ \A n \in 1 .. Len(m) : Apart(m[n].values) /\ m[n].selection \in 1 .. Len(m[n].values)
  BY DEF Menus
<1>2. CASE f # 0
  <2>1. WithName(m, name) = m
    BY <1>2 DEF WithName
  <2>2. f \in 1 .. Len(m) /\ m[f].name = name
    BY <1>1, <1>2, FindOptionFacts
  <2> QED BY <1>1, <2>1, <2>2
<1>3. CASE f = 0
  <2>1. WithName(m, name) = t
    BY <1>3 DEF WithName
  <2>2. \A k \in 1 .. Len(m) : m[k].name # name
    BY <1>1, <1>3, FindOptionFacts
  <2>3. e \in EntryType
    <3>1. <<>> \in Seq(Text)
      OBVIOUS
    <3> QED BY <3>1 DEF EntryType
  <2>4. e.name = name /\ e.values = <<>> /\ e.selection = 1
    OBVIOUS
  <2> HIDE DEF e
  <2>5. /\ t \in Seq(EntryType) /\ Len(t) = Len(m) + 1 /\ t[Len(m) + 1] = e
        /\ \A k \in 1 .. Len(m) : t[k] = m[k]
    BY <1>1, <2>3
  <2> HIDE DEF t
  <2>6. FindOption(t, name) = Len(m) + 1
    <3>1. FindOption(t, name) \in 1 .. Len(t) /\ t[FindOption(t, name)].name = name
      <4>1. Len(m) + 1 \in 1 .. Len(t) /\ t[Len(m) + 1].name = name
        BY <1>1, <2>4, <2>5
      <4> QED BY <4>1, <2>5, FindOptionFacts
    <3>2. FindOption(t, name) \notin 1 .. Len(m)
      BY <2>2, <2>5, <3>1
    <3> QED BY <1>1, <2>5, <3>1, <3>2
  <2>7. \A a \in 1 .. Len(t) : a \in 1 .. Len(m) \/ a = Len(m) + 1
    BY <1>1, <2>5
  <2>8. \A a, b \in 1 .. Len(t) : t[a].name = t[b].name => a = b
    BY <1>1, <2>2, <2>4, <2>5, <2>7
  <2>9. \A a \in 1 .. Len(t) : Apart(t[a].values)
    <3>1. Apart(e.values)
      BY <2>4 DEF Apart
    <3> QED BY <1>1, <2>5, <2>7, <3>1
  <2>10. Pairs(t) = Pairs(m)
    <3>1. {<<t[Len(m) + 1].name, t[Len(m) + 1].values[v]>> : v \in 1 .. Len(t[Len(m) + 1].values)} = {}
      BY <2>4, <2>5
    <3>2. ASSUME NEW x  PROVE x \in Pairs(t) <=> x \in Pairs(m)
      <4>1. ASSUME x \in Pairs(t)  PROVE x \in Pairs(m)
        <5>1. PICK a \in 1 .. Len(t) :
                x \in {<<t[a].name, t[a].values[v]>> : v \in 1 .. Len(t[a].values)}
          BY <4>1 DEF Pairs
        <5>2. a \in 1 .. Len(m)
          BY <5>1, <3>1, <2>7
        <5>3. x \in {<<m[a].name, m[a].values[v]>> : v \in 1 .. Len(m[a].values)}
          BY <5>1, <5>2, <2>5
        <5> QED BY <5>2, <5>3 DEF Pairs
      <4>2. ASSUME x \in Pairs(m)  PROVE x \in Pairs(t)
        <5>1. PICK a \in 1 .. Len(m) :
                x \in {<<m[a].name, m[a].values[v]>> : v \in 1 .. Len(m[a].values)}
          BY <4>2 DEF Pairs
        <5>2. a \in 1 .. Len(t) /\ t[a] = m[a]
          BY <5>1, <2>5, <1>1
        <5>3. x \in {<<t[a].name, t[a].values[v]>> : v \in 1 .. Len(t[a].values)}
          BY <5>1, <5>2
        <5> QED BY <5>2, <5>3 DEF Pairs
      <4> QED BY <4>1, <4>2
    <3> QED BY <3>2
  <2>11. \A a \in 1 .. Len(t) : a # Len(m) + 1 => t[a].selection \in 1 .. Len(t[a].values)
    BY <1>1, <2>5, <2>7
  <2>12. t[Len(m) + 1].name = name /\ t[Len(m) + 1].selection = 1 /\ Len(m) + 1 \in 1 .. Len(t)
    BY <1>1, <2>4, <2>5
  <2> QED BY <2>1, <2>5, <2>6, <2>8, <2>9, <2>10, <2>11, <2>12
<1> QED BY <1>2, <1>3


(* What a list offers, entry by entry.                                     *)
LEMMA PairIn ==
  ASSUME NEW m, NEW x
  PROVE  x \in Pairs(m) <=>
           \E a \in 1 .. Len(m) : \E v \in Values(m[a].values) : x = <<m[a].name, v>>
<1>1. ASSUME x \in Pairs(m)
      PROVE  \E a \in 1 .. Len(m) : \E v \in Values(m[a].values) : x = <<m[a].name, v>>
  <2>1. PICK a \in 1 .. Len(m) :
          x \in {<<m[a].name, m[a].values[v]>> : v \in 1 .. Len(m[a].values)}
    BY <1>1 DEF Pairs
  <2>2. PICK v \in 1 .. Len(m[a].values) : x = <<m[a].name, m[a].values[v]>>
    BY <2>1
  <2>3. m[a].values[v] \in Values(m[a].values)
    BY DEF Values
  <2> QED BY <2>2, <2>3
<1>2. ASSUME NEW a \in 1 .. Len(m), NEW w \in Values(m[a].values), x = <<m[a].name, w>>
      PROVE  x \in Pairs(m)
  <2>1. PICK v \in 1 .. Len(m[a].values) : w = m[a].values[v]
    BY DEF Values
  <2>2. x \in {<<m[a].name, m[a].values[u]>> : u \in 1 .. Len(m[a].values)}
    BY <1>2, <2>1
  <2> QED BY <2>2 DEF Pairs
<1> QED BY <1>1, <1>2

(* One round of the inner loop of patch_getAvailableOptions: the list stays  *)
(* one that can be offered, and offers one more.                             *)
LEMMA AddOptionFacts ==
  ASSUME NEW m \in Menus, NEW o \in OptionType
  PROVE  /\ AddOption(m, o) \in Menus
         /\ Pairs(AddOption(m, o)) = Pairs(m) \cup {<<o.name, o.value>>}
<1> DEFINE k == WithName(m, o.name)
           n == FindOption(k, o.name)
           s == WithValue(k[n].values, o.value)
           sel == IF o.asDefault THEN FindValue(s, o.value) ELSE k[n].selection
           new == [name |-> o.name, values |-> s, selection |-> sel]
           r == [k EXCEPT ![n] = new]
<1>1. o.name \in Text /\ o.value \in Text
  BY DEF OptionType
<1>2. /\ k \in Seq(EntryType) /\ Len(k) \in Nat
      /\ \A a, b \in 1 .. Len(k) : k[a].name = k[b].name => a = b
      /\ n \in 1 .. Len(k) /\ k[n].name = o.name
      /\ \A a \in 1 .. Len(k) : Apart(k[a].values)
      /\ \A a \in 1 .. Len(k) : a # n => k[a].selection \in 1 .. Len(k[a].values)
      /\ k[n].selection = 1 \/ k[n].selection \in 1 .. Len(k[n].values)
      /\ Pairs(k) = Pairs(m)
  <2>1. /\ k \in Seq(EntryType)
        /\ \A a, b \in 1 .. Len(k) : k[a].name = k[b].name => a = b
        /\ n \in 1 .. Len(k) /\ k[n].name = o.name
        /\ \A a \in 1 .. Len(k) : Apart(k[a].values)
        /\ \A a \in 1 .. Len(k) : a # n => k[a].selection \in 1 .. Len(k[a].values)
        /\ k[n].selection = 1 \/ k[n].selection \in 1 .. Len(k[n].values)
        /\ Pairs(k) = Pairs(m)
    BY <1>1, WithNameFacts, ZenonT(60)
  <2>2. Len(k) \in Nat
    <3>1. \A q \in Seq(EntryType) : Len(q) \in Nat
      OBVIOUS
    <3> QED BY <2>1, <3>1, Zenon
  <2> QED BY <2>1, <2>2, Zenon
<1>3. AddOption(m, o) = r
  BY DEF AddOption, WithName, WithValue
<1> HIDE DEF k, n
<1>4. k[n] \in EntryType
  BY <1>2, ElementType
<1>v. k[n].values \in Seq(Text)
  BY <1>4 DEF EntryType
<1>5. /\ s \in Seq(Text) /\ Apart(s) /\ Len(s) \in Nat /\ Len(s) >= 1 /\ Len(s) >= Len(k[n].values)
      /\ FindValue(s, o.value) \in 1 .. Len(s)
      /\ Values(s) = Values(k[n].values) \cup {o.value}
  BY <1>1, <1>2, <1>v, WithValueFacts
<1> HIDE DEF s
<1>6. sel \in 1 .. Len(s)
  <2>1. Len(k[n].values) \in Nat
    BY <1>v
  <2> QED BY <1>2, <1>5, <2>1
<1> HIDE DEF sel
<1>8. new \in EntryType
  BY <1>1, <1>5, <1>6 DEF EntryType
<1>n. new.name = o.name /\ new.values = s /\ new.selection = sel
  OBVIOUS
<1> HIDE DEF new
<1>9. /\ r \in Seq(EntryType) /\ Len(r) = Len(k) /\ r[n] = new
      /\ \A a \in 1 .. Len(r) : a # n => r[a] = k[a]
  BY <1>2, <1>8
<1> HIDE DEF r
<1>10. r \in Menus
  <2>1. \A a, b \in 1 .. Len(r) : r[a].name = r[b].name => a = b
    BY <1>2, <1>9, <1>n
  <2>2. \A a \in 1 .. Len(r) : Apart(r[a].values) /\ r[a].selection \in 1 .. Len(r[a].values)
    BY <1>2, <1>5, <1>6, <1>9, <1>n
  <2> QED BY <1>9, <2>1, <2>2 DEF Menus
<1>11. ASSUME NEW x  PROVE x \in Pairs(r) <=> x \in Pairs(k) \cup {<<o.name, o.value>>}
  <2>1. ASSUME NEW a \in 1 .. Len(r), NEW v \in Values(r[a].values), x = <<r[a].name, v>>
        PROVE  x \in Pairs(k) \cup {<<o.name, o.value>>}
    <3>1. CASE a = n
      BY <1>2, <1>5, <1>9, <1>n, <2>1, <3>1, PairIn
    <3>2. CASE a # n
      BY <1>9, <2>1, <3>2, PairIn
    <3> QED BY <3>1, <3>2
  <2>2. ASSUME NEW a \in 1 .. Len(k), NEW v \in Values(k[a].values), x = <<k[a].name, v>>
        PROVE  x \in Pairs(r)
    <3>1. a \in 1 .. Len(r) /\ v \in Values(r[a].values) /\ x = <<r[a].name, v>>
      BY <1>2, <1>5, <1>9, <1>n, <2>2
    <3> QED BY <3>1, PairIn
  <2>3. <<o.name, o.value>> \in Pairs(r)
    <3>1. n \in 1 .. Len(r) /\ o.value \in Values(r[n].values) /\ r[n].name = o.name
      BY <1>2, <1>5, <1>9, <1>n
    <3> QED BY <3>1, PairIn
  <2> QED BY <2>1, <2>2, <2>3, PairIn
<1> QED BY <1>2, <1>3, <1>10, <1>11

(* The inner loop, for all options of a patch.                             *)
LEMMA MergedFacts ==
  ASSUME NEW m \in Menus, NEW os \in Seq(OptionType)
  PROVE  /\ Merged(m, os) \in Menus
         /\ Pairs(Merged(m, os)) = Pairs(m) \cup {<<os[n].name, os[n].value>> : n \in 1 .. Len(os)}
<1> DEFINE Run(f) == f = [n \in 0 .. Len(os) |-> IF n = 0 THEN m ELSE AddOption(f[n - 1], os[n])]
           upTo == CHOOSE f : Run(f)
<1>0. Len(os) \in Nat /\ \A n \in 1 .. Len(os) : os[n] \in OptionType
  BY ElementType
<1>1. \E f : Run(f)
  <2> DEFINE g == [n \in 1 .. Len(os) |-> [x \in Menus |-> AddOption(x, os[n])]]
  <2>1. g \in [1 .. Len(os) -> [Menus -> Menus]]
    BY <1>0, AddOptionFacts
  <2>2. \A n \in 1 .. Len(os) : \A x \in Menus : g[n][x] = AddOption(x, os[n])
    OBVIOUS
  <2> HIDE DEF g
  <2>3. PICK f \in [0 .. Len(os) -> Menus] : Loops(Len(os), m, g, f)
    BY <1>0, <2>1, Iteration
  <2>4. \A n \in 1 .. Len(os) : n - 1 \in 0 .. Len(os) /\ f[n - 1] \in Menus
    BY <1>0, <2>3
  <2>5. \A n \in 0 .. Len(os) : f[n] = IF n = 0 THEN m ELSE AddOption(f[n - 1], os[n])
    BY <2>2, <2>3, <2>4 DEF Loops
  <2>6. Run(f)
    BY <2>3, <2>5
  <2> QED BY <2>6
<1>2. Run(upTo) /\ Merged(m, os) = upTo[Len(os)]
  BY <1>1 DEF Merged
<1> HIDE DEF upTo
<1>3. upTo[0] = m /\ \A n \in 1 .. Len(os) : upTo[n] = AddOption(upTo[n - 1], os[n])
  <2>1. 0 \in 0 .. Len(os) /\ \A n \in 1 .. Len(os) : n \in 0 .. Len(os) /\ n # 0
    BY <1>0
  <2>2. \A n \in 0 .. Len(os) : upTo[n] = IF n = 0 THEN m ELSE AddOption(upTo[n - 1], os[n])
    BY <1>2
  <2> QED BY <2>1, <2>2
<1> DEFINE Seen(n) == {<<os[l].name, os[l].value>> : l \in 1 .. n}
           S == {n \in Nat : n <= Len(os) =>
                   upTo[n] \in Menus /\ Pairs(upTo[n]) = Pairs(m) \cup Seen(n)}
<1>4. 0 \in S
  BY <1>3
<1>5. ASSUME NEW n \in Nat, n \in S  PROVE n + 1 \in S
  <2> SUFFICES ASSUME n + 1 <= Len(os)
               PROVE  upTo[n + 1] \in Menus /\ Pairs(upTo[n + 1]) = Pairs(m) \cup Seen(n + 1)
    OBVIOUS
  <2>1. n + 1 \in 1 .. Len(os) /\ upTo[n] \in Menus /\ Pairs(upTo[n]) = Pairs(m) \cup Seen(n)
    BY <1>0, <1>5
  <2>2. upTo[n + 1] = AddOption(upTo[n], os[n + 1]) /\ os[n + 1] \in OptionType
    BY <1>0, <1>3, <2>1
  <2>3. /\ upTo[n + 1] \in Menus
        /\ Pairs(upTo[n + 1]) = Pairs(upTo[n]) \cup {<<os[n + 1].name, os[n + 1].value>>}
    BY <2>1, <2>2, AddOptionFacts
  <2>4. Seen(n + 1) = Seen(n) \cup {<<os[n + 1].name, os[n + 1].value>>}
    <3>1. 1 .. (n + 1) = (1 .. n) \cup {n + 1}
      OBVIOUS
    <3> QED BY <3>1
  <2> QED BY <2>1, <2>3, <2>4
<1> HIDE DEF S
<1>6. Len(os) \in S
  BY <1>0, <1>4, <1>5, SetInduction
<1> QED BY <1>0, <1>2, <1>6 DEF S

(* The outer loop: what is offered is what the patches have.               *)
LEMMA CollectedFacts ==
  /\ AvailableOptions \in Menus
  /\ Pairs(AvailableOptions) = Offered
<1> DEFINE Run(f) == f = [p \in 0 .. Len(Patches) |->
                            IF p = 0 THEN <<>> ELSE Merged(f[p - 1], Patches[p].options)]
<1>0. Len(Patches) \in Nat /\ \A p \in 1 .. Len(Patches) : Patches[p].options \in Seq(OptionType)
  BY PatchFacts DEF Names
<1>e. <<>> \in Menus /\ Pairs(<<>>) = {}
  BY DEF Menus, Pairs
<1>1. \E f : Run(f)
  <2> DEFINE g == [p \in 1 .. Len(Patches) |-> [x \in Menus |-> Merged(x, Patches[p].options)]]
  <2>1. g \in [1 .. Len(Patches) -> [Menus -> Menus]]
    BY <1>0, MergedFacts
  <2>2. \A p \in 1 .. Len(Patches) : \A x \in Menus : g[p][x] = Merged(x, Patches[p].options)
    OBVIOUS
  <2> HIDE DEF g
  <2>3. PICK f \in [0 .. Len(Patches) -> Menus] : Loops(Len(Patches), <<>>, g, f)
    BY <1>0, <1>e, <2>1, Iteration
  <2>4. \A p \in 1 .. Len(Patches) : p - 1 \in 0 .. Len(Patches) /\ f[p - 1] \in Menus
    BY <1>0, <2>3
  <2>5. \A p \in 0 .. Len(Patches) :
          f[p] = IF p = 0 THEN <<>> ELSE Merged(f[p - 1], Patches[p].options)
    BY <2>2, <2>3, <2>4, SMTT(60) DEF Loops
  <2>6. Run(f)
    BY <2>3, <2>5
  <2> QED BY <2>6
<1>2. Run(Collected)
  BY <1>1 DEF Collected
<1>3. Collected[0] = <<>>
      /\ \A p \in 1 .. Len(Patches) : Collected[p] = Merged(Collected[p - 1], Patches[p].options)
  BY <1>0, <1>2
<1> DEFINE Seen(n) == UNION {OfPatch(p) : p \in 1 .. n}
           S == {n \in Nat : n <= Len(Patches) =>
                   Collected[n] \in Menus /\ Pairs(Collected[n]) = Seen(n)}
<1>4. 0 \in S
  BY <1>3, <1>e
<1>5. ASSUME NEW n \in Nat, n \in S  PROVE n + 1 \in S
  <2> SUFFICES ASSUME n + 1 <= Len(Patches)
               PROVE  Collected[n + 1] \in Menus /\ Pairs(Collected[n + 1]) = Seen(n + 1)
    OBVIOUS
  <2>1. n + 1 \in 1 .. Len(Patches) /\ Collected[n] \in Menus /\ Pairs(Collected[n]) = Seen(n)
    BY <1>0, <1>5
  <2>2. Collected[n + 1] = Merged(Collected[n], Patches[n + 1].options)
        /\ Patches[n + 1].options \in Seq(OptionType)
    BY <1>0, <1>3, <2>1
  <2>3. /\ Collected[n + 1] \in Menus
        /\ Pairs(Collected[n + 1]) = Pairs(Collected[n]) \cup OfPatch(n + 1)
    BY <2>1, <2>2, MergedFacts DEF OfPatch
  <2>4. Seen(n + 1) = Seen(n) \cup OfPatch(n + 1)
    <3>1. 1 .. (n + 1) = (1 .. n) \cup {n + 1}
      OBVIOUS
    <3> QED BY <3>1
  <2> QED BY <2>1, <2>3, <2>4
<1> HIDE DEF S
<1>6. Len(Patches) \in S
  BY <1>0, <1>4, <1>5, SetInduction
<1> QED BY <1>0, <1>6 DEF S, AvailableOptions, Offered, Names


-----------------------------------------------------------------------------
(* The dialogue.                                                           *)

MenuInv ==
  /\ options \in Menus
  /\ ~Accepted => options = <<>>
  /\ Accepted => Pairs(options) = Offered
  /\ pc = "select" => i >= 1

(* Another selection among the values.                                     *)
LEMMA SelectionFacts ==
  ASSUME NEW m \in Menus, NEW k \in 1 .. Len(m), NEW sel \in 1 .. Len(m[k].values)
  PROVE  /\ [m EXCEPT ![k].selection = sel] \in Menus
         /\ Pairs([m EXCEPT ![k].selection = sel]) = Pairs(m)
<1> DEFINE new == [m[k] EXCEPT !.selection = sel]
           r == [m EXCEPT ![k] = new]
<1>1. /\ m \in Seq(EntryType) /\ Len(m) \in Nat
      /\ \A a, b \in 1 .. Len(m) : m[a].name = m[b].name => a = b
      /\ \A n \in 1 .. Len(m) : Apart(m[n].values) /\ m[n].selection \in 1 .. Len(m[n].values)
  <2>1. /\ m \in Seq(EntryType)
        /\ \A a, b \in 1 .. Len(m) : m[a].name = m[b].name => a = b
        /\ \A n \in 1 .. Len(m) : Apart(m[n].values) /\ m[n].selection \in 1 .. Len(m[n].values)
    BY ZenonT(30) DEF Menus
  <2>2. \A q \in Seq(EntryType) : Len(q) \in Nat
    OBVIOUS
  <2> QED BY <2>1, <2>2, Zenon
<1>2. m[k] \in EntryType
  BY <1>1, ElementType
<1>3. /\ new \in EntryType /\ new.name = m[k].name /\ new.values = m[k].values
      /\ new.selection = sel
  BY <1>2 DEF EntryType
<1> HIDE DEF new
<1>4. /\ r \in Seq(EntryType) /\ Len(r) = Len(m) /\ r[k] = new
      /\ \A a \in 1 .. Len(m) : a # k => r[a] = m[a]
  BY <1>1, <1>3
<1> HIDE DEF r
<1>5. \A a \in 1 .. Len(m) : r[a].name = m[a].name /\ r[a].values = m[a].values
  BY <1>3, <1>4
<1>6. \A a \in 1 .. Len(m) : r[a].selection \in 1 .. Len(r[a].values)
  BY <1>1, <1>3, <1>4
<1>7. r \in Menus
  BY <1>1, <1>4, <1>5, <1>6 DEF Menus
<1>8. \A x : x \in Pairs(r) <=> x \in Pairs(m)
  BY <1>4, <1>5, PairIn
<1> QED BY <1>7, <1>8 DEF r, new

LEMMA MenuInit == Init => MenuInv
<1>1. <<>> \in Menus
  BY DEF Menus
<1> QED BY <1>1 DEF Init, MenuInv, Accepted

LEMMA MenuStep == Inv /\ MenuInv /\ [Next]_vars => MenuInv'
<1> SUFFICES ASSUME Inv, MenuInv, [Next]_vars PROVE MenuInv'
  OBVIOUS
<1>1. CASE UNCHANGED vars
  BY <1>1 DEF MenuInv, Accepted, vars
<1>2. CASE TryPatch \/ NextOffset \/ ScanDone \/ CheckResult
  BY <1>2 DEF TryPatch, NextOffset, ScanDone, CheckResult, MenuInv, Accepted
<1>3. CASE GetOptions
  BY <1>3, CollectedFacts DEF GetOptions, MenuInv, Accepted
<1>4. CASE OptionSelect
  <2>1. PICK keys \in Key : Frame(keys)
    BY <1>4 DEF OptionSelect
  <2> DEFINE last == Len(options[i].values)
             s0 == options[i].selection
             s1 == IF keys.up THEN (IF s0 = 1 THEN last ELSE s0 - 1) ELSE s0
             s2 == IF keys.down THEN (IF s1 = last THEN 1 ELSE s1 + 1) ELSE s1
  <2>2. /\ pc = "select" /\ pc' = pc /\ i \in 1 .. Len(options)
        /\ options' = [options EXCEPT ![i].selection = s2]
        /\ i' = i \/ i' = i + 1
    BY <2>1 DEF Frame, MenuInv, Inv, TypeOK
  <2>3. options \in Menus /\ s0 \in 1 .. last /\ last \in Nat
    <3>1. options \in Menus /\ s0 \in 1 .. last
      BY <2>2 DEF MenuInv, Menus
    <3>2. options[i] \in EntryType
      BY <2>2, <3>1, ElementType DEF Menus
    <3> QED BY <3>1, <3>2 DEF EntryType
  <2> HIDE DEF last, s0
  <2>4. s1 \in 1 .. last
    BY <2>3
  <2> HIDE DEF s1
  <2>5. s2 \in 1 .. last
    BY <2>3, <2>4
  <2> HIDE DEF s2
  <2>6. options' \in Menus /\ Pairs(options') = Pairs(options)
    BY <2>2, <2>3, <2>5, SelectionFacts, ZenonT(60) DEF last
  <2> QED BY <2>2, <2>6 DEF MenuInv, Accepted
<1>5. CASE SelectDone \/ ApplyOption \/ NextPatch \/ ApplyDone
  BY <1>5 DEF SelectDone, ApplyOption, NextPatch, ApplyDone, MenuInv, Accepted
<1> QED BY <1>1, <1>2, <1>3, <1>4, <1>5 DEF Next

LEMMA MenuHolds == Spec => []MenuInv
BY Invariant, MenuInit, MenuStep, PTL DEF Spec

(* patch.cpp:40-100, ui.cpp:28-69.  Every name is asked for once, with every *)
(* value any patch gives it once, and whatever keys are pressed, one of them *)
(* is selected: for every list of patches.                                   *)
THEOREM OptionsAreMerged == Spec => []OptionsMerged
<1>1. MenuInv => OptionsMerged
  <2> SUFFICES ASSUME MenuInv PROVE OptionsMerged
    OBVIOUS
  <2>1. Asked = Pairs(options)
    BY DEF Asked, Pairs
  <2> QED BY <2>1 DEF MenuInv, Menus, Apart, OptionsMerged
<1> QED BY <1>1, MenuHolds, PTL


-----------------------------------------------------------------------------
(* Patches that do not disturb each other.                                 *)

BaseByte(p, y) == IF Patches[p].patch = <<>> THEN Pattern(p)[y] ELSE Patches[p].patch[y]

LEMMA CopiedBytes ==
  ASSUME NEW img \in Seq(Byte), NEW bytes \in Seq(Byte), NEW o \in Nat, NEW x \in 1 .. Len(img)
  PROVE  /\ x \in Window(o, Len(bytes)) => Copied(img, o, bytes)[x] = bytes[x - o]
         /\ x \notin Window(o, Len(bytes)) => Copied(img, o, bytes)[x] = img[x]
BY DEF Copied

(* Where two windows share a byte.                                         *)
LEMMA SharedPlace ==
  ASSUME NEW p \in Names, NEW q \in Names, NEW o \in Nat, NEW b \in Nat, p # q \/ o # b,
         NEW x \in Window(o, Size(p)), x \in Window(b, Size(q)), PatchesCompatible
  PROVE  x - o \in Shared(p, q, b - o) /\ Compatible(p, q, b - o)
<1>1. Size(p) \in Nat /\ Size(q) \in Nat
  BY PatchFacts
<1>2. x \in Int /\ x - o \in 1 .. Size(p) /\ (x - o) - (b - o) \in 1 .. Size(q)
  BY <1>1 DEF Window
<1>3. b - o \in (1 - Size(q)) .. (Size(p) - 1) /\ (p # q \/ b - o # 0)
  BY <1>1, <1>2
<1>4. Compatible(p, q, b - o)
  BY <1>3 DEF PatchesCompatible
<1> QED BY <1>2, <1>4 DEF Shared

(* What two patterns share in a launcher that has both, no patch changes.  *)
LEMMA Undisturbed ==
  ASSUME PatchesCompatible, NEW img \in Seq(Byte),
         NEW p \in Names, NEW q \in Names, NEW o \in Nat, NEW b \in Nat, p # q \/ o # b,
         Matches(img, o, p), Matches(img, b, q),
         NEW x \in Window(o, Size(p)), x \in Window(b, Size(q))
  PROVE  x - o \notin Altered(p)
<1>1. Size(p) \in Nat /\ Size(q) \in Nat
  BY PatchFacts
<1>2. x - o \in Shared(p, q, b - o) /\ Compatible(p, q, b - o)
  BY SharedPlace
<1>3. ~Differs(Pattern(p), p, q, b - o)
  <2> SUFFICES ASSUME NEW y \in Shared(p, q, b - o)
               PROVE  Pattern(p)[y] = Pattern(q)[y - (b - o)]
    BY DEF Differs
  <2>1. y \in 1 .. Size(p) /\ y - (b - o) \in 1 .. Size(q) /\ b + (y - (b - o)) = o + y
    BY <1>1 DEF Shared
  <2> QED BY <2>1 DEF Matches
<1> QED BY <1>2, <1>3 DEF Compatible

(* A patch at one place leaves the other matches as they are, and produces  *)
(* none.                                                                    *)
LEMMA MatchKept ==
  ASSUME PatchesCompatible, NEW img \in Seq(Byte),
         NEW p \in Names, NEW q \in Names, NEW o \in Nat, NEW b \in Nat, p # q \/ o # b,
         Matches(img, o, p)
  PROVE  Matches(Copied(img, o, Patches[p].patch), b, q) <=> Matches(img, b, q)
<1> DEFINE bytes == Patches[p].patch
           new == Copied(img, o, bytes)
<1>1. /\ Size(p) \in Nat /\ Size(q) \in Nat /\ Size(q) > 0 /\ Len(img) \in Nat
      /\ bytes \in Seq(Byte) /\ Len(bytes) \in {0, Size(p)}
      /\ o + Size(p) <= Len(img)
  BY PatchFacts DEF Matches
<1>2. Len(new) = Len(img)
  BY <1>1, CopiedFacts
<1>3. CASE \A x \in Window(b, Size(q)) : x <= Len(img) => new[x] = img[x]
  <2>1. ASSUME b + Size(q) <= Len(img), NEW y \in 1 .. Size(q)
        PROVE  new[b + y] = img[b + y]
    <3>1. b + y \in Window(b, Size(q)) /\ b + y <= Len(img)
      BY <1>1, <2>1 DEF Window
    <3> HIDE DEF new
    <3> QED BY <1>3, <3>1
  <2> HIDE DEF new
  <2>2. Matches(new, b, q) <=> Matches(img, b, q)
    BY <1>2, <2>1 DEF Matches
  <2> QED BY <2>2 DEF new
<1>4. CASE \E x \in Window(b, Size(q)) : x <= Len(img) /\ new[x] # img[x]
  <2>1. PICK x \in Window(b, Size(q)) : x <= Len(img) /\ new[x] # img[x]
    BY <1>4
  <2>2. x \in 1 .. Len(img)
    BY <1>1, <2>1 DEF Window
  <2>3. x \in Window(o, Len(bytes)) /\ new[x] = bytes[x - o]
    BY <1>1, <2>1, <2>2, CopiedBytes
  <2>4. Len(bytes) = Size(p)
    BY <1>1, <2>3 DEF Window
  <2>5. x - o \in Shared(p, q, b - o) /\ Compatible(p, q, b - o)
    BY <2>1, <2>3, <2>4, SharedPlace
  <2>6. bytes # <<>> /\ x - o \in 1 .. Size(p) /\ o + (x - o) = x
    BY <1>1, <2>2, <2>3, <2>4, SMTT(60) DEF Window
  <2>7. x - o \in Altered(p)
    <3>1. img[x] = Pattern(p)[x - o]
      BY <2>6 DEF Matches
    <3>2. bytes[x - o] # Pattern(p)[x - o]
      BY <2>1, <2>3, <3>1
    <3> QED BY <2>6, <3>2 DEF Altered
  <2>8. Differs(Pattern(p), p, q, b - o) /\ Differs(bytes, p, q, b - o)
    BY <2>5, <2>6, <2>7 DEF Compatible
  <2>9. ~Matches(img, b, q)
    <3>1. PICK y \in Shared(p, q, b - o) : Pattern(p)[y] # Pattern(q)[y - (b - o)]
      BY <2>8 DEF Differs
    <3>2. y \in 1 .. Size(p) /\ y - (b - o) \in 1 .. Size(q) /\ b + (y - (b - o)) = o + y
      BY <1>1 DEF Shared
    <3> QED BY <3>1, <3>2 DEF Matches
  <2>10. ~Matches(new, b, q)
    <3>1. PICK y \in Shared(p, q, b - o) : bytes[y] # Pattern(q)[y - (b - o)]
      BY <2>8 DEF Differs
    <3>2. y \in 1 .. Size(p) /\ y - (b - o) \in 1 .. Size(q) /\ b + (y - (b - o)) = o + y
      BY <1>1 DEF Shared
    <3>3. o + y \in 1 .. Len(img) /\ o + y \in Window(o, Len(bytes)) /\ (o + y) - o = y
      BY <1>1, <2>4, <3>2 DEF Window
    <3>4. new[o + y] = bytes[y]
      BY <1>1, <3>3, CopiedBytes
    <3> HIDE DEF new
    <3> QED BY <3>1, <3>2, <3>4 DEF Matches
  <2> QED BY <2>9, <2>10
<1> QED BY <1>3, <1>4


(* The scan has tried pattern q at offset b.                               *)
Tried(b, q) == pc # "scan" \/ b < i \/ (b = i /\ q < patch)
Found(q)    == {b \in Occurrences(original, q) : Tried(b, q)}

(* What is still to be tried is as in the launcher that was read, and the    *)
(* counts tell what it holds.                                                *)
ScanInv ==
  pc = "scan" => \A q \in Names, b \in Nat :
    ~Tried(b, q) => (Matches(target, b, q) <=> Matches(original, b, q))
CountInv ==
  \A q \in Names :
    /\ result[q].matchCount = 0 => Found(q) = {}
    /\ result[q].matchCount = 1 => Found(q) = {result[q].lastFoundOffset}
    /\ result[q].matchCount > 1 => \E a, b \in Found(q) : a # b
ErrorInv == pc = "error" => \E q \in Names : result[q].matchCount # 1
SearchInv == ScanInv /\ CountInv /\ ErrorInv

LEMMA SearchInit == Init => SearchInv
<1> SUFFICES ASSUME Init PROVE SearchInv
  OBVIOUS
<1>1. ScanInv /\ ErrorInv
  BY DEF Init, ScanInv, ErrorInv
<1>2. \A q \in Names : Found(q) = {} /\ result[q].matchCount = 0
  BY PatchFacts DEF Init, Found, Tried, Occurrences, Names
<1>3. CountInv
  BY <1>2 DEF CountInv
<1> QED BY <1>1, <1>3 DEF SearchInv

(* Where nothing is found, nothing changes.                                *)
LEMMA SameFound ==
  ASSUME CountInv, UNCHANGED result, \A q \in Names : Found(q)' = Found(q)
  PROVE  CountInv'
BY DEF CountInv

LEMMA TryPatchSearch == PatchesCompatible /\ Inv /\ SearchInv /\ TryPatch => SearchInv'
<1> SUFFICES ASSUME PatchesCompatible, Inv, SearchInv, TryPatch PROVE SearchInv'
  OBVIOUS
<1> PICK p \in Names : p = patch
  BY PatchFacts DEF TryPatch, Inv, TypeOK, Names
<1>1. /\ patch' = p + 1 /\ pc = "scan" /\ i \in Nat /\ i < Len(target) /\ p \in Nat
      /\ UNCHANGED <<original, pc, i>>
      /\ target \in Seq(Byte) /\ original \in Seq(Byte) /\ Len(target) = Len(original)
      /\ result \in [Names -> [matchCount : Nat, lastFoundOffset : Nat]]
      /\ Len(target) \in Nat
  BY DEF TryPatch, Inv, TypeOK, Names
<1>2. \A q \in Names, b \in Nat : Tried(b, q)' <=> Tried(b, q) \/ (b = i /\ q = p)
  BY <1>1 DEF Tried, Names
<1>3. ~Tried(i, p)
  BY <1>1 DEF Tried
<1>4. Matches(target, i, p) <=> Matches(original, i, p)
  BY <1>1, <1>3 DEF SearchInv, ScanInv
<1>5. ErrorInv'
  BY <1>1 DEF ErrorInv
<1>6. CASE ~Matches(target, i, p)
  <2>1. UNCHANGED <<target, result>>
    BY <1>6 DEF TryPatch
  <2>2. ScanInv'
    BY <1>1, <1>2, <2>1, SMTT(60) DEF SearchInv, ScanInv, Matches, Pattern, Size
  <2>3. i \notin Occurrences(original, p)
    BY <1>4, <1>6 DEF Occurrences
  <2>4. ASSUME NEW q \in Names  PROVE Found(q)' = Found(q)
    <3>1. Occurrences(original, q)' = Occurrences(original, q) /\ Occurrences(original, q) \subseteq Nat
      BY <1>1 DEF Occurrences, Matches, Pattern, Size
    <3> QED BY <1>2, <2>3, <3>1 DEF Found
  <2>5. CountInv'
    BY <2>1, <2>4, SameFound DEF SearchInv
  <2> QED BY <1>5, <2>2, <2>5 DEF SearchInv
<1>7. CASE Matches(target, i, p)
  <2>1. /\ target' = Copied(target, i, Patches[p].patch)
        /\ result' = [result EXCEPT ![p] = [matchCount |-> result[p].matchCount + 1, lastFoundOffset |-> i]]
    BY <1>7 DEF TryPatch, Counted
  <2>2. ScanInv'
    <3> SUFFICES ASSUME NEW q \in Names, NEW b \in Nat, ~Tried(b, q)'
                 PROVE  Matches(target, b, q)' <=> Matches(original, b, q)'
      BY DEF ScanInv
    <3>1. ~Tried(b, q) /\ (p # q \/ i # b)
      BY <1>2
    <3>2. Matches(target, b, q) <=> Matches(original, b, q)
      BY <1>1, <3>1 DEF SearchInv, ScanInv
    <3>3. Matches(Copied(target, i, Patches[p].patch), b, q) <=> Matches(target, b, q)
      BY <1>1, <1>7, <3>1, MatchKept
    <3> QED BY <1>1, <2>1, <3>2, <3>3 DEF Matches, Pattern, Size
  <2>3. i \in Occurrences(original, p) /\ i \notin Found(p)
    BY <1>1, <1>3, <1>4, <1>7 DEF Occurrences, Found
  <2>4. ASSUME NEW q \in Names
        PROVE  Found(q)' = IF q = p THEN Found(p) \cup {i} ELSE Found(q)
    <3>1. Occurrences(original, q)' = Occurrences(original, q) /\ Occurrences(original, q) \subseteq Nat
      BY <1>1 DEF Occurrences, Matches, Pattern, Size
    <3> QED BY <1>2, <2>3, <3>1 DEF Found
  <2>5. /\ result'[p].matchCount = result[p].matchCount + 1 /\ result'[p].lastFoundOffset = i
        /\ result[p].matchCount \in Nat
        /\ \A q \in Names : q # p => result'[q] = result[q]
    BY <1>1, <2>1
  <2>6. CountInv'
    <3> SUFFICES ASSUME NEW q \in Names
                 PROVE  /\ result'[q].matchCount = 0 => Found(q)' = {}
                        /\ result'[q].matchCount = 1 => Found(q)' = {result'[q].lastFoundOffset}
                        /\ result'[q].matchCount > 1 => \E a, b \in Found(q)' : a # b
      BY DEF CountInv
    <3>1. CASE q # p
      BY <2>4, <2>5, <3>1 DEF SearchInv, CountInv
    <3>2. CASE q = p
      <4>1. result'[p].matchCount = 1 => Found(p)' = {i}
        BY <2>4, <2>5 DEF SearchInv, CountInv
      <4>2. ASSUME result'[p].matchCount > 1  PROVE \E a, b \in Found(p)' : a # b
        <5>1. result[p].matchCount = 1 \/ result[p].matchCount > 1
          BY <2>5, <4>2
        <5>2. PICK a : a \in Found(p)
          BY <5>1 DEF SearchInv, CountInv
        <5>3. a \in Found(p)' /\ i \in Found(p)' /\ a # i
          BY <2>3, <2>4, <5>2
        <5> QED BY <5>3
      <4> QED BY <2>5, <3>2, <4>1, <4>2
    <3> QED BY <3>1, <3>2
  <2> QED BY <1>5, <2>2, <2>6 DEF SearchInv
<1> QED BY <1>6, <1>7

LEMMA SearchStep == PatchesCompatible /\ Inv /\ SearchInv /\ [Next]_vars => SearchInv'
<1> SUFFICES ASSUME PatchesCompatible, Inv, SearchInv, [Next]_vars PROVE SearchInv'
  OBVIOUS
<1>0. /\ target \in Seq(Byte) /\ original \in Seq(Byte) /\ Len(target) = Len(original)
      /\ i \in Nat /\ Len(target) \in Nat /\ patch \in Nat /\ Len(Patches) \in Nat
      /\ \A q \in Names : result[q].matchCount \in Nat
  BY PatchFacts DEF Inv, TypeOK, Names
<1>1. CASE UNCHANGED vars
  <2>1. UNCHANGED <<original, target, pc, i, patch, result>>
    BY <1>1 DEF vars
  <2>2. \A q \in Names : Found(q)' = Found(q)
    BY <2>1 DEF Found, Tried, Occurrences, Matches, Pattern, Size
  <2>3. ScanInv'
    BY <2>1 DEF SearchInv, ScanInv, Tried, Matches, Pattern, Size
  <2> QED BY <2>1, <2>2, <2>3, SameFound DEF SearchInv, ErrorInv
<1>2. CASE TryPatch
  BY <1>2, TryPatchSearch
<1>3. CASE NextOffset
  <2>1. pc = "scan" /\ patch > Len(Patches) /\ i' = i + 1 /\ patch' = 1
        /\ UNCHANGED <<original, target, pc, result>>
    BY <1>3 DEF NextOffset
  <2>2. \A q \in Names, b \in Nat : Tried(b, q)' <=> Tried(b, q)
    BY <1>0, <2>1 DEF Tried, Names
  <2>3. ScanInv'
    BY <2>1, <2>2 DEF SearchInv, ScanInv, Matches, Pattern, Size
  <2>4. ASSUME NEW q \in Names  PROVE Found(q)' = Found(q)
    <3>1. Occurrences(original, q)' = Occurrences(original, q) /\ Occurrences(original, q) \subseteq Nat
      BY <2>1 DEF Occurrences, Matches, Pattern, Size
    <3> QED BY <2>2, <3>1 DEF Found
  <2>5. CountInv'
    BY <2>1, <2>4, SameFound DEF SearchInv
  <2> QED BY <2>1, <2>3, <2>5 DEF SearchInv, ErrorInv
<1>4. CASE ScanDone
  <2>1. pc = "scan" /\ pc' = "check" /\ i = Len(target) /\ UNCHANGED <<original, result>>
    BY <1>4 DEF ScanDone
  <2>2. ASSUME NEW q \in Names  PROVE Found(q)' = Found(q)
    <3>1. Occurrences(original, q)' = Occurrences(original, q)
      BY <2>1 DEF Occurrences, Matches, Pattern, Size
    <3>2. \A b \in Occurrences(original, q) : Tried(b, q) /\ Tried(b, q)'
      BY <1>0, <2>1 DEF Occurrences, Tried
    <3> QED BY <3>1, <3>2 DEF Found
  <2>3. CountInv'
    BY <2>1, <2>2, SameFound DEF SearchInv
  <2> QED BY <2>1, <2>3 DEF SearchInv, ScanInv, ErrorInv
<1>5. CASE \/ CheckResult \/ GetOptions \/ OptionSelect \/ SelectDone
           \/ ApplyOption \/ NextPatch \/ ApplyDone
  <2>1. pc # "scan" /\ pc' # "scan" /\ UNCHANGED <<original, result>>
    BY <1>5 DEF CheckResult, GetOptions, OptionSelect, Frame, SelectDone, ApplyOption, NextPatch, ApplyDone
  <2>2. ASSUME NEW q \in Names  PROVE Found(q)' = Found(q)
    <3>1. Occurrences(original, q)' = Occurrences(original, q)
      BY <2>1 DEF Occurrences, Matches, Pattern, Size
    <3> QED BY <2>1, <3>1 DEF Found, Tried
  <2>3. CountInv'
    BY <2>1, <2>2, SameFound DEF SearchInv
  <2>4. ErrorInv'
    <3>1. CASE CheckResult
      <4>1. pc' = "error" => Refused(result[patch])
        BY <3>1 DEF CheckResult
      <4>2. patch \in Names
        BY <1>0, <3>1 DEF CheckResult, Inv, TypeOK, Names
      <4> QED BY <1>0, <2>1, <4>1, <4>2 DEF Refused, ErrorInv
    <3>2. CASE ~CheckResult
      <4>1. pc' # "error"
        BY <1>5, <3>2
           DEF GetOptions, OptionSelect, Frame, SelectDone, ApplyOption, NextPatch, ApplyDone
      <4> QED BY <4>1 DEF ErrorInv
    <3> QED BY <3>1, <3>2
  <2> QED BY <2>1, <2>3, <2>4 DEF SearchInv, ScanInv
<1> QED BY <1>1, <1>2, <1>3, <1>4, <1>5 DEF Next

LEMMA SearchHolds ==
  ASSUME PatchesCompatible
  PROVE  Spec => []SearchInv
BY Invariant, SearchInit, SearchStep, PTL DEF Spec

(* patch.cpp:10-27, main.cpp:292-303.  If the patches do not disturb each    *)
(* other, as those of the program do not, main accepts exactly the launchers *)
(* that hold every pattern once, whatever their length and their bytes.      *)
THEOREM AcceptsExactly ==
  ASSUME PatchesCompatible
  PROVE  Spec => []AcceptsOriginals
<1>1. Inv /\ SearchInv => AcceptsOriginals
  <2> SUFFICES ASSUME Inv, SearchInv PROVE AcceptsOriginals
    OBVIOUS
  <2>1. ASSUME NEW q \in Names, pc # "scan"  PROVE Found(q) = Occurrences(original, q)
    BY <2>1 DEF Found, Tried
  <2>2. Accepted => Once(original)
    <3> SUFFICES ASSUME Accepted, NEW q \in Names
                 PROVE  \E o \in Occurrences(original, q) : Occurrences(original, q) = {o}
      BY DEF Once
    <3>1. result[q].matchCount = 1 /\ Found(q) = Occurrences(original, q)
      BY <2>1 DEF Inv, Checked, Accepted
    <3>2. Occurrences(original, q) = {result[q].lastFoundOffset}
      BY <3>1 DEF SearchInv, CountInv
    <3> QED BY <3>2
  <2>3. pc = "error" => ~Once(original)
    <3> SUFFICES ASSUME pc = "error" PROVE ~Once(original)
      OBVIOUS
    <3>1. PICK q \in Names : result[q].matchCount # 1
      BY DEF SearchInv, ErrorInv
    <3>2. result[q].matchCount \in Nat /\ Found(q) = Occurrences(original, q)
      BY <2>1 DEF Inv, TypeOK
    <3>3. \/ Occurrences(original, q) = {}
          \/ \E a, b \in Occurrences(original, q) : a # b
      BY <3>1, <3>2 DEF SearchInv, CountInv
    <3> QED BY <3>3 DEF Once
  <2> QED BY <2>2, <2>3 DEF AcceptsOriginals
<1> QED BY <1>1, Invariant, SearchHolds, PTL


(* The options of patch q that went into the image, and what the byte y of   *)
(* its place holds now.                                                      *)
Applied(q, n) == pc = "write" \/ (pc = "apply" /\ (q < patch \/ (q = patch /\ n < optionNum)))
Covers(o, y)  == y \in Window(o.offset, Len(o.change))
Hits(q, y)    == {n \in 1 .. Len(Patches[q].options) :
                    /\ Applied(q, n)
                    /\ Chosen(Patches[q].options[n])
                    /\ Covers(Patches[q].options[n], y)}
OptionByte(q, n, y) == Patches[q].options[n].change[y - Patches[q].options[n].offset]
BytesNow(q, y) == IF Hits(q, y) # {} THEN {OptionByte(q, n, y) : n \in Hits(q, y)}
                  ELSE {BaseByte(q, y)}

ContentInv ==
  \A x \in 1 .. Len(target) :
    /\ (\A q \in Names : \A b \in Found(q) : x \notin Window(b, Size(q))) => target[x] = original[x]
    /\ \A q \in Names : \A b \in Found(q) :
         x \in Window(b, Size(q)) => target[x] \in BytesNow(q, x - b)

LEMMA ContentInit == Init => ContentInv
<1> SUFFICES ASSUME Init PROVE ContentInv
  OBVIOUS
<1>1. \A q \in Names : Found(q) = {}
  BY PatchFacts DEF Init, Found, Tried, Occurrences, Names
<1> QED BY <1>1 DEF Init, ContentInv

(* A byte no patch alters is as the pattern has it, and no option covers it. *)
LEMMA PlainByte ==
  ASSUME NEW q \in Names, NEW y \in 1 .. Size(q), y \notin Altered(q)
  PROVE  BaseByte(q, y) = Pattern(q)[y] /\ Hits(q, y) = {}
BY DEF Altered, BaseByte, Hits, Covers

LEMMA FoundFacts ==
  ASSUME Inv, NEW q \in Names, NEW b \in Found(q)
  PROVE  b \in Nat /\ Matches(original, b, q)
BY DEF Found, Occurrences, Inv, TypeOK

LEMMA TryPatchContent ==
  PatchesCompatible /\ Inv /\ SearchInv /\ ContentInv /\ TryPatch => ContentInv'
<1> SUFFICES ASSUME PatchesCompatible, Inv, SearchInv, ContentInv, TryPatch PROVE ContentInv'
  OBVIOUS
<1> PICK p \in Names : p = patch
  BY PatchFacts DEF TryPatch, Inv, TypeOK, Names
<1>1. /\ patch' = p + 1 /\ pc = "scan" /\ i \in Nat /\ i < Len(target) /\ p \in Nat
      /\ UNCHANGED <<original, pc, i, options>>
      /\ target \in Seq(Byte) /\ original \in Seq(Byte) /\ Len(target) = Len(original)
      /\ Len(target) \in Nat
  BY DEF TryPatch, Inv, TypeOK, Names
<1>2. \A q \in Names, b \in Nat : Tried(b, q)' <=> Tried(b, q) \/ (b = i /\ q = p)
  BY <1>1 DEF Tried, Names
<1>3. ~Tried(i, p)
  BY <1>1 DEF Tried
<1>4. Matches(target, i, p) <=> Matches(original, i, p)
  BY <1>1, <1>3 DEF SearchInv, ScanInv
<1>5. \A q \in Names : /\ Occurrences(original, q)' = Occurrences(original, q)
                       /\ Occurrences(original, q) \subseteq Nat
  BY <1>1 DEF Occurrences, Matches, Pattern, Size
<1>6. \A q \in Names : \A y : BytesNow(q, y) = {BaseByte(q, y)} /\ BytesNow(q, y)' = {BaseByte(q, y)}
  BY <1>1 DEF BytesNow, Hits, Applied, BaseByte, Pattern
<1>7. CASE ~Matches(target, i, p)
  <2>1. UNCHANGED target
    BY <1>7 DEF TryPatch
  <2>2. i \notin Occurrences(original, p)
    BY <1>4, <1>7 DEF Occurrences
  <2>3. \A q \in Names : Found(q)' = Found(q)
    BY <1>2, <1>5, <2>2 DEF Found
  <2> QED BY <1>1, <1>6, <2>1, <2>3 DEF ContentInv, Window, Size, Pattern
<1>8. CASE Matches(target, i, p)
  <2> DEFINE bytes == Patches[p].patch
  <2>1. target' = Copied(target, i, bytes)
    BY <1>8 DEF TryPatch
  <2>2. \A q \in Names : Found(q)' = IF q = p THEN Found(p) \cup {i} ELSE Found(q)
    <3>1. i \in Occurrences(original, p)
      BY <1>1, <1>4, <1>8 DEF Occurrences
    <3> QED BY <1>2, <1>5, <3>1 DEF Found
  <2>3. i \notin Found(p)
    BY <1>3 DEF Found
  <2>4. bytes \in Seq(Byte) /\ Len(bytes) \in {0, Size(p)} /\ Size(p) \in Nat /\ Size(p) > 0
    BY PatchFacts
  <2>5. Len(target') = Len(target)
    BY <1>1, <2>1, <2>4, CopiedFacts
  <2> SUFFICES ASSUME NEW x \in 1 .. Len(target)
               PROVE  /\ (\A q \in Names : \A b \in Found(q)' : x \notin Window(b, Size(q)))
                            => target'[x] = original[x]
                      /\ \A q \in Names : \A b \in Found(q)' :
                           x \in Window(b, Size(q)) => target'[x] \in BytesNow(q, x - b)'
    BY <1>1, <2>5 DEF ContentInv, Window, Size, Pattern
  <2>6. /\ x \in Window(i, Len(bytes)) => target'[x] = bytes[x - i]
        /\ x \notin Window(i, Len(bytes)) => target'[x] = target[x]
    <3> HIDE DEF bytes
    <3> DEFINE new == Copied(target, i, bytes)
    <3>1. /\ x \in Window(i, Len(bytes)) => new[x] = bytes[x - i]
          /\ x \notin Window(i, Len(bytes)) => new[x] = target[x]
      <4>1. target \in Seq(Byte) /\ i \in Nat
        BY <1>1
      <4> QED BY <2>4, <4>1, CopiedBytes, ZenonT(30)
    <3> QED BY <2>1, <3>1
  <2>7. CASE x \notin Window(i, Size(p))
    <3>1. target'[x] = target[x]
      BY <1>1, <2>4, <2>6, <2>7 DEF Window
    <3>2. ASSUME NEW q \in Names, NEW b \in Found(q)', x \in Window(b, Size(q))
          PROVE  b \in Found(q)
      BY <2>2, <2>7, <3>2
    <3>3. \A q \in Names : \A b \in Found(q)' :
            x \in Window(b, Size(q)) => target'[x] \in BytesNow(q, x - b)'
      BY <1>6, <3>1, <3>2 DEF ContentInv
    <3>4. (\A q \in Names : \A b \in Found(q)' : x \notin Window(b, Size(q))) => target'[x] = original[x]
      BY <2>2, <3>1 DEF ContentInv
    <3> QED BY <3>3, <3>4
  <2>8. CASE x \in Window(i, Size(p))
    <3>1. x - i \in 1 .. Size(p) /\ i + (x - i) = x
      BY <1>1, <2>4, <2>8 DEF Window
    <3>2. target'[x] = BaseByte(p, x - i)
      <4>1. CASE bytes = <<>>
        <5>1. target'[x] = target[x]
          BY <1>1, <2>6, <4>1 DEF Window
        <5>2. target[x] = Pattern(p)[x - i]
          BY <1>8, <3>1 DEF Matches
        <5> QED BY <4>1, <5>1, <5>2 DEF BaseByte
      <4>2. CASE bytes # <<>>
        <5>1. x \in Window(i, Len(bytes))
          BY <2>4, <2>8, <4>2
        <5> QED BY <2>6, <4>2, <5>1 DEF BaseByte
      <4> QED BY <4>1, <4>2
    <3>3. ASSUME NEW q \in Names, NEW b \in Found(q)', x \in Window(b, Size(q))
          PROVE  target'[x] = BaseByte(q, x - b)
      <4>1. CASE b \in Found(q)
        <5>1. b \in Nat /\ Matches(original, b, q) /\ (p # q \/ i # b)
          BY <2>3, <4>1, FoundFacts
        <5>2. x - i \notin Altered(p) /\ x - b \notin Altered(q)
          <6>1. x - i \notin Altered(p)
            BY <1>1, <1>4, <1>8, <2>8, <3>3, <5>1, Undisturbed
          <6>2. x - b \notin Altered(q)
            BY <1>1, <1>4, <1>8, <2>8, <3>3, <5>1, Undisturbed
          <6> QED BY <6>1, <6>2
        <5>3. x - b \in 1 .. Size(q) /\ b + (x - b) = x
          BY <3>3, <5>1, PatchFacts DEF Window
        <5>4. BaseByte(p, x - i) = original[x] /\ BaseByte(q, x - b) = original[x]
          BY <1>4, <1>8, <3>1, <5>1, <5>2, <5>3, PlainByte DEF Matches
        <5> QED BY <3>2, <5>4
      <4>2. CASE b \notin Found(q)
        BY <2>2, <3>2, <4>2
      <4> QED BY <4>1, <4>2
    <3>4. i \in Found(p)'
      BY <2>2
    <3> QED BY <1>6, <2>8, <3>3, <3>4
  <2> QED BY <2>7, <2>8
<1> QED BY <1>7, <1>8


(* After the check every pattern has its one place.                        *)
LEMMA OnePlace ==
  ASSUME Inv, SearchInv, Accepted, NEW q \in Names
  PROVE  /\ Found(q) = {result[q].lastFoundOffset}
         /\ Occurrences(original, q) = {result[q].lastFoundOffset}
         /\ result[q].lastFoundOffset \in Nat
         /\ Matches(original, result[q].lastFoundOffset, q)
<1>1. result[q].matchCount = 1
  BY DEF Inv, Checked
<1>2. Found(q) = {result[q].lastFoundOffset}
  BY <1>1 DEF SearchInv, CountInv
<1>3. Found(q) = Occurrences(original, q)
  BY DEF Found, Tried, Accepted
<1>4. result[q].lastFoundOffset \in Nat
  BY DEF Inv, TypeOK
<1> QED BY <1>2, <1>3, <1>4 DEF Occurrences

(* patch_applySelectedOptions asks the question that Chosen asks.           *)
LEMMA ChosenIsFound ==
  ASSUME MenuInv, NEW o \in OptionType
  PROVE  Chosen(o) <=> /\ FindOption(options, o.name) # 0
                       /\ o.value = options[FindOption(options, o.name)].values[
                                      options[FindOption(options, o.name)].selection]
<1> DEFINE n == FindOption(options, o.name)
<1>1. /\ options \in Seq(EntryType) /\ Len(options) \in Nat
      /\ \A a, b \in 1 .. Len(options) : options[a].name = options[b].name => a = b
  BY DEF MenuInv, Menus
<1>2. /\ n \in 0 .. Len(options) /\ (n # 0 => options[n].name = o.name)
      /\ (\E k \in 1 .. Len(options) : options[k].name = o.name) => n # 0
  BY <1>1, FindOptionFacts
<1> HIDE DEF n
<1>3. ASSUME Chosen(o)  PROVE n # 0 /\ o.value = options[n].values[options[n].selection]
  <2>1. PICK k \in 1 .. Len(options) :
          options[k].name = o.name /\ options[k].values[options[k].selection] = o.value
    BY <1>3 DEF Chosen
  <2>2. n = k
    BY <1>1, <1>2, <2>1
  <2> QED BY <1>1, <2>1, <2>2
<1>4. ASSUME n # 0, o.value = options[n].values[options[n].selection]  PROVE Chosen(o)
  BY <1>1, <1>2, <1>4 DEF Chosen
<1> QED BY <1>3, <1>4 DEF n

LEMMA ApplyOptionContent ==
  PatchesCompatible /\ Inv /\ MenuInv /\ SearchInv /\ ContentInv /\ ApplyOption => ContentInv'
<1> SUFFICES ASSUME PatchesCompatible, Inv, MenuInv, SearchInv, ContentInv, ApplyOption
             PROVE  ContentInv'
  OBVIOUS
<1> PICK p \in Names : p = patch
  BY ApplyOptionFrame DEF Inv
<1> PICK n \in 1 .. Len(Patches[p].options) : n = optionNum
  BY ApplyOptionFrame DEF Inv
<1> DEFINE o == Patches[p].options[n]
           place(q) == result[q].lastFoundOffset
           at == place(p) + o.offset
<1>1. /\ pc = "apply" /\ optionNum' = n + 1 /\ p \in Nat /\ n \in Nat
      /\ UNCHANGED <<original, pc, i, patch, result, options>>
      /\ target \in Seq(Byte) /\ original \in Seq(Byte) /\ Len(target) = Len(original)
  <2>1. target \in Seq(Byte) /\ original \in Seq(Byte) /\ Len(target) = Len(original)
    BY DEF Inv, TypeOK
  <2> QED BY <2>1, ApplyOptionFrame DEF Inv, Names
<1>2. /\ o \in OptionType /\ o.offset \in Nat /\ o.change \in Seq(Byte) /\ Len(o.change) \in Nat
      /\ o.offset + Len(o.change) <= Size(p) /\ Size(p) \in Nat
  <2>1. /\ Patches[p].options \in Seq(OptionType)
        /\ o.offset \in Nat /\ o.change \in Seq(Byte)
        /\ o.offset + Len(o.change) <= Size(p) /\ Size(p) \in Nat
    BY PatchFacts
  <2>2. o \in OptionType
    BY <2>1, ElementType
  <2> HIDE DEF o
  <2> QED BY <2>1, <2>2
<1>3. /\ Accepted /\ result[p].matchCount = 1
      /\ \A q \in Names : /\ Found(q) = {place(q)} /\ place(q) \in Nat
                          /\ Matches(original, place(q), q)
  BY <1>1, OnePlace DEF Accepted, Inv, Checked
<1>4. target' = IF Chosen(o) THEN Copied(target, at, o.change) ELSE target
  <2>1. o = Patches[patch].options[optionNum] /\ at = result[patch].lastFoundOffset + o.offset
        /\ result[patch].matchCount # 0
    BY <1>3
  <2> HIDE DEF o, at
  <2>2. target' = IF /\ FindOption(options, o.name) # 0
                     /\ o.value = options[FindOption(options, o.name)].values[
                                    options[FindOption(options, o.name)].selection]
                  THEN Copied(target, at, o.change) ELSE target
    BY <2>1 DEF ApplyOption
  <2> QED BY <1>2, <2>2, ChosenIsFound
<1>5. \A q \in Names : Found(q)' = Found(q)
  BY <1>1 DEF Found, Tried, Occurrences, Matches, Pattern, Size
<1>6. \A q \in Names : \A k \in 1 .. Len(Patches[q].options) :
        Applied(q, k)' <=> Applied(q, k) \/ (q = p /\ k = n)
  BY <1>1 DEF Applied, Names
<1>7. \A q \in Names : \A y :
        Hits(q, y)' = IF q = p /\ Chosen(o) /\ Covers(o, y) THEN Hits(q, y) \cup {n} ELSE Hits(q, y)
  <2> SUFFICES ASSUME NEW q \in Names, NEW y
               PROVE  Hits(q, y)' = IF q = p /\ Chosen(o) /\ Covers(o, y) THEN Hits(q, y) \cup {n}
                                    ELSE Hits(q, y)
    OBVIOUS
  <2> DEFINE Fits(k) == Chosen(Patches[q].options[k]) /\ Covers(Patches[q].options[k], y)
  <2>1. \A k : Fits(k)' <=> Fits(k)
    BY <1>1 DEF Chosen, Covers, Window
  <2> HIDE DEF Fits
  <2>2. /\ Hits(q, y)  = {k \in 1 .. Len(Patches[q].options) : Applied(q, k) /\ Fits(k)}
        /\ Hits(q, y)' = {k \in 1 .. Len(Patches[q].options) : Applied(q, k)' /\ Fits(k)'}
    BY DEF Hits, Fits
  <2>3. Fits(n) <=> Chosen(Patches[q].options[n]) /\ Covers(Patches[q].options[n], y)
    BY DEF Fits
  <2> QED BY <1>6, <2>1, <2>2, <2>3
<1>8. \A q \in Names : \A y : (q # p \/ ~Chosen(o) \/ ~Covers(o, y)) => BytesNow(q, y)' = BytesNow(q, y)
  BY <1>7 DEF BytesNow, OptionByte, BaseByte, Pattern
<1>9. CASE ~Chosen(o)
  <2>1. UNCHANGED target
    BY <1>4, <1>9
  <2> QED BY <1>1, <1>5, <1>8, <1>9, <2>1 DEF ContentInv, Window, Size, Pattern
<1>10. CASE Chosen(o)
  <2>1. at \in Nat /\ target' = Copied(target, at, o.change)
    BY <1>2, <1>3, <1>4, <1>10
  <2>2. Len(target') = Len(target)
    BY <1>1, <1>2, <2>1, CopiedFacts
  <2> SUFFICES ASSUME NEW x \in 1 .. Len(target)
               PROVE  /\ (\A q \in Names : \A b \in Found(q)' : x \notin Window(b, Size(q)))
                            => target'[x] = original[x]
                      /\ \A q \in Names : \A b \in Found(q)' :
                           x \in Window(b, Size(q)) => target'[x] \in BytesNow(q, x - b)'
    BY <1>1, <2>2 DEF ContentInv, Window, Size, Pattern
  <2>3. /\ x \in Window(at, Len(o.change)) => target'[x] = o.change[x - at]
        /\ x \notin Window(at, Len(o.change)) => target'[x] = target[x]
    <3> DEFINE new == Copied(target, at, o.change)
    <3>1. /\ x \in Window(at, Len(o.change)) => new[x] = o.change[x - at]
          /\ x \notin Window(at, Len(o.change)) => new[x] = target[x]
      <4> HIDE DEF at, o
      <4> QED BY <1>1, <1>2, <2>1, CopiedBytes
    <3> HIDE DEF new, at, o
    <3> QED BY <2>1, <3>1 DEF new
  <2>i. x \in Int
    OBVIOUS
  <2>4. Covers(o, x - place(p)) <=> x \in Window(at, Len(o.change))
    <3>1. place(p) \in Nat
      BY <1>3
    <3> HIDE DEF o, place
    <3> QED BY <1>2, <2>i, <3>1, WindowMoved DEF Covers, at
  <2>5. CASE x \notin Window(at, Len(o.change))
    <3>1. target'[x] = target[x]
      BY <2>3, <2>5
    <3>2. \A q \in Names : \A b \in Found(q)' : BytesNow(q, x - b)' = BytesNow(q, x - b)
      BY <1>3, <1>5, <1>8, <2>4, <2>5
    <3> QED BY <1>5, <3>1, <3>2 DEF ContentInv
  <2>6. CASE x \in Window(at, Len(o.change))
    <3>1. /\ x \in Window(place(p), Size(p)) /\ x - place(p) \in 1 .. Size(p)
          /\ Covers(o, x - place(p)) /\ x - at = (x - place(p)) - o.offset
      <4>1. place(p) \in Nat
        BY <1>3
      <4> HIDE DEF o, place
      <4>2. x \in Window(place(p), Size(p))
        BY <1>2, <2>6, <4>1, WindowNested DEF at
      <4>3. x - place(p) \in 1 .. Size(p)
        BY <1>2, <2>i, <4>1, <4>2, WindowMoved
      <4>4. x - at = (x - place(p)) - o.offset
        BY <1>2, <2>i, <4>1 DEF at
      <4> QED BY <2>4, <2>6, <4>2, <4>3, <4>4
    <3>2. x - place(p) \in Altered(p)
      BY <3>1 DEF Altered, Covers
    <3>3. ASSUME NEW q \in Names, q # p  PROVE x \notin Window(place(q), Size(q))
      <4> SUFFICES ASSUME x \in Window(place(q), Size(q)) PROVE FALSE
        OBVIOUS
      <4>1. x - place(p) \notin Altered(p)
        <5>1. /\ place(p) \in Nat /\ place(q) \in Nat
              /\ Matches(original, place(p), p) /\ Matches(original, place(q), q)
          BY <1>3
        <5> HIDE DEF place
        <5> QED BY <1>1, <3>1, <3>3, <5>1, Undisturbed
      <4> QED BY <3>2, <4>1
    <3>4. ASSUME NEW y, y = x - place(p)  PROVE target'[x] \in BytesNow(p, y)'
      <4>1. n \in Hits(p, y)'
        BY <1>7, <1>10, <3>1, <3>4
      <4>2. target'[x] = OptionByte(p, n, y)
        BY <2>3, <2>6, <3>1, <3>4 DEF OptionByte
      <4>3. OptionByte(p, n, y)' = OptionByte(p, n, y)
        BY DEF OptionByte
      <4> QED BY <4>1, <4>2, <4>3 DEF BytesNow
    <3>5. \A q \in Names : \A b \in Found(q)' :
            x \in Window(b, Size(q)) => target'[x] \in BytesNow(q, x - b)'
      <4> SUFFICES ASSUME NEW q \in Names, NEW b \in Found(q)', x \in Window(b, Size(q))
                   PROVE  target'[x] \in BytesNow(q, x - b)'
        OBVIOUS
      <4>1. b = place(q)
        BY <1>3, <1>5
      <4>2. q = p
        BY <3>3, <4>1
      <4> QED BY <1>1, <3>4, <4>1, <4>2
    <3>6. \E q \in Names : \E b \in Found(q)' : x \in Window(b, Size(q))
      BY <1>3, <1>5, <3>1
    <3> QED BY <3>5, <3>6
  <2> QED BY <2>5, <2>6
<1> QED BY <1>9, <1>10

(* The other steps change neither the image nor what is applied.           *)
LEMMA OtherContent ==
  ASSUME Inv, ContentInv, UNCHANGED <<original, target>>,
         \A q \in Names : Found(q)' = Found(q),
         \A q \in Names : \A k \in 1 .. Len(Patches[q].options) :
           /\ Applied(q, k)' <=> Applied(q, k)
           /\ Applied(q, k) => Chosen(Patches[q].options[k])' = Chosen(Patches[q].options[k])
  PROVE  ContentInv'
<1>1. \A q \in Names : \A y : Hits(q, y)' = Hits(q, y)
  BY DEF Hits, Covers, Window
<1>2. \A q \in Names : \A y : BytesNow(q, y)' = BytesNow(q, y)
  BY <1>1 DEF BytesNow, OptionByte, BaseByte, Pattern
<1> QED BY <1>2 DEF ContentInv, Window, Size, Pattern

LEMMA ContentStep ==
  PatchesCompatible /\ Inv /\ MenuInv /\ SearchInv /\ ContentInv /\ [Next]_vars => ContentInv'
<1> SUFFICES ASSUME PatchesCompatible, Inv, MenuInv, SearchInv, ContentInv, [Next]_vars
             PROVE  ContentInv'
  OBVIOUS
<1>0. /\ i \in Nat /\ patch \in Nat /\ optionNum \in Nat /\ Len(Patches) \in Nat
      /\ Len(target) \in Nat /\ Len(original) = Len(target)
      /\ \A q \in Names : q \in Nat
  BY PatchFacts DEF Inv, TypeOK, Names
<1>1. CASE UNCHANGED vars
  <2>1. UNCHANGED <<original, target, pc, i, patch, optionNum, options>>
    BY <1>1 DEF vars
  <2> QED BY <2>1, OtherContent DEF Found, Tried, Occurrences, Matches, Pattern, Size, Applied, Chosen
<1>2. CASE TryPatch
  BY <1>2, TryPatchContent
<1>3. CASE ApplyOption
  BY <1>3, ApplyOptionContent
<1>4. CASE NextOffset
  <2>1. pc = "scan" /\ patch > Len(Patches) /\ i' = i + 1 /\ patch' = 1
        /\ UNCHANGED <<original, target, pc, options>>
    BY <1>4 DEF NextOffset
  <2>2. \A q \in Names, b \in Nat : Tried(b, q)' <=> Tried(b, q)
    BY <1>0, <2>1 DEF Tried, Names
  <2>3. ASSUME NEW q \in Names  PROVE Found(q)' = Found(q)
    <3>1. Occurrences(original, q)' = Occurrences(original, q) /\ Occurrences(original, q) \subseteq Nat
      BY <2>1 DEF Occurrences, Matches, Pattern, Size
    <3> QED BY <2>2, <3>1 DEF Found
  <2> QED BY <2>1, <2>3, OtherContent DEF Applied
<1>5. CASE ScanDone
  <2>1. pc = "scan" /\ pc' = "check" /\ i = Len(target) /\ UNCHANGED <<original, target>>
    BY <1>5 DEF ScanDone
  <2>2. ASSUME NEW q \in Names  PROVE Found(q)' = Found(q)
    <3>1. Occurrences(original, q)' = Occurrences(original, q)
      BY <2>1 DEF Occurrences, Matches, Pattern, Size
    <3>2. \A b \in Occurrences(original, q) : Tried(b, q) /\ Tried(b, q)'
      BY <1>0, <2>1 DEF Occurrences, Tried
    <3> QED BY <3>1, <3>2 DEF Found
  <2> QED BY <2>1, <2>2, OtherContent DEF Applied
<1>6. CASE \/ CheckResult \/ GetOptions \/ OptionSelect \/ SelectDone \/ NextPatch \/ ApplyDone
  <2>1. pc # "scan" /\ pc' # "scan" /\ UNCHANGED <<original, target>>
    BY <1>6 DEF CheckResult, GetOptions, OptionSelect, Frame, SelectDone, NextPatch, ApplyDone
  <2>2. ASSUME NEW q \in Names  PROVE Found(q)' = Found(q)
    <3>1. Occurrences(original, q)' = Occurrences(original, q)
      BY <2>1 DEF Occurrences, Matches, Pattern, Size
    <3> QED BY <2>1, <3>1 DEF Found, Tried
  <2>3. ASSUME NEW q \in Names, NEW k \in 1 .. Len(Patches[q].options)
        PROVE  /\ Applied(q, k)' <=> Applied(q, k)
               /\ Applied(q, k) => Chosen(Patches[q].options[k])' = Chosen(Patches[q].options[k])
    <3>1. CASE CheckResult \/ GetOptions \/ OptionSelect
      BY <3>1 DEF CheckResult, GetOptions, OptionSelect, Frame, Applied
    <3>2. CASE SelectDone
      <4>1. pc = "select" /\ pc' = "apply" /\ patch' = 1 /\ optionNum' = 1
        BY <3>2 DEF SelectDone
      <4>2. k \in Nat /\ q >= 1 /\ k >= 1
        BY <1>0 DEF Names
      <4> QED BY <1>0, <4>1, <4>2 DEF Applied
    <3>3. CASE NextPatch
      <4>1. /\ pc = "apply" /\ patch' = patch + 1 /\ optionNum' = 1
            /\ patch \in Names /\ optionNum > Len(Patches[patch].options)
            /\ UNCHANGED <<pc, options>>
        BY <1>0, <3>3 DEF NextPatch, Names, Inv, TypeOK
      <4>2. k \in Nat /\ k >= 1 /\ Len(Patches[q].options) \in Nat
        BY PatchFacts
      <4>3. Applied(q, k)' <=> Applied(q, k)
        BY <1>0, <4>1, <4>2 DEF Applied
      <4> QED BY <4>1, <4>3 DEF Chosen
    <3>4. CASE ApplyDone
      <4>1. pc = "apply" /\ pc' = "write" /\ patch > Len(Patches) /\ UNCHANGED options
        BY <3>4 DEF ApplyDone
      <4>2. q < patch
        BY <1>0, <4>1 DEF Names
      <4> QED BY <4>1, <4>2 DEF Applied, Chosen
    <3> QED BY <1>6, <3>1, <3>2, <3>3, <3>4
  <2> QED BY <2>1, <2>2, <2>3, OtherContent
<1> QED BY <1>1, <1>2, <1>3, <1>4, <1>5, <1>6 DEF Next

LEMMA ContentHolds ==
  ASSUME PatchesCompatible
  PROVE  Spec => []ContentInv
BY Invariant, MenuHolds, SearchHolds, ContentInit, ContentStep, PTL DEF Spec

(* patch.cpp:10-37, 102-123, main.cpp:278-316.  If the patches do not disturb *)
(* each other, as those of the program do not, the image that is written is   *)
(* the launcher that was read with each patch at the place of its pattern and *)
(* the bytes of the chosen options in it, whatever was chosen.                *)
THEOREM WrittenAsChosen ==
  ASSUME PatchesCompatible
  PROVE  Spec => []WrittenIsPatched
<1>1. Inv /\ SearchInv /\ ContentInv => WrittenIsPatched
  <2> SUFFICES ASSUME Inv, SearchInv, ContentInv, pc = "write", NEW x \in 1 .. Len(target)
               PROVE  LET covers == {p \in Names : \E o \in Occurrences(original, p) : x \in Window(o, Size(p))}
                          place(p) == CHOOSE o \in Occurrences(original, p) : TRUE
                      IN  IF covers = {} THEN target[x] = original[x]
                          ELSE \A p \in covers : target[x] \in PatchByte(p, x - place(p))
    BY DEF WrittenIsPatched
  <2> DEFINE covers == {p \in Names : \E o \in Occurrences(original, p) : x \in Window(o, Size(p))}
             place(p) == CHOOSE o \in Occurrences(original, p) : TRUE
  <2>1. \A q \in Names : Found(q) = Occurrences(original, q) /\ Found(q) = {place(q)}
    <3> SUFFICES ASSUME NEW q \in Names
                 PROVE  Found(q) = Occurrences(original, q) /\ Found(q) = {place(q)}
      OBVIOUS
    <3>1. Occurrences(original, q) = {result[q].lastFoundOffset}
          /\ Found(q) = {result[q].lastFoundOffset}
      BY OnePlace DEF Accepted
    <3>2. place(q) = result[q].lastFoundOffset
      BY <3>1
    <3> QED BY <3>1, <3>2
  <2> HIDE DEF place
  <2>2. CASE covers = {}
    <3>1. \A q \in Names : \A b \in Found(q) : x \notin Window(b, Size(q))
      BY <2>1, <2>2
    <3> QED BY <2>2, <3>1 DEF ContentInv
  <2>3. CASE covers # {}
    <3> SUFFICES ASSUME NEW p \in covers PROVE target[x] \in PatchByte(p, x - place(p))
      BY <2>3 DEF place
    <3>1. p \in Names /\ x \in Window(place(p), Size(p)) /\ place(p) \in Found(p)
      BY <2>1
    <3>2. target[x] \in BytesNow(p, x - place(p))
      BY <3>1 DEF ContentInv
    <3>3. BytesNow(p, x - place(p)) = PatchByte(p, x - place(p))
      BY DEF BytesNow, PatchByte, Hits, Applied, Covers, OptionByte, BaseByte
    <3> QED BY <3>2, <3>3
  <2> QED BY <2>2, <2>3 DEF place
<1> QED BY <1>1, Invariant, SearchHolds, ContentHolds, PTL
=============================================================================
