----------------------------- MODULE DsiCrypto -----------------------------
(***************************************************************************)
(* gm9i/crypto.c, gm9i/f_xy.c, getConsoleID of gm9i/nandio.c and the       *)
(* decryption of the launcher in main.cpp: the identity is worked out from *)
(* the key that the ARM7 found, the keys of NAND, containers and second    *)
(* boot stage from the identity, that of the launcher from its header, and *)
(* sectors are encrypted by position.  One action per key and per block.   *)
(***************************************************************************)
EXTENDS Twl

(* A word as it is written, its most significant byte first.                *)
Seed(a, b, c, d) == <<d, c, b, a>>

DSi_KEY_MAGIC == Bytes16(
  <<\h79, \h3e, \h4f, \h1a, \h5f, \h0f, \h68, \h2a, \h58, \h02, \h59, \h29, \h4e, \hfb, \hfe, \hff>>)
DSi_NAND_KEY_Y == Bytes16(
  <<\h76, \hdc, \hb9, \h0a, \hd3, \hc4, \h4d, \hbd, \h1d, \hdd, \h2d, \h20, \h05, \h00, \ha0, \he1>>)
DSi_ES_KEY_Y == Bytes16(
  <<\he5, \hcc, \h5a, \h8b, \h56, \hd0, \hc9, \h72, \h9c, \h17, \he8, \hdc, \h39, \h12, \h36, \ha9>>)
DSi_BOOT2_KEY == Bytes16(
  <<\h98, \hee, \h80, \h80, \h00, \h6c, \hb4, \hf6, \h3a, \hc2, \h6e, \h62, \hf9, \hec, \h34, \had>>)

(* The four words a key starts from, for the two words of a console id.     *)
KeyX(id, mode) ==
  CASE mode = "NAND" ->
         <<id[1], XorWord(id[1], Seed(\h24, \hee, \h69, \h06)),
           XorWord(id[2], Seed(\he6, \h5b, \h60, \h1d)), id[2]>>
    [] mode = "NAND_3DS" ->
         LET first == XorWord(id[1], Seed(\hb3, \h58, \ha6, \haf))
         IN  <<[first EXCEPT ![4] = (@ % 128) + 128], Seed(\h54, \h4e, \h49, \h4e),
               Seed(\h4f, \h44, \h4e, \h45), XorWord(id[2], Seed(\h08, \hc2, \h67, \hb7))>>
    [] mode = "ES" ->
         <<Seed(\h4e, \h00, \h00, \h4a), Seed(\h4a, \h00, \h00, \h4e),
           XorWord(id[2], Seed(\hc8, \h0c, \h4b, \h72)), id[1]>>
KeyY(mode) == IF mode = "ES" THEN DSi_ES_KEY_Y ELSE DSi_NAND_KEY_Y

F_XY(key_x, key_y) == u128_lrot(u128_add(u128_xor(key_x, key_y), DSi_KEY_MAGIC), 42)
F_XY_reverse(key)  == u128_sub(u128_rrot(key, 42), DSi_KEY_MAGIC)

generate_key(id, mode) == F_XY(PutWords(KeyX(id, mode)), KeyY(mode))
(* The first and the last word; nandio_startup turns the eight bytes round  *)
(* and dsi_crypt_init turns them back.                                      *)
getConsoleID(key) ==
  With(u128_xor(F_XY_reverse(key), DSi_NAND_KEY_Y), LAMBDA x : <<WordOf(x, 0), WordOf(x, 12)>>)

Boot2Counter(size_r) ==
  LET b(j) == (size_r \div 256^j) % 256
      Negated(j) == (255 - b(j) + IF \A k \in 0 .. (j - 1) : b(k) = 0 THEN 1 ELSE 0) % 256
  IN  [i \in Index |-> IF i < 4 THEN b(i) ELSE IF i < 8 THEN Negated(i - 4)
                       ELSE IF i < 12 THEN 255 - b(i - 8) ELSE 0]

(* main.cpp:222-243, for the header [debug, first, key_y, ctr, len]: the    *)
(* first block of the launcher, whose last four bytes name it, its bytes    *)
(* 0x350 on, and counters and lengths of its two areas.  keyp is            *)
(* "Nintendo", the name, and the name backwards.                            *)
keyp(first) ==
  LET Nintendo == <<\h4e, \h69, \h6e, \h74, \h65, \h6e, \h64, \h6f>>
  IN  [j \in Index |-> IF j < 8 THEN Nintendo[j + 1] ELSE IF j < 12 THEN first[j + 4] ELSE first[27 - j]]
ModcryptKey(header) ==
  IF header.debug THEN header.first
  ELSE u128_lrot(u128_add(u128_xor(header.key_y, keyp(header.first)), DSi_KEY_MAGIC), 42)

-----------------------------------------------------------------------------
CONSTANTS
  Consoles,   \* [id, digest, is3DS]: identity, and SHA1 of the CID, 20 bytes
  Offsets,    \* positions on the chip, in blocks of 16 bytes
  Counts,     \* blocks of a call
  Contents,   \* what a call may find in every block
  Sizes,      \* arguments of dsi_boot2_crypt_set_ctr
  Headers,    \* of launchers, see ModcryptKey
  CALLS       \* bound: calls

(* What swiSHA1Calc, the header and the chip can deliver.  Positions and    *)
(* lengths are of type u32; so that TLC can evaluate it, IsU32 says without  *)
(* naming 2^32 that n is less.                                              *)
Word     == [1 .. 4 -> Byte]
IsU32(n) == n \in Nat /\ n \div 16777216 < 256
ASSUME IdentityAssumption ==
  Consoles \subseteq [id : Word \X Word, digest : [1 .. 20 -> Byte], is3DS : BOOLEAN]
ASSUME PositionAssumption ==
  /\ CALLS \in Nat /\ Offsets \subseteq Nat /\ Counts \subseteq Nat /\ Sizes \subseteq Nat
  /\ \A offset \in Offsets, count \in Counts : IsU32(offset + count)
  /\ \E most \in Counts \cup {0} : IsU32(CALLS * most) /\ \A count \in Counts : count <= most
ASSUME HeaderAssumption ==
  /\ Headers \subseteq [debug : BOOLEAN, first : Block, key_y : Block, ctr : Block \X Block, len : Nat \X Nat]
  /\ \A header \in Headers, area \in 1 .. 2 : IsU32(header.len[area])

VARIABLES
  console,
  cryptPc,    \* "identity", "nandkey", "eskey", "boot2key", "digest", "idle", "loop" or "end"
  slot3,      \* what the ARM7 left in shared memory
  console_id, key,                       \* locals
  nand_ctx, es_ctx, boot2_ctx, nand_ctr_iv, boot2_ctr,
  ctx,        \* local of main: context of the areas
  call,       \* [kind, offset, count, content, header, area]
  done, ctr,  \* locals: blocks done (i), counter
  out,        \* sequence of blocks
  boot2From,  \* history: argument of dsi_boot2_crypt_set_ctr
  boot2Done,  \* history: blocks since
  calls       \* history: bounded by CALLS

keyVars  == <<console, slot3, console_id, key, es_ctx, boot2_ctx, nand_ctr_iv>>
dsiVars  == <<cryptPc, keyVars, nand_ctx, ctx, boot2_ctr, call, done, ctr, out, boot2From, boot2Done, calls>>

(* External: the AES engine, which makes the key of a slot from its X and   *)
(* Y.  The sum has a carry into byte k when some byte below k generates one *)
(* and those between hand it on; bit b moves to b + 42.                     *)
Sum(a, b) ==
  LET Carry(k) == IF \E j \in 0 .. (k - 1) : a[j] + b[j] > 255 /\ \A m \in (j + 1) .. (k - 1) : a[m] + b[m] >= 255
                  THEN 1 ELSE 0
  IN  Table([k \in Index |-> (a[k] + b[k] + Carry(k)) % 256])
NormalKey(x, y) ==
  LET sum == Sum(Table(XorBlock(x, y)), DSi_KEY_MAGIC)
      Place(b) == (b + 128 - 42) % 128
      KeyBit(b) == Bit(sum[Place(b) \div 8], Place(b) % 8)
      KeyByte(j) == KeyBit(8 * j) + 2 * KeyBit(8 * j + 1) + 4 * KeyBit(8 * j + 2) + 8 * KeyBit(8 * j + 3)
                     + 16 * KeyBit(8 * j + 4) + 32 * KeyBit(8 * j + 5) + 64 * KeyBit(8 * j + 6)
                     + 128 * KeyBit(8 * j + 7)
  IN  Table([j \in Index |-> KeyByte(j)])

NoId   == <<<<0, 0, 0, 0>>, <<0, 0, 0, 0>>>>
NoHeader == [debug |-> TRUE, first |-> ZeroBlock, key_y |-> ZeroBlock, ctr |-> <<ZeroBlock, ZeroBlock>>, len |-> <<0, 0>>]
Call(kind, offset, count, content) ==
  [kind |-> kind, offset |-> offset, count |-> count, content |-> content, header |-> NoHeader, area |-> 1]
NoCall == Call("none", 0, 0, ZeroBlock)

DsiInit ==
  /\ console \in Consoles /\ cryptPc = "identity"
  /\ slot3 = NormalKey(PutWords(KeyX(console.id, "NAND")), DSi_NAND_KEY_Y)
  /\ console_id = NoId /\ key = ZeroBlock
  /\ nand_ctx = NoContext /\ es_ctx = NoContext /\ boot2_ctx = NoContext /\ ctx = NoContext
  /\ nand_ctr_iv = ZeroBlock /\ boot2_ctr = ZeroBlock
  /\ call = NoCall /\ done = 0 /\ ctr = ZeroBlock /\ out = <<>>
  /\ boot2From = -1 /\ boot2Done = 0 /\ calls = 0

-----------------------------------------------------------------------------
callVars == <<ctx, call, done, ctr, out, boot2From, boot2Done, calls>>

ReadIdentity ==
  /\ cryptPc = "identity" /\ cryptPc' = "nandkey"
  /\ console_id' = getConsoleID(slot3)
  /\ UNCHANGED <<console, slot3, key, nand_ctx, es_ctx, boot2_ctx, nand_ctr_iv, boot2_ctr, callVars>>

(* dsi_crypt_init *)
NandMode == IF console.is3DS THEN "NAND_3DS" ELSE "NAND"
SetNandKey ==
  /\ cryptPc = "nandkey" /\ cryptPc' = "eskey"
  /\ \E k \in {generate_key(console_id, NandMode)} : key' = k /\ nand_ctx' = dsi_set_key(nand_ctx, k)
  /\ UNCHANGED <<console, slot3, console_id, es_ctx, boot2_ctx, nand_ctr_iv, boot2_ctr, callVars>>
SetEsKey ==
  /\ cryptPc = "eskey" /\ cryptPc' = "boot2key"
  /\ \E k \in {generate_key(console_id, "ES")} : key' = k /\ es_ctx' = dsi_set_key(es_ctx, k)
  /\ UNCHANGED <<console, slot3, console_id, nand_ctx, boot2_ctx, nand_ctr_iv, boot2_ctr, callVars>>
SetBoot2Key ==
  /\ cryptPc = "boot2key" /\ cryptPc' = "digest"
  /\ boot2_ctx' = dsi_set_key(boot2_ctx, DSi_BOOT2_KEY)
  /\ UNCHANGED <<console, slot3, console_id, key, nand_ctx, es_ctx, nand_ctr_iv, boot2_ctr, callVars>>
(* swiSHA1Calc delivers 20 bytes, the array holds 16.  What follows it is   *)
(* the variable defined after it or, if the compiler lays them out          *)
(* backwards, before it: the counter of boot2 or that of es_ctx.            *)
SetCounter ==
  /\ cryptPc = "digest" /\ cryptPc' = "idle"
  /\ nand_ctr_iv' = [k \in Index |-> console.digest[k + 1]]
  /\ LET Overrun(c) == [k \in Index |-> IF k < 4 THEN console.digest[17 + k] ELSE c[k]]
     IN  \/ boot2_ctr' = Overrun(boot2_ctr) /\ UNCHANGED es_ctx
         \/ es_ctx' = [es_ctx EXCEPT !.ctr = Overrun(@)] /\ UNCHANGED boot2_ctr
  /\ UNCHANGED <<console, slot3, console_id, key, nand_ctx, boot2_ctx, callVars>>

(* The counter starts from a number of blocks.  A mistake that              *)
(* StreamIsPositional would show: from a number of sectors.                 *)
FromSector(offset) == u128_add32(nand_ctr_iv, offset \div 32)
FromBlock(offset)  == u128_add32(nand_ctr_iv, offset)
(* dsi_nand_crypt, dsi_nand_crypt_1 and dsi_boot2_crypt, whose counter has  *)
(* been set before.                                                         *)
CryptCall ==
  /\ cryptPc = "idle" /\ calls < CALLS
  /\ \E kind \in {"nand", "nand_1", "boot2"}, offset \in Offsets, count \in Counts, content \in Contents :
       /\ kind = "nand_1" => count = 1
       /\ kind = "boot2" => boot2From >= 0 /\ offset = 0
       /\ call' = Call(kind, offset, count, content)
       /\ ctr' = IF kind = "boot2" THEN ctr ELSE FromBlock(offset)
  /\ done' = 0 /\ out' = <<>> /\ calls' = calls + 1
  /\ cryptPc' = "loop"
  /\ UNCHANGED <<keyVars, nand_ctx, ctx, boot2_ctr, boot2From, boot2Done>>

(* Key and counter for an area of the launcher; its blocks follow.  Nothing *)
(* sets the counter in between: the context counts.                         *)
BeginArea ==
  /\ cryptPc = "idle" /\ calls < CALLS
  /\ \E header \in Headers, area \in 1 .. 2, content \in Contents :
       /\ call' = [Call("modcrypt", 0, header.len[area] \div 16, content)
                     EXCEPT !.header = header, !.area = area]
       /\ \E k \in {ModcryptKey(header)} :
            key' = k /\ ctx' = dsi_set_ctr(dsi_set_key(ctx, k), header.ctr[area])
  /\ done' = 0 /\ out' = <<>> /\ calls' = calls + 1
  /\ cryptPc' = "loop"
  /\ UNCHANGED <<console, slot3, console_id, es_ctx, boot2_ctx, nand_ctr_iv, nand_ctx, boot2_ctr, ctr,
                 boot2From, boot2Done>>

(* One block: dsi_crypt_ctr with a length of 16.                            *)
NandBlock ==
  /\ cryptPc = "loop" /\ call.kind \in {"nand", "nand_1"} /\ done < call.count
  /\ \E set \in {dsi_set_ctr(nand_ctx, ctr)} :
       /\ out' = Append(out, CtrBlock(set, call.content))
       /\ nand_ctx' = AfterCtrBlock(set)
  /\ ctr' = IF call.kind = "nand" THEN u128_add32(ctr, 1) ELSE ctr
  /\ done' = done + 1
  /\ UNCHANGED <<cryptPc, keyVars, ctx, boot2_ctr, call, boot2From, boot2Done, calls>>
Boot2Block ==
  /\ cryptPc = "loop" /\ call.kind = "boot2" /\ done < call.count
  /\ \E set \in {dsi_set_ctr(boot2_ctx, boot2_ctr)} :
       /\ out' = Append(out, CtrBlock(set, call.content))
       /\ boot2_ctx' = AfterCtrBlock(set)
  /\ boot2_ctr' = u128_add32(boot2_ctr, 1)
  /\ done' = done + 1 /\ boot2Done' = boot2Done + 1
  /\ UNCHANGED <<cryptPc, console, slot3, console_id, key, es_ctx, nand_ctr_iv, nand_ctx, ctx, call, ctr,
                 boot2From, calls>>
(* decrypt_modcrypt_area *)
AreaBlock ==
  /\ cryptPc = "loop" /\ call.kind = "modcrypt" /\ done < call.count
  /\ out' = Append(out, CtrBlock(ctx, call.content))
  /\ ctx' = AfterCtrBlock(ctx)
  /\ done' = done + 1
  /\ UNCHANGED <<cryptPc, keyVars, nand_ctx, boot2_ctr, call, ctr, boot2From, boot2Done, calls>>
CryptReturn ==
  /\ cryptPc = "loop" /\ done = call.count
  /\ cryptPc' = "idle" /\ done' = 0 /\ out' = <<>> /\ call' = NoCall
  /\ UNCHANGED <<keyVars, nand_ctx, ctx, boot2_ctr, ctr, boot2From, boot2Done, calls>>

Boot2SetCtr ==
  /\ cryptPc = "idle" /\ calls < CALLS
  /\ \E size_r \in Sizes : boot2_ctr' = Boot2Counter(size_r) /\ boot2From' = size_r
  /\ boot2Done' = 0 /\ calls' = calls + 1
  /\ UNCHANGED <<cryptPc, keyVars, nand_ctx, ctx, call, done, ctr, out>>

DsiNext == \/ ReadIdentity \/ SetNandKey \/ SetEsKey \/ SetBoot2Key \/ SetCounter
           \/ CryptCall \/ BeginArea \/ NandBlock \/ Boot2Block \/ AreaBlock \/ CryptReturn \/ Boot2SetCtr
DsiSpec == DsiInit /\ [][DsiNext]_dsiVars

-----------------------------------------------------------------------------
(* nandio.c:50-61, crypto.c:21-51, f_xy.c, main.cpp:222-243.  The keys are those that the AES *)
(* engine would make of the same X and Y, and on a DSi the key that is made *)
(* of the recovered identity is the key it was recovered from, whatever     *)
(* carries and borrows occur on the way.                                    *)
KeyIsDefined ==
  /\ cryptPc = "eskey" =>
       /\ key = NormalKey(PutWords(KeyX(console_id, NandMode)), DSi_NAND_KEY_Y)
       /\ console_id = console.id
       /\ ~console.is3DS => key = slot3
  /\ cryptPc = "boot2key" => key = NormalKey(PutWords(KeyX(console_id, "ES")), DSi_ES_KEY_Y)
  /\ (cryptPc = "loop" /\ call.kind = "modcrypt" /\ done = 0 /\ ~call.header.debug) =>
       key = NormalKey(keyp(call.header.first), call.header.key_y)

(* crypto.c:61-125, main.cpp:66-93, 251-268.  What a block is encrypted with depends on the keys and *)
(* on its position only, never on the call it is part of or on how many     *)
(* blocks or calls came before: a sector can be read in other pieces than   *)
(* it was written.  For boot2 the position counts from the last             *)
(* dsi_boot2_crypt_set_ctr.  The overrun of the digest does not show.       *)
Number(n) == [k \in Index |-> IF k < 4 THEN (n \div 256^k) % 256 ELSE 0]
StreamIsPositional ==
  (cryptPc = "loop" /\ done > 0) =>
    LET used == CASE call.kind = "boot2" -> boot2_ctx [] call.kind = "modcrypt" -> ctx [] OTHER -> nand_ctx
        from == CASE call.kind = "boot2"    -> Boot2Counter(boot2From)
                  [] call.kind = "modcrypt" -> call.header.ctr[call.area]
                  [] OTHER                  -> [j \in Index |-> console.digest[j + 1]]
        at   == IF call.kind = "boot2" THEN boot2Done - 1 ELSE call.offset + done - 1
    IN  \A n \in {Sum(from, Number(at))} :
          \A stream \in {aes_crypt_ecb(used.aes, "encrypt", [j \in Index |-> n[15 - j]])} :
            \A j \in Index : out[done][j] = Xor(stream[15 - j], call.content[j])

(* dsi.c:18-49, crypto.c:88-101.  Two counters advance with every block,    *)
(* the caller's with its least significant byte first and the context's     *)
(* with the most significant first.  They agree, over every carry.          *)
CountersAgree ==
  (cryptPc = "loop" /\ done > 0) =>
    /\ call.kind = "nand"  => nand_ctx.ctr = u128_swap(ctr)
    /\ call.kind = "boot2" => boot2_ctx.ctr = u128_swap(boot2_ctr)
=============================================================================
