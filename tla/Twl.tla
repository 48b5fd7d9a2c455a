-------------------------------- MODULE Twl --------------------------------
(***************************************************************************)
(* twltool/dsi.c: counter mode and CCM of the DSi on top of AES.  The      *)
(* hardware it imitates numbers bytes the other way round, so everything   *)
(* that enters or leaves the cipher is reversed.                           *)
(***************************************************************************)
EXTENDS U128, Aes

(* A dsi_context is [aes, ctr, mac, S0].                                    *)
dsi_set_key(ctx, key) == [ctx EXCEPT !.aes = aes_setkey_enc(u128_swap(key), 128)]
dsi_set_ctr(ctx, ctr) == [ctx EXCEPT !.ctr = u128_swap(ctr)]
dsi_init_ctr(ctx, key, ctr) == dsi_set_ctr(dsi_set_key(ctx, key), ctr)

(* Four words, the last the least significant and each with its most        *)
(* significant byte first; the carry leaves a word of ones only.  A mistake  *)
(* that CountersAgree would show: it never leaves the last word.            *)
Ones(ctr, S) == \A j \in S : ctr[j] = 255
dsi_add_ctr_word(ctx) ==
  [ctx EXCEPT !.ctr = [i \in Index |->
     (@[i] + IF i \div 4 = 3 /\ Ones(@, (i + 1) .. 15) THEN 1 ELSE 0) % 256]]
dsi_add_ctr(ctx) ==
  [ctx EXCEPT !.ctr = [i \in Index |->
     (@[i] + IF Ones(@, (i + 1) .. 15) THEN 1 ELSE 0) % 256]]

(* dsi_crypt_ctr_block: what it delivers, and the context after it.  A null *)
(* input counts as zeros.                                                   *)
Stream(ctx)            == u128_swap(aes_crypt_ecb(ctx.aes, "encrypt", ctx.ctr))
CtrBlock(ctx, input)   == XorBlock(Stream(ctx), input)
AfterCtrBlock(ctx)     == dsi_add_ctr(ctx)

-----------------------------------------------------------------------------
(* CCM.  The callers pass neither associated data nor a null buffer.        *)
MACLEN == 16
(* The length is rounded up to whole blocks.  A mistake that CcmIsStandard  *)
(* would show: it is taken as it is.                                        *)
NotPadded(n)    == n
Padded(n)       == 16 * ((n + 15) \div 16)
SizeByte(n, i)  == (n \div 256^(15 - i)) % 256       \* i = 13, 14, 15
CcmBlock(flags, nonce, n) ==
  [i \in Index |-> IF i = 0 THEN flags ELSE IF i < 13 THEN nonce[12 - i] ELSE SizeByte(n, i)]

(* The first block and the first counter; then both through the cipher.     *)
CcmStart(ctx, key, payloadlength, nonce) ==
  [dsi_set_key(ctx, key) EXCEPT
     !.mac = CcmBlock(8 * ((MACLEN - 2) \div 2) + 2, nonce, Padded(payloadlength)),
     !.ctr = CcmBlock(2, nonce, 0)]
CcmReady(start) ==
  [AfterCtrBlock(start) EXCEPT !.mac = aes_crypt_ecb(start.aes, "encrypt", @), !.S0 = Stream(start)]

Absorb(ctx, block) ==
  [ctx EXCEPT !.mac = aes_crypt_ecb(ctx.aes, "encrypt", XorBlock(@, u128_swap(block)))]
(* The context after dsi_encrypt_ccm_block or dsi_decrypt_ccm_block: in both *)
(* the plain text is authenticated.                                         *)
AfterBlock(ctx, text) == AfterCtrBlock(Absorb(ctx, text))
Mac(ctx) == [i \in Index |-> Xor(ctx.mac[15 - i], ctx.S0[i])]

NoContext == [aes |-> [nr |-> 0, rk |-> <<>>], ctr |-> ZeroBlock, mac |-> ZeroBlock, S0 |-> ZeroBlock]
=============================================================================
