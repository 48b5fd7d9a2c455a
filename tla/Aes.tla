-------------------------------- MODULE Aes --------------------------------
(***************************************************************************)
(* polarssl/aes.c as it is built (config.h defines neither ROM tables nor  *)
(* PadLock): the tables of aes_gen_tables, both key schedules and the      *)
(* block cipher.  An aes_context is [nr, rk], its round keys as a sequence *)
(* of words.  Tables are filled once, by the first aes_setkey_enc, before  *)
(* anything reads them; here they are constants.                           *)
(***************************************************************************)
EXTENDS Bytes, Sequences

XTIME(x) == Xor((2 * x) % 256, IF x >= 128 THEN 27 ELSE 0)
RotBit(y) == ((2 * y) % 256) + y \div 128
(* ROTL8: every byte moves to the next more significant place.              *)
ROTL8(w)     == <<w[4], w[1], w[2], w[3]>>
Rotations(w) == <<w, ROTL8(w), ROTL8(ROTL8(w)), ROTL8(ROTL8(ROTL8(w)))>>

(* Powers of the generator 3 and their logarithms, of which the code enters *)
(* that of 1 twice and keeps the later, 255.                                *)
Times3(x)  == Xor(x, XTIME(x))
Four(Op(_), x) == With(With(With(With(x, Op), Op), Op), Op)
Times81(x) == Four(Times3, x)
NextRow(x) == Four(Times81, x)
PowTable ==
  LET row[j \in Index] == IF j = 0 THEN 1 ELSE NextRow(row[j - 1])
      power[i \in Byte] == IF i % 16 = 0 THEN row[i \div 16] ELSE Times3(power[i - 1])
  IN  Table(power)
LogTable(pow) == Table([x \in 1 .. 255 |-> CHOOSE i \in 1 .. 255 : pow[i] = x])
MUL(pow, log, x, y) == IF y # 0 THEN pow[(log[x] + log[y]) % 255] ELSE 0
RconTable == LET rcon[i \in 0 .. 9] == IF i = 0 THEN 1 ELSE XTIME(rcon[i - 1]) IN Table(rcon)

(* The substitution and its inverse.                                        *)
Sum5(x, y) == Xor(Xor(x, y), Xor(Xor(RotBit(y), RotBit(RotBit(y))), RotBit(RotBit(RotBit(y)))))
Substituted(x) == IF x = 0 THEN 99 ELSE Xor(Sum5(x, RotBit(x)), 99)
FSbTable(pow, log) == Table([i \in Byte |-> Substituted(IF i = 0 THEN 0 ELSE pow[255 - log[i]])])
RSbTable(fsb) == Table([x \in Byte |-> CHOOSE i \in Byte : fsb[i] = x])

(* The four tables of each direction, for one byte the four rotations of a  *)
(* word.                                                                    *)
Forth(x) == Rotations(<<XTIME(x), x, x, Xor(XTIME(x), x)>>)
Back(pow, log, x) ==
  Rotations(<<MUL(pow, log, 14, x), MUL(pow, log, 9, x), MUL(pow, log, 13, x), MUL(pow, log, 11, x)>>)
TablesOf(pow, log, fsb, rsb) ==
  [RCON |-> RconTable, FSb |-> fsb, RSb |-> rsb,
   FT |-> Table([i \in Byte |-> Forth(fsb[i])]), RT |-> Table([i \in Byte |-> Back(pow, log, rsb[i])])]
aes_gen_tables ==
  With(PowTable, LAMBDA pow :
  With(LogTable(pow), LAMBDA log :
  With(FSbTable(pow, log), LAMBDA fsb :
  With(RSbTable(fsb), LAMBDA rsb : TablesOf(pow, log, fsb, rsb)))))

-----------------------------------------------------------------------------
(* GET_ULONG_LE and PUT_ULONG_LE, for a whole block.                        *)
WordOf(b, i) == <<b[i], b[i + 1], b[i + 2], b[i + 3]>>
Words(b)     == <<WordOf(b, 0), WordOf(b, 4), WordOf(b, 8), WordOf(b, 12)>>
PutWords(x)  == Table([i \in Index |-> x[(i \div 4) + 1][(i % 4) + 1]])

(* The byte at each place of a word, substituted; the next byte; T are the  *)
(* tables.                                                                  *)
SubWord(T, w)  == Table([k \in 1 .. 4 |-> T.FSb[w[k]]])
SubNext(T, w)  == Table([k \in 1 .. 4 |-> T.FSb[w[(k % 4) + 1]]])
RconWord(T, i) == <<T.RCON[i], 0, 0, 0>>

(* One round of a loop of aes_setkey_enc: from the words RK[0 .. nk-1] the  *)
(* next nk.  A mistake that ModeIsStandard would show: the fifth word of a  *)
(* key of 256 bits is not substituted.                                      *)
NextWordsPlain(T, g, i) ==
  LET w[j \in 1 .. Len(g)] ==
        XorWord(g[j], IF j = 1 THEN XorWord(RconWord(T, i), SubNext(T, g[Len(g)])) ELSE w[j - 1])
  IN  Table([j \in 1 .. Len(g) |-> w[j]])
NextWords(T, g, i) ==
  LET w[j \in 1 .. Len(g)] ==
        XorWord(g[j], IF j = 1 THEN XorWord(RconWord(T, i), SubNext(T, g[Len(g)]))
                      ELSE IF Len(g) = 8 /\ j = 5 THEN SubWord(T, w[4])
                      ELSE w[j - 1])
  IN  Table([j \in 1 .. Len(g) |-> w[j]])

KeySizes    == {128, 192, 256}
Rounds(size) == CASE size = 128 -> 10 [] size = 192 -> 12 [] size = 256 -> 14
Loops(size)  == CASE size = 128 -> 10 [] size = 192 -> 8 [] size = 256 -> 7

(* The key is a function from 0.                                            *)
Lengthened(T, nk, w, i) == w \o NextWords(T, SubSeq(w, Len(w) - nk + 1, Len(w)), i - 1)
ExpandedKey(T, key, nk, loops) ==
  LET rk[i \in 0 .. loops] ==
        IF i = 0 THEN Table([j \in 1 .. nk |-> WordOf(key, 4 * (j - 1))])
        ELSE With(rk[i - 1], LAMBDA w : Lengthened(T, nk, w, i))
  IN  rk[loops]
aes_setkey_enc(key, size) ==
  With(aes_gen_tables, LAMBDA T :
    [nr |-> Rounds(size), rk |-> ExpandedKey(T, key, size \div 32, Loops(size))])

(* The words of the encryption, four by four from the last round back, the  *)
(* inner ones through the reverse tables.                                   *)
ReverseWord(T, w) ==
  LET Part(k) == T.RT[T.FSb[w[k]]][k]
  IN  XorWord(XorWord(Part(1), Part(2)), XorWord(Part(3), Part(4)))
ReverseKeys(T, cty) ==
  LET SK(r, j) == cty.rk[4 * (cty.nr - r) + j + 1]
      RK(r, j) == IF r \in {0, cty.nr} THEN SK(r, j) ELSE ReverseWord(T, SK(r, j))
  IN  [nr |-> cty.nr,
       rk |-> Table([k \in 1 .. 4 * (cty.nr + 1) |-> RK((k - 1) \div 4, (k - 1) % 4)])]
aes_setkey_dec(key, size) ==
  With(aes_gen_tables, LAMBDA T :
  With(aes_setkey_enc(key, size), LAMBDA cty : ReverseKeys(T, cty)))

-----------------------------------------------------------------------------
(* aes_crypt_ecb *)

RoundKey(ctx, r) == SubSeq(ctx.rk, 4 * r + 1, 4 * r + 4)
XorWords(x, y)   == Table([j \in 1 .. 4 |-> XorWord(x[j], y[j])])

(* AES_FROUND takes the bytes of word j from the words j, j + 1, j + 2 and  *)
(* j + 3, AES_RROUND from j, j - 1, j - 2 and j - 3.                        *)
Source(y, mode, j, k) == y[((IF mode = "decrypt" THEN j - k + 4 ELSE j + k - 2) % 4) + 1][k]
TableRound(T, mode, y) ==
  LET t == IF mode = "decrypt" THEN T.RT ELSE T.FT
      Part(j, k) == t[Source(y, mode, j, k)][k]
  IN  Table([j \in 1 .. 4 |-> XorWord(XorWord(Part(j, 1), Part(j, 2)), XorWord(Part(j, 3), Part(j, 4)))])
LastRound(T, mode, y) ==
  LET S == IF mode = "decrypt" THEN T.RSb ELSE T.FSb
  IN  Table([j \in 1 .. 4 |-> Table([k \in 1 .. 4 |-> S[Source(y, mode, j, k)]])])

(* (nr >> 1) - 1 times two rounds, one more, and the last.                  *)
TableRounds(ctx) == 2 * (ctx.nr \div 2 - 1) + 1
RoundOf(T, ctx, mode, r, y) == XorWords(RoundKey(ctx, r), TableRound(T, mode, y))
AfterRounds(T, ctx, mode, input) ==
  LET x[r \in 0 .. TableRounds(ctx)] ==
        IF r = 0 THEN XorWords(RoundKey(ctx, 0), Words(input))
        ELSE With(x[r - 1], LAMBDA y : RoundOf(T, ctx, mode, r, y))
  IN  x[TableRounds(ctx)]
Crypted(T, ctx, mode, y) == PutWords(XorWords(RoundKey(ctx, TableRounds(ctx) + 1), LastRound(T, mode, y)))
aes_crypt_ecb(ctx, mode, input) ==
  With(aes_gen_tables, LAMBDA T :
  With(AfterRounds(T, ctx, mode, input), LAMBDA y : Crypted(T, ctx, mode, y)))
=============================================================================
