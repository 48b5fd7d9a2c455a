--------------------------- MODULE MC_Computations ---------------------------
(* Keys of all sizes; texts of several blocks and of one that is not full;  *)
(* lengths around the block for containers, damaged in every byte of the    *)
(* metablock; identities and counters whose sums carry over every word;      *)
(* launchers of either kind, whose counters carry too; numbers of every     *)
(* shape, with all memory, without large pieces, and without pieces of one  *)
(* size; and sizes around each step of the percentage.                      *)
EXTENDS Computations

Some(m, a, b, c) == [k \in 0 .. (m - 1) |-> (a * k + b) % c]

MCAesKeys == {[bits |-> b, key |-> Some(32, 73, 43, 256)] : b \in KeySizes}
MCTexts   == {[mode |-> "cbc", text |-> Some(48, 37, 107, 256)],
              [mode |-> "cfb128", text |-> Some(40, 37, 107, 256)]}
MCIVs     == {Some(16, 1, 0, 256), Some(16, 0, 255, 256)}
MCCuts    == {1, 7, 16, 32}

MCEsKeys   == {Some(16, 7, 0, 256)}
MCNonces   == {Some(12, 5, 200, 256), Some(12, 0, 0, 256)}
MCPayloads == {Some(m, 37, 1, 256) : m \in {0, 1, 15, 16, 17, 32, 40}}
MCDamages  == {NoDamage, [part |-> "size", at |-> 0]}
                \cup [part : {"metablock"}, at : 0 .. 31] \cup [part : {"buffer"}, at : {0, 15, 16, 39}]

Id   == <<<<\h12, \h34, \h56, \ha8>>, <<\h20, \h00, \hff, \h08>>>>
Ones8 == <<<<255, 255, 255, 255>>, <<255, 255, 255, 255>>>>
Mixed == [k \in 1 .. 20 |-> (11 * k) % 256]
Carry32 == [k \in 1 .. 20 |-> IF k \in {1, 9} THEN 254 ELSE IF k < 9 THEN 255 ELSE 7]
Carry128 == [k \in 1 .. 20 |-> 255]
MCConsoles == [id : {Id}, digest : {Mixed, Carry32, Carry128}, is3DS : {FALSE}]
                \cup [id : {Id}, digest : {Mixed}, is3DS : {TRUE}]
                \cup [id : {Ones8}, digest : {Mixed}, is3DS : {FALSE}]
MCOffsets  == {0, 255, 131071}
MCCounts   == {1, 3}
MCContents == {Some(16, 17, 0, 256)}
MCSizes    == {0, 66048, 16777215}
Header(debug, c1, c2, l1, l2) ==
  [debug |-> debug, first |-> Some(16, 11, 60, 256), key_y |-> Some(16, 29, 90, 256), ctr |-> <<c1, c2>>, len |-> <<l1, l2>>]
MCHeaders  == {Header(FALSE, Some(16, 0, 255, 256), Some(16, 5, 0, 256), 48, 0),
               Header(TRUE, Some(16, 3, 7, 256), [k \in 0 .. 15 |-> IF k = 0 THEN 254 ELSE IF k < 8 THEN 255 ELSE 1], 16, 47)}
MCCALLS    == 3

Big(s, p) == [s |-> s, p |-> p]
Junk      == Big(-1, <<1, 2, 3, 4>>)
MinusZero == Big(-1, <<0, 0>>)
Full      == Big(1, <<255, 255, 255>>)
Start(X, A, B, refused, many) == [regs |-> [X |-> X, A |-> A, B |-> B], denied |-> refused, calls |-> many]
Some1 == {NewMpi, MinusZero, Big(-1, <<0, 1>>), Full, Big(1, <<200, 100, 50, 2, 0>>), Big(-1, <<113, 17, 0>>)}
Some2 == {NewMpi, Big(-1, <<1>>), Big(1, <<0, 1, 0>>), Full, Big(-1, <<255, 127>>)}
MCStarts  == {Start(Junk, A, B, {}, 1) : A \in Some1, B \in Some2}
             \cup {Start(NewMpi, Full, Big(-1, <<255, 127>>), (m + 1) .. 40, 1) : m \in {1, 2, 3, 4, 8}}
             \cup {Start(NewMpi, Full, Big(-1, <<255, 127>>), {m}, 1) : m \in 1 .. 6}
             \cup {Start(NewMpi, Big(-1, <<113, 17, 0>>), B, {m}, 1) : B \in {Big(1, <<253>>), Full}, m \in 1 .. 4}
             \cup {Start(NewMpi, Big(-1, <<113, 17>>), Big(1, <<253>>), {}, 2)}
MCBuffers == {<<>>, <<0, 0>>, <<0, 1, 2, 3>>, <<15, 15, 15, 15, 15, 15>>}
MCPowers  == {[E |-> Big(1, <<171>>), N |-> Big(1, <<113, 17, 0>>)],
              [E |-> Big(1, <<255, 0, 127, 1, 2, 3, 4, 255, 255, 129>>), N |-> Big(1, <<253>>)],
              [E |-> NewMpi, N |-> Big(1, <<1>>)], [E |-> Big(1, <<3>>), N |-> Big(1, <<4>>)],
              [E |-> Big(-1, <<3>>), N |-> Big(1, <<253>>)], [E |-> Big(1, <<3>>), N |-> Big(-1, <<3>>)]}

MCWorks   == [kind : {"read", "write"}, size : {0, 1, 99, 100, 150, 201, 301, 302, 402, 1615}]
              \cup [kind : {"modcrypt"}, size : {0, 15, 16, 99, 100, 301, 302, 402, 1614, 1615}]
              \cup [kind : {"patch"}, size : {0, 1, 99, 100, 101, 301, 302, 402, 1615}]
MCMissing == {0, 1, 512}
MCUndefined == {0, 1, 100, 110, 254, 255}
=============================================================================
