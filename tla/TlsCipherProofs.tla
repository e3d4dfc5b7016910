-------------------------- MODULE TlsCipherProofs --------------------------
(***************************************************************************)
(* What EncryptUpdate and EncryptFinalize do with any context: the lemmas  *)
(* that the theorems about the encryption commands rest on.                *)
(***************************************************************************)
EXTENDS TlsCipher, FiniteSetTheorems, SequenceTheorems, TLAPS

\* Whole blocks of n units are at most n, and what is left is less than a block.
LEMMA WholeBlocks ==
    ASSUME NEW n \in Nat, NEW b \in Nat \ {0}
    PROVE  /\ (n \div b) * b \in 0..n
           /\ n - (n \div b) * b < b
           /\ n % b = n - (n \div b) * b
           /\ n % b \in 0..(b - 1)
<1>1. n = b * (n \div b) + (n % b) /\ n % b \in 0..(b - 1)
  BY SMTT(30)
<1>2. n \div b \in Nat
  BY SMTT(30)
<1>3. (n \div b) * b \in Nat
  BY <1>2, SMTT(30)
<1>4. (n \div b) * b = b * (n \div b)
  BY <1>2, SMTT(30)
<1>5. QED
  BY <1>1, <1>3, <1>4

\* An update hands back at most what there is, and keeps at most a block.
LEMMA ReadyBound ==
    ASSUME NEW ctx \in Ctx, NEW n \in Nat
    PROVE  Ready(ctx, n) \in 0..n /\ n - Ready(ctx, n) <= ctx.block
<1> DEFINE whole == (n \div ctx.block) * ctx.block
<1>1. ctx.block \in Nat \ {0}
  BY DEF Ctx
<1>2. /\ whole \in 0..n /\ n - whole < ctx.block
      /\ n % ctx.block = n - whole
  BY <1>1, WholeBlocks
<1> DEFINE late == ctx.type = "decrypt" /\ Pads(ctx) /\ n > 0 /\ n % ctx.block = 0
<1> HIDE DEF whole
<1>3. CASE late
  <2>1. n = whole /\ n > 0 /\ Ready(ctx, n) = n - ctx.block
    BY <1>1, <1>2, <1>3 DEF Ready
  <2>2. n >= ctx.block
    <3>1. n \div ctx.block \in Nat
      BY <1>1, SMTT(30)
    <3>2. n \div ctx.block # 0
      BY <1>1, <2>1, <3>1 DEF whole
    <3>3. (n \div ctx.block) * ctx.block >= ctx.block
      BY <1>1, <3>1, <3>2, SMTT(30)
    <3>4. QED
      BY <2>1, <3>3 DEF whole
  <2>3. QED
    BY <1>1, <2>1, <2>2
<1>4. CASE ~late
  <2>1. Ready(ctx, n) = whole
    BY <1>4 DEF Ready, whole
  <2>2. QED
    BY <1>1, <1>2, <2>1
<1>5. QED
  BY <1>3, <1>4

\* EncryptUpdate neither loses nor repeats a unit: what it hands back followed by
\* what it keeps is what it kept followed by the data.
LEMMA UpdateConserves ==
    ASSUME NEW ctx \in Ctx, NEW data \in Seq(Nat)
    PROVE  LET u == EncryptUpdate(ctx, data)
           IN  /\ u.ctx \in Ctx /\ Len(u.ctx.buf) <= ctx.block
               /\ u.ctx.block = ctx.block /\ u.ctx.finals = ctx.finals
               /\ u.out \in Seq(Nat)
               /\ u.out \o u.ctx.buf = ctx.buf \o data
<1> DEFINE all == ctx.buf \o data
           n == Len(all)
           k == Ready(ctx, n)
           kept == SubSeq(all, k + 1, n)
           back == SubSeq(all, 1, k)
           u == EncryptUpdate(ctx, data)
<1>1. ctx.buf \in Seq(Nat)
  BY DEF Ctx
<1>2. all \in Seq(Nat)
  BY <1>1, ConcatProperties
<1>3. n \in Nat /\ \A i \in 1..n : all[i] \in Nat
  BY <1>2, LenProperties, ElementOfSeq
<1>4. k \in 0..n /\ n - k <= ctx.block
  BY <1>3, ReadyBound
<1>5. u.out = back /\ u.ctx = [ctx EXCEPT !.buf = kept]
  BY DEF EncryptUpdate
<1> HIDE DEF u, k, n, all
<1>6. kept \in Seq(Nat) /\ Len(kept) = IF k + 1 <= n THEN n - (k + 1) + 1 ELSE 0
  BY <1>3, <1>4, SubSeqProperties
<1>7. back \in Seq(Nat)
  BY <1>3, <1>4, SubSeqProperties
<1>8. back \o kept = all
  <2>1. SubSeq(all, 1, k) \o SubSeq(all, k + 1, n) = SubSeq(all, 1, n)
    <3>1. n = Len(all)
      BY DEF n
    <3>2. 1 \in 1..(Len(all) + 1) /\ k \in (1 - 1)..Len(all) /\ n \in k..Len(all)
      BY <1>3, <1>4, <3>1
    <3>3. QED
      BY <1>2, <3>2, ConcatAdjacentSubSeq
  <2>2. SubSeq(all, 1, n) = all
    BY <1>2, SubSeqFull DEF n
  <2>3. QED
    BY <2>1, <2>2
<1>9. ctx.block \in Nat
  BY DEF Ctx
<1>10. Len(kept) <= ctx.block
  BY <1>3, <1>4, <1>6, <1>9
<1> HIDE DEF kept, back
<1>11. /\ u.ctx \in Ctx /\ u.ctx.buf = kept
       /\ u.ctx.block = ctx.block /\ u.ctx.finals = ctx.finals
  BY <1>5, <1>6 DEF Ctx
<1>12. QED
  BY <1>5, <1>7, <1>8, <1>10, <1>11 DEF u, all

\* Padding a message gives a message.
LEMMA PaddedType ==
    ASSUME NEW ctx \in Ctx, NEW cells \in Seq(Nat)
    PROVE  Padded(ctx, cells) \in Seq(Nat)
<1> DEFINE m == ctx.block - (Len(cells) % ctx.block)
           pads == [i \in 1..m |-> Pad]
<1>1. Len(cells) \in Nat /\ ctx.block \in Nat \ {0}
  BY LenProperties DEF Ctx
<1>2. m \in Nat
  <2>1. Len(cells) % ctx.block \in 0..(ctx.block - 1)
    BY <1>1, WholeBlocks
  <2>2. QED
    BY <1>1, <2>1
<1> HIDE DEF m
<1>3. pads \in [1..m -> Nat]
  BY DEF Pad
<1>4. pads \in Seq(Nat)
  BY <1>2, <1>3, SeqDef
<1>5. QED
  BY <1>4, ConcatProperties DEF Padded, m

\* Taking the padding off gives a message.
LEMMA UnpaddedType ==
    ASSUME NEW cells \in Seq(Nat)
    PROVE  Unpadded(cells) \in Seq(Nat)
<1>1. Len(cells) \in Nat /\ DOMAIN cells = 1..Len(cells)
  BY LenProperties
<1>2. IsFiniteSet(1..Len(cells)) /\ Cardinality(1..Len(cells)) = Len(cells)
  <2>0. 1 \in Int /\ Len(cells) \in Int
    BY <1>1
  <2>1. /\ IsFiniteSet(1..Len(cells))
        /\ Cardinality(1..Len(cells)) = IF 1 > Len(cells) THEN 0 ELSE Len(cells) - 1 + 1
    BY <2>0, FS_Interval, ZenonT(60)
  <2>2. QED
    BY <1>1, <2>1
<1>3. Units(cells) \subseteq 1..Len(cells)
  BY <1>1 DEF Units
<1>4. Cardinality(Units(cells)) \in 0..Len(cells)
  <2>1. /\ IsFiniteSet(Units(cells))
        /\ Cardinality(Units(cells)) <= Cardinality(1..Len(cells))
    BY <1>2, <1>3, FS_Subset
  <2>2. Cardinality(Units(cells)) \in Nat
    BY <2>1, FS_CardinalityType
  <2>3. QED
    BY <1>1, <1>2, <2>1, <2>2
<1>5. \A i \in 1..Cardinality(Units(cells)) : cells[i] \in Nat
  BY <1>1, <1>4, ElementOfSeq
<1>6. QED
  BY <1>4, <1>5, SubSeqProperties DEF Unpadded

\* The messages of the model are sequences of units.
LEMMA MessagesType ==
    ASSUME NEW ctx \in Ctx, NEW max \in Nat, NEW m \in Messages(ctx, max)
    PROVE  m \in Seq(Nat)
<1>1. \A n \in Nat : Message(n) \in Seq(Nat)
  <2>1. SUFFICES ASSUME NEW n \in Nat PROVE Message(n) \in Seq(Nat)
    OBVIOUS
  <2>2. Message(n) \in [1..n -> Nat]
    BY DEF Message
  <2>3. QED
    BY <2>2, SeqDef
<1>2. \A n \in 0..max : Padded(ctx, Message(n)) \in Seq(Nat)
  BY <1>1, PaddedType
<1>3. CASE \E n \in 0..max : m = Message(n)
  BY <1>1, <1>3
<1>4. CASE \E n \in 0..max : \E k \in 0..Len(Padded(ctx, Message(n))) :
             m = SubSeq(Padded(ctx, Message(n)), 1, k)
  <2>1. PICK n \in 0..max :
          \E k \in 0..Len(Padded(ctx, Message(n))) : m = SubSeq(Padded(ctx, Message(n)), 1, k)
    BY <1>4
  <2> DEFINE whole == Padded(ctx, Message(n))
  <2>2. whole \in Seq(Nat)
    BY <1>2
  <2> HIDE DEF whole
  <2>3. PICK k \in 0..Len(whole) : m = SubSeq(whole, 1, k)
    BY <2>1 DEF whole
  <2>4. \A i \in 1..k : whole[i] \in Nat
    BY <2>2, LenProperties, ElementOfSeq
  <2>5. Len(whole) \in Nat
    BY <2>2, LenProperties
  <2>6. QED
    BY <2>3, <2>4, <2>5, SubSeqProperties
<1>5. QED
  BY <1>3, <1>4 DEF Messages

\* Messages are put together in any grouping.
LEMMA MessageAssociative ==
    \A s, t, u \in Seq(Nat) : (s \o t) \o u = s \o (t \o u)
<1> TAKE s, t, u \in Seq(Nat)
<1>1. QED
  BY ConcatAssociative

\* A piece of a message is a message, and continues what came before it.
LEMMA PieceType ==
    ASSUME NEW m \in Seq(Nat), NEW pos \in 0..Len(m), NEW n \in Nat, pos + n <= Len(m)
    PROVE  /\ SubSeq(m, pos + 1, pos + n) \in Seq(Nat)
           /\ SubSeq(m, 1, pos) \in Seq(Nat)
           /\ SubSeq(m, 1, pos) \o SubSeq(m, pos + 1, pos + n) = SubSeq(m, 1, pos + n)
<1>1. Len(m) \in Nat /\ \A i \in 1..Len(m) : m[i] \in Nat
  BY LenProperties, ElementOfSeq
<1>2. \A i \in (pos + 1)..(pos + n) : m[i] \in Nat
  BY <1>1
<1>3. \A i \in 1..pos : m[i] \in Nat
  BY <1>1
<1>4. SubSeq(m, pos + 1, pos + n) \in Seq(Nat)
  BY <1>1, <1>2, SubSeqProperties
<1>5. SubSeq(m, 1, pos) \in Seq(Nat)
  BY <1>1, <1>3, SubSeqProperties
<1>6. SubSeq(m, 1, pos) \o SubSeq(m, pos + 1, pos + n) = SubSeq(m, 1, pos + n)
  <2>1. 1 \in 1..(Len(m) + 1) /\ pos \in (1 - 1)..Len(m) /\ pos + n \in pos..Len(m)
    BY <1>1
  <2>2. QED
    BY <2>1, ConcatAdjacentSubSeq
<1>7. QED
  BY <1>4, <1>5, <1>6

\* EncryptFinalize empties the context, or fails and changes nothing but the
\* count.
LEMMA FinalizeType ==
    ASSUME NEW ctx \in Ctx, Len(ctx.buf) <= ctx.block
    PROVE  LET f == EncryptFinalize(ctx)
           IN  /\ f.ctx \in Ctx /\ Len(f.ctx.buf) <= f.ctx.block
               /\ f.ok \in BOOLEAN /\ f.out \in Seq(Nat)
               /\ f.ctx.finals = ctx.finals + 1
               /\ ~f.ok => f.out = <<>> /\ f.ctx.buf = ctx.buf
<1> DEFINE f == EncryptFinalize(ctx)
           rest == IF f.ok THEN <<>> ELSE ctx.buf
<1>1. ctx.buf \in Seq(Nat) /\ ctx.block \in Nat /\ ctx.finals \in Nat
  BY DEF Ctx
<1>2. Padded(ctx, ctx.buf) \in Seq(Nat) /\ Unpadded(ctx.buf) \in Seq(Nat)
  BY <1>1, PaddedType, UnpaddedType
<1>3. <<>> \in Seq(Nat) /\ Len(<<>>) = 0
  BY EmptySeq
<1>4. f.out \in Seq(Nat)
  BY <1>2, <1>3 DEF EncryptFinalize
<1>5. ~f.ok => f.out = <<>>
  BY DEF EncryptFinalize
<1>6. f.ctx = [ctx EXCEPT !.buf = rest, !.finals = ctx.finals + 1]
  BY DEF EncryptFinalize, Ctx
<1>7. f.ok \in BOOLEAN
  BY DEF EncryptFinalize
<1>8. rest \in Seq(Nat) /\ Len(rest) <= ctx.block
  BY <1>1, <1>3
<1> HIDE DEF f, rest
<1>9. /\ f.ctx \in Ctx /\ f.ctx.buf = rest /\ f.ctx.block = ctx.block
      /\ f.ctx.finals = ctx.finals + 1
  <2> DEFINE half == [ctx EXCEPT !.buf = rest]
  <2>1. /\ half \in Ctx /\ half.buf = rest /\ half.block = ctx.block
        /\ half.finals = ctx.finals
    BY <1>8 DEF Ctx
  <2>2. f.ctx = [half EXCEPT !.finals = ctx.finals + 1]
    BY <1>6
  <2> HIDE DEF half
  <2>3. ctx.finals + 1 \in Nat
    BY <1>1
  <2>4. QED
    BY <2>1, <2>2, <2>3 DEF Ctx
<1>10. QED
  BY <1>4, <1>5, <1>7, <1>8, <1>9 DEF f, rest

-----------------------------------------------------------------------------
(* What becomes of the message as a whole.                                 *)

\* A context that keeps a whole last block back: its padding is to be taken off.
Late(ctx) == ctx.type = "decrypt" /\ Pads(ctx)

Multiple(n, b) == \E q \in Nat : n = q * b

\* Where the block boundaries are: n units were handed back, always whole blocks, and
\* what is kept is less than a block, or, if the last block is kept back, not
\* nothing unless nothing was given.
Aligned(ctx, n) ==
    /\ Multiple(n, ctx.block)
    /\ IF Late(ctx) THEN Len(ctx.buf) <= ctx.block /\ (Len(ctx.buf) = 0 => n = 0)
                    ELSE Len(ctx.buf) < ctx.block

\* Padding is at the end, and at most a block of it.
PaddedAtEnd(block, cells) ==
    \E k \in 0..Len(cells) :
        /\ Len(cells) - k <= block
        /\ \A i \in 1..Len(cells) : cells[i] = Pad <=> i > k

\* Of two multiples the larger is larger by a block at least.
LEMMA NextMultiple ==
    ASSUME NEW b \in Nat \ {0}, NEW p \in Nat, NEW q \in Nat, p < q
    PROVE  p * b \in Nat /\ q * b \in Nat /\ p * b + b <= q * b
<1>1. PICK d \in Nat : q = p + 1 + d
  <2>1. q - p - 1 \in Nat /\ q = p + 1 + (q - p - 1)
    OBVIOUS
  <2>2. QED
    BY <2>1
<1>2. q * b = p * b + b + d * b
  BY <1>1, SMTT(30)
<1>3. d * b \in Nat /\ p * b \in Nat
  BY SMTT(30)
<1>4. QED
  BY <1>2, <1>3

\* Whole blocks put together are whole blocks.
LEMMA MultipleSum ==
    ASSUME NEW b \in Nat \ {0}, NEW m \in Nat, NEW n \in Nat, Multiple(m, b), Multiple(n, b)
    PROVE  Multiple(m + n, b)
<1>1. PICK p \in Nat : m = p * b
  BY DEF Multiple
<1>2. PICK q \in Nat : n = q * b
  BY DEF Multiple
<1>3. m + n = (p + q) * b
  BY <1>1, <1>2, SMTT(30)
<1>4. p + q \in Nat
  OBVIOUS
<1>5. QED
  BY <1>3, <1>4 DEF Multiple

\* What is left after whole blocks does not depend on them.
LEMMA Remainder ==
    ASSUME NEW b \in Nat \ {0}, NEW m \in Nat, Multiple(m, b), NEW r \in 0..(b - 1)
    PROVE  (m + r) % b = r
<1>1. PICK p \in Nat : m = p * b
  BY DEF Multiple
<1> DEFINE q == (m + r) \div b
           t == (m + r) % b
<1>2. m + r = q * b + t /\ q \in Nat /\ t \in 0..(b - 1)
  <2>1. PICK n \in Nat : n = m + r
    OBVIOUS
  <2>2. n \div b \in Nat
    BY SMTT(30)
  <2>3. (n \div b) * b \in 0..n /\ n % b = n - (n \div b) * b /\ n % b \in 0..(b - 1)
    BY WholeBlocks
  <2>4. n = (n \div b) * b + (n % b)
    BY <2>3
  <2>5. QED
    BY <2>1, <2>2, <2>3, <2>4
<1> HIDE DEF q, t
<1>3. ~(p < q) /\ ~(q < p)
  BY <1>1, <1>2, NextMultiple
<1>4. p = q
  BY <1>2, <1>3
<1>5. QED
  BY <1>1, <1>2, <1>4 DEF t

\* Ready hands whole blocks back, and keeps no more and no less than Aligned says.
LEMMA ReadyAligned ==
    ASSUME NEW ctx \in Ctx, NEW n \in Nat
    PROVE  /\ Ready(ctx, n) \in 0..n /\ Multiple(Ready(ctx, n), ctx.block)
           /\ IF Late(ctx) THEN /\ n - Ready(ctx, n) <= ctx.block
                                /\ n > 0 => n - Ready(ctx, n) > 0
                           ELSE n - Ready(ctx, n) < ctx.block
<1> DEFINE b == ctx.block
           whole == (n \div b) * b
           last == Late(ctx) /\ n > 0 /\ n % b = 0
<1>1. b \in Nat \ {0}
  BY DEF Ctx
<1>2. whole \in 0..n /\ n - whole < b /\ n % b = n - whole
  BY <1>1, WholeBlocks
<1>3. n \div b \in Nat
  BY <1>1, SMTT(30)
<1>4. Ready(ctx, n) \in 0..n /\ n - Ready(ctx, n) <= ctx.block
  BY ReadyBound
<1>5. CASE last
  <2>1. n = whole /\ n > 0 /\ Ready(ctx, n) = n - b
    BY <1>1, <1>2, <1>5 DEF Ready, Late
  <2>2. n \div b > 0
    BY <1>1, <1>3, <2>1, SMTT(30)
  <2>3. PICK q \in Nat : n \div b = q + 1
    <3>1. (n \div b) - 1 \in Nat /\ n \div b = ((n \div b) - 1) + 1
      BY <1>3, <2>2
    <3>2. QED
      BY <3>1
  <2>4. (q + 1) * b = q * b + b /\ q * b \in Nat
    BY <1>1, SMTT(30)
  <2>5. n = (q + 1) * b
    BY <2>1, <2>3
  <2>6. Ready(ctx, n) = q * b /\ n - Ready(ctx, n) = b
    BY <1>1, <2>1, <2>4, <2>5
  <2>7. Multiple(Ready(ctx, n), b)
    BY <2>6 DEF Multiple
  <2>8. QED
    BY <1>1, <1>4, <1>5, <2>6, <2>7
<1>6. CASE ~last
  <2>1. Ready(ctx, n) = whole
    BY <1>6 DEF Ready, Late
  <2>2. Late(ctx) /\ n > 0 => n - whole > 0
    BY <1>2, <1>6
  <2> HIDE DEF whole
  <2>3. Multiple(whole, b)
    BY <1>3 DEF Multiple, whole
  <2>4. QED
    BY <1>1, <1>2, <1>4, <2>1, <2>2, <2>3
<1>7. QED
  BY <1>5, <1>6

\* An update keeps to the block boundaries.
LEMMA UpdateAligned ==
    ASSUME NEW ctx \in Ctx, NEW data \in Seq(Nat), NEW n \in Nat, Aligned(ctx, n)
    PROVE  LET u == EncryptUpdate(ctx, data)
           IN  /\ Aligned(u.ctx, n + Len(u.out))
               /\ u.ctx.type = ctx.type /\ u.ctx.padding = ctx.padding
<1> DEFINE u == EncryptUpdate(ctx, data)
           all == ctx.buf \o data
           k == Ready(ctx, Len(all))
<1>1. ctx.buf \in Seq(Nat) /\ ctx.block \in Nat \ {0}
  BY DEF Ctx
<1>2. /\ all \in Seq(Nat) /\ Len(all) = Len(ctx.buf) + Len(data)
      /\ Len(all) \in Nat /\ Len(ctx.buf) \in Nat /\ Len(data) \in Nat
  BY <1>1, ConcatProperties, LenProperties
<1>3. /\ k \in 0..Len(all) /\ Multiple(k, ctx.block)
      /\ IF Late(ctx) THEN Len(all) - k <= ctx.block /\ (Len(all) > 0 => Len(all) - k > 0)
                      ELSE Len(all) - k < ctx.block
  BY <1>2, ReadyAligned
<1>4. u.out = SubSeq(all, 1, k) /\ u.ctx = [ctx EXCEPT !.buf = SubSeq(all, k + 1, Len(all))]
  BY DEF EncryptUpdate
<1>5. \A i \in 1..Len(all) : all[i] \in Nat
  BY <1>2, ElementOfSeq
<1> HIDE DEF u, k
<1>6. Len(SubSeq(all, 1, k)) = k
  <2>1. \A i \in 1..k : all[i] \in Nat
    BY <1>2, <1>3, <1>5
  <2>2. QED
    BY <1>2, <1>3, <2>1, SubSeqProperties
<1>7. Len(SubSeq(all, k + 1, Len(all))) = Len(all) - k
  <2>1. \A i \in (k + 1)..Len(all) : all[i] \in Nat
    BY <1>2, <1>3, <1>5
  <2>2. k + 1 \in Nat
    BY <1>2, <1>3
  <2>3. Len(SubSeq(all, k + 1, Len(all))) = IF k + 1 <= Len(all) THEN Len(all) - (k + 1) + 1 ELSE 0
    BY <1>2, <2>1, <2>2, SubSeqProperties
  <2>4. QED
    BY <1>2, <1>3, <2>3
<1> HIDE DEF all
<1>8. /\ u.ctx.buf = SubSeq(all, k + 1, Len(all)) /\ u.ctx.block = ctx.block
      /\ u.ctx.type = ctx.type /\ u.ctx.padding = ctx.padding
  BY <1>4 DEF Ctx
<1>9. Late(u.ctx) = Late(ctx)
  BY <1>8 DEF Late, Pads
<1>10. Multiple(n + k, ctx.block)
  <2>1. k \in Nat
    BY <1>2, <1>3
  <2>2. QED
    BY <1>1, <1>3, <2>1, MultipleSum DEF Aligned
<1>11. IF Late(ctx) THEN Len(all) - k <= ctx.block /\ (Len(all) - k = 0 => n + k = 0)
                    ELSE Len(all) - k < ctx.block
  BY <1>2, <1>3 DEF Aligned
<1>12. Aligned(u.ctx, n + Len(u.out))
  BY <1>4, <1>6, <1>7, <1>8, <1>9, <1>10, <1>11 DEF Aligned
<1>13. QED
  BY <1>8, <1>12 DEF u

\* With the padding at the end, Unpadded cuts it off.
LEMMA UnpaddedEnd ==
    ASSUME NEW cells \in Seq(Nat), NEW k \in 0..Len(cells),
           \A i \in 1..Len(cells) : cells[i] = Pad <=> i > k
    PROVE  Unpadded(cells) = SubSeq(cells, 1, k)
<1>1. Len(cells) \in Nat /\ DOMAIN cells = 1..Len(cells)
  BY LenProperties
<1>2. Units(cells) = 1..k
  BY <1>1 DEF Units
<1>3. 1 \in Int /\ k \in Int /\ k \in Nat
  BY <1>1
<1>4. Cardinality(1..k) = IF 1 > k THEN 0 ELSE k - 1 + 1
  BY <1>3, FS_Interval, ZenonT(60)
<1>5. Cardinality(1..k) = k
  BY <1>3, <1>4
<1>6. QED
  BY <1>2, <1>5 DEF Unpadded

\* The padding of a message is the padding of its last block.
LEMMA UnpaddedLast ==
    ASSUME NEW s \in Seq(Nat), NEW t \in Seq(Nat), PaddedAtEnd(Len(t), s \o t)
    PROVE  s \o Unpadded(t) = Unpadded(s \o t)
<1> DEFINE all == s \o t
<1>1. /\ all \in Seq(Nat) /\ Len(all) = Len(s) + Len(t)
      /\ \A i \in 1..Len(s) + Len(t) : all[i] = IF i <= Len(s) THEN s[i] ELSE t[i - Len(s)]
      /\ Len(s) \in Nat /\ Len(t) \in Nat
  BY ConcatProperties, LenProperties
<1>2. PICK k \in 0..Len(all) :
        /\ Len(all) - k <= Len(t)
        /\ \A i \in 1..Len(all) : all[i] = Pad <=> i > k
  BY DEF PaddedAtEnd
<1> HIDE DEF all
<1>3. Unpadded(all) = SubSeq(all, 1, k)
  BY <1>1, <1>2, UnpaddedEnd
<1>4. PICK m \in 0..Len(t) : k = Len(s) + m
  <2>1. k - Len(s) \in 0..Len(t) /\ k = Len(s) + (k - Len(s))
    BY <1>1, <1>2
  <2>2. QED
    BY <2>1
<1>5. \A i \in 1..Len(t) : t[i] = Pad <=> i > m
  <2>1. SUFFICES ASSUME NEW i \in 1..Len(t) PROVE t[i] = Pad <=> i > m
    OBVIOUS
  <2>a. i \in Nat /\ Len(s) \in Nat /\ Len(t) \in Nat /\ m \in Nat
    BY <1>1
  <2>b. i + Len(s) \in 1..Len(s) + Len(t) /\ ~(i + Len(s) <= Len(s))
    BY <2>a
  <2>c. (i + Len(s)) - Len(s) = i /\ (i + Len(s) > k <=> i > m)
    BY <1>4, <2>a
  <2>2. /\ i + Len(s) \in 1..Len(s) + Len(t) /\ ~(i + Len(s) <= Len(s))
        /\ (i + Len(s)) - Len(s) = i /\ (i + Len(s) > k <=> i > m)
    BY <2>b, <2>c
  <2>3. all[i + Len(s)] = t[i]
    BY <1>1, <2>2
  <2>4. QED
    BY <1>1, <1>2, <2>2, <2>3
<1>6. Unpadded(t) = SubSeq(t, 1, m)
  BY <1>5, UnpaddedEnd
<1>7. /\ SubSeq(t, 1, m) \in Seq(Nat) /\ Len(SubSeq(t, 1, m)) = m
      /\ \A i \in 1..m : SubSeq(t, 1, m)[i] = t[i]
  <2>a. 1 \in Int /\ m \in Int /\ m \in Nat /\ \A i \in 1..m : i \in 1..Len(t)
    BY <1>1
  <2>b. \A i \in 1..Len(t) : t[i] \in Nat
    BY ElementOfSeq
  <2>1. 1 \in Int /\ m \in Int /\ m \in Nat /\ \A i \in 1..m : t[i] \in Nat
    BY <2>a, <2>b
  <2>2. /\ SubSeq(t, 1, m) \in Seq(Nat)
        /\ Len(SubSeq(t, 1, m)) = IF 1 <= m THEN m - 1 + 1 ELSE 0
        /\ \A i \in 1 .. m - 1 + 1 : SubSeq(t, 1, m)[i] = t[1 + i - 1]
    BY <2>1, SubSeqProperties
  <2>3. QED
    BY <2>1, <2>2
<1>8. /\ SubSeq(all, 1, k) \in Seq(Nat) /\ Len(SubSeq(all, 1, k)) = k
      /\ \A i \in 1..k : SubSeq(all, 1, k)[i] = all[i]
  <2>a. 1 \in Int /\ k \in Int /\ k \in Nat /\ \A i \in 1..k : i \in 1..Len(all)
    BY <1>1
  <2>b. \A i \in 1..Len(all) : all[i] \in Nat
    BY <1>1, ElementOfSeq
  <2>1. 1 \in Int /\ k \in Int /\ k \in Nat /\ \A i \in 1..k : all[i] \in Nat
    BY <2>a, <2>b
  <2>2. /\ SubSeq(all, 1, k) \in Seq(Nat)
        /\ Len(SubSeq(all, 1, k)) = IF 1 <= k THEN k - 1 + 1 ELSE 0
        /\ \A i \in 1 .. k - 1 + 1 : SubSeq(all, 1, k)[i] = all[1 + i - 1]
    BY <2>1, SubSeqProperties
  <2>3. QED
    BY <2>1, <2>2
<1> DEFINE a == SubSeq(t, 1, m)
           z == SubSeq(all, 1, k)
<1> HIDE DEF a, z
<1>9. /\ s \o a \in Seq(Nat) /\ Len(s \o a) = Len(s) + Len(a)
      /\ \A i \in 1..Len(s) + Len(a) : (s \o a)[i] = IF i <= Len(s) THEN s[i] ELSE a[i - Len(s)]
  BY <1>7, ConcatProperties DEF a
<1>10. z \in Seq(Nat) /\ Len(z) = k /\ \A i \in 1..k : z[i] = all[i]
  BY <1>8 DEF z
<1>11. a \in Seq(Nat) /\ Len(a) = m /\ \A i \in 1..m : a[i] = t[i]
  BY <1>7 DEF a
<1>12. Len(s \o a) = Len(z)
  BY <1>4, <1>9, <1>10, <1>11
<1>13. \A i \in 1..Len(s \o a) : (s \o a)[i] = z[i]
  <2>1. SUFFICES ASSUME NEW i \in 1..Len(s) + m PROVE (s \o a)[i] = z[i]
    BY <1>9, <1>11
  <2>2. i \in 1..k /\ i \in 1..Len(s) + Len(t)
    BY <1>1, <1>4
  <2>3. z[i] = IF i <= Len(s) THEN s[i] ELSE t[i - Len(s)]
    BY <1>1, <1>10, <2>2
  <2>4. (s \o a)[i] = IF i <= Len(s) THEN s[i] ELSE a[i - Len(s)]
    BY <1>9, <1>11
  <2>5. ~(i <= Len(s)) => i - Len(s) \in 1..m
    BY <1>1
  <2>6. QED
    BY <1>11, <2>3, <2>4, <2>5
<1>14. s \o a = z
  BY <1>9, <1>10, <1>12, <1>13, SeqEqual
<1>15. QED
  BY <1>3, <1>6, <1>14 DEF a, z, all

\* Padding is a message.
LEMMA PadsType ==
    ASSUME NEW d \in Nat
    PROVE  LET pads == [i \in 1..d |-> Pad]
           IN  pads \in Seq(Nat) /\ Len(pads) = d /\ \A i \in 1..d : pads[i] = Pad
<1> DEFINE pads == [i \in 1..d |-> Pad]
<1>1. pads \in [1..d -> Nat] /\ DOMAIN pads = 1..d /\ \A i \in 1..d : pads[i] = Pad
  BY DEF Pad
<1> HIDE DEF pads
<1>2. pads \in Seq(Nat)
  BY <1>1, SeqDef
<1>3. Len(pads) \in Nat /\ DOMAIN pads = 1..Len(pads)
  BY <1>2, LenProperties
<1>4. Len(pads) = d
  BY <1>1, <1>3
<1>5. QED
  BY <1>1, <1>2, <1>4 DEF pads

\* EncryptFinalize after updates that kept to the block boundaries: it succeeds exactly
\* when the message as a whole has a transform, and what it hands back completes it.
LEMMA FinalizeWhole ==
    ASSUME NEW ctx \in Ctx, NEW out \in Seq(Nat), Aligned(ctx, Len(out)),
           Late(ctx) => PaddedAtEnd(ctx.block, out \o ctx.buf)
    PROVE  LET f == EncryptFinalize(ctx)
               given == out \o ctx.buf
           IN  /\ f.ok <=> Valid(ctx, given)
               /\ f.ok => out \o f.out = Transform(ctx, given)
<1> DEFINE f == EncryptFinalize(ctx)
           buf == ctx.buf
           n == Len(buf)
           b == ctx.block
           given == out \o buf
<1>1. /\ buf \in Seq(Nat) /\ b \in Nat \ {0} /\ ctx.type \in {"encrypt", "decrypt"}
      /\ ctx.padding \in BOOLEAN
  BY DEF Ctx, Types
<1>2. /\ given \in Seq(Nat) /\ Len(given) = Len(out) + n
      /\ \A i \in 1..Len(out) + n : given[i] = IF i <= Len(out) THEN out[i] ELSE buf[i - Len(out)]
      /\ Len(out) \in Nat /\ n \in Nat
  BY <1>1, ConcatProperties, LenProperties
<1>3. Multiple(Len(out), b)
  BY DEF Aligned
<1>4. ASSUME n < b PROVE Len(given) % b = n /\ n % b = n
  <2>1. n \in 0..(b - 1)
    BY <1>1, <1>2, <1>4
  <2>2. (Len(out) + n) % b = n
    BY <1>1, <1>2, <1>3, <2>1, Remainder
  <2>3. 0 = 0 * b
    BY <1>1, SMTT(30)
  <2>4. Multiple(0, b)
    BY <2>3 DEF Multiple
  <2>5. (0 + n) % b = n
    BY <1>1, <2>1, <2>4, Remainder
  <2>6. QED
    BY <1>2, <2>2, <2>5
<1>5. CASE ~Pads(ctx)
  <2>1. n < b
    BY <1>5 DEF Aligned, Late
  <2>2. f.ok = (n = 0) /\ f.out = <<>>
    BY <1>5 DEF EncryptFinalize
  <2>3. Valid(ctx, given) <=> n = 0
    BY <1>4, <1>5, <2>1 DEF Valid
  <2>4. n = 0 => given = out
    BY <1>1, EmptySeq, ConcatEmptySeq
  <2>5. out \o <<>> = out
    BY ConcatEmptySeq
  <2>6. Transform(ctx, given) = given
    BY <1>5 DEF Transform
  <2> HIDE DEF f, given, n
  <2>7. QED
    BY <2>2, <2>3, <2>4, <2>5, <2>6 DEF f, given
<1>6. CASE Pads(ctx) /\ ctx.type = "encrypt"
  <2>1. n < b
    BY <1>6 DEF Aligned, Late
  <2>2. f.ok = TRUE /\ f.out = Padded(ctx, buf)
    BY <1>6 DEF EncryptFinalize
  <2>3. Valid(ctx, given)
    BY <1>6 DEF Valid
  <2>4. Transform(ctx, given) = Padded(ctx, given)
    BY <1>6 DEF Transform
  <2> DEFINE pads == [i \in 1..(b - n) |-> Pad]
  <2>5. Padded(ctx, given) = given \o pads /\ Padded(ctx, buf) = buf \o pads
    BY <1>4, <2>1 DEF Padded
  <2>6. pads \in Seq(Nat)
    <3>1. b - n \in Nat
      BY <1>1, <1>2, <2>1
    <3>2. QED
      BY <3>1, PadsType
  <2> HIDE DEF pads
  <2>7. out \o (buf \o pads) = (out \o buf) \o pads
    BY <1>1, <2>6, MessageAssociative
  <2>8. QED
    BY <2>2, <2>3, <2>4, <2>5, <2>7
<1>7. CASE Pads(ctx) /\ ctx.type = "decrypt"
  <2>1. Late(ctx) /\ n <= b /\ (n = 0 => Len(out) = 0) /\ PaddedAtEnd(b, given)
    BY <1>7 DEF Aligned, Late
  <2>2. /\ f.ok <=> n = b /\ buf[n] = Pad
        /\ f.ok => f.out = Unpadded(buf)
    BY <1>7 DEF EncryptFinalize
  <2>3. /\ Valid(ctx, given) <=> Len(given) > 0 /\ Len(given) % b = 0 /\ given[Len(given)] = Pad
        /\ Transform(ctx, given) = Unpadded(given)
    BY <1>7 DEF Valid, Transform
  <2>4. CASE n = b
    <3>1. given[Len(given)] = buf[n] /\ Len(given) > 0
      BY <1>1, <1>2, <2>4
    <3>2. Len(given) % b = 0
      <4>1. b = 1 * b /\ 0 \in 0..(b - 1) /\ b \in Nat
        BY <1>1, SMTT(30)
      <4>2. Multiple(b, b)
        BY <4>1 DEF Multiple
      <4>3. Multiple(Len(out) + b, b)
        BY <1>1, <1>2, <1>3, <4>1, <4>2, MultipleSum
      <4>4. Len(out) + b \in Nat
        BY <1>2, <4>1
      <4>5. ((Len(out) + b) + 0) % b = 0
        BY <1>1, <4>1, <4>3, <4>4, Remainder
      <4>6. QED
        BY <1>2, <2>4, <4>4, <4>5
    <3>3. f.ok <=> Valid(ctx, given)
      BY <2>2, <2>3, <2>4, <3>1, <3>2
    <3>4. out \o Unpadded(buf) = Unpadded(given)
      BY <1>1, <2>1, <2>4, UnpaddedLast
    <3>5. QED
      BY <2>2, <2>3, <3>3, <3>4
  <2>5. CASE n # b
    <3>1. ~f.ok
      BY <2>2, <2>5
    <3>2. ~Valid(ctx, given)
      BY <1>1, <1>2, <1>4, <2>1, <2>3, <2>5
    <3>3. QED
      BY <3>1, <3>2
  <2>6. QED
    BY <2>4, <2>5
<1>8. QED
  BY <1>1, <1>5, <1>6, <1>7

\* A fresh context is at a block boundary.
LEMMA FreshAligned ==
    ASSUME NEW ctx \in Ctx, ctx.buf = <<>>
    PROVE  Aligned(ctx, 0)
<1>1. ctx.block \in Nat \ {0} /\ Len(<<>>) = 0
  BY EmptySeq DEF Ctx
<1>2. 0 = 0 * ctx.block
  BY <1>1, SMTT(30)
<1>3. Multiple(0, ctx.block)
  BY <1>2 DEF Multiple
<1>4. QED
  BY <1>1, <1>3 DEF Aligned

\* Cipher text that is cut off still has its padding, or what is left of it, at the end.
LEMMA PaddedPrefix ==
    ASSUME NEW b \in Nat, NEW cells \in Seq(Nat), NEW n \in 0..Len(cells), PaddedAtEnd(b, cells)
    PROVE  PaddedAtEnd(b, SubSeq(cells, 1, n))
<1>1. Len(cells) \in Nat /\ 1 \in Int /\ n \in Int /\ n \in Nat
  BY LenProperties
<1>2. PICK k \in 0..Len(cells) :
        Len(cells) - k <= b /\ \A i \in 1..Len(cells) : cells[i] = Pad <=> i > k
  BY DEF PaddedAtEnd
<1> DEFINE p == SubSeq(cells, 1, n)
<1>3. Len(p) = n /\ \A i \in 1..n : p[i] = cells[i]
  <2>1. \A i \in 1..n : cells[i] \in Nat
    BY <1>1, ElementOfSeq
  <2>2. /\ Len(p) = IF 1 <= n THEN n - 1 + 1 ELSE 0
        /\ \A i \in 1..n - 1 + 1 : p[i] = cells[1 + i - 1]
    BY <1>1, <2>1, SubSeqProperties
  <2>3. QED
    BY <1>1, <2>2
<1> HIDE DEF p
<1>4. PICK m \in 0..n : m = IF k <= n THEN k ELSE n
  BY <1>1, <1>2
<1>5. n - m <= b /\ \A i \in 1..n : p[i] = Pad <=> i > m
  <2>1. n - m <= b
    BY <1>1, <1>2, <1>4
  <2>2. ASSUME NEW i \in 1..n PROVE p[i] = Pad <=> i > m
    <3>1. i \in 1..Len(cells) /\ p[i] = cells[i]
      BY <1>1, <1>3
    <3>2. cells[i] = Pad <=> i > k
      BY <1>2, <3>1
    <3>3. i > k <=> i > m
      BY <1>1, <1>2, <1>4
    <3>4. QED
      BY <3>1, <3>2, <3>3
  <2>3. QED
    BY <2>1, <2>2
<1>6. QED
  BY <1>3, <1>5 DEF PaddedAtEnd, p

\* Padded leaves a text without padding as it is and adds at most a block of padding, up
\* to a block boundary.
LEMMA PaddedText ==
    ASSUME NEW ctx \in Ctx, NEW text \in Seq(Nat), \A i \in 1..Len(text) : text[i] # Pad
    PROVE  LET whole == Padded(ctx, text)
           IN  /\ whole \in Seq(Nat) /\ Len(text) \in Nat /\ Len(whole) \in Nat
               /\ Len(text) < Len(whole) /\ Len(whole) - Len(text) <= ctx.block
               /\ Multiple(Len(whole), ctx.block)
               /\ \A i \in 1..Len(whole) : whole[i] = Pad <=> i > Len(text)
               /\ \A i \in 1..Len(text) : whole[i] = text[i]
<1> DEFINE b == ctx.block
           n == Len(text)
           pads == [i \in 1..(b - (n % b)) |-> Pad]
           whole == text \o pads
<1>1. b \in Nat \ {0} /\ n \in Nat
  BY LenProperties DEF Ctx
<1>2. (n \div b) * b \in 0..n /\ n % b = n - (n \div b) * b /\ n % b \in 0..(b - 1)
  BY <1>1, WholeBlocks
<1>3. PICK d \in 1..b : d = b - (n % b)
  <2>1. PICK r \in 0..(b - 1) : r = n % b
    BY <1>2
  <2>2. b - r \in 1..b
    BY <1>1
  <2>3. QED
    BY <2>1, <2>2
<1>4. pads \in Seq(Nat) /\ Len(pads) = d /\ \A i \in 1..d : pads[i] = Pad
  <2>1. pads = [i \in 1..d |-> Pad] /\ d \in Nat
    BY <1>1, <1>3
  <2>2. QED
    BY <2>1, PadsType
<1>5. Padded(ctx, text) = whole
  BY DEF Padded
<1>6. Multiple(n + d, b)
  <2>1. PICK q \in Nat : q = n \div b
    BY <1>1, SMTT(30)
  <2>2. n + d = q * b + b
    BY <1>1, <1>2, <1>3, <2>1
  <2>3. (q + 1) * b = q * b + b
    BY <1>1, SMTT(30)
  <2>4. n + d = (q + 1) * b /\ q + 1 \in Nat
    BY <2>2, <2>3
  <2>5. QED
    BY <2>4 DEF Multiple
<1> HIDE DEF pads
<1>7. /\ whole \in Seq(Nat) /\ Len(whole) = n + d
      /\ \A i \in 1..n + d : whole[i] = IF i <= n THEN text[i] ELSE pads[i - n]
  BY <1>4, ConcatProperties
<1> HIDE DEF whole
<1>8. \A i \in 1..n + d : whole[i] = Pad <=> i > n
  <2>1. SUFFICES ASSUME NEW i \in 1..n + d PROVE whole[i] = Pad <=> i > n
    OBVIOUS
  <2>2. CASE i <= n
    <3>1. i \in 1..n
      BY <1>1, <2>2
    <3>2. whole[i] = text[i] /\ ~(i > n)
      BY <1>1, <1>7, <2>2
    <3>3. text[i] # Pad
      BY <3>1
    <3>4. QED
      BY <3>2, <3>3
  <2>3. CASE i > n
    <3>1. i - n \in 1..d /\ ~(i <= n)
      BY <1>1, <2>3
    <3>2. QED
      BY <1>4, <1>7, <2>3, <3>1
  <2>4. QED
    BY <1>1, <2>2, <2>3
<1>9. \A i \in 1..n : whole[i] = text[i]
  BY <1>1, <1>7
<1>10. n + d \in Nat /\ n < n + d /\ (n + d) - n <= b
  BY <1>1
<1>11. QED
  BY <1>1, <1>5, <1>6, <1>7, <1>8, <1>9, <1>10

\* The clear text the model starts from, which has no padding in it.
LEMMA ClearText ==
    ASSUME NEW n \in Nat
    PROVE  Message(n) \in Seq(Nat) /\ \A i \in 1..Len(Message(n)) : Message(n)[i] # Pad
<1>1. Message(n) \in [1..n -> Nat]
  BY DEF Message
<1>2. Message(n) \in Seq(Nat)
  BY <1>1, SeqDef
<1>3. Len(Message(n)) \in Nat /\ DOMAIN Message(n) = 1..Len(Message(n))
  BY <1>2, LenProperties
<1>4. DOMAIN Message(n) = 1..n /\ \A i \in 1..n : Message(n)[i] # Pad
  BY DEF Message, Pad
<1>5. QED
  BY <1>2, <1>3, <1>4

\* The messages a context is given have their padding, if it is to be taken off, at the
\* end.
LEMMA MessagesPadded ==
    ASSUME NEW ctx \in Ctx, NEW max \in Nat, NEW m \in Messages(ctx, max), Late(ctx)
    PROVE  PaddedAtEnd(ctx.block, m)
<1>1. PICK n \in 0..max :
        \E k \in 0..Len(Padded(ctx, Message(n))) : m = SubSeq(Padded(ctx, Message(n)), 1, k)
  BY DEF Messages, Late
<1> DEFINE whole == Padded(ctx, Message(n))
<1>2. ctx.block \in Nat
  BY DEF Ctx
<1>3. whole \in Seq(Nat) /\ PaddedAtEnd(ctx.block, whole)
  <2>1. Message(n) \in Seq(Nat) /\ \A i \in 1..Len(Message(n)) : Message(n)[i] # Pad
    BY ClearText
  <2>2. /\ whole \in Seq(Nat) /\ Len(Message(n)) \in Nat /\ Len(whole) \in Nat
        /\ Len(Message(n)) < Len(whole) /\ Len(whole) - Len(Message(n)) <= ctx.block
        /\ \A i \in 1..Len(whole) : whole[i] = Pad <=> i > Len(Message(n))
    BY <2>1, PaddedText
  <2> HIDE DEF whole
  <2>3. Len(Message(n)) \in 0..Len(whole)
    BY <2>2
  <2>4. QED
    BY <2>2, <2>3 DEF PaddedAtEnd
<1>4. PICK k \in 0..Len(whole) : m = SubSeq(whole, 1, k)
  BY <1>1
<1> HIDE DEF whole
<1>5. QED
  BY <1>2, <1>3, <1>4, PaddedPrefix

\* A message and its transform depend on the kind of context only.
LEMMA SameMessage ==
    ASSUME NEW c, NEW d, NEW cells,
           c.type = d.type, c.block = d.block, c.padding = d.padding
    PROVE  /\ Valid(c, cells) = Valid(d, cells) /\ Transform(c, cells) = Transform(d, cells)
           /\ Late(c) = Late(d)
<1>1. Pads(c) = Pads(d) /\ Padded(c, cells) = Padded(d, cells)
  BY DEF Pads, Padded
<1>2. QED
  BY <1>1 DEF Valid, Transform, Late

\* EncryptFinalize leaves the kind of its context alone, and completes the message.
LEMMA FinalizeCompletes ==
    ASSUME NEW ctx \in Ctx, NEW out \in Seq(Nat), Aligned(ctx, Len(out)),
           Late(ctx) => PaddedAtEnd(ctx.block, out \o ctx.buf)
    PROVE  LET f == EncryptFinalize(ctx)
               given == out \o ctx.buf
           IN  /\ f.ctx.type = ctx.type /\ f.ctx.block = ctx.block
               /\ f.ctx.padding = ctx.padding
               /\ f.ok <=> Valid(f.ctx, given)
               /\ f.ok => out \o f.out = Transform(f.ctx, given)
<1> DEFINE f == EncryptFinalize(ctx)
           given == out \o ctx.buf
           rest == IF f.ok THEN <<>> ELSE ctx.buf
<1>1. f.ctx = [ctx EXCEPT !.buf = rest, !.finals = ctx.finals + 1]
  BY DEF EncryptFinalize, Ctx
<1>2. /\ f.ok <=> Valid(ctx, given)
      /\ f.ok => out \o f.out = Transform(ctx, given)
  BY FinalizeWhole
<1> HIDE DEF f, given, rest
<1>3. f.ctx.type = ctx.type /\ f.ctx.block = ctx.block /\ f.ctx.padding = ctx.padding
  BY <1>1 DEF Ctx
<1>4. Valid(f.ctx, given) = Valid(ctx, given) /\ Transform(f.ctx, given) = Transform(ctx, given)
  BY <1>3, SameMessage
<1>5. QED
  BY <1>2, <1>3, <1>4 DEF f, given

-----------------------------------------------------------------------------
(* From one context to the other.                                          *)

\* What a context makes of a clear text, the context of the other type, with the same
\* block size and padding, takes and turns back.
LEMMA TurnedBack ==
    ASSUME NEW enc \in Ctx, NEW dec \in Ctx, enc.type = "encrypt", dec.type = "decrypt",
           enc.block = dec.block, enc.padding = dec.padding,
           NEW text \in Seq(Nat), \A i \in 1..Len(text) : text[i] # Pad, Valid(enc, text)
    PROVE  LET cells == Transform(enc, text)
           IN  /\ cells \in Seq(Nat)
               /\ Late(dec) => PaddedAtEnd(dec.block, cells)
               /\ Valid(dec, cells) /\ Transform(dec, cells) = text
<1>1. Pads(enc) = Pads(dec)
  BY DEF Pads
<1>2. CASE ~Pads(dec)
  BY <1>1, <1>2 DEF Transform, Valid, Late
<1>3. CASE Pads(dec)
  <2> DEFINE cells == Padded(enc, text)
             n == Len(text)
             b == dec.block
  <2>1. /\ cells \in Seq(Nat) /\ n \in Nat /\ Len(cells) \in Nat
        /\ n < Len(cells) /\ Len(cells) - n <= b
        /\ Multiple(Len(cells), b)
        /\ \A i \in 1..Len(cells) : cells[i] = Pad <=> i > n
        /\ \A i \in 1..n : cells[i] = text[i]
    BY PaddedText
  <2>2. Transform(enc, text) = cells
    BY <1>1, <1>3 DEF Transform
  <2> HIDE DEF cells
  <2>3. n \in 0..Len(cells) /\ Len(cells) \in 1..Len(cells)
    BY <2>1
  <2>4. PaddedAtEnd(b, cells)
    BY <2>1, <2>3 DEF PaddedAtEnd
  <2>5. Len(cells) % b = 0
    <3>1. b \in Nat \ {0} /\ 0 \in 0..(b - 1)
      BY DEF Ctx
    <3>2. (Len(cells) + 0) % b = 0
      BY <2>1, <3>1, Remainder
    <3>3. QED
      BY <2>1, <3>2
  <2>6. cells[Len(cells)] = Pad /\ Len(cells) > 0
    BY <2>1, <2>3
  <2>7. Valid(dec, cells)
    BY <1>3, <2>5, <2>6 DEF Valid
  <2>8. Unpadded(cells) = SubSeq(cells, 1, n)
    BY <2>1, <2>3, UnpaddedEnd
  <2>9. SubSeq(cells, 1, n) = text
    <3>1. \A i \in 1..n : cells[i] \in Nat
      BY <2>1, <2>3, ElementOfSeq
    <3>2. /\ SubSeq(cells, 1, n) \in Seq(Nat)
          /\ Len(SubSeq(cells, 1, n)) = IF 1 <= n THEN n - 1 + 1 ELSE 0
          /\ \A i \in 1..n - 1 + 1 : SubSeq(cells, 1, n)[i] = cells[1 + i - 1]
      BY <2>1, <3>1, SubSeqProperties
    <3> DEFINE z == SubSeq(cells, 1, n)
    <3>3. z \in Seq(Nat) /\ Len(z) = n /\ \A i \in 1..n : z[i] = text[i]
      BY <2>1, <3>2
    <3> HIDE DEF z
    <3>4. z = text
      BY <3>3, SeqEqual
    <3>5. QED
      BY <3>4 DEF z
  <2>10. Transform(dec, cells) = text
    BY <1>3, <2>8, <2>9 DEF Transform
  <2>11. QED
    BY <2>1, <2>2, <2>4, <2>7, <2>10
<1>4. QED
  BY <1>2, <1>3

\* A fresh context that is given a message at once and finalised transforms it, or fails
\* because it has no transform.
LEMMA AtOnce ==
    ASSUME NEW ctx \in Ctx, ctx.buf = <<>>, NEW cells \in Seq(Nat),
           Late(ctx) => PaddedAtEnd(ctx.block, cells)
    PROVE  LET u == EncryptUpdate(ctx, cells)
               f == EncryptFinalize(u.ctx)
           IN  /\ u.ctx \in Ctx /\ Len(u.ctx.buf) <= u.ctx.block /\ u.out \in Seq(Nat)
               /\ u.ctx.type = ctx.type /\ u.ctx.block = ctx.block
               /\ u.ctx.padding = ctx.padding
               /\ f.ctx.type = ctx.type /\ f.ctx.block = ctx.block
               /\ f.ctx.padding = ctx.padding
               /\ f.ok <=> Valid(ctx, cells)
               /\ f.ok => u.out \o f.out = Transform(ctx, cells)
<1> DEFINE u == EncryptUpdate(ctx, cells)
           f == EncryptFinalize(u.ctx)
<1>1. /\ u.ctx \in Ctx /\ Len(u.ctx.buf) <= u.ctx.block /\ u.ctx.block = ctx.block
      /\ u.out \in Seq(Nat) /\ u.out \o u.ctx.buf = cells
  <2>1. ctx.buf \o cells = cells
    BY ConcatEmptySeq
  <2>2. QED
    BY <2>1, UpdateConserves
<1>2. /\ Aligned(u.ctx, Len(u.out)) /\ u.ctx.type = ctx.type /\ u.ctx.padding = ctx.padding
  <2>1. Aligned(ctx, 0) /\ 0 \in Nat
    BY FreshAligned
  <2>2. /\ Aligned(u.ctx, 0 + Len(u.out))
        /\ u.ctx.type = ctx.type /\ u.ctx.padding = ctx.padding
    BY <2>1, UpdateAligned
  <2>3. 0 + Len(u.out) = Len(u.out)
    BY <1>1, LenProperties
  <2>4. QED
    BY <2>2, <2>3
<1> HIDE DEF u
<1>3. /\ Late(u.ctx) = Late(ctx) /\ Valid(u.ctx, cells) = Valid(ctx, cells)
      /\ Transform(u.ctx, cells) = Transform(ctx, cells)
  BY <1>1, <1>2, SameMessage
<1>4. /\ f.ctx.type = u.ctx.type /\ f.ctx.block = u.ctx.block /\ f.ctx.padding = u.ctx.padding
      /\ f.ok <=> Valid(f.ctx, cells)
      /\ f.ok => u.out \o f.out = Transform(f.ctx, cells)
  <2>1. Late(u.ctx) => PaddedAtEnd(u.ctx.block, u.out \o u.ctx.buf)
    BY <1>1, <1>3
  <2>2. QED
    BY <1>1, <1>2, <2>1, FinalizeCompletes
<1> HIDE DEF f
<1>5. Valid(f.ctx, cells) = Valid(ctx, cells) /\ Transform(f.ctx, cells) = Transform(ctx, cells)
  BY <1>1, <1>2, <1>4, SameMessage
<1>6. QED
  BY <1>1, <1>2, <1>4, <1>5 DEF u, f

=============================================================================
