-------------------------- MODULE TlsEncryptProofs --------------------------
(***************************************************************************)
(* Theorems about the stacked channel of tls::encrypt and tls::decrypt,    *)
(* for every block size, message, size of a read or write, and channel     *)
(* below.                                                                  *)
(***************************************************************************)
EXTENDS TlsEncrypt, TlsCipherProofs

\* Why a context is not finalised twice: only a live channel whose CHAN_EOF is
\* not set does it, and a channel is closed when nothing of it is queued or
\* scheduled any more.
Once ==
    /\ state.ctx.finals <= 1
    /\ state.life = "live" /\ ~state.eof => state.ctx.finals = 0
    /\ state.eof => state.ctx.finals = 1
    /\ state.life # "live" => ~gen.open /\ ~gen.flush /\ ~gen.bg
    /\ gen.bg /\ ~gen.flush => queue # <<>>

\* Whether all that was handed to the channel below arrives there.
Lossless == (state.mode = "r" \/ Reliable) /\ ~gen.again

\* Until it is finalised, what a lossless transform has handed on, keeps, or has in
\* its queue is what it was given.
Kept ==
    /\ state.mode = "r" => queue = <<>> /\ ~gen.again
    /\ Lossless /\ state.ctx.finals = 0 => (out \o state.ctx.buf) \o queue = Given

IInv == TypeOK /\ Once /\ Kept

\* A new channel has a fresh context.
LEMMA InitEncrypt == Init => IInv
<1> SUFFICES ASSUME Init PROVE IInv
  OBVIOUS
<1>1. PICK mode \in ChannelModes, type \in Types, block \in Blocks, padding \in BOOLEAN :
        /\ state = EncryptStateNew(mode, NewCtx(type, block, padding))
        /\ input \in Messages(state.ctx, MaxUnits)
  BY DEF Init
<1> DEFINE fresh == NewCtx(type, block, padding)
<1>2. /\ fresh \in Ctx /\ fresh.buf = <<>> /\ fresh.finals = 0 /\ Len(fresh.buf) <= fresh.block
  BY <1>1, EncryptAssumption, EmptySeq DEF NewCtx, Ctx
<1> HIDE DEF fresh
<1>3. /\ state \in State /\ state.ctx = fresh /\ state.life = "live" /\ ~state.eof
  BY <1>1, <1>2, EncryptAssumption DEF EncryptStateNew, State, fresh
<1>4. input \in Seq(Nat)
  BY <1>1, <1>2, <1>3, EncryptAssumption, MessagesType
<1>5. Len(input) \in Nat /\ <<>> \in Seq(Nat)
  BY <1>4, LenProperties, EmptySeq
<1>6. TypeOK
  BY <1>2, <1>3, <1>4, <1>5 DEF Init, TypeOK, Gen
<1>7. Once
  BY <1>2, <1>3 DEF Init, Once
<1>8. Given = <<>> /\ <<>> \o <<>> = <<>>
  BY <1>5, SubSeqEmpty, ConcatEmptySeq DEF Init, Given
<1>9. Kept
  <2>1. (out \o state.ctx.buf) \o queue = Given
    BY <1>2, <1>3, <1>8 DEF Init
  <2>2. queue = <<>> /\ ~gen.again
    BY DEF Init
  <2>3. QED
    BY <2>1, <2>2 DEF Kept
<1>10. QED
  BY <1>6, <1>7, <1>9 DEF IInv

\* What the channel below takes is a message.
LEMMA AcceptedType ==
    ASSUME NEW cells \in Seq(Nat), NEW taken \in Accepted(cells)
    PROVE  taken \in Seq(Nat)
<1>1. Len(cells) \in Nat
  BY LenProperties
<1>2. PICK k \in 0..Len(cells) : taken = SubSeq(cells, 1, k)
  BY <1>1 DEF Accepted
<1>3. \A i \in 1..k : cells[i] \in Nat
  BY <1>1, <1>2, ElementOfSeq
<1>4. QED
  BY <1>2, <1>3, SubSeqProperties

\* EncryptCloseProc of a live channel: it finalises the context unless CHAN_EOF
\* says that this was done.
LEMMA CloseDriverStep ==
    ASSUME TypeOK, Once, state.life = "live", CloseDriver
    PROVE  /\ state' \in State /\ Len(state'.ctx.buf) <= state'.ctx.block
           /\ out' \in Seq(Nat)
           /\ state'.life # "live" /\ state'.ctx.finals = 1 /\ state'.mode = state.mode
<1> DEFINE f == EncryptFinalize(state.ctx)
           tail == IF state.eof THEN <<>> ELSE f.out
<1>1. /\ state \in State /\ state.ctx \in Ctx /\ state.eof \in BOOLEAN
      /\ Len(state.ctx.buf) <= state.ctx.block /\ out \in Seq(Nat)
      /\ state.ctx.finals \in Nat
  BY DEF TypeOK, State, Ctx
<1>2. /\ f.ctx \in Ctx /\ Len(f.ctx.buf) <= f.ctx.block
      /\ f.out \in Seq(Nat) /\ f.ctx.finals = state.ctx.finals + 1
  BY <1>1, FinalizeType
<1>3. tail \in Seq(Nat)
  BY <1>2, EmptySeq
<1>4. out' \in Seq(Nat)
  <2>1. CASE UNCHANGED out
    BY <1>1, <2>1
  <2>2. CASE \E cells \in Accepted(tail) : out' = out \o cells
    <3>1. PICK cells \in Accepted(tail) : out' = out \o cells
      BY <2>2
    <3>2. cells \in Seq(Nat)
      BY <1>3, AcceptedType
    <3>3. QED
      BY <1>1, <3>1, <3>2, ConcatProperties
  <2>3. QED
    BY <2>1, <2>2 DEF CloseDriver, LastBlock
<1>5. state' = EncryptCloseProc(f, TRUE) \/ state' = EncryptCloseProc(f, FALSE)
  BY DEF CloseDriver, LastBlock
<1> HIDE DEF f
<1>6. CASE state.eof
  <2>1. state' = [state EXCEPT !.life = "freed"]
    BY <1>5, <1>6 DEF EncryptCloseProc
  <2>2. /\ state' \in State /\ state'.ctx = state.ctx /\ state'.life = "freed"
        /\ state'.mode = state.mode
    BY <1>1, <2>1 DEF State
  <2>3. state.ctx.finals = 1
    BY <1>6 DEF Once
  <2>4. QED
    BY <1>1, <1>4, <2>2, <2>3
<1>7. CASE ~state.eof
  <2>1. \/ state' = [state EXCEPT !.ctx = f.ctx, !.life = "kept"]
        \/ state' = [state EXCEPT !.ctx = f.ctx, !.eof = TRUE, !.life = "freed"]
    BY <1>5, <1>7 DEF EncryptCloseProc
  <2>2. /\ state' \in State /\ state'.ctx = f.ctx /\ state'.life # "live"
        /\ state'.mode = state.mode
    BY <1>1, <1>2, <2>1 DEF State
  <2>3. f.ctx.finals = 1
    BY <1>2, <1>7 DEF Once
  <2>4. QED
    BY <1>2, <1>4, <2>2, <2>3
<1>8. QED
  BY <1>1, <1>6, <1>7

\* FlushChannel hands the queue to EncryptOutputProc, which finalises nothing.
LEMMA FlushStep == IInv /\ FlushChannel => IInv'
<1> SUFFICES ASSUME IInv, FlushChannel PROVE IInv'
  OBVIOUS
<1> DEFINE r == EncryptOutputProc(state.ctx, queue)
           u == EncryptUpdate(state.ctx, queue)
<1>1. /\ state \in State /\ state.ctx \in Ctx /\ gen \in Gen /\ gen.flush /\ queue # <<>>
      /\ queue \in Seq(Nat) /\ input \in Seq(Nat) /\ out \in Seq(Nat)
      /\ pos \in 0..Len(input)
  BY DEF IInv, TypeOK, State, FlushChannel
<1>2. /\ u.ctx \in Ctx /\ Len(u.ctx.buf) <= u.ctx.block
      /\ u.ctx.finals = state.ctx.finals /\ u.out \in Seq(Nat)
      /\ u.out \o u.ctx.buf = state.ctx.buf \o queue
  BY <1>1, UpdateConserves
<1>3. r.ctx = u.ctx /\ r.out = u.out
  BY DEF EncryptOutputProc
<1>4. /\ state' = [state EXCEPT !.ctx = r.ctx] /\ UNCHANGED <<input, pos>>
      /\ \/ /\ gen' = [gen EXCEPT !.flush = FALSE, !.bg = TRUE, !.again = TRUE]
            /\ UNCHANGED <<queue, out>>
         \/ /\ queue' = <<>> /\ UNCHANGED gen
            /\ \E cells \in Accepted(r.out) : out' = out \o cells
  BY DEF FlushChannel
<1> HIDE DEF r, u
<1>5. /\ state' \in State /\ state'.ctx = u.ctx /\ state'.life = state.life
      /\ state'.eof = state.eof /\ state'.mode = state.mode
  BY <1>1, <1>2, <1>3, <1>4 DEF State
<1>6. queue' \in Seq(Nat) /\ out' \in Seq(Nat)
  <2>1. \A cells \in Accepted(r.out) : out \o cells \in Seq(Nat)
    BY <1>1, <1>2, <1>3, AcceptedType, ConcatProperties
  <2>2. QED
    BY <1>1, <1>4, <2>1, EmptySeq
<1>7. /\ gen' \in Gen
      /\ gen'.bg /\ ~gen'.flush => queue' # <<>>
  BY <1>1, <1>4 DEF Gen
<1>8. TypeOK'
  BY <1>1, <1>2, <1>4, <1>5, <1>6, <1>7 DEF TypeOK
<1>9. state.life = "live"
  BY <1>1 DEF IInv, Once
<1>10. Once'
  BY <1>2, <1>5, <1>7, <1>9 DEF IInv, Once
<1>11. state.mode # "r"
  BY <1>1 DEF IInv, Kept
<1>12. ASSUME Lossless', u.ctx.finals = 0
       PROVE  (out' \o u.ctx.buf) \o queue' = Given'
  <2>1. Reliable /\ ~gen'.again
    BY <1>5, <1>11, <1>12 DEF Lossless
  <2>2. queue' = <<>> /\ UNCHANGED gen /\ \E cells \in Accepted(r.out) : out' = out \o cells
    BY <1>1, <1>4, <2>1 DEF Gen
  <2>3. out' = out \o u.out
    <3>1. PICK cells \in Accepted(r.out) : out' = out \o cells
      BY <2>2
    <3>2. cells = SubSeq(u.out, 1, Len(u.out))
      BY <1>3, <2>1, <3>1 DEF Accepted
    <3>3. cells = u.out
      BY <1>2, <3>2, SubSeqFull
    <3>4. QED
      BY <3>1, <3>3
  <2>4. state.ctx.buf \in Seq(Nat) /\ u.ctx.buf \in Seq(Nat)
    BY <1>1, <1>2 DEF Ctx
  <2>5. out' \o u.ctx.buf = out \o (u.out \o u.ctx.buf)
    BY <1>1, <1>2, <2>3, <2>4, MessageAssociative
  <2>6. out \o (state.ctx.buf \o queue) = (out \o state.ctx.buf) \o queue
    BY <1>1, <2>4, MessageAssociative
  <2>7. (out \o state.ctx.buf) \o queue = Given
    BY <1>2, <1>12, <2>1, <2>2 DEF IInv, Kept, Lossless
  <2>8. out' \o u.ctx.buf = Given
    BY <1>2, <2>5, <2>6, <2>7
  <2>9. (out' \o u.ctx.buf) \o <<>> = out' \o u.ctx.buf
    BY <1>6, <2>4, ConcatProperties, ConcatEmptySeq
  <2>10. Given' = Given
    BY <1>4 DEF Given
  <2>11. QED
    BY <2>2, <2>8, <2>9, <2>10
<1>13. Kept'
  BY <1>5, <1>11, <1>12 DEF Kept
<1>14. QED
  BY <1>8, <1>10, <1>13 DEF IInv

\* EncryptInputProc with data: what an update does not hand on, the context keeps.
LEMMA ReadDataStep == IInv /\ ReadData => IInv'
<1> SUFFICES ASSUME IInv, ReadData PROVE IInv'
  OBVIOUS
<1>1. /\ state \in State /\ state.ctx \in Ctx /\ gen \in Gen /\ gen.open
      /\ queue \in Seq(Nat) /\ input \in Seq(Nat) /\ out \in Seq(Nat)
      /\ pos \in 0..Len(input) /\ state.mode = "r"
  BY DEF IInv, TypeOK, State, ReadData
<1>2. PICK n \in ReadSizes :
        /\ pos + n <= Len(input)
        /\ \E u \in {EncryptUpdate(state.ctx, SubSeq(input, pos + 1, pos + n))} :
             state' = [state EXCEPT !.ctx = u.ctx] /\ out' = out \o u.out
        /\ pos' = pos + n
  BY DEF ReadData
<1> DEFINE data == SubSeq(input, pos + 1, pos + n)
           u == EncryptUpdate(state.ctx, data)
<1>3. n \in Nat /\ Len(input) \in Nat
  BY <1>1, EncryptAssumption, LenProperties
<1>4. data \in Seq(Nat) /\ Given \o data = SubSeq(input, 1, pos + n)
  BY <1>1, <1>2, <1>3, PieceType DEF Given
<1>5. /\ u.ctx \in Ctx /\ Len(u.ctx.buf) <= u.ctx.block
      /\ u.ctx.block = state.ctx.block /\ u.ctx.finals = state.ctx.finals
      /\ u.out \in Seq(Nat) /\ u.out \o u.ctx.buf = state.ctx.buf \o data
  BY <1>1, <1>4, UpdateConserves
<1>6. state' = [state EXCEPT !.ctx = u.ctx] /\ out' = out \o u.out
  BY <1>2
<1>7. UNCHANGED <<gen, queue, input>> /\ pos' = pos + n
  BY <1>2 DEF ReadData
<1> HIDE DEF u, data
<1>8. /\ state' \in State /\ state'.ctx = u.ctx /\ state'.life = state.life
      /\ state'.eof = state.eof /\ state'.mode = state.mode
  BY <1>1, <1>5, <1>6 DEF State
<1>9. out' \in Seq(Nat) /\ pos' \in 0..Len(input')
  BY <1>1, <1>2, <1>3, <1>5, <1>6, <1>7, ConcatProperties
<1>10. TypeOK'
  BY <1>1, <1>5, <1>7, <1>8, <1>9 DEF TypeOK
<1>11. Once'
  BY <1>5, <1>7, <1>8 DEF IInv, Once
<1>12. /\ state.ctx.buf \in Seq(Nat) /\ u.ctx.buf \in Seq(Nat)
  BY <1>1, <1>5 DEF Ctx
<1>13. ASSUME state.ctx.finals = 0
       PROVE  out' \o u.ctx.buf = Given'
  <2>1. (out \o u.out) \o u.ctx.buf = out \o (u.out \o u.ctx.buf)
    BY <1>1, <1>5, <1>12, MessageAssociative
  <2>2. out \o (state.ctx.buf \o data) = (out \o state.ctx.buf) \o data
    BY <1>1, <1>4, <1>12, MessageAssociative
  <2>3. out \o state.ctx.buf = Given
    <3>1. queue = <<>> /\ (out \o state.ctx.buf) \o queue = Given
      BY <1>1, <1>13 DEF IInv, Kept, Lossless
    <3>2. (out \o state.ctx.buf) \o <<>> = out \o state.ctx.buf
      BY <1>1, <1>12, ConcatProperties, ConcatEmptySeq
    <3>3. QED
      BY <3>1, <3>2
  <2>4. Given' = SubSeq(input, 1, pos + n)
    BY <1>7 DEF Given
  <2>5. QED
    BY <1>4, <1>5, <1>6, <2>1, <2>2, <2>3, <2>4
<1>14. Kept'
  <2>1. queue' = <<>> /\ ~gen'.again
    BY <1>1, <1>7 DEF IInv, Kept
  <2>2. (out' \o u.ctx.buf) \o <<>> = out' \o u.ctx.buf
    BY <1>9, <1>12, ConcatProperties, ConcatEmptySeq
  <2>3. QED
    BY <1>5, <1>8, <1>13, <2>1, <2>2 DEF Kept
<1>15. QED
  BY <1>10, <1>11, <1>14 DEF IInv

\* EncryptInputProc at the end of the channel below: CHAN_EOF is set with the only
\* finalisation.
LEMMA ReadEndStep == IInv /\ ReadEnd => IInv'
<1> SUFFICES ASSUME IInv, ReadEnd PROVE IInv'
  OBVIOUS
<1> DEFINE f == EncryptFinalize(state.ctx)
           tail == IF state.eof THEN <<>> ELSE f.out
<1>1. /\ state \in State /\ state.ctx \in Ctx /\ Len(state.ctx.buf) <= state.ctx.block
      /\ gen \in Gen /\ gen.open /\ state.eof \in BOOLEAN
      /\ queue \in Seq(Nat) /\ input \in Seq(Nat) /\ out \in Seq(Nat)
      /\ pos \in 0..Len(input)
  BY DEF IInv, TypeOK, State, ReadEnd
<1>2. /\ f.ctx \in Ctx /\ Len(f.ctx.buf) <= f.ctx.block
      /\ f.out \in Seq(Nat) /\ f.ctx.finals = state.ctx.finals + 1
  BY <1>1, FinalizeType
<1>3. tail \in Seq(Nat)
  BY <1>2, EmptySeq
<1>4. /\ state' = IF state.eof THEN state ELSE InputEof(f)
      /\ out' = out \o tail
      /\ gen' = [gen EXCEPT !.eof = @ \/ tail = <<>>]
      /\ UNCHANGED <<queue, input, pos>>
  BY DEF ReadEnd, LastBlock
<1>5. state.life = "live"
  BY <1>1 DEF IInv, Once
<1> HIDE DEF f, tail
<1>6. /\ gen' \in Gen /\ gen'.open = gen.open /\ gen'.flush = gen.flush /\ gen'.bg = gen.bg
      /\ gen'.again = gen.again
  BY <1>1, <1>4 DEF Gen
<1>7. out' \in Seq(Nat)
  BY <1>1, <1>3, <1>4, ConcatProperties
<1>8. /\ state' \in State /\ Len(state'.ctx.buf) <= state'.ctx.block
      /\ state'.life = "live" /\ state'.eof /\ state'.ctx.finals = 1
  <2>1. CASE state.eof
    BY <1>1, <1>4, <1>5, <2>1 DEF IInv, Once
  <2>2. CASE ~state.eof
    <3>1. state' = [state EXCEPT !.ctx = f.ctx, !.eof = TRUE]
      BY <1>4, <2>2 DEF InputEof
    <3>2. /\ state' \in State /\ state'.ctx = f.ctx /\ state'.life = state.life /\ state'.eof
      BY <1>1, <1>2, <3>1 DEF State
    <3>3. state.ctx.finals = 0
      BY <1>5, <2>2 DEF IInv, Once
    <3>4. QED
      BY <1>2, <1>5, <3>2, <3>3
  <2>3. QED
    BY <2>1, <2>2
<1>9. TypeOK'
  BY <1>1, <1>4, <1>6, <1>7, <1>8 DEF TypeOK
<1>10. Once'
  BY <1>1, <1>4, <1>6, <1>8 DEF IInv, Once
<1>11. queue = <<>> /\ ~gen.again
  BY <1>1 DEF IInv, Kept, ReadEnd
<1>12. Kept'
  <2>1. queue' = <<>> /\ ~gen'.again /\ state'.ctx.finals # 0
    BY <1>4, <1>6, <1>8, <1>11
  <2>2. QED
    BY <2>1 DEF Kept
<1>13. QED
  BY <1>9, <1>10, <1>12 DEF IInv

\* A close that reaches the driver, from the script or after the last flush.
LEMMA CloseStep ==
    ASSUME IInv, CloseDriver, state.life = "live", queue = <<>>,
           gen' \in Gen, ~gen'.open, ~gen'.flush, ~gen'.bg, gen'.again = gen.again,
           UNCHANGED <<queue, input, pos>>
    PROVE  IInv'
<1>1. /\ state' \in State /\ Len(state'.ctx.buf) <= state'.ctx.block
      /\ out' \in Seq(Nat)
      /\ state'.life # "live" /\ state'.ctx.finals = 1 /\ state'.mode = state.mode
  BY CloseDriverStep DEF IInv
<1>2. TypeOK'
  BY <1>1 DEF IInv, TypeOK
<1>3. Once'
  BY <1>1 DEF Once
<1>4. Kept'
  BY <1>1 DEF IInv, Kept
<1>5. QED
  BY <1>2, <1>3, <1>4 DEF IInv

\* Whatever step is taken, the invariant is kept.
LEMMA StepEncrypt == IInv /\ [Next]_vars => IInv'
<1> SUFFICES ASSUME IInv, [Next]_vars PROVE IInv'
  OBVIOUS
<1>1. /\ state \in State /\ Len(state.ctx.buf) <= state.ctx.block /\ gen \in Gen
      /\ queue \in Seq(Nat) /\ input \in Seq(Nat) /\ out \in Seq(Nat)
      /\ pos \in 0..Len(input) /\ Len(input) \in Nat
  BY LenProperties DEF IInv, TypeOK
<1>2. gen.open \/ gen.flush \/ gen.bg => state.life = "live"
  BY <1>1 DEF IInv, Once
<1>3. CASE Write
  <2>1. PICK n \in WriteSizes :
          /\ pos + n <= Len(input)
          /\ queue' = queue \o SubSeq(input, pos + 1, pos + n)
          /\ pos' = pos + n
    BY <1>3 DEF Write
  <2>2. UNCHANGED <<state, gen, input, out>> /\ state.mode = "w" /\ gen.open
    BY <1>3 DEF Write
  <2>3. n \in Nat /\ n > 0
    BY EncryptAssumption
  <2> DEFINE piece == SubSeq(input, pos + 1, pos + n)
  <2>4. piece \in Seq(Nat) /\ Len(piece) > 0
    <3>1. \A i \in (pos + 1)..(pos + n) : input[i] \in Nat
      BY <1>1, <2>1, <2>3, ElementOfSeq
    <3>2. QED
      BY <1>1, <2>1, <2>3, <3>1, SubSeqProperties
  <2>5. queue' = queue \o piece
    BY <2>1
  <2> HIDE DEF piece
  <2>6. queue' \in Seq(Nat) /\ queue' # <<>>
    <3>1. queue \o piece \in Seq(Nat) /\ Len(queue \o piece) = Len(queue) + Len(piece)
      BY <1>1, <2>4, ConcatProperties
    <3>2. Len(queue) \in Nat /\ Len(piece) \in Nat
      BY <1>1, <2>4, LenProperties
    <3>3. Len(queue \o piece) # 0
      BY <2>4, <3>1, <3>2
    <3>4. QED
      BY <2>5, <3>1, <3>3, EmptySeq
  <2>7. TypeOK'
    BY <1>1, <2>1, <2>2, <2>3, <2>6 DEF TypeOK
  <2>8. Once'
    BY <2>2, <2>6 DEF IInv, Once
  <2>9. ASSUME Lossless', state'.ctx.finals = 0
        PROVE  (out' \o state'.ctx.buf) \o queue' = Given'
    <3>1. (out \o state.ctx.buf) \o queue = Given
      BY <2>2, <2>9 DEF IInv, Kept, Lossless
    <3>2. out \o state.ctx.buf \in Seq(Nat)
      BY <1>1, ConcatProperties DEF State, Ctx
    <3>3. (out \o state.ctx.buf) \o (queue \o piece) = ((out \o state.ctx.buf) \o queue) \o piece
      BY <1>1, <2>4, <3>2, MessageAssociative
    <3>4. Given \o piece = SubSeq(input, 1, pos + n)
      BY <1>1, <2>1, <2>3, PieceType DEF Given, piece
    <3>5. Given' = SubSeq(input, 1, pos + n)
      BY <2>1, <2>2 DEF Given
    <3>6. QED
      BY <2>2, <2>5, <3>1, <3>3, <3>4, <3>5
  <2>10. Kept'
    BY <2>2, <2>9 DEF Kept
  <2>11. QED
    BY <2>7, <2>8, <2>10 DEF IInv
<1>4. CASE Flush
  <2>1. /\ gen' = [gen EXCEPT !.flush = TRUE] /\ gen.open
        /\ UNCHANGED <<state, queue, input, pos, out>>
    BY <1>4 DEF Flush
  <2>2. gen' \in Gen /\ gen'.flush /\ gen'.again = gen.again
    BY <1>1, <2>1 DEF Gen
  <2>3. QED
    BY <1>1, <1>2, <2>1, <2>2 DEF IInv, TypeOK, Once, Kept, Lossless, Given
<1>5. CASE Close
  <2>1. gen.open /\ ~gen.flush /\ UNCHANGED <<queue, input, pos>> /\ state.life = "live"
    BY <1>2, <1>5 DEF Close
  <2>2. CASE queue = <<>>
    <3>1. gen' = [gen EXCEPT !.open = FALSE] /\ CloseDriver
      BY <1>5, <2>2 DEF Close
    <3>2. ~gen.bg
      BY <1>1, <2>1, <2>2 DEF IInv, Once
    <3>3. gen' \in Gen /\ ~gen'.open /\ ~gen'.flush /\ ~gen'.bg /\ gen'.again = gen.again
      BY <1>1, <2>1, <3>1, <3>2 DEF Gen
    <3>4. QED
      BY <2>1, <2>2, <3>1, <3>3, CloseStep
  <2>3. CASE queue # <<>>
    <3>1. gen' = [gen EXCEPT !.open = FALSE, !.flush = ~gen.bg] /\ UNCHANGED <<state, out>>
      BY <1>5, <2>3 DEF Close
    <3>2. gen' \in Gen /\ gen'.again = gen.again
      BY <1>1, <3>1 DEF Gen
    <3>3. QED
      BY <1>1, <2>1, <2>3, <3>1, <3>2 DEF IInv, TypeOK, Once, Kept, Lossless, Given
  <2>4. QED
    BY <2>2, <2>3
<1>6. CASE FlushChannel
  BY <1>6, FlushStep
<1>7. CASE FlushDone
  <2>1. /\ gen.flush /\ queue = <<>> /\ state.life = "live"
        /\ gen' = [gen EXCEPT !.flush = FALSE, !.bg = FALSE]
        /\ UNCHANGED <<queue, input, pos>>
    BY <1>2, <1>7 DEF FlushDone
  <2>2. gen' \in Gen /\ ~gen'.flush /\ ~gen'.bg /\ gen'.open = gen.open /\ gen'.again = gen.again
    BY <1>1, <2>1 DEF Gen
  <2>3. CASE gen.open
    <3>1. UNCHANGED <<state, out>>
      BY <1>7, <2>3 DEF FlushDone
    <3>2. QED
      BY <1>1, <2>1, <2>2, <3>1 DEF IInv, TypeOK, Once, Kept, Lossless, Given
  <2>4. CASE ~gen.open
    <3>1. CloseDriver
      BY <1>7, <2>4 DEF FlushDone
    <3>2. QED
      BY <2>1, <2>2, <2>4, <3>1, CloseStep
  <2>5. QED
    BY <2>3, <2>4
<1>8. CASE AsyncFlush
  <2>1. /\ gen' = [gen EXCEPT !.flush = TRUE] /\ gen.bg
        /\ UNCHANGED <<state, queue, input, pos, out>>
    BY <1>8 DEF AsyncFlush
  <2>2. gen' \in Gen /\ gen'.flush /\ gen'.again = gen.again
    BY <1>1, <2>1 DEF Gen
  <2>3. QED
    BY <1>1, <1>2, <2>1, <2>2 DEF IInv, TypeOK, Once, Kept, Lossless, Given
<1>9. CASE ReadData
  BY <1>9, ReadDataStep
<1>10. CASE ReadEnd
  BY <1>10, ReadEndStep
<1>11. CASE UNCHANGED vars
  BY <1>11 DEF vars, IInv, TypeOK, Once, Kept, Lossless, Given
<1>12. QED
  BY <1>3, <1>4, <1>5, <1>6, <1>7, <1>8, <1>9, <1>10, <1>11 DEF Next

\* The variables of the stacked channel keep their types, and a context never keeps more
\* than a block, which is what EncryptFinalize writes at most for EncryptCloseProc and
\* EncryptInputProc.
THEOREM TypeCorrect == Spec => []TypeOK
<1>1. IInv => TypeOK
  BY DEF IInv
<1>2. QED
  BY InitEncrypt, StepEncrypt, <1>1, PTL DEF Spec

\* A context is finalised once at most, by the EOF branch of EncryptInputProc or
\* by EncryptCloseProc, in whatever order the script reads and closes.
THEOREM ContextFinalisedOnce == Spec => []FinalisedOnce
<1>1. IInv => FinalisedOnce
  BY DEF IInv, Once, FinalisedOnce
<1>2. QED
  BY InitEncrypt, StepEncrypt, <1>1, PTL DEF Spec

\* A channel that is read, or that writes to a channel taking everything, loses no
\* unit and repeats none until it is finalised or EncryptOutputProc answers EAGAIN:
\* the other end has them, or the context or the queue keeps them, in their order.
THEOREM UnitsConserved == Spec => [](state.mode = "r" \/ Reliable => Conserved)
<1>1. IInv => (state.mode = "r" \/ Reliable => Conserved)
  BY DEF IInv, Kept, Lossless, Conserved, Whole
<1>2. QED
  BY InitEncrypt, StepEncrypt, <1>1, PTL DEF Spec

-----------------------------------------------------------------------------
(* The message as a whole.                                                 *)

\* As long as nothing is lost, and until it is finalised, the units at the other end
\* end at a block boundary.
Boundary == Lossless /\ state.ctx.finals = 0 => Aligned(state.ctx, Len(out))

\* Where there is padding to be taken off, it is at the end of the message.
CipherText == Late(state.ctx) => PaddedAtEnd(state.ctx.block, input)

\* CHAN_EOF of a channel that is not closed yet was set by a read at the end of the
\* channel below, after which no data come, and without it the script saw no EOF.
EofRead ==
    /\ gen.eof => state.eof /\ state.mode = "r"
    /\ state.life = "live" /\ state.eof => state.mode = "r" /\ pos = Len(input)

\* The last block was handed on: by the close of a written channel, or by the read
\* that set CHAN_EOF, and the EOF the script then gets.
Finished ==
    IF state.mode = "w" THEN state.life # "live"
    ELSE gen.eof \/ (state.life = "live" /\ state.eof)

Passed ==
    Lossless /\ Finished /\ Valid(state.ctx, Given) => out = Transform(state.ctx, Given)

Ended == Boundary /\ CipherText /\ EofRead /\ Passed

\* A new channel is at the beginning of its message.
LEMMA InitEnded == Init => Ended
<1> SUFFICES ASSUME Init PROVE Ended
  OBVIOUS
<1>1. PICK mode \in ChannelModes, type \in Types, block \in Blocks, padding \in BOOLEAN :
        /\ state = EncryptStateNew(mode, NewCtx(type, block, padding))
        /\ input \in Messages(state.ctx, MaxUnits)
  BY DEF Init
<1>2. /\ state.life = "live" /\ ~state.eof /\ state.ctx.buf = <<>> /\ out = <<>> /\ ~gen.eof
  BY <1>1 DEF Init, EncryptStateNew, NewCtx
<1>3. state.ctx \in Ctx /\ Len(<<>>) = 0
  BY InitEncrypt, EmptySeq DEF IInv, TypeOK, State
<1>4. Aligned(state.ctx, Len(out))
  BY <1>2, <1>3, FreshAligned
<1>5. CipherText
  BY <1>1, <1>3, EncryptAssumption, MessagesPadded DEF CipherText
<1>6. QED
  BY <1>2, <1>4, <1>5 DEF Ended, Boundary, EofRead, Passed, Finished

\* An update with all of the data, whose result is handed on, keeps to the blocks.
LEMMA UpdateEnded ==
    ASSUME IInv, CipherText, NEW data \in Seq(Nat),
           state' = [state EXCEPT !.ctx = EncryptUpdate(state.ctx, data).ctx],
           UNCHANGED input
    PROVE  /\ CipherText'
           /\ Boundary /\ Lossless /\ state.ctx.finals = 0
                 /\ out' = out \o EncryptUpdate(state.ctx, data).out
              => Aligned(state'.ctx, Len(out'))
<1> DEFINE u == EncryptUpdate(state.ctx, data)
<1>1. state \in State /\ state.ctx \in Ctx /\ out \in Seq(Nat) /\ Len(out) \in Nat
  BY LenProperties DEF IInv, TypeOK, State
<1>2. /\ u.ctx \in Ctx /\ u.ctx.block = state.ctx.block /\ u.out \in Seq(Nat)
  BY <1>1, UpdateConserves
<1>3. u.ctx.type = state.ctx.type /\ u.ctx.padding = state.ctx.padding
  <2>1. \E kept : u.ctx = [state.ctx EXCEPT !.buf = kept]
    BY DEF EncryptUpdate
  <2> HIDE DEF u
  <2>2. QED
    BY <1>1, <2>1 DEF Ctx
<1>4. Aligned(state.ctx, Len(out)) => Aligned(u.ctx, Len(out) + Len(u.out))
  BY <1>1, UpdateAligned
<1>5. state'.ctx = u.ctx
  BY <1>1 DEF State
<1> HIDE DEF u
<1>6. Late(u.ctx) = Late(state.ctx)
  BY <1>2, <1>3, SameMessage
<1>7. CipherText'
  BY <1>2, <1>5, <1>6 DEF CipherText
<1>8. Len(out \o u.out) = Len(out) + Len(u.out)
  BY <1>1, <1>2, ConcatProperties
<1>9. QED
  BY <1>4, <1>5, <1>7, <1>8 DEF Boundary, u

\* What is finalised after all that was given completes the message.
LEMMA FinalizeEnded ==
    ASSUME IInv, Boundary, CipherText, Lossless, state.ctx.finals = 0, queue = <<>>
    PROVE  LET f == EncryptFinalize(state.ctx)
           IN  Valid(f.ctx, Given) => out \o f.out = Transform(f.ctx, Given)
<1>1. /\ state.ctx \in Ctx /\ state.ctx.buf \in Seq(Nat) /\ state.ctx.block \in Nat
      /\ out \in Seq(Nat) /\ input \in Seq(Nat) /\ pos \in 0..Len(input)
  BY DEF IInv, TypeOK, State, Ctx
<1>2. out \o state.ctx.buf = Given
  <2>1. (out \o state.ctx.buf) \o <<>> = out \o state.ctx.buf
    BY <1>1, ConcatProperties, ConcatEmptySeq
  <2>2. QED
    BY <2>1 DEF IInv, Kept
<1>3. Late(state.ctx) => PaddedAtEnd(state.ctx.block, out \o state.ctx.buf)
  BY <1>1, <1>2, PaddedPrefix DEF CipherText, Given
<1>4. QED
  BY <1>1, <1>2, <1>3, FinalizeCompletes DEF Boundary

\* EncryptFinalize leaves the kind of the context alone.
LEMMA FinalizeSame ==
    ASSUME TypeOK, CipherText, UNCHANGED input,
           state'.ctx = EncryptFinalize(state.ctx).ctx \/ state'.ctx = state.ctx
    PROVE  CipherText'
<1> DEFINE f == EncryptFinalize(state.ctx)
           rest == IF f.ok THEN <<>> ELSE state.ctx.buf
<1>1. state.ctx \in Ctx
  BY DEF TypeOK, State
<1>2. f.ctx = [state.ctx EXCEPT !.buf = rest, !.finals = state.ctx.finals + 1]
  BY <1>1 DEF EncryptFinalize, Ctx
<1> HIDE DEF f, rest
<1>3. f.ctx.type = state.ctx.type /\ f.ctx.block = state.ctx.block
      /\ f.ctx.padding = state.ctx.padding
  BY <1>1, <1>2 DEF Ctx
<1>4. /\ state'.ctx.type = state.ctx.type /\ state'.ctx.block = state.ctx.block
      /\ state'.ctx.padding = state.ctx.padding
  BY <1>3 DEF f
<1>5. Late(state'.ctx) = Late(state.ctx)
  BY <1>4, SameMessage
<1>6. QED
  BY <1>4, <1>5 DEF CipherText

\* FlushChannel offers the queue of a written channel, which is not closed yet.
LEMMA FlushEnded == IInv /\ IInv' /\ Ended /\ FlushChannel => Ended'
<1> SUFFICES ASSUME IInv, IInv', Ended, FlushChannel PROVE Ended'
  OBVIOUS
<1> DEFINE u == EncryptUpdate(state.ctx, queue)
<1>1. /\ state \in State /\ state.ctx \in Ctx /\ gen \in Gen /\ gen.flush /\ queue # <<>>
      /\ queue \in Seq(Nat) /\ out \in Seq(Nat) /\ state.life = "live"
      /\ state.mode = "w" /\ u.ctx.finals = state.ctx.finals /\ u.out \in Seq(Nat)
  <2>1. /\ state \in State /\ state.ctx \in Ctx /\ gen \in Gen /\ gen.flush /\ queue # <<>>
        /\ queue \in Seq(Nat) /\ out \in Seq(Nat)
    BY DEF IInv, TypeOK, State, FlushChannel
  <2>2. state.life = "live" /\ state.mode = "w"
    BY <2>1 DEF IInv, Once, Kept, State
  <2>3. u.ctx.finals = state.ctx.finals /\ u.out \in Seq(Nat)
    BY <2>1, UpdateConserves
  <2>4. QED
    BY <2>1, <2>2, <2>3
<1>2. /\ state' = [state EXCEPT !.ctx = u.ctx] /\ UNCHANGED <<input, pos>>
      /\ \/ gen' = [gen EXCEPT !.flush = FALSE, !.bg = TRUE, !.again = TRUE]
         \/ /\ UNCHANGED gen
            /\ \E cells \in Accepted(u.out) : out' = out \o cells
  BY DEF FlushChannel, EncryptOutputProc
<1>3. /\ CipherText'
      /\ Lossless /\ state.ctx.finals = 0 /\ out' = out \o u.out
           => Aligned(state'.ctx, Len(out'))
  BY <1>1, <1>2, UpdateEnded DEF Ended
<1> HIDE DEF u
<1>4. /\ state'.ctx = u.ctx /\ state'.life = "live" /\ state'.mode = "w"
      /\ state'.eof = state.eof /\ gen'.eof = gen.eof
  BY <1>1, <1>2 DEF State, Gen
<1>5. ASSUME Lossless', state'.ctx.finals = 0
      PROVE  Aligned(state'.ctx, Len(out'))
  <2>1. Reliable /\ ~gen'.again
    BY <1>4, <1>5 DEF Lossless
  <2>2. UNCHANGED gen /\ \E cells \in Accepted(u.out) : out' = out \o cells
    BY <1>1, <1>2, <2>1 DEF Gen
  <2>3. PICK cells \in Accepted(u.out) : out' = out \o cells
    BY <2>2
  <2>4. cells = SubSeq(u.out, 1, Len(u.out))
    BY <2>1 DEF Accepted
  <2>5. out' = out \o u.out
    BY <1>1, <2>3, <2>4, SubSeqFull
  <2>6. QED
    BY <1>1, <1>3, <1>4, <1>5, <2>1, <2>2, <2>5 DEF Lossless
<1>6. EofRead' /\ Passed'
  BY <1>1, <1>2, <1>4 DEF Ended, EofRead, Passed, Finished
<1>7. QED
  BY <1>3, <1>5, <1>6 DEF Ended, Boundary

\* EncryptInputProc with data: CHAN_EOF is not set, since the message goes on.
LEMMA ReadDataEnded == IInv /\ IInv' /\ Ended /\ ReadData => Ended'
<1> SUFFICES ASSUME IInv, IInv', Ended, ReadData PROVE Ended'
  OBVIOUS
<1>1. /\ state \in State /\ state.ctx \in Ctx /\ gen.open /\ state.life = "live"
      /\ input \in Seq(Nat) /\ pos \in 0..Len(input) /\ Len(input) \in Nat
      /\ state.mode = "r" /\ UNCHANGED <<gen, queue, input>>
  BY LenProperties DEF IInv, TypeOK, State, Once, ReadData
<1>2. PICK n \in ReadSizes :
        /\ pos + n <= Len(input)
        /\ \E u \in {EncryptUpdate(state.ctx, SubSeq(input, pos + 1, pos + n))} :
             state' = [state EXCEPT !.ctx = u.ctx] /\ out' = out \o u.out
  BY DEF ReadData
<1> DEFINE data == SubSeq(input, pos + 1, pos + n)
           u == EncryptUpdate(state.ctx, data)
<1>3. n \in Nat /\ n > 0
  BY EncryptAssumption
<1>4. data \in Seq(Nat)
  BY <1>1, <1>2, <1>3, PieceType
<1>5. state' = [state EXCEPT !.ctx = u.ctx] /\ out' = out \o u.out
  BY <1>2
<1>6. u.ctx.finals = state.ctx.finals
  BY <1>1, <1>4, UpdateConserves
<1>7. /\ CipherText'
      /\ Lossless /\ state.ctx.finals = 0 => Aligned(state'.ctx, Len(out'))
  BY <1>1, <1>4, <1>5, UpdateEnded DEF Ended
<1> HIDE DEF u, data
<1>8. /\ state'.ctx = u.ctx /\ state'.life = "live" /\ state'.mode = "r"
      /\ state'.eof = state.eof
  BY <1>1, <1>5 DEF State
<1>9. ~state.eof /\ ~gen.eof
  BY <1>1, <1>2, <1>3 DEF Ended, EofRead
<1>10. EofRead' /\ Passed'
  BY <1>1, <1>8, <1>9 DEF EofRead, Passed, Finished
<1>11. Boundary'
  BY <1>1, <1>6, <1>7, <1>8 DEF Boundary, Lossless
<1>12. QED
  BY <1>7, <1>10, <1>11 DEF Ended

\* EncryptInputProc at the end of the channel below: the last block comes before the
\* EOF.
LEMMA ReadEndEnded == IInv /\ IInv' /\ Ended /\ ReadEnd => Ended'
<1> SUFFICES ASSUME IInv, IInv', Ended, ReadEnd PROVE Ended'
  OBVIOUS
<1> DEFINE f == EncryptFinalize(state.ctx)
           tail == IF state.eof THEN <<>> ELSE f.out
<1>1. /\ state \in State /\ state.ctx \in Ctx /\ gen \in Gen /\ gen.open /\ state.life = "live"
      /\ out \in Seq(Nat) /\ state.mode = "r" /\ pos = Len(input) /\ state.eof \in BOOLEAN
      /\ queue = <<>> /\ ~gen.again /\ Lossless
  BY DEF IInv, TypeOK, State, Once, Kept, ReadEnd, Lossless
<1>2. /\ state' = IF state.eof THEN state ELSE InputEof(f)
      /\ out' = out \o tail
      /\ gen' = [gen EXCEPT !.eof = @ \/ tail = <<>>]
      /\ UNCHANGED <<queue, input, pos>>
  BY DEF ReadEnd, LastBlock
<1>3. Given' = Given
  BY <1>2 DEF Given
<1>4. CASE state.eof
  <2>1. state' = state /\ out' = out
    BY <1>1, <1>2, <1>4, ConcatEmptySeq
  <2>2. state.ctx.finals = 1
    BY <1>4 DEF IInv, Once
  <2>3. EofRead' /\ Boundary' /\ CipherText'
    BY <1>1, <1>2, <1>4, <2>1, <2>2 DEF Ended, EofRead, Boundary, CipherText
  <2>4. Passed'
    BY <1>1, <1>3, <1>4, <2>1 DEF Ended, Passed, Finished
  <2>5. QED
    BY <2>3, <2>4 DEF Ended
<1>5. CASE ~state.eof
  <2>1. state.ctx.finals = 0
    BY <1>1, <1>5 DEF IInv, Once
  <2>2. Valid(f.ctx, Given) => out \o f.out = Transform(f.ctx, Given)
    BY <1>1, <2>1, FinalizeEnded DEF Ended
  <2>3. state' = [state EXCEPT !.ctx = f.ctx, !.eof = TRUE] /\ out' = out \o f.out
    BY <1>2, <1>5 DEF InputEof
  <2>4. f.ctx.finals = 1
    <3>1. Len(state.ctx.buf) <= state.ctx.block /\ state.ctx \in Ctx
      BY DEF IInv, TypeOK, State
    <3>2. f.ctx.finals = state.ctx.finals + 1
      BY <3>1, FinalizeType
    <3> HIDE DEF f
    <3>3. QED
      BY <2>1, <3>2
  <2> HIDE DEF f
  <2>5. state'.ctx = f.ctx /\ state'.eof /\ state'.life = "live" /\ state'.mode = "r"
    BY <1>1, <2>3 DEF State
  <2>6. CipherText'
    BY <1>2, <2>5, FinalizeSame DEF IInv, Ended, f
  <2>7. EofRead' /\ Boundary'
    BY <1>1, <1>2, <2>4, <2>5 DEF EofRead, Boundary
  <2>8. Passed'
    BY <1>3, <2>2, <2>3, <2>5 DEF Passed
  <2>9. QED
    BY <2>6, <2>7, <2>8 DEF Ended
<1>6. QED
  BY <1>1, <1>4, <1>5

\* EncryptCloseProc hands on the last block of a written channel; a read channel that
\* reported its EOF has none left.
LEMMA CloseEnded ==
    ASSUME IInv, IInv', Ended, CloseDriver, state.life = "live", queue = <<>>,
           gen'.eof = gen.eof, gen'.again = gen.again, UNCHANGED <<queue, input, pos>>
    PROVE  Ended'
<1> DEFINE f == EncryptFinalize(state.ctx)
           tail == IF state.eof THEN <<>> ELSE f.out
<1>1. /\ state \in State /\ state.ctx \in Ctx /\ out \in Seq(Nat) /\ state.eof \in BOOLEAN
      /\ state.mode \in {"r", "w"}
  BY DEF IInv, TypeOK, State
<1>2. state'.life # "live" /\ state'.ctx.finals = 1 /\ state'.mode = state.mode
  BY CloseDriverStep DEF IInv
<1>3. \/ /\ state' = EncryptCloseProc(f, TRUE)
         /\ \E cells \in Accepted(tail) : out' = out \o cells
      \/ /\ tail # <<>> /\ (state.mode = "w" => ~Reliable)
         /\ state' = EncryptCloseProc(f, FALSE)
  BY DEF CloseDriver, LastBlock
<1>4. Given' = Given /\ Lossless' = Lossless
  BY <1>2 DEF Given, Lossless
<1>5. f.out \in Seq(Nat)
  BY <1>1, FinalizeType DEF IInv, TypeOK
<1>6. CASE state.eof
  <2>1. state' = [state EXCEPT !.life = "freed"]
    BY <1>3, <1>6 DEF EncryptCloseProc
  <2>2. state'.ctx = state.ctx /\ state'.eof
    BY <1>1, <1>6, <2>1 DEF State
  <2>3. out' = out
    <3>1. PICK cells \in Accepted(<<>>) : out' = out \o cells
      BY <1>3, <1>6
    <3>2. cells = <<>>
      <4>1. Len(<<>>) = 0 /\ <<>> \in Seq(Nat)
        BY EmptySeq
      <4>2. PICK k \in 0..0 : cells = SubSeq(<<>>, 1, k)
        BY <4>1 DEF Accepted
      <4>3. k = 0 /\ 0 < 1 /\ 0 \in Int /\ 1 \in Int
        OBVIOUS
      <4>4. QED
        BY <4>2, <4>3, SubSeqEmpty
    <3>3. QED
      BY <1>1, <3>1, <3>2, ConcatEmptySeq
  <2>4. state.mode = "r"
    BY <1>6 DEF Ended, EofRead
  <2>5. CipherText'
    BY <2>2, FinalizeSame DEF IInv, Ended
  <2>6. Passed'
    BY <1>2, <1>4, <1>6, <2>2, <2>3, <2>4 DEF Ended, Passed, Finished
  <2>7. EofRead' /\ Boundary'
    BY <1>2, <2>2, <2>4 DEF EofRead, Boundary
  <2>8. QED
    BY <2>5, <2>6, <2>7 DEF Ended
<1>7. CASE ~state.eof
  <2>1. state.ctx.finals = 0 /\ ~gen.eof
    BY <1>7 DEF IInv, Once, Ended, EofRead
  <2>2. \/ state' = [state EXCEPT !.ctx = f.ctx, !.life = "kept"]
        \/ state' = [state EXCEPT !.ctx = f.ctx, !.eof = TRUE, !.life = "freed"]
    BY <1>3, <1>7 DEF EncryptCloseProc
  <2>3. Lossless => (Valid(f.ctx, Given) => out \o f.out = Transform(f.ctx, Given))
    BY <2>1, FinalizeEnded DEF Ended
  <2>4. state.mode = "w" /\ Reliable => out' = out \o f.out
    <3>1. SUFFICES ASSUME state.mode = "w", Reliable PROVE out' = out \o f.out
      OBVIOUS
    <3>2. PICK cells \in Accepted(f.out) : out' = out \o cells
      BY <1>3, <1>7, <3>1
    <3>3. cells = SubSeq(f.out, 1, Len(f.out))
      BY <3>1 DEF Accepted
    <3>4. QED
      BY <1>5, <3>2, <3>3, SubSeqFull
  <2> HIDE DEF f
  <2>5. state'.ctx = f.ctx
    BY <1>1, <2>2 DEF State
  <2>6. CipherText'
    BY <2>5, FinalizeSame DEF IInv, Ended, f
  <2>7. Passed'
    BY <1>1, <1>2, <1>4, <2>1, <2>3, <2>4, <2>5 DEF Passed, Finished, Lossless
  <2>8. EofRead' /\ Boundary'
    BY <1>2, <2>1 DEF EofRead, Boundary
  <2>9. QED
    BY <2>6, <2>7, <2>8 DEF Ended
<1>8. QED
  BY <1>1, <1>6, <1>7

\* Whatever step is taken, the message stays whole.
LEMMA StepEnded == IInv /\ IInv' /\ Ended /\ [Next]_vars => Ended'
<1> SUFFICES ASSUME IInv, IInv', Ended, [Next]_vars PROVE Ended'
  OBVIOUS
<1>1. gen \in Gen /\ (gen.open \/ gen.flush \/ gen.bg => state.life = "live")
  BY DEF IInv, TypeOK, Once
<1>2. ASSUME UNCHANGED <<state, out, input>>, gen'.eof = gen.eof, gen'.again = gen.again,
             pos' = pos \/ (state.mode = "w" /\ state.life = "live")
      PROVE  Ended'
  <2>1. pos' = pos => Given' = Given
    BY <1>2 DEF Given
  <2>2. EofRead'
    BY <1>2 DEF Ended, EofRead
  <2>3. Passed'
    BY <1>2, <2>1 DEF Ended, Passed, Finished, Lossless
  <2>4. QED
    BY <1>2, <2>2, <2>3 DEF Ended, Boundary, CipherText, Lossless
<1>3. CASE Write
  <2>1. UNCHANGED <<state, gen, input, out>> /\ state.mode = "w" /\ gen.open
    BY <1>3 DEF Write
  <2>2. QED
    BY <1>1, <1>2, <2>1
<1>4. CASE Flush
  BY <1>1, <1>2, <1>4 DEF Flush, Gen
<1>5. CASE Close
  <2>1. gen.open /\ UNCHANGED <<queue, input, pos>> /\ state.life = "live"
    BY <1>1, <1>5 DEF Close
  <2>2. gen'.eof = gen.eof /\ gen'.again = gen.again
    BY <1>1, <1>5 DEF Close, Gen
  <2>3. CASE queue = <<>>
    <3>1. CloseDriver
      BY <1>5, <2>3 DEF Close
    <3>2. QED
      BY <2>1, <2>2, <2>3, <3>1, CloseEnded
  <2>4. CASE queue # <<>>
    <3>1. UNCHANGED <<state, out>>
      BY <1>5, <2>4 DEF Close
    <3>2. QED
      BY <1>2, <2>1, <2>2, <3>1
  <2>5. QED
    BY <2>3, <2>4
<1>6. CASE FlushChannel
  BY <1>6, FlushEnded
<1>7. CASE FlushDone
  <2>1. gen.flush /\ UNCHANGED <<queue, input, pos>> /\ state.life = "live" /\ queue = <<>>
    BY <1>1, <1>7 DEF FlushDone
  <2>2. gen'.eof = gen.eof /\ gen'.again = gen.again
    BY <1>1, <1>7 DEF FlushDone, Gen
  <2>3. CASE gen.open
    <3>1. UNCHANGED <<state, out>>
      BY <1>7, <2>3 DEF FlushDone
    <3>2. QED
      BY <1>2, <2>1, <2>2, <3>1
  <2>4. CASE ~gen.open
    <3>1. CloseDriver
      BY <1>7, <2>4 DEF FlushDone
    <3>2. QED
      BY <2>1, <2>2, <3>1, CloseEnded
  <2>5. QED
    BY <2>3, <2>4
<1>8. CASE AsyncFlush
  BY <1>1, <1>2, <1>8 DEF AsyncFlush, Gen
<1>9. CASE ReadData
  BY <1>9, ReadDataEnded
<1>10. CASE ReadEnd
  BY <1>10, ReadEndEnded
<1>11. CASE UNCHANGED vars
  BY <1>2, <1>11 DEF vars
<1>12. QED
  BY <1>3, <1>4, <1>5, <1>6, <1>7, <1>8, <1>9, <1>10, <1>11 DEF Next

\* When a written channel was closed without an EAGAIN, or a read one reported EOF, the
\* other end has the transform of the whole message: EncryptCloseProc and the EOF branch
\* of EncryptInputProc pass the last block on.  A written channel needs one below that
\* takes all of it, since EncryptOutputProc does not look at what was taken.
THEOREM MessageCompleted == Spec => [](state.mode = "r" \/ Reliable => Complete)
<1>1. IInv /\ Ended => (state.mode = "r" \/ Reliable => Complete)
  <2> SUFFICES ASSUME IInv, Ended, state.mode = "r" \/ Reliable PROVE Complete
    OBVIOUS
  <2>1. state.mode \in {"r", "w"} /\ state.life \in {"live", "freed", "kept"}
    BY DEF IInv, TypeOK, State
  <2>2. gen.eof => state.mode = "r"
    BY DEF Ended, EofRead
  <2>3. QED
    BY <2>1, <2>2 DEF IInv, Kept, Ended, Passed, Finished, Lossless, Complete
<1>2. QED
  BY InitEncrypt, StepEncrypt, InitEnded, StepEnded, <1>1, PTL DEF Spec

=============================================================================
