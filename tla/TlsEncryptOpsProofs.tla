------------------------ MODULE TlsEncryptOpsProofs ------------------------
(***************************************************************************)
(* Theorems about the encryption commands without a stacked channel, for   *)
(* every block size, message and way to cut it into pieces.                *)
(***************************************************************************)
EXTENDS TlsEncryptOps, TlsCipherProofs

\* The context has made `made' of what it was given so far, up to a block boundary.  That
\* is what was handed out, unless the file took less of it.
MadeOf(made) ==
    /\ made \o ctx.buf = Given /\ Aligned(ctx, Len(made))
    /\ IF short THEN Len(out) < Len(made) ELSE out = made

Conserved == phase = "run" => \E made \in Seq(Nat) : MadeOf(made)

\* Where there is padding to be taken off, it is at the end of the message.
CipherText == Late(ctx) => PaddedAtEnd(ctx.block, input)

\* EncryptDataHandler finds the context as it was made.
Untouched == via = "data" /\ phase = "run" => ctx.buf = <<>>

\* What is to be encrypted has no padding in it.
ClearInput == ctx.type = "encrypt" => \A i \in 1..Len(input) : input[i] # Pad

\* The invariant that carries over from step to step.
IInv == TypeOK /\ Conserved /\ CipherText /\ Untouched /\ WholeMessage

\* The commands start with a fresh context and nothing given to it.
LEMMA InitOps == Init => IInv
<1> SUFFICES ASSUME Init PROVE IInv
  OBVIOUS
<1>1. ctx \in Ctx /\ ctx.buf = <<>> /\ ctx.block \in Nat
  BY OpsAssumption, EmptySeq DEF Init, NewCtx, Ctx, Types
<1>2. input \in Seq(Nat)
  BY <1>1, OpsAssumption, MessagesType DEF Init
<1>3. Len(input) \in Nat /\ <<>> \in Seq(Nat) /\ Len(<<>>) = 0
  BY <1>2, LenProperties, EmptySeq
<1>4. Given = <<>>
  BY <1>2, SubSeqEmpty DEF Given, Init
<1>5. TypeOK
  <2>1. via \in Ways /\ pos = 0 /\ out = <<>> /\ phase = "run" /\ short = FALSE
    BY DEF Init
  <2>2. 0 <= ctx.block /\ Len(ctx.buf) = 0
    BY <1>1, <1>3
  <2>3. short \in BOOLEAN /\ ~short
    BY <2>1
  <2>4. QED
    BY <1>1, <1>2, <1>3, <2>1, <2>2, <2>3 DEF TypeOK, Phases
<1>6. MadeOf(<<>>)
  BY <1>1, <1>3, <1>4, ConcatEmptySeq, FreshAligned DEF Init, MadeOf
<1>7. Conserved
  BY <1>3, <1>6 DEF Conserved
<1>8. CipherText
  BY <1>1, OpsAssumption, MessagesPadded DEF CipherText, Init
<1>9. WholeMessage /\ Untouched
  BY <1>1 DEF Init, WholeMessage, Untouched
<1>10. QED
  BY <1>5, <1>7, <1>8, <1>9 DEF IInv

\* The messages that are cipher text stay so, however much of them was given.
LEMMA GivenPadded ==
    ASSUME TypeOK, CipherText, Late(ctx)
    PROVE  PaddedAtEnd(ctx.block, Given)
<1>1. ctx.block \in Nat /\ input \in Seq(Nat) /\ pos \in 0..Len(input)
  BY DEF TypeOK, Ctx
<1>2. QED
  BY <1>1, PaddedPrefix DEF CipherText, Given

\* What is handed out is a beginning of the data, and if it is not all of it short tells.
LEMMA HandOutFacts ==
    ASSUME NEW data \in Seq(Nat), NEW made \in Seq(Nat), TypeOK, HandOut(data),
           IF short THEN Len(out) < Len(made) ELSE out = made
    PROVE  /\ out' \in Seq(Nat) /\ short' \in BOOLEAN /\ (short' => via = "file")
           /\ made \o data \in Seq(Nat) /\ Len(made \o data) = Len(made) + Len(data)
           /\ IF short' THEN Len(out') < Len(made \o data) ELSE out' = made \o data
<1>1. PICK k \in IF via = "file" THEN 0..Len(data) ELSE {Len(data)} :
        out' = out \o SubSeq(data, 1, k) /\ short' = (short \/ k < Len(data))
  BY DEF HandOut
<1>2. /\ out \in Seq(Nat) /\ short \in BOOLEAN /\ (short => via = "file")
      /\ Len(data) \in Nat /\ Len(made) \in Nat /\ Len(out) \in Nat
  BY LenProperties DEF TypeOK
<1>3. k \in 0..Len(data) /\ (k < Len(data) => via = "file")
  BY <1>1, <1>2
<1>4. /\ SubSeq(data, 1, k) \in Seq(Nat) /\ Len(SubSeq(data, 1, k)) = k
      /\ k = Len(data) => SubSeq(data, 1, k) = data
  <2>1. \A i \in 1..k : data[i] \in Nat
    BY <1>2, <1>3, ElementOfSeq
  <2>2. QED
    BY <1>2, <1>3, <2>1, SubSeqProperties, SubSeqFull
<1>5. /\ out' \in Seq(Nat) /\ Len(out') = Len(out) + k
      /\ made \o data \in Seq(Nat) /\ Len(made \o data) = Len(made) + Len(data)
  BY <1>1, <1>2, <1>4, ConcatProperties
<1>6. CASE k = Len(data)
  <2>1. out' = out \o data /\ (short' <=> short) /\ Len(out') = Len(out) + Len(data)
    BY <1>1, <1>2, <1>4, <1>5, <1>6
  <2>2. IF short THEN Len(out') < Len(made \o data) ELSE out' = made \o data
    <3>1. CASE short
      <4>1. Len(out) < Len(made)
        BY <3>1
      <4>2. QED
        BY <1>2, <1>5, <2>1, <3>1, <4>1
    <3>2. CASE ~short
      <4>1. out = made
        BY <3>2
      <4>2. QED
        BY <2>1, <3>2, <4>1
    <3>3. QED
      BY <3>1, <3>2
  <2>3. QED
    BY <1>1, <1>2, <1>5, <2>1, <2>2
<1>7. CASE k # Len(data)
  <2>1. k < Len(data) /\ Len(out) <= Len(made)
    BY <1>2, <1>3, <1>7
  <2>2. short' /\ short' \in BOOLEAN /\ via = "file"
    BY <1>1, <1>3, <2>1
  <2>3. Len(out') < Len(made \o data)
    BY <1>2, <1>3, <1>5, <2>1
  <2>4. QED
    BY <1>5, <2>2, <2>3
<1>8. QED
  BY <1>6, <1>7

\* An update of a command or a file hands on, or keeps, all it was given; a file may not
\* take all that is handed on.
LEMMA UpdateStep ==
    ASSUME IInv, phase = "run", via # "data", NEW n \in Sizes, Update(n)
    PROVE  IInv'
<1>1. /\ ctx \in Ctx /\ input \in Seq(Nat) /\ out \in Seq(Nat) /\ pos \in 0..Len(input)
      /\ via \in Ways /\ phase \in Phases /\ TypeOK
  BY DEF IInv, TypeOK
<1>2. n \in Nat /\ pos + n <= Len(input) /\ Len(input) \in Nat
  BY <1>1, OpsAssumption, LenProperties DEF Update
<1>made. PICK made \in Seq(Nat) : MadeOf(made)
  BY DEF IInv, Conserved
<1> DEFINE data == SubSeq(input, pos + 1, pos + n)
           u == EncryptUpdate(ctx, data)
<1>3. /\ data \in Seq(Nat)
      /\ Given \o data = SubSeq(input, 1, pos + n)
  BY <1>1, <1>2, PieceType DEF Given
<1>4. /\ u.ctx \in Ctx /\ Len(u.ctx.buf) <= ctx.block /\ u.ctx.block = ctx.block
      /\ u.out \in Seq(Nat) /\ u.out \o u.ctx.buf = ctx.buf \o data
  BY <1>1, <1>3, UpdateConserves
<1>5. ctx' = u.ctx /\ HandOut(u.out)
  BY DEF Update
<1>6. pos' = pos + n /\ UNCHANGED <<via, input, phase>>
  BY DEF Update
<1>7. /\ made \o ctx.buf = Given /\ Aligned(ctx, Len(made))
      /\ IF short THEN Len(out) < Len(made) ELSE out = made
  BY <1>made DEF MadeOf
<1> HIDE DEF u, data
<1>8. /\ out' \in Seq(Nat) /\ short' \in BOOLEAN /\ (short' => via = "file")
      /\ made \o u.out \in Seq(Nat) /\ Len(made \o u.out) = Len(made) + Len(u.out)
      /\ IF short' THEN Len(out') < Len(made \o u.out) ELSE out' = made \o u.out
  BY <1>1, <1>4, <1>5, <1>7, <1>made, HandOutFacts
<1>9. TypeOK'
  BY <1>1, <1>2, <1>4, <1>5, <1>6, <1>8 DEF TypeOK
<1>10. (made \o u.out) \o u.ctx.buf = Given \o data
  <2>1. /\ made \in Seq(Nat) /\ ctx.buf \in Seq(Nat) /\ u.out \in Seq(Nat) /\ u.ctx.buf \in Seq(Nat)
    BY <1>1, <1>4 DEF Ctx
  <2>2. (made \o u.out) \o u.ctx.buf = made \o (u.out \o u.ctx.buf)
    BY <2>1, MessageAssociative, ZenonT(30)
  <2>3. made \o (ctx.buf \o data) = (made \o ctx.buf) \o data
    BY <1>3, <2>1, MessageAssociative, ZenonT(30)
  <2>4. QED
    BY <1>4, <1>7, <2>2, <2>3
<1>11. /\ Aligned(u.ctx, Len(made) + Len(u.out))
       /\ u.ctx.type = ctx.type /\ u.ctx.padding = ctx.padding
  <2>1. Len(made) \in Nat
    BY LenProperties
  <2>2. QED
    BY <1>1, <1>3, <1>7, <2>1, UpdateAligned DEF u
<1>12. Conserved'
  <2>1. (made \o u.out) \o ctx'.buf = Given' /\ Aligned(ctx', Len(made \o u.out))
    BY <1>3, <1>5, <1>6, <1>8, <1>10, <1>11 DEF Given
  <2>2. QED
    BY <1>8, <2>1 DEF Conserved, MadeOf
<1>13. CipherText'
  <2>1. Late(ctx') = Late(ctx)
    BY <1>4, <1>5, <1>11, SameMessage
  <2>2. QED
    BY <1>4, <1>5, <1>6, <2>1 DEF IInv, CipherText
<1>14. WholeMessage' /\ Untouched'
  BY <1>6 DEF WholeMessage, Untouched
<1>15. QED
  BY <1>9, <1>12, <1>13, <1>14 DEF IInv

\* EncryptDataHandler: one update with the whole message and one finalisation.
LEMMA DataStep == IInv /\ EncryptDataHandler => IInv'
<1> SUFFICES ASSUME IInv, EncryptDataHandler PROVE IInv'
  OBVIOUS
<1> DEFINE u == EncryptUpdate(ctx, input)
           g == EncryptFinalize(u.ctx)
<1>1. /\ ctx \in Ctx /\ ctx.buf = <<>> /\ input \in Seq(Nat) /\ Len(input) \in Nat
      /\ out \in Seq(Nat) /\ via \in Ways /\ ~short
  BY LenProperties DEF IInv, TypeOK, Untouched, EncryptDataHandler
<1>2. /\ u.ctx \in Ctx /\ Len(u.ctx.buf) <= u.ctx.block /\ u.out \in Seq(Nat)
      /\ g.ctx.type = ctx.type /\ g.ctx.block = ctx.block /\ g.ctx.padding = ctx.padding
      /\ g.ok <=> Valid(ctx, input)
      /\ g.ok => u.out \o g.out = Transform(ctx, input)
  <2>1. Late(ctx) => PaddedAtEnd(ctx.block, input)
    BY DEF IInv, CipherText
  <2>2. QED
    BY <1>1, <2>1, AtOnce
<1> HIDE DEF u
<1>4. /\ g.ctx \in Ctx /\ Len(g.ctx.buf) <= g.ctx.block
      /\ g.ok \in BOOLEAN /\ g.out \in Seq(Nat)
  BY <1>2, FinalizeType
<1>5. /\ Late(g.ctx) = Late(ctx) /\ Valid(g.ctx, input) = Valid(ctx, input)
      /\ Transform(g.ctx, input) = Transform(ctx, input)
  BY <1>2, SameMessage
<1>6. /\ ctx' = g.ctx
      /\ out' = IF g.ok THEN u.out \o g.out ELSE out
      /\ phase' = IF g.ok THEN "ok" ELSE "error"
      /\ pos' = Len(input) /\ UNCHANGED <<via, input, short>>
  BY DEF EncryptDataHandler, Joined, u
<1>7. u.out \o g.out \in Seq(Nat)
  BY <1>2, <1>4, ConcatProperties
<1> HIDE DEF g
<1>8. phase' # "run" /\ phase' \in Phases /\ pos' \in 0..Len(input')
  BY <1>1, <1>6 DEF Phases
<1>9. TypeOK'
  <2>1. short' \in BOOLEAN /\ ~short' /\ out' \in Seq(Nat) /\ via' \in Ways
    BY <1>1, <1>6, <1>7 DEF IInv, TypeOK
  <2>2. QED
    BY <1>1, <1>4, <1>6, <1>8, <2>1 DEF TypeOK
<1>10. CipherText'
  BY <1>2, <1>5, <1>6 DEF IInv, CipherText
<1>11. WholeMessage'
  <2>1. Given' = input
    BY <1>1, <1>6, SubSeqFull DEF Given
  <2>2. ~short'
    BY <1>1, <1>6
  <2>3. QED
    BY <1>2, <1>4, <1>5, <1>6, <2>1, <2>2 DEF WholeMessage
<1>12. QED
  BY <1>8, <1>9, <1>10, <1>11 DEF IInv, Conserved, Untouched

\* EncryptFinalize of a command, or at the end of a file.
LEMMA FinalizeStep ==
    ASSUME IInv, phase = "run", via # "data", UNCHANGED <<via, input, pos>>,
           LET f == EncryptFinalize(ctx)
           IN  /\ ctx' = f.ctx /\ HandOut(f.out)
               /\ phase' = IF f.ok THEN "ok" ELSE IF via = "file" THEN "error" ELSE "run"
    PROVE  IInv'
<1> DEFINE f == EncryptFinalize(ctx)
<1>1. /\ ctx \in Ctx /\ Len(ctx.buf) <= ctx.block /\ TypeOK
      /\ input \in Seq(Nat) /\ out \in Seq(Nat) /\ pos \in 0..Len(input) /\ via \in Ways
  BY DEF IInv, TypeOK
<1>made. PICK made \in Seq(Nat) : MadeOf(made)
  BY DEF IInv, Conserved
<1>2. /\ f.ctx \in Ctx /\ Len(f.ctx.buf) <= f.ctx.block
      /\ f.ok \in BOOLEAN /\ f.out \in Seq(Nat)
      /\ ~f.ok => f.out = <<>> /\ f.ctx.buf = ctx.buf
  BY <1>1, FinalizeType
<1>3. /\ made \o ctx.buf = Given /\ Aligned(ctx, Len(made))
      /\ IF short THEN Len(out) < Len(made) ELSE out = made
  BY <1>made DEF MadeOf
<1>4. /\ f.ctx.type = ctx.type /\ f.ctx.block = ctx.block /\ f.ctx.padding = ctx.padding
      /\ f.ok <=> Valid(f.ctx, Given)
      /\ f.ok => made \o f.out = Transform(f.ctx, Given)
  <2>1. Late(ctx) => PaddedAtEnd(ctx.block, made \o ctx.buf)
    BY <1>1, <1>3, GivenPadded DEF IInv
  <2>2. QED
    BY <1>1, <1>3, <2>1, FinalizeCompletes
<1>5. /\ ctx' = f.ctx /\ HandOut(f.out)
      /\ phase' = IF f.ok THEN "ok" ELSE IF via = "file" THEN "error" ELSE "run"
      /\ Given' = Given
  BY DEF Given
<1> HIDE DEF f
<1>6. /\ out' \in Seq(Nat) /\ short' \in BOOLEAN /\ (short' => via = "file")
      /\ made \o f.out \in Seq(Nat)
      /\ IF short' THEN Len(out') < Len(made \o f.out) ELSE out' = made \o f.out
  BY <1>1, <1>2, <1>3, <1>5, <1>made, HandOutFacts
<1>7. TypeOK'
  BY <1>1, <1>2, <1>5, <1>6 DEF TypeOK, Phases
<1>8. Late(f.ctx) = Late(ctx)
  BY <1>4, SameMessage
<1>9. Conserved'
  <2>1. SUFFICES ASSUME ~f.ok PROVE MadeOf(made)'
    BY <1>2, <1>5, <1>made DEF Conserved
  <2>2. made \o f.out = made
    BY <1>2, <2>1, <1>made, ConcatEmptySeq
  <2>3. Aligned(f.ctx, Len(made))
    BY <1>2, <1>3, <1>4, <1>8, <2>1 DEF Aligned
  <2>4. QED
    BY <1>2, <1>3, <1>5, <1>6, <2>1, <2>2, <2>3 DEF MadeOf
<1>10. CipherText'
  BY <1>4, <1>5, <1>8 DEF IInv, CipherText
<1>11. WholeMessage'
  BY <1>2, <1>4, <1>5, <1>6 DEF WholeMessage
<1>12. QED
  BY <1>7, <1>9, <1>10, <1>11 DEF IInv, Untouched

\* A command hands out all there is.
LEMMA WholeHandedOut ==
    ASSUME NEW data \in Seq(Nat), via # "file", out' = out \o data, short' = short, short \in BOOLEAN
    PROVE  HandOut(data)
<1>1. SubSeq(data, 1, Len(data)) = data /\ Len(data) \in Nat
  BY SubSeqFull, LenProperties
<1>2. out' = out \o SubSeq(data, 1, Len(data)) /\ short' = (short \/ Len(data) < Len(data))
  BY <1>1
<1>3. QED
  BY <1>2 DEF HandOut

\* Whatever step is taken, the invariant is kept.
LEMMA StepOps == IInv /\ [Next]_vars => IInv'
<1> SUFFICES ASSUME IInv, [Next]_vars PROVE IInv'
  OBVIOUS
<1>1. CASE EncryptDataHandler
  BY <1>1, DataStep
<1>2. CASE CommandUpdate
  BY <1>2, UpdateStep DEF CommandUpdate
<1>3. CASE CommandFinalize
  <2> DEFINE f == EncryptFinalize(ctx)
  <2>1. /\ via = "command" /\ phase = "run" /\ UNCHANGED <<via, input, pos>>
        /\ short' = short /\ short \in BOOLEAN /\ ctx' = f.ctx /\ out' = out \o f.out /\ phase' = IF f.ok THEN "ok" ELSE "run"
    BY <1>3 DEF CommandFinalize, Finalized, IInv, TypeOK
  <2>2. f.out \in Seq(Nat)
    BY FinalizeType DEF IInv, TypeOK
  <2>3. HandOut(f.out)
    BY <2>1, <2>2, WholeHandedOut
  <2>4. QED
    BY <2>1, <2>3, FinalizeStep
<1>4. CASE FileUpdate
  BY <1>4, UpdateStep DEF FileUpdate
<1>5. CASE FileEnd
  BY <1>5, FinalizeStep DEF FileEnd
<1>6. CASE FileFails
  <2>1. phase' = "io" /\ UNCHANGED <<via, ctx, input, pos, out, short>>
    BY <1>6 DEF FileFails
  <2>2. QED
    BY <2>1 DEF IInv, TypeOK, Conserved, CipherText, Untouched, WholeMessage, Phases
<1>7. CASE UNCHANGED vars
  BY <1>7 DEF vars, IInv, TypeOK, Conserved, MadeOf, CipherText, Untouched, WholeMessage, Given
<1>8. QED
  BY <1>1, <1>2, <1>3, <1>4, <1>5, <1>6, <1>7 DEF Next

\* The variables of the commands keep their types, and a context never keeps more than a
\* block, which is the room that EncryptDataHandler, EncryptInstanceObjCmd and
\* EncryptFileHandler leave for the last one.
THEOREM TypeCorrect == Spec => []TypeOK
<1>1. IInv => TypeOK
  BY DEF IInv
<1>2. QED
  BY InitOps, StepOps, <1>1, PTL DEF Spec

\* However the pieces are cut, what EncryptInstanceObjCmd and EncryptFileHandler
\* handed out, followed by what the context keeps, is the message so far, as long as
\* Tcl_WriteRaw took all it was given; once it took less, EncryptFileHandler has lost
\* something.  It is so after a finalize that failed, too (of later updates only those
\* of InBlock are in the model).
THEOREM UpdatesLoseNothing == Spec => []NothingLost
<1>1. IInv => NothingLost
  <2>1. SUFFICES ASSUME IInv, phase = "run"
                 PROVE  IF short THEN Len(out) + Len(ctx.buf) < Len(Given)
                                 ELSE out \o ctx.buf = Given
    BY DEF NothingLost
  <2>2. PICK made \in Seq(Nat) : MadeOf(made)
    BY <2>1 DEF IInv, Conserved
  <2>3. ctx.buf \in Seq(Nat) /\ out \in Seq(Nat)
    BY <2>1 DEF IInv, TypeOK, Ctx
  <2>4. /\ Len(made \o ctx.buf) = Len(made) + Len(ctx.buf)
        /\ Len(made) \in Nat /\ Len(ctx.buf) \in Nat /\ Len(out) \in Nat
    BY <2>2, <2>3, ConcatProperties, LenProperties
  <2>5. CASE short
    BY <2>2, <2>4, <2>5 DEF MadeOf
  <2>6. CASE ~short
    BY <2>2, <2>6 DEF MadeOf
  <2>7. QED
    BY <2>5, <2>6
<1>2. QED
  BY InitOps, StepOps, <1>1, PTL DEF Spec

\* However the message is cut into pieces, EncryptDataHandler, EncryptInstanceObjCmd and
\* EncryptFileHandler succeed with the transform of the whole of it, and fail only on a
\* message that has none; EncryptFileHandler also succeeds with less, if Tcl_WriteRaw took
\* less than it was given.
THEOREM WholeMessageTransformed == Spec => []WholeMessage
<1>1. IInv => WholeMessage
  BY DEF IInv
<1>2. QED
  BY InitOps, StepOps, <1>1, PTL DEF Spec

\* Neither EncryptUpdate nor EncryptFinalize makes a context that encrypts one that
\* decrypts.
LEMMA TypeKept ==
    ASSUME NEW c \in Ctx, NEW data
    PROVE  EncryptUpdate(c, data).ctx.type = c.type /\ EncryptFinalize(c).ctx.type = c.type
BY DEF EncryptUpdate, EncryptFinalize, Ctx

\* The message of a command that encrypts is clear text, and stays so.
LEMMA InputClear == Spec => []ClearInput
<1>1. Init => ClearInput
  <2>1. SUFFICES ASSUME Init, ctx.type = "encrypt"
                 PROVE  \A i \in 1..Len(input) : input[i] # Pad
    BY DEF ClearInput
  <2>2. PICK n \in 0..MaxUnits : input = Message(n)
    BY <2>1 DEF Init, Messages
  <2>3. n \in Nat
    BY OpsAssumption
  <2>4. QED
    BY <2>2, <2>3, ClearText
<1>2. IInv /\ ClearInput /\ [Next]_vars => ClearInput'
  <2>1. SUFFICES ASSUME IInv, ClearInput, [Next]_vars PROVE ClearInput'
    OBVIOUS
  <2>2. input' = input
    BY <2>1 DEF Next, vars, EncryptDataHandler, CommandUpdate, CommandFinalize, FileUpdate,
                FileEnd, FileFails, Update
  <2>3. ctx'.type = ctx.type
    <3>1. ctx \in Ctx
      BY <2>1 DEF IInv, TypeOK
    <3>2. CASE EncryptDataHandler
      <4> DEFINE u == EncryptUpdate(ctx, input)
      <4>1. u.ctx.type = ctx.type
        BY <3>1, TypeKept
      <4>2. u.ctx \in Ctx
        BY <2>1, <3>1, UpdateConserves DEF IInv, TypeOK
      <4>3. ctx' = EncryptFinalize(u.ctx).ctx
        BY <3>2 DEF EncryptDataHandler
      <4> HIDE DEF u
      <4>4. QED
        BY <4>1, <4>2, <4>3, TypeKept
    <3>3. ASSUME NEW n, Update(n) PROVE ctx'.type = ctx.type
      BY <3>1, <3>3, TypeKept DEF Update
    <3>4. CASE CommandUpdate \/ FileUpdate
      BY <3>3, <3>4 DEF CommandUpdate, FileUpdate
    <3>5. CASE CommandFinalize \/ FileEnd
      BY <3>1, <3>5, TypeKept DEF CommandFinalize, FileEnd
    <3>6. CASE FileFails \/ UNCHANGED vars
      BY <3>6 DEF FileFails, vars
    <3>7. QED
      BY <2>1, <3>2, <3>4, <3>5, <3>6 DEF Next
  <2>4. QED
    BY <2>1, <2>2, <2>3 DEF ClearInput
<1>3. QED
  BY <1>1, <1>2, InitOps, StepOps, PTL DEF Spec

\* What EncryptDataHandler, EncryptInstanceObjCmd and EncryptFileHandler encrypted, in
\* whatever pieces, and the file took whole, EncryptDataHandler decrypts, with the same block size and padding, to
\* the message it was made from.
THEOREM EncryptedDecryptsBack == Spec => []DecryptsBack
<1>1. IInv /\ ClearInput => DecryptsBack
  <2> SUFFICES ASSUME IInv, ClearInput, phase = "ok", ctx.type = "encrypt", ~short
               PROVE  DecryptsBack
    BY DEF DecryptsBack
  <2> DEFINE d == NewCtx("decrypt", ctx.block, ctx.padding)
             u == EncryptUpdate(d, out)
             f == EncryptFinalize(u.ctx)
  <2>1. /\ ctx \in Ctx /\ input \in Seq(Nat) /\ Len(input) \in Nat /\ pos \in 0..Len(input)
        /\ Valid(ctx, Given) /\ out = Transform(ctx, Given)
    BY LenProperties DEF IInv, TypeOK, WholeMessage
  <2>2. /\ d \in Ctx /\ d.buf = <<>> /\ d.type = "decrypt"
        /\ d.block = ctx.block /\ d.padding = ctx.padding
    BY <2>1, EmptySeq DEF NewCtx, Ctx, Types
  <2>3. Given \in Seq(Nat) /\ \A i \in 1..Len(Given) : Given[i] # Pad
    <3>1. \A i \in 1..pos : input[i] \in Nat
      BY <2>1, ElementOfSeq
    <3>2. /\ Given \in Seq(Nat) /\ Len(Given) = IF 1 <= pos THEN pos - 1 + 1 ELSE 0
          /\ \A i \in 1..pos - 1 + 1 : Given[i] = input[1 + i - 1]
      BY <2>1, <3>1, SubSeqProperties DEF Given
    <3>3. \A i \in 1..Len(Given) : i \in 1..Len(input) /\ Given[i] = input[i]
      BY <2>1, <3>2
    <3>4. QED
      BY <3>2, <3>3 DEF ClearInput
  <2> HIDE DEF d
  <2>4. /\ out \in Seq(Nat)
        /\ Late(d) => PaddedAtEnd(d.block, out)
        /\ Valid(d, out) /\ Transform(d, out) = Given
    BY <2>1, <2>2, <2>3, TurnedBack
  <2>5. /\ f.ok <=> Valid(d, out)
        /\ f.ok => u.out \o f.out = Transform(d, out)
    BY <2>2, <2>4, AtOnce
  <2>6. QED
    BY <2>4, <2>5 DEF DecryptsBack, Joined, d
<1>2. Spec => []IInv
  BY InitOps, StepOps, PTL DEF Spec
<1>3. QED
  BY <1>1, <1>2, InputClear, PTL

=============================================================================
