-------------------------- MODULE TlsDigestProofs --------------------------
(***************************************************************************)
(* Theorems about the digest commands and the digest channel, for every    *)
(* way, mode of the channel, amount of data and cut of it into pieces.     *)
(***************************************************************************)
EXTENDS TlsDigest, SequenceTheorems, TLAPS

\* While a digest is owed, its context holds all that was given to it.
Pending ==
    /\ ctx.finals = 0 => out = <<>> /\ ctx.data = given
    /\ phase \in {"open", "eof"} /\ via # "channel" => ctx.finals = 0 /\ ~state.eof
    /\ Live /\ ~state.eof => ctx.finals = 0

\* CHAN_EOF is set with the digest, when the channel below has nothing left.
EofMarked ==
    /\ via = "channel" /\ Live /\ state.eof => out # <<>> /\ source = 0 /\ state.mode # "w"
    /\ phase = "eof" => via = "channel" /\ state.eof /\ out # <<>>

IInv == TypeOK /\ Pending /\ EofMarked /\ OneDigestOfAll /\ Delivered

\* A piece is a sequence of units.
LEMMA PieceType ==
    ASSUME given \in Seq(Nat), NEW n \in Nat
    PROVE  Piece(n) \in Seq(Nat)
<1>1. Len(given) \in Nat
  BY LenProperties
<1>2. Piece(n) \in [1..n -> Nat]
  BY <1>1 DEF Piece
<1>3. QED
  BY <1>2, SeqDef

\* What begins a sequence begins it when it grows, and a sequence begins itself.
LEMMA BeginsGrows ==
    ASSUME NEW s \in Seq(Nat), NEW t \in Seq(Nat), NEW p \in Seq(Nat)
    PROVE  Begins(s, s) /\ (Begins(s, t) => Begins(s, t \o p))
<1>1. Len(s) \in Nat /\ Len(t) \in Nat /\ Len(p) \in Nat
  BY LenProperties
<1>2. SubSeq(s, 1, Len(s)) = s
  BY SubSeqFull
<1>3. ASSUME Begins(s, t) PROVE Begins(s, t \o p)
  <2>1. Len(s) <= Len(t) /\ SubSeq(t, 1, Len(s)) = s
    BY <1>3 DEF Begins
  <2>2. t \o p \in Seq(Nat) /\ Len(t \o p) = Len(t) + Len(p)
    BY ConcatProperties
  <2>3. CASE Len(s) = 0
    BY <2>1, <2>3, SubSeqEmpty, <2>2 DEF Begins
  <2>4. CASE Len(s) # 0
    <3>1. 1 \in 1..Len(t) /\ Len(s) \in 1..Len(t)
      BY <1>1, <2>1, <2>4
    <3>2. SubSeq(t \o p, 1, Len(s)) = SubSeq(t, 1, Len(s))
      BY <3>1, SubSeqOfConcat1
    <3>3. QED
      BY <1>1, <2>1, <2>2, <3>2 DEF Begins
  <2>5. QED
    BY <2>3, <2>4
<1>4. QED
  BY <1>1, <1>2, <1>3 DEF Begins

\* The first digest.
LEMMA FirstDigest ==
    ASSUME NEW d \in Seq(Nat)
    PROVE  /\ Append(<<>>, d) \in Seq(Seq(Nat)) /\ Append(<<>>, d) # <<>>
           /\ Len(Append(<<>>, d)) = 1
           /\ \A i \in DOMAIN Append(<<>>, d) : Append(<<>>, d)[i] = d
<1>1. <<>> \in Seq(Seq(Nat)) /\ Len(<<>>) = 0
  BY EmptySeq
<1>2. /\ Append(<<>>, d) \in Seq(Seq(Nat)) /\ Len(Append(<<>>, d)) = 1
      /\ Append(<<>>, d)[1] = d
  BY <1>1, AppendProperties
<1>3. DOMAIN Append(<<>>, d) = 1..1
  BY <1>2, LenProperties
<1>4. QED
  BY <1>1, <1>2, <1>3

\* Nothing was given to a new digest.
LEMMA InitDigest == Init => IInv
<1> SUFFICES ASSUME Init PROVE IInv
  OBVIOUS
<1>1. <<>> \in Seq(Nat) /\ <<>> \in Seq(Seq(Nat)) /\ Len(<<>>) = 0 /\ DOMAIN <<>> = {}
  BY EmptySeq, LenProperties
<1>2. state \in State /\ ~state.eof
  BY DigestAssumption DEF Init, DigestStateNew, State
<1>3. ctx \in Ctx /\ ctx.finals = 0 /\ ctx.data = <<>>
  BY <1>1 DEF Init, DigestInitialize, Ctx
<1>4. source \in Nat
  BY DigestAssumption DEF Init
<1>5. TypeOK
  BY <1>1, <1>2, <1>3, <1>4 DEF Init, TypeOK
<1>6. Pending /\ EofMarked /\ OneDigestOfAll /\ Delivered
  BY <1>1, <1>2, <1>3 DEF Init, Pending, EofMarked, OneDigestOfAll, Delivered, Live
<1>7. QED
  BY <1>5, <1>6 DEF IInv

\* An update of a context that is not finalised keeps it to what was given.
LEMMA TakeGrows ==
    ASSUME TypeOK, NEW n \in Nat, Take(n)
    PROVE  /\ ctx' \in Ctx /\ given' \in Seq(Nat) /\ ctx'.finals = ctx.finals
           /\ ctx.finals = 0 /\ ctx.data = given => ctx'.data = given'
           /\ \A s \in Seq(Nat) : Begins(s, given) => Begins(s, given')
<1>1. /\ given \in Seq(Nat) /\ ctx \in Ctx /\ given' = given \o Piece(n)
      /\ ctx' = DigestUpdate(ctx, Piece(n))
  BY DEF TypeOK, Take
<1>2. Piece(n) \in Seq(Nat)
  BY <1>1, PieceType
<1>3. given' \in Seq(Nat)
  BY <1>1, <1>2, ConcatProperties
<1>4. ctx.data \in Seq(Nat) /\ ctx.finals \in Nat /\ ctx.data \o Piece(n) \in Seq(Nat)
  BY <1>1, <1>2, ConcatProperties DEF Ctx
<1>5. /\ ctx' \in Ctx /\ ctx'.finals = ctx.finals
      /\ ctx.finals = 0 => ctx'.data = ctx.data \o Piece(n)
  BY <1>1, <1>4 DEF DigestUpdate, Ctx
<1>6. \A s \in Seq(Nat) : Begins(s, given) => Begins(s, given')
  BY <1>1, <1>2, BeginsGrows
<1>7. QED
  BY <1>1, <1>3, <1>5, <1>6

\* The first finalisation succeeds with the digest of the context's data.
LEMMA FinalsOf ==
    ASSUME NEW c \in Ctx, NEW f \in Finals(c)
    PROVE  /\ f.ctx \in Ctx /\ f.ctx.finals # 0 /\ f.digest = c.data
           /\ f.ok \in BOOLEAN /\ (c.finals = 0 => f.ok)
<1>1. PICK ok \in IF c.finals = 0 THEN {TRUE} ELSE BOOLEAN :
        f = [ok |-> ok, digest |-> c.data, ctx |-> [c EXCEPT !.finals = @ + 1]]
  BY DEF Finals
<1>2. [c EXCEPT !.finals = @ + 1] \in Ctx /\ [c EXCEPT !.finals = @ + 1].finals # 0
  BY DEF Ctx
<1>3. QED
  BY <1>1, <1>2

\* A command that returns returns the digest of all that was given to it.
LEMMA ReturnDelivers ==
    ASSUME IInv, NEW c \in Ctx, c.finals = 0, out = <<>>, c.data = given', given' \in Seq(Nat),
           NEW f \in Finals(c), Return(f), source' \in Nat, via # "channel",
           UNCHANGED <<via, broken>>
    PROVE  IInv'
<1>1. f.ctx \in Ctx /\ f.ctx.finals # 0 /\ f.digest = given' /\ f.ok
  BY FinalsOf
<1>2. /\ ctx' = f.ctx /\ out' = Append(<<>>, given') /\ phase' = "done"
      /\ state' = [state EXCEPT !.life = "freed"]
  BY <1>1 DEF Return
<1>3. /\ out' \in Seq(Seq(Nat)) /\ out' # <<>> /\ Len(out') = 1
      /\ \A i \in DOMAIN out' : out'[i] = given'
  BY <1>2, FirstDigest
<1>4. state' \in State /\ state'.life = "freed"
  BY <1>2 DEF IInv, TypeOK, State
<1>5. TypeOK'
  BY <1>1, <1>2, <1>3, <1>4 DEF IInv, TypeOK
<1>6. Pending' /\ EofMarked' /\ Delivered'
  BY <1>1, <1>2, <1>3, <1>4 DEF Pending, EofMarked, Delivered, Live
<1>7. OneDigestOfAll'
  BY <1>3, BeginsGrows DEF OneDigestOfAll
<1>8. QED
  BY <1>5, <1>6, <1>7 DEF IInv

\* A file whose close failed returns none.
LEMMA ReturnFails ==
    ASSUME IInv, out = <<>>, given' \in Seq(Nat), source' \in Nat, via # "channel",
           UNCHANGED <<via, broken, out>>, ctx \in Ctx, ctx.finals = 0,
           NEW f \in Finals(ctx), ctx' = f.ctx, phase' = "error",
           state' = [state EXCEPT !.life = "freed"]
    PROVE  IInv'
<1>1. ctx' \in Ctx /\ ctx'.finals # 0
  BY FinalsOf
<1>2. state' \in State /\ state'.life = "freed"
  BY DEF IInv, TypeOK, State
<1>3. TypeOK'
  BY <1>1, <1>2 DEF IInv, TypeOK
<1>4. Pending' /\ EofMarked' /\ Delivered'
  BY <1>1, <1>2 DEF Pending, EofMarked, Delivered, Live
<1>5. OneDigestOfAll'
  <2>1. Len(out') <= 1 /\ DOMAIN out' = {}
    BY EmptySeq, LenProperties
  <2>2. QED
    BY <2>1 DEF OneDigestOfAll
<1>6. QED
  BY <1>3, <1>4, <1>5 DEF IInv

\* An update while the digest is owed.
LEMMA UpdateOwed ==
    ASSUME IInv, ctx.finals = 0, NEW n \in Nat, Take(n), source' \in Nat,
           via = "channel" /\ Live /\ state.eof => source' = source,
           UNCHANGED <<via, state, phase, broken, out>>
    PROVE  IInv'
<1>1. /\ ctx' \in Ctx /\ given' \in Seq(Nat) /\ ctx'.finals = 0 /\ ctx'.data = given'
      /\ out = <<>>
  BY TakeGrows DEF IInv, Pending
<1>2. TypeOK'
  BY <1>1 DEF IInv, TypeOK
<1>3. Pending' /\ EofMarked' /\ Delivered'
  BY <1>1 DEF IInv, Pending, EofMarked, Delivered, Live
<1>4. OneDigestOfAll'
  <2>1. Len(out') <= 1 /\ DOMAIN out' = {}
    BY <1>1, EmptySeq, LenProperties
  <2>2. QED
    BY <2>1 DEF OneDigestOfAll
<1>5. QED
  BY <1>2, <1>3, <1>4 DEF IInv

\* Every operation keeps the invariant.
LEMMA StepDigest == IInv /\ [Next]_vars => IInv'
<1> SUFFICES ASSUME IInv, [Next]_vars PROVE IInv'
  OBVIOUS
<1>0. TypeOK /\ Sizes \subseteq Nat \ {0}
  BY DigestAssumption DEF IInv
<1>1. CASE DigestDataHandler
  <2>1. /\ via = "data" /\ phase = "open" /\ source' \in Nat /\ UNCHANGED <<via, broken>>
        /\ given' = given \o Piece(source)
    BY <1>1 DEF DigestDataHandler
  <2> DEFINE c == DigestUpdate(ctx, Piece(source))
  <2>2. PICK f \in Finals(c) : Return(f)
    BY <1>1 DEF DigestDataHandler
  <2>3. ctx \in Ctx /\ ctx.finals = 0 /\ out = <<>> /\ ctx.data = given /\ given \in Seq(Nat)
    BY <1>0, <2>1 DEF IInv, Pending, TypeOK
  <2>4. Piece(source) \in Seq(Nat)
    BY <1>0, <2>3, PieceType DEF TypeOK
  <2>5. given' \in Seq(Nat)
    BY <2>1, <2>3, <2>4, ConcatProperties
  <2>6. c \in Ctx /\ c.finals = 0 /\ c.data = given'
    BY <2>1, <2>3, <2>5 DEF DigestUpdate, Ctx
  <2>7. QED
    BY <2>1, <2>2, <2>3, <2>5, <2>6, ReturnDelivers
<1>2. CASE CommandUpdate
  <2>1. PICK n \in Sizes : TakeFrom(n)
    BY <1>2 DEF CommandUpdate
  <2>2. n \in Nat /\ Take(n) /\ source' \in Nat
    BY <1>0, <2>1 DEF TakeFrom, TypeOK
  <2>3. ctx.finals = 0 /\ via # "channel" /\ UNCHANGED <<via, state, phase, broken, out>>
    BY <1>2 DEF CommandUpdate, IInv, Pending
  <2>4. QED
    BY <2>2, <2>3, UpdateOwed
<1>3. CASE CommandFinalize
  <2>1. PICK f \in Finals(ctx) : Return(f)
    BY <1>3 DEF CommandFinalize
  <2>2. /\ ctx \in Ctx /\ ctx.finals = 0 /\ out = <<>> /\ ctx.data = given'
        /\ given' \in Seq(Nat) /\ source' \in Nat /\ via # "channel" /\ UNCHANGED <<via, broken>>
    BY <1>3 DEF CommandFinalize, IInv, Pending, TypeOK
  <2>3. QED
    BY <2>1, <2>2, ReturnDelivers
<1>4. CASE FileRead
  <2>1. PICK n \in Sizes : TakeFrom(n)
    BY <1>4 DEF FileRead
  <2>2. n \in Nat /\ Take(n) /\ source' \in Nat
    BY <1>0, <2>1 DEF TakeFrom, TypeOK
  <2>3. ctx.finals = 0 /\ via # "channel" /\ UNCHANGED <<via, state, phase, broken, out>>
    BY <1>4 DEF FileRead, IInv, Pending
  <2>4. QED
    BY <2>2, <2>3, UpdateOwed
<1>5. CASE FileBreaks
  BY <1>5 DEF FileBreaks, IInv, TypeOK, Pending, EofMarked, OneDigestOfAll, Delivered, Live
<1>6. CASE FileEnd
  <2>1. PICK f \in Finals(ctx), closed \in BOOLEAN : Return([f EXCEPT !.ok = @ /\ closed])
    BY <1>6 DEF FileEnd
  <2>2. /\ ctx \in Ctx /\ ctx.finals = 0 /\ out = <<>> /\ ctx.data = given'
        /\ given' \in Seq(Nat) /\ source' \in Nat /\ via # "channel" /\ UNCHANGED <<via, broken>>
    BY <1>6 DEF FileEnd, IInv, Pending, TypeOK
  <2>3. CASE closed
    <3>1. f.ok /\ f = [f EXCEPT !.ok = @ /\ closed]
      BY <2>2, <2>3, FinalsOf DEF Finals
    <3>2. QED
      BY <2>1, <2>2, <3>1, ReturnDelivers
  <2>4. CASE ~closed
    <3>1. /\ ctx' = f.ctx /\ out' = out /\ phase' = "error"
          /\ state' = [state EXCEPT !.life = "freed"]
      BY <2>1, <2>4 DEF Return, Finals
    <3>2. QED
      BY <2>2, <3>1, ReturnFails
  <2>5. QED
    BY <2>3, <2>4
<1>7. CASE DigestOutputProc
  <2>1. PICK n \in Sizes : Take(n)
    BY <1>7 DEF DigestOutputProc
  <2>2. /\ n \in Nat /\ via = "channel" /\ Live /\ source' = source /\ source \in Nat
        /\ state.mode \in {"w", "rw"} /\ UNCHANGED <<via, state, phase, broken, out>>
    BY <1>0, <1>7 DEF DigestOutputProc, TypeOK
  <2>3. CASE ~state.eof
    <3>1. ctx.finals = 0
      BY <2>2, <2>3 DEF IInv, Pending
    <3>2. QED
      BY <2>1, <2>2, <3>1, UpdateOwed
  <2>4. CASE state.eof
    <3>1. state.mode = "rw" /\ out # <<>>
      BY <2>2, <2>4 DEF IInv, EofMarked
    <3>2. ctx.finals # 0
      BY <3>1 DEF IInv, Pending
    <3>3. /\ ctx' \in Ctx /\ given' \in Seq(Nat) /\ ctx'.finals = ctx.finals
          /\ \A s \in Seq(Nat) : Begins(s, given) => Begins(s, given')
      BY <1>0, <2>1, <2>2, TakeGrows
    <3>4. TypeOK'
      BY <1>0, <2>2, <3>3 DEF TypeOK
    <3>5. Pending' /\ EofMarked' /\ Delivered'
      BY <2>2, <2>4, <3>2, <3>3 DEF IInv, Pending, EofMarked, Delivered, Live
    <3>6. OneDigestOfAll'
      <4>1. \A i \in DOMAIN out : out[i] \in Seq(Nat)
        BY <1>0, ElementOfSeq, LenProperties DEF TypeOK
      <4>2. QED
        BY <2>2, <3>1, <3>3, <4>1 DEF IInv, OneDigestOfAll
    <3>7. QED
      BY <3>4, <3>5, <3>6 DEF IInv
  <2>5. QED
    BY <1>0, <2>3, <2>4 DEF TypeOK, State
<1>8. CASE InputData
  <2>1. PICK n \in Sizes : TakeFrom(n)
    BY <1>8 DEF InputData
  <2>2. /\ n \in Nat \ {0} /\ n <= source /\ Take(n) /\ source \in Nat /\ source' = source - n
        /\ via = "channel" /\ Live /\ UNCHANGED <<via, state, phase, broken, out>>
    BY <1>0, <1>8, <2>1 DEF InputData, TakeFrom, TypeOK
  <2>3. ~state.eof
    BY <2>2 DEF IInv, EofMarked
  <2>4. ctx.finals = 0 /\ source' \in Nat
    BY <2>2, <2>3 DEF IInv, Pending
  <2>5. QED
    BY <2>2, <2>3, <2>4, UpdateOwed
<1>9. CASE InputEof
  <2>1. /\ via = "channel" /\ Live /\ state.mode \in {"r", "rw"} /\ source = 0
        /\ UNCHANGED <<via, source, broken, given>> /\ state \in State
    BY <1>0, <1>9 DEF InputEof, TypeOK
  <2>2. CASE state.eof
    <3>1. phase' = "eof" /\ UNCHANGED <<state, ctx, out>> /\ out # <<>>
      BY <1>9, <2>1, <2>2 DEF InputEof, IInv, EofMarked
    <3>2. QED
      BY <2>1, <2>2, <3>1 DEF IInv, TypeOK, Pending, EofMarked, OneDigestOfAll, Delivered, Live
  <2>3. CASE ~state.eof
    <3>1. ctx \in Ctx /\ ctx.finals = 0 /\ out = <<>> /\ ctx.data = given /\ given \in Seq(Nat)
      BY <1>0, <2>1, <2>3 DEF IInv, Pending, TypeOK
    <3>2. PICK f \in Finals(ctx) :
            /\ ctx' = f.ctx /\ state' = Marked
            /\ IF f.ok THEN out' = Append(out, f.digest) /\ UNCHANGED phase
               ELSE phase' = "eof" /\ UNCHANGED out
      BY <1>9, <2>3 DEF InputEof
    <3>3. ctx' \in Ctx /\ ctx'.finals # 0 /\ f.digest = given /\ f.ok
      BY <3>1, <3>2, FinalsOf
    <3>4. phase' = phase /\ out' = Append(<<>>, given)
      BY <3>1, <3>2, <3>3
    <3>5. state' \in State /\ state'.eof /\ state'.mode = state.mode /\ state'.life = state.life
      BY <2>1, <3>2 DEF Marked, State
    <3>6. /\ out' \in Seq(Seq(Nat)) /\ out' # <<>> /\ Len(out') = 1
          /\ \A i \in DOMAIN out' : out'[i] = given'
      BY <2>1, <3>1, <3>4, FirstDigest
    <3>7. TypeOK'
      BY <1>0, <2>1, <3>1, <3>3, <3>4, <3>5, <3>6 DEF TypeOK
    <3>8. Pending' /\ EofMarked' /\ Delivered'
      BY <2>1, <3>3, <3>4, <3>5, <3>6 DEF IInv, Pending, EofMarked, Delivered, Live
    <3>9. OneDigestOfAll'
      BY <2>1, <3>1, <3>6, BeginsGrows DEF OneDigestOfAll
    <3>10. QED
      BY <3>7, <3>8, <3>9 DEF IInv
  <2>4. QED
    BY <2>1, <2>2, <2>3 DEF State
<1>10. CASE DigestCloseProc
  <2>1. /\ via = "channel" /\ Live /\ phase' = "done" /\ state \in State
        /\ UNCHANGED <<via, source, broken, given>>
    BY <1>0, <1>10 DEF DigestCloseProc, TypeOK
  <2>2. CASE state.eof
    <3>1. state' = [state EXCEPT !.life = "freed"] /\ UNCHANGED <<ctx, out>> /\ out # <<>>
      BY <1>10, <2>1, <2>2 DEF DigestCloseProc, Owed, IInv, EofMarked
    <3>2. state' \in State /\ state'.mode = state.mode /\ state'.life = "freed"
      BY <2>1, <3>1 DEF State
    <3>3. QED
      BY <2>1, <3>1, <3>2
         DEF IInv, TypeOK, Pending, EofMarked, OneDigestOfAll, Delivered, Live
  <2>3. CASE ~state.eof
    <3>1. ctx \in Ctx /\ ctx.finals = 0 /\ out = <<>> /\ ctx.data = given /\ given \in Seq(Nat)
      BY <1>0, <2>1, <2>3 DEF IInv, Pending, TypeOK
    <3>2. PICK f \in Finals(ctx), there \in Arrives :
            /\ ctx' = f.ctx /\ out' = IF f.ok /\ there THEN Append(out, f.digest) ELSE out
            /\ state' = [state EXCEPT !.eof = TRUE, !.life = "freed"]
      BY <1>10, <2>3 DEF DigestCloseProc, Owed
    <3>3. ctx' \in Ctx /\ ctx'.finals # 0 /\ f.digest = given /\ f.ok
      BY <3>1, <3>2, FinalsOf
    <3>4. state' \in State /\ state'.mode = state.mode /\ state'.life = "freed"
      BY <2>1, <3>2 DEF State
    <3>5. CASE there
      <4>1. /\ out' = Append(<<>>, given) /\ out' \in Seq(Seq(Nat)) /\ out' # <<>> /\ Len(out') = 1
            /\ \A i \in DOMAIN out' : out'[i] = given'
        BY <2>1, <3>1, <3>2, <3>3, <3>5, FirstDigest
      <4>2. TypeOK' /\ Pending' /\ EofMarked' /\ Delivered'
        BY <1>0, <2>1, <3>1, <3>3, <3>4, <4>1
           DEF IInv, TypeOK, Pending, EofMarked, Delivered, Live
      <4>3. OneDigestOfAll'
        BY <2>1, <3>1, <4>1, BeginsGrows DEF OneDigestOfAll
      <4>4. QED
        BY <4>2, <4>3 DEF IInv
    <3>6. CASE ~there
      <4>1. ~(Reliable /\ state.mode # "r") /\ out' = <<>> /\ DOMAIN out' = {} /\ Len(out') = 0
        <5>1. ~(Reliable /\ state.mode # "r")
          BY <3>2, <3>6 DEF Arrives
        <5>2. out' = <<>>
          BY <3>1, <3>2, <3>6
        <5>3. QED
          BY <5>1, <5>2, EmptySeq, LenProperties
      <4>2. TypeOK' /\ Pending' /\ EofMarked' /\ Delivered'
        BY <1>0, <2>1, <3>1, <3>3, <3>4, <4>1
           DEF IInv, TypeOK, Pending, EofMarked, Delivered, Live
      <4>3. OneDigestOfAll'
        BY <4>1 DEF OneDigestOfAll
      <4>4. QED
        BY <4>2, <4>3 DEF IInv
    <3>7. QED
      BY <3>5, <3>6
  <2>4. QED
    BY <2>2, <2>3
<1>11. CASE DigestCommandDeleteHandler
  <2>1. state' \in State
    BY <1>0, <1>11 DEF DigestCommandDeleteHandler, TypeOK, State
  <2>2. QED
    BY <1>11, <2>1 DEF DigestCommandDeleteHandler, IInv, TypeOK, Pending, EofMarked,
                       OneDigestOfAll, Delivered, Live
<1>12. CASE UNCHANGED vars
  BY <1>12 DEF vars, IInv, TypeOK, Pending, EofMarked, OneDigestOfAll, Delivered, Live
<1>13. QED
  BY <1>1, <1>2, <1>3, <1>4, <1>5, <1>6, <1>7, <1>8, <1>9, <1>10, <1>11, <1>12 DEF Next

LEMMA Invariance == Spec => []IInv
BY InitDigest, StepDigest, PTL DEF Spec

\* The variables of the digests keep their types.
THEOREM TypeCorrect == Spec => []TypeOK
<1>1. IInv => TypeOK
  BY DEF IInv
<1>2. QED
  BY <1>1, Invariance, PTL

\* However often an EOF, a read after it, a finalize and the close try, one
\* digest at most is delivered, and it is that of everything given (DigestInputProc,
\* DigestCloseProc, DigestFinalize).
THEOREM OneDigest == Spec => []OneDigestOfAll
<1>1. IInv => OneDigestOfAll
  BY DEF IInv
<1>2. QED
  BY <1>1, Invariance, PTL

\* No end of a digest comes without the digest, where the channel below takes
\* what DigestCloseProc writes.
THEOREM DigestDelivered == Spec => []Delivered
<1>1. IInv => Delivered
  BY DEF IInv
<1>2. QED
  BY <1>1, Invariance, PTL

=============================================================================
