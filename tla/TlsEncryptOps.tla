--------------------------- MODULE TlsEncryptOps ---------------------------
(***************************************************************************)
(* The ways of tls::encrypt and tls::decrypt that need no stacked channel  *)
(* (generic/tlsEncrypt.c): -data transforms a value in one call, -command  *)
(* makes a command that is given the message piece by piece, and -infile   *)
(* transforms a file in a loop.                                            *)
(***************************************************************************)
EXTENDS TlsCipher

CONSTANTS
    Blocks,   \* block sizes, in units
    MaxUnits, \* bound: units of clear text in a message
    Sizes     \* units of an update, or of one read of the file

ASSUME OpsAssumption ==
    Blocks \subseteq Nat \ {0} /\ MaxUnits \in Nat /\ Sizes \subseteq Nat \ {0}

VARIABLES
    via,    \* which of the three it is
    ctx,    \* the cipher context
    input,  \* the whole message
    pos,    \* units of it that were given to the context
    out,    \* the results of the command, the result, or the output file
    short,  \* history: a write to the output file took less than it was given
    phase   \* "run"; "ok" or "error" when it is over; "io": the files failed

vars == <<via, ctx, input, pos, out, short, phase>>

Ways == {"data", "command", "file"}
Phases == {"run", "ok", "error", "io"}

\* What the context keeps is at most a block.
TypeOK ==
    /\ via \in Ways /\ phase \in Phases
    /\ ctx \in Ctx /\ Len(ctx.buf) <= ctx.block
    /\ input \in Seq(Nat) /\ out \in Seq(Nat)
    /\ pos \in 0..Len(input)
    /\ short \in BOOLEAN /\ (short => via = "file")

Init ==
    /\ via \in Ways
    /\ \E type \in Types, block \in Blocks, padding \in BOOLEAN :
         ctx = NewCtx(type, block, padding)
    /\ input \in Messages(ctx, MaxUnits)
    /\ pos = 0 /\ out = <<>> /\ short = FALSE /\ phase = "run"

Given == SubSeq(input, 1, pos)

-----------------------------------------------------------------------------
\* Mutant: the last block overwrites the beginning of the buffer.
JoinedOver(first, last) ==
    IF last = <<>> THEN first ELSE last \o SubSeq(first, Len(last) + 1, Len(first))

\* The finalisation writes behind what the update handed back.
Joined(first, last) == first \o last

\* EncryptDataHandler: all or nothing.
EncryptDataHandler ==
    /\ via = "data" /\ phase = "run"
    /\ LET u == EncryptUpdate(ctx, input)
           f == EncryptFinalize(u.ctx)
       IN  /\ ctx' = f.ctx
           /\ out' = IF f.ok THEN Joined(u.out, f.out) ELSE out
           /\ phase' = IF f.ok THEN "ok" ELSE "error"
    /\ pos' = Len(input)
    /\ UNCHANGED <<via, input, short>>

-----------------------------------------------------------------------------
\* Data handed out.  A command returns all of it; of what EncryptFileHandler writes
\* Tcl_WriteRaw may take a part, or nothing, and the handler, which takes any length for
\* a success, goes on without the rest.
HandOut(data) ==
    \E k \in IF via = "file" THEN 0..Len(data) ELSE {Len(data)} :
        /\ out' = out \o SubSeq(data, 1, k)
        /\ short' = (short \/ k < Len(data))

\* An update of a file or a command with the next n units.
Update(n) ==
    /\ pos + n <= Len(input)
    /\ \E u \in {EncryptUpdate(ctx, SubSeq(input, pos + 1, pos + n))} :
         ctx' = u.ctx /\ HandOut(u.out)
    /\ pos' = pos + n
    /\ UNCHANGED <<via, input, phase>>

\* EncryptInstanceObjCmd: update and finalize.  The command is deleted when the
\* finalisation succeeds; when it fails because the last block is not whole yet,
\* the script may go on.  A finalisation that fails on a whole block leaves it in the
\* cipher context transformed, and what a later update makes of it is OpenSSL's affair:
\* such updates are left out, and nothing is claimed of them.
InBlock == ctx.finals = 0 \/ Len(ctx.buf) # ctx.block

CommandUpdate ==
    /\ via = "command" /\ phase = "run" /\ InBlock
    /\ \E n \in Sizes : Update(n)

\* Bound: calls of finalize, failed ones included.
MaxFinals == 2

Finalized(f) == [out |-> out \o f.out, phase |-> IF f.ok THEN "ok" ELSE "run"]

CommandFinalize ==
    /\ via = "command" /\ phase = "run" /\ ctx.finals < MaxFinals
    /\ LET f == EncryptFinalize(ctx)
       IN  ctx' = f.ctx /\ out' = Finalized(f).out /\ phase' = Finalized(f).phase
    /\ UNCHANGED <<via, input, pos, short>>

-----------------------------------------------------------------------------
\* EncryptFileHandler: one turn of its loop.
FileUpdate ==
    /\ via = "file" /\ phase = "run"
    /\ \E n \in Sizes : Update(n)

\* The end of the file: the last block is written, and any length of it counts as done.
FileEnd ==
    /\ via = "file" /\ phase = "run" /\ pos = Len(input)
    /\ LET f == EncryptFinalize(ctx)
       IN  /\ ctx' = f.ctx
           /\ HandOut(f.out)
           /\ phase' = IF f.ok THEN "ok" ELSE "error"
    /\ UNCHANGED <<via, input, pos>>

\* A read or a write answers with an error; what was written stays in the output file.
FileFails ==
    /\ via = "file" /\ phase = "run"
    /\ phase' = "io"
    /\ UNCHANGED <<via, ctx, input, pos, out, short>>

Next == EncryptDataHandler \/ CommandUpdate \/ CommandFinalize
        \/ FileUpdate \/ FileEnd \/ FileFails

Spec == Init /\ [][Next]_vars

-----------------------------------------------------------------------------
\* However the message was cut into pieces, the three ways succeed with the transform of
\* the whole of it, and fail only on a message that has none.  The exception is a file
\* that took less than it was given: tls::encrypt -infile succeeds all the same, with less
\* than the transform.
WholeMessage ==
    /\ phase = "ok" =>
         /\ Valid(ctx, Given)
         /\ IF short THEN Len(out) < Len(Transform(ctx, Given)) ELSE out = Transform(ctx, Given)
    /\ phase = "error" => ~Valid(ctx, Given)

\* What was encrypted, in whatever pieces, and written whole, tls::decrypt -data with the
\* same block size and padding takes, and gives the message back.
DecryptsBack ==
    phase = "ok" /\ ctx.type = "encrypt" /\ ~short =>
        LET u == EncryptUpdate(NewCtx("decrypt", ctx.block, ctx.padding), out)
            f == EncryptFinalize(u.ctx)
        IN  f.ok /\ Joined(u.out, f.out) = Given

\* Until it is over nothing is lost between two updates, and a finalize that failed
\* changes nothing (of the updates after one, those of InBlock are looked at): the units
\* are in the results or in the context.  What a file did not take is lost for good.
NothingLost ==
    phase = "run" => IF short THEN Len(out) + Len(ctx.buf) < Len(Given)
                              ELSE out \o ctx.buf = Given

=============================================================================
