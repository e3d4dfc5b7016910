----------------------------- MODULE TlsEncrypt -----------------------------
(***************************************************************************)
(* The stacked channel of tls::encrypt and tls::decrypt with -channel      *)
(* (generic/tlsEncrypt.c): a transform between a script and a channel      *)
(* below it that is open in one direction.                                 *)
(*                                                                         *)
(* A channel open for writing takes the message from the script, queues it *)
(* in Tcl's generic layer, and writes what the cipher hands back to the    *)
(* channel below; one open for reading takes it from below and hands it to *)
(* the script.  The generic layer is the one of TlsChannel, whose          *)
(* FlushChannel offers a queue again after EAGAIN.                         *)
(***************************************************************************)
EXTENDS TlsCipher

CONSTANTS
    Blocks,      \* block sizes, in units
    ChannelModes,\* directions: a subset of {"r", "w"}
    MaxUnits,    \* bound: units of clear text in a message
    WriteSizes,  \* units the script writes at once
    ReadSizes,   \* units the channel below may deliver at once
    Reliable     \* TRUE: the channel below takes all that is written to it

ASSUME EncryptAssumption ==
    /\ Blocks \subseteq Nat \ {0}
    /\ ChannelModes \subseteq {"r", "w"}
    /\ MaxUnits \in Nat
    /\ WriteSizes \subseteq Nat \ {0} /\ ReadSizes \subseteq Nat \ {0}
    /\ Reliable \in BOOLEAN

VARIABLES
    state,   \* the EncryptState
    gen,     \* the channel as the generic layer keeps it
    queue,   \* units written by the script and not taken by the driver
    input,   \* the whole message: what the script writes, or the channel below holds
    pos,     \* units of it that were written by the script, or read from below
    out      \* what arrived at the other end: below, or at the script

vars == <<state, gen, queue, input, pos, out>>

(***************************************************************************)
(* The EncryptState: the direction of the channel below, the context,      *)
(* CHAN_EOF, and `life': "live"; "freed" by EncryptStateFree; or "kept",   *)
(* closed but never freed.  The generic layer: the script has the channel; *)
(* FlushChannel is running; the rest of the queue waits for the event loop;*)
(* EncryptOutputProc answered EAGAIN at least once; a read reported EOF.   *)
(***************************************************************************)
State == [mode: {"r", "w"}, ctx: Ctx, eof: BOOLEAN, life: {"live", "freed", "kept"}]
Gen == [open: BOOLEAN, flush: BOOLEAN, bg: BOOLEAN, again: BOOLEAN, eof: BOOLEAN]

\* What a context keeps is at most a block.  (EncryptCloseProc has a buffer of that size;
\* EncryptInputProc has the reader's, whose size is not modelled.)
TypeOK ==
    /\ state \in State /\ Len(state.ctx.buf) <= state.ctx.block
    /\ gen \in Gen
    /\ queue \in Seq(Nat) /\ input \in Seq(Nat) /\ out \in Seq(Nat)
    /\ pos \in 0..Len(input)

\* EncryptChannelHandler.
EncryptStateNew(mode, ctx) == [mode |-> mode, ctx |-> ctx, eof |-> FALSE, life |-> "live"]

Init ==
    /\ \E mode \in ChannelModes, type \in Types, block \in Blocks, padding \in BOOLEAN :
         /\ state = EncryptStateNew(mode, NewCtx(type, block, padding))
         /\ input \in Messages(state.ctx, MaxUnits)
    /\ gen = [open |-> TRUE, flush |-> FALSE, bg |-> FALSE, again |-> FALSE, eof |-> FALSE]
    /\ queue = <<>> /\ pos = 0 /\ out = <<>>

-----------------------------------------------------------------------------
\* What the channel below takes of the cells offered to it.
Accepted(cells) ==
    {SubSeq(cells, 1, k) : k \in IF Reliable THEN {Len(cells)} ELSE 0..Len(cells)}

\* Mutant: what the finalisation handed back is not passed on.
LastBlockDropped(f) == <<>>

\* What is left to be passed on: nothing when CHAN_EOF says that it was.
LastBlock(f) == IF state.eof THEN <<>> ELSE f.out

\* EncryptCloseProc: f is the finalisation, and `written' says that the last
\* block, if there is one, was written.  Otherwise it returns the error at once.
EncryptCloseProc(f, written) ==
    IF state.eof THEN [state EXCEPT !.life = "freed"]
    ELSE IF ~written THEN [state EXCEPT !.ctx = f.ctx, !.life = "kept"]
    ELSE [state EXCEPT !.ctx = f.ctx, !.eof = TRUE, !.life = "freed"]

\* The generic layer calls EncryptCloseProc; a channel below that is open for
\* reading takes nothing.
CloseDriver ==
    LET f    == EncryptFinalize(state.ctx)
        tail == LastBlock(f)
    IN  \/ /\ state.mode = "w" \/ tail = <<>>
           /\ state' = EncryptCloseProc(f, TRUE)
           /\ \E cells \in Accepted(tail) : out' = out \o cells
        \/ /\ tail # <<>> /\ (state.mode = "w" => ~Reliable)
           /\ state' = EncryptCloseProc(f, FALSE)
           /\ UNCHANGED out

-----------------------------------------------------------------------------
(* The script.                                                             *)

\* puts: the data are queued.
Write ==
    /\ state.mode = "w" /\ gen.open /\ ~gen.flush
    /\ \E n \in WriteSizes :
         /\ pos + n <= Len(input)
         /\ queue' = queue \o SubSeq(input, pos + 1, pos + n)
         /\ pos' = pos + n
    /\ UNCHANGED <<state, gen, input, out>>

\* flush: does nothing while a background flush is scheduled.
Flush ==
    /\ gen.open /\ ~gen.flush /\ ~gen.bg /\ queue # <<>>
    /\ gen' = [gen EXCEPT !.flush = TRUE]
    /\ UNCHANGED <<state, queue, input, pos, out>>

\* close: the queue is flushed first, in the background if that is scheduled.
Close ==
    /\ gen.open /\ ~gen.flush
    /\ IF queue = <<>>
       THEN gen' = [gen EXCEPT !.open = FALSE] /\ CloseDriver
       ELSE gen' = [gen EXCEPT !.open = FALSE, !.flush = ~gen.bg] /\ UNCHANGED <<state, out>>
    /\ UNCHANGED <<queue, input, pos>>

-----------------------------------------------------------------------------
(* Output.                                                                 *)

\* Mutant: an update that hands nothing back leaves no trace in the context.
EncryptOutputProcStuck(ctx, data) ==
    LET u == EncryptUpdate(ctx, data)
    IN  [blocked |-> u.out = <<>>, out |-> u.out, ctx |-> IF u.out = <<>> THEN ctx ELSE u.ctx]

\* EncryptOutputProc: everything counts as written if the cipher hands anything
\* back, whatever the channel below took of it; otherwise the result is EAGAIN.
EncryptOutputProc(ctx, data) ==
    LET u == EncryptUpdate(ctx, data)
    IN  [blocked |-> u.out = <<>>, out |-> u.out, ctx |-> u.ctx]

\* FlushChannel offers the queue to the driver, and is done with it or leaves it
\* to the event loop.
FlushChannel ==
    /\ gen.flush /\ queue # <<>>
    /\ \E r \in {EncryptOutputProc(state.ctx, queue)} :
         /\ state' = [state EXCEPT !.ctx = r.ctx]
         /\ IF r.blocked
            THEN /\ gen' = [gen EXCEPT !.flush = FALSE, !.bg = TRUE, !.again = TRUE]
                 /\ UNCHANGED <<queue, out>>
            ELSE /\ queue' = <<>> /\ UNCHANGED gen
                 /\ \E cells \in Accepted(r.out) : out' = out \o cells
    /\ UNCHANGED <<input, pos>>

\* The queue is gone: a channel that its script closed is closed now.
FlushDone ==
    /\ gen.flush /\ queue = <<>>
    /\ gen' = [gen EXCEPT !.flush = FALSE, !.bg = FALSE]
    /\ IF gen.open THEN UNCHANGED <<state, out>> ELSE CloseDriver
    /\ UNCHANGED <<queue, input, pos>>

\* The event loop finds the channel below writable and flushes again.
AsyncFlush ==
    /\ gen.bg /\ ~gen.flush
    /\ gen' = [gen EXCEPT !.flush = TRUE]
    /\ UNCHANGED <<state, queue, input, pos, out>>

-----------------------------------------------------------------------------
(* Input.                                                                  *)

\* EncryptInputProc when the channel below delivered data.  With nothing handed
\* back the script is told EAGAIN and reads again.
ReadData ==
    /\ state.mode = "r" /\ gen.open
    /\ \E n \in ReadSizes :
         /\ pos + n <= Len(input)
         /\ \E u \in {EncryptUpdate(state.ctx, SubSeq(input, pos + 1, pos + n))} :
              state' = [state EXCEPT !.ctx = u.ctx] /\ out' = out \o u.out
         /\ pos' = pos + n
    /\ UNCHANGED <<gen, queue, input>>

\* Mutant: CHAN_EOF is not set after the finalisation.
InputEofUnmarked(f) == [state EXCEPT !.ctx = f.ctx]

InputEof(f) == [state EXCEPT !.ctx = f.ctx, !.eof = TRUE]

\* EncryptInputProc at the end of the channel below.  The units of the last
\* block come before the EOF; without any the result is 0, also if the
\* finalisation failed, which the generic layer takes for an EOF.
ReadEnd ==
    /\ state.mode = "r" /\ gen.open /\ pos = Len(input)
    /\ LET f    == EncryptFinalize(state.ctx)
           tail == LastBlock(f)
       IN  /\ state' = IF state.eof THEN state ELSE InputEof(f)
           /\ out' = out \o tail
           /\ gen' = [gen EXCEPT !.eof = @ \/ tail = <<>>]
    /\ UNCHANGED <<queue, input, pos>>

-----------------------------------------------------------------------------
Next == Write \/ Flush \/ Close \/ FlushChannel \/ FlushDone \/ AsyncFlush
        \/ ReadData \/ ReadEnd

Spec == Init /\ [][Next]_vars

\* FlushChannel is a loop, and the event loop serves a writable channel.
FairSpec == Spec /\ WF_vars(FlushChannel \/ FlushDone) /\ WF_vars(AsyncFlush)

-----------------------------------------------------------------------------
\* What was given to the transform so far.
Given == SubSeq(input, 1, pos)

\* Until the context is finalised every unit given to the transform is at the other
\* end, inside the context, or queued, once and in its place: EncryptInputProc and
\* EncryptOutputProc neither lose nor repeat what an update kept back.  After an
\* EAGAIN of EncryptOutputProc this no longer holds (WrittenOnce below).
Whole == state.life = "live" /\ state.ctx.finals = 0 => out \o state.ctx.buf \o queue = Given

Conserved == ~gen.again => Whole

\* When a written channel was closed, or a read one reported EOF, the other end
\* has the transform of the whole message: EncryptCloseProc and the EOF branch of
\* EncryptInputProc finalise the context and pass its last block on.
Complete ==
    (state.mode = "w" /\ state.life # "live" /\ ~gen.again) \/ gen.eof
        => (Valid(state.ctx, Given) => out = Transform(state.ctx, Given))

\* A context is finalised at most once: CHAN_EOF keeps a second read at the end,
\* and the close after it, from doing it again.
FinalisedOnce == state.ctx.finals <= 1

\* A closed channel is closed in the end, also when the cipher handed nothing
\* back and the queue was left to the event loop.
CloseCompletes == ~gen.open ~> state.life # "live"

-----------------------------------------------------------------------------
(* What the comments of tlsEncrypt.c say, and the code does not keep.      *)

\* EncryptOutputProc returns the "total bytes written or -1 for an error", with
\* EAGAIN when it "can't write data": what it took is on its way, and what it did
\* not take is offered again.
WrittenOnce == state.mode = "w" => Whole

=============================================================================
