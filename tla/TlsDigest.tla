----------------------------- MODULE TlsDigest -----------------------------
(***************************************************************************)
(* tls::digest, tls::md, tls::hmac and tls::cmac (generic/tlsDigest.c): the*)
(* digest of a value (-data), of a file (-file), of what a command is given*)
(* piece by piece (-command), and of what passes a stacked channel         *)
(* (-channel), in either direction or both.                                *)
(*                                                                         *)
(* A digest stands for the sequence of units it was computed from.         *)
(***************************************************************************)
EXTENDS Integers, Sequences

CONSTANTS
    Vias,         \* ways: a subset of {"data", "file", "command", "channel"}
    ChannelModes, \* modes of the channel below: a subset of {"r", "w", "rw"}
    MaxUnits,     \* bound: units that are given to the digest
    Sizes,        \* units of an update, a read or a write
    Reliable      \* TRUE: the channel below takes all that is written to it

ASSUME DigestAssumption ==
    /\ Vias \subseteq {"data", "file", "command", "channel"}
    /\ ChannelModes \subseteq {"r", "w", "rw"}
    /\ MaxUnits \in Nat /\ Sizes \subseteq Nat \ {0} /\ Reliable \in BOOLEAN

VARIABLES
    via,    \* the way
    state,  \* the DigestState
    ctx,    \* the digest context
    phase,  \* "open"; "eof" when a read reported it; at the end "done", or "error" if
            \* the operation failed or its command was deleted
    source, \* units in the value, the file or the channel below, not taken yet
    broken, \* the file cannot be read any more
    given,  \* history: the units that were given to the digest
    out     \* the digests handed to the script or written below

vars == <<via, state, ctx, phase, source, broken, given, out>>

(***************************************************************************)
(* The DigestState: the mode of the channel below, CHAN_EOF, and whether   *)
(* DigestStateFree was called.  A context counts its finalisations.        *)
(***************************************************************************)
State == [mode: {"r", "w", "rw"}, eof: BOOLEAN, life: {"live", "freed"}]
Ctx == [data: Seq(Nat), finals: Nat]

TypeOK ==
    /\ via \in Vias /\ state \in State /\ ctx \in Ctx
    /\ phase \in {"open", "eof", "done", "error"}
    /\ source \in Nat /\ broken \in BOOLEAN
    /\ given \in Seq(Nat) /\ out \in Seq(Seq(Nat))

\* DigestStateNew and DigestInitialize.
DigestStateNew(mode) == [mode |-> mode, eof |-> FALSE, life |-> "live"]
DigestInitialize == [data |-> <<>>, finals |-> 0]

Init ==
    /\ via \in Vias
    /\ \E mode \in ChannelModes : state = DigestStateNew(mode)
    /\ ctx = DigestInitialize
    /\ phase = "open" /\ source \in 0..MaxUnits /\ broken = FALSE
    /\ given = <<>> /\ out = <<>>

-----------------------------------------------------------------------------
\* The next n units.
Piece(n) == [i \in 1..n |-> Len(given) + i]

\* A finalised context takes nothing (what a CMAC still takes is in no digest).
\* DigestUpdate reports that only to the callers that ask for a result, and not
\* to the channel procedures.
DigestUpdate(c, data) == IF c.finals = 0 THEN [c EXCEPT !.data = @ \o data] ELSE c

\* Finalising again fails, or gives another digest: that depends on the digest.
Finals(c) ==
    {[ok |-> ok, digest |-> c.data, ctx |-> [c EXCEPT !.finals = @ + 1]]
      : ok \in IF c.finals = 0 THEN {TRUE} ELSE BOOLEAN}

\* An update with the next n units.
Take(n) ==
    /\ ctx' = DigestUpdate(ctx, Piece(n))
    /\ given' = given \o Piece(n)

\* Mutant: the size of the buffer is taken for the number of units read.
TakeFromBuffer(n) == source' = source - n /\ Take(n)

\* An update with n units of the source.
TakeFrom(n) == n <= source /\ source' = source - n /\ Take(n)

Live == phase \in {"open", "eof"} /\ state.life = "live"

\* DigestFinalize with the result left to the interpreter, then DigestStateFree.
Return(f) ==
    /\ ctx' = f.ctx
    /\ out' = IF f.ok THEN Append(out, f.digest) ELSE out
    /\ phase' = IF f.ok THEN "done" ELSE "error"
    /\ state' = [state EXCEPT !.life = "freed"]

-----------------------------------------------------------------------------
(* -data, -command and -file.                                              *)

DigestDataHandler ==
    /\ via = "data" /\ phase = "open"
    /\ \E c \in {DigestUpdate(ctx, Piece(source))} : \E f \in Finals(c) : Return(f)
    /\ given' = given \o Piece(source) /\ source' = 0
    /\ UNCHANGED <<via, broken>>

\* DigestInstanceObjCmd: update.
CommandUpdate ==
    /\ via = "command" /\ phase = "open"
    /\ \E n \in Sizes : TakeFrom(n)
    /\ UNCHANGED <<via, state, phase, broken, out>>

\* DigestInstanceObjCmd: finalize, which deletes the command.
CommandFinalize ==
    /\ via = "command" /\ phase = "open"
    /\ \E f \in Finals(ctx) : Return(f)
    /\ UNCHANGED <<via, source, broken, given>>

\* The script deletes the command.
DigestCommandDeleteHandler ==
    /\ via = "command" /\ phase = "open"
    /\ state' = [state EXCEPT !.life = "freed"] /\ phase' = "error"
    /\ UNCHANGED <<via, ctx, source, broken, given, out>>

\* DigestFileHandler: one turn of its loop, which goes on after a read that failed.
FileRead ==
    /\ via = "file" /\ phase = "open" /\ ~broken
    /\ \E n \in Sizes : TakeFrom(n)
    /\ UNCHANGED <<via, state, phase, broken, out>>

FileBreaks ==
    /\ via = "file" /\ phase = "open" /\ source > 0 /\ ~broken
    /\ broken' = TRUE
    /\ UNCHANGED <<via, state, ctx, phase, source, given, out>>

\* Mutant: the end of an empty read is not taken for the end of the file.
FileOverNever == source < 0

FileOver == source = 0

\* A close of the file that fails makes an error of it, and the digest is not returned.
FileEnd ==
    /\ via = "file" /\ phase = "open" /\ FileOver
    /\ \E f \in Finals(ctx), closed \in BOOLEAN : Return([f EXCEPT !.ok = @ /\ closed])
    /\ UNCHANGED <<via, source, broken, given>>

-----------------------------------------------------------------------------
(* -channel.                                                               *)

\* DigestOutputProc: it takes all it is offered, and writes nothing.
DigestOutputProc ==
    /\ via = "channel" /\ Live /\ state.mode \in {"w", "rw"}
    /\ \E n \in Sizes : Len(given) + source + n <= MaxUnits /\ Take(n)
    /\ UNCHANGED <<via, state, phase, source, broken, out>>

\* DigestInputProc with data: the script is told EAGAIN.
InputData ==
    /\ via = "channel" /\ Live /\ state.mode \in {"r", "rw"}
    /\ \E n \in Sizes : TakeFrom(n)
    /\ UNCHANGED <<via, state, phase, broken, out>>

Marked == [state EXCEPT !.eof = TRUE]

\* DigestInputProc at the end of the channel below: the digest, once, then EOF.
InputEof ==
    /\ via = "channel" /\ Live /\ state.mode \in {"r", "rw"} /\ source = 0
    /\ IF state.eof
       THEN phase' = "eof" /\ UNCHANGED <<state, ctx, out>>
       ELSE \E f \in Finals(ctx) :
              /\ ctx' = f.ctx /\ state' = Marked
              /\ IF f.ok THEN out' = Append(out, f.digest) /\ UNCHANGED phase
                 ELSE phase' = "eof" /\ UNCHANGED out
    /\ UNCHANGED <<via, source, broken, given>>

\* Whether a digest that is written arrives.  A channel open for reading takes
\* nothing, and DigestCloseProc does not look at the result.
Arrives == IF state.mode = "r" THEN {FALSE} ELSE IF Reliable THEN {TRUE} ELSE BOOLEAN

\* Mutant: DigestCloseProc does not look at CHAN_EOF.
OwedAlways == TRUE

\* Mutant: the close leaves the digest to an EOF, also where nothing is read.
OwedToReaders == ~state.eof /\ state.mode = "r"

\* The digest was not delivered at an EOF.
Owed == ~state.eof

\* DigestCloseProc.
DigestCloseProc ==
    /\ via = "channel" /\ Live
    /\ IF Owed
       THEN \E f \in Finals(ctx), there \in Arrives :
              /\ ctx' = f.ctx /\ out' = IF f.ok /\ there THEN Append(out, f.digest) ELSE out
              /\ state' = [state EXCEPT !.eof = TRUE, !.life = "freed"]
       ELSE state' = [state EXCEPT !.life = "freed"] /\ UNCHANGED <<ctx, out>>
    /\ phase' = "done"
    /\ UNCHANGED <<via, source, broken, given>>

-----------------------------------------------------------------------------
Next == DigestDataHandler \/ CommandUpdate \/ CommandFinalize
        \/ DigestCommandDeleteHandler \/ FileRead \/ FileBreaks \/ FileEnd
        \/ DigestOutputProc \/ InputData \/ InputEof \/ DigestCloseProc

Spec == Init /\ [][Next]_vars

\* DigestFileHandler runs to its end.
FairSpec == Spec /\ WF_vars(FileRead \/ FileEnd)

-----------------------------------------------------------------------------
\* t begins with s.
Begins(s, t) == Len(s) <= Len(t) /\ SubSeq(t, 1, Len(s)) = s

\* There is one digest at most, though an EOF, further reads and the close each
\* try, and it is that of everything given, in order.  Only on a channel open in
\* both directions may writes follow the EOF of the reads, which
\* DigestOutputProc reports as taken and no digest contains.
OneDigestOfAll ==
    /\ Len(out) <= 1
    /\ \A i \in DOMAIN out :
         Begins(out[i], given) /\ (state.mode # "rw" \/ via # "channel" => out[i] = given)

\* The digest is delivered: when an EOF is reported, when a writable channel is
\* closed, and when a command, a value or a file is done.
Delivered ==
    phase = "eof" \/ (phase = "done" /\ (via # "channel" \/ (Reliable /\ state.mode # "r")))
        => out # <<>>

\* DigestFileHandler comes to an end, unless the file cannot be read: its loop
\* leaves at the end of the file and not at an error.
FileEnds == via = "file" ~> phase \in {"done", "error"} \/ broken

=============================================================================
