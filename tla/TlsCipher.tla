----------------------------- MODULE TlsCipher -----------------------------
(***************************************************************************)
(* The cipher context of the encryption commands (generic/tlsEncrypt.c),   *)
(* as far as the code around it depends on it: which units an update hands *)
(* back, which it keeps for a later block, and when the finalisation fails.*)
(* The cipher itself belongs to OpenSSL; here a unit stands for itself in  *)
(* clear and in cipher text, and 0 is a unit of padding.                   *)
(*                                                                         *)
(* A context is a record `ctx':                                            *)
(*   type     "encrypt" or "decrypt"                                       *)
(*   block    the block size in units; 1 for a stream cipher               *)
(*   padding  whether a short last block is padded                         *)
(*   buf      the units taken and not handed back yet                      *)
(*   finals   how often the context was finalised                          *)
(***************************************************************************)
EXTENDS Integers, Sequences, FiniteSets

Pad == 0
Types == {"encrypt", "decrypt"}

Ctx == [type: Types, block: Nat \ {0}, padding: BOOLEAN, buf: Seq(Nat), finals: Nat]

\* EncryptInitialize.
NewCtx(type, block, padding) ==
    [type |-> type, block |-> block, padding |-> padding, buf |-> <<>>, finals |-> 0]

\* Mutant: padding is left on for the context that decrypts only.
PadsDecrypt(ctx) == ctx.type = "decrypt" /\ ctx.padding /\ ctx.block > 1

Pads(ctx) == ctx.padding /\ ctx.block > 1

\* Mutant: a whole block is kept back even when a part of the next one is there.
ReadyLate(ctx, n) ==
    IF ctx.type = "decrypt" /\ Pads(ctx) /\ n >= ctx.block
    THEN (n \div ctx.block) * ctx.block - ctx.block
    ELSE (n \div ctx.block) * ctx.block

\* Of n units, how many an update hands back: whole blocks, and when there is
\* padding to be taken off, never the last one.
Ready(ctx, n) ==
    IF ctx.type = "decrypt" /\ Pads(ctx) /\ n > 0 /\ n % ctx.block = 0 THEN n - ctx.block
    ELSE (n \div ctx.block) * ctx.block

\* Mutant: what a new block is made of does not include what was kept.
EncryptUpdateFresh(ctx, data) ==
    LET k == Ready(ctx, Len(data))
    IN  [ctx |-> [ctx EXCEPT !.buf = SubSeq(data, k + 1, Len(data))], out |-> SubSeq(data, 1, k)]

EncryptUpdate(ctx, data) ==
    LET all == ctx.buf \o data
        k   == Ready(ctx, Len(all))
    IN  [ctx |-> [ctx EXCEPT !.buf = SubSeq(all, k + 1, Len(all))], out |-> SubSeq(all, 1, k)]

\* Padding fills the last block, and is a block of its own after a full one.
Padded(ctx, cells) == cells \o [i \in 1..(ctx.block - (Len(cells) % ctx.block)) |-> Pad]

\* Padding is at the end.
Units(cells) == {i \in DOMAIN cells : cells[i] # Pad}
Unpadded(cells) == SubSeq(cells, 1, Cardinality(Units(cells)))

\* A finalisation that fails leaves the context as it was.
EncryptFinalize(ctx) ==
    LET n  == Len(ctx.buf)
        ok == IF ~Pads(ctx) THEN n = 0
              ELSE ctx.type = "decrypt" => n = ctx.block /\ ctx.buf[n] = Pad
    IN  [ok  |-> ok,
         out |-> CASE ~ok \/ ~Pads(ctx) -> <<>>
                   [] ok /\ Pads(ctx) /\ ctx.type = "encrypt" -> Padded(ctx, ctx.buf)
                   [] OTHER -> Unpadded(ctx.buf),
         ctx |-> [ctx EXCEPT !.buf = IF ok THEN <<>> ELSE @, !.finals = @ + 1]]

-----------------------------------------------------------------------------
(* The reference: what a message as a whole becomes.                       *)

Message(n) == [i \in 1..n |-> i]

\* Whether the message can be transformed at all.
Valid(ctx, cells) ==
    LET n == Len(cells) IN
    IF ~Pads(ctx) THEN n % ctx.block = 0
    ELSE ctx.type = "decrypt" => n > 0 /\ n % ctx.block = 0 /\ cells[n] = Pad

Transform(ctx, cells) ==
    IF ~Pads(ctx) THEN cells
    ELSE IF ctx.type = "encrypt" THEN Padded(ctx, cells) ELSE Unpadded(cells)

\* The messages of at most `max' units given to a context: clear text to be
\* encrypted, and cipher text, perhaps cut short, to be decrypted.
Messages(ctx, max) ==
    IF ctx.type = "encrypt" \/ ~Pads(ctx) THEN {Message(n) : n \in 0..max}
    ELSE UNION {{SubSeq(Padded(ctx, Message(n)), 1, k) : k \in 0..Len(Padded(ctx, Message(n)))}
                 : n \in 0..max}

=============================================================================
