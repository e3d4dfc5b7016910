----------------------------- MODULE MCTlsSession -----------------------------
(***************************************************************************)
(* Constant values of the TLC instances of TlsSession.                     *)
(***************************************************************************)
EXTENDS TlsSessionClaims

\* The channels are interchangeable.
Interchangeable == Permutations(Channels)

Client == [server |-> FALSE, request |-> -1, require |-> -1,
           command |-> FALSE, vcmd |-> FALSE, protos |-> FALSE, model |-> "none"]
Server == [Client EXCEPT !.server = TRUE]

Asking == [Server EXCEPT !.command = TRUE, !.vcmd = TRUE, !.protos = TRUE, !.request = 1]

\* -model with each channel, and what a script asks for of the peer and of itself.
Commands ==
    {Client, [Client EXCEPT !.vcmd = TRUE], [Client EXCEPT !.require = 0, !.command = TRUE],
     [Server EXCEPT !.require = 1, !.request = 0], Asking}
    \cup {[o EXCEPT !.model = c] : o \in {Client, Asking, [Asking EXCEPT !.protos = FALSE]}, c \in Channels}

\* A file of two certificates.
Files == {<<"ca1", "ca2">>}

\* No extension; one name of one byte; the same before another entry; a length too
\* long for the list, for the name, a name of another type, no name at all.
HelloExtensions ==
    {<<>>, <<0, 4, 0, 0, 1, 7>>, <<0, 6, 0, 0, 1, 7, 0, 0>>, <<0, 5, 0, 0, 1, 7>>,
     <<0, 4, 0, 0, 2, 7>>, <<0, 4, 1, 0, 1, 7>>, <<0, 3, 0, 0, 0>>, <<0, 0>>}
=============================================================================
