---------------------------- MODULE MCTlsChannel ----------------------------
(***************************************************************************)
(* Constant values of the TLC instances of TlsChannel.                     *)
(***************************************************************************)
EXTENDS TlsClaims

\* fileevent readable, or none.
ReadInterests == {{}, {"R"}}
AllInterests == SUBSET Direction
AlwaysRead == {{"R"}}

NonBlocking == {TRUE}
BothModes == BOOLEAN
=============================================================================
