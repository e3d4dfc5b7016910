----------------------------- MODULE TlsCallbacks -----------------------------
(***************************************************************************)
(* The callbacks OpenSSL makes into generic/tls.c, as operators: what each *)
(* answers OpenSSL, given the State it was registered with and what the    *)
(* script it evaluates returns.                                            *)
(*                                                                         *)
(* The part of a State they read is a record `conf':                       *)
(*   server     the side of the connection                                 *)
(*   require    a certificate of the peer is required                      *)
(*   peer       SSL_VERIFY_PEER was asked for                              *)
(*   mandatory  SSL_VERIFY_FAIL_IF_NO_PEER_CERT was asked for              *)
(*   command    there is a -command script                                 *)
(*   vcmd       there is a -validatecommand script                         *)
(*   protos     there is an -alpn protocol list                            *)
(***************************************************************************)
EXTENDS Naturals, Integers, Sequences, SequencesExt

Conf == [server: BOOLEAN, require: BOOLEAN, peer: BOOLEAN, mandatory: BOOLEAN,
         command: BOOLEAN, vcmd: BOOLEAN, protos: BOOLEAN]

\* What a script comes to: an error, an integer, or a result that is no integer.
Answers == {"error", "0", "1", "2", "-1", "empty"}

\* Mutant: the error of a script counts as its consent.
EvalCallbackErrorOk(answer) ==
    CASE answer = "0" -> 0 [] answer = "2" -> 2 [] answer = "-1" -> -1 [] OTHER -> 1

\* 0 for an error, the integer that was returned, 1 for any other result.
EvalCallback(answer) ==
    CASE answer \in {"error", "0"} -> 0
      [] answer = "2" -> 2
      [] answer = "-1" -> -1
      [] answer \in {"1", "empty"} -> 1

\* Whether the -command script is told of a step of the handshake, of a message, of a
\* session, of an error.  What it returns is ignored.
InfoCallback(conf) == conf.command
MessageCallback(conf) == conf.command
SessionCallback(conf) == conf.command
Tls_Error(conf) == conf.command

-----------------------------------------------------------------------------
\* The defaults of -request and -require, 1 on the client and 0 on the server,
\* replace a value of -1.
OrDefault(value, server) == IF value = -1 THEN (IF server THEN 0 ELSE 1) ELSE value

\* Mutant: a required certificate is not asked for.
VerifyModeUnasked(o) ==
    LET require == OrDefault(o.require, o.server) # 0
        request == OrDefault(o.request, o.server) # 0
    IN  [peer |-> request, mandatory |-> request /\ require]

\* A certificate that is required is requested.
VerifyMode(o) ==
    LET require == OrDefault(o.require, o.server) # 0
        request == require \/ OrDefault(o.request, o.server) # 0
    IN  [peer |-> request, mandatory |-> request /\ require]

\* Mutant: without a script every certificate will do.
VerifyCallbackLax(conf, ok, answer) ==
    IF conf.vcmd THEN EvalCallback(answer) # 0 ELSE TRUE

\* Whether the verification goes on after a certificate found valid, or not.
VerifyCallback(conf, ok, answer) ==
    IF conf.vcmd THEN EvalCallback(answer) # 0
    ELSE conf.mandatory => ok

\* The three ways a server's script can take a value of the client hello.
Decision(answer, accepted, refused, fatal) ==
    CASE EvalCallback(answer) > 1 -> refused
      [] EvalCallback(answer) = 1 -> accepted
      [] OTHER -> fatal

ALPNCallback(conf, match, answer) ==
    IF conf.vcmd THEN Decision(answer, "OK", "NOACK", "ALERT_FATAL")
    ELSE IF match THEN "OK" ELSE "NOACK"

SNICallback(conf, name, answer) ==
    IF name = <<>> THEN "NOACK"
    ELSE IF conf.vcmd THEN Decision(answer, "OK", "ALERT_WARNING", "ALERT_FATAL")
    ELSE "OK"

-----------------------------------------------------------------------------
\* Two bytes of a length.
Short(hi, lo) == 256 * hi + lo

Malformed == [ok |-> FALSE, name |-> <<>>]

\* Mutant: the length of the name is not held against what is left of the list.
HelloServerNameLong(ext) ==
    IF Len(ext) <= 2 \/ Short(ext[1], ext[2]) + 2 # Len(ext) THEN Malformed
    ELSE IF Len(ext) = 2 \/ ext[3] # 0 \/ Len(ext) - 3 <= 2 THEN Malformed
    ELSE [ok |-> TRUE, name |-> SubSeq(ext, 6, Len(ext))]

\* The first entry of the server name extension: a two byte length of the list,
\* one byte of type, a two byte length of the name, the name.
HelloServerName(ext) ==
    IF Len(ext) <= 2 \/ Short(ext[1], ext[2]) + 2 # Len(ext) THEN Malformed
    ELSE LET list == Len(ext) - 2
             left == list - 1
         IN  IF list = 0 \/ ext[3] # 0 \/ left <= 2 THEN Malformed
             ELSE LET len == Short(ext[4], ext[5])
                  IN  IF len + 2 > left THEN Malformed
                      ELSE [ok |-> TRUE, name |-> SubSeq(ext, 6, 5 + len)]

\* `present' tells whether the client hello has the extension.
HelloCallback(conf, present, ext, answer) ==
    IF ~conf.vcmd THEN "SUCCESS"
    ELSE IF present /\ ~HelloServerName(ext).ok THEN "ERROR"
    ELSE Decision(answer, "SUCCESS", "RETRY", "ERROR")

\* The length of the password, or -1: then the key cannot be read.
PasswordCallback(answer, length, size) ==
    IF answer = "error" THEN -1
    ELSE IF length > size - 1 THEN size - 1 ELSE length

=============================================================================
