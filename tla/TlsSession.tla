------------------------------ MODULE TlsSession ------------------------------
(***************************************************************************)
(* Imported channels and the handshakes made on them: TlsImport, and the   *)
(* callbacks OpenSSL makes with the arguments the imports registered.      *)
(*                                                                         *)
(* `hs' is one handshake, at a callback at a time.  The order of the       *)
(* callbacks and what OpenSSL makes of their answers are external.  After  *)
(* a callback any script may run: the one the callback evaluated, or one   *)
(* of the event loop between two attempts at a handshake.                  *)
(***************************************************************************)
EXTENDS TlsImport

CONSTANTS
    Hellos,    \* server name extensions of a client hello; <<>> is none
    MaxChain   \* bound: certificates of a peer

ASSUME SessionAssumption == MaxChain \in Nat /\ Hellos \subseteq Seq(Nat)

Chains == UNION {[1..n -> BOOLEAN] : n \in 0..MaxChain}

\* An answer that turns something down.
Rejects(answer) == answer \in {"error", "0"}

InHandshake(step) == Idle /\ hs.at = step
Conn == state[hs.st]

InProgress == {"hello", "sni", "alpn", "certs", "verify", "session", "error"}

\* A handshake that failed leaves nothing behind; Tls_Error reports it first.
Outcome(h) ==
    IF h.at # "failed" THEN h
    ELSE [NoHandshake EXCEPT !.st = h.st, !.at = IF Tls_Error(Conn.conf) THEN "error" ELSE "failed"]

\* The State a callback of the SSL_CTX gets.
Arg(field) == ctx[Conn.ctx][field]

\* A connection has one handshake: Tls_WaitForConnect returns at once when it is
\* complete, and when it has failed.
HandshakeStart(c, i) ==
    /\ Idle /\ hs.at \in {"none", "done", "failed"}
    /\ chan[c].open /\ i \in DOMAIN chan[c].layers
    /\ LET s == chan[c].layers[i]
           over == hist.over \cup {hs.st}
       IN  /\ s \notin over
           /\ hist' = [hist EXCEPT !.over = over]
           /\ IF state[s].life = "live"
              THEN /\ \E ext \in IF state[s].conf.server THEN Hellos ELSE {<<>>} :
                         hs' = [NoHandshake EXCEPT !.st = s, !.ext = ext,
                                  !.at = IF state[s].conf.server THEN "hello" ELSE "certs"]
                   /\ UNCHANGED faults
              ELSE Fault("state") /\ UNCHANGED hs
    /\ UNCHANGED <<chan, state, ctx, job>>

\* A callback of the SSL_CTX whose State is gone.
ArgumentGone ==
    /\ Idle
    /\ \/ hs.at = "hello" /\ state[Arg("hello")].life = "freed"
       \/ hs.at = "alpn" /\ Arg("alpn") # NoId /\ state[Arg("alpn")].life = "freed"
    /\ Fault("state")
    /\ UNCHANGED <<chan, state, ctx, job, hist, hs>>

\* RETRY leaves the handshake where it is.
Hello ==
    /\ InHandshake("hello") /\ state[Arg("hello")].life = "live"
    /\ \E answer \in Answers :
         LET conf == state[Arg("hello")].conf
             res  == HelloCallback(conf, hs.ext # <<>>, hs.ext, answer)
             read == HelloServerName(hs.ext)
             asks == conf.vcmd /\ (hs.ext # <<>> => read.ok)
         IN  hs' = Outcome([hs EXCEPT
                     !.at = CASE res = "SUCCESS" -> "sni" [] res = "RETRY" -> @
                              [] res = "ERROR" -> "failed",
                     !.asked = asks,
                     !.name = IF asks THEN read.name ELSE <<>>,
                     !.rejected = @ \/ (asks /\ Rejects(answer))])
    /\ UNCHANGED <<chan, state, ctx, job, faults, hist>>

\* OpenSSL reads the server name itself, and answers a malformed one with an alert.
ServerName ==
    /\ InHandshake("sni") /\ state[Arg("hello")].life = "live"
    /\ \E answer \in Answers :
         LET conf == state[Arg("hello")].conf
             read == HelloServerName(hs.ext)
             res  == SNICallback(conf, read.name, answer)
             asks == conf.vcmd /\ read.name # <<>>
         IN  hs' = Outcome([hs EXCEPT
                     !.at = IF (hs.ext # <<>> /\ ~read.ok) \/ res = "ALERT_FATAL"
                            THEN "failed" ELSE "alpn",
                     !.ext = <<>>, !.asked = FALSE, !.name = <<>>,
                     !.rejected = @ \/ (asks /\ Rejects(answer))])
    /\ UNCHANGED <<chan, state, ctx, job, faults, hist>>

\* The client may have sent a protocol list, and it may match.
Protocol ==
    /\ InHandshake("alpn") /\ (Arg("alpn") # NoId => state[Arg("alpn")].life = "live")
    /\ \E sent \in BOOLEAN, match \in BOOLEAN, answer \in Answers :
         IF sent /\ Arg("alpn") # NoId
         THEN LET conf == state[Arg("alpn")].conf
                  res  == ALPNCallback(conf, match, answer)
              IN  hs' = Outcome([hs EXCEPT
                          !.at = IF res = "ALERT_FATAL" THEN "failed" ELSE "certs",
                          !.rejected = @ \/ (conf.vcmd /\ Rejects(answer))])
         ELSE hs' = [hs EXCEPT !.at = "certs"]
    /\ UNCHANGED <<chan, state, ctx, job, faults, hist>>

\* A client always gets certificates; a server asks for them, and may get none.
PeerCertificates ==
    /\ InHandshake("certs")
    /\ \E chain \in Chains :
         /\ Conn.conf.server \/ chain # <<>>
         /\ hs' = Outcome([hs EXCEPT
                     !.chain = IF Conn.conf.server /\ ~Conn.conf.peer THEN <<>> ELSE chain,
                     !.certs = chain # <<>> /\ (Conn.conf.server => Conn.conf.peer),
                     !.at = CASE Conn.conf.server /\ ~Conn.conf.peer -> "done"
                              [] Conn.conf.server /\ Conn.conf.peer /\ chain = <<>> ->
                                   IF Conn.conf.mandatory THEN "failed" ELSE "done"
                              [] OTHER -> "verify"])
    /\ UNCHANGED <<chan, state, ctx, job, faults, hist>>

\* Without SSL_VERIFY_PEER the outcome is ignored, and a refusal ends the checks.
Verify ==
    /\ InHandshake("verify")
    /\ \E answer \in Answers :
         LET conf == Conn.conf
             ok   == Head(hs.chain)
             pass == VerifyCallback(conf, ok, answer)
         IN  hs' = Outcome([hs EXCEPT
                     !.chain = IF pass THEN Tail(hs.chain) ELSE <<>>,
                     !.at = IF conf.peer /\ ~pass THEN "failed"
                            ELSE IF pass /\ Len(hs.chain) > 1 THEN "verify"
                            ELSE IF conf.server THEN "done" ELSE "session",
                     !.bad = @ \/ ~ok,
                     !.rejected = @ \/ (conf.peer /\ conf.vcmd /\ Rejects(answer)),
                     !.quiet = @ /\ answer = "empty"])
    /\ UNCHANGED <<chan, state, ctx, job, faults, hist>>

\* SessionCallback of a client: whatever the script returns, it answers 0, and
\* OpenSSL keeps the session for itself.
NewSession ==
    /\ InHandshake("session")
    /\ hs' = [hs EXCEPT !.at = "done"]
    /\ UNCHANGED <<chan, state, ctx, job, faults, hist>>

ErrorReported ==
    /\ InHandshake("error")
    /\ hs' = [hs EXCEPT !.at = "failed"]
    /\ UNCHANGED <<chan, state, ctx, job, faults, hist>>

\* The State whose -validatecommand a callback evaluates.
Consulted == CASE hs.at \in {"hello", "sni"} -> Arg("hello")
               [] hs.at = "alpn" -> Arg("alpn")
               [] OTHER -> hs.st

\* A script is evaluated while OpenSSL, or the driver, is at work on the connection.
Evaluates ==
    \/ /\ hs.at \in {"hello", "sni", "alpn", "verify"}
       /\ Consulted # NoId /\ state[Consulted].conf.vcmd
    \/ hs.at = "session" /\ SessionCallback(Conn.conf)
    \/ hs.at = "error" /\ Tls_Error(Conn.conf)
    \/ hs.at # "error" /\ (InfoCallback(Conn.conf) \/ MessageCallback(Conn.conf))

\* The script closes the connection it was called for: EvalCallback lets go of the
\* State while the call into OpenSSL, or the procedure that called Tls_Error, is still
\* to use it.
ScriptCloses ==
    /\ Idle /\ hs.at \in InProgress /\ Evaluates
    /\ Fault("state")
    /\ hist' = [hist EXCEPT !.inside = TRUE]
    /\ UNCHANGED <<chan, state, ctx, job, hs>>

-----------------------------------------------------------------------------
Handshake ==
    \/ \E c \in Channels : \E i \in 1..MaxImports : HandshakeStart(c, i)
    \/ Hello \/ ServerName \/ Protocol \/ PeerCertificates \/ Verify \/ NewSession
    \/ ErrorReported \/ ArgumentGone \/ ScriptCloses

Init == ImportInit
Next == ImportNext \/ Handshake
Spec == Init /\ [][Next]_vars

-----------------------------------------------------------------------------
Steps == CtxSteps \cup LateSteps
         \cup {"none", "model", "ctx", "options", "stack", "restore", "register"}
AnyId == Ids \cup {NoId}
AnyChannel == Channels \cup {"none"}

ChanRec == [open: BOOLEAN, layers: Seq(Ids), opts: Opts]
StateRec == [life: {"none", "live", "freed"}, ctx: AnyId, ssl: BOOLEAN, conf: Conf]
CtxRec == [refs: Nat, hello: AnyId, alpn: AnyId, trusted: SUBSET Certs, names: SUBSET Certs,
           unread: BOOLEAN]
JobRec == [at: Steps, named: AnyChannel, chan: AnyChannel, depth: Nat, st: AnyId,
           model: AnyChannel, saved: Opts]
HistRec == [imports: 0..MaxImports, model: BOOLEAN, late: BOOLEAN, closed: BOOLEAN,
            inside: BOOLEAN, unstacked: SUBSET Channels, over: SUBSET AnyId, opts: Opts,
            openssl3: BOOLEAN, leaked: SUBSET Ids]
HandshakeRec == [st: AnyId, at: InProgress \cup {"none", "done", "failed"}, ext: Seq(Nat),
                 chain: Seq(BOOLEAN), certs: BOOLEAN, bad: BOOLEAN, rejected: BOOLEAN,
                 quiet: BOOLEAN, asked: BOOLEAN, name: Seq(Nat)]

\* The variables hold what their comments say.
TypeOK ==
    /\ chan \in [Channels -> ChanRec]
    /\ state \in [Ids -> StateRec]
    /\ ctx \in [Ids -> CtxRec]
    /\ job \in JobRec
    /\ faults \subseteq {"ctx", "state", "chan"}
    /\ hist \in HistRec
    /\ hs \in HandshakeRec

\* An SSL_CTX lives as long as a State or the import that makes it holds it; as
\* long as none is shared its count is exactly that of its holders.  Before OpenSSL 3
\* CTX_Init leaks the one it is making when it cannot load the CA file or directory, and
\* no other is leaked.
ContextsHeld ==
    faults = {} =>
    \A c \in Ids :
        LET making == job.st = c /\ job.at \in CtxSteps
            mine   == state[c].ctx = c
            leaked == ~hist.openssl3 /\ c \in hist.leaked
        IN  /\ ctx[c].refs > 0 => making \/ leaked \/ \E s \in Ids : state[s].ctx = c
            /\ ~hist.model => ctx[c].refs = (IF making \/ mine \/ leaked THEN 1 ELSE 0)
                                           + (IF mine /\ state[c].ssl THEN 1 ELSE 0)

\* Every live State is that of the import in progress or of exactly one layer, and
\* every layer has a live State unless an import failed after stacking it.
LayersOwned ==
    faults = {} =>
    /\ \A s \in Ids :
          state[s].life = "live" =>
             \/ job.st = s
             \/ \E c \in Channels : s \in ToSet(chan[c].layers)
    /\ \A c, d \in Channels : \A i \in DOMAIN chan[c].layers, j \in DOMAIN chan[d].layers :
          chan[c].layers[i] = chan[d].layers[j] => c = d /\ i = j
    /\ ~hist.late => \A c \in Channels : LayersLive(c)

\* Between commands a channel has the options its script gave it, unless a layer
\* could not be stacked on it.
OptionsKept ==
    job.at = "none" => \A c \in Channels \ hist.unstacked : chan[c].opts = hist.opts

\* What is used after it is gone, and what must have happened before: a shared
\* SSL_CTX, an import that failed late, a script that closed the connection whose
\* handshake called it, a password script that closed the channel being imported.
FaultsHaveCauses ==
    /\ "ctx" \in faults => hist.model
    /\ "state" \in faults => hist.model \/ hist.late \/ hist.inside
    /\ "chan" \in faults => hist.closed

\* A server's callbacks get the State of its own import, or that of a later one that
\* shares its SSL_CTX, never that of an earlier one, whose channel may be gone.
ArgumentsLast ==
    faults = {} =>
    \A s \in Ids \ {job.st} : state[s].life = "live" /\ state[s].conf.server =>
        LET x == ctx[state[s].ctx]
        IN  /\ x.hello >= s
            /\ state[s].conf.protos => x.alpn >= s
            /\ ~hist.model => {x.hello, x.alpn} \subseteq {NoId, s}

\* The CA certificates a server lists are those it trusts, unless OpenSSL listed a
\* file that it could not load.
ListedIsTrusted == \A c \in Ids : ~ctx[c].unread => ctx[c].names \subseteq ctx[c].trusted

\* A handshake with -require and without a script ends well only on a chain of
\* valid certificates.
Trusted ==
    hs.at = "done" /\ Conn.conf.require /\ ~Conn.conf.vcmd => hs.certs /\ ~hs.bad

\* A handshake does not end well when a script turned something down.
ScriptsRespected == hs.at = "done" => ~hs.rejected

\* The script of the hello is told the name in the first entry of the extension.
NameInHello ==
    hs.asked /\ hs.ext # <<>> =>
        /\ Short(hs.ext[1], hs.ext[2]) = Len(hs.ext) - 2
        /\ hs.ext[3] = 0
        /\ Short(hs.ext[4], hs.ext[5]) = Len(hs.name)
        /\ IsPrefix(hs.name, SubSeq(hs.ext, 6, Len(hs.ext)))

=============================================================================
