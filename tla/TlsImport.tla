------------------------------ MODULE TlsImport ------------------------------
(***************************************************************************)
(* tls::import, tls::unimport and the close of a channel (generic/tls.c):  *)
(* what they do to channels, to State structures and to SSL_CTX objects.   *)
(*                                                                         *)
(* A channel is a stack: the channel below, which is always there, and the *)
(* TLS layers on it, each the number of its State.  The options are those  *)
(* of the whole stack, as Tcl keeps them.  Import i allocates State i and, *)
(* without -model, SSL_CTX i.                                              *)
(*                                                                         *)
(* `job' is the import in progress: ImportObjCmd and CTX_Init run to their *)
(* end without anything in between, except for the script that asks for    *)
(* the password of a private key.  That script closes, unimports and makes *)
(* handshakes here, but an import of its own is left out: there is one     *)
(* import at a time.                                                       *)
(*                                                                         *)
(* A use of a structure that is gone is undefined.  It is recorded in      *)
(* `faults', and nothing is said of what follows.                          *)
(***************************************************************************)
EXTENDS TlsCallbacks, FiniteSets

CONSTANTS
    Channels,    \* channels a script may import
    MaxImports,  \* bound: imports
    Inputs,      \* options tls::import is called with
    CaFiles,     \* contents of a CA file: sequences of certificates
    Builds       \* OpenSSL of the build: a subset of BOOLEAN, TRUE is 3.0 or later

ASSUME ImportAssumption ==
    /\ MaxImports \in Nat \ {0}
    /\ \A o \in Inputs :
         /\ {o.server, o.command, o.vcmd, o.protos} \subseteq BOOLEAN
         /\ o.request \in {-1, 0, 1} /\ o.require \in {-1, 0, 1}
         /\ o.model \in Channels \cup {"none"}
    /\ "none" \notin Channels
    /\ Builds \subseteq BOOLEAN
    /\ \A file \in CaFiles : file \in Seq(ToSet(file))

VARIABLES
    chan,    \* channel -> open, layers, opts
    state,   \* State structures
    ctx,     \* SSL_CTX objects
    job,     \* the import in progress
    faults,  \* kinds of structures used after they were gone
    hist,    \* what happened: see ImportInit
    hs       \* the handshake being made, of which TlsSession has the steps

vars == <<chan, state, ctx, job, faults, hist, hs>>

Certs == UNION {ToSet(file) : file \in CaFiles}

Ids == 1..MaxImports
NoId == 0

\* The -translation, -encoding and -eofchar of a script, or binary mode.
Opts == [translation: {"script", "binary"}, blocking: BOOLEAN]
Binary == [translation |-> "binary", blocking |-> TRUE]

\* life: "none" is a State not allocated yet.
\* Fields of a State and of an SSL_CTX nobody holds are reset.
NoConf == [server |-> FALSE, require |-> FALSE, peer |-> FALSE, mandatory |-> FALSE,
           command |-> FALSE, vcmd |-> FALSE, protos |-> FALSE]
NoState == [life |-> "none", ctx |-> NoId, ssl |-> FALSE, conf |-> NoConf]
Dead == [NoState EXCEPT !.life = "freed"]

\* refs is the reference count of OpenSSL; hello and alpn are the
\* arguments of the callbacks that were registered (the one of the server name
\* callback is set with that of the hello); trusted and names are the CA
\* certificates of its store and of the list a server sends; unread: the
\* list comes from a file that could not be loaded into the store.
NoCtx == [refs |-> 0, hello |-> NoId, alpn |-> NoId, trusted |-> {},
          names |-> {}, unread |-> FALSE]

NoJob == [at |-> "none", named |-> "none", chan |-> "none", depth |-> 0, st |-> NoId,
          model |-> "none", saved |-> Binary]

\* st: the State of the connection.  chain: validity of the certificates still to
\* be looked at.  certs: whether there were any, bad: whether one was not valid.
\* rejected: a script turned down what it was asked about, quiet: the scripts asked
\* about certificates returned nothing.  name: what the script of the hello was
\* told, when it was asked; it and the extension are forgotten afterwards.
NoHandshake == [st |-> NoId, at |-> "none", ext |-> <<>>, chain |-> <<>>, certs |-> FALSE,
                bad |-> FALSE, rejected |-> FALSE, quiet |-> TRUE, asked |-> FALSE,
                name |-> <<>>]

CtxSteps == {"ciphers", "dh", "cert", "key", "password", "check", "ca"}
LateSteps == {"ssl", "name", "session", "alpn"}

-----------------------------------------------------------------------------
Top(c) == chan[c].layers[Len(chan[c].layers)]
Stacked(c) == chan[c].layers # <<>>

\* Tcl_Close takes the layers off one by one.
Closing(c) == ~chan[c].open /\ Stacked(c)

\* A script can run a command.
Idle == /\ faults = {} /\ job.at \in {"none", "password"}
        /\ \A c \in Channels : ~Closing(c)

At(step) == faults = {} /\ job.at = step
Goto(step) == job' = [job EXCEPT !.at = step]
Fault(kind) == faults' = faults \cup {kind}

\* Mutant: the count of a shared SSL_CTX is brought below zero.
TlsCleanUnguarded(ctxs, s) ==
    LET c == state[s].ctx
    IN  IF c = NoId THEN ctxs
        ELSE [ctxs EXCEPT ![c].refs = @ - (IF state[s].ssl THEN 2 ELSE 1)]

\* Tls_Clean: the references of the State and of its SSL object go.
TlsClean(ctxs, s) ==
    LET c == state[s].ctx
        n == IF state[s].ssl THEN 2 ELSE 1
    IN  IF c = NoId THEN ctxs
        ELSE IF ctxs[c].refs <= n THEN [ctxs EXCEPT ![c] = NoCtx]
        ELSE [ctxs EXCEPT ![c].refs = @ - n]

\* Tls_Clean gives back references nobody had, or the last one of an SSL_CTX that
\* another State goes on to use.
OverReleased(s) ==
    LET c == state[s].ctx
        n == IF state[s].ssl THEN 2 ELSE 1
    IN  /\ c # NoId
        /\ \/ ctx[c].refs < n
           \/ ctx[c].refs = n /\ \E t \in Ids \ {s} : state[t].ctx = c

TlsFree(s) ==
    /\ state' = [state EXCEPT ![s] = Dead]
    /\ ctx' = TlsClean(ctx, s)
    /\ faults' = IF OverReleased(s) THEN faults \cup {"ctx"} ELSE faults

-----------------------------------------------------------------------------
(* ImportObjCmd. *)

\* Up to the new State: the options are read, the topmost channel is found.
ImportObjCmd(c, o) ==
    /\ Idle /\ job.at = "none" /\ chan[c].open /\ hist.imports < MaxImports
    /\ LET s == hist.imports + 1
           mode == VerifyMode(o)
       IN  /\ state' = [state EXCEPT ![s] =
                 [NoState EXCEPT !.life = "live",
                    !.conf = [server |-> o.server,
                              require |-> OrDefault(o.require, o.server) # 0,
                              peer |-> mode.peer, mandatory |-> mode.mandatory,
                              command |-> o.command, vcmd |-> o.vcmd, protos |-> o.protos]]]
           /\ job' = [at |-> IF o.model = "none" THEN "ctx" ELSE "model", named |-> c,
                      chan |-> c, depth |-> Len(chan[c].layers), st |-> s,
                      model |-> o.model, saved |-> Binary]
           /\ hist' = [hist EXCEPT !.imports = s]
    /\ UNCHANGED <<chan, ctx, faults, hs>>

\* An import that fails before the layer is stacked frees the State.
ImportFails == TlsFree(job.st) /\ job' = NoJob

\* The model channel is gone or its top is not a TLS layer.
ModelRefused ==
    /\ At("model") /\ (~chan[job.model].open \/ ~Stacked(job.model))
    /\ ImportFails
    /\ UNCHANGED <<chan, hist, hs>>

\* The SSL_CTX of the top of the model channel is used as it is, and the model
\* channel takes the place of the one that was named.
ModelTaken ==
    /\ At("model") /\ chan[job.model].open /\ Stacked(job.model)
    /\ state[Top(job.model)].life = "live"
    /\ state' = [state EXCEPT ![job.st].ctx = state[Top(job.model)].ctx]
    /\ job' = [job EXCEPT !.at = "options", !.chan = job.model,
                          !.depth = Len(chan[job.model].layers)]
    /\ hist' = [hist EXCEPT !.model = TRUE]
    /\ UNCHANGED <<chan, ctx, faults, hs>>

ModelGone ==
    /\ At("model") /\ chan[job.model].open /\ Stacked(job.model)
    /\ state[Top(job.model)].life = "freed"
    /\ Fault("state")
    /\ UNCHANGED <<chan, state, ctx, job, hist, hs>>

-----------------------------------------------------------------------------
(* CTX_Init: the SSL_CTX is number job.st; the State points to it only when *)
(* CTX_Init has returned.                                                  *)

CtxFails ==
    /\ At("ctx")
    /\ ImportFails
    /\ UNCHANGED <<chan, hist, hs>>

CtxCreated ==
    /\ At("ctx")
    /\ ctx' = [ctx EXCEPT ![job.st] = [NoCtx EXCEPT !.refs = 1]]
    /\ Goto("ciphers")
    /\ UNCHANGED <<chan, state, faults, hist, hs>>

\* Mutant: an error path returns without SSL_CTX_free.
CtxRefusedKept ==
    /\ faults = {} /\ job.at \in CtxSteps \ {"ca", "password"}
    /\ ImportFails
    /\ UNCHANGED <<chan, hist, hs>>

\* Ciphers, DH parameters, certificate, private key or their match are refused:
\* the SSL_CTX is freed, NULL is returned and the import fails.  (For the CA see
\* VerifyLocationsRefused.)
CtxRefused ==
    /\ faults = {} /\ job.at \in CtxSteps \ {"ca", "password"}
    /\ state' = [state EXCEPT ![job.st] = Dead]
    /\ ctx' = [ctx EXCEPT ![job.st] = NoCtx]
    /\ job' = NoJob
    /\ UNCHANGED <<chan, faults, hist, hs>>

\* Ciphers, DH parameters and the match of certificate and key are accepted.
Configured ==
    /\ faults = {} /\ job.at \in {"ciphers", "dh", "check"}
    /\ Goto(CASE job.at = "ciphers" -> "dh" [] job.at = "dh" -> "cert" [] job.at = "check" -> "ca")
    /\ UNCHANGED <<chan, state, ctx, faults, hist, hs>>

\* With a certificate of its own goes a private key.  The default certificate
\* file is tried, without a key, when there is none.
CertificateSet ==
    /\ At("cert")
    /\ \E own \in BOOLEAN : Goto(IF own THEN "key" ELSE "ca")
    /\ UNCHANGED <<chan, state, ctx, faults, hist, hs>>

\* The key is read, which takes a password when it is encrypted.
PrivateKeySet ==
    /\ At("key")
    /\ \E encrypted \in BOOLEAN : Goto(IF encrypted THEN "password" ELSE "check")
    /\ UNCHANGED <<chan, state, ctx, faults, hist, hs>>

\* PasswordCallback: without a password, or with the wrong one, the key is refused.
PasswordGiven ==
    /\ At("password") /\ Idle
    /\ \E answer \in Answers, right \in BOOLEAN :
         IF PasswordCallback(answer, 1, 2) # -1 /\ right
         THEN Goto("check") /\ UNCHANGED <<state, ctx>>
         ELSE /\ state' = [state EXCEPT ![job.st] = Dead]
              /\ ctx' = [ctx EXCEPT ![job.st] = NoCtx]
              /\ job' = NoJob
    /\ UNCHANGED <<chan, faults, hist, hs>>

\* Mutant: the list is filled even when a certificate is refused by the store.
LoadClientCAPartly(x, file, good) ==
    [x EXCEPT !.trusted = @ \cup ToSet(SubSeq(file, 1, good)),
              !.names = IF good > 0 THEN ToSet(file) ELSE @]

\* TlsLoadClientCAFileFromMemory: the first `good' certificates of the file are
\* added to the store, where they stay.  The list of names is only set when all
\* were, and there is one.
LoadClientCA(x, file, good) ==
    [x EXCEPT !.trusted = @ \cup ToSet(SubSeq(file, 1, good)),
              !.names = IF good > 0 /\ good = Len(file) THEN ToSet(file) ELSE @]

\* OpenSSL loads the CA file of the native file system: all of it or nothing into
\* the store, and whatever it can read into the list of names.
LoadVerifyFile(x, file, loaded, listed) ==
    [x EXCEPT !.trusted = IF loaded THEN @ \cup ToSet(file) ELSE @,
              !.names = IF listed > 0 THEN ToSet(SubSeq(file, 1, listed)) ELSE @,
              !.unread = @ \/ (~loaded /\ listed > 0)]

\* CTX_Init returns: what could not be loaded is counted, and the count ignored.
CtxReady(x) ==
    /\ ctx' = [ctx EXCEPT ![job.st] = x]
    /\ state' = [state EXCEPT ![job.st].ctx = job.st]
    /\ Goto("options")
    /\ UNCHANGED <<chan, faults, hist, hs>>

\* The default paths, and no CA file: none was given or, since OpenSSL 3, it cannot be
\* found.  A directory or a store adds nothing until it is looked into.
VerifyPathsSet == At("ca") /\ CtxReady(ctx[job.st])

\* Before OpenSSL 3 CTX_Init returns NULL when it cannot load the CA file or directory,
\* without SSL_CTX_free: the import fails, and nobody holds the SSL_CTX any more.
VerifyLocationsRefused ==
    /\ At("ca") /\ ~hist.openssl3
    /\ hist' = [hist EXCEPT !.leaked = @ \cup {job.st}]
    /\ ImportFails
    /\ UNCHANGED <<chan, hs>>

CAfileFromMemory ==
    /\ At("ca") /\ hist.openssl3
    /\ \E file \in CaFiles : \E good \in 0..Len(file) :
         CtxReady(LoadClientCA(ctx[job.st], file, good))

CAfileNative ==
    /\ At("ca")
    /\ \E file \in CaFiles : \E loaded \in BOOLEAN, listed \in 0..Len(file) :
         /\ loaded => listed = Len(file)
         /\ loaded \/ hist.openssl3
         /\ CtxReady(LoadVerifyFile(ctx[job.st], file, loaded, listed))

-----------------------------------------------------------------------------
(* ImportObjCmd, from the options of the channel on.                       *)

\* The channel that was looked up is still there, and so are its layers.
ChanThere == chan[job.chan].open /\ Len(chan[job.chan].layers) >= job.depth
LayersLive(c) == \A i \in DOMAIN chan[c].layers : state[chan[c].layers[i]].life = "live"

\* The options of the script are put away, and binary and blocking mode set.
PreserveOptions ==
    /\ At("options") /\ ChanThere /\ LayersLive(job.chan)
    /\ job' = [job EXCEPT !.at = "stack", !.saved = chan[job.chan].opts]
    /\ chan' = [chan EXCEPT ![job.chan].opts = Binary]
    /\ UNCHANGED <<state, ctx, faults, hist, hs>>

\* The password script closed the channel, or took its layers off.
ChannelGone ==
    /\ At("options") /\ ~ChanThere
    /\ Fault("chan")
    /\ UNCHANGED <<chan, state, ctx, job, hist, hs>>

\* Setting the blocking mode calls TlsBlockModeProc of a layer without State.
LayerDead ==
    /\ At("options") /\ ChanThere /\ ~LayersLive(job.chan)
    /\ Fault("state")
    /\ UNCHANGED <<chan, state, ctx, job, hist, hs>>

StackChannel ==
    /\ At("stack")
    /\ chan' = [chan EXCEPT ![job.chan].layers = Append(@, job.st)]
    /\ Goto("restore")
    /\ UNCHANGED <<state, ctx, faults, hist, hs>>

\* Tcl_StackChannel fails, and the options stay as they are now.
StackRefused ==
    /\ At("stack")
    /\ hist' = [hist EXCEPT !.unstacked = @ \cup {job.chan}]
    /\ ImportFails
    /\ UNCHANGED <<chan, hs>>

\* Mutant: the blocking mode is not restored.
RestoreOptionsBlocking ==
    /\ At("restore")
    /\ chan' = [chan EXCEPT ![job.chan].opts.translation = job.saved.translation]
    /\ Goto("ssl")
    /\ UNCHANGED <<state, ctx, faults, hist, hs>>

RestoreOptions ==
    /\ At("restore")
    /\ chan' = [chan EXCEPT ![job.chan].opts = job.saved]
    /\ Goto("ssl")
    /\ UNCHANGED <<state, ctx, faults, hist, hs>>

\* SSL_new takes a reference to the SSL_CTX.
SslCreated ==
    /\ At("ssl")
    /\ state' = [state EXCEPT ![job.st].ssl = TRUE]
    /\ ctx' = [ctx EXCEPT ![state[job.st].ctx].refs = @ + 1]
    /\ Goto("name")
    /\ UNCHANGED <<chan, faults, hist, hs>>

\* Host name, session id and protocol list are set.
Prepared ==
    /\ faults = {} /\ job.at \in LateSteps \ {"ssl"}
    /\ Goto(CASE job.at = "name" -> "session" [] job.at = "session" -> "alpn"
              [] job.at = "alpn" -> "register")
    /\ UNCHANGED <<chan, state, ctx, faults, hist, hs>>

\* SSL_new or one of the settings fails: the State is freed, and stays the
\* instance data of the layer.
LateFails ==
    /\ faults = {} /\ job.at \in LateSteps
    /\ hist' = [hist EXCEPT !.late = TRUE]
    /\ ImportFails
    /\ UNCHANGED <<chan, hs>>

\* Mutant: the protocol callback keeps the State of an earlier import.
RegisterOnce ==
    /\ At("register")
    /\ LET s == job.st
           c == state[s].ctx
       IN  ctx' = IF state[s].conf.server
                  THEN [ctx EXCEPT ![c].hello = s,
                          ![c].alpn = IF state[s].conf.protos /\ @ = NoId THEN s ELSE @]
                  ELSE ctx
    /\ job' = NoJob
    /\ UNCHANGED <<chan, state, faults, hist, hs>>

\* The callbacks are set, those of a server on the SSL_CTX, and the import is done.
Register ==
    /\ At("register")
    /\ LET s == job.st
           c == state[s].ctx
       IN  ctx' = IF state[s].conf.server
                  THEN [ctx EXCEPT ![c].hello = s,
                                   ![c].alpn = IF state[s].conf.protos THEN s ELSE @]
                  ELSE ctx
    /\ job' = NoJob
    /\ UNCHANGED <<chan, state, faults, hist, hs>>

-----------------------------------------------------------------------------
(* tls::unimport, close.                                                   *)

\* Mutant: the State is freed and the layer stays where it is.
RemoveTopLeft(c) ==
    /\ state[Top(c)].life = "live"
    /\ TlsFree(Top(c))
    /\ hs' = IF hs.st = Top(c) THEN NoHandshake ELSE hs
    /\ UNCHANGED chan

\* The driver of the top layer closes: its State is freed, its handshake is over.
RemoveTop(c) ==
    /\ chan' = [chan EXCEPT ![c].layers = Front(@)]
    /\ hs' = IF hs.st = Top(c) THEN NoHandshake ELSE hs
    /\ IF state[Top(c)].life = "live" THEN TlsFree(Top(c))
       ELSE Fault("state") /\ UNCHANGED <<state, ctx>>

\* UnimportObjCmd, when nothing keeps the output from being flushed.
UnimportObjCmd(c) ==
    /\ Idle /\ chan[c].open /\ Stacked(c)
    /\ RemoveTop(c)
    /\ hist' = [hist EXCEPT !.closed = @ \/ (job.at = "password" /\ job.chan = c)]
    /\ UNCHANGED job

Close(c) ==
    /\ Idle /\ chan[c].open
    /\ chan' = [chan EXCEPT ![c].open = FALSE]
    /\ hist' = [hist EXCEPT !.closed = @ \/ (job.at = "password" /\ job.chan = c)]
    /\ UNCHANGED <<state, ctx, job, faults, hs>>

CloseLayer(c) ==
    /\ faults = {} /\ Closing(c)
    /\ RemoveTop(c)
    /\ UNCHANGED <<job, hist>>

-----------------------------------------------------------------------------
\* imports: commands begun.  model: an SSL_CTX was shared.  late: an import failed
\* with its layer stacked.  closed: the password script closed or unstacked the
\* channel being imported.  inside: the script of a handshake closed its own
\* connection.  unstacked: channels on which stacking failed.  over: States whose
\* handshake is over (and NoId).  opts: the options the script gave the channels.
\* openssl3: the build.  leaked: each SSL_CTX that CTX_Init left without a holder.
ImportInit ==
    /\ state = [s \in Ids |-> NoState]
    /\ ctx = [s \in Ids |-> NoCtx]
    /\ job = NoJob
    /\ hs = NoHandshake
    /\ faults = {}
    /\ \E opts \in Opts, openssl3 \in Builds :
         /\ opts.translation = "script"
         /\ chan = [c \in Channels |-> [open |-> TRUE, layers |-> <<>>, opts |-> opts]]
         /\ hist = [imports |-> 0, model |-> FALSE, late |-> FALSE, closed |-> FALSE,
                    inside |-> FALSE, unstacked |-> {}, over |-> {NoId}, opts |-> opts,
                    openssl3 |-> openssl3, leaked |-> {}]

CtxInit ==
    \/ CtxFails \/ CtxCreated \/ CtxRefused \/ Configured \/ CertificateSet
    \/ PrivateKeySet \/ PasswordGiven
    \/ VerifyPathsSet \/ VerifyLocationsRefused \/ CAfileFromMemory \/ CAfileNative

ImportStep ==
    \/ ModelRefused \/ ModelTaken \/ ModelGone
    \/ CtxInit
    \/ PreserveOptions \/ ChannelGone \/ LayerDead
    \/ StackChannel \/ StackRefused \/ RestoreOptions
    \/ SslCreated \/ Prepared \/ LateFails \/ Register

Command ==
    \E c \in Channels :
        \/ \E o \in Inputs : ImportObjCmd(c, o)
        \/ UnimportObjCmd(c) \/ Close(c) \/ CloseLayer(c)

ImportNext == ImportStep \/ Command

=============================================================================
