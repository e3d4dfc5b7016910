--------------------------- MODULE TlsSessionProofs ---------------------------
(***************************************************************************)
(* Proofs about imports and handshakes (TlsSession), for every set of      *)
(* channels, number of imports and set of options.                         *)
(*                                                                         *)
(* After a use of a structure that is gone nothing happens any more, so    *)
(* the parts of the invariant about structures are stated for states       *)
(* without one; every step is taken in such a state.                       *)
(***************************************************************************)
EXTENDS TlsSession, FiniteSetTheorems, TLAPS

\* The steps of an import before its layer is on the channel, and after.
EarlySteps == CtxSteps \cup {"model", "ctx", "options", "stack"}
StackedSteps == LateSteps \cup {"restore", "register"}

\* The import in progress, if there is one, is that of the last State, which is live.
JobInv ==
    /\ job.at = "none" <=> job.st = NoId
    /\ job.at # "none" => /\ job.st = hist.imports /\ job.chan \in Channels
                          /\ state[job.st].life = "live"
                          /\ state[job.st].ssl <=> job.at \in (LateSteps \ {"ssl"}) \cup {"register"}
    /\ job.at = "model" => job.model \in Channels
    /\ job.at \in CtxSteps \cup {"model", "ctx"} => state[job.st].ctx = NoId
    /\ job.at \in StackedSteps \cup {"options", "stack"} => state[job.st].ctx # NoId
    /\ job.at \notin {"none", "password"} => \A c \in Channels : ~Closing(c)
    /\ job.at = "stack" \/ (job.at \in EarlySteps /\ ~hist.closed) => ChanThere
    /\ \A s \in Ids : s > hist.imports => state[s] = NoState /\ ctx[s] = NoCtx

\* The layers of the channels, those of TlsSession's LayersOwned.
LayersInv ==
    /\ \A c \in Channels : \A i \in DOMAIN chan[c].layers :
          /\ state[chan[c].layers[i]].life # "none"
          /\ job.at \in EarlySteps => chan[c].layers[i] # job.st
    /\ \A s \in Ids :
          state[s].life = "live" => job.st = s \/ \E c \in Channels : s \in ToSet(chan[c].layers)
    /\ \A c, d \in Channels : \A i \in DOMAIN chan[c].layers, j \in DOMAIN chan[d].layers :
          chan[c].layers[i] = chan[d].layers[j] => c = d /\ i = j
    /\ ~hist.late => \A c \in Channels : LayersLive(c)
    /\ job.at \in StackedSteps => job.st \in ToSet(chan[job.chan].layers)

\* An SSL_CTX a State points to has a reference, and is not that of an import which
\* is still making it.  While none is shared its count is exactly that of its holders,
\* or one if it was leaked with its import.
CtxInv ==
    /\ \A c \in Ids : c \in hist.leaked => state[c].life = "freed" /\ ~hist.openssl3
    /\ \A s \in Ids : state[s].ctx # NoId =>
          /\ state[s].life = "live" /\ state[s].ctx <= s
          /\ job.at \in CtxSteps \cup {"model", "ctx"} => state[s].ctx # job.st
    /\ \A s \in Ids : state[s].life = "live" /\ s # job.st => state[s].ctx # NoId /\ state[s].ssl
    /\ \A s \in Ids : state[s].ssl => state[s].ctx # NoId
    /\ ~hist.model =>
          /\ \A s \in Ids : state[s].ctx \in {NoId, s}
          /\ \A c \in Ids : {ctx[c].hello, ctx[c].alpn} \subseteq {NoId, c}
          /\ \A c \in Ids :
                ctx[c].refs = IF job.st = c /\ job.at \in CtxSteps THEN 1
                              ELSE IF state[c].ctx = NoId THEN (IF c \in hist.leaked THEN 1 ELSE 0)
                              ELSE IF state[c].ssl THEN 2 ELSE 1

\* A handshake is that of a live State whose import is done.
Owner(h) ==
    /\ h.at = "none" => h.st = NoId
    /\ h.at # "none" => h.st \in Ids /\ state[h.st].life = "live" /\ h.st # job.st
    /\ h.at \in {"hello", "sni", "alpn"} => state[h.st].conf.server

HandshakeInv == Owner(hs)

Core == JobInv /\ LayersInv /\ CtxInv /\ ArgumentsLast /\ HandshakeInv

\* What a required certificate sets in the SSL object, and what a handshake has seen.
ConfInv == \A s \in Ids : state[s].conf.require => state[s].conf.peer /\ state[s].conf.mandatory
Verdict(h) ==
    LET conf == state[h.st].conf
    IN  /\ h.at \in {"none", "hello", "sni", "alpn", "certs"} => ~h.bad
        /\ h.at = "verify" => h.chain # <<>>
        /\ h.at \in {"verify", "session", "done"} /\ conf.require => h.certs
        /\ h.at \in {"verify", "session", "done"} /\ conf.require /\ ~conf.vcmd => ~h.bad

VerdictInv == Verdict(hs)

\* The options of a channel being imported are put away.
OptionsInv ==
    \A c \in Channels \ hist.unstacked :
        IF job.at \in {"stack", "restore"} /\ job.chan = c THEN job.saved = hist.opts
        ELSE chan[c].opts = hist.opts

\* What the script of the hello was told is what HelloServerName reads.
Told(h) ==
    h.asked /\ h.ext # <<>> => HelloServerName(h.ext).ok /\ HelloServerName(h.ext).name = h.name

NameInv == Told(hs)

IInv ==
    /\ TypeOK /\ FaultsHaveCauses
    /\ faults = {} => Core
    /\ ConfInv /\ VerdictInv /\ ~hs.rejected /\ OptionsInv /\ NameInv /\ ListedIsTrusted

-----------------------------------------------------------------------------
(* Types.                                                                  *)

LEMMA IdFacts == Ids \subseteq Nat /\ NoId \in AnyId /\ NoId \notin Ids /\ Ids \subseteq AnyId
  BY ImportAssumption DEF Ids, NoId, AnyId

\* The constants that are assigned have their types.
LEMMA ConstantTypes ==
    /\ NoConf \in Conf /\ NoState \in StateRec /\ Dead \in StateRec /\ NoCtx \in CtxRec
    /\ Binary \in Opts /\ NoJob \in JobRec /\ NoHandshake \in HandshakeRec
  <1>1. NoConf \in Conf
    BY DEF NoConf, Conf
  <1>2. Binary \in Opts
    BY DEF Binary, Opts
  <1>3. NoState \in StateRec /\ Dead \in StateRec
    BY <1>1, IdFacts DEF NoState, Dead, StateRec
  <1>4. NoCtx \in CtxRec
    BY IdFacts DEF NoCtx, CtxRec
  <1>5. NoJob \in JobRec
    BY <1>2, IdFacts DEF NoJob, JobRec, Steps, AnyChannel
  <1>6. NoHandshake \in HandshakeRec
    BY IdFacts DEF NoHandshake, HandshakeRec, InProgress
  <1> QED
    BY <1>1, <1>2, <1>3, <1>4, <1>5, <1>6

LEMMA TypeInit == Init => TypeOK
  <1> SUFFICES ASSUME Init PROVE TypeOK
    OBVIOUS
  <1> USE ConstantTypes, IdFacts, ImportAssumption
  <1>1. PICK opts \in Opts, openssl3 \in Builds :
          /\ chan = [c \in Channels |-> [open |-> TRUE, layers |-> <<>>, opts |-> opts]]
          /\ hist = [imports |-> 0, model |-> FALSE, late |-> FALSE, closed |-> FALSE,
                     inside |-> FALSE, unstacked |-> {}, over |-> {NoId}, opts |-> opts,
                     openssl3 |-> openssl3, leaked |-> {}]
    BY DEF Init, ImportInit
  <1>2. chan \in [Channels -> ChanRec]
    BY <1>1 DEF ChanRec
  <1>3. hist \in HistRec
    BY <1>1 DEF HistRec
  <1> QED
    BY <1>2, <1>3 DEF Init, ImportInit, TypeOK

\* An import in progress.
LEMMA JobFacts ==
    ASSUME IInv, faults = {}, job.at # "none"
    PROVE  /\ job.st \in Ids /\ job.chan \in Channels /\ job.st = hist.imports
           /\ state[job.st].life = "live" /\ state[job.st] \in StateRec /\ ctx[job.st] \in CtxRec
  BY IdFacts DEF IInv, Core, JobInv, TypeOK, JobRec, AnyId, NoId

\* The SSL_CTX of an import whose layer is on the channel.
LEMMA StackedFacts ==
    ASSUME IInv, faults = {}, job.at \in StackedSteps
    PROVE  /\ job.at # "none" /\ job.st \in Ids /\ state[job.st].ctx \in Ids
           /\ ctx[state[job.st].ctx] \in CtxRec
  <1>1. job.at # "none" /\ state[job.st].ctx # NoId
    BY DEF IInv, Core, JobInv, StackedSteps, LateSteps
  <1> QED
    BY <1>1, JobFacts DEF IInv, TypeOK, StateRec, AnyId

\* The layers of a channel, and the topmost one.
LEMMA TopFacts ==
    ASSUME TypeOK, NEW c \in Channels
    PROVE  /\ chan[c] \in ChanRec /\ chan[c].layers \in Seq(Ids) /\ Len(chan[c].layers) \in Nat
           /\ \A i \in DOMAIN chan[c].layers : chan[c].layers[i] \in Ids
           /\ Stacked(c) => /\ Len(chan[c].layers) \in DOMAIN chan[c].layers
                            /\ Top(c) \in Ids /\ Top(c) = chan[c].layers[Len(chan[c].layers)]
                            /\ Front(chan[c].layers) \in Seq(Ids)
                            /\ Len(Front(chan[c].layers)) = Len(chan[c].layers) - 1
                            /\ \A i \in 1..(Len(chan[c].layers) - 1) :
                                  Front(chan[c].layers)[i] = chan[c].layers[i]
  <1>1. chan[c] \in ChanRec /\ chan[c].layers \in Seq(Ids)
    BY DEF TypeOK, ChanRec
  <1> DEFINE l == chan[c].layers
  <1>2. l \in Seq(Ids) /\ Len(l) \in Nat /\ \A i \in DOMAIN l : l[i] \in Ids
    BY <1>1
  <1>3. ASSUME l # <<>>
        PROVE  /\ Len(l) \in DOMAIN l /\ Front(l) \in Seq(Ids) /\ Len(Front(l)) = Len(l) - 1
               /\ \A i \in 1..(Len(l) - 1) : Front(l)[i] = l[i]
    BY <1>2, <1>3 DEF Front
  <1> QED
    BY <1>1, <1>2, <1>3 DEF Stacked, Top

LEMMA TlsFreeType ==
    ASSUME TypeOK, NEW s \in Ids, TlsFree(s)
    PROVE  /\ state' \in [Ids -> StateRec] /\ ctx' \in [Ids -> CtxRec]
           /\ faults' \subseteq {"ctx", "state", "chan"}
  <1>1. state' \in [Ids -> StateRec]
    BY ConstantTypes DEF TypeOK, TlsFree
  <1>2. faults' \subseteq {"ctx", "state", "chan"}
    BY DEF TypeOK, TlsFree
  <1>3. TlsClean(ctx, s) \in [Ids -> CtxRec]
    <2> DEFINE c == state[s].ctx
               n == IF state[s].ssl THEN 2 ELSE 1
    <2>1. c \in AnyId /\ n \in Nat /\ (c # NoId => c \in Ids /\ ctx[c] \in CtxRec)
      BY DEF TypeOK, StateRec, AnyId
    <2>5. c # NoId => ctx[c].refs \in Nat
      BY <2>1 DEF CtxRec
    <2>2. CASE c = NoId
      BY <2>2 DEF TypeOK, TlsClean
    <2>3. CASE c # NoId /\ ctx[c].refs <= n
      BY <2>1, <2>3, ConstantTypes DEF TypeOK, TlsClean
    <2>4. CASE c # NoId /\ ctx[c].refs > n
      <3>1. [ctx[c] EXCEPT !.refs = @ - n] \in CtxRec
        BY <2>1, <2>4, <2>5 DEF CtxRec
      <3> QED
        BY <2>1, <2>4, <2>5, <3>1 DEF TypeOK, TlsClean
    <2> QED
      BY <2>1, <2>2, <2>3, <2>4, <2>5
  <1> QED
    BY <1>1, <1>2, <1>3 DEF TlsFree

LEMMA GotoType ==
    ASSUME TypeOK, NEW step \in Steps, Goto(step)
    PROVE  job' \in JobRec
  BY DEF TypeOK, JobRec, Goto

\* A CA file leaves the fields of an SSL_CTX of their types.
LEMMA LoadTypes ==
    ASSUME NEW x \in CtxRec, NEW file \in CaFiles, NEW n \in 0..Len(file), NEW loaded \in BOOLEAN
    PROVE  /\ LoadClientCA(x, file, n) \in CtxRec
           /\ LoadVerifyFile(x, file, loaded, n) \in CtxRec
  <1>1. file \in Seq(ToSet(file)) /\ ToSet(file) \subseteq Certs
    BY ImportAssumption DEF Certs
  <1>2. SubSeq(file, 1, n) \in Seq(ToSet(file)) /\ n \in Nat
    BY <1>1
  <1>3. ToSet(SubSeq(file, 1, n)) \subseteq Certs
    BY <1>1, <1>2 DEF ToSet
  <1> QED
    BY <1>1, <1>3 DEF LoadClientCA, LoadVerifyFile, CtxRec

\* An import that fails is over.
LEMMA ImportFailsType ==
    ASSUME IInv, faults = {}, job.at # "none", ImportFails, UNCHANGED <<chan, hs>>, hist' \in HistRec
    PROVE  TypeOK'
  <1>1. TypeOK /\ job.st \in Ids
    BY JobFacts DEF IInv
  <1>2. job' \in JobRec
    BY ConstantTypes DEF ImportFails
  <1> QED
    BY <1>1, <1>2, TlsFreeType DEF ImportFails, TypeOK

\* CTX_Init has returned.
LEMMA CtxReadyType ==
    ASSUME IInv, faults = {}, job.at # "none", NEW x \in CtxRec, CtxReady(x)
    PROVE  TypeOK'
  <1>1. TypeOK /\ job.st \in Ids /\ job.st \in AnyId
    BY JobFacts, IdFacts DEF IInv
  <1>2. job' \in JobRec
    BY <1>1, GotoType DEF CtxReady, Steps
  <1>3. state' \in [Ids -> StateRec] /\ ctx' \in [Ids -> CtxRec]
    BY <1>1 DEF CtxReady, TypeOK, StateRec
  <1> QED
    BY <1>1, <1>2, <1>3 DEF CtxReady, TypeOK

LEMMA TypeCtxInit == ASSUME IInv, CtxInit PROVE TypeOK'
  <1> USE DEF At
  <1>0. TypeOK
    BY DEF IInv
  <1>1. ASSUME faults = {}, job.at # "none"
        PROVE  job.st \in Ids /\ job.chan \in Channels /\ ctx[job.st] \in CtxRec
    BY <1>1, JobFacts
  <1>2. CASE CtxFails
    BY <1>0, <1>2, ImportFailsType DEF CtxFails, TypeOK
  <1>3. CASE CtxCreated
    <2>1. ctx' \in [Ids -> CtxRec]
      BY <1>0, <1>3, ConstantTypes DEF CtxCreated, TypeOK, CtxRec
    <2>2. job' \in JobRec
      BY <1>0, <1>3, GotoType DEF CtxCreated, Steps, CtxSteps
    <2> QED
      BY <1>0, <1>3, <2>1, <2>2 DEF CtxCreated, TypeOK
  <1>4. CASE CtxRefused
    BY <1>0, <1>4, ConstantTypes DEF CtxRefused, TypeOK
  <1>5. CASE Configured
    <2>1. job' \in JobRec
      BY <1>0, <1>5, GotoType DEF Configured, Steps, CtxSteps
    <2> QED
      BY <1>0, <1>5, <2>1 DEF Configured, TypeOK
  <1>6. CASE CertificateSet
    <2>1. job' \in JobRec
      BY <1>0, <1>6, GotoType DEF CertificateSet, Steps, CtxSteps
    <2> QED
      BY <1>0, <1>6, <2>1 DEF CertificateSet, TypeOK
  <1>7. CASE PrivateKeySet
    <2>1. job' \in JobRec
      BY <1>0, <1>7, GotoType DEF PrivateKeySet, Steps, CtxSteps
    <2> QED
      BY <1>0, <1>7, <2>1 DEF PrivateKeySet, TypeOK
  <1>8. CASE PasswordGiven
    <2>1. CASE Goto("check") /\ UNCHANGED <<state, ctx>>
      <3>1. job' \in JobRec
        BY <1>0, <2>1, GotoType DEF Steps, CtxSteps
      <3> QED
        BY <1>0, <1>8, <2>1, <3>1 DEF PasswordGiven, TypeOK
    <2>2. CASE /\ state' = [state EXCEPT ![job.st] = Dead]
               /\ ctx' = [ctx EXCEPT ![job.st] = NoCtx]
               /\ job' = NoJob
      BY <1>0, <1>8, <2>2, ConstantTypes DEF PasswordGiven, TypeOK
    <2> QED
      BY <1>8, <2>1, <2>2 DEF PasswordGiven
  <1>9. CASE VerifyPathsSet
    BY <1>1, <1>9, CtxReadyType DEF VerifyPathsSet
  <1>10. CASE CAfileFromMemory
    BY <1>1, <1>10, CtxReadyType, LoadTypes DEF CAfileFromMemory
  <1>11. CASE CAfileNative
    BY <1>1, <1>11, CtxReadyType, LoadTypes DEF CAfileNative
  <1>12. CASE VerifyLocationsRefused
    <2>1. hist' \in HistRec
      BY <1>0, <1>1, <1>12 DEF VerifyLocationsRefused, TypeOK, HistRec
    <2> QED
      BY <1>12, <2>1, ImportFailsType DEF VerifyLocationsRefused
  <1> QED
    BY <1>2, <1>3, <1>4, <1>5, <1>6, <1>7, <1>8, <1>9, <1>10, <1>11, <1>12 DEF CtxInit

LEMMA TypeImportStep == ASSUME IInv, ImportStep PROVE TypeOK'
  <1> USE DEF At
  <1>0. TypeOK
    BY DEF IInv
  <1>1. ASSUME faults = {}, job.at # "none"
        PROVE  job.st \in Ids /\ job.chan \in Channels /\ chan[job.chan] \in ChanRec
    BY <1>0, <1>1, JobFacts DEF TypeOK
  <1>2. CASE ModelRefused
    BY <1>0, <1>2, ImportFailsType DEF ModelRefused, TypeOK
  <1>3. CASE ModelTaken
    <2>1. job.model \in Channels /\ Top(job.model) \in Ids /\ Len(chan[job.model].layers) \in Nat
      BY <1>0, <1>3, TopFacts DEF ModelTaken, IInv, Core, JobInv
    <2>2. state' \in [Ids -> StateRec]
      BY <1>0, <1>3, <2>1 DEF ModelTaken, TypeOK, StateRec
    <2>3. job' \in JobRec
      BY <1>0, <1>3, <2>1 DEF ModelTaken, TypeOK, JobRec, Steps, AnyChannel
    <2>4. hist' \in HistRec
      BY <1>0, <1>3 DEF ModelTaken, TypeOK, HistRec
    <2> QED
      BY <1>0, <1>3, <2>2, <2>3, <2>4 DEF ModelTaken, TypeOK
  <1>4. CASE ModelGone \/ ChannelGone \/ LayerDead
    BY <1>0, <1>4 DEF ModelGone, ChannelGone, LayerDead, Fault, TypeOK
  <1>5. CASE CtxInit
    BY <1>5, TypeCtxInit
  <1>6. CASE PreserveOptions
    <2>1. job' \in JobRec
      BY <1>0, <1>1, <1>6 DEF PreserveOptions, TypeOK, JobRec, Steps, ChanRec
    <2>2. chan' \in [Channels -> ChanRec]
      BY <1>0, <1>1, <1>6, ConstantTypes DEF PreserveOptions, TypeOK, ChanRec
    <2> QED
      BY <1>0, <1>6, <2>1, <2>2 DEF PreserveOptions, TypeOK
  <1>7. CASE StackChannel
    <2>1. job' \in JobRec
      BY <1>0, <1>7, GotoType DEF StackChannel, Steps
    <2>2. Append(chan[job.chan].layers, job.st) \in Seq(Ids)
      BY <1>1, <1>7 DEF StackChannel, ChanRec
    <2>3. chan' \in [Channels -> ChanRec]
      BY <1>0, <1>1, <1>7, <2>2 DEF StackChannel, TypeOK, ChanRec
    <2> QED
      BY <1>0, <1>7, <2>1, <2>3 DEF StackChannel, TypeOK
  <1>8. CASE StackRefused
    <2>1. hist' \in HistRec
      BY <1>0, <1>1, <1>8 DEF StackRefused, TypeOK, HistRec
    <2> QED
      BY <1>8, <2>1, ImportFailsType DEF StackRefused
  <1>9. CASE RestoreOptions
    <2>1. job' \in JobRec
      BY <1>0, <1>9, GotoType DEF RestoreOptions, Steps, LateSteps
    <2>2. chan' \in [Channels -> ChanRec]
      BY <1>0, <1>1, <1>9 DEF RestoreOptions, TypeOK, ChanRec, JobRec
    <2> QED
      BY <1>0, <1>9, <2>1, <2>2 DEF RestoreOptions, TypeOK
  <1>10. CASE SslCreated
    <2>1. job' \in JobRec
      BY <1>0, <1>10, GotoType DEF SslCreated, Steps, LateSteps
    <2>2. state' \in [Ids -> StateRec]
      BY <1>0, <1>1, <1>10 DEF SslCreated, TypeOK, StateRec
    <2> DEFINE c == state[job.st].ctx
    <2>3. c \in Ids /\ ctx[c] \in CtxRec
      BY <1>10, StackedFacts DEF SslCreated, StackedSteps, LateSteps
    <2>4. [ctx[c] EXCEPT !.refs = @ + 1] \in CtxRec
      BY <2>3 DEF CtxRec
    <2>5. ctx' = [ctx EXCEPT ![c] = [ctx[c] EXCEPT !.refs = @ + 1]]
      BY <1>10 DEF SslCreated
    <2> QED
      BY <1>0, <1>10, <2>1, <2>2, <2>3, <2>4, <2>5 DEF SslCreated, TypeOK
  <1>11. CASE Prepared
    <2>1. job' \in JobRec
      BY <1>0, <1>11, GotoType DEF Prepared, Steps, LateSteps
    <2> QED
      BY <1>0, <1>11, <2>1 DEF Prepared, TypeOK
  <1>12. CASE LateFails
    <2>1. hist' \in HistRec
      BY <1>0, <1>12 DEF LateFails, TypeOK, HistRec
    <2>2. job.at # "none"
      BY <1>12 DEF LateFails, LateSteps
    <2> QED
      BY <1>12, <2>1, <2>2, ImportFailsType DEF LateFails
  <1>13. CASE Register
    <2> DEFINE s == job.st
               c == state[s].ctx
               x == [ctx[c] EXCEPT !.hello = s, !.alpn = IF state[s].conf.protos THEN s ELSE @]
    <2>1. s \in AnyId /\ c \in Ids /\ ctx[c] \in CtxRec
      BY <1>1, <1>13, StackedFacts, IdFacts DEF Register, StackedSteps
    <2>2. x \in CtxRec
      BY <2>1 DEF CtxRec
    <2>3. ctx' = IF state[s].conf.server THEN [ctx EXCEPT ![c] = x] ELSE ctx
      BY <1>0, <1>13, <2>1 DEF Register, TypeOK
    <2>4. ctx' \in [Ids -> CtxRec]
      BY <1>0, <2>1, <2>2, <2>3 DEF TypeOK
    <2> QED
      BY <1>0, <1>13, <2>4, ConstantTypes DEF Register, TypeOK
  <1> QED
    BY <1>2, <1>3, <1>4, <1>5, <1>6, <1>7, <1>8, <1>9, <1>10, <1>11, <1>12, <1>13 DEF ImportStep

\* The verify mode of the options is two flags.
LEMMA ModeTypes ==
    ASSUME NEW o \in Inputs
    PROVE  /\ VerifyMode(o).peer \in BOOLEAN /\ VerifyMode(o).mandatory \in BOOLEAN
           /\ OrDefault(o.require, o.server) # 0 => VerifyMode(o).peer /\ VerifyMode(o).mandatory
  BY DEF VerifyMode

LEMMA TypeImportObjCmd ==
    ASSUME TypeOK, NEW c \in Channels, NEW o \in Inputs, ImportObjCmd(c, o)
    PROVE  TypeOK'
  <1> DEFINE s == hist.imports + 1
             conf == [server |-> o.server, require |-> OrDefault(o.require, o.server) # 0,
                      peer |-> VerifyMode(o).peer, mandatory |-> VerifyMode(o).mandatory,
                      command |-> o.command, vcmd |-> o.vcmd, protos |-> o.protos]
  <1>1. hist.imports \in 0..MaxImports /\ s \in Ids /\ s \in 0..MaxImports
    BY ImportAssumption DEF TypeOK, HistRec, ImportObjCmd, Ids
  <1>2. {o.server, o.command, o.vcmd, o.protos} \subseteq BOOLEAN /\ o.model \in AnyChannel
    BY ImportAssumption DEF AnyChannel
  <1>3. conf \in Conf
    BY <1>2, ModeTypes DEF Conf
  <1>4. state' \in [Ids -> StateRec]
    <2>1. [NoState EXCEPT !.life = "live", !.conf = conf] \in StateRec
      BY <1>3, ConstantTypes DEF StateRec
    <2> QED
      BY <1>1, <2>1, Zenon DEF TypeOK, ImportObjCmd
  <1>5. job' \in JobRec
    <2>1. Len(chan[c].layers) \in Nat
      BY TopFacts
    <2> QED
      BY <1>1, <1>2, <2>1, ConstantTypes, IdFacts DEF ImportObjCmd, JobRec, Steps, AnyChannel
  <1>6. hist' \in HistRec
    BY <1>1 DEF TypeOK, ImportObjCmd, HistRec
  <1> QED
    BY <1>4, <1>5, <1>6 DEF TypeOK, ImportObjCmd

LEMMA RemoveTopType ==
    ASSUME TypeOK, NEW c \in Channels, Stacked(c), RemoveTop(c), job' \in JobRec, hist' \in HistRec
    PROVE  TypeOK'
  <1>1. chan' \in [Channels -> ChanRec]
    BY TopFacts DEF TypeOK, RemoveTop, ChanRec
  <1>2. hs' \in HandshakeRec
    BY ConstantTypes DEF TypeOK, RemoveTop
  <1>3. CASE state[Top(c)].life = "live"
    BY <1>1, <1>2, <1>3, TopFacts, TlsFreeType DEF TypeOK, RemoveTop
  <1>4. CASE state[Top(c)].life # "live"
    BY <1>1, <1>2, <1>4 DEF TypeOK, RemoveTop, Fault
  <1> QED
    BY <1>3, <1>4

LEMMA TypeCommand == ASSUME IInv, Command PROVE TypeOK'
  <1>0. TypeOK
    BY DEF IInv
  <1>1. PICK c \in Channels :
          (\E o \in Inputs : ImportObjCmd(c, o)) \/ UnimportObjCmd(c) \/ Close(c) \/ CloseLayer(c)
    BY DEF Command
  <1>2. CASE \E o \in Inputs : ImportObjCmd(c, o)
    BY <1>0, <1>2, TypeImportObjCmd
  <1>3. CASE UnimportObjCmd(c)
    <2>1. hist' \in HistRec
      BY <1>0, <1>3 DEF UnimportObjCmd, TypeOK, HistRec
    <2> QED
      BY <1>0, <1>3, <2>1, RemoveTopType DEF UnimportObjCmd, TypeOK
  <1>4. CASE Close(c)
    <2>1. hist' \in HistRec
      BY <1>0, <1>4 DEF Close, TypeOK, HistRec
    <2>2. chan' \in [Channels -> ChanRec]
      BY <1>0, <1>4 DEF Close, TypeOK, ChanRec
    <2> QED
      BY <1>0, <1>4, <2>1, <2>2 DEF Close, TypeOK
  <1>5. CASE CloseLayer(c)
    BY <1>0, <1>5, RemoveTopType DEF CloseLayer, Closing, TypeOK
  <1> QED
    BY <1>1, <1>2, <1>3, <1>4, <1>5

-----------------------------------------------------------------------------
(* The steps of a handshake.                                               *)

\* What a script comes to, and what is made of it.
LEMMA EvalFacts ==
    ASSUME NEW answer \in Answers
    PROVE  /\ EvalCallback(answer) \in {-1, 0, 1, 2}
           /\ Rejects(answer) <=> EvalCallback(answer) = 0
           /\ \A a, r, f : Decision(answer, a, r, f) \in {a, r, f}
           /\ Rejects(answer) => \A a, r, f : Decision(answer, a, r, f) = f
  <1>1. /\ EvalCallback(answer) \in {-1, 0, 1, 2}
        /\ Rejects(answer) <=> EvalCallback(answer) = 0
    BY DEF Answers, EvalCallback, Rejects
  <1> QED
    BY <1>1 DEF Decision

\* A name that was read is what the lengths of the extension say it is.
LEMMA NameFacts ==
    ASSUME NEW ext \in Seq(Nat)
    PROVE  /\ HelloServerName(ext).ok \in BOOLEAN /\ HelloServerName(ext).name \in Seq(Nat)
           /\ HelloServerName(ext).ok =>
                 /\ Len(ext) > 5 /\ Short(ext[1], ext[2]) + 2 = Len(ext) /\ ext[3] = 0
                 /\ Short(ext[4], ext[5]) + 5 <= Len(ext)
                 /\ HelloServerName(ext).name = SubSeq(ext, 6, 5 + Short(ext[4], ext[5]))
  <1> DEFINE long == Len(ext) > 2 /\ Short(ext[1], ext[2]) + 2 = Len(ext)
             first == ext[3] = 0 /\ Len(ext) > 5
             len == Short(ext[4], ext[5])
             name == SubSeq(ext, 6, 5 + len)
  <1>1. CASE ~long
    <2>1. Short(ext[1], ext[2]) + 2 # Len(ext) \/ Len(ext) <= 2
      BY <1>1
    <2> QED
      BY <2>1 DEF HelloServerName, Malformed
  <1>2. CASE long /\ ~first
    BY <1>2 DEF HelloServerName, Malformed
  <1>3. CASE long /\ first
    <2>1. len \in Nat /\ Len(ext) \in Nat
      <3>1. ext[4] \in Nat /\ ext[5] \in Nat
        BY <1>3
      <3> QED
        BY <3>1 DEF Short
    <2>2. CASE len + 5 > Len(ext)
      <3>1. HelloServerName(ext) = Malformed
        BY <1>3, <2>1, <2>2 DEF HelloServerName
      <3> QED
        BY <3>1 DEF Malformed
    <2>3. CASE len + 5 <= Len(ext)
      <3>1. name \in Seq(Nat)
        BY <2>1, <2>3
      <3>2. /\ ~(Len(ext) <= 2 \/ Short(ext[1], ext[2]) + 2 # Len(ext))
            /\ ~((Len(ext) - 2) = 0 \/ ext[3] # 0 \/ (Len(ext) - 2) - 1 <= 2)
            /\ ~(len + 2 > (Len(ext) - 2) - 1)
        <4>1. ~(Len(ext) <= 2 \/ Short(ext[1], ext[2]) + 2 # Len(ext))
          BY <1>3, <2>1
        <4>2. ~((Len(ext) - 2) = 0 \/ ext[3] # 0 \/ (Len(ext) - 2) - 1 <= 2)
          BY <1>3, <2>1
        <4> HIDE DEF len
        <4>3. ~(len + 2 > (Len(ext) - 2) - 1)
          BY <2>1, <2>3
        <4> QED
          BY <4>1, <4>2, <4>3
      <3>3. HelloServerName(ext) = [ok |-> TRUE, name |-> name]
        BY <3>2, Zenon DEF HelloServerName
      <3> HIDE DEF name
      <3>4. /\ HelloServerName(ext).ok \in BOOLEAN /\ HelloServerName(ext).name \in Seq(Nat)
            /\ Len(ext) > 5 /\ Short(ext[1], ext[2]) + 2 = Len(ext) /\ ext[3] = 0
            /\ len + 5 <= Len(ext) /\ HelloServerName(ext).name = name
        BY <1>3, <2>1, <2>3, <3>1, <3>3
      <3> QED
        BY <3>4 DEF name
    <2> QED
      BY <2>1, <2>2, <2>3
  <1> QED
    BY <1>1, <1>2, <1>3

\* What is left of a handshake that failed, and one that did not.
LEMMA OutcomeFacts ==
    ASSUME NEW h \in HandshakeRec
    PROVE  /\ Outcome(h) \in HandshakeRec /\ Outcome(h).st = h.st
           /\ h.at # "failed" => Outcome(h) = h
           /\ h.at = "failed" => /\ Outcome(h).at \in {"error", "failed"}
                                 /\ ~Outcome(h).rejected /\ ~Outcome(h).asked
  BY ConstantTypes DEF Outcome, HandshakeRec, InProgress, NoHandshake

\* What a step makes of a handshake.
Fine(h) == h \in HandshakeRec /\ ~h.rejected /\ Told(h) /\ Verdict(h) /\ Owner(h)

LEMMA OutcomeFine ==
    ASSUME IInv, faults = {}, hs.at # "none",
           NEW h \in HandshakeRec, h.st = hs.st, h.at # "failed" => Fine(h)
    PROVE  Fine(Outcome(h))
  <1>1. Owner(hs)
    BY DEF IInv, Core, HandshakeInv
  <1>2. CASE h.at = "failed"
    <2>1. Outcome(h).st = hs.st /\ Outcome(h).at \in {"error", "failed"} /\ Outcome(h) \in HandshakeRec
          /\ ~Outcome(h).rejected /\ ~Outcome(h).asked
      BY <1>2, OutcomeFacts
    <2>2. Owner(Outcome(h))
      BY <1>1, <2>1 DEF Owner
    <2> QED
      BY <2>1, <2>2 DEF Fine, Told, Verdict
  <1>3. CASE h.at # "failed"
    BY <1>3, OutcomeFacts
  <1> QED
    BY <1>2, <1>3

\* The handshake before a step.
LEMMA HandshakeFacts ==
    ASSUME IInv, faults = {}, hs.at # "none"
    PROVE  /\ Fine(hs) /\ hs.st \in Ids /\ Conn \in StateRec /\ Conn.conf \in Conf
           /\ Conn.conf.require => Conn.conf.peer /\ Conn.conf.mandatory
  <1>1. Fine(hs)
    BY DEF IInv, Core, HandshakeInv, VerdictInv, NameInv, Fine, TypeOK
  <1>2. hs.st \in Ids
    BY <1>1 DEF Fine, Owner
  <1>3. Conn \in StateRec
    BY <1>2 DEF IInv, TypeOK, Conn
  <1> QED
    BY <1>1, <1>2, <1>3 DEF IInv, ConfInv, Conn, StateRec

LEMMA HelloFine == ASSUME IInv, Hello PROVE Fine(hs')
  <1> USE DEF InHandshake, Idle
  <1>1. Fine(hs) /\ hs.at = "hello" /\ faults = {} /\ hs \in HandshakeRec
    BY HandshakeFacts DEF Hello, Fine
  <1> DEFINE conf == state[Arg("hello")].conf
             read == HelloServerName(hs.ext)
             asks == conf.vcmd /\ (hs.ext # <<>> => read.ok)
  <1>2. PICK answer \in Answers :
          LET res == HelloCallback(conf, hs.ext # <<>>, hs.ext, answer)
          IN  hs' = Outcome([hs EXCEPT
                      !.at = CASE res = "SUCCESS" -> "sni" [] res = "RETRY" -> @
                               [] res = "ERROR" -> "failed",
                      !.asked = asks,
                      !.name = IF asks THEN read.name ELSE <<>>,
                      !.rejected = @ \/ (asks /\ Rejects(answer))])
    BY DEF Hello
  <1> DEFINE res == HelloCallback(conf, hs.ext # <<>>, hs.ext, answer)
             at == CASE res = "SUCCESS" -> "sni" [] res = "RETRY" -> "hello" [] res = "ERROR" -> "failed"
             h == [hs EXCEPT !.at = at, !.asked = asks, !.name = IF asks THEN read.name ELSE <<>>,
                             !.rejected = @ \/ (asks /\ Rejects(answer))]
  <1>3. hs' = Outcome(h)
    BY <1>1, <1>2
  <1>4. res \in {"SUCCESS", "RETRY", "ERROR"} /\ (asks /\ Rejects(answer) => res = "ERROR")
    BY EvalFacts DEF HelloCallback
  <1>5. at \in {"sni", "hello", "failed"} /\ (asks /\ Rejects(answer) => at = "failed")
    BY <1>4
  <1>6. asks \in BOOLEAN /\ read.name \in Seq(Nat)
    BY <1>1, NameFacts DEF HandshakeRec
  <1>7. h \in HandshakeRec /\ h.st = hs.st
    <2>1. /\ (hs.rejected \/ (asks /\ Rejects(answer))) \in BOOLEAN
          /\ (IF asks THEN read.name ELSE <<>>) \in Seq(Nat)
      BY <1>6
    <2>2. at \in InProgress \cup {"failed"}
      BY <1>5 DEF InProgress
    <2> HIDE DEF at, asks, read
    <2> QED
      BY <1>1, <1>6, <2>1, <2>2 DEF HandshakeRec
  <1>8. ASSUME h.at # "failed" PROVE Fine(h)
    <2>1. ~h.rejected /\ h.at \in {"sni", "hello"} /\ h.bad = hs.bad /\ h.ext = hs.ext
      BY <1>1, <1>5, <1>8 DEF Fine, HandshakeRec
    <2>2. Told(h)
      BY <1>1 DEF Told, HandshakeRec
    <2> QED
      BY <1>1, <1>7, <2>1, <2>2 DEF Fine, Verdict, Owner
  <1> QED
    BY <1>1, <1>3, <1>7, <1>8, OutcomeFine

LEMMA ServerNameFine == ASSUME IInv, ServerName PROVE Fine(hs')
  <1> USE DEF InHandshake, Idle
  <1>1. Fine(hs) /\ hs.at = "sni" /\ faults = {} /\ hs \in HandshakeRec
    BY HandshakeFacts DEF ServerName, Fine
  <1> DEFINE conf == state[Arg("hello")].conf
             read == HelloServerName(hs.ext)
  <1>2. PICK answer \in Answers :
          LET res  == SNICallback(conf, read.name, answer)
              asks == conf.vcmd /\ read.name # <<>>
          IN  hs' = Outcome([hs EXCEPT
                      !.at = IF (hs.ext # <<>> /\ ~read.ok) \/ res = "ALERT_FATAL"
                             THEN "failed" ELSE "alpn",
                      !.ext = <<>>, !.asked = FALSE, !.name = <<>>,
                      !.rejected = @ \/ (asks /\ Rejects(answer))])
    BY DEF ServerName
  <1> DEFINE asks == conf.vcmd /\ read.name # <<>>
             res == SNICallback(conf, read.name, answer)
             at == IF (hs.ext # <<>> /\ ~read.ok) \/ res = "ALERT_FATAL" THEN "failed" ELSE "alpn"
             no == asks /\ Rejects(answer)
             h == [hs EXCEPT !.at = at, !.ext = <<>>, !.asked = FALSE, !.name = <<>>,
                             !.rejected = @ \/ no]
  <1>3. hs' = Outcome(h)
    BY <1>2
  <1>4. no => res = "ALERT_FATAL"
    BY EvalFacts DEF SNICallback
  <1>5. at \in {"alpn", "failed"} /\ (no => at = "failed") /\ no \in BOOLEAN
    BY <1>4
  <1> HIDE DEF at, no
  <1>6. h \in HandshakeRec /\ h.st = hs.st
    <2>1. (hs.rejected \/ no) \in BOOLEAN /\ <<>> \in Seq(Nat) /\ at \in InProgress \cup {"failed"}
      BY <1>5 DEF InProgress
    <2> QED
      BY <1>1, <2>1 DEF HandshakeRec
  <1>7. ASSUME h.at # "failed" PROVE Fine(h)
    BY <1>1, <1>5, <1>6, <1>7 DEF Fine, Told, Verdict, Owner, HandshakeRec
  <1> QED
    BY <1>1, <1>3, <1>6, <1>7, OutcomeFine

LEMMA ProtocolFine == ASSUME IInv, Protocol PROVE Fine(hs')
  <1> USE DEF InHandshake, Idle
  <1>1. Fine(hs) /\ hs.at = "alpn" /\ faults = {} /\ hs \in HandshakeRec
    BY HandshakeFacts DEF Protocol, Fine
  <1> DEFINE conf == state[Arg("alpn")].conf
  <1>2. PICK match \in BOOLEAN, answer \in Answers :
          \/ hs' = Outcome([hs EXCEPT
                     !.at = IF ALPNCallback(conf, match, answer) = "ALERT_FATAL"
                            THEN "failed" ELSE "certs",
                     !.rejected = @ \/ (conf.vcmd /\ Rejects(answer))])
          \/ hs' = [hs EXCEPT !.at = "certs"]
    BY DEF Protocol
  <1>3. CASE hs' = [hs EXCEPT !.at = "certs"]
    BY <1>1, <1>3 DEF Fine, Told, Verdict, Owner, HandshakeRec, InProgress
  <1> DEFINE res == ALPNCallback(conf, match, answer)
             at == IF res = "ALERT_FATAL" THEN "failed" ELSE "certs"
             no == conf.vcmd /\ Rejects(answer)
             h == [hs EXCEPT !.at = at, !.rejected = @ \/ no]
  <1>4. CASE hs' = Outcome(h)
    <2>1. no => res = "ALERT_FATAL"
      BY EvalFacts DEF ALPNCallback
    <2>2. at \in {"certs", "failed"} /\ (no => at = "failed") /\ no \in BOOLEAN
      BY <2>1
    <2> HIDE DEF at, no
    <2>3. h \in HandshakeRec /\ h.st = hs.st
      BY <1>1, <2>2 DEF HandshakeRec, InProgress
    <2>4. ASSUME h.at # "failed" PROVE Fine(h)
      BY <1>1, <2>2, <2>3, <2>4 DEF Fine, Told, Verdict, Owner, HandshakeRec
    <2> QED
      BY <1>1, <1>4, <2>3, <2>4, OutcomeFine
  <1> QED
    BY <1>2, <1>3, <1>4

LEMMA PeerCertificatesFine == ASSUME IInv, PeerCertificates PROVE Fine(hs')
  <1> USE DEF InHandshake, Idle
  <1>1. Fine(hs) /\ hs.at = "certs" /\ faults = {} /\ hs \in HandshakeRec
    BY HandshakeFacts DEF PeerCertificates, Fine
  <1> DEFINE conf == Conn.conf
  <1>2. conf \in Conf /\ (conf.require => conf.peer /\ conf.mandatory) /\ conf = state[hs.st].conf
    BY <1>1, HandshakeFacts DEF Conn
  <1>3. PICK chain \in Chains :
          /\ conf.server \/ chain # <<>>
          /\ hs' = Outcome([hs EXCEPT
                     !.chain = IF conf.server /\ ~conf.peer THEN <<>> ELSE chain,
                     !.certs = chain # <<>> /\ (conf.server => conf.peer),
                     !.at = CASE conf.server /\ ~conf.peer -> "done"
                              [] conf.server /\ conf.peer /\ chain = <<>> ->
                                   IF conf.mandatory THEN "failed" ELSE "done"
                              [] OTHER -> "verify"])
    BY DEF PeerCertificates
  <1> DEFINE certs == chain # <<>> /\ (conf.server => conf.peer)
             at == CASE conf.server /\ ~conf.peer -> "done"
                     [] conf.server /\ conf.peer /\ chain = <<>> ->
                          IF conf.mandatory THEN "failed" ELSE "done"
                     [] OTHER -> "verify"
             left == IF conf.server /\ ~conf.peer THEN <<>> ELSE chain
             h == [hs EXCEPT !.chain = left, !.certs = certs, !.at = at]
  <1>4. hs' = Outcome(h)
    BY <1>3
  <1>5. at \in {"done", "failed", "verify"} /\ certs \in BOOLEAN
    BY <1>2 DEF Conf
  <1>6. (at # "failed" /\ conf.require => certs) /\ (at = "verify" => left # <<>>)
    BY <1>2, <1>3 DEF Conf
  <1>7. left \in Seq(BOOLEAN)
    <2>1. PICK n \in 0..MaxChain : chain \in [1..n -> BOOLEAN]
      BY DEF Chains
    <2>2. n \in Nat
      BY SessionAssumption
    <2>3. chain \in Seq(BOOLEAN) /\ <<>> \in Seq(BOOLEAN)
      BY <2>1, <2>2
    <2> QED
      BY <2>3
  <1> HIDE DEF at, certs, left
  <1>8. h \in HandshakeRec /\ h.st = hs.st
    BY <1>1, <1>5, <1>7 DEF HandshakeRec, InProgress
  <1>9. ASSUME h.at # "failed" PROVE Fine(h)
    <2>1. /\ ~h.rejected /\ ~h.bad /\ h.at \in {"done", "verify"} /\ (conf.require => h.certs)
          /\ h.at = "verify" => h.chain # <<>>
          /\ h.ext = hs.ext /\ h.asked = hs.asked /\ h.name = hs.name
      BY <1>1, <1>5, <1>6, <1>9 DEF Fine, Verdict, HandshakeRec
    <2> HIDE DEF h
    <2> QED
      BY <1>1, <1>2, <1>8, <2>1 DEF Fine, Told, Verdict, Owner
  <1> QED
    BY <1>1, <1>4, <1>8, <1>9, OutcomeFine

LEMMA VerifyFine == ASSUME IInv, Verify PROVE Fine(hs')
  <1> USE DEF InHandshake, Idle
  <1>1. Fine(hs) /\ hs.at = "verify" /\ faults = {} /\ hs \in HandshakeRec
    BY HandshakeFacts DEF Verify, Fine
  <1> DEFINE conf == Conn.conf
             ok   == Head(hs.chain)
  <1>2. conf \in Conf /\ (conf.require => conf.peer /\ conf.mandatory) /\ conf = state[hs.st].conf
    BY <1>1, HandshakeFacts DEF Conn
  <1>3. PICK answer \in Answers :
          LET pass == VerifyCallback(conf, ok, answer)
          IN  hs' = Outcome([hs EXCEPT
                      !.chain = IF pass THEN Tail(hs.chain) ELSE <<>>,
                      !.at = IF conf.peer /\ ~pass THEN "failed"
                             ELSE IF pass /\ Len(hs.chain) > 1 THEN "verify"
                             ELSE IF conf.server THEN "done" ELSE "session",
                      !.bad = @ \/ ~ok,
                      !.rejected = @ \/ (conf.peer /\ conf.vcmd /\ Rejects(answer)),
                      !.quiet = @ /\ answer = "empty"])
    BY DEF Verify
  <1> DEFINE pass == VerifyCallback(conf, ok, answer)
             left == IF pass THEN Tail(hs.chain) ELSE <<>>
             at == IF conf.peer /\ ~pass THEN "failed"
                   ELSE IF pass /\ Len(hs.chain) > 1 THEN "verify"
                   ELSE IF conf.server THEN "done" ELSE "session"
             no == conf.peer /\ conf.vcmd /\ Rejects(answer)
             h == [hs EXCEPT !.chain = left, !.at = at, !.bad = @ \/ ~ok,
                             !.rejected = @ \/ no, !.quiet = @ /\ answer = "empty"]
  <1>4. hs' = Outcome(h)
    BY <1>3
  <1>5. at \in {"failed", "verify", "done", "session"}
    OBVIOUS
  <1>6. no => at = "failed"
    BY EvalFacts DEF VerifyCallback
  <1>7. at # "failed" /\ conf.require /\ ~conf.vcmd => ok
    BY <1>2 DEF VerifyCallback
  <1>8. left \in Seq(BOOLEAN) /\ (at = "verify" => left # <<>>)
    <2>1. hs.chain \in Seq(BOOLEAN) /\ hs.chain # <<>>
      BY <1>1 DEF HandshakeRec, Fine, Verdict
    <2>2. /\ Tail(hs.chain) \in Seq(BOOLEAN) /\ <<>> \in Seq(BOOLEAN)
          /\ Len(hs.chain) > 1 => Tail(hs.chain) # <<>>
      <3> DEFINE q == hs.chain
      <3> HIDE DEF q
      <3>1. q \in Seq(BOOLEAN) /\ q # <<>>
        BY <2>1 DEF q
      <3>2. Tail(q) \in Seq(BOOLEAN) /\ Len(Tail(q)) = Len(q) - 1 /\ Len(q) \in Nat
        BY <3>1
      <3>3. Len(q) > 1 => Tail(q) # <<>>
        <4> DEFINE r == Tail(q)
        <4>1. Len(r) = Len(q) - 1 /\ Len(q) \in Nat
          BY <3>2
        <4> HIDE DEF r
        <4>2. r = <<>> => Len(r) = 0
          OBVIOUS
        <4>3. Len(q) > 1 => r # <<>>
          BY <4>1, <4>2
        <4> QED
          BY <4>3 DEF r
      <3>4. <<>> \in Seq(BOOLEAN)
        OBVIOUS
      <3> QED
        BY <3>2, <3>3, <3>4 DEF q
    <2> QED
      BY <2>2
  <1> HIDE DEF at, no, left
  <1>9. h \in HandshakeRec /\ h.st = hs.st
    <2>1. /\ at \in InProgress \cup {"done", "failed"}
          /\ (hs.bad \/ ~ok) \in BOOLEAN /\ (hs.rejected \/ no) \in BOOLEAN
          /\ (hs.quiet /\ answer = "empty") \in BOOLEAN
      BY <1>5 DEF InProgress
    <2> QED
      BY <1>1, <1>8, <2>1 DEF HandshakeRec
  <1>10. ASSUME h.at # "failed" PROVE Fine(h)
    <2>1. /\ ~h.rejected /\ h.at \in {"verify", "done", "session"} /\ h.certs = hs.certs
          /\ h.ext = hs.ext /\ h.asked = hs.asked /\ h.name = hs.name
          /\ h.at = "verify" => h.chain # <<>>
      BY <1>1, <1>5, <1>6, <1>8, <1>10 DEF Fine, HandshakeRec
    <2>2. conf.require /\ ~conf.vcmd => ~h.bad
      BY <1>1, <1>2, <1>7, <1>10 DEF Fine, Verdict, HandshakeRec
    <2> HIDE DEF h
    <2> QED
      BY <1>1, <1>2, <1>9, <2>1, <2>2 DEF Fine, Told, Verdict, Owner
  <1> QED
    BY <1>1, <1>4, <1>9, <1>10, OutcomeFine

LEMMA OtherFine == ASSUME IInv, NewSession \/ ErrorReported PROVE Fine(hs')
  <1> USE DEF InHandshake, Idle
  <1>1. Fine(hs) /\ hs.at \in {"session", "error"} /\ hs \in HandshakeRec
    BY HandshakeFacts DEF NewSession, ErrorReported, Fine
  <1>2. CASE NewSession
    BY <1>1, <1>2 DEF NewSession, Fine, Told, Verdict, Owner, HandshakeRec
  <1>3. CASE ErrorReported
    BY <1>1, <1>3 DEF ErrorReported, Fine, Told, Verdict, Owner, HandshakeRec
  <1> QED
    BY <1>2, <1>3

\* A new handshake, on a State whose import is done.
LEMMA StartFine ==
    ASSUME IInv, NEW c \in Channels, NEW i \in 1..MaxImports, HandshakeStart(c, i),
           state[chan[c].layers[i]].life = "live"
    PROVE  Fine(hs')
  <1> DEFINE s == chan[c].layers[i]
             server == state[s].conf.server
  <1>1. s \in Ids /\ state[s] \in StateRec /\ server \in BOOLEAN
    BY TopFacts DEF IInv, TypeOK, HandshakeStart, StateRec, Conf
  <1>2. s # job.st
    <2>1. faults = {} /\ job.at \in {"none", "password"}
      BY DEF HandshakeStart, Idle
    <2>2. CASE job.at = "none"
      BY <1>1, <2>1, <2>2, IdFacts DEF IInv, Core, JobInv
    <2>3. CASE job.at = "password"
      BY <2>1, <2>3 DEF IInv, Core, LayersInv, EarlySteps, CtxSteps, HandshakeStart
    <2> QED
      BY <2>1, <2>2, <2>3
  <1>3. PICK ext \in IF server THEN Hellos ELSE {<<>>} :
          hs' = [NoHandshake EXCEPT !.st = s, !.ext = ext, !.at = IF server THEN "hello" ELSE "certs"]
    BY DEF HandshakeStart
  <1>4. ext \in Seq(Nat)
    <2>1. CASE server
      BY <2>1, SessionAssumption
    <2>2. CASE ~server
      <3>1. ext = <<>> /\ <<>> \in Seq(Nat)
        BY <2>2
      <3> QED
        BY <3>1
    <2> QED
      BY <2>1, <2>2
  <1>5. /\ hs'.st = s /\ hs'.at = IF server THEN "hello" ELSE "certs"
        /\ ~hs'.rejected /\ ~hs'.asked /\ ~hs'.bad
    BY <1>3 DEF NoHandshake
  <1>6. hs' \in HandshakeRec
    BY <1>1, <1>3, <1>4, IdFacts, ConstantTypes DEF HandshakeRec, InProgress
  <1> QED
    BY <1>1, <1>2, <1>5, <1>6 DEF Fine, Told, Verdict, Owner, HandshakeStart

\* No SSL_CTX is leaked, or that of State s.
LeakSame == hist'.leaked = hist.leaked /\ hist'.openssl3 = hist.openssl3
Leaves(s) == /\ hist'.openssl3 = hist.openssl3
             /\ \/ hist'.leaked = hist.leaked
                \/ hist'.leaked = hist.leaked \cup {s} /\ ~hist.openssl3

\* What a handshake leaves alone.
HistSame == /\ hist'.imports = hist.imports /\ hist'.model = hist.model /\ hist'.late = hist.late
            /\ hist'.closed = hist.closed /\ hist'.unstacked = hist.unstacked
            /\ hist'.opts = hist.opts /\ LeakSame

LEMMA HandshakeFrame ==
    ASSUME IInv, UNCHANGED <<chan, state, ctx, job>>, HistSame, hist' \in HistRec,
           faults' \subseteq {"ctx", "state", "chan"}, FaultsHaveCauses',
           faults' = {} => faults = {}, Fine(hs')
    PROVE  IInv'
  <1>1. hs' \in HandshakeRec /\ ~hs'.rejected /\ NameInv' /\ VerdictInv' /\ HandshakeInv'
    BY DEF Fine, NameInv, Told, VerdictInv, Verdict, HandshakeInv, Owner
  <1>2. TypeOK'
    BY <1>1 DEF IInv, TypeOK
  <1>3. ConfInv' /\ OptionsInv' /\ ListedIsTrusted'
    BY DEF IInv, ConfInv, OptionsInv, ListedIsTrusted, HistSame
  <1>4. ASSUME faults' = {} PROVE Core'
    <2>1. Core
      BY <1>4 DEF IInv
    <2>2. JobInv'
      BY <2>1 DEF Core, JobInv, HistSame, Closing, Stacked, ChanThere
    <2>3. LayersInv' /\ CtxInv'
      BY <2>1 DEF Core, LayersInv, CtxInv, HistSame, LeakSame, LayersLive
    <2>4. ArgumentsLast'
      BY <1>4, <2>1 DEF Core, ArgumentsLast, HistSame, IInv
    <2> QED
      BY <1>1, <2>2, <2>3, <2>4 DEF Core
  <1> QED
    BY <1>1, <1>2, <1>3, <1>4 DEF IInv

LEMMA HandshakeStep == ASSUME IInv, Handshake PROVE IInv'
  <1>0. TypeOK /\ FaultsHaveCauses
    BY DEF IInv
  <1>1. ASSUME Hello \/ ServerName \/ Protocol \/ PeerCertificates \/ Verify \/ NewSession \/ ErrorReported
        PROVE  IInv'
    <2>1. UNCHANGED <<chan, state, ctx, job, faults, hist>>
      BY <1>1 DEF Hello, ServerName, Protocol, PeerCertificates, Verify, NewSession, ErrorReported
    <2>2. Fine(hs')
      BY <1>1, HelloFine, ServerNameFine, ProtocolFine, PeerCertificatesFine, VerifyFine, OtherFine
    <2> QED
      BY <1>0, <2>1, <2>2, HandshakeFrame DEF HistSame, LeakSame, TypeOK, FaultsHaveCauses
  <1>2. ASSUME NEW c \in Channels, NEW i \in 1..MaxImports, HandshakeStart(c, i) PROVE IInv'
    <2> DEFINE s == chan[c].layers[i]
    <2>1. UNCHANGED <<chan, state, ctx, job>> /\ faults = {}
      BY <1>2 DEF HandshakeStart, Idle
    <2>2. hist' \in HistRec /\ HistSame /\ hist'.inside = hist.inside
      BY <1>0, <1>2 DEF HandshakeStart, TypeOK, HistRec, HandshakeRec, HistSame, LeakSame
    <2>3. CASE state[s].life = "live"
      <3>1. faults' = faults
        BY <1>2, <2>3 DEF HandshakeStart
      <3>2. Fine(hs')
        BY <1>2, <2>3, StartFine
      <3> QED
        BY <1>0, <2>1, <2>2, <3>1, <3>2, HandshakeFrame DEF TypeOK, FaultsHaveCauses
    <2>4. CASE state[s].life # "live"
      <3>1. faults' = {"state"} /\ hs' = hs
        BY <1>2, <2>1, <2>4 DEF HandshakeStart, Fault
      <3>2. hist.late
        BY <1>2, <2>1, <2>4 DEF HandshakeStart, IInv, Core, LayersInv, LayersLive
      <3>3. FaultsHaveCauses'
        BY <2>2, <3>1, <3>2 DEF FaultsHaveCauses, HistSame
      <3>4. Fine(hs')
        BY <2>1, <3>1 DEF IInv, TypeOK, Core, HandshakeInv, VerdictInv, NameInv, Fine, Owner, Verdict, Told
      <3> QED
        BY <2>1, <2>2, <3>1, <3>3, <3>4, HandshakeFrame
    <2> QED
      BY <2>3, <2>4
  <1>3. ASSUME ArgumentGone PROVE IInv'
    <2>1. faults = {} /\ faults' = {"state"} /\ UNCHANGED <<chan, state, ctx, job, hist, hs>>
      BY <1>3 DEF ArgumentGone, Idle, Fault
    <2>2. /\ hs.at \in {"hello", "alpn"} /\ Fine(hs) /\ hs.st \in Ids
      BY <1>3, <2>1, HandshakeFacts DEF ArgumentGone
    <2>3. hist.model
      <3> DEFINE x == ctx[Conn.ctx]
      <3>1. /\ Conn.life = "live" /\ Conn.conf.server /\ hs.st # job.st
        BY <2>2 DEF Fine, Owner, Conn
      <3>2. SUFFICES ASSUME ~hist.model PROVE FALSE
        OBVIOUS
      <3>3. x.hello >= hs.st /\ x.hello \in {NoId, hs.st} /\ x.alpn \in {NoId, hs.st}
        BY <2>1, <2>2, <3>1, <3>2 DEF IInv, Core, ArgumentsLast, Conn
      <3>4. x.hello = hs.st
        BY <2>2, <3>3, IdFacts DEF NoId, Ids
      <3> QED
        BY <1>3, <3>1, <3>3, <3>4 DEF ArgumentGone, Arg, Conn
    <2>4. FaultsHaveCauses'
      BY <2>1, <2>3 DEF FaultsHaveCauses
    <2> QED
      BY <1>0, <2>1, <2>2, <2>4, HandshakeFrame DEF HistSame, LeakSame, TypeOK
  <1>4. ASSUME ScriptCloses PROVE IInv'
    <2>1. faults = {} /\ faults' = {"state"} /\ UNCHANGED <<chan, state, ctx, job, hs>>
      BY <1>4 DEF ScriptCloses, Idle, Fault
    <2>2. hist' \in HistRec /\ HistSame /\ hist'.inside
      BY <1>0, <1>4 DEF ScriptCloses, TypeOK, HistRec, HistSame, LeakSame
    <2>3. Fine(hs)
      BY <1>4, <2>1, HandshakeFacts DEF ScriptCloses, InProgress
    <2>4. FaultsHaveCauses'
      BY <2>1, <2>2 DEF FaultsHaveCauses
    <2> QED
      BY <2>1, <2>2, <2>3, <2>4, HandshakeFrame
  <1> QED
    BY <1>1, <1>2, <1>3, <1>4 DEF Handshake

-----------------------------------------------------------------------------
(* The steps of an import.                                                 *)

\* An import changes its own State only, and no handshake.
ImportFrame ==
    /\ faults = {} /\ job.at # "none" /\ hs' = hs /\ job'.st \in {job.st, NoId}
    /\ \A s \in Ids \ {job.st} : state'[s] = state[s]
    /\ state'[job.st].conf \in {NoConf, state[job.st].conf}
    /\ hist'.imports = hist.imports /\ hist'.opts = hist.opts /\ hist'.closed = hist.closed

\* A part of the invariant that follows from that.
LEMMA FrameHandshake ==
    ASSUME IInv, ImportFrame
    PROVE  ConfInv' /\ VerdictInv' /\ ~hs'.rejected /\ NameInv' /\ HandshakeInv'
  <1>1. Owner(hs) /\ Verdict(hs) /\ Told(hs) /\ ~hs.rejected
    BY DEF IInv, ImportFrame, Core, HandshakeInv, VerdictInv, NameInv
  <1>2. ConfInv'
    BY DEF IInv, ConfInv, ImportFrame, NoConf
  <1>3. hs.at # "none" => hs.st \in Ids /\ hs.st # job'.st /\ state'[hs.st] = state[hs.st]
    BY <1>1, IdFacts DEF Owner, ImportFrame
  <1>4. HandshakeInv' /\ VerdictInv'
    BY <1>1, <1>3 DEF HandshakeInv, VerdictInv, Owner, Verdict, ImportFrame
  <1>5. NameInv' /\ ~hs'.rejected
    BY <1>1 DEF NameInv, Told, ImportFrame
  <1> QED
    BY <1>2, <1>4, <1>5

\* What a State that is freed does to the SSL_CTX objects.
Drops(s) ==
    /\ state' = [state EXCEPT ![s] = Dead]
    /\ \A c \in Ids :
          \/ /\ ctx'[c].hello = ctx[c].hello /\ ctx'[c].alpn = ctx[c].alpn
             /\ ctx'[c].trusted = ctx[c].trusted /\ ctx'[c].names = ctx[c].names
             /\ ctx'[c].unread = ctx[c].unread
          \/ ctx'[c] = NoCtx /\ \A t \in Ids \ {s} : state[t].ctx # c
    /\ \A c \in Ids : c > s => ctx'[c] = ctx[c]
    /\ ~hist.model => /\ ctx'[s].refs = (IF s \in hist'.leaked THEN 1 ELSE 0)
                      /\ \A c \in Ids \ {s} : ctx'[c] = ctx[c]

\* Tls_Free, of a State that is not that of an import within CTX_Init: the SSL_CTX
\* goes only when nobody else has it, or one was shared.
LEMMA FreeDrops ==
    ASSUME IInv, faults = {}, NEW s \in Ids, state[s].life = "live",
           s = job.st => job.at \notin CtxSteps, TlsFree(s), LeakSame
    PROVE  /\ faults' = {} => Drops(s)
           /\ faults' # {} => faults' = {"ctx"} /\ hist.model
  <1> DEFINE c == state[s].ctx
             n == IF state[s].ssl THEN 2 ELSE 1
  <1>1. /\ TypeOK /\ CtxInv /\ JobInv /\ n \in {1, 2}
        /\ state' = [state EXCEPT ![s] = Dead] /\ ctx' = TlsClean(ctx, s)
        /\ s \notin hist'.leaked
    BY DEF IInv, Core, TlsFree, CtxInv, LeakSame
  <1>2. s \in Nat /\ c \in AnyId /\ (c # NoId => c \in Ids /\ c <= s /\ ctx[c] \in CtxRec /\ ctx[c].refs \in Nat)
    BY <1>1, IdFacts DEF TypeOK, StateRec, CtxRec, CtxInv, AnyId
  <1>3. CASE c = NoId
    <2>1. ctx' = ctx /\ faults' = {}
      BY <1>1, <1>3 DEF TlsClean, TlsFree, OverReleased
    <2>2. s = job.st /\ (~hist.model => ctx[s].refs = 0)
      <3>1. s = job.st
        BY <1>1, <1>3 DEF CtxInv
      <3> QED
        BY <1>1, <1>3, <3>1 DEF CtxInv
    <2> QED
      BY <1>1, <2>1, <2>2 DEF Drops
  <1>4. CASE c # NoId
    <2>1. \A d \in Ids \ {c} : ctx'[d] = ctx[d]
      BY <1>1, <1>2, <1>4 DEF TlsClean, TypeOK
    <2>2. ~hist.model => c = s /\ ctx[c].refs = n
      BY <1>1, <1>2, <1>4 DEF CtxInv
    <2>3. ~hist.model => ~OverReleased(s)
      <3>1. ~hist.model => \A t \in Ids \ {s} : state[t].ctx # c
        BY <1>1, <1>4, <2>2 DEF CtxInv
      <3> QED
        BY <1>1, <1>2, <1>4, <2>2, <3>1 DEF OverReleased
    <2>4. ~OverReleased(s) => ctx[c].refs >= n /\ (ctx[c].refs = n => \A t \in Ids \ {s} : state[t].ctx # c)
      BY <1>1, <1>2, <1>4 DEF OverReleased
    <2>5. ctx[c].refs <= n => ctx'[c] = NoCtx
      BY <1>1, <1>2, <1>4 DEF TlsClean, TypeOK
    <2>6. ctx[c].refs > n =>
             /\ ctx'[c].hello = ctx[c].hello /\ ctx'[c].alpn = ctx[c].alpn
             /\ ctx'[c].trusted = ctx[c].trusted /\ ctx'[c].names = ctx[c].names
             /\ ctx'[c].unread = ctx[c].unread
      BY <1>1, <1>2, <1>4 DEF TlsClean, TypeOK, CtxRec
    <2>7. faults' = IF OverReleased(s) THEN {"ctx"} ELSE {}
      BY DEF TlsFree
    <2>8. ASSUME faults' = {} PROVE Drops(s)
      <3>1. ~OverReleased(s)
        BY <2>7, <2>8
      <3>2. \/ ctx[c].refs > n
            \/ ctx[c].refs = n /\ \A t \in Ids \ {s} : state[t].ctx # c
        BY <1>1, <1>2, <1>4, <2>4, <3>1
      <3>3. ~hist.model => ctx'[s].refs = 0
        BY <1>1, <1>2, <1>4, <2>2, <2>5 DEF NoCtx
      <3>4. ASSUME NEW d \in Ids, d > s PROVE ctx'[d] = ctx[d]
        <4>1. d \in Nat /\ c \in Nat /\ c <= s
          BY <1>2, <1>4, IdFacts
        <4>2. d # c
          <5> HIDE DEF c
          <5> QED
            BY <1>2, <3>4, <4>1
        <4> QED
          BY <2>1, <4>2
      <3>5. ~hist.model => \A d \in Ids \ {s} : ctx'[d] = ctx[d]
        BY <2>1, <2>2
      <3>6. \A d \in Ids :
              \/ /\ ctx'[d].hello = ctx[d].hello /\ ctx'[d].alpn = ctx[d].alpn
                 /\ ctx'[d].trusted = ctx[d].trusted /\ ctx'[d].names = ctx[d].names
                 /\ ctx'[d].unread = ctx[d].unread
              \/ ctx'[d] = NoCtx /\ \A t \in Ids \ {s} : state[t].ctx # d
        BY <1>1, <1>2, <1>4, <2>1, <2>5, <2>6, <3>2
      <3> QED
        BY <1>1, <3>3, <3>4, <3>5, <3>6 DEF Drops
    <2> QED
      BY <2>3, <2>7, <2>8
  <1> QED
    BY <1>3, <1>4

\* A State that is dropped takes nothing from the others.
LEMMA DropsCtx ==
    ASSUME IInv, faults = {}, NEW s \in Ids, state[s].life = "live", Drops(s),
           \/ s = job.st /\ job' = NoJob
           \/ s # job.st /\ job' = job,
           hist'.model = hist.model, Leaves(s)
    PROVE  CtxInv' /\ ArgumentsLast' /\ ListedIsTrusted'
  <1>1. TypeOK /\ CtxInv /\ ArgumentsLast /\ ListedIsTrusted
    BY DEF IInv, Core
  <1>2. \A t \in Ids \ {s} : state'[t] = state[t]
    BY <1>1 DEF Drops, TypeOK
  <1>3. state'[s] = Dead /\ state'[s].ctx = NoId /\ ~state'[s].ssl /\ state'[s].life = "freed"
    BY <1>1 DEF Drops, TypeOK, Dead, NoState
  <1>4. job'.at \in CtxSteps \cup {"model", "ctx"} => job' = job
    BY DEF NoJob, CtxSteps
  <1>5. \A t \in Ids \ {s} : t # job'.st => t # job.st
    OBVIOUS
  <1>6. \A c \in Ids : {ctx'[c].hello, ctx'[c].alpn} \subseteq {NoId, ctx[c].hello, ctx[c].alpn}
    BY DEF Drops, NoCtx
  <1>7. \A t \in Ids \ {s} : state[t].life = "live" /\ t # job'.st =>
           state[t].ctx \in Ids /\ ctx'[state[t].ctx].hello = ctx[state[t].ctx].hello
                                /\ ctx'[state[t].ctx].alpn = ctx[state[t].ctx].alpn
    BY <1>1, <1>5 DEF CtxInv, TypeOK, StateRec, AnyId, Drops
  <1>8. ListedIsTrusted'
    BY <1>1 DEF ListedIsTrusted, Drops, NoCtx
  <1>9. ArgumentsLast'
    <2> SUFFICES ASSUME NEW t \in Ids, t # job'.st, state'[t].life = "live", state'[t].conf.server
                 PROVE  LET x == ctx'[state'[t].ctx]
                        IN  /\ x.hello >= t
                            /\ state'[t].conf.protos => x.alpn >= t
                            /\ ~hist.model => {x.hello, x.alpn} \subseteq {NoId, t}
      BY DEF ArgumentsLast
    <2>1. t # s /\ state'[t] = state[t]
      BY <1>2, <1>3
    <2> QED
      BY <1>1, <1>5, <1>7, <2>1 DEF ArgumentsLast
  <1>10. CtxInv'
    <2>1. \A t \in Ids : state'[t].ctx # NoId =>
             /\ state'[t].life = "live" /\ state'[t].ctx <= t
             /\ job'.at \in CtxSteps \cup {"model", "ctx"} => state'[t].ctx # job'.st
      BY <1>1, <1>2, <1>3, <1>4 DEF CtxInv
    <2>2. \A t \in Ids : state'[t].life = "live" /\ t # job'.st => state'[t].ctx # NoId /\ state'[t].ssl
      BY <1>1, <1>2, <1>3, <1>5 DEF CtxInv
    <2>3. \A t \in Ids : state'[t].ssl => state'[t].ctx # NoId
      BY <1>1, <1>2, <1>3 DEF CtxInv
    <2>4. ASSUME ~hist.model, NEW c \in Ids
          PROVE  /\ state'[c].ctx \in {NoId, c} /\ {ctx'[c].hello, ctx'[c].alpn} \subseteq {NoId, c}
                 /\ ctx'[c].refs = IF job'.st = c /\ job'.at \in CtxSteps THEN 1
                                   ELSE IF state'[c].ctx = NoId THEN (IF c \in hist'.leaked THEN 1 ELSE 0)
                                   ELSE IF state'[c].ssl THEN 2 ELSE 1
      <3>1. state'[c].ctx \in {NoId, c} /\ {ctx'[c].hello, ctx'[c].alpn} \subseteq {NoId, c}
        BY <1>1, <1>2, <1>3, <1>6, <2>4 DEF CtxInv
      <3>2. CASE c = s
        <4>1. ctx'[c].refs = IF c \in hist'.leaked THEN 1 ELSE 0
          BY <2>4, <3>2 DEF Drops
        <4>2. ~(job'.st = c /\ job'.at \in CtxSteps)
          BY <1>4, <3>2, IdFacts DEF NoJob
        <4> QED
          BY <1>3, <3>1, <3>2, <4>1, <4>2
      <3>3. CASE c # s
        <4>1. ctx'[c] = ctx[c] /\ state'[c] = state[c] /\ (c \in hist'.leaked <=> c \in hist.leaked)
          BY <1>2, <2>4, <3>3 DEF Drops, Leaves
        <4>2. (job'.st = c /\ job'.at \in CtxSteps) <=> (job.st = c /\ job.at \in CtxSteps)
          BY <3>3, IdFacts DEF NoJob
        <4> QED
          BY <1>1, <2>4, <3>1, <4>1, <4>2 DEF CtxInv
      <3> QED
        BY <3>2, <3>3
    <2>5. \A c \in Ids : c \in hist'.leaked => state'[c].life = "freed" /\ ~hist'.openssl3
      BY <1>1, <1>2, <1>3 DEF CtxInv, Leaves
    <2> QED
      BY <2>1, <2>2, <2>3, <2>4, <2>5 DEF CtxInv
  <1> QED
    BY <1>8, <1>9, <1>10

\* An import that fails: its State is gone, and is not a layer unless it failed late.
LEMMA EndsCore ==
    ASSUME IInv, faults = {}, job.at # "none", Drops(job.st), job' = NoJob, UNCHANGED <<chan, hs>>,
           hist'.imports = hist.imports, hist'.model = hist.model, Leaves(job.st),
           (hist'.late = hist.late /\ job.at \in EarlySteps) \/ hist'.late = TRUE
    PROVE  Core' /\ ListedIsTrusted'
  <1> DEFINE s == job.st
  <1>1. TypeOK /\ JobInv /\ LayersInv /\ CtxInv /\ Owner(hs)
    BY DEF IInv, Core, HandshakeInv
  <1>2. s \in Ids /\ s = hist.imports /\ s \in Nat /\ state[s].life = "live"
    BY JobFacts, IdFacts
  <1>3. CtxInv' /\ ArgumentsLast' /\ ListedIsTrusted'
    BY <1>2, DropsCtx
  <1>4. \A t \in Ids \ {s} : state'[t] = state[t]
    BY <1>1 DEF Drops, TypeOK
  <1>5. state'[s].life = "freed"
    BY <1>1, <1>2 DEF Drops, TypeOK, Dead, NoState
  <1>6. JobInv'
    <2>1. \A t \in Ids : t > hist'.imports => state'[t] = NoState /\ ctx'[t] = NoCtx
      BY <1>1, <1>2, <1>4, IdFacts DEF JobInv, Drops
    <2>2. job'.at = "none" /\ job'.st = NoId
      BY DEF NoJob
    <2> QED
      BY <2>1, <2>2 DEF JobInv, EarlySteps, StackedSteps, CtxSteps, LateSteps
  <1>7. LayersInv'
    <2>1. \A c \in Channels : \A i \in DOMAIN chan[c].layers : chan[c].layers[i] \in Ids
      BY <1>1, TopFacts
    <2>2. \A c \in Channels : \A i \in DOMAIN chan[c].layers : state'[chan[c].layers[i]].life # "none"
      BY <1>1, <1>4, <1>5, <2>1 DEF LayersInv
    <2>3. \A t \in Ids : state'[t].life = "live" => \E c \in Channels : t \in ToSet(chan[c].layers)
      BY <1>1, <1>4, <1>5 DEF LayersInv
    <2>4. ~hist'.late => \A c \in Channels : \A i \in DOMAIN chan[c].layers :
                            state'[chan[c].layers[i]].life = "live"
      BY <1>1, <1>4, <2>1 DEF LayersInv, LayersLive
    <2>5. job'.at \notin EarlySteps /\ job'.at \notin StackedSteps
      BY DEF NoJob, EarlySteps, StackedSteps, CtxSteps, LateSteps
    <2> QED
      BY <1>1, <2>2, <2>3, <2>4, <2>5 DEF LayersInv, LayersLive
  <1>8. HandshakeInv'
    BY <1>1, <1>2, <1>4, IdFacts DEF HandshakeInv, Owner, NoJob
  <1> QED
    BY <1>3, <1>6, <1>7, <1>8 DEF Core

\* A step that changes nothing but how far the import is.
LEMMA GotoCore ==
    ASSUME IInv, faults = {}, NEW step, Goto(step), UNCHANGED <<chan, state, ctx, hist, hs>>,
           \/ job.at \in CtxSteps /\ step \in CtxSteps
           \/ job.at \in LateSteps \ {"ssl"} /\ step \in (LateSteps \ {"ssl"}) \cup {"register"},
           \A c \in Channels : ~Closing(c)
    PROVE  Core' /\ ListedIsTrusted'
  <1>1. job' = [job EXCEPT !.at = step] /\ job \in JobRec
    BY DEF Goto, IInv, TypeOK
  <1>2. job'.at = step /\ job'.st = job.st /\ job'.chan = job.chan /\ job'.depth = job.depth
        /\ job'.saved = job.saved
    BY <1>1 DEF JobRec
  <1>3. /\ job.at \in CtxSteps <=> job'.at \in CtxSteps
        /\ job.at \in EarlySteps <=> job'.at \in EarlySteps
        /\ job.at \in StackedSteps <=> job'.at \in StackedSteps
        /\ job.at \in (LateSteps \ {"ssl"}) \cup {"register"} <=> job'.at \in (LateSteps \ {"ssl"}) \cup {"register"}
        /\ {job.at, job'.at} \cap {"none", "model", "ctx", "options", "stack", "restore"} = {}
    BY <1>2 DEF EarlySteps, StackedSteps, CtxSteps, LateSteps
  <1>4. JobInv /\ LayersInv /\ CtxInv /\ ArgumentsLast /\ HandshakeInv /\ ListedIsTrusted
    BY DEF IInv, Core
  <1>5. JobInv'
    BY <1>2, <1>3, <1>4 DEF JobInv, ChanThere, Closing, Stacked
  <1>6. LayersInv'
    BY <1>2, <1>3, <1>4 DEF LayersInv, LayersLive
  <1>7. CtxInv'
    <2>1. job'.at \in CtxSteps \cup {"model", "ctx"} <=> job.at \in CtxSteps \cup {"model", "ctx"}
      BY <1>3
    <2>2. \A c \in Ids : (job'.st = c /\ job'.at \in CtxSteps) <=> (job.st = c /\ job.at \in CtxSteps)
      BY <1>2, <1>3
    <2>3. /\ \A s \in Ids : state'[s].ctx # NoId =>
                /\ state'[s].life = "live" /\ state'[s].ctx <= s
                /\ job'.at \in CtxSteps \cup {"model", "ctx"} => state'[s].ctx # job'.st
          /\ \A s \in Ids : state'[s].life = "live" /\ s # job'.st => state'[s].ctx # NoId /\ state'[s].ssl
          /\ \A s \in Ids : state'[s].ssl => state'[s].ctx # NoId
      BY <1>2, <1>4, <2>1 DEF CtxInv
    <2>4. ASSUME ~hist.model
          PROVE  /\ \A s \in Ids : state[s].ctx \in {NoId, s}
                 /\ \A c \in Ids : {ctx[c].hello, ctx[c].alpn} \subseteq {NoId, c}
                 /\ \A c \in Ids :
                       ctx[c].refs = IF job'.st = c /\ job'.at \in CtxSteps THEN 1
                                     ELSE IF state[c].ctx = NoId THEN (IF c \in hist.leaked THEN 1 ELSE 0)
                                     ELSE IF state[c].ssl THEN 2 ELSE 1
      BY <1>4, <2>2, <2>4 DEF CtxInv
    <2>5. \A c \in Ids : c \in hist'.leaked => state'[c].life = "freed" /\ ~hist'.openssl3
      BY <1>4 DEF CtxInv
    <2> QED
      BY <2>3, <2>4, <2>5 DEF CtxInv
  <1>8. ArgumentsLast' /\ HandshakeInv' /\ ListedIsTrusted'
    BY <1>2, <1>4 DEF ArgumentsLast, HandshakeInv, Owner, ListedIsTrusted
  <1> QED
    BY <1>5, <1>6, <1>7, <1>8 DEF Core

LEMMA ImportRest ==
    ASSUME IInv, ImportFrame, TypeOK', FaultsHaveCauses', faults' = {} => Core',
           ListedIsTrusted', OptionsInv'
    PROVE  IInv'
  BY FrameHandshake DEF IInv

\* The CA certificates of the other SSL_CTX objects stay.
LEMMA FreeListed == ASSUME IInv, NEW s \in Ids, TlsFree(s) PROVE ListedIsTrusted'
  <1> DEFINE c == state[s].ctx
             n == IF state[s].ssl THEN 2 ELSE 1
  <1>1. /\ TypeOK /\ ListedIsTrusted /\ ctx' = TlsClean(ctx, s) /\ n \in Nat
        /\ c \in AnyId /\ (c # NoId => c \in Ids /\ ctx[c] \in CtxRec)
    BY DEF IInv, TypeOK, TlsFree, StateRec, AnyId
  <1>2. CASE c = NoId
    BY <1>1, <1>2 DEF TlsClean, ListedIsTrusted
  <1>3. CASE c # NoId /\ ctx[c].refs <= n
    BY <1>1, <1>3 DEF TlsClean, ListedIsTrusted, TypeOK, NoCtx
  <1>4. CASE c # NoId /\ ~(ctx[c].refs <= n)
    <2>1. ctx' = [ctx EXCEPT ![c].refs = @ - n]
      BY <1>1, <1>4 DEF TlsClean
    <2>2. \A d \in Ids : ctx'[d].unread = ctx[d].unread /\ ctx'[d].names = ctx[d].names
                         /\ ctx'[d].trusted = ctx[d].trusted
      BY <1>1, <1>4, <2>1 DEF TypeOK, CtxRec
    <2> QED
      BY <1>1, <2>2 DEF ListedIsTrusted
  <1> QED
    BY <1>2, <1>3, <1>4

\* An import that fails and frees its State.
LEMMA EndsStep ==
    ASSUME IInv, faults = {}, job.at # "none", job.at \notin CtxSteps, ImportFails, UNCHANGED <<chan, hs>>,
           hist' \in HistRec, hist'.imports = hist.imports, hist'.model = hist.model,
           hist'.opts = hist.opts, hist'.closed = hist.closed, LeakSame,
           (hist'.late = hist.late /\ job.at \in EarlySteps) \/ hist'.late = TRUE,
           hist.unstacked \subseteq hist'.unstacked,
           job.at \in {"stack", "restore"} => job.chan \in hist'.unstacked
    PROVE  IInv'
  <1>1. job.st \in Ids /\ state[job.st].life = "live" /\ TlsFree(job.st) /\ job' = NoJob /\ TypeOK
    BY JobFacts DEF ImportFails, IInv
  <1>2. TypeOK' /\ ListedIsTrusted'
    BY <1>1, ImportFailsType, FreeListed
  <1>3. ImportFrame
    BY <1>1, IdFacts DEF ImportFrame, TlsFree, TypeOK, NoJob, Dead, NoState, NoConf
  <1>4. FaultsHaveCauses'
    BY <1>1, FreeDrops DEF FaultsHaveCauses
  <1>5. faults' = {} => Core'
    BY <1>1, FreeDrops, EndsCore DEF Leaves, LeakSame
  <1>6. OptionsInv'
    BY DEF IInv, OptionsInv, ImportFails, NoJob
  <1> QED
    BY <1>2, <1>3, <1>4, <1>5, <1>6, ImportRest

\* CTX_Init fails: nobody has its SSL_CTX.
LEMMA RefusedStep ==
    ASSUME IInv, job.at \in CtxSteps, faults = {}, TypeOK',
           state' = [state EXCEPT ![job.st] = Dead], ctx' = [ctx EXCEPT ![job.st] = NoCtx], job' = NoJob,
           UNCHANGED <<chan, faults, hist, hs>>
    PROVE  IInv'
  <1>1. job.at # "none" /\ job.at \in EarlySteps
    BY DEF CtxSteps, EarlySteps
  <1>2. job.st \in Ids /\ TypeOK /\ CtxInv
    BY <1>1, JobFacts DEF IInv, Core
  <1>3. \A t \in Ids : state[t].ctx # job.st
    BY <1>2, IdFacts DEF CtxInv
  <1>4. Drops(job.st)
    <2>1. ctx'[job.st] = NoCtx /\ \A c \in Ids \ {job.st} : ctx'[c] = ctx[c]
      BY <1>2 DEF TypeOK
    <2>2. \A c \in Ids : c > job.st => c # job.st
      BY <1>2, IdFacts
    <2>3. NoCtx.refs = 0 /\ job.st \notin hist'.leaked
      BY <1>1, <1>2, JobFacts DEF NoCtx, CtxInv
    <2> QED
      BY <1>2, <1>3, <2>1, <2>2, <2>3 DEF Drops
  <1>5. Core' /\ ListedIsTrusted'
    BY <1>1, <1>4, EndsCore DEF Leaves
  <1>6. ImportFrame
    BY <1>1, <1>2, IdFacts DEF ImportFrame, TypeOK, NoJob, Dead, NoState, NoConf
  <1>7. OptionsInv' /\ FaultsHaveCauses'
    BY DEF IInv, OptionsInv, NoJob, CtxSteps, FaultsHaveCauses
  <1> QED
    BY <1>5, <1>6, <1>7, ImportRest

\* Before OpenSSL 3: the SSL_CTX that could not load its CA stays.
LEMMA LocationsStep == ASSUME IInv, VerifyLocationsRefused, TypeOK' PROVE IInv'
  <1> DEFINE s == job.st
  <1>1. /\ faults = {} /\ job.at = "ca" /\ job.at \in CtxSteps \cap EarlySteps /\ job.at # "none"
        /\ TlsFree(s) /\ job' = NoJob /\ ~hist.openssl3 /\ UNCHANGED <<chan, hs>>
        /\ hist' = [hist EXCEPT !.leaked = @ \cup {s}]
    BY DEF VerifyLocationsRefused, At, ImportFails, CtxSteps, EarlySteps
  <1>2. s \in Ids /\ TypeOK /\ CtxInv /\ JobInv /\ state[s].life = "live" /\ state[s].ctx = NoId
    BY <1>1, JobFacts DEF IInv, Core, JobInv
  <1>3. ctx' = ctx /\ faults' = {} /\ state' = [state EXCEPT ![s] = Dead]
    BY <1>1, <1>2 DEF TlsFree, TlsClean, OverReleased
  <1>4. /\ hist'.leaked = hist.leaked \cup {s} /\ hist'.openssl3 = hist.openssl3
        /\ hist'.imports = hist.imports /\ hist'.model = hist.model /\ hist'.late = hist.late
        /\ hist'.opts = hist.opts /\ hist'.closed = hist.closed /\ hist'.unstacked = hist.unstacked
    BY <1>1, <1>2 DEF TypeOK, HistRec
  <1>5. Drops(s)
    <2>1. ~hist.model => ctx[s].refs = 1
      BY <1>1, <1>2 DEF CtxInv
    <2> QED
      BY <1>3, <1>4, <2>1 DEF Drops
  <1>6. Core' /\ ListedIsTrusted'
    BY <1>1, <1>4, <1>5, EndsCore DEF Leaves
  <1>7. ImportFrame
    BY <1>1, <1>2, <1>3, <1>4, IdFacts DEF ImportFrame, TypeOK, NoJob, Dead, NoState, NoConf
  <1>8. OptionsInv' /\ FaultsHaveCauses'
    BY <1>1, <1>3, <1>4 DEF IInv, OptionsInv, NoJob, FaultsHaveCauses
  <1> QED
    BY <1>6, <1>7, <1>8, ImportRest

LEMMA GotoStep ==
    ASSUME IInv, faults = {}, NEW step, Goto(step), UNCHANGED <<chan, state, ctx, faults, hist, hs>>,
           \/ job.at \in CtxSteps /\ step \in CtxSteps
           \/ job.at \in LateSteps \ {"ssl"} /\ step \in (LateSteps \ {"ssl"}) \cup {"register"},
           \A c \in Channels : ~Closing(c), TypeOK'
    PROVE  IInv'
  <1>1. Core' /\ ListedIsTrusted'
    BY GotoCore
  <1>2. job' = [job EXCEPT !.at = step] /\ job \in JobRec
    BY DEF Goto, IInv, TypeOK
  <1>3. job'.at = step /\ job'.st = job.st /\ job.at # "none"
        /\ {job.at, step} \cap {"stack", "restore"} = {}
    BY <1>2 DEF JobRec, CtxSteps, LateSteps
  <1>4. ImportFrame
    BY <1>3 DEF ImportFrame
  <1>5. OptionsInv' /\ FaultsHaveCauses'
    BY <1>3 DEF IInv, OptionsInv, FaultsHaveCauses
  <1> QED
    BY <1>1, <1>4, <1>5, ImportRest

\* Where an import is, as sets of steps.
LEMMA StepSets ==
    /\ "none" \notin EarlySteps \cup StackedSteps \cup CtxSteps
    /\ {"ctx", "options", "model"} \cap CtxSteps = {} /\ {"ctx", "options", "model", "stack"} \subseteq EarlySteps
    /\ {"restore", "ssl", "name", "register"} \subseteq StackedSteps
    /\ CtxSteps \subseteq EarlySteps /\ EarlySteps \cap StackedSteps = {}
    /\ "ciphers" \in CtxSteps /\ "ca" \in CtxSteps /\ "password" \in CtxSteps
    /\ {"stack", "restore", "ssl", "name", "register"} \cap CtxSteps = {}
  BY DEF EarlySteps, StackedSteps, CtxSteps, LateSteps

LEMMA CtxCreatedStep == ASSUME IInv, CtxCreated, TypeOK' PROVE IInv'
  <1> DEFINE s == job.st
  <1>1. /\ faults = {} /\ job.at = "ctx" /\ job'.at = "ciphers"
        /\ job'.st = s /\ job'.chan = job.chan /\ job'.depth = job.depth /\ job'.saved = job.saved
        /\ UNCHANGED <<chan, state, faults, hist, hs>>
    BY DEF CtxCreated, At, Goto, IInv, TypeOK, JobRec
  <1>2. s \in Ids /\ s = hist.imports /\ s \in Nat /\ TypeOK /\ JobInv /\ LayersInv /\ CtxInv
        /\ ArgumentsLast /\ ListedIsTrusted
    BY <1>1, JobFacts, IdFacts DEF IInv, Core
  <1>3. /\ ctx'[s] = [NoCtx EXCEPT !.refs = 1] /\ \A c \in Ids \ {s} : ctx'[c] = ctx[c]
    BY <1>2 DEF CtxCreated, TypeOK
  <1>4. ctx'[s].refs = 1 /\ ctx'[s].hello = NoId /\ ctx'[s].alpn = NoId /\ ctx'[s].names = {}
    BY <1>3 DEF NoCtx
  <1>5. ImportFrame
    BY <1>1 DEF ImportFrame
  <1>6. ListedIsTrusted' /\ OptionsInv' /\ FaultsHaveCauses'
    BY <1>1, <1>2, <1>3, <1>4 DEF ListedIsTrusted, OptionsInv, FaultsHaveCauses, IInv
  <1>7. JobInv'
    <2>1. \A c \in Ids : c > hist.imports => ctx'[c] = ctx[c]
      BY <1>2, <1>3, IdFacts
    <2> QED
      BY <1>1, <1>2, <2>1, StepSets DEF JobInv, ChanThere, Closing, Stacked, CtxSteps, EarlySteps,
         StackedSteps, LateSteps
  <1>8. LayersInv'
    BY <1>1, <1>2, StepSets DEF LayersInv, LayersLive
  <1>9. CtxInv'
    <2>1. \A t \in Ids : state[t].ctx # NoId => state[t].ctx # s
      BY <1>1, <1>2 DEF CtxInv
    <2>2. ASSUME ~hist.model, NEW c \in Ids
          PROVE  /\ {ctx'[c].hello, ctx'[c].alpn} \subseteq {NoId, c}
                 /\ ctx'[c].refs = IF job'.st = c /\ job'.at \in CtxSteps THEN 1
                                   ELSE IF state[c].ctx = NoId THEN (IF c \in hist.leaked THEN 1 ELSE 0)
                                   ELSE IF state[c].ssl THEN 2 ELSE 1
      <3>1. CASE c = s
        BY <1>1, <1>4, <3>1, StepSets
      <3>2. CASE c # s
        BY <1>1, <1>2, <1>3, <2>2, <3>2 DEF CtxInv
      <3> QED
        BY <3>1, <3>2
    <2> QED
      BY <1>1, <1>2, <2>1, <2>2 DEF CtxInv
  <1>10. ArgumentsLast'
    <2>1. \A t \in Ids : t # s /\ state[t].life = "live" => ctx'[state[t].ctx] = ctx[state[t].ctx]
      BY <1>1, <1>2, <1>3 DEF CtxInv, TypeOK, StateRec, AnyId
    <2> QED
      BY <1>1, <1>2, <2>1 DEF ArgumentsLast
  <1> QED
    BY <1>5, <1>6, <1>7, <1>8, <1>9, <1>10, FrameHandshake, ImportRest DEF Core

\* What loading a CA file leaves of an SSL_CTX.
LEMMA LoadFacts ==
    ASSUME NEW x \in CtxRec, ~x.unread => x.names \subseteq x.trusted, NEW file \in CaFiles,
           NEW n \in 0..Len(file), NEW loaded \in BOOLEAN, loaded => n = Len(file)
    PROVE  \A y \in {LoadClientCA(x, file, n), LoadVerifyFile(x, file, loaded, n)} :
             /\ y.refs = x.refs /\ y.hello = x.hello /\ y.alpn = x.alpn
             /\ ~y.unread => y.names \subseteq y.trusted
  <1>1. file \in Seq(ToSet(file)) /\ Len(file) \in Nat /\ n \in Nat
    BY ImportAssumption
  <1>2. SubSeq(file, 1, Len(file)) = file
    BY <1>1
  <1> DEFINE y == LoadClientCA(x, file, n)
             z == LoadVerifyFile(x, file, loaded, n)
  <1>3. /\ y.refs = x.refs /\ y.hello = x.hello /\ y.alpn = x.alpn /\ y.unread = x.unread
        /\ y.trusted = x.trusted \cup ToSet(SubSeq(file, 1, n))
        /\ y.names = (IF n > 0 /\ n = Len(file) THEN ToSet(file) ELSE x.names)
    BY DEF LoadClientCA, CtxRec
  <1>4. /\ z.refs = x.refs /\ z.hello = x.hello /\ z.alpn = x.alpn
        /\ ~z.unread => ~x.unread /\ (n > 0 => loaded)
        /\ z.trusted = (IF loaded THEN x.trusted \cup ToSet(file) ELSE x.trusted)
        /\ z.names = (IF n > 0 THEN ToSet(SubSeq(file, 1, n)) ELSE x.names)
    BY DEF LoadVerifyFile, CtxRec
  <1> HIDE DEF y, z
  <1>5. ~y.unread => y.names \subseteq y.trusted
    BY <1>2, <1>3
  <1>6. ~z.unread => z.names \subseteq z.trusted
    <2>1. CASE loaded
      BY <1>2, <1>4, <2>1
    <2>2. CASE ~loaded
      BY <1>4, <2>2
    <2> QED
      BY <2>1, <2>2
  <1>7. \A w \in {y, z} : /\ w.refs = x.refs /\ w.hello = x.hello /\ w.alpn = x.alpn
                          /\ ~w.unread => w.names \subseteq w.trusted
    BY <1>3, <1>4, <1>5, <1>6
  <1> QED
    BY <1>7 DEF y, z

\* CTX_Init has returned, with SSL_CTX x.
LEMMA CtxReadyStep ==
    ASSUME IInv, At("ca"), NEW x, CtxReady(x), TypeOK',
           x.refs = ctx[job.st].refs, x.hello = ctx[job.st].hello, x.alpn = ctx[job.st].alpn,
           ~x.unread => x.names \subseteq x.trusted
    PROVE  IInv'
  <1> DEFINE s == job.st
  <1>1. /\ faults = {} /\ job.at = "ca" /\ job'.at = "options"
        /\ job'.st = s /\ job'.chan = job.chan /\ job'.depth = job.depth /\ job'.saved = job.saved
        /\ UNCHANGED <<chan, faults, hist, hs>>
    BY DEF CtxReady, At, Goto, IInv, TypeOK, JobRec
  <1>2. s \in Ids /\ s = hist.imports /\ s \in Nat /\ TypeOK /\ JobInv /\ LayersInv /\ CtxInv
        /\ ArgumentsLast /\ ListedIsTrusted /\ NoId # s
    BY <1>1, JobFacts, IdFacts DEF IInv, Core
  <1>3. /\ ctx'[s] = x /\ \A c \in Ids \ {s} : ctx'[c] = ctx[c]
        /\ \A t \in Ids \ {s} : state'[t] = state[t]
    BY <1>2 DEF CtxReady, TypeOK
  <1>4. state'[s].life = state[s].life /\ state'[s].ssl = state[s].ssl /\ state'[s].ctx = s
        /\ state'[s].conf = state[s].conf /\ state[s].life = "live" /\ ~state[s].ssl
    <2>1. state'[s] = [state[s] EXCEPT !.ctx = s] /\ state[s] \in StateRec
      BY <1>2 DEF CtxReady, TypeOK
    <2> QED
      BY <1>1, <1>2, <2>1 DEF StateRec, JobInv, LateSteps
  <1>5. ImportFrame
    BY <1>1, <1>3, <1>4 DEF ImportFrame
  <1>6. ListedIsTrusted' /\ OptionsInv' /\ FaultsHaveCauses'
    BY <1>1, <1>2, <1>3 DEF ListedIsTrusted, OptionsInv, FaultsHaveCauses, IInv
  <1>7. JobInv'
    <2>1. \A c \in Ids : c > hist.imports => c # s
      BY <1>2, IdFacts
    <2> QED
      BY <1>1, <1>2, <1>3, <1>4, <2>1, StepSets DEF JobInv, ChanThere, Closing, Stacked, CtxSteps, EarlySteps,
         StackedSteps, LateSteps
  <1>8. LayersInv'
    <2>1. \A t \in Ids : state'[t].life = state[t].life
      BY <1>3, <1>4
    <2>2. \A c \in Channels : \A i \in DOMAIN chan[c].layers : chan[c].layers[i] \in Ids
      BY <1>2, TopFacts
    <2> QED
      BY <1>1, <1>2, <2>1, <2>2, StepSets DEF LayersInv, LayersLive
  <1>9. CtxInv'
    <2>1. job'.at \notin CtxSteps \cup {"model", "ctx"}
      BY <1>1, StepSets
    <2>2. \A t \in Ids : state'[t].ctx # NoId => state'[t].life = "live" /\ state'[t].ctx <= t
      BY <1>2, <1>3, <1>4, IdFacts DEF CtxInv
    <2>3. \A t \in Ids : state'[t].life = "live" /\ t # s => state'[t].ctx # NoId /\ state'[t].ssl
      BY <1>2, <1>3 DEF CtxInv
    <2>4. \A t \in Ids : state'[t].ssl => state'[t].ctx # NoId
      BY <1>2, <1>3, <1>4 DEF CtxInv
    <2>5. ASSUME ~hist.model, NEW c \in Ids
          PROVE  /\ state'[c].ctx \in {NoId, c} /\ {ctx'[c].hello, ctx'[c].alpn} \subseteq {NoId, c}
                 /\ ctx'[c].refs = IF state'[c].ctx = NoId THEN (IF c \in hist.leaked THEN 1 ELSE 0)
                                   ELSE IF state'[c].ssl THEN 2 ELSE 1
      <3>1. CASE c = s
        <4>1. ctx[s].refs = 1 /\ {ctx[s].hello, ctx[s].alpn} \subseteq {NoId, s}
          BY <1>1, <1>2, <2>5, StepSets DEF CtxInv
        <4> QED
          BY <1>2, <1>3, <1>4, <3>1, <4>1
      <3>2. CASE c # s
        BY <1>1, <1>2, <1>3, <2>5, <3>2 DEF CtxInv
      <3> QED
        BY <3>1, <3>2
    <2>6. \A c \in Ids : c \in hist'.leaked => state'[c].life = "freed" /\ ~hist'.openssl3
      BY <1>1, <1>2, <1>3, <1>4 DEF CtxInv
    <2> QED
      BY <1>1, <2>1, <2>2, <2>3, <2>4, <2>5, <2>6 DEF CtxInv
  <1>10. ArgumentsLast'
    <2>1. \A t \in Ids : t # s /\ state[t].life = "live" => ctx'[state[t].ctx] = ctx[state[t].ctx]
      BY <1>1, <1>2, <1>3, StepSets DEF CtxInv, TypeOK, StateRec, AnyId
    <2> QED
      BY <1>1, <1>2, <1>3, <2>1 DEF ArgumentsLast
  <1> QED
    BY <1>5, <1>6, <1>7, <1>8, <1>9, <1>10, FrameHandshake, ImportRest DEF Core

\* The State gets the SSL_CTX of another: from here on nothing is said of counts.
LEMMA ModelTakenStep == ASSUME IInv, ModelTaken, TypeOK' PROVE IInv'
  <1> DEFINE s == job.st
             m == job.model
             c == state[Top(m)].ctx
  <1>1. /\ faults = {} /\ job.at = "model" /\ job'.at = "options"
        /\ job'.st = s /\ job'.chan = m /\ job'.depth = Len(chan[m].layers) /\ job'.saved = job.saved
        /\ UNCHANGED <<chan, ctx, faults, hs>>
        /\ hist'.imports = hist.imports /\ hist'.model /\ hist'.late = hist.late
        /\ hist'.closed = hist.closed /\ hist'.inside = hist.inside
        /\ hist'.unstacked = hist.unstacked /\ hist'.opts = hist.opts /\ LeakSame
    BY DEF ModelTaken, At, IInv, TypeOK, JobRec, HistRec, LeakSame
  <1>2. s \in Ids /\ s = hist.imports /\ s \in Nat /\ TypeOK /\ JobInv /\ LayersInv /\ CtxInv
        /\ ArgumentsLast /\ ListedIsTrusted /\ NoId # s /\ m \in Channels /\ chan[m].open
    BY <1>1, JobFacts, IdFacts DEF IInv, Core, JobInv, ModelTaken
  <1>3. Top(m) \in Ids /\ Top(m) # s /\ c \in Ids /\ c # s /\ c <= s
    <2>1. Top(m) \in Ids /\ Top(m) # s /\ state[Top(m)].life = "live"
      BY <1>1, <1>2, TopFacts, StepSets DEF LayersInv, ModelTaken
    <2>2. c \in AnyId /\ c # NoId /\ c <= Top(m) /\ c # s
      BY <1>1, <1>2, <2>1 DEF CtxInv, TypeOK, StateRec
    <2>3. Top(m) \in Nat /\ Top(m) <= s
      <3>1. \A t \in Ids : t > s => state[t].life = "none"
        BY <1>2 DEF JobInv, NoState
      <3>2. ~(Top(m) > s)
        BY <2>1, <3>1
      <3>3. Top(m) \in Nat
        BY <2>1, IdFacts
      <3> QED
        BY <1>2, <3>2, <3>3
    <2>4. c \in Ids /\ c \in Nat
      BY <2>2, IdFacts DEF AnyId
    <2> HIDE DEF c
    <2>5. c <= s
      BY <1>2, <2>2, <2>3, <2>4
    <2> QED
      BY <2>1, <2>2, <2>4, <2>5
  <1>4. /\ \A t \in Ids \ {s} : state'[t] = state[t]
        /\ state'[s].life = "live" /\ ~state'[s].ssl /\ state'[s].ctx = c /\ state'[s].conf = state[s].conf
    <2>1. state'[s] = [state[s] EXCEPT !.ctx = c] /\ state[s] \in StateRec
          /\ \A t \in Ids \ {s} : state'[t] = state[t]
      BY <1>2 DEF ModelTaken, TypeOK
    <2> QED
      BY <1>1, <1>2, <2>1 DEF StateRec, JobInv, LateSteps
  <1>5. ImportFrame
    BY <1>1, <1>4 DEF ImportFrame
  <1>6. ListedIsTrusted' /\ OptionsInv' /\ FaultsHaveCauses'
    BY <1>1, <1>2 DEF ListedIsTrusted, OptionsInv, FaultsHaveCauses, IInv
  <1>7. JobInv'
    <2>1. \A d \in Ids : d > hist.imports => d # s
      BY <1>2, IdFacts
    <2>2. Len(chan[m].layers) \in Nat
      BY <1>2, TopFacts
    <2> QED
      BY <1>1, <1>2, <1>3, <1>4, <2>1, <2>2, StepSets DEF JobInv, ChanThere, Closing, Stacked, CtxSteps,
         EarlySteps, StackedSteps, LateSteps, NoId, Ids
  <1>8. LayersInv'
    <2>1. \A t \in Ids : state'[t].life = state[t].life
      BY <1>1, <1>2, <1>4 DEF JobInv
    <2>2. \A d \in Channels : \A i \in DOMAIN chan[d].layers : chan[d].layers[i] \in Ids
      BY <1>2, TopFacts
    <2> QED
      BY <1>1, <1>2, <2>1, <2>2, StepSets DEF LayersInv, LayersLive
  <1>9. CtxInv'
    <2>1. job'.at \notin CtxSteps \cup {"model", "ctx"}
      BY <1>1, StepSets
    <2>2. \A d \in Ids : d \in hist'.leaked => state'[d].life = "freed" /\ ~hist'.openssl3
      BY <1>1, <1>2, <1>4, JobFacts, StepSets DEF CtxInv, JobInv, LeakSame
    <2> QED
      BY <1>1, <1>2, <1>3, <1>4, <2>1, <2>2 DEF CtxInv, LeakSame
  <1>10. ArgumentsLast'
    BY <1>1, <1>2, <1>4 DEF ArgumentsLast
  <1> QED
    BY <1>5, <1>6, <1>7, <1>8, <1>9, <1>10, FrameHandshake, ImportRest DEF Core

\* A step from "options" to "ssl" that changes neither State nor SSL_CTX.
LEMMA ChannelStep ==
    ASSUME IInv, faults = {}, job.at \in {"options", "stack", "restore"},
           job'.at \in {"stack", "restore", "ssl"},
           job'.st = job.st, job'.chan = job.chan, job'.depth = job.depth,
           UNCHANGED <<state, ctx, faults, hist, hs>>, TypeOK', OptionsInv', LayersInv',
           job'.at = "stack" => ChanThere', \A c \in Channels : ~Closing(c)'
    PROVE  IInv'
  <1>1. job.st \in Ids /\ JobInv /\ CtxInv /\ ArgumentsLast /\ ListedIsTrusted /\ job.chan \in Channels
    BY JobFacts DEF IInv, Core
  <1>2. ImportFrame
    BY DEF ImportFrame
  <1>3. /\ {job.at, job'.at} \cap (CtxSteps \cup {"model", "ctx", "none", "password"}) = {}
        /\ {job.at, job'.at} \cap ((LateSteps \ {"ssl"}) \cup {"register"}) = {}
        /\ job'.at \in EarlySteps => job'.at = "stack"
        /\ {job.at, job'.at} \subseteq StackedSteps \cup {"options", "stack"}
    BY DEF CtxSteps, LateSteps, EarlySteps, StackedSteps
  <1>4. CtxInv'
    BY <1>1, <1>3 DEF CtxInv
  <1>5. ArgumentsLast' /\ ListedIsTrusted' /\ FaultsHaveCauses'
    BY <1>1 DEF ArgumentsLast, ListedIsTrusted, FaultsHaveCauses
  <1>6. JobInv'
    <2>1. job'.at # "none" /\ job.at # "none" /\ job'.st # NoId
      BY <1>1, <1>3, IdFacts
    <2>2. /\ state[job.st].life = "live" /\ job.st = hist.imports
          /\ ~state[job.st].ssl /\ state[job.st].ctx # NoId
      BY <1>1, <1>3, <2>1 DEF JobInv
    <2>3. job'.at # "model" /\ job'.at \notin CtxSteps \cup {"model", "ctx"}
          /\ job'.at \notin (LateSteps \ {"ssl"}) \cup {"register"}
      BY <1>3
    <2>4. job'.at = "stack" \/ (job'.at \in EarlySteps /\ ~hist'.closed) => ChanThere'
      BY <1>3
    <2> QED
      BY <1>1, <2>1, <2>2, <2>3, <2>4 DEF JobInv
  <1> QED
    BY <1>2, <1>4, <1>5, <1>6, FrameHandshake, ImportRest DEF Core

LEMMA PreserveOptionsStep == ASSUME IInv, PreserveOptions, TypeOK' PROVE IInv'
  <1>1. /\ faults = {} /\ job.at = "options" /\ job'.at = "stack" /\ ChanThere
        /\ job'.st = job.st /\ job'.chan = job.chan /\ job'.depth = job.depth
        /\ job'.saved = chan[job.chan].opts
        /\ UNCHANGED <<state, ctx, faults, hist, hs>>
    BY DEF PreserveOptions, At, IInv, TypeOK, JobRec
  <1>2. job.chan \in Channels /\ TypeOK /\ JobInv /\ LayersInv /\ OptionsInv
    BY <1>1, JobFacts DEF IInv, Core
  <1>3. \A c \in Channels : chan'[c].open = chan[c].open /\ chan'[c].layers = chan[c].layers
                            /\ (c # job.chan => chan'[c].opts = chan[c].opts)
    BY <1>2 DEF PreserveOptions, TypeOK, ChanRec
  <1>4. ChanThere' /\ \A c \in Channels : ~Closing(c)'
    BY <1>1, <1>2, <1>3 DEF ChanThere, JobInv, Closing, Stacked
  <1>5. LayersInv'
    BY <1>1, <1>2, <1>3, StepSets DEF LayersInv, LayersLive
  <1>6. OptionsInv'
    BY <1>1, <1>2, <1>3 DEF OptionsInv
  <1> QED
    BY <1>1, <1>4, <1>5, <1>6, ChannelStep

LEMMA RestoreOptionsStep == ASSUME IInv, RestoreOptions, TypeOK' PROVE IInv'
  <1>1. /\ faults = {} /\ job.at = "restore" /\ job'.at = "ssl"
        /\ job'.st = job.st /\ job'.chan = job.chan /\ job'.depth = job.depth
        /\ UNCHANGED <<state, ctx, faults, hist, hs>>
    BY DEF RestoreOptions, At, Goto, IInv, TypeOK, JobRec
  <1>2. job.chan \in Channels /\ TypeOK /\ JobInv /\ LayersInv /\ OptionsInv
    BY <1>1, JobFacts DEF IInv, Core
  <1>3. /\ \A c \in Channels : chan'[c].open = chan[c].open /\ chan'[c].layers = chan[c].layers
                               /\ (c # job.chan => chan'[c].opts = chan[c].opts)
        /\ chan'[job.chan].opts = job.saved
    BY <1>2 DEF RestoreOptions, TypeOK, ChanRec
  <1>4. \A c \in Channels : ~Closing(c)'
    BY <1>1, <1>2, <1>3 DEF JobInv, Closing, Stacked
  <1>5. LayersInv'
    BY <1>1, <1>2, <1>3, StepSets DEF LayersInv, LayersLive
  <1>6. OptionsInv'
    BY <1>1, <1>2, <1>3 DEF OptionsInv
  <1> QED
    BY <1>1, <1>4, <1>5, <1>6, ChannelStep

LEMMA StackChannelStep == ASSUME IInv, StackChannel, TypeOK' PROVE IInv'
  <1> DEFINE s == job.st
             d == job.chan
             n == Len(chan[d].layers)
  <1>1. /\ faults = {} /\ job.at = "stack" /\ job'.at = "restore"
        /\ job'.st = s /\ job'.chan = d /\ job'.depth = job.depth /\ job'.saved = job.saved
        /\ UNCHANGED <<state, ctx, faults, hist, hs>>
    BY DEF StackChannel, At, Goto, IInv, TypeOK, JobRec
  <1>2. d \in Channels /\ s \in Ids /\ state[s].life = "live" /\ TypeOK /\ JobInv /\ LayersInv
        /\ OptionsInv /\ chan[d].open
    BY <1>1, JobFacts DEF IInv, Core, JobInv, ChanThere
  <1>3. n \in Nat /\ chan[d].layers \in Seq(Ids)
    BY <1>2, TopFacts
  <1>4. \A c \in Channels : chan'[c].open = chan[c].open /\ chan'[c].opts = chan[c].opts
                            /\ (c # d => chan'[c].layers = chan[c].layers)
    BY <1>2 DEF StackChannel, TypeOK, ChanRec
  <1>5. chan'[d].layers = Append(chan[d].layers, s)
    BY <1>2 DEF StackChannel, TypeOK, ChanRec
  <1>6. /\ DOMAIN chan'[d].layers = 1..(n + 1) /\ chan'[d].layers[n + 1] = s
        /\ DOMAIN chan[d].layers = 1..n
        /\ \A i \in 1..n : chan'[d].layers[i] = chan[d].layers[i]
    BY <1>2, <1>3, <1>5
  <1>7. \A i \in DOMAIN chan'[d].layers : i = n + 1 \/ i \in DOMAIN chan[d].layers
    BY <1>3, <1>6
  <1>8. \A c \in Channels : ~Closing(c)'
    BY <1>1, <1>2, <1>4 DEF JobInv, Closing, Stacked
  <1>9. OptionsInv'
    BY <1>1, <1>2, <1>4 DEF OptionsInv
  <1>10. LayersInv'
    <2>1. \A c \in Channels : \A i \in DOMAIN chan[c].layers : chan[c].layers[i] # s
      BY <1>1, <1>2, StepSets DEF LayersInv
    <2>2. \A c \in Channels : \A i \in DOMAIN chan'[c].layers :
             \/ i \in DOMAIN chan[c].layers /\ chan'[c].layers[i] = chan[c].layers[i]
             \/ c = d /\ i = n + 1 /\ chan'[c].layers[i] = s
      BY <1>4, <1>6, <1>7
    <2>3. \A c \in Channels : ToSet(chan[c].layers) \subseteq ToSet(chan'[c].layers)
      <3>1. 1..n \subseteq 1..(n + 1)
        BY <1>3
      <3>2. ToSet(chan[d].layers) \subseteq ToSet(chan'[d].layers)
        <4> SUFFICES ASSUME NEW i \in 1..n
                     PROVE  \E j \in 1..(n + 1) : chan[d].layers[i] = chan'[d].layers[j]
          BY <1>6 DEF ToSet
        <4> QED
          BY <1>6, <3>1
      <3> QED
        BY <1>4, <3>2
    <2>4. s \in ToSet(chan'[d].layers)
      <3>1. n + 1 \in 1..(n + 1)
        BY <1>3
      <3> QED
        BY <1>6, <3>1 DEF ToSet
    <2>5. \A c \in Channels : \A i \in DOMAIN chan'[c].layers : state[chan'[c].layers[i]].life # "none"
      BY <1>2, <2>2 DEF LayersInv
    <2>6. \A t \in Ids : state[t].life = "live" => s = t \/ \E c \in Channels : t \in ToSet(chan'[c].layers)
      BY <1>2, <2>3 DEF LayersInv
    <2>7. \A c, e \in Channels : \A i \in DOMAIN chan'[c].layers, j \in DOMAIN chan'[e].layers :
             chan'[c].layers[i] = chan'[e].layers[j] => c = e /\ i = j
      <3> SUFFICES ASSUME NEW c \in Channels, NEW e \in Channels,
                          NEW i \in DOMAIN chan'[c].layers, NEW j \in DOMAIN chan'[e].layers,
                          chan'[c].layers[i] = chan'[e].layers[j]
                   PROVE  c = e /\ i = j
        OBVIOUS
      <3>1. CASE i \in DOMAIN chan[c].layers /\ chan'[c].layers[i] = chan[c].layers[i]
        <4>1. chan'[e].layers[j] # s
          <5>1. chan[c].layers[i] # s
            BY <2>1, <3>1
          <5> QED
            BY <3>1, <5>1
        <4>2. /\ j \in DOMAIN chan[e].layers /\ chan'[e].layers[j] = chan[e].layers[j]
              /\ chan[c].layers[i] = chan[e].layers[j]
          <5>1. j \in DOMAIN chan[e].layers /\ chan'[e].layers[j] = chan[e].layers[j]
            BY <2>2, <4>1
          <5> QED
            BY <3>1, <5>1
        <4>3. \A f, g \in Channels : \A k \in DOMAIN chan[f].layers, l \in DOMAIN chan[g].layers :
                 chan[f].layers[k] = chan[g].layers[l] => f = g /\ k = l
          BY <1>2 DEF LayersInv
        <4> QED
          BY <3>1, <4>1, <4>2, <4>3
      <3>2. CASE c = d /\ i = n + 1 /\ chan'[c].layers[i] = s
        <4>1. e = d /\ j = n + 1
          BY <2>1, <2>2, <3>2
        <4> QED
          BY <3>2, <4>1
      <3> QED
        BY <2>2, <3>1, <3>2
    <2>8. ~hist.late => \A c \in Channels : \A i \in DOMAIN chan'[c].layers :
                           state[chan'[c].layers[i]].life = "live"
      BY <1>2, <2>2 DEF LayersInv, LayersLive
    <2> QED
      BY <1>1, <2>4, <2>5, <2>6, <2>7, <2>8, StepSets DEF LayersInv, LayersLive
  <1> QED
    BY <1>1, <1>8, <1>9, <1>10, ChannelStep

LEMMA SslCreatedStep == ASSUME IInv, SslCreated, TypeOK' PROVE IInv'
  <1> DEFINE s == job.st
             c == state[s].ctx
  <1>1. /\ faults = {} /\ job.at = "ssl" /\ job'.at = "name"
        /\ job'.st = s /\ job'.chan = job.chan /\ job'.depth = job.depth /\ job'.saved = job.saved
        /\ UNCHANGED <<chan, faults, hist, hs>>
    BY DEF SslCreated, At, Goto, IInv, TypeOK, JobRec
  <1>2. /\ s \in Ids /\ s = hist.imports /\ s \in Nat /\ TypeOK /\ JobInv /\ LayersInv /\ CtxInv
        /\ ArgumentsLast /\ ListedIsTrusted /\ NoId # s /\ state[s].life = "live" /\ ~state[s].ssl
        /\ c \in Ids /\ ctx[c] \in CtxRec /\ ctx[c].refs \in Nat
    BY <1>1, JobFacts, StackedFacts, IdFacts, StepSets DEF IInv, Core, JobInv, LateSteps, CtxRec
  <1>3. \A t \in Ids \ {s} : state'[t] = state[t]
    BY <1>2 DEF SslCreated, TypeOK
  <1>4. /\ state'[s].life = "live" /\ state'[s].ssl /\ state'[s].ctx = c /\ state'[s].conf = state[s].conf
    <2>1. state'[s] = [state[s] EXCEPT !.ssl = TRUE] /\ state[s] \in StateRec
      BY <1>2 DEF SslCreated, TypeOK
    <2> QED
      BY <1>2, <2>1 DEF StateRec
  <1>5. /\ \A d \in Ids : ctx'[d].hello = ctx[d].hello /\ ctx'[d].alpn = ctx[d].alpn
                          /\ ctx'[d].trusted = ctx[d].trusted /\ ctx'[d].names = ctx[d].names
                          /\ ctx'[d].unread = ctx[d].unread
        /\ \A d \in Ids \ {c} : ctx'[d] = ctx[d]
        /\ ctx'[c].refs = ctx[c].refs + 1
    BY <1>2 DEF SslCreated, TypeOK, CtxRec
  <1>6. ImportFrame
    BY <1>1, <1>3, <1>4 DEF ImportFrame
  <1>7. ListedIsTrusted' /\ OptionsInv' /\ FaultsHaveCauses'
    BY <1>1, <1>2, <1>5 DEF ListedIsTrusted, OptionsInv, FaultsHaveCauses, IInv
  <1>8. JobInv'
    <2>1. \A d \in Ids : d > hist.imports => d # s
      BY <1>2, IdFacts
    <2>2. \A d \in Ids : d > hist.imports => d # c
      <3>1. c \in Nat /\ c <= s
        BY <1>2, IdFacts DEF CtxInv
      <3> HIDE DEF c
      <3> QED
        BY <1>2, <3>1, IdFacts
    <2> QED
      BY <1>1, <1>2, <1>3, <1>4, <1>5, <2>1, <2>2, StepSets DEF JobInv, ChanThere, Closing, Stacked,
         CtxSteps, EarlySteps, StackedSteps, LateSteps
  <1>9. LayersInv'
    <2>1. \A t \in Ids : state'[t].life = state[t].life
      BY <1>2, <1>3, <1>4
    <2>2. \A d \in Channels : \A i \in DOMAIN chan[d].layers : chan[d].layers[i] \in Ids
      BY <1>2, TopFacts
    <2> QED
      BY <1>1, <1>2, <2>1, <2>2, StepSets DEF LayersInv, LayersLive
  <1>10. CtxInv'
    <2>1. job'.at \notin CtxSteps \cup {"model", "ctx"} /\ job.at \notin CtxSteps
      BY <1>1, StepSets
    <2>2. \A t \in Ids : state'[t].ctx = state[t].ctx /\ state'[t].life = state[t].life
      BY <1>2, <1>3, <1>4
    <2>3. ASSUME ~hist.model, NEW d \in Ids
          PROVE  ctx'[d].refs = IF state'[d].ctx = NoId THEN (IF d \in hist.leaked THEN 1 ELSE 0) ELSE IF state'[d].ssl THEN 2 ELSE 1
      <3>1. c = s
        BY <1>2, <2>3, IdFacts DEF CtxInv
      <3>2. CASE d = s
        BY <1>2, <1>4, <1>5, <2>1, <2>3, <3>1, <3>2 DEF CtxInv
      <3>3. CASE d # s
        BY <1>2, <1>3, <1>5, <2>1, <2>3, <3>1, <3>3 DEF CtxInv
      <3> QED
        BY <3>2, <3>3
    <2>4. /\ \A t \in Ids : state'[t].ctx # NoId => state'[t].life = "live" /\ state'[t].ctx <= t
          /\ \A t \in Ids : state'[t].life = "live" /\ t # s => state'[t].ctx # NoId /\ state'[t].ssl
          /\ \A t \in Ids : state'[t].ssl => state'[t].ctx # NoId
      <3>1. ASSUME NEW t \in Ids, t # s
            PROVE  /\ state'[t].ctx # NoId => state'[t].life = "live" /\ state'[t].ctx <= t
                   /\ state'[t].life = "live" => state'[t].ctx # NoId /\ state'[t].ssl
                   /\ state'[t].ssl => state'[t].ctx # NoId
        BY <1>2, <1>3, <3>1 DEF CtxInv
      <3>2. c # NoId /\ c <= s
        BY <1>2, IdFacts DEF CtxInv
      <3> QED
        BY <1>4, <3>1, <3>2
    <2>5. ~hist.model => /\ \A t \in Ids : state'[t].ctx \in {NoId, t}
                         /\ \A d \in Ids : {ctx'[d].hello, ctx'[d].alpn} \subseteq {NoId, d}
      BY <1>2, <1>5, <2>2 DEF CtxInv
    <2>6. \A d \in Ids : d \in hist'.leaked => state'[d].life = "freed" /\ ~hist'.openssl3
      BY <1>1, <1>2, <2>2 DEF CtxInv
    <2> QED
      BY <1>1, <2>1, <2>3, <2>4, <2>5, <2>6 DEF CtxInv
  <1>11. ArgumentsLast'
    <2>1. \A t \in Ids : t # s /\ state[t].life = "live" => state[t].ctx \in Ids
      BY <1>1, <1>2 DEF CtxInv, TypeOK, StateRec, AnyId
    <2> QED
      BY <1>1, <1>2, <1>3, <1>5, <2>1 DEF ArgumentsLast
  <1> QED
    BY <1>6, <1>7, <1>8, <1>9, <1>10, <1>11, FrameHandshake, ImportRest DEF Core

\* The callbacks get the State: the import is done.
LEMMA RegisterStep == ASSUME IInv, Register, TypeOK' PROVE IInv'
  <1> DEFINE s == job.st
             c == state[s].ctx
  <1>1. /\ faults = {} /\ job.at = "register" /\ job' = NoJob
        /\ UNCHANGED <<chan, state, faults, hist, hs>>
    BY DEF Register, At
  <1>2. /\ s \in Ids /\ s = hist.imports /\ s \in Nat /\ TypeOK /\ JobInv /\ LayersInv /\ CtxInv
        /\ ArgumentsLast /\ ListedIsTrusted /\ NoId # s /\ state[s].life = "live" /\ state[s].ssl
        /\ c \in Ids /\ ctx[c] \in CtxRec /\ job.chan \in Channels
    BY <1>1, JobFacts, StackedFacts, IdFacts, StepSets DEF IInv, Core, JobInv
  <1>3. job'.at = "none" /\ job'.st = NoId
    BY <1>1 DEF NoJob
  <1>4. /\ \A d \in Ids : ctx'[d].refs = ctx[d].refs /\ ctx'[d].names = ctx[d].names
                          /\ ctx'[d].trusted = ctx[d].trusted /\ ctx'[d].unread = ctx[d].unread
        /\ \A d \in Ids \ {c} : ctx'[d] = ctx[d]
        /\ ~state[s].conf.server => ctx' = ctx
        /\ state[s].conf.server =>
              /\ ctx'[c].hello = s
              /\ ctx'[c].alpn = IF state[s].conf.protos THEN s ELSE ctx[c].alpn
    <2>1. CASE state[s].conf.server
      <3>1. ctx' = [ctx EXCEPT ![c] = [ctx[c] EXCEPT !.hello = s,
                                          !.alpn = IF state[s].conf.protos THEN s ELSE @]]
        BY <1>2, <2>1 DEF Register, TypeOK
      <3> QED
        BY <1>2, <2>1, <3>1 DEF TypeOK, CtxRec
    <2>2. CASE ~state[s].conf.server
      BY <2>2 DEF Register
    <2> QED
      BY <2>1, <2>2
  <1>5. ImportFrame
    BY <1>1, <1>3, StepSets DEF ImportFrame
  <1>6. ListedIsTrusted' /\ OptionsInv' /\ FaultsHaveCauses'
    BY <1>1, <1>2, <1>3, <1>4 DEF ListedIsTrusted, OptionsInv, FaultsHaveCauses, IInv
  <1>7. JobInv'
    <2>1. c <= s /\ c \in Nat
      BY <1>2, IdFacts DEF CtxInv
    <2>2. \A d \in Ids : d > hist.imports => d # c
      <3> HIDE DEF c
      <3> QED
        BY <1>2, <2>1, IdFacts
    <2> QED
      BY <1>1, <1>2, <1>3, <1>4, <2>2, StepSets DEF JobInv, EarlySteps, StackedSteps, CtxSteps, LateSteps
  <1>8. LayersInv'
    <2>1. s \in ToSet(chan[job.chan].layers)
      BY <1>1, <1>2, StepSets DEF LayersInv
    <2> QED
      BY <1>1, <1>2, <1>3, <2>1, StepSets DEF LayersInv, LayersLive
  <1>9. CtxInv'
    <2>1. job'.at \notin CtxSteps \cup {"model", "ctx"} /\ job.at \notin CtxSteps
      BY <1>1, <1>3, StepSets
    <2>2. /\ \A t \in Ids : state[t].ctx # NoId => state[t].life = "live" /\ state[t].ctx <= t
          /\ \A t \in Ids : state[t].life = "live" => state[t].ctx # NoId /\ state[t].ssl
          /\ \A t \in Ids : state[t].ssl => state[t].ctx # NoId
      BY <1>2, IdFacts DEF CtxInv
    <2>3. ASSUME ~hist.model, NEW d \in Ids
          PROVE  /\ state[d].ctx \in {NoId, d} /\ {ctx'[d].hello, ctx'[d].alpn} \subseteq {NoId, d}
                 /\ ctx'[d].refs = IF state[d].ctx = NoId THEN (IF d \in hist.leaked THEN 1 ELSE 0) ELSE IF state[d].ssl THEN 2 ELSE 1
      <3>1. /\ state[d].ctx \in {NoId, d} /\ {ctx[d].hello, ctx[d].alpn} \subseteq {NoId, d}
            /\ ctx[d].refs = IF state[d].ctx = NoId THEN (IF d \in hist.leaked THEN 1 ELSE 0) ELSE IF state[d].ssl THEN 2 ELSE 1
        BY <1>2, <2>1, <2>3 DEF CtxInv
      <3>2. c = s
        BY <1>2, <2>3, IdFacts DEF CtxInv
      <3> QED
        BY <1>4, <3>1, <3>2
    <2>4. \A d \in Ids : d \in hist'.leaked => state'[d].life = "freed" /\ ~hist'.openssl3
      BY <1>1, <1>2 DEF CtxInv
    <2> QED
      BY <1>1, <2>1, <2>2, <2>3, <2>4 DEF CtxInv
  <1>10. ArgumentsLast'
    <2> SUFFICES ASSUME NEW t \in Ids, state[t].life = "live", state[t].conf.server
                 PROVE  /\ ctx'[state[t].ctx].hello >= t
                        /\ state[t].conf.protos => ctx'[state[t].ctx].alpn >= t
                        /\ ~hist.model => {ctx'[state[t].ctx].hello, ctx'[state[t].ctx].alpn} \subseteq {NoId, t}
      BY <1>1 DEF ArgumentsLast
    <2>1. t \in Nat /\ t <= s
      <3>1. t > s => state[t].life = "none"
        BY <1>2 DEF JobInv, NoState
      <3> QED
        BY <1>2, <3>1, IdFacts
    <2>2. state[t].ctx \in Ids
      BY <1>2, IdFacts DEF CtxInv, TypeOK, StateRec, AnyId
    <2> DEFINE d == state[t].ctx
    <2>0. t # s => /\ ctx[d].hello >= t /\ (state[t].conf.protos => ctx[d].alpn >= t)
                   /\ ~hist.model => {ctx[d].hello, ctx[d].alpn} \subseteq {NoId, t}
      BY <1>1, <1>2 DEF ArgumentsLast
    <2> HIDE DEF d
    <2>3. CASE d # c
      <3>1. t # s /\ ctx'[d] = ctx[d]
        BY <1>4, <2>2, <2>3 DEF d
      <3> QED
        BY <2>0, <3>1 DEF d
    <2>4. CASE d = c
      <3>1. ~hist.model => t = s
        BY <1>2, <2>4, IdFacts DEF CtxInv, d
      <3>2. ~hist.model => ctx[c].alpn \in {NoId, s}
        BY <1>2, IdFacts DEF CtxInv
      <3>3. CASE state[s].conf.server
        <4>1. ctx'[c].hello = s /\ ctx'[c].alpn = IF state[s].conf.protos THEN s ELSE ctx[c].alpn
          BY <1>4, <3>3
        <4>2. t # s /\ state[t].conf.protos => ctx[c].alpn >= t
          BY <2>0, <2>4
        <4>3. s >= t
          BY <1>2, <2>1
        <4> HIDE DEF c
        <4>4. /\ ctx'[c].hello >= t /\ (state[t].conf.protos => ctx'[c].alpn >= t)
              /\ ~hist.model => {ctx'[c].hello, ctx'[c].alpn} \subseteq {NoId, t}
          BY <3>1, <3>2, <4>1, <4>2, <4>3
        <4> QED
          BY <2>4, <4>4 DEF d
      <3>4. CASE ~state[s].conf.server
        <4>1. t # s /\ ctx'[d] = ctx[d]
          BY <1>4, <3>4
        <4> QED
          BY <2>0, <4>1 DEF d
      <3> QED
        BY <3>3, <3>4
    <2> QED
      BY <2>3, <2>4
  <1> QED
    BY <1>5, <1>6, <1>7, <1>8, <1>9, <1>10, FrameHandshake, ImportRest DEF Core

\* A use of a State or of a channel that is gone.
LEMMA GoneStep == ASSUME IInv, ModelGone \/ ChannelGone \/ LayerDead, TypeOK' PROVE IInv'
  <1>1. /\ faults = {} /\ job.at \in {"model", "options"} /\ faults' # {}
        /\ UNCHANGED <<chan, state, ctx, job, hist, hs>>
    BY DEF ModelGone, ChannelGone, LayerDead, At, Fault
  <1>2. job.chan \in Channels /\ JobInv /\ LayersInv /\ TypeOK /\ job.at # "none"
    BY <1>1, JobFacts DEF IInv, Core
  <1>3. ImportFrame
    BY <1>1, <1>2 DEF ImportFrame
  <1>4. FaultsHaveCauses'
    <2>1. CASE ModelGone
      <3>1. job.model \in Channels
        BY <1>2, <2>1 DEF ModelGone, At, JobInv
      <3>2. hist.late
        BY <1>2, <2>1, <3>1, TopFacts DEF ModelGone, LayersInv, LayersLive
      <3> QED
        BY <1>1, <2>1, <3>2 DEF ModelGone, Fault, FaultsHaveCauses
    <2>2. CASE ChannelGone
      <3>1. hist.closed
        BY <1>2, <2>2, StepSets DEF ChannelGone, At, JobInv
      <3> QED
        BY <1>1, <2>2, <3>1 DEF ChannelGone, Fault, FaultsHaveCauses
    <2>3. CASE LayerDead
      <3>1. hist.late
        BY <1>2, <2>3 DEF LayerDead, LayersInv
      <3> QED
        BY <1>1, <2>3, <3>1 DEF LayerDead, Fault, FaultsHaveCauses
    <2> QED
      BY <2>1, <2>2, <2>3
  <1>5. ListedIsTrusted' /\ OptionsInv'
    BY <1>1 DEF IInv, ListedIsTrusted, OptionsInv
  <1> QED
    BY <1>1, <1>3, <1>4, <1>5, ImportRest

LEMMA CtxInitStep == ASSUME IInv, CtxInit PROVE IInv'
  <1>1. TypeOK' /\ (faults = {} /\ job.at # "none" => ctx[job.st] \in CtxRec)
    BY TypeCtxInit, JobFacts
  <1>2. ListedIsTrusted /\ (faults = {} => JobInv)
    BY DEF IInv, Core
  <1>3. (faults = {} /\ job.at \in CtxSteps \ {"password"}) => \A c \in Channels : ~Closing(c)
    BY <1>2 DEF JobInv, CtxSteps
  <1>4. CASE CtxFails
    <2>1. faults = {} /\ job.at = "ctx" /\ ImportFails /\ UNCHANGED <<chan, hist, hs>>
      BY <1>4 DEF CtxFails, At
    <2> QED
      BY <2>1, EndsStep, StepSets DEF IInv, TypeOK, LeakSame
  <1>5. CASE CtxCreated
    BY <1>1, <1>5, CtxCreatedStep
  <1>6. CASE CtxRefused
    BY <1>1, <1>6, RefusedStep DEF CtxRefused
  <1>7. CASE Configured
    BY <1>1, <1>3, <1>7, GotoStep DEF Configured, CtxSteps
  <1>8. CASE CertificateSet
    BY <1>1, <1>3, <1>8, GotoStep DEF CertificateSet, At, CtxSteps
  <1>9. CASE PrivateKeySet
    BY <1>1, <1>3, <1>9, GotoStep DEF PrivateKeySet, At, CtxSteps
  <1>10. CASE PasswordGiven
    <2>1. faults = {} /\ job.at = "password" /\ job.at \in CtxSteps /\ UNCHANGED <<chan, faults, hist, hs>>
          /\ \A c \in Channels : ~Closing(c)
      BY <1>10 DEF PasswordGiven, At, Idle, CtxSteps
    <2>2. CASE Goto("check") /\ UNCHANGED <<state, ctx>>
      BY <1>1, <2>1, <2>2, GotoStep DEF CtxSteps
    <2>3. CASE /\ state' = [state EXCEPT ![job.st] = Dead]
               /\ ctx' = [ctx EXCEPT ![job.st] = NoCtx]
               /\ job' = NoJob
      BY <1>1, <2>1, <2>3, RefusedStep
    <2> QED
      BY <1>10, <2>2, <2>3 DEF PasswordGiven
  <1>11. ASSUME At("ca")
         PROVE  job.st \in Ids /\ ctx[job.st] \in CtxRec
                /\ (~ctx[job.st].unread => ctx[job.st].names \subseteq ctx[job.st].trusted)
    BY <1>2, <1>11, JobFacts DEF At, ListedIsTrusted
  <1>12. CASE VerifyPathsSet
    BY <1>1, <1>11, <1>12, CtxReadyStep DEF VerifyPathsSet
  <1>13. CASE CAfileFromMemory
    <2>0. PICK file \in CaFiles : \E good \in 0..Len(file) :
            At("ca") /\ CtxReady(LoadClientCA(ctx[job.st], file, good))
      BY <1>13 DEF CAfileFromMemory
    <2>1. PICK good \in 0..Len(file) :
            At("ca") /\ CtxReady(LoadClientCA(ctx[job.st], file, good))
      BY <2>0
    <2> DEFINE y == LoadClientCA(ctx[job.st], file, good)
    <2>2. FALSE \in BOOLEAN
      OBVIOUS
    <2>3. /\ y.refs = ctx[job.st].refs /\ y.hello = ctx[job.st].hello /\ y.alpn = ctx[job.st].alpn
          /\ ~y.unread => y.names \subseteq y.trusted
      BY <1>11, <2>1, <2>2, LoadFacts
    <2> HIDE DEF y
    <2> QED
      BY <1>1, <2>1, <2>3, CtxReadyStep DEF y
  <1>14. CASE CAfileNative
    <2>0. PICK file \in CaFiles, loaded \in BOOLEAN : \E listed \in 0..Len(file) :
            /\ At("ca") /\ CtxReady(LoadVerifyFile(ctx[job.st], file, loaded, listed))
            /\ loaded => listed = Len(file)
      BY <1>14 DEF CAfileNative
    <2>1. PICK listed \in 0..Len(file) :
            /\ At("ca") /\ CtxReady(LoadVerifyFile(ctx[job.st], file, loaded, listed))
            /\ loaded => listed = Len(file)
      BY <2>0
    <2> DEFINE y == LoadVerifyFile(ctx[job.st], file, loaded, listed)
    <2>2. /\ y.refs = ctx[job.st].refs /\ y.hello = ctx[job.st].hello /\ y.alpn = ctx[job.st].alpn
          /\ ~y.unread => y.names \subseteq y.trusted
      BY <1>11, <2>1, LoadFacts
    <2> HIDE DEF y
    <2> QED
      BY <1>1, <2>1, <2>2, CtxReadyStep DEF y
  <1> QED
    BY <1>1, <1>4, <1>5, <1>6, <1>7, <1>8, <1>9, <1>10, <1>12, <1>13, <1>14, LocationsStep DEF CtxInit

LEMMA ImportStepInv == ASSUME IInv, ImportStep PROVE IInv'
  <1>1. TypeOK' /\ TypeOK
    BY TypeImportStep DEF IInv
  <1>2. CASE ModelRefused
    <2>1. faults = {} /\ job.at = "model" /\ ImportFails /\ UNCHANGED <<chan, hist, hs>>
      BY <1>2 DEF ModelRefused, At
    <2> QED
      BY <1>1, <2>1, EndsStep, StepSets DEF TypeOK, LeakSame
  <1>3. CASE ModelTaken
    BY <1>1, <1>3, ModelTakenStep
  <1>4. CASE ModelGone \/ ChannelGone \/ LayerDead
    BY <1>1, <1>4, GoneStep
  <1>5. CASE CtxInit
    BY <1>5, CtxInitStep
  <1>6. CASE PreserveOptions
    BY <1>1, <1>6, PreserveOptionsStep
  <1>7. CASE StackChannel
    BY <1>1, <1>7, StackChannelStep
  <1>8. CASE StackRefused
    <2>1. /\ faults = {} /\ job.at = "stack" /\ ImportFails /\ UNCHANGED <<chan, hs>>
          /\ hist' = [hist EXCEPT !.unstacked = @ \cup {job.chan}] /\ job.chan \in Channels
      BY <1>8, JobFacts DEF StackRefused, At
    <2>2. /\ hist' \in HistRec /\ hist'.imports = hist.imports /\ hist'.model = hist.model
          /\ hist'.opts = hist.opts /\ hist'.closed = hist.closed /\ hist'.late = hist.late
          /\ hist'.unstacked = hist.unstacked \cup {job.chan} /\ LeakSame
      BY <1>1, <2>1 DEF TypeOK, HistRec, LeakSame
    <2> QED
      BY <2>1, <2>2, EndsStep, StepSets
  <1>9. CASE RestoreOptions
    BY <1>1, <1>9, RestoreOptionsStep
  <1>10. CASE SslCreated
    BY <1>1, <1>10, SslCreatedStep
  <1>11. CASE Prepared
    <2>1. faults = {} /\ job.at \in LateSteps \ {"ssl"}
          /\ \A c \in Channels : ~Closing(c)
      BY <1>11 DEF Prepared, IInv, Core, JobInv, LateSteps
    <2> QED
      BY <1>1, <1>11, <2>1, GotoStep DEF Prepared, LateSteps
  <1>12. CASE LateFails
    <2>1. /\ faults = {} /\ job.at \in LateSteps /\ ImportFails /\ UNCHANGED <<chan, hs>>
          /\ hist' = [hist EXCEPT !.late = TRUE]
      BY <1>12 DEF LateFails
    <2>2. job.at \notin CtxSteps /\ job.at # "none" /\ job.at \notin {"stack", "restore"}
      BY <2>1 DEF LateSteps, CtxSteps
    <2>3. /\ hist' \in HistRec /\ hist'.imports = hist.imports /\ hist'.model = hist.model
          /\ hist'.opts = hist.opts /\ hist'.closed = hist.closed /\ hist'.late = TRUE
          /\ hist'.unstacked = hist.unstacked /\ LeakSame
      BY <1>1, <2>1 DEF TypeOK, HistRec, LeakSame
    <2> QED
      BY <2>1, <2>2, <2>3, EndsStep
  <1>13. CASE Register
    BY <1>1, <1>13, RegisterStep
  <1> QED
    BY <1>2, <1>3, <1>4, <1>5, <1>6, <1>7, <1>8, <1>9, <1>10, <1>11, <1>12, <1>13 DEF ImportStep

-----------------------------------------------------------------------------
(* The other commands.                                                     *)

LEMMA ImportObjCmdStep ==
    ASSUME IInv, NEW c \in Channels, NEW o \in Inputs, ImportObjCmd(c, o)
    PROVE  IInv'
  <1> DEFINE s == hist.imports + 1
  <1>1. /\ faults = {} /\ job.at = "none" /\ chan[c].open /\ s \in Ids /\ s \in Nat
        /\ \A d \in Channels : ~Closing(d)
        /\ UNCHANGED <<chan, ctx, faults, hs>>
    BY ImportAssumption DEF ImportObjCmd, Idle, IInv, TypeOK, HistRec, Ids
  <1>2. /\ TypeOK /\ JobInv /\ LayersInv /\ CtxInv /\ ArgumentsLast /\ Owner(hs) /\ Verdict(hs) /\ Told(hs)
        /\ job.st = NoId /\ NoId # s /\ hist.imports \in Nat
    BY <1>1, IdFacts DEF IInv, Core, JobInv, HandshakeInv, VerdictInv, NameInv, TypeOK, HistRec
  <1>3. TypeOK'
    BY <1>2, TypeImportObjCmd
  <1>4. /\ state[s] = NoState /\ ctx[s] = NoCtx
        /\ \A t \in Ids : state[t].life # "none" => t # s
    <2>1. s > hist.imports
      BY <1>2
    <2>2. state[s] = NoState /\ ctx[s] = NoCtx
      BY <1>1, <1>2, <2>1 DEF JobInv
    <2> QED
      BY <2>2 DEF NoState
  <1>5. /\ job'.at \in {"ctx", "model"} /\ (job'.at = "model" => job'.model \in Channels)
        /\ job'.chan = c /\ job'.depth = Len(chan[c].layers) /\ job'.st = s
    BY ImportAssumption DEF ImportObjCmd
  <1>6. /\ hist'.imports = s /\ hist'.model = hist.model /\ hist'.late = hist.late
        /\ hist'.closed = hist.closed /\ hist'.inside = hist.inside
        /\ hist'.unstacked = hist.unstacked /\ hist'.opts = hist.opts /\ LeakSame
    BY <1>2 DEF ImportObjCmd, TypeOK, HistRec, LeakSame
  <1>7. \A t \in Ids \ {s} : state'[t] = state[t]
    BY <1>2 DEF ImportObjCmd, TypeOK
  <1>8. /\ state'[s].life = "live" /\ state'[s].ctx = NoId /\ ~state'[s].ssl
        /\ state'[s].conf.require => state'[s].conf.peer /\ state'[s].conf.mandatory
    BY <1>1, <1>2, ModeTypes DEF ImportObjCmd, TypeOK, NoState
  <1>9. ConfInv' /\ ListedIsTrusted' /\ OptionsInv' /\ FaultsHaveCauses'
    BY <1>1, <1>5, <1>6, <1>7, <1>8 DEF IInv, ConfInv, ListedIsTrusted, OptionsInv, FaultsHaveCauses
  <1>10. hs.at # "none" => hs.st \in Ids /\ hs.st # s /\ state'[hs.st] = state[hs.st]
    BY <1>2, <1>4, <1>7 DEF Owner
  <1>11. HandshakeInv' /\ VerdictInv' /\ NameInv' /\ ~hs'.rejected
    BY <1>1, <1>2, <1>5, <1>10 DEF HandshakeInv, Owner, VerdictInv, Verdict, NameInv, Told, IInv
  <1>12. JobInv'
    <2>1. ChanThere'
      BY <1>1, <1>5, TopFacts, <1>2 DEF ChanThere
    <2>2. job'.at \notin CtxSteps \cup {"none", "password", "stack", "options"}
          /\ job'.at \notin StackedSteps /\ job'.at \notin (LateSteps \ {"ssl"}) \cup {"register"}
      BY <1>5 DEF CtxSteps, StackedSteps, LateSteps
    <2>3. \A t \in Ids : t > s => t > hist.imports /\ t # s
      BY <1>2, IdFacts
    <2>4. \A d \in Channels : ~Closing(d)'
      BY <1>1 DEF Closing, Stacked
    <2> QED
      BY <1>1, <1>2, <1>5, <1>6, <1>7, <1>8, <2>1, <2>2, <2>3, <2>4 DEF JobInv
  <1>13. LayersInv'
    <2>1. \A d \in Channels : \A i \in DOMAIN chan[d].layers :
             /\ chan[d].layers[i] \in Ids /\ chan[d].layers[i] # s
             /\ state'[chan[d].layers[i]] = state[chan[d].layers[i]]
             /\ state[chan[d].layers[i]].life # "none"
      BY <1>2, <1>4, <1>7, TopFacts DEF LayersInv
    <2>2. \A t \in Ids : state'[t].life = "live" => t = s \/ \E d \in Channels : t \in ToSet(chan[d].layers)
      BY <1>2, <1>7, IdFacts DEF LayersInv
    <2>3. job'.at \notin StackedSteps
      BY <1>5 DEF StackedSteps, LateSteps
    <2> QED
      BY <1>1, <1>2, <1>5, <1>6, <2>1, <2>2, <2>3 DEF LayersInv, LayersLive
  <1>14. CtxInv'
    <2>1. \A t \in Ids \ {s} : state[t].ctx # NoId => state[t].ctx # s
      <3>1. \A t \in Ids : t > s => state[t].ctx = NoId
        BY <1>2, IdFacts DEF JobInv, NoState
      <3>2. ASSUME NEW t \in Ids, t # s, state[t].ctx # NoId, state[t].ctx = s PROVE FALSE
        <4>1. s <= t
          BY <1>2, <3>2 DEF CtxInv
        <4>2. t > s
          BY <1>1, <3>2, <4>1, IdFacts
        <4> QED
          BY <3>1, <3>2, <4>2
      <3> QED
        BY <3>2
    <2>2. job.at \notin CtxSteps /\ job'.at \notin CtxSteps
      BY <1>1, <1>5, StepSets
    <2>3. \A t \in Ids : state'[t].ctx # NoId =>
             state'[t].life = "live" /\ state'[t].ctx <= t /\ state'[t].ctx # s
      BY <1>2, <1>7, <1>8, <2>1 DEF CtxInv
    <2>4. \A t \in Ids : /\ state'[t].life = "live" /\ t # s => state'[t].ctx # NoId /\ state'[t].ssl
                         /\ state'[t].ssl => state'[t].ctx # NoId
      BY <1>2, <1>7, <1>8, IdFacts DEF CtxInv
    <2>5. ASSUME ~hist.model, NEW d \in Ids
          PROVE  /\ state'[d].ctx \in {NoId, d} /\ {ctx[d].hello, ctx[d].alpn} \subseteq {NoId, d}
                 /\ ctx[d].refs = IF state'[d].ctx = NoId THEN (IF d \in hist.leaked THEN 1 ELSE 0) ELSE IF state'[d].ssl THEN 2 ELSE 1
      <3>1. CASE d = s
        BY <1>2, <1>4, <1>8, <3>1 DEF NoCtx, NoState, CtxInv
      <3>2. CASE d # s
        BY <1>2, <1>7, <2>2, <2>5, <3>2 DEF CtxInv
      <3> QED
        BY <3>1, <3>2
    <2>6. \A d \in Ids : d \in hist.leaked => state'[d].life = "freed" /\ ~hist.openssl3
      BY <1>2, <1>4, <1>7 DEF CtxInv, NoState
    <2> QED
      BY <1>1, <1>5, <1>6, <2>2, <2>3, <2>4, <2>5, <2>6 DEF CtxInv, LeakSame
  <1>15. ArgumentsLast'
    <2>1. \A t \in Ids : t # s => t # job.st /\ state'[t] = state[t]
      BY <1>2, <1>7, IdFacts
    <2> QED
      BY <1>1, <1>2, <1>5, <1>6, <2>1 DEF ArgumentsLast
  <1> QED
    BY <1>3, <1>9, <1>11, <1>12, <1>13, <1>14, <1>15 DEF IInv, Core

\* The close of a channel: its layers come off afterwards.
LEMMA CloseStep == ASSUME IInv, NEW c \in Channels, Close(c), TypeOK' PROVE IInv'
  <1>1. /\ faults = {} /\ job.at \in {"none", "password"}
        /\ UNCHANGED <<state, ctx, job, faults, hs>>
    BY DEF Close, Idle
  <1>2. TypeOK /\ Core
    BY <1>1 DEF IInv
  <1>3. \A d \in Channels : chan'[d].layers = chan[d].layers /\ chan'[d].opts = chan[d].opts
                            /\ (d # c => chan'[d].open = chan[d].open)
    BY <1>2 DEF Close, TypeOK, ChanRec
  <1>4. /\ hist'.imports = hist.imports /\ hist'.model = hist.model /\ hist'.late = hist.late
        /\ hist'.inside = hist.inside /\ hist'.unstacked = hist.unstacked /\ hist'.opts = hist.opts
        /\ (hist.closed \/ (job.at = "password" /\ job.chan = c)) => hist'.closed
        /\ LeakSame
    BY <1>2 DEF Close, TypeOK, HistRec, LeakSame
  <1>5. ConfInv' /\ VerdictInv' /\ ~hs'.rejected /\ NameInv' /\ ListedIsTrusted' /\ FaultsHaveCauses'
    BY <1>1, <1>4 DEF IInv, ConfInv, VerdictInv, Verdict, NameInv, Told, ListedIsTrusted, FaultsHaveCauses
  <1>6. OptionsInv'
    BY <1>1, <1>3, <1>4 DEF IInv, OptionsInv
  <1>7. JobInv'
    <2>1. job.at # "none" => job.chan \in Channels
      BY <1>2 DEF Core, JobInv
    <2>2. job.at \in EarlySteps /\ ~hist'.closed => ChanThere'
      BY <1>1, <1>2, <1>3, <1>4, <2>1, StepSets DEF Core, JobInv, ChanThere
    <2> QED
      BY <1>1, <1>2, <1>4, <2>2 DEF Core, JobInv
  <1>8. LayersInv' /\ CtxInv' /\ ArgumentsLast' /\ HandshakeInv'
    <2>1. LayersInv'
      <3>1. job.at \notin StackedSteps
        BY <1>1 DEF StackedSteps, LateSteps
      <3> QED
        BY <1>1, <1>2, <1>3, <1>4, <3>1 DEF Core, LayersInv, LayersLive
    <2>2. CtxInv'
      BY <1>1, <1>2, <1>4 DEF Core, CtxInv, LeakSame
    <2>3. ArgumentsLast' /\ HandshakeInv'
      BY <1>1, <1>2, <1>4 DEF Core, ArgumentsLast, HandshakeInv, Owner
    <2> QED
      BY <2>1, <2>2, <2>3
  <1> QED
    BY <1>5, <1>6, <1>7, <1>8 DEF IInv, Core

\* The top layer of a channel comes off: tls::unimport, or a part of the close.
LEMMA RemoveTopStep ==
    ASSUME IInv, faults = {}, NEW c \in Channels, Stacked(c), RemoveTop(c), TypeOK', job' = job,
           hist'.imports = hist.imports, hist'.model = hist.model, hist'.late = hist.late,
           hist'.inside = hist.inside, hist'.unstacked = hist.unstacked, hist'.opts = hist.opts,
           job.at \in {"none", "password"}, LeakSame,
           hist.closed \/ (job.at = "password" /\ job.chan = c) => hist'.closed
    PROVE  IInv'
  <1> DEFINE s == Top(c)
             n == Len(chan[c].layers)
  <1>1. TypeOK /\ JobInv /\ LayersInv /\ CtxInv /\ Owner(hs) /\ Verdict(hs) /\ Told(hs)
        /\ FaultsHaveCauses /\ OptionsInv /\ ConfInv
    BY DEF IInv, Core, HandshakeInv, VerdictInv, NameInv
  <1>2. /\ s \in Ids /\ n \in DOMAIN chan[c].layers /\ n \in Nat /\ s = chan[c].layers[n]
        /\ \A d \in Channels : \A i \in DOMAIN chan[d].layers : chan[d].layers[i] \in Ids
        /\ DOMAIN chan[c].layers = 1..n
    BY <1>1, TopFacts
  <1>3. \A d \in Channels : chan'[d].open = chan[d].open /\ chan'[d].opts = chan[d].opts
                            /\ (d # c => chan'[d].layers = chan[d].layers)
    BY <1>1 DEF RemoveTop, TypeOK, ChanRec
  <1>4. DOMAIN chan'[c].layers = 1..(n - 1) /\ \A i \in 1..(n - 1) : chan'[c].layers[i] = chan[c].layers[i]
    <2>1. chan'[c].layers = Front(chan[c].layers)
      BY <1>1 DEF RemoveTop, TypeOK, ChanRec
    <2>2. /\ Front(chan[c].layers) \in Seq(Ids) /\ Len(Front(chan[c].layers)) = n - 1
          /\ \A i \in 1..(n - 1) : Front(chan[c].layers)[i] = chan[c].layers[i]
      BY <1>1, TopFacts
    <2> QED
      BY <2>1, <2>2
  <1>5. \A d \in Channels : \A i \in DOMAIN chan'[d].layers :
           i \in DOMAIN chan[d].layers /\ chan'[d].layers[i] = chan[d].layers[i] /\ chan[d].layers[i] # s
    <2>1. \A i \in 1..(n - 1) : i \in 1..n /\ i # n
      BY <1>2
    <2>2. \A d \in Channels : \A i \in DOMAIN chan[d].layers : chan[d].layers[i] = s => d = c /\ i = n
      BY <1>1, <1>2 DEF LayersInv
    <2> QED
      BY <1>2, <1>3, <1>4, <2>1, <2>2
  <1>6. s # job.st
    BY <1>1, <1>2, IdFacts, StepSets DEF JobInv, LayersInv
  <1>7. state[s].life # "live" => faults' = {"state"} /\ hist.late /\ UNCHANGED <<state, ctx>>
    BY <1>1, <1>2 DEF RemoveTop, Fault, LayersInv, LayersLive
  <1>8. ASSUME state[s].life = "live"
        PROVE  /\ TlsFree(s) /\ state' = [state EXCEPT ![s] = Dead]
               /\ faults' = {} => Drops(s) /\ CtxInv' /\ ArgumentsLast'
               /\ faults' # {} => faults' = {"ctx"} /\ hist.model
               /\ ListedIsTrusted'
    <2>1. TlsFree(s)
      BY <1>8 DEF RemoveTop
    <2> QED
      BY <1>2, <1>6, <1>8, <2>1, FreeDrops, DropsCtx, FreeListed DEF TlsFree, Leaves, LeakSame
  <1>9. FaultsHaveCauses' /\ ListedIsTrusted' /\ OptionsInv'
    BY <1>1, <1>3, <1>7, <1>8 DEF FaultsHaveCauses, ListedIsTrusted, OptionsInv, IInv
  <1>10. /\ \A t \in Ids \ {s} : state'[t] = state[t]
         /\ state'[s] \in {state[s], Dead}
    BY <1>1, <1>2, <1>7, <1>8 DEF TypeOK
  <1>11. ConfInv'
    BY <1>1, <1>10 DEF ConfInv, Dead, NoState, NoConf
  <1>12. HandshakeInv' /\ VerdictInv' /\ NameInv' /\ ~hs'.rejected
    <2>1. CASE hs.st = s
      BY <2>1 DEF RemoveTop, HandshakeInv, Owner, VerdictInv, Verdict, NameInv, Told, NoHandshake
    <2>2. CASE hs.st # s
      <3>1. hs' = hs
        BY <2>2 DEF RemoveTop
      <3>2. hs.at # "none" => hs.st \in Ids /\ state'[hs.st] = state[hs.st]
        BY <1>1, <1>10, <2>2 DEF Owner
      <3> QED
        BY <1>1, <3>1, <3>2 DEF HandshakeInv, Owner, VerdictInv, Verdict, NameInv, Told, IInv
    <2> QED
      BY <2>1, <2>2
  <1>13. ASSUME faults' = {} PROVE Core'
    <2>1. state[s].life = "live" /\ Drops(s) /\ CtxInv' /\ ArgumentsLast'
      BY <1>7, <1>8, <1>13
    <2>2. JobInv'
      <3>1. job.at # "none" => job.chan \in Channels /\ job.st \in Ids /\ state'[job.st] = state[job.st]
        BY <1>1, <1>6, <1>10, JobFacts
      <3>2. \A t \in Ids : t > hist.imports => state'[t] = NoState /\ ctx'[t] = NoCtx
        <4>1. ~(s > hist.imports)
          BY <1>1, <1>2, <2>1 DEF JobInv, NoState
        <4>2. \A t \in Ids : t > hist.imports => t > s
          <5>1. hist.imports \in 0..MaxImports
            BY <1>1 DEF TypeOK, HistRec
          <5>2. hist.imports \in Nat
            BY <5>1
          <5> HIDE DEF s
          <5>3. s \in Nat
            BY <1>2, IdFacts
          <5>4. ASSUME NEW t \in Ids, t > hist.imports PROVE t > s
            <6>1. t \in Nat
              BY IdFacts
            <6> QED
              BY <4>1, <5>2, <5>3, <5>4, <6>1
          <5> QED
            BY <5>4
        <4>3. \A t \in Ids : t > hist.imports => t # s
          BY <4>1
        <4> QED
          BY <1>1, <1>10, <2>1, <4>2, <4>3 DEF JobInv, Drops
      <3>3. job.at \in EarlySteps /\ ~hist'.closed => ChanThere'
        <4> SUFFICES ASSUME job.at \in EarlySteps, ~hist'.closed PROVE ChanThere'
          OBVIOUS
        <4>1. ChanThere /\ job.chan # c /\ job.chan \in Channels
          BY <1>1, <3>1, StepSets DEF JobInv
        <4> QED
          BY <1>3, <4>1 DEF ChanThere
      <3>4. job.at \notin {"model", "stack", "options"} /\ job.at \notin StackedSteps
        BY DEF StackedSteps, LateSteps
      <3>5. CASE job.at = "none"
        <4>1. job.at \notin CtxSteps \cup {"model", "ctx"}
              /\ job.at \notin (LateSteps \ {"ssl"}) \cup {"register"}
          BY <3>5 DEF CtxSteps, LateSteps
        <4> QED
          BY <1>1, <3>2, <3>3, <3>4, <3>5, <4>1 DEF JobInv
      <3>6. CASE job.at = "password"
        BY <1>1, <3>1, <3>2, <3>3, <3>4, <3>6 DEF JobInv
      <3> QED
        BY <3>5, <3>6
    <2>3. LayersInv'
      <3>1. job.at \notin StackedSteps
        BY DEF StackedSteps, LateSteps
      <3>2. \A d \in Channels : \A i \in DOMAIN chan'[d].layers :
               chan[d].layers[i] \in Ids /\ state'[chan'[d].layers[i]] = state[chan[d].layers[i]]
        BY <1>2, <1>5, <1>10
      <3>3. \A t \in Ids : state'[t].life = "live" =>
               job.st = t \/ \E d \in Channels : t \in ToSet(chan'[d].layers)
        <4> SUFFICES ASSUME NEW t \in Ids, state'[t].life = "live", job.st # t
                     PROVE  \E d \in Channels : t \in ToSet(chan'[d].layers)
          OBVIOUS
        <4>1. t # s /\ state[t].life = "live"
          BY <1>2, <1>10, <2>1 DEF Drops, TypeOK, Dead, NoState, IInv
        <4>2. PICK d \in Channels : t \in ToSet(chan[d].layers)
          BY <1>1, <4>1 DEF LayersInv
        <4>3. PICK i \in DOMAIN chan[d].layers : t = chan[d].layers[i]
          BY <4>2 DEF ToSet
        <4>4. i \in DOMAIN chan'[d].layers /\ t = chan'[d].layers[i]
          <5>1. CASE d # c
            BY <1>3, <4>3, <5>1
          <5>2. CASE d = c
            <6>1. i \in 1..n /\ i # n
              BY <1>2, <4>1, <4>3, <5>2
            <6>2. i \in 1..(n - 1)
              BY <1>2, <6>1
            <6> QED
              BY <1>4, <4>3, <5>2, <6>2
          <5> QED
            BY <5>1, <5>2
        <4> QED
          BY <4>4 DEF ToSet
      <3>4. \A d, e \in Channels : \A i \in DOMAIN chan'[d].layers, j \in DOMAIN chan'[e].layers :
               chan'[d].layers[i] = chan'[e].layers[j] => d = e /\ i = j
        <4>1. \A d, e \in Channels : \A i \in DOMAIN chan[d].layers, j \in DOMAIN chan[e].layers :
                 chan[d].layers[i] = chan[e].layers[j] => d = e /\ i = j
          BY <1>1 DEF LayersInv
        <4> QED
          BY <1>5, <4>1
      <3>5. \A d \in Channels : \A i \in DOMAIN chan'[d].layers :
               /\ state'[chan'[d].layers[i]].life # "none"
               /\ job.at \in EarlySteps => chan'[d].layers[i] # job.st
               /\ ~hist.late => state'[chan'[d].layers[i]].life = "live"
        BY <1>1, <1>5, <3>2 DEF LayersInv, LayersLive
      <3> QED
        BY <3>1, <3>3, <3>4, <3>5 DEF LayersInv, LayersLive
    <2> QED
      BY <1>12, <2>1, <2>2, <2>3 DEF Core
  <1> QED
    BY <1>9, <1>11, <1>12, <1>13 DEF IInv

LEMMA CommandStep == ASSUME IInv, Command PROVE IInv'
  <1>1. PICK c \in Channels :
          (\E o \in Inputs : ImportObjCmd(c, o)) \/ UnimportObjCmd(c) \/ Close(c) \/ CloseLayer(c)
    BY DEF Command
  <1>2. TypeOK' /\ TypeOK /\ hist \in HistRec
    BY TypeCommand DEF IInv, TypeOK
  <1>3. CASE \E o \in Inputs : ImportObjCmd(c, o)
    BY <1>3, ImportObjCmdStep
  <1>4. CASE UnimportObjCmd(c)
    <2>1. hist' = [hist EXCEPT !.closed = @ \/ (job.at = "password" /\ job.chan = c)]
      BY <1>4 DEF UnimportObjCmd
    <2>2. /\ hist'.imports = hist.imports /\ hist'.model = hist.model /\ hist'.late = hist.late
          /\ hist'.inside = hist.inside /\ hist'.unstacked = hist.unstacked /\ hist'.opts = hist.opts
          /\ hist'.closed = (hist.closed \/ (job.at = "password" /\ job.chan = c)) /\ LeakSame
      BY <1>2, <2>1 DEF HistRec, LeakSame
    <2> QED
      BY <1>2, <1>4, <2>2, RemoveTopStep DEF UnimportObjCmd, Idle
  <1>5. CASE Close(c)
    BY <1>2, <1>5, CloseStep
  <1>6. CASE CloseLayer(c)
    <2>1. faults = {} /\ Stacked(c) /\ ~chan[c].open /\ Closing(c) /\ RemoveTop(c) /\ UNCHANGED <<job, hist>>
      BY <1>6 DEF CloseLayer, Closing
    <2>2. job.at \in {"none", "password"}
      BY <2>1 DEF IInv, Core, JobInv
    <2>3. job.at = "password" /\ job.chan = c => hist.closed
      BY <2>1, StepSets DEF IInv, Core, JobInv, ChanThere
    <2> QED
      BY <1>2, <2>1, <2>2, <2>3, RemoveTopStep DEF LeakSame
  <1> QED
    BY <1>1, <1>3, <1>4, <1>5, <1>6

-----------------------------------------------------------------------------
(* The theorems.                                                           *)

LEMMA IInvInit == Init => IInv
  <1> SUFFICES ASSUME Init PROVE IInv
    OBVIOUS
  <1>1. TypeOK
    BY TypeInit
  <1>2. /\ state = [s \in Ids |-> NoState] /\ ctx = [s \in Ids |-> NoCtx] /\ job = NoJob
        /\ hs = NoHandshake /\ faults = {}
    BY DEF Init, ImportInit
  <1>3. PICK opts \in Opts, openssl3 \in Builds :
          /\ chan = [c \in Channels |-> [open |-> TRUE, layers |-> <<>>, opts |-> opts]]
          /\ hist = [imports |-> 0, model |-> FALSE, late |-> FALSE, closed |-> FALSE,
                     inside |-> FALSE, unstacked |-> {}, over |-> {NoId}, opts |-> opts,
                     openssl3 |-> openssl3, leaked |-> {}]
    BY DEF Init, ImportInit
  <1>4. /\ \A c \in Channels : chan[c].open /\ chan[c].layers = <<>> /\ chan[c].opts = hist.opts
        /\ hist.leaked = {}
    BY <1>3
  <1>5. /\ \A s \in Ids : state[s] = NoState /\ ctx[s] = NoCtx
        /\ job.at = "none" /\ job.st = NoId /\ hs.at = "none" /\ hs.st = NoId
        /\ ~hs.rejected /\ ~hs.asked /\ ~hs.bad
    BY <1>2 DEF NoJob, NoHandshake
  <1>6. /\ NoState.life = "none" /\ NoState.ctx = NoId /\ ~NoState.ssl /\ NoState.conf = NoConf
        /\ ~NoConf.require /\ NoCtx.refs = 0 /\ NoCtx.hello = NoId /\ NoCtx.alpn = NoId
        /\ NoCtx.names = {}
    BY DEF NoState, NoConf, NoCtx
  <1>7. job.at \notin EarlySteps \cup StackedSteps \cup CtxSteps
    BY <1>5, StepSets
  <1>8. JobInv
    BY <1>5, <1>7 DEF JobInv, LateSteps, EarlySteps, StackedSteps
  <1>9. LayersInv
    <2>1. \A c \in Channels : DOMAIN chan[c].layers = {}
      BY <1>4
    <2> QED
      BY <1>5, <1>6, <1>7, <2>1 DEF LayersInv, LayersLive
  <1>10. CtxInv /\ ArgumentsLast /\ HandshakeInv
    BY <1>4, <1>5, <1>6, <1>7 DEF CtxInv, ArgumentsLast, HandshakeInv, Owner
  <1>11. FaultsHaveCauses /\ ConfInv /\ VerdictInv /\ OptionsInv /\ NameInv /\ ListedIsTrusted
    BY <1>2, <1>4, <1>5, <1>6 DEF FaultsHaveCauses, ConfInv, VerdictInv, Verdict, OptionsInv, NameInv,
       Told, ListedIsTrusted
  <1> QED
    BY <1>1, <1>5, <1>8, <1>9, <1>10, <1>11 DEF IInv, Core

LEMMA IInvNext == IInv /\ [Next]_vars => IInv'
  <1> SUFFICES ASSUME IInv, [Next]_vars PROVE IInv'
    OBVIOUS
  <1>1. CASE Next
    BY <1>1, ImportStepInv, CommandStep, HandshakeStep DEF Next, ImportNext
  <1>2. CASE UNCHANGED vars
    <2>1. TypeOK' /\ FaultsHaveCauses' /\ ListedIsTrusted' /\ ConfInv' /\ OptionsInv'
      BY <1>2 DEF vars, IInv, TypeOK, FaultsHaveCauses, ListedIsTrusted, ConfInv, OptionsInv
    <2>2. VerdictInv' /\ ~hs'.rejected /\ NameInv'
      BY <1>2 DEF vars, IInv, VerdictInv, Verdict, NameInv, Told
    <2>3. faults = {} => JobInv'
      BY <1>2 DEF vars, IInv, Core, JobInv, ChanThere, Closing, Stacked
    <2>4. faults = {} => LayersInv'
      BY <1>2 DEF vars, IInv, Core, LayersInv, LayersLive
    <2>5. faults = {} => CtxInv' /\ ArgumentsLast' /\ HandshakeInv'
      BY <1>2 DEF vars, IInv, Core, CtxInv, ArgumentsLast, HandshakeInv, Owner
    <2>6. faults' = faults
      BY <1>2 DEF vars
    <2> QED
      BY <2>1, <2>2, <2>3, <2>4, <2>5, <2>6 DEF IInv, Core
  <1> QED
    BY <1>1, <1>2

LEMMA IInvAlways == Spec => []IInv
  BY IInvInit, IInvNext, PTL DEF Spec

\* Every variable keeps its type.
THEOREM SessionTypes == Spec => []TypeOK
  <1>1. IInv => TypeOK
    BY DEF IInv
  <1> QED
    BY IInvAlways, <1>1, PTL

\* Whatever is used after it is gone (a State, an SSL_CTX, a channel) has one of the
\* causes FaultsHaveCauses lists; otherwise ImportObjCmd, the close and the callbacks
\* only use what is there.
THEOREM Faults == Spec => []FaultsHaveCauses
  <1>1. IInv => FaultsHaveCauses
    BY DEF IInv
  <1> QED
    BY IInvAlways, <1>1, PTL

\* Every live State belongs to exactly one layer or to the import in progress.
THEOREM Owned == Spec => []LayersOwned
  <1>1. IInv => LayersOwned
    BY DEF IInv, Core, LayersInv, LayersOwned
  <1> QED
    BY IInvAlways, <1>1, PTL

\* The options of a channel survive its imports, whatever they come to.
THEOREM Options == Spec => []OptionsKept
  <1>1. IInv => OptionsKept
    BY DEF IInv, OptionsInv, OptionsKept
  <1> QED
    BY IInvAlways, <1>1, PTL

\* The callbacks of a server never get the State of an earlier import.
THEOREM Arguments == Spec => []ArgumentsLast
  <1>1. IInv => ArgumentsLast
    BY DEF IInv, Core, ArgumentsLast
  <1> QED
    BY IInvAlways, <1>1, PTL

\* A server only lists CA certificates it trusts, wherever the loading stopped.
THEOREM Listed == Spec => []ListedIsTrusted
  <1>1. IInv => ListedIsTrusted
    BY DEF IInv
  <1> QED
    BY IInvAlways, <1>1, PTL

\* With -require and without a script, a handshake ends well on valid certificates only.
THEOREM TrustedChains == Spec => []Trusted
  <1>1. IInv => Trusted
    BY DEF IInv, VerdictInv, Verdict, Trusted, Conn
  <1> QED
    BY IInvAlways, <1>1, PTL

\* No handshake ends well after a script turned something down.
THEOREM Scripts == Spec => []ScriptsRespected
  <1>1. IInv => ScriptsRespected
    BY DEF IInv, ScriptsRespected
  <1> QED
    BY IInvAlways, <1>1, PTL

\* Slices of sequences that agree item by item are equal.
LEMMA SameSlice == ASSUME NEW a \in Seq(Nat), NEW b \in Seq(Nat), NEW n \in Nat, n <= Len(a), n <= Len(b),
                          \A i \in 1..n : a[i] = b[i]
                   PROVE  SubSeq(a, 1, n) = SubSeq(b, 1, n)
  <1>1. SubSeq(a, 1, n) = [i \in 1..n |-> a[i]] /\ SubSeq(b, 1, n) = [i \in 1..n |-> b[i]]
    OBVIOUS
  <1> QED
    BY <1>1

\* What starts at the sixth item of a sequence begins what is left of it there.
LEMMA SliceFacts == ASSUME NEW q \in Seq(Nat), NEW n \in Nat, n <= Len(q), 6 <= Len(q)
                    PROVE  LET a == SubSeq(q, 6, n)
                           IN  /\ a \in Seq(Nat)
                               /\ Len(a) = IF 6 <= n THEN n - 5 ELSE 0
                               /\ \A i \in 1..Len(a) : a[i] = q[i + 5]
  OBVIOUS

LEMMA PrefixOfRest == ASSUME NEW q \in Seq(Nat), NEW n \in Nat, n <= Len(q), 6 <= Len(q)
                      PROVE  IsPrefix(SubSeq(q, 6, n), SubSeq(q, 6, Len(q)))
  <1> DEFINE a == SubSeq(q, 6, n)
             b == SubSeq(q, 6, Len(q))
  <1>1. Len(q) \in Nat
    OBVIOUS
  <1>2. /\ a \in Seq(Nat) /\ Len(a) = IF 6 <= n THEN n - 5 ELSE 0
        /\ \A i \in 1..Len(a) : a[i] = q[i + 5]
    BY SliceFacts
  <1>3. /\ b \in Seq(Nat) /\ Len(b) = Len(q) - 5
        /\ \A i \in 1..Len(b) : b[i] = q[i + 5]
    BY <1>1, SliceFacts
  <1> HIDE DEF a, b
  <1>4. Len(a) \in Nat /\ Len(b) \in Nat /\ Len(a) <= Len(b)
    BY <1>1, <1>2, <1>3
  <1>5. \A i \in 1..Len(a) : a[i] = b[i]
    BY <1>2, <1>3, <1>4
  <1>6. SubSeq(a, 1, Len(a)) = SubSeq(b, 1, Len(a))
    BY <1>2, <1>3, <1>4, <1>5, SameSlice
  <1> QED
    BY <1>4, <1>6 DEF IsPrefix, a, b

\* The name a script is told is within the extension, and as long as it says.
THEOREM Names == Spec => []NameInHello
  <1>1. IInv => NameInHello
    <2> SUFFICES ASSUME IInv, hs.asked, hs.ext # <<>> PROVE NameInHello
      BY DEF NameInHello
    <2> DEFINE ext == hs.ext
               len == Short(ext[4], ext[5])
    <2>1. ext \in Seq(Nat) /\ HelloServerName(ext).ok /\ HelloServerName(ext).name = hs.name
      BY DEF IInv, TypeOK, HandshakeRec, NameInv, Told
    <2>2. /\ Len(ext) > 5 /\ Short(ext[1], ext[2]) + 2 = Len(ext) /\ ext[3] = 0
          /\ len + 5 <= Len(ext) /\ hs.name = SubSeq(ext, 6, 5 + len)
      BY <2>1, NameFacts
    <2> HIDE DEF ext
    <2>3. len \in Nat /\ Len(ext) \in Nat /\ Short(ext[1], ext[2]) \in Nat
      <3>1. Len(ext) \in Nat /\ \A i \in 1..Len(ext) : ext[i] \in Nat
        BY <2>1
      <3>2. {1, 2, 4, 5} \subseteq 1..Len(ext)
        BY <2>2, <3>1
      <3>3. ext[1] \in Nat /\ ext[2] \in Nat /\ ext[4] \in Nat /\ ext[5] \in Nat
        BY <3>1, <3>2
      <3>4. \A a, b \in Nat : Short(a, b) \in Nat
        BY DEF Short
      <3> QED
        BY <3>1, <3>3, <3>4
    <2> HIDE DEF len
    <2>4. Short(ext[1], ext[2]) = Len(ext) - 2 /\ Len(hs.name) = len
      <3>1. /\ 5 + len \in Nat /\ 5 + len <= Len(ext) /\ 6 <= Len(ext)
            /\ Short(ext[1], ext[2]) = Len(ext) - 2
        BY <2>2, <2>3
      <3>2. Len(hs.name) = IF 6 <= 5 + len THEN (5 + len) - 5 ELSE 0
        BY <2>1, <2>2, <3>1, SliceFacts
      <3> QED
        BY <2>3, <3>1, <3>2
    <2>5. IsPrefix(hs.name, SubSeq(ext, 6, Len(ext)))
      <3>1. 5 + len \in Nat /\ 5 + len <= Len(ext)
        BY <2>2, <2>3
      <3> QED
        BY <2>1, <2>2, <3>1, PrefixOfRest
    <2> QED
      BY <2>2, <2>4, <2>5 DEF NameInHello, ext, len
  <1> QED
    BY IInvAlways, <1>1, PTL

-----------------------------------------------------------------------------
(* The references to an SSL_CTX.                                           *)

\* The States that point to an SSL_CTX, and those of them with an SSL object.
Holders(st, c) == {s \in Ids : st[s].ctx = c}
Secure(st, c) == {s \in Holders(st, c) : st[s].ssl}
Weight(st, c) == Cardinality(Holders(st, c)) + Cardinality(Secure(st, c))

\* CTX_Init is at work on SSL_CTX c, or has leaked it: the first reference is its own.
Making(c) == (job.st = c /\ job.at \in CtxSteps) \/ c \in hist.leaked

\* No SSL_CTX has more references than it has holders, whoever shares it.  (It can have
\* fewer: tls::import -model takes none for the State.)
Counted ==
    faults = {} => \A c \in Ids : ctx[c].refs <= (IF Making(c) THEN 1 ELSE 0) + Weight(state, c)

LEMMA HolderFacts ==
    ASSUME NEW st, NEW c
    PROVE  /\ IsFiniteSet(Holders(st, c)) /\ IsFiniteSet(Secure(st, c))
           /\ Cardinality(Holders(st, c)) \in Nat /\ Cardinality(Secure(st, c)) \in Nat
           /\ Weight(st, c) \in Nat /\ (Weight(st, c) = 0 => Holders(st, c) = {})
  <1>1. IsFiniteSet(Ids)
    BY ImportAssumption, FS_Interval DEF Ids
  <1>2. Holders(st, c) \in SUBSET Ids /\ Secure(st, c) \in SUBSET Ids
    BY DEF Holders, Secure
  <1>3. IsFiniteSet(Holders(st, c)) /\ IsFiniteSet(Secure(st, c))
    BY <1>1, <1>2, FS_Subset
  <1>4. Cardinality(Holders(st, c)) \in Nat /\ Cardinality(Secure(st, c)) \in Nat
    BY <1>3, FS_CardinalityType
  <1>5. Cardinality(Holders(st, c)) = 0 => Holders(st, c) = {}
    BY <1>3, FS_EmptySet
  <1> QED
    BY <1>3, <1>4, <1>5 DEF Weight

\* Who held an SSL_CTX still holds it.
LEMMA WeightGrows ==
    ASSUME NEW st, NEW up, NEW c,
           \A s \in Ids : st[s].ctx = c => up[s].ctx = c /\ (st[s].ssl => up[s].ssl)
    PROVE  Weight(st, c) <= Weight(up, c)
  <1>1. Holders(st, c) \in SUBSET Holders(up, c) /\ Secure(st, c) \in SUBSET Secure(up, c)
    BY DEF Holders, Secure
  <1>2. /\ Cardinality(Holders(st, c)) <= Cardinality(Holders(up, c))
        /\ Cardinality(Secure(st, c)) <= Cardinality(Secure(up, c))
    BY <1>1, HolderFacts, FS_Subset
  <1> QED
    BY <1>2, HolderFacts DEF Weight

\* A State joins them, or gets an SSL object.
LEMMA WeightJoins ==
    ASSUME NEW st, NEW up, NEW c, NEW t \in Ids,
           \A s \in Ids : st[s].ctx = c => up[s].ctx = c /\ (st[s].ssl => up[s].ssl),
           up[t].ctx = c,
           st[t].ctx # c \/ (~st[t].ssl /\ up[t].ssl)
    PROVE  Weight(st, c) + 1 <= Weight(up, c)
  <1> DEFINE H == Holders(st, c)
             S == Secure(st, c)
             HH == Holders(up, c)
             SS == Secure(up, c)
  <1>1. H \in SUBSET HH /\ S \in SUBSET SS
    BY DEF Holders, Secure
  <1>2. /\ IsFiniteSet(H) /\ IsFiniteSet(S) /\ IsFiniteSet(HH) /\ IsFiniteSet(SS)
        /\ Cardinality(H) \in Nat /\ Cardinality(S) \in Nat
        /\ Cardinality(HH) \in Nat /\ Cardinality(SS) \in Nat
    BY HolderFacts
  <1>3. Cardinality(H) <= Cardinality(HH) /\ Cardinality(S) <= Cardinality(SS)
    BY <1>1, <1>2, FS_Subset
  <1>4. CASE st[t].ctx # c
    <2>1. t \notin H /\ H \cup {t} \in SUBSET HH
      BY <1>1, <1>4 DEF Holders
    <2>2. Cardinality(H \cup {t}) = Cardinality(H) + 1
      BY <1>2, <2>1, FS_AddElement
    <2>3. Cardinality(H \cup {t}) <= Cardinality(HH)
      BY <1>2, <2>1, FS_Subset
    <2> QED
      BY <1>2, <1>3, <2>2, <2>3 DEF Weight
  <1>5. CASE ~st[t].ssl /\ up[t].ssl
    <2>1. t \notin S /\ S \cup {t} \in SUBSET SS
      BY <1>1, <1>5 DEF Holders, Secure
    <2>2. Cardinality(S \cup {t}) = Cardinality(S) + 1
      BY <1>2, <2>1, FS_AddElement
    <2>3. Cardinality(S \cup {t}) <= Cardinality(SS)
      BY <1>2, <2>1, FS_Subset
    <2> QED
      BY <1>2, <1>3, <2>2, <2>3 DEF Weight
  <1> QED
    BY <1>4, <1>5

\* One of them is gone.
LEMMA WeightLeaves ==
    ASSUME NEW st, NEW up, NEW c, NEW t \in Ids, st[t].ctx = c,
           \A s \in Ids \ {t} : st[s].ctx = c => up[s].ctx = c /\ (st[s].ssl => up[s].ssl)
    PROVE  Weight(st, c) <= Weight(up, c) + (IF st[t].ssl THEN 2 ELSE 1)
  <1> DEFINE H == Holders(st, c)
             S == Secure(st, c)
             HH == Holders(up, c)
             SS == Secure(up, c)
  <1>1. /\ IsFiniteSet(H) /\ IsFiniteSet(S) /\ IsFiniteSet(HH) /\ IsFiniteSet(SS)
        /\ Cardinality(H) \in Nat /\ Cardinality(S) \in Nat
        /\ Cardinality(HH) \in Nat /\ Cardinality(SS) \in Nat
    BY HolderFacts
  <1>2. H \ {t} \in SUBSET HH /\ S \ {t} \in SUBSET SS
    BY DEF Holders, Secure
  <1>3. t \in H /\ (t \in S <=> st[t].ssl)
    BY DEF Holders, Secure
  <1>4. /\ Cardinality(H \ {t}) = Cardinality(H) - 1
        /\ Cardinality(S \ {t}) = IF st[t].ssl THEN Cardinality(S) - 1 ELSE Cardinality(S)
    BY <1>1, <1>3, FS_RemoveElement
  <1>5. Cardinality(H \ {t}) <= Cardinality(HH) /\ Cardinality(S \ {t}) <= Cardinality(SS)
    BY <1>1, <1>2, FS_Subset
  <1> HIDE DEF H, S, HH, SS
  <1>6. Cardinality(H) + Cardinality(S)
          <= Cardinality(HH) + Cardinality(SS) + (IF st[t].ssl THEN 2 ELSE 1)
    BY <1>1, <1>4, <1>5
  <1> QED
    BY <1>6 DEF Weight, H, S, HH, SS

\* No reference comes, and no holder goes.
LEMMA CountKept ==
    ASSUME IInv, Counted, faults = {},
           \A s \in Ids : state[s].ctx # NoId =>
              state'[s].ctx = state[s].ctx /\ (state[s].ssl => state'[s].ssl),
           \A c \in Ids : ctx'[c].refs = ctx[c].refs /\ (Making(c) => Making(c)')
    PROVE  Counted'
  <1> SUFFICES ASSUME NEW c \in Ids
               PROVE  ctx'[c].refs <= (IF Making(c)' THEN 1 ELSE 0) + Weight(state', c)
    BY DEF Counted
  <1>1. ctx[c].refs <= (IF Making(c) THEN 1 ELSE 0) + Weight(state, c) /\ ctx[c].refs \in Nat
    BY DEF Counted, IInv, TypeOK, CtxRec
  <1>2. Weight(state, c) <= Weight(state', c) /\ Weight(state, c) \in Nat /\ Weight(state', c) \in Nat
    <2>1. \A s \in Ids : state[s].ctx = c => state'[s].ctx = c /\ (state[s].ssl => state'[s].ssl)
      BY IdFacts
    <2> QED
      BY <2>1, WeightGrows, HolderFacts
  <1>3. (Making(c) => Making(c)') /\ ctx'[c].refs = ctx[c].refs
    OBVIOUS
  <1> QED
    BY <1>1, <1>2, <1>3

\* Tls_Free gives back what its State held.
LEMMA CountFreed ==
    ASSUME IInv, Counted, faults = {}, NEW s \in Ids, TlsFree(s),
           \A c \in Ids : Making(c) => Making(c)'
    PROVE  Counted'
  <1> DEFINE b == state[s].ctx
             n == IF state[s].ssl THEN 2 ELSE 1
  <1>1. /\ TypeOK /\ ctx' = TlsClean(ctx, s) /\ state' = [state EXCEPT ![s] = Dead]
        /\ b \in AnyId /\ n \in Nat /\ (b # NoId => b \in Ids)
        /\ \A c \in Ids : ctx[c] \in CtxRec /\ ctx[c].refs \in Nat
    BY DEF IInv, TypeOK, TlsFree, StateRec, AnyId, CtxRec
  <1>2. \A t \in Ids \ {s} : state'[t] = state[t]
    BY <1>1 DEF TypeOK
  <1>3. \A c \in Ids : ctx[c].refs <= (IF Making(c) THEN 1 ELSE 0) + Weight(state, c)
    BY DEF Counted
  <1>4. ASSUME NEW c \in Ids
        PROVE  ctx'[c].refs <= (IF Making(c)' THEN 1 ELSE 0) + Weight(state', c)
    <2>0. /\ Weight(state, c) \in Nat /\ Weight(state', c) \in Nat /\ ctx[c].refs \in Nat
          /\ ctx[c].refs <= (IF Making(c) THEN 1 ELSE 0) + Weight(state, c)
          /\ Making(c) => Making(c)'
      BY <1>1, <1>3, HolderFacts
    <2>1. CASE c # b
      <3>1. ctx'[c] = ctx[c]
        <4>1. CASE b = NoId
          BY <1>1, <4>1 DEF TlsClean
        <4>2. CASE b # NoId
          BY <1>1, <2>1, <4>2 DEF TlsClean, TypeOK
        <4> QED
          BY <4>1, <4>2
      <3>2. Weight(state, c) <= Weight(state', c)
        BY <1>2, <2>1, WeightGrows
      <3> QED
        BY <2>0, <3>1, <3>2
    <2>2. CASE c = b
      <3>1. b # NoId
        BY <2>2, IdFacts
      <3>2. Weight(state, c) <= Weight(state', c) + n
        BY <1>2, <2>2, WeightLeaves
      <3>3. CASE ctx[c].refs <= n
        <4>1. ctx'[c] = NoCtx
          BY <1>1, <2>2, <3>1, <3>3 DEF TlsClean, TypeOK
        <4> QED
          BY <2>0, <4>1 DEF NoCtx
      <3>4. CASE ~(ctx[c].refs <= n)
        <4>1. ctx'[c].refs = ctx[c].refs - n
          <5>1. ctx' = [ctx EXCEPT ![c].refs = @ - n]
            BY <1>1, <2>2, <3>1, <3>4 DEF TlsClean
          <5>2. ctx \in [Ids -> CtxRec] /\ ctx[c] \in CtxRec
            BY <1>1 DEF TypeOK
          <5> HIDE DEF n
          <5> QED
            BY <5>1, <5>2 DEF CtxRec
        <4>2. n \in Nat
          OBVIOUS
        <4> HIDE DEF n, b
        <4> QED
          BY <2>0, <3>2, <4>1, <4>2
      <3> QED
        BY <3>3, <3>4
    <2> QED
      BY <2>1, <2>2
  <1> QED
    BY <1>4 DEF Counted

\* An import that fails gives back what its State has.
LEMMA CountEnds ==
    ASSUME IInv, Counted, faults = {}, job.at # "none", job.at \notin CtxSteps, ImportFails,
           hist'.leaked = hist.leaked
    PROVE  Counted'
  <1>1. \A c \in Ids : Making(c) => Making(c)'
    BY DEF Making
  <1> QED
    BY <1>1, JobFacts, CountFreed DEF ImportFails

\* The error paths of CTX_Init free an SSL_CTX nobody else holds.
LEMMA CountRefused ==
    ASSUME IInv, Counted, faults = {}, job.at \in CtxSteps,
           state' = [state EXCEPT ![job.st] = Dead], ctx' = [ctx EXCEPT ![job.st] = NoCtx],
           hist'.leaked = hist.leaked
    PROVE  Counted'
  <1>1. job.st \in Ids /\ TypeOK /\ state[job.st].ctx = NoId
    BY JobFacts, StepSets DEF IInv, Core, JobInv
  <1>2. \A s \in Ids \ {job.st} : state'[s] = state[s] /\ ctx'[s] = ctx[s]
    BY <1>1 DEF TypeOK
  <1>3. ctx'[job.st].refs = 0
    BY <1>1 DEF TypeOK, NoCtx
  <1>4. ASSUME NEW c \in Ids
        PROVE  ctx'[c].refs <= (IF Making(c)' THEN 1 ELSE 0) + Weight(state', c)
    <2>1. CASE c = job.st
      BY <1>3, <2>1, HolderFacts
    <2>2. CASE c # job.st
      <3>1. /\ ctx'[c].refs = ctx[c].refs /\ ctx[c].refs \in Nat
            /\ ctx[c].refs <= (IF Making(c) THEN 1 ELSE 0) + Weight(state, c)
        BY <1>1, <1>2, <2>2 DEF Counted, TypeOK, CtxRec
      <3>2. Weight(state, c) <= Weight(state', c)
        <4>1. \A s \in Ids : state[s].ctx = c => state'[s].ctx = c /\ (state[s].ssl => state'[s].ssl)
          BY <1>1, <1>2, IdFacts
        <4> QED
          BY <4>1, WeightGrows
      <3>3. Making(c) => Making(c)'
        BY <2>2 DEF Making
      <3>4. Weight(state, c) \in Nat /\ Weight(state', c) \in Nat
        BY HolderFacts
      <3> QED
        BY <3>1, <3>2, <3>3, <3>4
    <2> QED
      BY <2>1, <2>2
  <1> QED
    BY <1>4 DEF Counted

\* On the error path that does not, the reference is CTX_Init's still.
LEMMA CountLeaked ==
    ASSUME IInv, Counted, faults = {}, job.at \in CtxSteps, ImportFails,
           hist'.leaked = hist.leaked \cup {job.st}
    PROVE  Counted'
  <1>1. job.st \in Ids
    BY JobFacts, StepSets DEF IInv
  <1>2. \A c \in Ids : Making(c) => Making(c)'
    BY DEF Making
  <1> QED
    BY <1>1, <1>2, CountFreed DEF ImportFails

\* CTX_Init begins with the one reference it has itself.
LEMMA CountCreated == ASSUME IInv, Counted, CtxCreated PROVE Counted'
  <1>1. /\ faults = {} /\ job.at = "ctx" /\ job'.at = "ciphers" /\ job'.st = job.st /\ state' = state
        /\ ctx' = [ctx EXCEPT ![job.st] = [NoCtx EXCEPT !.refs = 1]] /\ hist' = hist
    BY DEF CtxCreated, At, Goto, IInv, TypeOK, JobRec
  <1>2. job.st \in Ids /\ TypeOK
    BY <1>1, JobFacts DEF IInv
  <1>3. ctx'[job.st].refs = 1 /\ \A c \in Ids \ {job.st} : ctx'[c] = ctx[c]
    BY <1>1, <1>2 DEF TypeOK, NoCtx
  <1>4. ASSUME NEW c \in Ids
        PROVE  ctx'[c].refs <= (IF Making(c)' THEN 1 ELSE 0) + Weight(state', c)
    <2>1. Weight(state, c) \in Nat /\ state' = state
      BY <1>1, HolderFacts
    <2>2. CASE c = job.st
      <3>1. Making(c)'
        BY <1>1, <2>2 DEF Making, CtxSteps
      <3> QED
        BY <1>3, <2>1, <2>2, <3>1
    <2>3. CASE c # job.st
      <3>1. Making(c) <=> Making(c)'
        BY <1>1, <2>3 DEF Making
      <3>2. ctx'[c] = ctx[c] /\ ctx[c].refs <= (IF Making(c) THEN 1 ELSE 0) + Weight(state, c)
        BY <1>1, <1>3, <2>1, <2>3 DEF Counted
      <3> QED
        BY <2>1, <3>1, <3>2
    <2> QED
      BY <2>2, <2>3
  <1> QED
    BY <1>4 DEF Counted

\* CTX_Init hands its reference over to the State.
LEMMA CountReady ==
    ASSUME IInv, Counted, At("ca"), NEW x, CtxReady(x), x.refs = ctx[job.st].refs
    PROVE  Counted'
  <1> DEFINE t == job.st
  <1>1. /\ faults = {} /\ job.at = "ca" /\ job'.at = "options"
        /\ ctx' = [ctx EXCEPT ![t] = x] /\ state' = [state EXCEPT ![t].ctx = t] /\ hist' = hist
    BY DEF CtxReady, At, Goto, IInv, TypeOK, JobRec
  <1>2. t \in Ids /\ TypeOK /\ state[t].ctx = NoId /\ NoId \notin Ids
    BY <1>1, JobFacts, StepSets, IdFacts DEF IInv, Core, JobInv
  <1>3. /\ \A s \in Ids \ {t} : state'[s] = state[s]
        /\ \A c \in Ids : ctx'[c].refs = ctx[c].refs
    BY <1>1, <1>2 DEF TypeOK
  <1>4. state'[t].ctx = t
    BY <1>1, <1>2 DEF TypeOK, StateRec
  <1>5. ASSUME NEW c \in Ids
        PROVE  ctx'[c].refs <= (IF Making(c)' THEN 1 ELSE 0) + Weight(state', c)
    <2>1. \A s \in Ids : state[s].ctx = c => state'[s].ctx = c /\ (state[s].ssl => state'[s].ssl)
      BY <1>2, <1>3
    <2>2. /\ ctx'[c].refs <= (IF Making(c) THEN 1 ELSE 0) + Weight(state, c) /\ ctx[c].refs \in Nat
          /\ Weight(state, c) \in Nat /\ Weight(state', c) \in Nat /\ ctx'[c].refs = ctx[c].refs
      BY <1>1, <1>2, <1>3, HolderFacts DEF Counted, TypeOK, CtxRec
    <2>3. CASE c = t
      <3>1. Weight(state, c) + 1 <= Weight(state', c)
        BY <1>2, <1>4, <2>1, <2>3, WeightJoins
      <3> QED
        BY <2>2, <3>1
    <2>4. CASE c # t
      <3>1. Making(c) => Making(c)'
        BY <1>1, <2>4 DEF Making
      <3>2. Weight(state, c) <= Weight(state', c)
        BY <2>1, WeightGrows
      <3> QED
        BY <2>2, <3>1, <3>2
    <2> QED
      BY <2>3, <2>4
  <1> QED
    BY <1>5 DEF Counted

\* SSL_new adds a reference, and an SSL object that holds it.
LEMMA CountSsl == ASSUME IInv, Counted, SslCreated PROVE Counted'
  <1> DEFINE t == job.st
             b == state[t].ctx
  <1>1. /\ faults = {} /\ job.at = "ssl" /\ job'.at = "name"
        /\ state' = [state EXCEPT ![t].ssl = TRUE] /\ ctx' = [ctx EXCEPT ![b].refs = @ + 1] /\ hist' = hist
    BY DEF SslCreated, At, Goto, IInv, TypeOK, JobRec
  <1>2. t \in Ids /\ TypeOK /\ ~state[t].ssl /\ b \in Ids /\ state[t] \in StateRec
    BY <1>1, JobFacts, StackedFacts, StepSets DEF IInv, Core, JobInv, LateSteps
  <1>3. /\ \A s \in Ids \ {t} : state'[s] = state[s]
        /\ state'[t].ssl /\ state'[t].ctx = b
    BY <1>1, <1>2 DEF TypeOK, StateRec
  <1>4. /\ \A c \in Ids : ctx[c].refs \in Nat
        /\ \A c \in Ids \ {b} : ctx'[c].refs = ctx[c].refs
        /\ ctx'[b].refs = ctx[b].refs + 1
    BY <1>1, <1>2 DEF TypeOK, CtxRec
  <1>5. ASSUME NEW c \in Ids
        PROVE  ctx'[c].refs <= (IF Making(c)' THEN 1 ELSE 0) + Weight(state', c)
    <2>1. \A s \in Ids : state[s].ctx = c => state'[s].ctx = c /\ (state[s].ssl => state'[s].ssl)
      BY <1>3
    <2>2. Making(c) <=> Making(c)'
      BY <1>1, StepSets DEF Making
    <2>3. /\ ctx[c].refs <= (IF Making(c) THEN 1 ELSE 0) + Weight(state, c) /\ ctx[c].refs \in Nat
          /\ Weight(state, c) \in Nat /\ Weight(state', c) \in Nat
      BY <1>1, <1>4, HolderFacts DEF Counted
    <2>4. CASE c = b
      <3>1. Weight(state, c) + 1 <= Weight(state', c)
        BY <1>2, <1>3, <2>1, <2>4, WeightJoins
      <3>2. ctx'[c].refs = ctx[c].refs + 1
        BY <1>4, <2>4
      <3> QED
        BY <2>2, <2>3, <3>1, <3>2
    <2>5. CASE c # b
      <3>1. Weight(state, c) <= Weight(state', c)
        BY <2>1, WeightGrows
      <3> QED
        BY <1>4, <2>2, <2>3, <2>5, <3>1
    <2> QED
      BY <2>4, <2>5
  <1> QED
    BY <1>5 DEF Counted

\* After a use of what is gone nothing is said.
LEMMA CountFault == ASSUME faults' # {} PROVE Counted'
  BY DEF Counted

LEMMA CountCtxInit == ASSUME IInv, Counted, CtxInit PROVE Counted'
  <1>1. CASE CtxFails
    BY <1>1, CountEnds, StepSets DEF CtxFails, ImportFails, At
  <1>2. CASE CtxCreated
    BY <1>2, CountCreated
  <1>3. CASE CtxRefused
    BY <1>3, CountRefused DEF CtxRefused, ImportFails
  <1>4. ASSUME NEW step \in CtxSteps, Goto(step), job.at \in CtxSteps, faults = {}, UNCHANGED <<state, ctx, hist>>
        PROVE  Counted'
    <2>1. job'.at = step /\ job'.st = job.st
      BY <1>4 DEF Goto, IInv, TypeOK, JobRec
    <2>2. \A c \in Ids : Making(c) => Making(c)'
      BY <1>4, <2>1 DEF Making
    <2> QED
      BY <1>4, <2>2, CountKept
  <1>5. CASE Configured
    BY <1>4, <1>5 DEF Configured, CtxSteps
  <1>6. CASE CertificateSet
    BY <1>4, <1>6 DEF CertificateSet, At, CtxSteps
  <1>7. CASE PrivateKeySet
    BY <1>4, <1>7 DEF PrivateKeySet, At, CtxSteps
  <1>8. CASE PasswordGiven
    <2>1. faults = {} /\ job.at \in CtxSteps /\ "check" \in CtxSteps
      BY <1>8 DEF PasswordGiven, At, CtxSteps
    <2>2. CASE Goto("check") /\ UNCHANGED <<state, ctx, hist>>
      BY <1>4, <2>1, <2>2
    <2>3. CASE /\ state' = [state EXCEPT ![job.st] = Dead]
               /\ ctx' = [ctx EXCEPT ![job.st] = NoCtx] /\ hist' = hist
      BY <2>1, <2>3, CountRefused
    <2> QED
      BY <1>8, <2>2, <2>3 DEF PasswordGiven
  <1>9. ASSUME At("ca")
        PROVE  ctx[job.st] \in CtxRec
               /\ (~ctx[job.st].unread => ctx[job.st].names \subseteq ctx[job.st].trusted)
    BY <1>9, JobFacts DEF At, IInv, ListedIsTrusted
  <1>10. CASE VerifyPathsSet
    BY <1>10, CountReady DEF VerifyPathsSet
  <1>11. CASE CAfileFromMemory
    <2>1. PICK file \in CaFiles : \E good \in 0..Len(file) :
            At("ca") /\ CtxReady(LoadClientCA(ctx[job.st], file, good))
      BY <1>11 DEF CAfileFromMemory
    <2>2. PICK good \in 0..Len(file) : At("ca") /\ CtxReady(LoadClientCA(ctx[job.st], file, good))
      BY <2>1
    <2>3. LoadClientCA(ctx[job.st], file, good).refs = ctx[job.st].refs
      BY <1>9, <2>2, LoadFacts, FALSE \in BOOLEAN
    <2> QED
      BY <2>2, <2>3, CountReady
  <1>12. CASE CAfileNative
    <2>1. PICK file \in CaFiles, loaded \in BOOLEAN : \E listed \in 0..Len(file) :
            /\ At("ca") /\ CtxReady(LoadVerifyFile(ctx[job.st], file, loaded, listed))
            /\ loaded => listed = Len(file)
      BY <1>12 DEF CAfileNative
    <2>2. PICK listed \in 0..Len(file) :
            /\ At("ca") /\ CtxReady(LoadVerifyFile(ctx[job.st], file, loaded, listed))
            /\ loaded => listed = Len(file)
      BY <2>1
    <2>3. LoadVerifyFile(ctx[job.st], file, loaded, listed).refs = ctx[job.st].refs
      BY <1>9, <2>2, LoadFacts
    <2> QED
      BY <2>2, <2>3, CountReady
  <1>13. CASE VerifyLocationsRefused
    <2>1. /\ faults = {} /\ job.at \in CtxSteps /\ ImportFails
          /\ hist'.leaked = hist.leaked \cup {job.st}
      BY <1>13, StepSets DEF VerifyLocationsRefused, At, IInv, TypeOK, HistRec
    <2> QED
      BY <2>1, CountLeaked
  <1> QED
    BY <1>1, <1>2, <1>3, <1>5, <1>6, <1>7, <1>8, <1>10, <1>11, <1>12, <1>13 DEF CtxInit

LEMMA CountImport == ASSUME IInv, Counted, ImportStep PROVE Counted'
  <1>1. CASE ModelRefused \/ StackRefused \/ LateFails
    <2>1. /\ faults = {} /\ job.at \in LateSteps \cup {"model", "stack"} /\ ImportFails
          /\ hist'.leaked = hist.leaked
      BY <1>1 DEF ModelRefused, StackRefused, LateFails, At, IInv, TypeOK, HistRec
    <2>2. job.at # "none" /\ job.at \notin CtxSteps
      BY <2>1 DEF LateSteps, CtxSteps
    <2> QED
      BY <2>1, <2>2, CountEnds
  <1>2. CASE ModelTaken
    <2>1. /\ faults = {} /\ job.at = "model" /\ ctx' = ctx
          /\ state' = [state EXCEPT ![job.st].ctx = state[Top(job.model)].ctx]
      BY <1>2 DEF ModelTaken, At
    <2>2. job.st \in Ids /\ TypeOK /\ state[job.st].ctx = NoId
      BY <2>1, JobFacts, StepSets DEF IInv, Core, JobInv
    <2>3. \A s \in Ids \ {job.st} : state'[s] = state[s]
      BY <2>1, <2>2 DEF TypeOK
    <2>4. \A c \in Ids : Making(c) => Making(c)'
      <3>1. hist'.leaked = hist.leaked
        BY <1>2 DEF ModelTaken, IInv, TypeOK, HistRec
      <3> QED
        BY <2>1, <3>1, StepSets DEF Making
    <2> QED
      BY <2>1, <2>2, <2>3, <2>4, CountKept
  <1>3. CASE ModelGone \/ ChannelGone \/ LayerDead
    BY <1>3, CountFault DEF ModelGone, ChannelGone, LayerDead, Fault
  <1>4. CASE CtxInit
    BY <1>4, CountCtxInit
  <1>5. CASE PreserveOptions \/ StackChannel \/ RestoreOptions \/ Prepared
    <2>1. /\ faults = {} /\ UNCHANGED <<state, ctx, hist>>
          /\ job.at \in LateSteps \cup {"options", "stack", "restore"}
      BY <1>5 DEF PreserveOptions, StackChannel, RestoreOptions, Prepared, At
    <2>2. \A c \in Ids : Making(c) => Making(c)'
      BY <2>1 DEF Making, LateSteps, CtxSteps
    <2> QED
      BY <2>1, <2>2, CountKept
  <1>6. CASE SslCreated
    BY <1>6, CountSsl
  <1>7. CASE Register
    <2> DEFINE s == job.st
               c == state[s].ctx
    <2>1. faults = {} /\ job.at = "register" /\ state' = state /\ hist' = hist
      BY <1>7 DEF Register, At
    <2>2. c \in Ids /\ TypeOK
      BY <2>1, StackedFacts, StepSets DEF IInv
    <2>3. \A d \in Ids : ctx'[d].refs = ctx[d].refs
      <3>1. CASE state[s].conf.server
        <4>1. ctx' = [ctx EXCEPT ![c] = [ctx[c] EXCEPT !.hello = s,
                                            !.alpn = IF state[s].conf.protos THEN s ELSE @]]
          BY <1>7, <2>2, <3>1 DEF Register, TypeOK
        <4> QED
          BY <2>2, <4>1 DEF TypeOK, CtxRec
      <3>2. CASE ~state[s].conf.server
        BY <1>7, <3>2 DEF Register
      <3> QED
        BY <3>1, <3>2
    <2>4. \A d \in Ids : Making(d) => Making(d)'
      BY <2>1, StepSets DEF Making
    <2> QED
      BY <2>1, <2>3, <2>4, CountKept
  <1> QED
    BY <1>1, <1>2, <1>3, <1>4, <1>5, <1>6, <1>7 DEF ImportStep

LEMMA CountCommand == ASSUME IInv, Counted, Command PROVE Counted'
  <1>1. PICK c \in Channels :
          (\E o \in Inputs : ImportObjCmd(c, o)) \/ UnimportObjCmd(c) \/ Close(c) \/ CloseLayer(c)
    BY DEF Command
  <1>2. CASE \E o \in Inputs : ImportObjCmd(c, o)
    <2> DEFINE s == hist.imports + 1
    <2>1. /\ faults = {} /\ job.at = "none" /\ ctx' = ctx /\ s \in Ids /\ s > hist.imports
          /\ \A t \in Ids \ {s} : state'[t] = state[t]
      BY <1>2, ImportAssumption DEF ImportObjCmd, Idle, IInv, TypeOK, HistRec, Ids
    <2>2. state[s].ctx = NoId
      BY <2>1 DEF IInv, Core, JobInv, NoState
    <2>3. \A d \in Ids : Making(d) => Making(d)'
      <3>1. hist'.leaked = hist.leaked
        BY <1>2 DEF ImportObjCmd, IInv, TypeOK, HistRec
      <3> QED
        BY <2>1, <3>1, StepSets DEF Making
    <2> HIDE DEF s
    <2> QED
      BY <2>1, <2>2, <2>3, CountKept
  <1>3. CASE Close(c)
    <2>1. faults = {} /\ UNCHANGED <<state, ctx, job>> /\ hist'.leaked = hist.leaked
      BY <1>3 DEF Close, Idle, IInv, TypeOK, HistRec
    <2>2. \A d \in Ids : Making(d) => Making(d)'
      BY <2>1 DEF Making
    <2> QED
      BY <2>1, <2>2, CountKept
  <1>4. CASE UnimportObjCmd(c) \/ CloseLayer(c)
    <2>1. faults = {} /\ Stacked(c) /\ RemoveTop(c) /\ job' = job /\ hist'.leaked = hist.leaked
      BY <1>4 DEF UnimportObjCmd, CloseLayer, RemoveTop, Idle, Closing, IInv, TypeOK, HistRec
    <2>2. Top(c) \in Ids
      BY <2>1, TopFacts DEF IInv
    <2>3. CASE state[Top(c)].life = "live"
      <3>1. TlsFree(Top(c))
        BY <2>1, <2>3 DEF RemoveTop
      <3>2. \A d \in Ids : Making(d) => Making(d)'
        BY <2>1 DEF Making
      <3> QED
        BY <2>1, <2>2, <3>1, <3>2, CountFreed
    <2>4. CASE state[Top(c)].life # "live"
      BY <2>1, <2>4, CountFault DEF RemoveTop, Fault
    <2> QED
      BY <2>3, <2>4
  <1> QED
    BY <1>1, <1>2, <1>3, <1>4

LEMMA CountInit == Init => Counted
  <1> SUFFICES ASSUME Init, NEW c \in Ids
               PROVE  ctx[c].refs <= (IF Making(c) THEN 1 ELSE 0) + Weight(state, c)
    BY DEF Counted
  <1>1. ctx[c].refs = 0
    BY DEF Init, ImportInit, NoCtx
  <1> QED
    BY <1>1, HolderFacts

LEMMA CountNext == IInv /\ Counted /\ [Next]_vars => Counted'
  <1> SUFFICES ASSUME IInv, Counted, [Next]_vars PROVE Counted'
    OBVIOUS
  <1>1. CASE ImportStep
    BY <1>1, CountImport
  <1>2. CASE Command
    BY <1>2, CountCommand
  <1>3. CASE Handshake \/ UNCHANGED vars
    <2>1. /\ UNCHANGED <<state, ctx, job>> /\ (faults' = {} => faults = {})
          /\ hist'.leaked = hist.leaked
      BY <1>3 DEF IInv, TypeOK, HistRec, Handshake, vars, Hello, ServerName, Protocol, PeerCertificates, Verify, NewSession,
         ErrorReported, HandshakeStart, ArgumentGone, ScriptCloses, Idle, InHandshake, Fault
    <2>2. \A d \in Ids : Making(d) => Making(d)'
      BY <2>1 DEF Making
    <2> QED
      BY <2>1, <2>2, CountKept, CountFault
  <1> QED
    BY <1>1, <1>2, <1>3 DEF Next, ImportNext

\* What CTX_Init, SSL_new, the error paths of ImportObjCmd and Tls_Clean do to the count
\* of an SSL_CTX comes out even: one that is there belongs to a State, to the import that
\* makes it or, before OpenSSL 3, to none, CTX_Init having left it when it could not load
\* the CA file or directory (tls.c:2304-2312); and as long as none is shared the count is
\* exactly one for the State, or for CTX_Init, and one for the SSL object.
THEOREM Held == Spec => []ContextsHeld
  <1>1. IInv /\ Counted => ContextsHeld
    <2> SUFFICES ASSUME IInv, Counted, faults = {}, NEW c \in Ids
                 PROVE  /\ ctx[c].refs > 0 => Making(c) \/ \E s \in Ids : state[s].ctx = c
                        /\ ~hist.model =>
                             ctx[c].refs = (IF Making(c) \/ state[c].ctx = c THEN 1 ELSE 0)
                                         + (IF state[c].ctx = c /\ state[c].ssl THEN 1 ELSE 0)
      <3>1. ASSUME IInv, faults = {} PROVE \A d \in Ids : d \in hist.leaked => ~hist.openssl3
        BY <3>1 DEF IInv, Core, CtxInv
      <3>2. ASSUME IInv, faults = {}
            PROVE  \A d \in Ids : Making(d) <=> \/ job.st = d /\ job.at \in CtxSteps
                                                \/ ~hist.openssl3 /\ d \in hist.leaked
        BY <3>1, <3>2 DEF Making
      <3> QED
        BY <3>2 DEF ContextsHeld
    <2>1. ASSUME ctx[c].refs > 0, ~Making(c) PROVE \E s \in Ids : state[s].ctx = c
      <3>1. ctx[c].refs <= Weight(state, c) /\ ctx[c].refs \in Nat /\ Weight(state, c) \in Nat
        BY <2>1, HolderFacts DEF Counted, IInv, TypeOK, CtxRec
      <3>2. Weight(state, c) # 0
        BY <2>1, <3>1
      <3>3. Holders(state, c) # {}
        BY <3>2, HolderFacts, FS_EmptySet DEF Weight, Secure
      <3> QED
        BY <3>3 DEF Holders
    <2>2. ASSUME ~hist.model
          PROVE  ctx[c].refs = (IF Making(c) \/ state[c].ctx = c THEN 1 ELSE 0)
                             + (IF state[c].ctx = c /\ state[c].ssl THEN 1 ELSE 0)
      <3>1. /\ state[c].ctx \in {NoId, c} /\ c # NoId /\ (state[c].ssl => state[c].ctx # NoId)
            /\ ctx[c].refs = IF job.st = c /\ job.at \in CtxSteps THEN 1
                             ELSE IF state[c].ctx = NoId THEN (IF c \in hist.leaked THEN 1 ELSE 0)
                             ELSE IF state[c].ssl THEN 2 ELSE 1
        BY <2>2, IdFacts DEF IInv, Core, CtxInv
      <3>2. job.st = c /\ job.at \in CtxSteps => state[c].ctx = NoId
        BY JobFacts, StepSets DEF IInv, Core, JobInv
      <3>3. c \in hist.leaked => state[c].ctx = NoId
        BY DEF IInv, Core, CtxInv
      <3> QED
        BY <3>1, <3>2, <3>3 DEF Making
    <2> QED
      BY <2>1, <2>2
  <1>2. Spec => []Counted
    BY IInvAlways, CountInit, CountNext, PTL DEF Spec
  <1> QED
    BY IInvAlways, <1>1, <1>2, PTL

=============================================================================
