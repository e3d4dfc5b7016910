# TclTLS: models, checks and proofs

This directory is a TLA+ development of TclTLS, the Tcl extension that puts
TLS on a Tcl channel. It models the channel driver of `generic/tlsIO.c`, the
BIO of `generic/tlsBIO.c` below it and the commands that drive them, the
imports, `SSL_CTX` objects and callbacks of `generic/tls.c`, and the transforms of
`generic/tlsEncrypt.c` and `generic/tlsDigest.c`; it checks them with TLC and proves every safety property of the runs, and the
refinement, with TLAPS for every value of the constants. `PROJECT.json` is the machine-readable index: components, runs,
mutants, the map from definitions to source lines, findings, hazards and
theorems.

## 1. The system

TclTLS is a *stacked channel driver*. `tls::import` stacks a TLS channel on a
socket; from then on three parties call into the extension, all in one thread:

| Caller | What it calls |
|---|---|
| Tcl's generic I/O layer (for `read`, `puts`, `flush`, `close`, `fileevent`, `fconfigure`) | the driver procedures of `tlsIO.c` |
| the event loop (sockets and timers) | `TlsNotifyProc`, `TlsChannelHandlerTimer`; both end in `Tcl_NotifyChannel`, which runs scripts |
| OpenSSL | the BIO of `tlsBIO.c`, which reads and writes the channel below, and the callbacks of `tls.c`, which run scripts |

There is no parallelism, and still everything interleaves: a handler is a
script, a script may run the event loop, and each event may re-enter the driver
while the first handler is on the C stack.

### Inventory

| Component | State | Operations | What is hard | What makes it correct |
|---|---|---|---|---|
| **Channel driver** (`tlsIO.c`, `tlsInt.h`) | `State`: flags, `want`, `watchMask`, `timer`, `Tcl_Preserve` count, SSL object | block mode, close, handshake (`Tls_WaitForConnect`), input, output, watch, timer, notify | re-entered handlers; a State freed under a running timer procedure; data left inside OpenSSL with no event; retries; errors that look alike | freed once and never too early; no data before the handshake; every byte once; EOF only at the end; failures are final; everything sent is delivered |
| **BIO** (`tlsBIO.c`) | retry flags, `BIO_FLAGS_IN_EOF` | `BioInput`, `BioOutput`, `BioCtrl`, creation | "nothing yet", "end" and "broken" all come as 0 or -1 | EAGAIN is never taken for EOF |
| **`tls::handshake`, `tls::unimport`** (`tls.c`) | none of their own | force the handshake; unstack the layer | non-blocking results; output queued for a background flush | the result tells the truth; nothing leaves the TLS layer unencrypted |
| **`tls::import`** (`tls.c`) | stack of channels, `State`, `SSL_CTX` | import, `-model`, error paths | a failure after the channel was stacked; a context shared without its own reference | one owner for each `State` and `SSL_CTX` |
| **`CTX_Init`** (`tls.c`) | a new `SSL_CTX` | protocols, certificates, ciphers, DH, CA store | one error path per step; a script asked for the password; a CA file loaded in part | a failed set-up leaves nothing behind; no CA is listed that is not trusted |
| **Callbacks** (`tls.c`) | `callback`, `password`, `vcmd`, `err` of the State | info, message, verify, keylog, password, session, ALPN, SNI, client hello | scripts that run in the middle of an SSL call; arguments kept in a shared `SSL_CTX`; answers of a script that are 0, 1, 2, an error or no number; lengths in a client hello | callbacks find a State that is there; a refusal ends the handshake; a required certificate is asked for and valid |
| **Encryption transform** (`tlsEncrypt.c`) | `EncryptState`: cipher context, timer, EOF flag | stacked channel, instance command, one-shot, file | block ciphers that hold data back; ignored results of writes | the channel carries exactly what was written |
| **Digest transform** (`tlsDigest.c`) | digest context, timer, EOF flag | stacked channel, instance command, one-shot, file | result delivered at EOF or close, once | the digest is that of all the data |
| **Library setup** (`tls.c`, `tlsBIO.c`) | static flag, `BioMethods` | load, exit handler | shared by all threads without a lock | set up once, torn down after the last use |
| **Information, certificates, KDF, random** (`tlsInfo.c`, `tlsX509.c`, `tlsKDF.c`, `tlsRand.c`, `tlsUtil.c`) | none | format what OpenSSL knows | nothing beyond wording | not modelled |
| **Tcl library** (`library/tls.tcl`) | defaults, counters | `tls::socket`, accept, default callbacks | an import that fails after the socket was opened | no socket is left behind |

## 2. Modules

```
TlsBio  <-  TlsEngine  <-  TlsDriver  <-  TlsChannel  <-  TlsClaims  <-  MCTlsChannel
                               ^               |
                        TlsDriverProofs    INSTANCE TlsStream
                               ^
                        TlsChannelProofs  (also EXTENDS TlsChannel)
                               ^
                        TlsStreamProofs

TlsCallbacks  <-  TlsImport  <-  TlsSession  <-  TlsSessionClaims  <-  MCTlsSession
                                     ^
                              TlsSessionProofs

TlsCipher  <-  TlsEncrypt, TlsEncryptOps
    ^               ^            ^
TlsCipherProofs <- TlsEncryptProofs, TlsEncryptOpsProofs

TlsDigest  <-  TlsDigestProofs
```

* **TlsBio**: what `BioInput` and `BioOutput` make of the answers of
  `Tcl_ReadRaw` and `Tcl_WriteRaw`. The channel below is a record `wire`: TLS
  records that arrived, the state of the peer's end, room in the send buffer.
* **TlsEngine** (external): OpenSSL as the driver sees it, derived from the
  calls in `tlsIO.c` and `tls.c`: a handshake of two flights, `SSL_read` with
  what is decrypted but unread, `SSL_write` with a record kept for the retry,
  `SSL_shutdown`, and the `SSL_get_error` code of each.
* **TlsDriver**: one operator per procedure of `tlsIO.c`, from the State (and
  SSL object and wire) before to the one after, with the C result and errno. The
  order of tests is that of the code. Its operators named in `PROJECT.json` under
  `mutants` with the comment *Mutant* are plausible bugs; no specification uses
  them.
* **TlsChannel**: the state machine. Tcl's generic layer is modelled from how
  the driver depends on it: buffers, `FlushChannel` with its background flush,
  `UpdateInterest`, its own timer, `Tcl_NotifyChannel` and the stack of running
  handlers (`frames`).
* **TlsStream**: the abstract specification, which TlsChannel implements
  (`TlsStreamProofs`): a secured, lossless stream in each
  direction that is established once, may end or fail, and never comes back.
* **TlsClaims**: statements of comments and documentation that the code does
  not keep (section 5).
* **TlsCallbacks**: what each callback of `tls.c` answers OpenSSL, as an operator
  of the State it gets and of what the script returns, down to the arithmetic of
  `HelloCallback` on the server name extension.
* **TlsImport**: `ImportObjCmd` and `CTX_Init`, a step at a time with every early
  return, `tls::unimport` and the close, over a stack of layers for each channel,
  the State structures and the `SSL_CTX` objects with their reference counts.
* **TlsSession**: TlsImport composed with handshakes on the imported channels,
  which call the callbacks with the arguments the imports registered.
* **TlsSessionClaims**: what comments and documentation say of them (section 5).

* **TlsCipher**: the cipher context as the code around it depends on it. A unit
  stands for itself in clear and in cipher text. `EncryptUpdate` hands back whole
  blocks and keeps the rest, and the last full block too when padding is to be
  taken off; `EncryptFinalize` pads or unpads the last block, or fails. The
  reference is what a message as a whole becomes: `Valid`, `Transform`.
* **TlsEncrypt**: the stacked channel of `tls::encrypt` and `tls::decrypt`, on a
  channel open for reading or for writing, with the flush of the generic layer.
* **TlsEncryptOps**: the forms without a channel: `-data`, `-command`, `-infile`.
* **TlsDigest**: the four forms of `tls::digest`, `md`, `hmac` and `cmac`. A
  digest stands for the sequence of units it was computed from, and the context
  counts its finalisations: the channel may be asked for the digest at each read
  of the end and at the close.

The TLS channel first:

| State variable | In the code |
|---|---|
| `drv.flags` | `statePtr->flags`: `TLS_TCL_INIT`, `_ASYNC`, `_FATAL_ERROR`, `_EOF`, `_CLOSED` (`TLS_TCL_SERVER` is the constant `Server`) |
| `drv.want`, `drv.watch`, `drv.timer` | `want`, `watchMask`, `timer` |
| `drv.refs`, `drv.life` | the `Tcl_Preserve` count and what `Tcl_EventuallyFree` decided |
| `ssl` | the SSL object and the f_ssl BIO |
| `wire` | the socket channel below, the network and the peer |
| `gen` | the `ChannelState` of Tcl: buffers, interest, flush flags |
| `frames` | the nested `Tcl_NotifyChannel` calls |
| `hist` | history only: what was sent, received, written, dropped |

| Action | In the code |
|---|---|
| `ReadBuffered`, `ReadDriver` | `read`: from Tcl's buffer, or `TlsInputProc`; then `UpdateInterest` |
| `Write`, `FlushUnit`, `FlushEmpty` | `puts` and `flush`; `TlsOutputProc` once per unit |
| `Fileevent`, `Fconfigure` | `TlsWatchProc`, `TlsBlockModeProc` |
| `Handshake` | `HandshakeObjCmd` |
| `Close`, `Unimport` | `TlsCloseProc`, for `close` and `UnimportObjCmd` |
| `SocketEvent` | an event below: `TlsNotifyProc`, then the handlers |
| `TimerFire`, `Return` | `TlsChannelHandlerTimer` up to `Tcl_NotifyChannel`, and from its return |
| `GenericTimer` | Tcl's `ChannelTimerProc` |
| `PeerHandshake`, `PeerData`, `PeerEnds`, `Disconnect`, `Drain` | the peer and the network |

`FlushUnit` is one call of the driver, and the loop of `FlushChannel` that
surrounds it is not interrupted: while `gen.flush` holds no other action of the
process is enabled, only the environment.

Abstractions. Application data is counted in units; the peer's records carry
`RecordUnits` of them, so that one `read` may leave a rest. A handshake has one
flight each way. A call on a blocking channel that has to wait for the channel below
does so by not taking the step. The handshake is different: `Tls_WaitForConnect` tries
it ten times more, 50 ms apart, and then comes back with 0 and EAGAIN on a blocking
channel too (tlsIO.c:178, 258-264, 295-311). The tries are not counted: each leaves
what a call of its own that came back with 0 leaves, so that a call with several tries is
several calls of the model, of which only the last is answered otherwise. Certificates,
ciphers and alerts are not told apart: a record that makes the library fail is `"bad"`. The
zero-length write of `TlsOutputProc`, the `TLS_TCL_CALLBACK` tests (nothing sets that
flag) and the `SSL_get_error` codes no callback of `tls.c` can produce are left out.

Imports and their callbacks:

| Variable or action | In the code |
|---|---|
| `chan` | the channel: open or not, the States of its TLS layers from the bottom up, its options |
| `state` | the `State` structures: live or freed, `ctx`, whether `ssl` was made, and what the callbacks read (`conf`) |
| `ctx` | the `SSL_CTX` objects: OpenSSL's count, the arguments of the callbacks, CA certificates trusted and listed |
| `job` | the local variables of the `ImportObjCmd` that runs: where it is, `chan`, `model`, `statePtr`, the options put away |
| `hs` | a handshake: the callback it is at, the certificates left to look at, what scripts said |
| `faults` | kinds of structures that were used after they were gone; nothing is claimed of what follows |
| `hist` | history only |
| `ImportObjCmd`, `ModelTaken`, `ModelRefused`, `ModelGone` | from the options to the `SSL_CTX` of `-model` |
| `CtxCreated` .. `CtxReady`, `CtxRefused`, `CtxFails` | `CTX_Init` and its error returns |
| `VerifyPathsSet`, `VerifyLocationsRefused` | the CA file and directory; before OpenSSL 3, the return when they cannot be loaded |
| `PasswordGiven` | `PasswordCallback`; before it, any command of a script may run |
| `LoadClientCA`, `LoadVerifyFile` | the two ways to load a CA file (`TlsLoadClientCAFileFromMemory`; OpenSSL) |
| `PreserveOptions`, `StackChannel`, `StackRefused`, `RestoreOptions` | options put away, `Tcl_StackChannel`, options put back |
| `SslCreated`, `Prepared`, `LateFails`, `Register` | `SSL_new`, the settings after it and their seven error returns, the callbacks |
| `UnimportObjCmd`, `Close`, `CloseLayer`, `TlsClean` | the layer and the State that go |
| `HandshakeStart` .. `ErrorReported` | the callbacks, in the order OpenSSL makes them |
| `ArgumentGone`, `ScriptCloses`, `ChannelGone`, `LayerDead`, `OverReleased` | where a structure is used that is gone |

Abstractions. A State or an `SSL_CTX` is a number, that of the import that made
it, and is never used again. A certificate is valid or not, a certificate of a CA
a name. The options of a channel are a script's or binary mode, and the blocking
mode. A handshake is complete when its last callback has answered; what moves on
the wire is the business of TlsChannel, and `TlsCloseProc` with output pending
too. `Builds` says which of the two branches of `CTX_Init` was compiled. Between two callbacks any command may run, since a handshake returns to the
event loop; a script that runs *inside* a callback and closes its own connection
ends in a fault (`ScriptCloses`), since `EvalCallback` has let go of the State when
the driver goes on to use it. Left out are renegotiation, post-handshake
authentication, NPN, the key log file, the arguments the scripts get, and an import
that the password script makes inside the import that called it: the script may run
`close`, `tls::unimport` and handshakes there, and no second `tls::import`.

The encryption modules:

| Variable or action | In the code |
|---|---|
| `state` | the `EncryptState`: direction, context, `CHAN_EOF`, and whether `EncryptStateFree` was called |
| `gen`, `queue` | the generic layer: flush flags, what the driver has not taken |
| `input`, `pos`, `out` | the message, how much of it was given to the transform, what came out at the other end |
| `ReadData`, `ReadEnd` | `EncryptInputProc`, with data and at the end of the channel below |
| `FlushChannel` | one offer of the queue to `EncryptOutputProc` |
| `Close`, `FlushDone` | `EncryptCloseProc`, at once or after the flush |
| `EncryptDataHandler` | the `-data` form |
| `CommandUpdate`, `CommandFinalize` | `EncryptInstanceObjCmd` |
| `FileUpdate`, `FileEnd`, `FileFails` | a turn of the loop of `EncryptFileHandler`, what follows it, its error exits |

What `EncryptFileHandler` writes may be taken in part or not at all (`HandOut`), which
it does not look at; `short` remembers that it was.

Not in them: a channel open in both directions (its two streams share one
context), updates that fail, and the watch, notify, timer and option procedures
of `tlsEncrypt.c`. Nor the updates of an instance command after a finalize that failed
on a whole block (`InBlock`): OpenSSL then keeps that block transformed, and what it
makes of more data is its own affair.

The digest module:

| Variable or action | In the code |
|---|---|
| `state`, `ctx` | the `DigestState`: mode, `CHAN_EOF`, whether it was freed; its context |
| `source`, `broken` | what the value, the file or the channel below still has; a file that cannot be read |
| `given`, `out` | what was given to the digest; the digests returned, read or written |
| `DigestOutputProc`, `InputData`, `InputEof`, `DigestCloseProc` | the driver procedures; `DigestInputProc` with data and at the end |
| `DigestDataHandler`, `CommandUpdate`, `CommandFinalize`, `DigestCommandDeleteHandler` | the `-data` form and the instance command |
| `FileRead`, `FileEnd`, `FileBreaks` | a turn of the loop of `DigestFileHandler`, what follows it (with a `Tcl_Close` that may fail), a file that fails |

A state is there once it is initialised: what fails before is not modelled
(there `DigestCommandHandler` returns without `DigestStateFree`, tlsDigest.c:996).
The channel below does not grow after its end.

## 3. Runs

The runs of the TLS channel use `MCTlsChannel`, those of imports `MCTlsSession`, with
the channels, which are interchangeable, as a symmetry set; the runs of the encryption
and digest modules use the modules themselves, since their constants are small
sets. All
switch deadlock checking off, because a channel that is closed and a peer that
is done may really stop.

| Run | Checks | Instance | States |
|---|---|---|---|
| `client` | `TypeOK`, `RefsBalanced`, `StateLifetime`, `HandshakeOneMeansDone`, `DataAfterHandshake`, `OutputExactlyOnce`, `EofJustified`, `FailureIsFinal`, `ImplementsStream` | client, both blocking modes, every command also from inside two nested handlers, two units each way, send buffer of one record | 4.1 M |
| `server` | `ImplementsStream` | server, OpenSSL 1.1 errors, hello callback with retry, every interest | 614 k |
| `liveness` | `Delivery`, `ClosedIsFreed` | two records of two units, a reader for each event, a write that may be queued, `close` or `unimport` at any point | 139 k |
| `import` | `TypeOK`, `ContextsHeld`, `LayersOwned`, `OptionsKept`, `FaultsHaveCauses`, `ArgumentsLast`, `ListedIsTrusted`, `Trusted`, `ScriptsRespected`, `NameInHello` | two channels, both OpenSSL builds, two imports with eleven sets of options, chains of two certificates, a CA file of two, eight server name extensions | 2.9 M |
| `encrypt_channel` | `TypeOK`, `Conserved`, `Complete`, `FinalisedOnce`, `CloseCompletes` | both directions, stream ciphers and blocks of 2 and 3, messages of up to 5 units | 29 k |
| `encrypt_ops` | `TypeOK`, `WholeMessage`, `DecryptsBack`, `NothingLost` | the three forms, messages of up to 6 units in pieces of 1, 2 or 4, every short write | 7.0 k |
| `digest` | `TypeOK`, `OneDigestOfAll`, `Delivered`, `FileEnds` | the four forms, the three modes of a channel, up to 6 units in pieces of 1 to 3 | 0.7 k |

Why the bounds are enough. Two units in a record are what it takes to leave one
inside OpenSSL; two records are what it takes to need the timer a second time
(`liveness`). A send buffer of one record is filled by one write or by the
handshake's own flight, so every later write blocks. Two nested handlers are
what it takes to have the State closed by an inner handler under an outer one.
Two imports are what it takes to share an `SSL_CTX`, to stack a layer on a layer
and to have the callbacks of one import redirected by another; two channels, to
close a channel other than the one being imported. Chains of two certificates
have a first that is accepted and a second that is not. The extensions are a
well-formed one, one with a second entry, and one for each way to be malformed.
Six units are three blocks of two, five are a block of three and a rest, so that
a message has a first and a last block, each cut in every way; cipher texts
include every cut-off one. `MaxFinals` lets a script call `finalize` once more
after a failure. `encrypt_channel` has writes smaller than a block, which end in
EAGAIN and make the event loop flush (`CloseCompletes`), and larger ones.
`Conserved` and `Complete` speak of a writer until it answers EAGAIN, since what
happens then is `claim_encrypt_eagain`, over a channel below that takes
everything (`Reliable`). Nothing restricts a reader. A digest needs two pieces,
an end read twice and a close after it; `digest` has six units, so that in mode
`rw` reads and writes mix.
The theorems of section 4 have none of these bounds.

Every property is checked against a mutant of the code it is about
(`PROJECT.json`, `mutants`): a timer that keeps its reference, a close that
leaves the timer, an EAGAIN reported as 0, a kept record reported as written, a
test of a flag that is missing.

**Fairness** (`FairSpec`). Strong fairness of socket events, the driver's timer
and Tcl's timer: `Tcl_DoOneEvent` looks at all of them in every round, but each
may be switched off and on again by `TlsWatchProc` in between, so weak fairness
would ask for nothing. Weak fairness of the return of a handler, of
`FlushChannel` (a loop) and of the network taking what is in the send buffer. Of the
calls that read, write or shake hands fairness is assumed on a non-blocking channel only
(`NonBlocked`): on a blocking one the channel below may keep the call waiting. In
`liveness` a readable handler does read (`Eager`): that is the script's duty.
Nothing is assumed of the peer. The `FairSpec` of TlsEncrypt has weak fairness
of `FlushChannel`, again a loop, and of the event loop serving a channel below
that is writable; that of TlsDigest weak fairness of the loop of
`DigestFileHandler`. `FileEnds` excepts a file that cannot be read any more: the
loop does not look at the result of a read, so that it then runs for ever
(tlsDigest.c:1116).

`ClosedIsFreed` has an exception that is a property of the code: output that is
still queued when the handshake cannot complete, or when `TLS_TCL_FATAL_ERROR`
or `TLS_TCL_EOF` is set, keeps the channel for ever, because `TlsWatchProc`
gives up its interest in the socket (tlsIO.c:1131) or `TlsOutputProc` answers 0.

## 4. Proofs

`TlsDriverProofs` has the facts about the operators of TlsBio, TlsEngine and
TlsDriver; `TlsChannelProofs` the theorems about `Spec`:

| Theorem | Statement |
|---|---|
| `Invariant` | `Spec => []IInv` |
| `TypeCorrect` | `Spec => []TypeOK` |
| `ReferencesBalanced` | `Spec => []RefsBalanced` |
| `LifetimeSafe` | `Spec => []StateLifetime` |
| `NoEarlyData` | `Spec => []DataAfterHandshake` |
| `WrittenOnce` | `Spec => []OutputExactlyOnce` |
| `FailureKept` | `Spec => FailureIsFinal` |

and `TlsStreamProofs` those that need more than that invariant:

| Theorem | Statement |
|---|---|
| `Implements` | `Spec => ImplementsStream` |
| `EofIsJustified` | `Spec => []EofJustified` |
| `HandshakeTruthful` | `Spec => []HandshakeOneMeansDone` |

They assume `ChannelAssumption` and `EngineAssumption` only: the types of the
constants, with at least one unit per record, one record of send buffer and one
blocking mode.

The inductive invariant `IInv` is the type invariant together with

* `Held`: the references are one for a pending timer plus one for each timer
  handler on the stack. On its own this is not inductive: a close has to know
  whether the timer is pending, and a return whether its reference is the last;
* `Alive`: a State that is closing has no timer and at least one such handler,
  and a freed one has neither;
* `InUse`: the generic layer calls the driver only while the State is live. It
  is what makes `Watched` after a command, and the close at the end of a flush,
  safe;
* `Secured` and `DataMoved`: without `TLS_TCL_INIT` the handshake is complete,
  and data has moved only then;
* `OutputExactlyOnce`, which is inductive given the types.

Each driver procedure has lemmas for the parts it can disturb; each action has
one lemma (`ReadBufferedStep` .. `ReturnStep`), which also shows `FinalStep`;
`NextStep` puts them together. The count of timer handlers (`TimersAppend`,
`TimersPop`) is the only reasoning about cardinalities.

`Implements` says that TlsChannel is a refinement of TlsStream. Its invariant
`StreamInv` adds to `IInv` what the abstract stream promises and `IInv` does not
know:

* `Arrived`: what the script received, what waits in Tcl's buffer, what OpenSSL has
  decrypted and what the records on the socket hold is no more than the peer sent.
  Reading a record moves units between these places, so that the count of the data
  records in a sequence is followed through `Head`, `Tail` and `Append`
  (`PendingTail`, `PendingAppend`);
* `Unfinished`: while `TLS_TCL_INIT` is set the handshake is not complete, and
  `TLS_TCL_EOF` without `TLS_TCL_FATAL_ERROR` means that close_notify was received, by
  the side whose turn it was to receive. Without that, a handshake could complete
  after the stream had ended;
* `Settled`, what a clean end means. `Orderly`: close_notify is the last record the
  peer sends, and a session that received it has nothing left to read. `EndSeen`:
  `TLS_TCL_EOF` without `TLS_TCL_FATAL_ERROR` is set only when the peer closed the
  session or the connection ended. `Accounted`: `Arrived` with an equality, as long as
  the script has the channel and the session is `Intact`, that is, close_notify was
  received or still can be. Without that condition it is false: the library drops the
  records after a failure, and a reset takes away what was not read. `Fresh` (nothing
  is decrypted before the handshake is complete) is what it takes to show that
  `Accounted` survives the handshake's own reading.

Each action has a lemma that says which abstract step it is (`ReadDriverMaps`:
`Input` or `Stop`; `FlushTakenMaps`: `Output`; `CloseMaps`: `Close`), and the other
steps leave the stream as it is or end it. `HandshakeTruthful` needs the refinement
too: `TLS_TCL_INIT`, once cleared, stays so. It holds for clients and servers alike, on
a non-blocking channel; what a blocking one is told is in section 5.

`EofIsJustified` follows from `StreamInv` and `EofKnown`: a read that reported an end
left one of the two flags set. What each call does to the input is `Carried` (for the
session and the socket) and `EndKept` (for the flags), proved first of the handshake,
`SSL_read` and `SSL_write`, then of `Tls_WaitForConnect`, `TlsInputProc`,
`TlsOutputProc` and `TlsNotifyProc`; `CarriedOn` puts one call after another.

`TlsCipherProofs` has the lemmas about the cipher context, of which
`UpdateConserves` is the important one: what an update hands back, followed by
what it keeps, is what was kept before followed by the data, and what is kept is
at most a block. On them rest

| Theorem | Statement |
|---|---|
| `TlsEncryptProofs!TypeCorrect` | `Spec => []TypeOK` |
| `TlsEncryptProofs!ContextFinalisedOnce` | `Spec => []FinalisedOnce` |
| `TlsEncryptProofs!UnitsConserved` | `Spec => [](state.mode = "r" \/ Reliable => Conserved)` |
| `TlsEncryptProofs!MessageCompleted` | `Spec => [](state.mode = "r" \/ Reliable => Complete)` |
| `TlsEncryptOpsProofs!TypeCorrect` | `Spec => []TypeOK` |
| `TlsEncryptOpsProofs!UpdatesLoseNothing` | `Spec => []NothingLost` |
| `TlsEncryptOpsProofs!WholeMessageTransformed` | `Spec => []WholeMessage` |
| `TlsEncryptOpsProofs!EncryptedDecryptsBack` | `Spec => []DecryptsBack` |

from `EncryptAssumption` and `OpsAssumption`, the types of the constants: for
every block size, message, cut of it into pieces, and channel below. That a
context is finalised once needs `Once`: `CHAN_EOF` is set with the finalisation,
and a channel is closed only when nothing of it is queued or scheduled, so that
no flush comes after the close. `UnitsConserved` needs `Kept`, which
says it without the condition that the channel is live, and that nothing is ever
queued on a channel that is read; each of its steps regroups a concatenation.

`MessageCompleted` and `WholeMessageTransformed` say more than that nothing is lost:
that what comes out is the transform of the message *as a whole*, wherever it was cut.
For that the position of the last block matters. `Boundary` in TlsEncryptProofs, and
`MadeOf` in TlsEncryptOpsProofs, say that what was handed
back so far is a whole number of blocks, and that the context keeps less than one, or,
when padding is to be taken off, at least one unit and at most a block of what it was
given (`Late`, `Multiple` and `Aligned` in `TlsCipherProofs`); `CipherText`, that
padding is only taken off where it was put, at the end of the message (`PaddedAtEnd`).
Then `EncryptFinalize` has exactly the units `Transform` pads or unpads. In
TlsEncryptOps `Untouched` adds that the `-data` form starts with an empty context, and
`MadeOf` speaks of what the context `made` and not of what there is of it in `out`: the
two are equal, or, after a short write of the `-infile` form, `out` is shorter for good
(`HandOutFacts`), so that its success is exactly less than the transform; in
TlsEncrypt `Ended` adds that a reader that reported EOF has given all of the message to the context and
passed on what `EncryptFinalize` returned (`EofRead`, `Passed`). The condition on
writers is that of the run: over a channel below that does not take everything,
`claim_encrypt_eagain` shows that it fails.

`WholeMessage` compares the commands with `Transform`, so a mistake that both make, such
as padding that only one of the two types of context uses, would pass.
`EncryptedDecryptsBack` does not rest on that comparison alone: what an encryption
succeeded with, in whatever pieces, as long as the output file took all it was given, is given to a fresh context that decrypts, and the
message comes back. `TurnedBack` is the lemma about the padding, `AtOnce` the one about
the `-data` form; `InputClear` adds to the invariant that clear text contains no
padding, which is what tells the two apart.

`TlsDigestProofs`, from `DigestAssumption`, the types of the constants:

| Theorem | Statement |
|---|---|
| `TypeCorrect` | `Spec => []TypeOK` |
| `OneDigest` | `Spec => []OneDigestOfAll` |
| `DigestDelivered` | `Spec => []Delivered` |

Neither property is inductive. `Pending` adds that a context that was not
finalised holds what was given and nothing was delivered yet, and that it is so
as long as a command runs or `CHAN_EOF` is not set; `EofMarked`, that with
`CHAN_EOF` the digest was delivered and the channel below has nothing left, so
that only the writes of a channel open in both directions come after it.

`TlsSessionProofs`, from `ImportAssumption` and `SessionAssumption`: for any
channels, number of imports, options, CA files, client hellos and chains,

| Theorem | Statement |
|---|---|
| `SessionTypes` | `Spec => []TypeOK` |
| `Faults` | `Spec => []FaultsHaveCauses` |
| `Held` | `Spec => []ContextsHeld` |
| `Owned` | `Spec => []LayersOwned` |
| `Options` | `Spec => []OptionsKept` |
| `Arguments` | `Spec => []ArgumentsLast` |
| `Listed` | `Spec => []ListedIsTrusted` |
| `TrustedChains` | `Spec => []Trusted` |
| `Scripts` | `Spec => []ScriptsRespected` |
| `Names` | `Spec => []NameInHello` |

Their invariant `IInv` has two halves. What must hold whatever was used after it
was gone: the types, `FaultsHaveCauses`, the options a State was given agree with
its verify mode (`ConfInv`), a handshake past a certificate remembers it
(`VerdictInv`), nothing was turned down (`~hs.rejected`), options put away or in
place (`OptionsInv`), the name and the extension it came from (`NameInv`) and
`ListedIsTrusted`. And `Core`, which holds as long as nothing was: each step of an
import has the State, the channel and the context it needs (`JobInv`), no State is
in two layers and each live one has a place (`LayersInv`), contexts that are not
shared have the count of their one holder (`CtxInv`), and a handshake belongs to a
live layer (`HandshakeInv`). `FaultsHaveCauses` is not inductive without `Core`: to
say that a freed State is only met after a late failure one has to know that
nothing else leaves a layer without one. Each action has a lemma, and each lemma a
step for every conjunct the action can disturb.

`Held` needs one thing more. Without sharing the count of an `SSL_CTX` is known
exactly (`CtxInv`), but with `-model` several States point to one. `Counted` bounds
it: the references are at most the States that point to the context, plus those of them
with an SSL object (`Weight`), plus one for the import that makes it, or that made it and
left it behind (`Making`). It is a bound and
no equality since `-model` takes no reference for the State (tls.c:1544). A context that still has a
reference then has a holder, or is one of those that `CTX_Init`, built for an OpenSSL
before 3, left behind when it could not load the CA file or directory (section 5); no
other is leaked, and with OpenSSL 3 none is.

Every invariant and action property of the passing runs is a theorem, and so is the
refinement. Model-checked only are `Delivery`, `ClosedIsFreed`, `CloseCompletes` and
`FileEnds`: liveness under fairness is out of reach of the prover.

## 5. Where code and text disagree

| Run | The text | The code |
|---|---|---|
| `claim_unimport_flush` | tls.c:1838: pending data is flushed | not while a background flush is scheduled |
| `claim_flush_ends` | tlsIO.c:671: bytes written, or -1 on error | 0 and no error, for ever, after the peer's close_notify |
| `claim_encrypt_eagain` | tlsEncrypt.c:473: bytes written, or EAGAIN when data cannot be written | EAGAIN after the cipher has taken the data, which are then encrypted twice |
| `claim_verify_empty` | tls.c:365: an empty string is no change to certificate validation | a result that is no integer counts as 1, and accepts the certificate |
| `claim_import_model` | doc/tls.n:427: `-model` shares the `SSL_CTX` of another channel | the layer is stacked on that channel, not on the named one |

The following disagree in every state, so that a run would only restate the line;
the models follow the code:

* tlsInt.h:179 says of `TLS_TCL_FATAL_ERROR` that all further I/O ends in
  ECONNABORTED; `TlsInputProc` answers 0, an end of file (tlsIO.c:459).
* tls.c:3163 says that `Tls_Clean` is called by the close procedure and not in
  the EventuallyFree callback; the callback, `Tls_Free`, calls it (tls.c:3264).
* tlsIO.c:103 wants no `SSL_shutdown` after a fatal error; `Tls_Clean` calls it
  through `BIO_free` (tls.c:3213).
* tlsEncrypt.c:473 says that `EncryptOutputProc` returns the bytes written; it
  returns the full length whatever `Tcl_WriteRaw` did (tlsEncrypt.c:503). In the
  model this is `Accepted` with `Reliable` FALSE. `EncryptFileHandler` takes any length
  for a success too (tlsEncrypt.c:1124-1126, 1146-1148), so that `tls::encrypt -infile`
  succeeds with part of its output; in the model this is `HandOut`, with `short`.
* doc/tls.n:518 says that the result 1 of `tls::handshake` means a successful
  handshake. `HandshakeObjCmd` looks at EAGAIN only on a non-blocking channel
  (tls.c:1315). A blocking client or server whose channel below still asked to be tried again
  after the ten retries of `Tls_WaitForConnect` (tlsIO.c:178, 258-264, 295-311), and a
  blocking server whose client hello callback asked to be called again, get 1 with
  `TLS_TCL_INIT` still set. The model has these calls; `HandshakeOneMeansDone` is
  checked and proved for non-blocking channels.
* tlsEncrypt.c:398 says that `EncryptInputProc` returns -1 on error; it returns 0, an
  end of file, when the finalisation fails (tlsEncrypt.c:455).
* tls.c:2387 says that an error is returned when a CA file or directory could not
  be loaded. With OpenSSL 3 nothing is, and the import goes on with what was loaded.
  Before OpenSSL 3 the import fails for it, and leaves its `SSL_CTX` behind: the return
  at tls.c:2311 is the only one of `CTX_Init` without `SSL_CTX_free`. In the model
  this is `VerifyLocationsRefused`, which `ContextsHeld` excepts.
* `-session_id` sets the id on the session of an SSL object that was just made and
  has none (tls.c:1631); in the model this is one of the ways of `LateFails`.
* tlsEncrypt.c:336 says that `EncryptCloseProc` deletes the state; not when the
  last block cannot be written (tlsEncrypt.c:362), as is the case for a channel
  open for reading that is closed early. In the model this is the life `"kept"`.

## 6. What is left

1. For the transforms: an encrypting writer composed with a decrypting reader
   over a channel, which implements a lossless pipe; channels open in both
   directions, once it is said what they should do; the watch, timer and notify
   procedures of both files.
2. The driver and the imports in one specification: TlsChannel starts from a State
   that is ready, and TlsSession has a handshake as its callbacks only.
3. Proofs: the refinement of the pipe of item 1; that decrypting what was encrypted gives
   the message back is proved for the commands (`EncryptedDecryptsBack`), not yet for two
   stacked channels.

### Not modelled

* The information and certificate commands, key derivation, random numbers and
  `tls::misc`: they keep no state and only format or pass on what OpenSSL answers.
* Library set-up: `TlsLibInit` runs once and sets up tables that do not change. That
  threads which load the package at once may both run it (tls.c:3391) is in the
  list of hazards.
* `library/tls.tcl`: `tls::socket` and the default callbacks only call the commands
  that are modelled. One difference a reader should know of: `tls::socket` closes the
  socket when `tls::import` fails, the accept handler `tls::_accept` does not catch it
  (the socket of a refused import stays open, in the state the import module describes).
* Renegotiation and post-handshake authentication, the key log file, NPN.
