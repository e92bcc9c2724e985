# A verification of ergochat/irc-go

irc-go is a library of Go packages for IRC clients. This directory holds TLA+ models
of its core, TLC runs that check them on small instances, and TLAPS proofs of the
properties that matter most. Every definition is translated from the source;
`PROJECT.json` maps each one to its lines.

## Inventory

| component | state | operations | hard because |
|---|---|---|---|
| connection lifecycle (`ircevent/irc.go`) | `running`, `end`, `pwrite`, `socket`, `lastError`, `quit`, `pingSent`, `registered`, `wg` | `Connect`, `Loop`, `Quit`, `Reconnect`, `Send*`, the goroutines `readLoop`, `readMsgLoop`, `writeLoop`, `pingLoop` | four goroutines per connection, any number of callers, replaced at each reconnection |
| capability negotiation and SASL (`irc.go`, `irc_callback.go`, `irc_sasl.go`) | `capsChan`, `saslChan`, `welcomeChan`, `capsAdvertised`, `capsAcked`, `capFlags` | `negotiateCaps`, `handleCAP`, `handleCAPLS`, SASL callbacks, `processAckedCaps` | two goroutines counting answers, timers racing late answers |
| labeled responses (`irc.go`, `irc_callback.go`) | `labelCallbacks`, `labelCounter` | `SendWithLabel`, `GetLabeledResponse`, `expireBatches` | response, expiry, loss and failed send race for one callback |
| batches (`irc_callback.go`) | `batches` | `handleBatchCommand`, `handleBatchedCommand`, `HandleBatch` | nesting, expiry |
| callbacks (`irc_callback.go`) | `events`, `batchCallbacks`, `callbackCounter` | `Add*Callback`, `RemoveCallback`, `ReplaceCallback`, `ClearCallback`, `HandleMessage` | changed while they are being run |
| nick and ISUPPORT (`irc_callback.go`) | `currentNick`, `nickCounter`, `isupport` | numerics' callbacks, `SetNick` | read by other goroutines |
| line reader (`ircreader`) | buffer and indices | `ReadLine` | boundaries of growing and sliding |
| message codec (`ircmsg`) | none | parse, assemble, truncate, tag escapes, NUH | framing, limits at their last byte, halves of runes |
| formatting codes (`ircfmt`) | none | `Split`, `Strip`, `Escape`, `Unescape` | digits of colours and digits of text |
| SASL buffer (`ircutils`) | the bytes decoded so far | `EncodeSASLResponse`, `Add` | end marker, limit, reuse after errors |
| text helpers (`ircutils`), CTCP, numerics | none | sanitize, check, rewrite | text edge cases |

The client's goroutine runs `Connect` and then `Loop`; `Connect` starts the goroutines
of a connection, which share its fields under `stateMutex` (`batchMutex` for labels and
batches, `eventsMutex` for callbacks), stop when `end` is closed, and are waited for by
`waitForStop`. `readMsgLoop` hands the lines of the line reader to `readLoop`, which runs
the callbacks: the library's own (they answer PING, count capabilities, wake up
`Connect`) and then the client's, which may call any function again. `sendInternal` puts
messages into `pwrite`, from where `writeLoop` writes them.

## Modules

* `Connection`: the lifecycle. A dial that succeeds makes a *generation*: a socket, an
  `end` and a `pwrite`. `gen` is the generation in the fields, `closed` the generations
  whose `end` is closed. Every goroutine has a position (`main`, `rl`, `wl`, `pl`,
  `rm[g]`), every actor the call it is inside (`api`), and `snap` the pair
  `sendInternal` has read. A critical section of `stateMutex` is one action; what the
  code does after unlocking is the next one. Messages are reduced to welcome (376/422),
  PONG, PING and others. A pwrite of an old generation is not tracked: it is never
  drained and its `end` is closed, so a sender blocked on it leaves (`SendAborted`).
* `CapNegotiation`: the dialogue inside `Connect` that `Connection` shows only by its
  outcomes, with `capsChan`, `saslChan` and `welcomeChan`, both directions of the stream
  and an (external) server that follows the protocol and makes every choice it allows: it may
  not know CAP, know it and have none of the requested capabilities, or any of them. The
  deferred calls of `negotiateCaps` are two steps, CAP END and `processAckedCaps`.
  It uses `SaslBuffer` on both ends: the client's callback splits the response, the
  server puts it together again with a `SASLBuffer` of some limit.
* `SaslBuffer`: `EncodeSASLResponse` and `(*SASLBuffer).Add`. Four characters of base64
  are one group, the sequence of the bytes it stands for; 400 characters are
  `ChunkGroups` groups.
* `LabeledResponse`: labels across reconnections; of the lifecycle it keeps the steps
  that touch labels, in the order `Connection` has them.
* `Callbacks`: registry and dispatch. Lists are replaced by additions and removals and
  written in place by `ReplaceCallback`; a dispatch records whether its array is still
  the registry's. The unlocked read of a pair by a dispatch races the write by
  `ReplaceCallback`; the callback is one word, so the dispatch sees the old or the new one.
* `Batches`: the tree of batches. Every line with a batch or label becomes a node, `batches`
  and `labelCallbacks` are the tables of the code with their ages, and a history records
  what the client was given. Whether a batch callback accepts a batch is a choice. A line
  is sent and handled in one step; the clock may move before `readLoop` looks at it.
* `Nick`: current and preferred nick and ISUPPORT. Critical sections and sends are separate
  steps, so a nick may be sent that is no longer wanted. `handleUnavailableNick` too counts in one and sends in the next. The server and the
  other users (external) decide who has which nick; an alternative nick is the preferred one with the
  counter appended. A nick is a sequence of parts.
* `MessageCodec`: `ircmsg` (and `SanitizeText`, `unescapeISupportValue`) as functions on
  sequences of bytes; of a rune only its length is kept. Go's order of ranging over the
  two tag maps is a parameter (`TagOrders`). A call that panics returns a value of its own.
* `FormatCodes`: `ircfmt` as functions on sequences of characters. Colour names are one
  character and lower case; that `resolveToColourCode` trims and lowers them is left out.
* `LineReader`: `ircreader.Reader`; `LineStream`: what it promises, without a buffer.
* `Selections`: the loop that copies what it wants of a list (`removeCallbackNoMutex`,
  `handleCAPLS`), written as a recursive function so that `Callbacks` and `CapNegotiation`
  can be proved about.
* `ConnectionProofs`, `LineReaderProofs`, `LabeledResponseProofs`, `BatchesProofs`,
  `NickProofs`, `CallbacksProofs`, `CapNegotiationProofs`: theorems about the module each
  extends; `SequenceLemmas`: what they need of sequences and of `Select`.
* `MC*`: instances for TLC. `MCCodecs` is a machine that types a text one character at a time over an alphabet of special
  characters, one for each use, so that every short text is an input of the functions; its
  properties compare them with each other and with definitions of another form
  (`FormatAt` finds the format of a character from its position alone).

## Runs

| run | shows | bounds |
|---|---|---|
| `connection` | `EndOpenIffRunning`, `LossStopsConnection`, `NoStrandedSender`, `StoppedIsClean`, `DisconnectCallbacksOnce` | 2 dials (a stale field of the first can hurt the second), 1 caller plus callbacks, queue of 1 (full and empty both happen), SASL configured |
| `connection_live` | `QuitStops`, `LossIsHandled`, `ReadMsgLoopEnds` | 1 successful dial, later ones fail; Quit at any time |
| `negotiation` | `CapsAgree`, `SASLFatal`, `SASLIntact`, `SASLProgress`, `ConnectReturns` | 3 capabilities: one granted, one refused, one not listed can occur together; chunks of 2 groups, responses of 0, 3, 7 and 12 bytes (empty, short, full chunk and a rest, two full chunks), limits 0, 3, 9, 12 |
| `batches` | `DeliveredOnce`, `CompleteBatch`, `ResponseOutlivesLabel`, `NoStaleBatch` | 2 batch ids (one in the other), 4 lines, 1 label, `KeepAlive` = `Timeout` = 1 tick, 3 ticks (a batch can expire between any two lines), 2 connections |
| `nick` | `NickAgree`, `ISupportComplete`, `Registers`, `PreferredRestored` | 2 preferred nicks, 1 `SetNick`, 2 connections, 1 tick before registration; the server reads on while at most 1 message waits |
| `codecs` | `ParseSerialize`, `LimitsKept`, `ValuesExact`, `SplitByPosition`, `ForegroundKept`, `BufferReusable` | every text of 5 to 7 characters over 3 to 8 special ones; tag budgets of 2 bytes, chunks of 2 groups, so that every limit is reached and passed; formatting texts of 6 or 7, as a background that survives a change of the foreground takes |
| `labels` | `AtMostOnce`, `OwnResponse`, `CallbackNotLost`, `CallbackRuns` | 2 requests (one can be given the label, or the response, of the other), 3 connections |
| `callbacks` | `OneRegistrationPerId`, `RemovedNeverRuns`, `EachRunsOnce`, `BaseRunsFirst` | 3 functions (symmetric), the two commands of a connect callback, 1 dispatcher |
| `reader` | `BufferIsWindow`, `ReadHasRoom`, refinement `StreamSpec` | all inputs of 7 bytes, buffer 2 to 5 bytes: it grows by rounding, grows to the limit, slides and overflows |

Nothing in `labels` keeps the client from calling `SendWithLabel` while `Loop` reconnects: a
request may register its label on one connection, or between the two critical sections of
`Connect`, and be sent on the next. `OwnResponse` and `CallbackNotLost` say that only such
requests (`Straddled`), and those they hurt (`Robbed`), can lose or mistake anything; the run
`label_straddle` shows that they do. `callbacks` has `ConnectFirst = FALSE`: the first
registration is not `AddConnectCallback`. `MCLineReader` also checks `roundUpToPowerOfTwo` (32-bit shifts)
against its specification, the least power of two, at and next to each power of two up
to 2^13, by an assumption TLC evaluates.
Deadlock is checked where the system should go on or rest in a named final state
(`Terminated`, `Returned`) and in `nick`; in `callbacks`, `labels`, `batches` and `codecs`
the client may run out of functions, requests, lines or characters, so there it is not.

What the properties of batches, nicks, SASL and codecs say, in short. A line reaches the client once, and a batch with
all its lines and with those of batches nested in it, although entries of the table expire
on their own clocks: it holds because a nested batch hangs in its parent from the start,
and lines whose batch has expired are ignored for good. A waiting request is answered with
nil before its batch can expire (`ResponseOutlivesLabel`), because the label is older.
`CurrentNick` equals the server's view whenever nothing is in transit; a stale renick may
be sent last, but the ticker repairs it. `ISupport` is nil or complete. The server
decodes exactly the SASL response the client composed or refuses it for its limit, and
nobody waits for a chunk that is not coming. What `ircmsg` serializes it parses back,
whatever the parameters hold. What it truncates is the longest text of whole runes within the
limit, and `SanitizeText` too gives as much as its limit allows. Tags are accepted exactly if
they are within the two budgets, by the sender as by the receiver, whose budget they fit.

Three runs end in a violation; each is a disagreement between the code and its own words:

* `label_straddle`: a `SendWithLabel` that straddles a reconnection, against its documentation
  ("collected into a *Batch and passed to the provided callback"). `Connect` sets `running`
  before it resets the labels, and `capFlags` still are those of the last connection; so a
  label numbered before the reset goes out on the new connection, where it is given out
  again. The response then reaches the callback of *another* request (misdelivery), and the
  callback it was meant for is wiped with the table and never runs (loss: `GetLabeledResponse`
  does not return) or has been given nil by `expireBatches` before the message was sent.
* `sasl_optional`: the SASL failure callbacks send QUIT even with `SASLOptional`,
  against "make SASL failure non-fatal".
* `escape_background`: `Escape` looks for the second digit of a background colour one
  place too far on, and panics on a message that ends with one more character; against the
  package documentation, by which escaping can be undone. `ForegroundKept` shows that
  messages without background colours come back as they were.

Other disagreements met while modelling, which the passing runs exclude by a constant or a
condition, or allow:

* a `SendWithLabel` that straddles a reconnection and then fails unregisters its label by
  number, and so the callback of a request of the new connection (`Robbed`);
* a request that stale `capFlags` let through on a new connection, which then does not grant
  labels, is not answered until that connection ends (`CallbackRuns` is about connections that
  have negotiated labels or are lost);
* `SendWithLabel` may return an error although `expireBatches` has run the callback with nil
  (`AtMostOnce` allows that, and no text denies it);
* a `Reconnect` during `waitForStop` loses its signal and `Loop` sleeps out
  `ReconnectFreq`, against the CHANGELOG ("takes immediate effect");
* `Loop` after a `Connect` that never dialed blocks on a nil channel, against the
  comments in `Loop` and `Connect` (`LoopOnNilEnd = FALSE`);
* id 0 of an `AddConnectCallback` that is the very first registration makes
  `RemoveCallback` leave the copy for 422 (`ConnectFirst = FALSE`);
* CAPTimeout lets a connection with mandatory SASL through unauthenticated, against
  "failure is fatal by default" (`SASLFatal` speaks of negotiations that saw an answer);
* a dollar sign right before a colour code is escaped to `$$$c`, of which the last three
  characters are taken for `$$c`, so that text in brackets after it is lost
  (`ForegroundKept` excludes it);
* `TruncateUTF8Safe` with a limit below 3, and `ParseLineStrict` and `LineBytesStrict` with
  one of that size, panic when they run out of bytes to remove (`LimitsKept` starts at 3);
* every call of `Quit` moves `quitAt`, so that a client which repeats it more often than
  `Timeout` puts off the end that `QuitStops` shows for a single call;
* ISUPPORT escapes of bytes from 0x80 on are left as they are (`ParseInt` with 8 bits is
  signed);
* `eventRewriteCTCP` writes into the shared parameters: a message that is handled twice is
  no CTCP the second time.

## Fairness

`Connection`: the Go scheduler runs every goroutine that can go on and timers fire (weak
fairness of main's own steps, of blocked sends that can return, of `writeLoop`, whose
write has a deadline, of `pingLoop` and of the wind-down of `readMsgLoop`). `readLoop`
and `pingLoop` may find several cases of a `select` ready; Go picks at random, so a
closed `end` is not passed over for ever (strong fairness of their stop, the only strong
one). The client is assumed to call `Loop` after `Connect` succeeded, to return from its
callbacks, and to call `Quit` at most once. Nothing is assumed of the server.
`Nick`: goroutines run, the ticker ticks (keepalive PINGs are answered, or the connection
is lost and made again), and the server deals with what it gets; nobody is obliged to
rename, to free a nick or to lose a connection, and `PreferredRestored` asks for a nick that
is free for good.
`CapNegotiation` assumes a server that deals with every message it gets;
the network is never obliged to lose anything. `LabeledResponse` assumes that the closed
`end` of a connection leads to `waitForStop` (what `LossIsHandled` shows) and that `readLoop`
keeps checking ages, since keepalive PONGs arrive or the connection ends. That `waitForStop`
runs again, after a `Connect` that fails, is possible and not assumed.

## Proofs

Every safety property of the runs `connection`, `reader`, `labels`, `callbacks`, `nick`,
`negotiation` and `batches` is a theorem, for every value of the constants that the named
assumptions of the module allow. None is inductive alone; each proof module defines the strengthening and proves that the initial states have it and that
every action keeps it. The strengthenings were checked by TLC on the instances of the runs
before they were proved.

`ConnectionProofs` proves, for any set of callers, queue size, number of dials, message
kinds and options, that `SafetySpec` implies each safety property of the run
`connection`. `IInv` adds: generations (all but the current one
are closed), the error rule (`lastError` set implies that `running` is
cleared), counting (`wg` is the number of the three goroutines not yet done, or 3 before
they are launched), phases (which goroutines can be alive at which position of main),
sockets (only the current socket is open), and disconnects (the callbacks of a
registered connection have run exactly if `readLoop` has left its loop). Each action
preserves each part; the counting part is what ties `waitForStop` to the goroutines, and
with the error rule gives `LossStopsConnection`.

`LineReaderProofs` proves for all inputs and all `2 <= InitialSize <= MaxSize` that the
indices are ordered, that the buffer is a window of the stream, that `Read` always has
room, and from these that `Spec => StreamSpec`, action by action. The only fact used of
`roundUpToPowerOfTwo` is the assumption that its result is not below its argument up to
`MaxSize`, which TLC evaluates for the real function.

`LabeledResponseProofs`, for any finite set of requests and any number of connections, with
calls and reconnections in any order. `AtMostOnce`: what is in the table has not run and is
there once, and a request without a label is nowhere. `OwnResponse` and `CallbackNotLost` rest
on `LInv`: a history (`home`) tells which numbering, from one reset to the next, a label belongs
to. Within one numbering labels are unique and below the counter, and the table holds requests of
the present numbering only. A message still to be answered was sent on the present connection, so
a label looked up for it finds its own request unless its own numbering is another. And from
`registerLabel` on a callback has run or is in the table, until a reset or an unregistration takes
it out: the first makes its call a straddling one, and the second is by a request of another
numbering or by itself.

`BatchesProofs`, for any batch ids, durations and bounds. `ResponseOutlivesLabel` rests on
ages alone: the batch that answers a waiting request is in `irc.batches` and younger than the
request, and `expireBatches` treats both alike. `NoStaleBatch`, an action property, follows
from the time of the last check, and that a request is answered once (`OneAnswer`) from
what has been taken out of the label table.

`CompleteBatch` and `DeliveredOnce` are about the tree of batches, and the invariant for them
is `Forest`. Every node has one home, made before it, and is an item of no other batch. Some
batches are lost: those that expired while the server still held them open, and what is in
them. A batch that is not lost has everything the server put into it as its items, in the
order of arrival, and `irc.batches` has exactly the open batches that are not lost; since a
parent is at least as old as its child, no batch expires before the one it is in. What has been handed
on is an outermost batch or line that the server has closed, once, with the lines `Below` it;
two of them share no line, because a line has one way to its root (`Path`, unfolded by
induction over the nodes).

`NickProofs`, for any nicks and bounds. The invariant looks at what is in transit: the
lines on their way to the client lead from its nick to the server's (`Path`), and, until the
end of registration, the tokens collected and those before the next 376 are all of the
server's. `NickAgree` is the case of an empty stream.

`CallbacksProofs`, for any functions, commands and dispatchers. Ids: those below the counter
are used up, each by one position of one list or by the two copies of a connect callback,
and a `CallbackID` names no callback of the connection. Dispatches: a dispatch keeps the ids
of the list it took, whatever is written into the shared array. `RemovedNeverRuns` needs
`~ConnectFirst` (with it, it is false: the disagreement about id 0 above) and an invariant about
owners: whatever is in a list belongs to a `CallbackID` that removes it. `Select` is unfolded
by induction over the length of the list.

`CapNegotiationProofs`, for any list of different capabilities, any server and any
interleaving. Every requested capability is at one place on its way from CAP LS through
REQ, ACK or NAK and `capsChan` to `negotiateCaps`, and the place tells whether the server has
enabled it; those that are somewhere are never more than `remaining_caps`. So when the count
is zero, nothing is under way and both sides agree. A result dropped from a full channel
would leave the count too high, never too low: it could cost progress (`ConnectReturns`
shows by TLC that none is dropped) and not agreement. `SASLFatal`: an "ok" in
`saslChan` or a 903 on its way means that the server has accepted. `SASLProgress`: while
`negotiateCaps` waits for the outcome, there is the outcome, a message of the server about it,
or a chunk that ends the response; that `EncodeSASLResponse` always ends with such a chunk is
proved for every length and chunk size (`EncodeFacts`).

`SASLIntact` has an invariant of its own, `Exchange`: there is one exchange on a connection
(the mechanism, then the server's go-ahead, then the response, each at most once and none
before the one it answers is gone), the chunks in `toServer` are the last `r` of the response,
one after the other, and the server's buffer holds the bytes of the chunks before them. The
arithmetic is in `EncodeChunks` (chunk `k` is the groups from `Begin(k)` on), `TextBytes` (what
`FlattenSeq` makes of them, by induction over the groups) and `AddChunk` (`Add` returns the
response, refuses it because of the limit, or has the bytes of one more chunk).

The induction the proofs need (`SequenceLemmas!Induction`) is derived from the
well-foundedness of `<` on the naturals, since the library's induction rules take an operator
as a parameter.

Assumptions that restrict the client: `RequestCaps` names no capability twice; `KeepAlive >=
Timeout` (`Connect` refuses anything else); `~ConnectFirst` where a theorem states it as its
hypothesis.

Only model-checked: all liveness (the prover has no fairness); the properties of the run of
`MCCodecs`, which quantify over its bounded texts: they are about the pure functions of
`MessageCodec` and `FormatCodes` and about `Add` over arbitrary sequences of values, and would
need induction over texts (they are written with `RECURSIVE`, which the prover does not take);
`roundUpToPowerOfTwo`, which works on bits.

## Not modelled, and the plan

Not modelled: TLS and the dialer's inside, logging and debug output; wall-clock durations
(only which timer fires first, except in `Batches`, which counts ticks); CTCP
(`eventRewriteCTCP` renames one message by its text, the replies are fixed strings);
`HostnameIsValid` (a conjunction of conditions with a table test); the readers of a
`Message` (one map operation each); numerics (constants); the examples. Servers that break
the IRCv3 rules for batches or the protocol of registration are not modelled either: the
code promises nothing about them.

Next: an abstract specification of the connection (a sequence of sessions) that
`Connection` implements.
