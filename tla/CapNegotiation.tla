--------------------------- MODULE CapNegotiation ---------------------------
(***************************************************************************)
(* The registration dialogue of ircevent: negotiateCaps and the rest of     *)
(* Connect on the main goroutine (irc.go), the CAP and SASL callbacks run   *)
(* by readLoop (handleCAP, handleCAPLS, handleRegistration, irc_sasl.go),  *)
(* and a server that follows the protocol (external) and collects the SASL *)
(* response with the SASLBuffer of ircutils.  The two goroutines           *)
(* meet in capsChan, saslChan and welcomeChan; each talks to the server    *)
(* through the same ordered stream.                                        *)
(***************************************************************************)
EXTENDS Naturals, Sequences, SequencesExt, SaslBuffer, Selections

CONSTANTS
    RequestCaps,  \* the sequence of capabilities to request, "sasl" if UseSASL
    UseSASL, SASLOptional,
    Lossy,        \* may the network lose the connection?
    ResponseLengths, \* lengths the SASL response may have (0 with EXTERNAL)
    Limits        \* values the server may give NewSASLBuffer

ASSUME RequestCapsAssumption ==
    /\ RequestCaps \in Seq(ToSet(RequestCaps)) /\ RequestCaps # <<>>
    /\ IsInjective(RequestCaps)
ASSUME SASLAssumption ==
    /\ UseSASL \in BOOLEAN /\ SASLOptional \in BOOLEAN /\ Lossy \in BOOLEAN
    /\ UseSASL => "sasl" \in ToSet(RequestCaps)
    /\ ResponseLengths \subseteq Nat /\ Limits \subseteq Nat

VARIABLES
    main,           \* position of Connect
    err,            \* the error it is about to return is not nil
    remaining,      \* remaining_caps
    acknowledged,   \* acknowledgedCaps
    timer,          \* the CAPTimeout timer is running
    timedOut,       \* history: it fired
    response,       \* history: the SASL response sent, in a sequence of one
    capsAdvertised, \* irc.capsAdvertised
    capsAcked,      \* irc.capsAcked
    capsChan, saslChan, welcomeChan,
    registered,     \* irc.registered
    closed,         \* end is closed
    toServer, toClient, \* the two directions of the connection
    supported,      \* those of the requested capabilities that the server has
    unlisted,       \* those it has not listed yet
    enabled,        \* those it has acknowledged
    authenticated,  \* it has accepted the SASL credentials
    sasl,           \* its SASL exchange: phase, limit and buffer, and, once over, output
                    \* and error
    capOpen,        \* it holds registration until CAP END
    status          \* how far registration is, for it

mainVars   == <<main, err, remaining, acknowledged, timer, timedOut>>
chanVars   == <<capsChan, saslChan, welcomeChan>>
readVars   == <<capsAdvertised, registered, response>>
serverVars == <<supported, unlisted, enabled, authenticated, sasl, capOpen, status>>
vars == <<mainVars, chanVars, readVars, serverVars, capsAcked, closed, toServer, toClient>>

Caps == ToSet(RequestCaps)

\* A message is its kind and the capabilities it names.
Msg(kind, caps) == <<kind, caps>>
Plain(kind) == Msg(kind, {})

Init ==
    /\ main = "start" /\ err = FALSE /\ remaining = Len(RequestCaps) /\ acknowledged = {}
    /\ timer = FALSE /\ timedOut = FALSE
    /\ capsAdvertised = {} /\ capsAcked = {} /\ registered = FALSE
    /\ capsChan = <<>> /\ saslChan = <<>> /\ welcomeChan = FALSE
    /\ closed = FALSE /\ toServer = <<>> /\ toClient = <<>>
    /\ supported \in SUBSET Caps /\ unlisted = supported /\ enabled = {}
    /\ response = <<>>
    /\ sasl = [phase |-> "none", limit |-> 0, buf |-> <<>>, output |-> <<>>, err |-> NoError]
    /\ authenticated = FALSE /\ capOpen = FALSE /\ status = "new"

\* A stopped connection takes no more messages (ClientDisconnected, ignored).
Write(msgs) == toServer' = IF closed THEN toServer ELSE toServer \o msgs

-----------------------------------------------------------------------------
(* Connect                                                                 *)

\* CAP LS is sent and the timer started.
RequestList ==
    /\ main = "start" /\ main' = "caps" /\ timer' = TRUE
    /\ Write(<<Plain("CAP LS")>>)
    /\ UNCHANGED <<err, remaining, acknowledged, timedOut, chanVars, readVars, serverVars,
                   capsAcked, closed, toClient>>

\* Mutant: the result is not looked at.
CapResultTrusted ==
    /\ main = "caps" /\ remaining > 0 /\ capsChan # <<>>
    /\ capsChan' = Tail(capsChan) /\ timer' = FALSE /\ remaining' = remaining - 1
    /\ acknowledged' = acknowledged \cup {Head(capsChan).capName}
    /\ UNCHANGED <<main, err, timedOut, saslChan, welcomeChan, readVars, serverVars,
                   capsAcked, closed, toServer, toClient>>

\* The first result stops the timer for good.
CapResult ==
    /\ main = "caps" /\ remaining > 0 /\ capsChan # <<>>
    /\ capsChan' = Tail(capsChan) /\ timer' = FALSE /\ remaining' = remaining - 1
    /\ acknowledged' = IF Head(capsChan).ack
                       THEN acknowledged \cup {Head(capsChan).capName} ELSE acknowledged
    /\ UNCHANGED <<main, err, timedOut, saslChan, welcomeChan, readVars, serverVars,
                   capsAcked, closed, toServer, toClient>>

\* negotiateCaps is about to return e; its deferred calls send CAP END ...
EndNegotiation(e) ==
    /\ err' = e /\ main' = "ended"
    /\ Write(<<Plain("CAP END")>>)
    /\ UNCHANGED <<remaining, acknowledged, chanVars, readVars, serverVars, capsAcked, closed,
                   toClient>>

\* ... and publish what was acknowledged.
processAckedCaps ==
    /\ main = "ended" /\ main' = IF err THEN "cleanup" ELSE "nick"
    /\ capsAcked' = acknowledged
    /\ UNCHANGED <<err, remaining, acknowledged, timer, timedOut, chanVars, readVars, serverVars,
                   closed, toServer, toClient>>

\* The server probably does not know CAP: no error, SASL or not.
CapTimeout ==
    /\ main = "caps" /\ remaining > 0 /\ timer
    /\ timer' = FALSE /\ timedOut' = TRUE
    /\ EndNegotiation(FALSE)

saslError == ~SASLOptional

\* All results are in.
CapsSettled ==
    /\ main = "caps" /\ remaining = 0
    /\ IF UseSASL /\ "sasl" \in acknowledged
       THEN /\ main' = "sasl"
            /\ Write(<<Plain("AUTHENTICATE mech")>>)
            /\ UNCHANGED <<err, remaining, acknowledged, timer, timedOut, chanVars, readVars,
                           serverVars, capsAcked, closed, toClient>>
       ELSE EndNegotiation(UseSASL /\ saslError) /\ UNCHANGED <<timer, timedOut>>

SASLResult ==
    /\ main = "sasl" /\ saslChan # <<>>
    /\ EndNegotiation(Head(saslChan) = "failed" /\ saslError)
    /\ UNCHANGED <<timer, timedOut>>

\* Mutant: this timeout is as harmless as the one for CAP LS.
SASLTimeoutHarmless ==
    /\ main = "sasl" /\ EndNegotiation(FALSE) /\ UNCHANGED <<timer, timedOut>>

SASLTimeout ==
    /\ main = "sasl" /\ EndNegotiation(saslError) /\ UNCHANGED <<timer, timedOut>>

NegotiationDisconnected ==
    /\ closed
    /\ main = "sasl" \/ (main = "caps" /\ remaining > 0)
    /\ EndNegotiation(TRUE) /\ UNCHANGED <<timer, timedOut>>

\* NICK and USER, shown as one message.
Identify ==
    /\ main = "nick" /\ main' = "await"
    /\ Write(<<Plain("USER")>>)
    /\ UNCHANGED <<err, remaining, acknowledged, timer, timedOut, chanVars, readVars,
                   serverVars, capsAcked, closed, toClient>>

\* The last select of Connect: the welcome, or end and the timeout.
Welcomed ==
    /\ main = "await" /\ welcomeChan /\ main' = "ok"
    /\ UNCHANGED <<err, remaining, acknowledged, timer, timedOut, chanVars, readVars,
                   serverVars, capsAcked, closed, toServer, toClient>>

Disconnected ==
    /\ main = "await" /\ closed /\ main' = "cleanup" /\ err' = TRUE
    /\ UNCHANGED <<remaining, acknowledged, timer, timedOut, chanVars, readVars, serverVars,
                   capsAcked, closed, toServer, toClient>>

\* Timeout passes; it is long enough for what is under way on a good connection.
ServerTimedOut ==
    /\ main = "await" /\ (Lossy \/ (toServer = <<>> /\ toClient = <<>> /\ capOpen))
    /\ main' = "cleanup" /\ err' = TRUE
    /\ UNCHANGED <<remaining, acknowledged, timer, timedOut, chanVars, readVars, serverVars,
                   capsAcked, closed, toServer, toClient>>

\* The deferred clean-up.
CleanUp ==
    /\ main = "cleanup" /\ main' = "failed" /\ closed' = TRUE
    /\ UNCHANGED <<err, remaining, acknowledged, timer, timedOut, chanVars, readVars,
                   serverVars, capsAcked, toServer, toClient>>

-----------------------------------------------------------------------------
(* readLoop                                                                *)

\* Mutant: room for all results but one.
ChanSizeShort == Len(RequestCaps) - 1

\* capsChan has room for one result per requested capability.
ChanSize == Len(RequestCaps)

\* Nonblocking sends: what does not fit is dropped.
Offer(chan, size, items) ==
    LET all == chan \o items IN SubSeq(all, 1, IF Len(all) < size THEN Len(all) ELSE size)

Results(caps, ack) == [i \in DOMAIN caps |-> [capName |-> caps[i], ack |-> ack]]

Receive(kind) ==
    /\ main # "failed" /\ toClient # <<>> /\ Head(toClient)[1] = kind
    /\ toClient' = Tail(toClient)

\* CAP LS: a line that is not the last one is only remembered.
handleCAPLS(final) ==
    /\ Receive(IF final THEN "LS" ELSE "LS *")
    /\ IF registered
       THEN UNCHANGED <<capsAdvertised, toServer, capsChan>>
       ELSE LET advertised == capsAdvertised \cup Head(toClient)[2]
                toReq    == Select(RequestCaps, advertised)
                notFound == Select(RequestCaps, Caps \ advertised)
            IN  /\ capsAdvertised' = advertised
                /\ IF final
                   THEN /\ Write([i \in DOMAIN toReq |-> Msg("CAP REQ", {toReq[i]})])
                        /\ capsChan' = Offer(capsChan, ChanSize, Results(notFound, FALSE))
                   ELSE UNCHANGED <<toServer, capsChan>>
    /\ UNCHANGED <<mainVars, saslChan, welcomeChan, registered, response, serverVars, capsAcked, closed>>

\* CAP ACK and CAP NAK.
handleCAP(ack) ==
    /\ Receive(IF ack THEN "ACK" ELSE "NAK")
    /\ LET named == Select(RequestCaps, Head(toClient)[2])
       IN  capsChan' = Offer(capsChan, ChanSize, Results(named, ack))
    /\ UNCHANGED <<mainVars, saslChan, welcomeChan, readVars, serverVars, capsAcked, closed,
                   toServer>>

\* The server asks for the credentials: the response goes out in chunks.
handleAUTHENTICATE ==
    /\ UseSASL /\ Receive("AUTHENTICATE +")
    /\ \E n \in ResponseLengths :
         LET raw == [i \in 1 .. n |-> i]
             chunks == EncodeSASLResponse(raw)
         IN  /\ Write([i \in DOMAIN chunks |-> Msg("AUTHENTICATE", chunks[i])])
             /\ response' = <<raw>>
    /\ UNCHANGED <<mainVars, chanVars, capsAdvertised, registered, serverVars, capsAcked, closed>>

\* RPL_SASLSUCCESS, ERR_SASLALREADY.
SASLSuccess ==
    /\ UseSASL /\ Receive("903")
    /\ saslChan' = Offer(saslChan, 1, <<"ok">>)
    /\ UNCHANGED <<mainVars, capsChan, welcomeChan, readVars, serverVars, capsAcked, closed,
                   toServer>>

\* ERR_SASLFAIL, ERR_NICKLOCKED, RPL_LOGGEDOUT.
SASLFailure ==
    /\ UseSASL /\ Receive("904")
    /\ Write(<<Plain("CAP END"), Plain("QUIT")>>)
    /\ saslChan' = Offer(saslChan, 1, <<"failed">>)
    /\ UNCHANGED <<mainVars, capsChan, welcomeChan, readVars, serverVars, capsAcked, closed>>

handleRegistration ==
    /\ Receive("376")
    /\ registered' = TRUE /\ welcomeChan' = TRUE
    /\ UNCHANGED <<mainVars, capsChan, saslChan, capsAdvertised, response, serverVars, capsAcked, closed,
                   toServer>>

\* A read error closes end: the server has closed the connection ...
ReadEOF ==
    /\ Receive("EOF") /\ closed' = TRUE
    /\ UNCHANGED <<mainVars, chanVars, readVars, serverVars, capsAcked, toServer>>

\* ... or the network has lost it.
Lose ==
    /\ Lossy /\ ~closed /\ closed' = TRUE
    /\ UNCHANGED <<mainVars, chanVars, readVars, serverVars, capsAcked, toServer, toClient>>

-----------------------------------------------------------------------------
(* The server                                                              *)

Handle(kind) == toServer # <<>> /\ Head(toServer)[1] = kind /\ toServer' = Tail(toServer)
Reply(kind, caps) == toClient' = Append(toClient, Msg(kind, caps))

\* A server that does not know CAP does not answer CAP LS; others do, in one or more lines.
ServerSilent ==
    /\ Handle("CAP LS") /\ supported = {}
    /\ UNCHANGED <<mainVars, chanVars, readVars, serverVars, capsAcked, closed, toClient>>

ServerPartialList ==
    /\ toServer # <<>> /\ Head(toServer)[1] = "CAP LS" /\ unlisted # {}
    /\ \E c \in unlisted : unlisted' = unlisted \ {c} /\ Reply("LS *", {c})
    /\ UNCHANGED <<mainVars, chanVars, readVars, supported, enabled, authenticated, sasl, capOpen,
                   status, capsAcked, closed, toServer>>

ServerList ==
    /\ Handle("CAP LS")
    /\ Reply("LS", unlisted) /\ unlisted' = {} /\ capOpen' = TRUE
    /\ UNCHANGED <<mainVars, chanVars, readVars, supported, enabled, authenticated, sasl, status,
                   capsAcked, closed>>

\* A request is granted or refused; before registration it makes the server wait for
\* (another) CAP END.
ServerRequest ==
    /\ Handle("CAP REQ")
    /\ LET caps == Head(toServer)[2] IN
         \/ Reply("ACK", caps) /\ enabled' = enabled \cup caps
         \/ Reply("NAK", caps) /\ UNCHANGED enabled
    /\ capOpen' = (status # "welcomed")
    /\ UNCHANGED <<mainVars, chanVars, readVars, supported, unlisted, authenticated, sasl, status,
                   capsAcked, closed>>

\* The mechanism is taken, with a new buffer, or refused.
ServerMechanism ==
    /\ Handle("AUTHENTICATE mech")
    /\ \/ /\ Reply("AUTHENTICATE +", {})
          /\ \E limit \in Limits : sasl' = [sasl EXCEPT !.phase = "open", !.limit = limit]
       \/ Reply("904", {}) /\ UNCHANGED sasl
    /\ UNCHANGED <<mainVars, chanVars, readVars, supported, unlisted, enabled, authenticated,
                   capOpen, status, capsAcked, closed>>

\* A chunk goes into the buffer; the credentials are judged when they are complete.  After
\* the end a chunk is taken for an unknown mechanism.
ServerChunk ==
    /\ Handle("AUTHENTICATE")
    /\ LET added == Add(sasl.buf, sasl.limit, Head(toServer)[2]) IN
         IF sasl.phase # "open"
         THEN Reply("904", {}) /\ UNCHANGED <<sasl, authenticated>>
         ELSE /\ sasl' = [phase |-> IF added.done THEN "over" ELSE "open",
                          limit |-> sasl.limit, buf |-> added.buf,
                          output |-> added.output, err |-> added.err]
              /\ \/ ~added.done /\ UNCHANGED <<toClient, authenticated>>
                 \/ added.done /\ Reply("904", {}) /\ UNCHANGED authenticated
                 \/ added.done /\ added.err = NoError /\ Reply("903", {}) /\ authenticated' = TRUE
    /\ UNCHANGED <<mainVars, chanVars, readVars, supported, unlisted, enabled, capOpen, status,
                   capsAcked, closed>>

ServerCapEnd ==
    /\ Handle("CAP END") /\ capOpen' = FALSE
    /\ UNCHANGED <<mainVars, chanVars, readVars, supported, unlisted, enabled, authenticated, sasl,
                   status, capsAcked, closed, toClient>>

\* NICK and USER, shown as one message.
ServerUser ==
    /\ Handle("USER") /\ status' = "user"
    /\ UNCHANGED <<mainVars, chanVars, readVars, supported, unlisted, enabled, authenticated, sasl,
                   capOpen, capsAcked, closed, toClient>>

ServerWelcome ==
    /\ status = "user" /\ ~capOpen /\ status' = "welcomed"
    /\ Reply("376", {})
    /\ UNCHANGED <<mainVars, chanVars, readVars, supported, unlisted, enabled, authenticated, sasl,
                   capOpen, capsAcked, closed, toServer>>

ServerQuit ==
    /\ Handle("QUIT") /\ status' = "gone"
    /\ Reply("EOF", {})
    /\ UNCHANGED <<mainVars, chanVars, readVars, supported, unlisted, enabled, authenticated, sasl,
                   capOpen, capsAcked, closed>>

Server ==
    /\ status # "gone"
    /\ \/ ServerSilent \/ ServerPartialList \/ ServerList \/ ServerRequest
       \/ ServerMechanism \/ ServerChunk \/ ServerCapEnd \/ ServerUser \/ ServerWelcome \/ ServerQuit

-----------------------------------------------------------------------------
Main ==
    \/ RequestList \/ CapResult \/ CapTimeout \/ CapsSettled \/ SASLResult \/ SASLTimeout
    \/ NegotiationDisconnected \/ processAckedCaps \/ Identify \/ Welcomed \/ Disconnected
    \/ ServerTimedOut \/ CleanUp

Reader ==
    \/ \E b \in BOOLEAN : handleCAPLS(b) \/ handleCAP(b)
    \/ handleAUTHENTICATE \/ SASLSuccess \/ SASLFailure \/ handleRegistration \/ ReadEOF

\* Connect has returned.
Returned == main \in {"ok", "failed"} /\ UNCHANGED vars

Next == Main \/ Reader \/ Lose \/ Server \/ Returned

\* The goroutines are scheduled, the timers fire, and the server deals with what it gets;
\* the network need not lose anything.
Spec == Init /\ [][Next]_vars /\ WF_vars(Main) /\ WF_vars(Reader) /\ WF_vars(Server)

-----------------------------------------------------------------------------
\* Client and server agree on the capabilities once the negotiation is over, however the
\* list was split over lines and whatever was refused, unless CAPTimeout cut it short:
\* batchNegotiated and labelNegotiated decide from them how every line is understood.
CapsAgree == main \in {"nick", "await", "ok"} /\ ~timedOut => capsAcked = enabled

\* "SASL credentials to log in with (failure is fatal by default)": Connect returns nil
\* only after the server has accepted the credentials, unless CAPTimeout passed.
SASLFatal == main = "ok" /\ UseSASL /\ ~SASLOptional /\ ~timedOut => authenticated

\* "make SASL failure non-fatal": over a connection that is not lost, and without a
\* timeout, SASL is the only thing that can fail, and Connect does not.
OptionalIsNonFatal == SASLOptional /\ ~Lossy /\ ~timedOut => main # "failed"

\* What the client encodes is what the server's buffer gives back, however the chunks fall
\* and whatever other messages come between them; the buffer refuses it only if it exceeds
\* the limit, counting the padding of its last group, and never holds more than the limit.
SASLIntact ==
    /\ sasl.phase = "over" =>
         IF sasl.err = NoError THEN sasl.output = response[1]
         ELSE sasl.limit # 0 /\ 3 * GroupCount(Len(response[1])) > sasl.limit
    /\ sasl.limit # 0 => Len(sasl.buf) <= sasl.limit /\ Len(sasl.output) <= sasl.limit

\* Client and server never wait for each other: with nothing in transit, a client that
\* waits for the outcome of SASL has it.  A server left waiting for one more chunk would
\* cost CAPTimeout and, by default, the connection.
SASLProgress ==
    main = "sasl" /\ toServer = <<>> /\ toClient = <<>> /\ ~closed => saslChan # <<>>

\* Connect returns: no answer of the server is dropped from a full channel, which would
\* leave negotiateCaps counting for ever (the first answer has stopped the timer).
ConnectReturns == <>(main \in {"ok", "failed"})
=============================================================================
