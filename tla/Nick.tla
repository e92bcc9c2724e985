-------------------------------- MODULE Nick --------------------------------
(***************************************************************************)
(* Nicknames and ISUPPORT in ircevent: SetNick, PreferredNick, CurrentNick, *)
(* the renick of processTick and what Connect does (irc.go),                *)
(* handleUnavailableNick, handleRplWelcome, the callback for NICK,          *)
(* handleISupport and handleRegistration (irc_callback.go), against a       *)
(* server (external) that decides who has which nick.  Critical sections of *)
(* stateMutex and sends are separate steps: a nick may be sent after the    *)
(* preferred one has changed.                                              *)
(***************************************************************************)
EXTENDS Naturals, Sequences, SequencesExt

CONSTANTS
    Preferred,  \* nicks the client may ask for
    Contested,  \* nicks other users may take
    Guest,      \* the nick the server may force on the client
    NoNick,     \* the empty string
    MaxGen, MaxSetNick, MaxEarly, MaxQueue  \* bounds

ASSUME NickAssumption ==
    Preferred # {} /\ NoNick \notin Preferred \cup Contested \cup {Guest}
    /\ Guest \notin Preferred \cup Contested
ASSUME BoundsAssumption == {MaxGen, MaxSetNick, MaxEarly, MaxQueue} \subseteq Nat

VARIABLES
    nick,           \* irc.Nick
    currentNick,    \* irc.currentNick
    nickCounter,    \* irc.nickCounter
    registered,     \* irc.registered
    isupportPartial, isupport, \* sets of tokens in a sequence of one, <<>> for nil
    gen,            \* number of the connection
    main,           \* where Connect is, and the nick it has read
    setter,         \* the same for SetNick ...
    pinger,         \* ... for processTick ...
    reader,         \* ... and for handleUnavailableNick
    setNicks, early,  \* calls of SetNick so far; ticks before registration
    toServer, toClient,
    serverNick,     \* the client's nick, for the server
    status,         \* how far registration is, for the server
    taken           \* nicks of other users

nickVars   == <<nick, currentNick, nickCounter>>
isVars     == <<registered, isupportPartial, isupport>>
actorVars  == <<main, setter, pinger, reader, setNicks, early, gen>>
serverVars == <<serverNick, status, taken>>
vars == <<nickVars, isVars, actorVars, serverVars, toServer, toClient>>

Idle == [pc |-> "idle", nick |-> NoNick]
Holding(pc, n) == [pc |-> pc, nick |-> n]

\* fmt.Sprintf("%s_%d", irc.Nick, irc.nickCounter): a nick is the sequence of its parts.
Alternative(n, counter) == Append(n, counter)

Msg(kind, a, b) == <<kind, a, b>>
Up == main.pc # "down"
Write(kind, n) == toServer' = IF Up THEN Append(toServer, Msg(kind, n, NoNick)) ELSE toServer

Init ==
    /\ nick \in Preferred /\ currentNick = NoNick /\ nickCounter = 0
    /\ registered = FALSE /\ isupportPartial = <<>> /\ isupport = <<>>
    /\ gen = 0 /\ main = Holding("down", NoNick) /\ setter = Idle /\ pinger = Idle
    /\ reader = Idle /\ setNicks = 0 /\ early = 0
    /\ toServer = <<>> /\ toClient = <<>>
    /\ serverNick = NoNick /\ status = "new" /\ taken \in SUBSET Contested

-----------------------------------------------------------------------------
(* Connect                                                                 *)

\* Both critical sections of Connect; the connection is new to the server.
Connect ==
    /\ ~Up /\ gen < MaxGen /\ gen' = gen + 1
    /\ main' = Holding("identify", NoNick) /\ pinger' = Idle /\ reader' = Idle
    /\ currentNick' = NoNick
    /\ registered' = FALSE /\ isupportPartial' = <<{}>> /\ isupport' = <<>>
    /\ toServer' = <<>> /\ toClient' = <<>> /\ serverNick' = NoNick /\ status' = "new"
    /\ UNCHANGED <<nick, nickCounter, setter, setNicks, early, taken>>

\* PreferredNick is called, then its result is sent, and USER.
Identify ==
    /\ main.pc = "identify" /\ main' = Holding("send", nick)
    /\ UNCHANGED <<nickVars, isVars, setter, pinger, reader, setNicks, early, gen,
                   serverVars, toServer, toClient>>

SendIdentity ==
    /\ main.pc = "send" /\ main' = Holding("await", NoNick)
    /\ toServer' = toServer \o <<Msg("NICK", main.nick, NoNick), Msg("USER", NoNick, NoNick)>>
    /\ UNCHANGED <<nickVars, isVars, setter, pinger, reader, setNicks, early, gen,
                   serverVars, toClient>>

\* welcomeChan is signalled once registered is set.
Welcomed ==
    /\ main.pc = "await" /\ registered /\ main' = Holding("ok", NoNick)
    /\ UNCHANGED <<nickVars, isVars, setter, pinger, reader, setNicks, early, gen,
                   serverVars, toServer, toClient>>

\* A timeout, an error or Reconnect: the goroutines of the connection stop, and what was
\* under way is lost.
Lose ==
    /\ Up /\ gen < MaxGen /\ main' = Holding("down", NoNick) /\ pinger' = Idle
    /\ reader' = Idle
    /\ toServer' = <<>> /\ toClient' = <<>>
    /\ UNCHANGED <<nickVars, isVars, setter, setNicks, early, gen, serverVars>>

-----------------------------------------------------------------------------
(* SetNick and processTick                                                 *)

SetNick(n) ==
    /\ setter = Idle /\ setNicks < MaxSetNick /\ setNicks' = setNicks + 1
    /\ nick' = n /\ setter' = Holding("send", n)
    /\ UNCHANGED <<currentNick, nickCounter, isVars, main, pinger, reader, early, gen,
                   serverVars, toServer, toClient>>

SendSetNick ==
    /\ setter.pc = "send" /\ setter' = Idle
    /\ Write("NICK", setter.nick)
    /\ UNCHANGED <<nickVars, isVars, main, pinger, reader, setNicks, early, gen, serverVars,
                   toClient>>

\* A keepalive tick compares the nicks; before registration it finds them different.
Tick ==
    /\ Up /\ pinger = Idle /\ currentNick # nick /\ Len(toServer) < MaxQueue
    /\ registered \/ early < MaxEarly
    /\ early' = IF registered THEN early ELSE early + 1
    /\ pinger' = Holding("read", NoNick)
    /\ UNCHANGED <<nickVars, isVars, main, setter, reader, setNicks, gen, serverVars,
                   toServer, toClient>>

\* Mutant: CurrentNick is called.
TickReadCurrent ==
    /\ pinger.pc = "read" /\ pinger' = Holding("send", currentNick)
    /\ UNCHANGED <<nickVars, isVars, main, setter, reader, setNicks, early, gen, serverVars,
                   toServer, toClient>>

\* After the lock is released, PreferredNick is called ...
TickRead ==
    /\ pinger.pc = "read" /\ pinger' = Holding("send", nick)
    /\ UNCHANGED <<nickVars, isVars, main, setter, reader, setNicks, early, gen, serverVars,
                   toServer, toClient>>

\* ... and its result sent.
TickSend ==
    /\ pinger.pc = "send" /\ pinger' = Idle
    /\ Write("NICK", pinger.nick)
    /\ UNCHANGED <<nickVars, isVars, main, setter, reader, setNicks, early, gen, serverVars,
                   toClient>>

-----------------------------------------------------------------------------
(* readLoop                                                                *)

Receive(kind) ==
    /\ Up /\ reader = Idle /\ toClient # <<>> /\ Head(toClient)[1] = kind
    /\ toClient' = Tail(toClient)

\* Mutant: the counter stays.
handleUnavailableNickSame ==
    /\ Receive("433")
    /\ reader' = IF currentNick = NoNick THEN Holding("send", Alternative(nick, nickCounter))
                                        ELSE Idle
    /\ UNCHANGED <<nickVars, isVars, main, setter, pinger, setNicks, early, gen, serverVars,
                   toServer>>

\* ERR_NICKNAMEINUSE, ERR_UNAVAILRESOURCE: the critical section ...
handleUnavailableNick ==
    /\ Receive("433")
    /\ IF currentNick = NoNick
       THEN /\ nickCounter' = nickCounter + 1
            /\ reader' = Holding("send", Alternative(nick, nickCounter))
       ELSE UNCHANGED <<nickCounter, reader>>
    /\ UNCHANGED <<nick, currentNick, isVars, main, setter, pinger, setNicks, early, gen,
                   serverVars, toServer>>

\* ... and the send after it.
SendAlternative ==
    /\ reader.pc = "send" /\ reader' = Idle
    /\ Write("NICK", reader.nick)
    /\ UNCHANGED <<nickVars, isVars, main, setter, pinger, setNicks, early, gen, serverVars,
                   toClient>>

handleRplWelcome ==
    /\ Receive("001") /\ currentNick' = Head(toClient)[2]
    /\ UNCHANGED <<nick, nickCounter, isVars, actorVars, serverVars, toServer>>

\* Mutant: whose nick it was is compared with the preferred one.
handleNICKPreferred ==
    /\ Receive("NICK")
    /\ currentNick' = IF Head(toClient)[2] = nick THEN Head(toClient)[3] ELSE currentNick
    /\ UNCHANGED <<nick, nickCounter, isVars, actorVars, serverVars, toServer>>

\* The callback for NICK; only readLoop writes currentNick while it runs.
handleNICK ==
    /\ Receive("NICK")
    /\ currentNick' = IF Head(toClient)[2] = currentNick THEN Head(toClient)[3] ELSE currentNick
    /\ UNCHANGED <<nick, nickCounter, isVars, actorVars, serverVars, toServer>>

\* Mutant: tokens are published as they come.
handleISupportEarly ==
    /\ Receive("005")
    /\ isupportPartial' = IF isupportPartial = <<>> THEN <<>>
                          ELSE <<isupportPartial[1] \cup {Head(toClient)[2]}>>
    /\ isupport' = IF isupportPartial = <<>> THEN isupport ELSE isupportPartial'
    /\ UNCHANGED <<nickVars, registered, actorVars, serverVars, toServer>>

\* RPL_ISUPPORT: tokens are collected until registration is complete.
handleISupport ==
    /\ Receive("005")
    /\ isupportPartial' = IF isupportPartial = <<>> THEN <<>>
                          ELSE <<isupportPartial[1] \cup {Head(toClient)[2]}>>
    /\ UNCHANGED <<nickVars, registered, isupport, actorVars, serverVars, toServer>>

\* RPL_ENDOFMOTD, ERR_NOMOTD (also in answer to a later MOTD).
handleRegistration ==
    /\ Receive("376")
    /\ IF registered
       THEN UNCHANGED isVars
       ELSE registered' = TRUE /\ isupport' = isupportPartial /\ isupportPartial' = <<>>
    /\ UNCHANGED <<nickVars, actorVars, serverVars, toServer>>

-----------------------------------------------------------------------------
(* The server and the other users                                          *)

Tokens == {"CHANTYPES", "NICKLEN"}
Reply(msgs) == toClient' = toClient \o msgs
\* It reads while the client does (a bound): others add to toClient only below MaxQueue.
Handle(kind) ==
    /\ Up /\ Len(toClient) <= MaxQueue /\ toServer # <<>> /\ Head(toServer)[1] = kind
    /\ toServer' = Tail(toServer)

\* A nick of another user is refused, the client's own is not worth a reply.
ServerNick ==
    /\ Handle("NICK")
    /\ LET n == Head(toServer)[2] IN
         IF n \in taken THEN Reply(<<Msg("433", n, NoNick)>>) /\ UNCHANGED serverNick
         ELSE /\ serverNick' = n
              /\ Reply(IF status = "welcomed" /\ n # serverNick
                       THEN <<Msg("NICK", serverNick, n)>> ELSE <<>>)
    /\ UNCHANGED <<nickVars, isVars, actorVars, status, taken>>

ServerUser ==
    /\ Handle("USER") /\ status' = "user"
    /\ UNCHANGED <<nickVars, isVars, actorVars, serverNick, taken, toClient>>

\* The end of registration; more of 005 and 376 may follow at any time.
ServerWelcome ==
    /\ Up /\ status = "user" /\ serverNick # NoNick /\ status' = "welcomed"
    /\ Reply(<<Msg("001", serverNick, NoNick), Msg("005", "CHANTYPES", NoNick),
               Msg("005", "NICKLEN", NoNick), Msg("376", NoNick, NoNick),
               Msg("005", "later", NoNick), Msg("376", NoNick, NoNick)>>)
    /\ UNCHANGED <<nickVars, isVars, actorVars, serverNick, taken, toServer>>

\* Services rename the client.
ServerRename ==
    /\ Up /\ status = "welcomed" /\ serverNick # Guest /\ Len(toClient) < MaxQueue
    /\ serverNick' = Guest /\ Reply(<<Msg("NICK", serverNick, Guest)>>)
    /\ UNCHANGED <<nickVars, isVars, actorVars, status, taken, toServer>>

\* Another user comes, goes, or changes its nick in sight of the client.
OtherUser ==
    /\ \/ \E n \in Contested \ (taken \cup {serverNick}) :
             taken' = taken \cup {n} /\ UNCHANGED toClient
       \/ \E n \in taken : taken' = taken \ {n} /\ UNCHANGED toClient
       \/ \E n \in taken, m \in Contested \ (taken \cup {serverNick}) :
             /\ Up /\ status = "welcomed" /\ Len(toClient) < MaxQueue
             /\ taken' = (taken \ {n}) \cup {m} /\ Reply(<<Msg("NICK", n, m)>>)
    /\ UNCHANGED <<nickVars, isVars, actorVars, serverNick, status, toServer>>

-----------------------------------------------------------------------------
Main == Connect \/ Identify \/ SendIdentity \/ Welcomed
Reader == handleUnavailableNick \/ SendAlternative \/ handleRplWelcome \/ handleNICK
          \/ handleISupport \/ handleRegistration
Server == ServerNick \/ ServerUser \/ ServerWelcome

Next ==
    \/ Main \/ Lose \/ SendSetNick \/ Tick \/ TickRead \/ TickSend \/ Reader
    \/ \E n \in Preferred : SetNick(n)
    \/ Server \/ ServerRename \/ OtherUser

\* Goroutines run, the ticker ticks, and the server deals with what it gets.  Nobody need
\* change a nick or lose a connection.
Spec ==
    /\ Init /\ [][Next]_vars
    /\ WF_vars(Main) /\ WF_vars(SendSetNick) /\ WF_vars(Tick) /\ WF_vars(TickRead)
    /\ WF_vars(TickSend) /\ WF_vars(Reader) /\ WF_vars(Server)

-----------------------------------------------------------------------------
\* CurrentNick tells the truth: what is in transit brings it from the client's view to the
\* server's, through refusals, renames by either side and other users who take a nick the
\* client has just left.
NickAgree ==
    Up /\ status = "welcomed" /\ toClient = <<>> => currentNick = serverNick

\* ISupport returns nil or everything the server announced during registration, never a
\* part of it and never what came later.
ISupportComplete ==
    Up => isupport = <<>> \/ isupport = <<Tokens>>

\* Registration succeeds although nicks are in use: Connect gets its welcome.
Registers == <>(main.pc = "ok")

\* "if the real nickname is different, the client will periodically attempt to change to
\* this one": if the preferred nick is free for good, the client has it again and again,
\* whatever stale nick was sent last.
PreferredRestored == <>[](nick \notin taken) => []<>(serverNick = nick)
=============================================================================
