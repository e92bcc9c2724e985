----------------------------- MODULE NickProofs -----------------------------
(***************************************************************************)
(* The client's nick and ISUPPORT, for every set of nicks and any number of *)
(* connections, renames and retries: what is in transit explains every      *)
(* difference between the client's view and the server's.                  *)
(***************************************************************************)
EXTENDS Nick, SequenceLemmas

\* What a line makes of the client's view of its nick (handleRplWelcome, the NICK callback).
Apply(m, n) ==
    IF m[1] = "001" THEN m[2] ELSE IF m[1] = "NICK" /\ m[2] = n THEN m[3] ELSE n

\* Lines take the client's view from a to b.
Path(lines, a, b) ==
    \E view : /\ view[0] = a /\ view[Len(lines)] = b
              /\ \A i \in 1 .. Len(lines) : view[i] = Apply(lines[i], view[i - 1])

Queues == toClient \in Seq(Range(toClient)) /\ toServer \in Seq(Range(toServer))

\* A user registers once: USER is sent once, and dealt with once.
UserOnce ==
    Up =>
      /\ status \in {"new", "user", "welcomed"}
      /\ \A i, j \in DOMAIN toServer : toServer[i][1] = "USER" /\ toServer[j][1] = "USER" => i = j
      /\ main.pc \in {"identify", "send"} \/ status # "new" =>
            \A i \in DOMAIN toServer : toServer[i][1] # "USER"
      /\ main.pc \in {"identify", "send"} => status = "new"

\* Until the server has welcomed the client, it only refuses nicks.
BeforeWelcome ==
    Up /\ status # "welcomed" =>
      /\ \A i \in DOMAIN toClient : toClient[i][1] = "433"
      /\ ~registered /\ isupport = <<>> /\ isupportPartial = <<{}>>

NotTaken == taken \subseteq Contested /\ serverNick \notin taken

\* The lines in transit take the client's nick to the server's.
NickInTransit == Up /\ status = "welcomed" => Path(toClient, currentNick, serverNick)

\* What 005 lines before position k carry.
TokensBefore(k) == {toClient[j][2] : j \in {i \in 1 .. k - 1 : toClient[i][1] = "005"}}

\* What has been collected and what comes before the next 376 are the server's tokens.
TokensInTransit ==
    Up /\ status = "welcomed" =>
      IF registered
      THEN isupport = <<Tokens>> /\ isupportPartial = <<>>
      ELSE /\ isupport = <<>> /\ isupportPartial # <<>>
           /\ \E k \in 1 .. Len(toClient) :
                 /\ toClient[k][1] = "376" /\ \A j \in 1 .. k - 1 : toClient[j][1] # "376"
                 /\ isupportPartial = <<isupportPartial[1]>>
                 /\ isupportPartial[1] \cup TokensBefore(k) = Tokens

\* The inductive invariant.
IInv == Queues /\ UserOnce /\ BeforeWelcome /\ NotTaken /\ NickInTransit /\ TokensInTransit

USE NickAssumption, BoundsAssumption
USE DEF nickVars, isVars, actorVars, serverVars

-----------------------------------------------------------------------------
(* Paths                                                                   *)

\* One line more.
LEMMA AppendPath ==
    ASSUME NEW s, s \in Seq(Range(s)), NEW a, NEW b, Path(s, a, b), NEW m
    PROVE  Path(Append(s, m), a, Apply(m, b))
<1>1. PICK v : /\ v[0] = a /\ v[Len(s)] = b
               /\ \A i \in 1 .. Len(s) : v[i] = Apply(s[i], v[i - 1])
  BY DEF Path
<1>2. /\ Len(s) \in Nat /\ Len(Append(s, m)) = Len(s) + 1
      /\ \A i \in 1 .. Len(s) : Append(s, m)[i] = s[i]
      /\ Append(s, m)[Len(s) + 1] = m
  BY AppendFacts
<1> DEFINE view == [i \in 0 .. Len(s) + 1 |-> IF i = Len(s) + 1 THEN Apply(m, b) ELSE v[i]]
           t == Append(s, m)
           n == Len(s)
<1>3. view[0] = a /\ view[n] = b /\ view[n + 1] = Apply(m, b)
  BY <1>1, <1>2
<1>4. \A i \in 1 .. n : view[i] = v[i] /\ view[i - 1] = v[i - 1]
  BY <1>2
<1> HIDE DEF view, t, n
<1>5. n \in Nat /\ Len(t) = n + 1 /\ t[n + 1] = m
  BY <1>2 DEF t, n
<1>6. \A i \in 1 .. n : t[i] = s[i] /\ v[i] = Apply(s[i], v[i - 1])
  BY <1>1, <1>2 DEF t, n
<1>7. \A i \in 1 .. Len(t) : view[i] = Apply(t[i], view[i - 1])
  <2> TAKE i \in 1 .. Len(t)
  <2>1. CASE i \in 1 .. n
    BY <1>4, <1>6, <2>1
  <2>2. CASE i = n + 1
    <3>1. i - 1 = n
      BY <1>5, <2>2
    <3> QED
      BY <1>3, <1>5, <2>2, <3>1
  <2> QED
    BY <1>5, <2>1, <2>2
<1>8. Path(t, a, Apply(m, b))
  BY <1>3, <1>5, <1>7 DEF Path
<1> QED
  BY <1>8 DEF t

\* One line less.
LEMMA TailPath ==
    ASSUME NEW s, s \in Seq(Range(s)), s # <<>>, NEW a, NEW b, Path(s, a, b)
    PROVE  Path(Tail(s), Apply(Head(s), a), b)
<1>1. PICK v : /\ v[0] = a /\ v[Len(s)] = b
               /\ \A i \in 1 .. Len(s) : v[i] = Apply(s[i], v[i - 1])
  BY DEF Path
<1>2. /\ Len(s) \in Nat \ {0} /\ Head(s) = s[1] /\ Len(Tail(s)) = Len(s) - 1
      /\ \A i \in 1 .. Len(s) - 1 : Tail(s)[i] = s[i + 1]
  BY TailFacts
<1> DEFINE view == [i \in 0 .. Len(s) - 1 |-> v[i + 1]]
           t == Tail(s)
<1>3. view[0] = Apply(Head(s), a) /\ view[Len(s) - 1] = b
  BY <1>1, <1>2
<1>4. \A i \in 1 .. Len(s) - 1 : view[i] = v[i + 1] /\ view[i - 1] = v[i]
  BY <1>2
<1>5. \A i \in 1 .. Len(s) - 1 : v[i + 1] = Apply(s[i + 1], v[i])
  <2> TAKE i \in 1 .. Len(s) - 1
  <2>1. i + 1 \in 1 .. Len(s) /\ (i + 1) - 1 = i
    BY <1>2
  <2> QED
    BY <1>1, <2>1
<1> HIDE DEF view, t
<1>6. Len(t) = Len(s) - 1 /\ \A i \in 1 .. Len(t) : view[i] = Apply(t[i], view[i - 1])
  BY <1>2, <1>4, <1>5 DEF t
<1>7. Path(t, Apply(Head(s), a), b)
  BY <1>3, <1>6 DEF Path
<1> QED
  BY <1>7 DEF t

\* RPL_WELCOME sets the nick, whatever the client believed.
LEMMA WelcomePath ==
    ASSUME NEW s, s \in Seq(Range(s)), NEW n \in Nat \ {0}, NEW t, DOMAIN t = 1 .. n,
           t \in Seq(Range(t)), NEW a, NEW b,
           \A i \in DOMAIN s : s[i][1] # "001" /\ s[i][1] # "NICK",
           t[1][1] = "001", t[1][2] = b,
           \A i \in 2 .. n : t[i][1] # "001" /\ t[i][1] # "NICK"
    PROVE  Path(s \o t, a, b)
<1> DEFINE m == Len(s)
           u == s \o t
           view == [i \in 0 .. m + n |-> IF i <= m THEN a ELSE b]
<1>1. /\ u \in Seq(Range(u)) /\ DOMAIN s = 1 .. m /\ m \in Nat /\ DOMAIN u = 1 .. m + n
      /\ \A i \in 1 .. m : u[i] = s[i]
      /\ \A i \in 1 .. n : u[m + i] = t[i]
  BY ConcatFacts
<1>2. view[0] = a /\ view[m + n] = b
  BY <1>1
<1> HIDE DEF u, m
<1>3. Len(u) = m + n
  BY <1>1
<1>4. \A i \in 1 .. m + n : view[i] = Apply(u[i], view[i - 1])
  <2> TAKE i \in 1 .. m + n
  <2>1. CASE i <= m
    <3>1. u[i] = s[i] /\ view[i] = a /\ view[i - 1] = a /\ i \in DOMAIN s
      BY <1>1, <2>1
    <3> QED
      BY <3>1 DEF Apply
  <2>2. CASE i = m + 1
    <3>1. u[i] = t[1] /\ view[i] = b
      BY <1>1, <2>2
    <3> QED
      BY <3>1 DEF Apply
  <2>3. CASE i > m + 1
    <3>1. i - m \in 2 .. n /\ i = m + (i - m)
      BY <1>1, <2>3
    <3>2. u[i] = t[i - m]
      BY <1>1, <3>1
    <3>3. view[i] = b /\ view[i - 1] = b
      BY <1>1, <2>3
    <3> QED
      BY <3>1, <3>2, <3>3 DEF Apply
  <2> QED
    BY <1>1, <2>1, <2>2, <2>3
<1>5. Path(u, a, b)
  BY <1>2, <1>3, <1>4 DEF Path
<1> QED
  BY <1>5 DEF u

-----------------------------------------------------------------------------
(* Steps                                                                   *)

\* Nothing is connected at first.
LEMMA InitIInv == Init => IInv
  BY DEF Init, IInv, Queues, UserOnce, BeforeWelcome, NotTaken, NickInTransit, TokensInTransit, Up,
         Holding

\* A step that leaves the server and what it has sent alone.
LEMMA QuietIInv ==
    ASSUME IInv, Queues', UserOnce', Up' => Up,
           UNCHANGED <<toClient, currentNick, serverNick, status, taken, isVars>>
    PROVE  IInv'
<1>1. BeforeWelcome' /\ NotTaken'
  BY DEF IInv, BeforeWelcome, NotTaken
<1>2. NickInTransit'
  BY DEF IInv, NickInTransit
<1>3. TokensInTransit'
  BY DEF IInv, TokensInTransit, TokensBefore
<1> QED
  BY <1>1, <1>2, <1>3 DEF IInv

\* Writing a line that is not USER.
LEMMA WriteFacts ==
    ASSUME IInv, NEW kind, NEW n, kind # "USER", Write(kind, n), Up' <=> Up,
           status' = status, main'.pc \in {"identify", "send"} => main.pc \in {"identify", "send"}
    PROVE  toServer' \in Seq(Range(toServer')) /\ UserOnce'
<1>1. CASE Up
  <2>1. toServer' = Append(toServer, Msg(kind, n, NoNick))
    BY <1>1 DEF Write
  <2>2. toServer \in Seq(Range(toServer))
    BY DEF IInv, Queues
  <2>3. /\ toServer' \in Seq(Range(toServer')) /\ DOMAIN toServer = 1 .. Len(toServer)
        /\ Len(toServer) \in Nat
        /\ DOMAIN toServer' = 1 .. Len(toServer) + 1
        /\ \A i \in DOMAIN toServer : toServer'[i] = toServer[i]
        /\ toServer'[Len(toServer) + 1] = Msg(kind, n, NoNick)
    BY <2>1, <2>2, AppendFacts
  <2>4. \A i \in DOMAIN toServer' : toServer'[i][1] = "USER" =>
           i \in DOMAIN toServer /\ toServer'[i] = toServer[i]
    <3>1. Msg(kind, n, NoNick)[1] = kind
      BY DEF Msg
    <3> QED
      BY <2>3, <3>1
  <2>5. UserOnce'
    BY <1>1, <2>4 DEF IInv, UserOnce
  <2> QED
    BY <2>3, <2>5
<1>2. CASE ~Up
  BY <1>2 DEF Write, IInv, Queues, UserOnce
<1> QED
  BY <1>1, <1>2

\* Connect, SetNick and processTick.
LEMMA ClientIInv ==
    ASSUME IInv,
           \/ Main \/ Lose \/ SendSetNick \/ Tick \/ TickRead \/ TickSend
           \/ \E n \in Preferred : SetNick(n)
    PROVE  IInv'
<1>1. CASE Connect
  <2>1. serverNick' \notin taken' /\ taken' \subseteq Contested
    BY <1>1 DEF Connect, IInv, NotTaken
  <2> QED
    BY <1>1, <2>1 DEF Connect, IInv, Queues, UserOnce, BeforeWelcome, NotTaken, NickInTransit,
                      TokensInTransit, Up, Holding
<1>2. CASE Lose
  <2>1. ~Up'
    BY <1>2 DEF Lose, Up, Holding
  <2> QED
    BY <1>2, <2>1 DEF Lose, IInv, Queues, UserOnce, BeforeWelcome, NotTaken, NickInTransit,
                      TokensInTransit
<1>3. CASE Identify \/ Welcomed
  <2>1. Queues' /\ UserOnce' /\ (Up' => Up)
    BY <1>3 DEF Identify, Welcomed, IInv, Queues, UserOnce, Up, Holding
  <2> QED
    BY <1>3, <2>1, QuietIInv DEF Identify, Welcomed
<1>4. CASE SetNick(nick') \/ Tick \/ TickRead
  <2>1. Queues' /\ UserOnce' /\ (Up' => Up)
    BY <1>4 DEF SetNick, Tick, TickRead, IInv, Queues, UserOnce, Up
  <2> QED
    BY <1>4, <2>1, QuietIInv DEF SetNick, Tick, TickRead
<1>5. CASE SendSetNick
  <2>1. Up' <=> Up
    BY <1>5 DEF SendSetNick, Up
  <2>2. Queues' /\ UserOnce'
    BY <1>5, <2>1, WriteFacts DEF SendSetNick, IInv, Queues
  <2> QED
    BY <1>5, <2>1, <2>2, QuietIInv DEF SendSetNick
<1>6. CASE TickSend
  <2>1. Up' <=> Up
    BY <1>6 DEF TickSend, Up
  <2>2. Queues' /\ UserOnce'
    BY <1>6, <2>1, WriteFacts DEF TickSend, IInv, Queues
  <2> QED
    BY <1>6, <2>1, <2>2, QuietIInv DEF TickSend
<1>7. CASE SendIdentity
  <2>1. Up /\ Up'
    BY <1>7 DEF SendIdentity, Up, Holding
  <2> DEFINE t == <<Msg("NICK", main.nick, NoNick), Msg("USER", NoNick, NoNick)>>
  <2>2. /\ toServer' = toServer \o t /\ main'.pc = "await" /\ status' = status /\ toClient' = toClient
        /\ main.pc = "send"
    BY <1>7 DEF SendIdentity, Holding
  <2>3. DOMAIN t = 1 .. 2 /\ t \in Seq(Range(t)) /\ t[1][1] = "NICK"
    <3>1. t \in Seq({t[1], t[2]})
      OBVIOUS
    <3>2. t \in Seq(Range(t))
      BY <3>1, OfOwnElements
    <3>3. DOMAIN t = 1 .. 2
      OBVIOUS
    <3>4. t[1][1] = "NICK"
      BY DEF Msg
    <3> QED
      BY <3>2, <3>3, <3>4
  <2>4. toServer \in Seq(Range(toServer))
    BY DEF IInv, Queues
  <2> HIDE DEF t
  <2>5. PICK n \in Nat : n = 2
    OBVIOUS
  <2>6. DOMAIN t = 1 .. n
    BY <2>3, <2>5
  <2>7. /\ toServer' \in Seq(Range(toServer')) /\ DOMAIN toServer = 1 .. Len(toServer)
        /\ Len(toServer) \in Nat
        /\ DOMAIN toServer' = 1 .. Len(toServer) + n
        /\ \A i \in DOMAIN toServer : toServer'[i] = toServer[i]
        /\ \A i \in 1 .. n : toServer'[Len(toServer) + i] = t[i]
    BY <2>2, <2>3, <2>4, <2>6, ConcatFacts
  <2>8. \A i \in DOMAIN toServer : toServer'[i][1] # "USER"
    BY <2>1, <2>2, <2>7 DEF IInv, UserOnce
  <2>9. toServer'[Len(toServer) + 1][1] = "NICK"
    BY <2>3, <2>5, <2>7
  <2>10. \A i \in DOMAIN toServer' : toServer'[i][1] = "USER" => i = Len(toServer) + 2
    BY <2>5, <2>7, <2>8, <2>9
  <2>11. status = "new"
    BY <2>1, <2>2 DEF IInv, UserOnce
  <2>12. UserOnce'
    BY <2>2, <2>10, <2>11 DEF UserOnce
  <2>13. Queues'
    BY <2>2, <2>7 DEF IInv, Queues
  <2> QED
    BY <1>7, <2>1, <2>12, <2>13, QuietIInv DEF SendIdentity
<1>8. ASSUME NEW n \in Preferred, SetNick(n) PROVE IInv'
  BY <1>8, <1>4 DEF SetNick
<1> QED
  BY <1>1, <1>2, <1>3, <1>4, <1>5, <1>6, <1>7, <1>8 DEF Main
\* Taking a line takes it off the path.
LEMMA ReceiveFacts ==
    ASSUME IInv, NEW kind, Receive(kind), main' = main, status' = status
    PROVE  /\ toClient' \in Seq(Range(toClient')) /\ Up /\ Up' /\ Head(toClient)[1] = kind
           /\ kind # "433" => status = "welcomed"
           /\ status # "welcomed" => \A i \in DOMAIN toClient' : toClient'[i][1] = "433"
           /\ status = "welcomed" => Path(toClient', Apply(Head(toClient), currentNick), serverNick)
<1>1. toClient \in Seq(Range(toClient)) /\ toClient # <<>> /\ toClient' = Tail(toClient)
  BY DEF Receive, IInv, Queues
<1>2. /\ Tail(toClient) \in Seq(Range(Tail(toClient)))
      /\ Len(toClient) \in Nat \ {0} /\ DOMAIN toClient = 1 .. Len(toClient)
      /\ Head(toClient) = toClient[1]
      /\ DOMAIN Tail(toClient) = 1 .. Len(toClient) - 1
      /\ \A i \in 1 .. Len(toClient) - 1 : Tail(toClient)[i] = toClient[i + 1]
  BY <1>1, TailFacts
<1>3. Up /\ Up' /\ Head(toClient)[1] = kind
  BY DEF Receive, Up
<1>4. kind # "433" => status = "welcomed"
  BY <1>2, <1>3 DEF IInv, BeforeWelcome
<1>5. status # "welcomed" => \A i \in DOMAIN toClient' : toClient'[i][1] = "433"
  <2> SUFFICES ASSUME status # "welcomed", NEW i \in DOMAIN toClient' PROVE toClient'[i][1] = "433"
    OBVIOUS
  <2>1. i + 1 \in DOMAIN toClient /\ toClient'[i] = toClient[i + 1]
    BY <1>1, <1>2
  <2> QED
    BY <1>3, <2>1 DEF IInv, BeforeWelcome
<1>6. status = "welcomed" => Path(toClient', Apply(Head(toClient), currentNick), serverNick)
  BY <1>1, <1>3, TailPath DEF IInv, NickInTransit
<1> QED
  BY <1>1, <1>2, <1>3, <1>4, <1>5, <1>6

\* Taking a line brings the next 376 closer; what a 005 carries must be collected.
LEMMA CollectFacts ==
    ASSUME IInv, NEW kind, Receive(kind), status = "welcomed", ~registered
    PROVE  /\ kind = "376" => isupportPartial = <<Tokens>>
           /\ kind # "376" => \E k \in 1 .. Len(toClient') :
                 /\ toClient'[k][1] = "376" /\ \A j \in 1 .. k - 1 : toClient'[j][1] # "376"
                 /\ isupportPartial[1] \cup (IF kind = "005" THEN {Head(toClient)[2]} ELSE {})
                       \cup TokensBefore(k)' = Tokens
<1>1. toClient \in Seq(Range(toClient)) /\ toClient # <<>> /\ toClient' = Tail(toClient)
  BY DEF Receive, IInv, Queues
<1>2. /\ Len(toClient) \in Nat \ {0} /\ Head(toClient) = toClient[1]
      /\ Len(toClient') = Len(toClient) - 1
      /\ \A i \in 1 .. Len(toClient) - 1 : toClient'[i] = toClient[i + 1]
  BY <1>1, TailFacts
<1>3. toClient[1][1] = kind
  BY <1>2 DEF Receive
<1>4. PICK k \in 1 .. Len(toClient) :
         /\ toClient[k][1] = "376" /\ \A j \in 1 .. k - 1 : toClient[j][1] # "376"
         /\ isupportPartial = <<isupportPartial[1]>>
         /\ isupportPartial[1] \cup TokensBefore(k) = Tokens
  BY DEF IInv, TokensInTransit, Receive
<1>5. CASE kind = "376"
  <2>1. k = 1
    BY <1>2, <1>3, <1>4, <1>5
  <2>2. TokensBefore(k) = {}
    BY <2>1 DEF TokensBefore
  <2>3. isupportPartial[1] = Tokens
    BY <1>4, <2>2
  <2> QED
    BY <1>4, <1>5, <2>3
<1>6. CASE kind # "376"
  <2>1. k - 1 \in 1 .. Len(toClient') /\ k \in Nat /\ (k - 1) + 1 = k
    BY <1>2, <1>3, <1>4, <1>6
  <2>2. toClient'[k - 1] = toClient[k]
    BY <1>2, <2>1
  <2>3. \A j \in 1 .. (k - 1) - 1 : toClient'[j] = toClient[j + 1] /\ j + 1 \in 1 .. k - 1
    BY <1>2, <2>1
  <2>4. \A j \in 1 .. (k - 1) - 1 : toClient'[j][1] # "376"
    BY <1>4, <2>3
  <2>5. TokensBefore(k) = (IF kind = "005" THEN {Head(toClient)[2]} ELSE {}) \cup TokensBefore(k - 1)'
    <3>1. ASSUME NEW x \in TokensBefore(k)
          PROVE  x \in (IF kind = "005" THEN {Head(toClient)[2]} ELSE {}) \cup TokensBefore(k - 1)'
      <4>1. PICK i \in 1 .. k - 1 : toClient[i][1] = "005" /\ x = toClient[i][2]
        BY DEF TokensBefore
      <4>2. CASE i = 1
        BY <1>2, <1>3, <4>1, <4>2
      <4>3. CASE i # 1
        <5>1. i - 1 \in 1 .. (k - 1) - 1 /\ (i - 1) + 1 = i
          BY <2>1, <4>3
        <5>2. toClient'[i - 1] = toClient[i]
          BY <2>3, <5>1
        <5> QED
          BY <4>1, <5>1, <5>2 DEF TokensBefore
      <4> QED
        BY <4>2, <4>3
    <3>2. ASSUME NEW x \in (IF kind = "005" THEN {Head(toClient)[2]} ELSE {})
          PROVE  x \in TokensBefore(k)
      BY <1>2, <1>3, <2>1, <3>2 DEF TokensBefore
    <3>3. ASSUME NEW x \in TokensBefore(k - 1)'
          PROVE  x \in TokensBefore(k)
      <4>1. PICK j \in 1 .. (k - 1) - 1 : toClient'[j][1] = "005" /\ x = toClient'[j][2]
        BY DEF TokensBefore
      <4> QED
        BY <2>3, <4>1 DEF TokensBefore
    <3> QED
      BY <3>1, <3>2, <3>3
  <2>6. isupportPartial[1] \cup (IF kind = "005" THEN {Head(toClient)[2]} ELSE {})
           \cup TokensBefore(k - 1)' = Tokens
    BY <1>4, <2>5
  <2> QED
    BY <1>4, <1>6, <2>1, <2>2, <2>4, <2>6
<1> QED
  BY <1>5, <1>6
\* Lines that are not about ISUPPORT.
LEMMA KeepTokens ==
    ASSUME IInv, NEW kind, Receive(kind), kind \notin {"005", "376"}, UNCHANGED <<isVars, status, main>>
    PROVE  TokensInTransit'
<1>1. Up /\ Up'
  BY DEF Receive, Up
<1>2. CASE status = "welcomed" /\ ~registered
  <2>1. isupport = <<>> /\ isupportPartial # <<>> /\ isupportPartial = <<isupportPartial[1]>>
    BY <1>1, <1>2 DEF IInv, TokensInTransit
  <2>2. PICK k \in 1 .. Len(toClient') :
           /\ toClient'[k][1] = "376" /\ \A j \in 1 .. k - 1 : toClient'[j][1] # "376"
           /\ isupportPartial[1] \cup {} \cup TokensBefore(k)' = Tokens
    BY <1>2, CollectFacts
  <2>3. isupportPartial'[1] \cup TokensBefore(k)' = Tokens
    BY <2>2
  <2> QED
    BY <1>2, <2>1, <2>2, <2>3 DEF TokensInTransit
<1>3. CASE ~(status = "welcomed" /\ ~registered)
  BY <1>1, <1>3 DEF IInv, TokensInTransit
<1> QED
  BY <1>2, <1>3

\* readLoop: each callback does to currentNick what Apply says.
LEMMA ReaderIInv == ASSUME IInv, Reader PROVE IInv'
<1>1. UNCHANGED <<main, status, serverNick, taken>>
  BY DEF Reader, handleUnavailableNick, SendAlternative, handleRplWelcome, handleNICK,
         handleISupport, handleRegistration
<1>2. NotTaken'
  BY <1>1 DEF IInv, NotTaken
<1>3. ASSUME toServer' = toServer PROVE toServer' \in Seq(Range(toServer')) /\ UserOnce'
  BY <1>1, <1>3 DEF IInv, Queues, UserOnce, Up
<1>4. CASE handleUnavailableNick
  <2>1. /\ toClient' \in Seq(Range(toClient')) /\ Up /\ Up' /\ Head(toClient)[1] = "433"
        /\ status # "welcomed" => \A i \in DOMAIN toClient' : toClient'[i][1] = "433"
        /\ status = "welcomed" => Path(toClient', Apply(Head(toClient), currentNick), serverNick)
    BY <1>1, <1>4, ReceiveFacts DEF handleUnavailableNick
  <2>2. Apply(Head(toClient), currentNick) = currentNick
    BY <2>1 DEF Apply
  <2>3. UNCHANGED <<currentNick, isVars>>
    BY <1>4 DEF handleUnavailableNick
  <2>4. toServer' \in Seq(Range(toServer')) /\ UserOnce'
    BY <1>3, <1>4 DEF handleUnavailableNick
  <2>5. BeforeWelcome' /\ NickInTransit'
    BY <1>1, <2>1, <2>2, <2>3 DEF IInv, BeforeWelcome, NickInTransit
  <2>6. TokensInTransit'
    BY <1>1, <1>4, <2>3, KeepTokens DEF handleUnavailableNick
  <2> QED
    BY <1>2, <2>1, <2>4, <2>5, <2>6 DEF IInv, Queues
<1>5. CASE handleRplWelcome \/ handleNICK
  <2>1. PICK kind \in {"001", "NICK"} :
           /\ Receive(kind)
           /\ currentNick' = IF kind = "001" THEN Head(toClient)[2]
                             ELSE IF Head(toClient)[2] = currentNick THEN Head(toClient)[3]
                             ELSE currentNick
    BY <1>5 DEF handleRplWelcome, handleNICK
  <2>2. /\ toClient' \in Seq(Range(toClient')) /\ Up /\ Up' /\ Head(toClient)[1] = kind
        /\ status = "welcomed"
        /\ Path(toClient', Apply(Head(toClient), currentNick), serverNick)
    BY <1>1, <2>1, ReceiveFacts
  <2>3. Apply(Head(toClient), currentNick) = currentNick'
    BY <2>1, <2>2 DEF Apply
  <2>4. UNCHANGED <<isVars, toServer>>
    BY <1>5 DEF handleRplWelcome, handleNICK
  <2>5. BeforeWelcome' /\ NickInTransit'
    BY <1>1, <2>2, <2>3 DEF BeforeWelcome, NickInTransit
  <2>6. TokensInTransit'
    BY <1>1, <2>1, <2>4, KeepTokens
  <2> QED
    BY <1>2, <1>3, <2>2, <2>4, <2>5, <2>6 DEF IInv, Queues
<1>6. CASE handleISupport
  <2>1. /\ toClient' \in Seq(Range(toClient')) /\ Up /\ Up' /\ Head(toClient)[1] = "005"
        /\ status = "welcomed"
        /\ Path(toClient', Apply(Head(toClient), currentNick), serverNick)
    BY <1>1, <1>6, ReceiveFacts DEF handleISupport
  <2>2. Apply(Head(toClient), currentNick) = currentNick
    BY <2>1 DEF Apply
  <2>3. UNCHANGED <<currentNick, registered, isupport, toServer>>
    BY <1>6 DEF handleISupport
  <2>4. BeforeWelcome' /\ NickInTransit'
    BY <1>1, <2>1, <2>2, <2>3 DEF BeforeWelcome, NickInTransit
  <2>5. TokensInTransit'
    <3>1. CASE ~registered
      <4>1. isupportPartial # <<>> /\ isupport = <<>>
        BY <2>1, <3>1 DEF IInv, TokensInTransit
      <4>2. isupportPartial' = <<isupportPartial[1] \cup {Head(toClient)[2]}>>
        BY <1>6, <4>1 DEF handleISupport
      <4>3. isupportPartial'[1] = isupportPartial[1] \cup {Head(toClient)[2]} /\ isupportPartial' # <<>>
        BY <4>2
      <4>4. PICK k \in 1 .. Len(toClient') :
               /\ toClient'[k][1] = "376" /\ \A j \in 1 .. k - 1 : toClient'[j][1] # "376"
               /\ isupportPartial[1] \cup {Head(toClient)[2]} \cup TokensBefore(k)' = Tokens
        BY <1>6, <2>1, <3>1, CollectFacts DEF handleISupport
      <4> QED
        BY <1>1, <2>1, <2>3, <3>1, <4>1, <4>2, <4>3, <4>4 DEF TokensInTransit
    <3>2. CASE registered
      BY <1>1, <1>6, <2>1, <2>3, <3>2 DEF IInv, TokensInTransit, handleISupport
    <3> QED
      BY <3>1, <3>2
  <2> QED
    BY <1>2, <1>3, <2>1, <2>3, <2>4, <2>5 DEF IInv, Queues
<1>7. CASE handleRegistration
  <2>1. /\ toClient' \in Seq(Range(toClient')) /\ Up /\ Up' /\ Head(toClient)[1] = "376"
        /\ status = "welcomed"
        /\ Path(toClient', Apply(Head(toClient), currentNick), serverNick)
    BY <1>1, <1>7, ReceiveFacts DEF handleRegistration
  <2>2. Apply(Head(toClient), currentNick) = currentNick
    BY <2>1 DEF Apply
  <2>3. UNCHANGED <<currentNick, toServer>>
    BY <1>7 DEF handleRegistration
  <2>4. BeforeWelcome' /\ NickInTransit'
    BY <1>1, <2>1, <2>2, <2>3 DEF BeforeWelcome, NickInTransit
  <2>5. TokensInTransit'
    <3>1. CASE ~registered
      BY <1>7, <2>1, <3>1, CollectFacts DEF TokensInTransit, handleRegistration
    <3>2. CASE registered
      BY <1>1, <1>7, <2>1, <3>2 DEF IInv, TokensInTransit, handleRegistration
    <3> QED
      BY <3>1, <3>2
  <2> QED
    BY <1>2, <1>3, <2>1, <2>3, <2>4, <2>5 DEF IInv, Queues
<1>8. CASE SendAlternative
  <2>1. Up' <=> Up
    BY <1>1 DEF Up
  <2>2. Queues' /\ UserOnce'
    BY <1>1, <1>8, <2>1, WriteFacts DEF SendAlternative, IInv, Queues
  <2> QED
    BY <1>8, <2>1, <2>2, QuietIInv DEF SendAlternative
<1> QED
  BY <1>4, <1>5, <1>6, <1>7, <1>8 DEF Reader

\* A reply of one line, or none.
LEMMA ConcatOne ==
    ASSUME NEW s, s \in Seq(Range(s)), NEW m
    PROVE  s \o <<m>> = Append(s, m) /\ s \o <<>> = s
<1> DEFINE S == Range(s) \cup {m}
<1>1. s \in Seq(S) /\ m \in S
  OBVIOUS
<1> HIDE DEF S
<1> QED
  BY <1>1

\* The server adds a line to the end of the path; the next 376 stays where it is.
LEMMA ReplyFacts ==
    ASSUME IInv, Up, NEW m, toClient' = toClient \o <<m>>, UNCHANGED <<main, isVars, status>>
    PROVE  /\ toClient' \in Seq(Range(toClient'))
           /\ status = "welcomed" => Path(toClient', currentNick, Apply(m, serverNick))
           /\ m[1] = "433" => BeforeWelcome'
           /\ TokensInTransit'
<1>1. toClient \in Seq(Range(toClient))
  BY DEF IInv, Queues
<1>2. toClient' = Append(toClient, m)
  BY <1>1, ConcatOne
<1>3. /\ toClient' \in Seq(Range(toClient')) /\ Len(toClient) \in Nat
      /\ DOMAIN toClient = 1 .. Len(toClient)
      /\ DOMAIN toClient' = 1 .. Len(toClient) + 1
      /\ \A i \in DOMAIN toClient : toClient'[i] = toClient[i]
      /\ toClient'[Len(toClient) + 1] = m
  <2>1. PICK t : t = Append(toClient, m)
    OBVIOUS
  <2>2. /\ t \in Seq(Range(t)) /\ Len(toClient) \in Nat /\ DOMAIN toClient = 1 .. Len(toClient)
        /\ DOMAIN t = 1 .. Len(toClient) + 1
        /\ \A i \in DOMAIN toClient : t[i] = toClient[i]
        /\ t[Len(toClient) + 1] = m
    BY <1>1, <2>1, AppendFacts
  <2> QED
    BY <1>2, <2>1, <2>2
<1>4. Len(toClient') = Len(toClient) + 1
  BY <1>3
<1>5. status = "welcomed" => Path(toClient', currentNick, Apply(m, serverNick))
  BY <1>1, <1>2, AppendPath DEF IInv, NickInTransit
<1>6. m[1] = "433" => BeforeWelcome'
  BY <1>3 DEF IInv, BeforeWelcome
<1>7. TokensInTransit'
  <2>1. CASE status = "welcomed" /\ ~registered
    <3>1. PICK k \in 1 .. Len(toClient) :
             /\ toClient[k][1] = "376" /\ \A j \in 1 .. k - 1 : toClient[j][1] # "376"
             /\ isupportPartial = <<isupportPartial[1]>>
             /\ isupportPartial[1] \cup TokensBefore(k) = Tokens
      BY <2>1 DEF IInv, TokensInTransit
    <3>2. k \in 1 .. Len(toClient') /\ \A j \in 1 .. k - 1 : j \in 1 .. Len(toClient)
      BY <1>3, <1>4
    <3>3. TokensBefore(k)' = TokensBefore(k)
      BY <1>3, <3>2 DEF TokensBefore
    <3> QED
      BY <1>3, <2>1, <3>1, <3>2, <3>3 DEF IInv, TokensInTransit
  <2>2. CASE ~(status = "welcomed" /\ ~registered)
    BY <2>2 DEF IInv, TokensInTransit, Up
  <2> QED
    BY <2>1, <2>2
<1> QED
  BY <1>3, <1>5, <1>6, <1>7

\* Taking a line from the client.
LEMMA HandleFacts ==
    ASSUME IInv, NEW kind, Handle(kind), main' = main
    PROVE  /\ Up /\ Up' /\ toServer' \in Seq(Range(toServer'))
           /\ status' = status => UserOnce'
           /\ kind = "USER" => /\ status = "new" /\ main.pc \notin {"identify", "send"}
                               /\ status' = "user" => UserOnce'
<1>1. toServer \in Seq(Range(toServer)) /\ toServer # <<>> /\ toServer' = Tail(toServer)
  BY DEF Handle, IInv, Queues
<1>2. /\ toServer' \in Seq(Range(toServer')) /\ Len(toServer) \in Nat \ {0}
      /\ DOMAIN toServer = 1 .. Len(toServer) /\ Head(toServer) = toServer[1]
      /\ DOMAIN toServer' = 1 .. Len(toServer) - 1
      /\ \A i \in 1 .. Len(toServer) - 1 : toServer'[i] = toServer[i + 1]
  BY <1>1, TailFacts
<1>3. \A i \in DOMAIN toServer' : i + 1 \in DOMAIN toServer /\ toServer'[i] = toServer[i + 1] /\ i + 1 # 1
  BY <1>2
<1>4. Up /\ Up' /\ toServer[1][1] = kind /\ 1 \in DOMAIN toServer
  BY <1>2 DEF Handle, Up
<1>5. \A i, j \in DOMAIN toServer' : i + 1 = j + 1 => i = j
  BY <1>2
<1>6. status' = status => UserOnce'
  BY <1>3, <1>4, <1>5 DEF IInv, UserOnce
<1>7. kind = "USER" => /\ status = "new" /\ main.pc \notin {"identify", "send"}
                       /\ \A i \in DOMAIN toServer' : toServer'[i][1] # "USER"
  BY <1>3, <1>4 DEF IInv, UserOnce
<1>8. kind = "USER" /\ status' = "user" => UserOnce'
  BY <1>7 DEF UserOnce
<1> QED
  BY <1>2, <1>4, <1>6, <1>7, <1>8

\* The server: what it replies says how its view has changed.
LEMMA ServerIInv == ASSUME IInv, Server PROVE IInv'
<1>1. CASE ServerUser
  <2>1. /\ Up /\ Up' /\ toServer' \in Seq(Range(toServer')) /\ UserOnce' /\ status = "new"
    BY <1>1, HandleFacts DEF ServerUser
  <2> QED
    BY <1>1, <2>1 DEF ServerUser, IInv, Queues, BeforeWelcome, NotTaken, NickInTransit,
                      TokensInTransit
<1>2. CASE ServerNick
  <2>1. /\ Up /\ Up' /\ toServer' \in Seq(Range(toServer')) /\ UserOnce'
    BY <1>2, HandleFacts DEF ServerNick
  <2>2. UNCHANGED <<main, isVars, status, taken, currentNick>>
    BY <1>2 DEF ServerNick
  <2> DEFINE n == Head(toServer)[2]
  <2>3. CASE n \in taken
    <3> DEFINE m == Msg("433", n, NoNick)
    <3>1. toClient' = toClient \o <<m>> /\ serverNick' = serverNick
      BY <1>2, <2>3 DEF ServerNick, Reply
    <3>2. m[1] = "433" /\ Apply(m, serverNick) = serverNick
      BY DEF Msg, Apply
    <3> HIDE DEF m
    <3>3. /\ toClient' \in Seq(Range(toClient')) /\ BeforeWelcome' /\ TokensInTransit'
          /\ status = "welcomed" => Path(toClient', currentNick, Apply(m, serverNick))
      BY <2>1, <2>2, <3>1, <3>2, ReplyFacts
    <3>4. NickInTransit' /\ NotTaken'
      BY <2>1, <2>2, <3>1, <3>2, <3>3 DEF IInv, NickInTransit, NotTaken
    <3> QED
      BY <2>1, <3>3, <3>4 DEF IInv, Queues
  <2>4. CASE n \notin taken /\ status = "welcomed" /\ n # serverNick
    <3> DEFINE m == Msg("NICK", serverNick, n)
    <3>1. toClient' = toClient \o <<m>> /\ serverNick' = n
      BY <1>2, <2>4 DEF ServerNick, Reply
    <3>2. Apply(m, serverNick) = n
      BY DEF Msg, Apply
    <3> HIDE DEF m
    <3>3. /\ toClient' \in Seq(Range(toClient')) /\ TokensInTransit'
          /\ Path(toClient', currentNick, n)
      BY <2>1, <2>2, <2>4, <3>1, <3>2, ReplyFacts
    <3>4. BeforeWelcome' /\ NickInTransit' /\ NotTaken'
      BY <2>1, <2>2, <2>4, <3>1, <3>3 DEF IInv, BeforeWelcome, NickInTransit, NotTaken
    <3> QED
      BY <2>1, <3>3, <3>4 DEF IInv, Queues
  <2>5. CASE n \notin taken /\ ~(status = "welcomed" /\ n # serverNick)
    <3>1. toClient' = toClient \o <<>> /\ serverNick' = n
      BY <1>2, <2>5 DEF ServerNick, Reply
    <3>2. toClient' = toClient
      BY <3>1, ConcatOne DEF IInv, Queues
    <3>3. NotTaken' /\ NickInTransit' /\ BeforeWelcome'
      BY <2>1, <2>2, <2>5, <3>1, <3>2 DEF IInv, NotTaken, NickInTransit, BeforeWelcome
    <3>4. TokensInTransit'
      BY <2>1, <2>2, <3>2 DEF IInv, TokensInTransit, TokensBefore
    <3> QED
      BY <2>1, <3>2, <3>3, <3>4 DEF IInv, Queues
  <2> QED
    BY <2>3, <2>4, <2>5
<1>3. CASE ServerWelcome
  <2> DEFINE t == <<Msg("001", serverNick, NoNick), Msg("005", "CHANTYPES", NoNick),
                    Msg("005", "NICKLEN", NoNick), Msg("376", NoNick, NoNick),
                    Msg("005", "later", NoNick), Msg("376", NoNick, NoNick)>>
             l == Len(toClient)
  <2>1. /\ Up /\ Up' /\ status = "user" /\ status' = "welcomed" /\ toClient' = toClient \o t
        /\ UNCHANGED <<main, isVars, currentNick, serverNick, taken, toServer>>
    BY <1>3 DEF ServerWelcome, Reply, Up
  <2>2. /\ \A i \in DOMAIN toClient : toClient[i][1] = "433"
        /\ ~registered /\ isupport = <<>> /\ isupportPartial = <<{}>>
    BY <2>1 DEF IInv, BeforeWelcome
  <2>3. /\ t[1][1] = "001" /\ t[1][2] = serverNick
        /\ t[2][1] = "005" /\ t[2][2] = "CHANTYPES" /\ t[3][1] = "005" /\ t[3][2] = "NICKLEN"
        /\ t[4][1] = "376" /\ t[5][1] = "005" /\ t[6][1] = "376"
    BY DEF Msg
  <2>4. DOMAIN t = 1 .. 6 /\ t \in Seq(Range(t))
    <3>1. t \in Seq({t[1], t[2], t[3], t[4], t[5], t[6]})
      OBVIOUS
    <3>2. t \in Seq(Range(t))
      BY <3>1, OfOwnElements
    <3>3. DOMAIN t = 1 .. 6
      OBVIOUS
    <3> QED
      BY <3>2, <3>3
  <2> HIDE DEF t, l
  <2>5. PICK n \in Nat \ {0} : n = 6
    OBVIOUS
  <2>6. DOMAIN t = 1 .. n /\ toClient \in Seq(Range(toClient))
    BY <2>4, <2>5 DEF IInv, Queues
  <2>7. /\ toClient' \in Seq(Range(toClient')) /\ DOMAIN toClient = 1 .. l /\ l \in Nat
        /\ DOMAIN toClient' = 1 .. l + n
        /\ \A i \in DOMAIN toClient : toClient'[i] = toClient[i]
        /\ \A i \in 1 .. n : toClient'[l + i] = t[i]
    BY <2>1, <2>4, <2>6, ConcatFacts DEF l
  <2>8. NickInTransit'
    <3>1. /\ \A i \in DOMAIN toClient : toClient[i][1] # "001" /\ toClient[i][1] # "NICK"
          /\ \A i \in 2 .. n : t[i][1] # "001" /\ t[i][1] # "NICK"
      BY <2>2, <2>3, <2>5
    <3>2. Path(toClient \o t, currentNick, serverNick)
      BY <2>3, <2>4, <2>6, <3>1, WelcomePath
    <3> QED
      BY <2>1, <3>2 DEF NickInTransit
  <2>9. UserOnce' /\ BeforeWelcome' /\ NotTaken'
    BY <2>1 DEF IInv, UserOnce, BeforeWelcome, NotTaken
  <2>10. TokensInTransit'
    <3>1. PICK k \in Nat : k = l + 4
      BY <2>7
    <3>2. Len(toClient') = l + 6
      BY <2>5, <2>7
    <3>3. k \in 1 .. Len(toClient') /\ toClient'[k][1] = "376"
      BY <2>3, <2>5, <2>7, <3>1, <3>2
    <3>4. /\ \A j \in 1 .. l : toClient'[j][1] = "433"
          /\ toClient'[l + 1][1] = "001"
          /\ toClient'[l + 2] = t[2] /\ toClient'[l + 3] = t[3]
      <4>1. \A j \in DOMAIN toClient : toClient'[j][1] = "433"
        BY <2>2, <2>7
      <4>2. toClient'[l + 1] = t[1] /\ toClient'[l + 2] = t[2] /\ toClient'[l + 3] = t[3]
        BY <2>5, <2>7
      <4> QED
        BY <2>3, <2>7, <4>1, <4>2
    <3>5. \A j \in 1 .. k - 1 : j \in 1 .. l \/ j = l + 1 \/ j = l + 2 \/ j = l + 3
      BY <2>7, <3>1
    <3>6. \A j \in 1 .. k - 1 : toClient'[j][1] # "376"
      BY <2>3, <3>4, <3>5
    <3>7. TokensBefore(k)' = Tokens
      <4>1. l + 2 \in 1 .. k - 1 /\ l + 3 \in 1 .. k - 1
        BY <2>7, <3>1
      <4>2. ASSUME NEW x \in TokensBefore(k)' PROVE x \in Tokens
        <5>1. PICK j \in 1 .. k - 1 : toClient'[j][1] = "005" /\ x = toClient'[j][2]
          BY DEF TokensBefore
        <5> QED
          BY <2>3, <3>4, <3>5, <5>1 DEF Tokens
      <4>3. "CHANTYPES" \in TokensBefore(k)' /\ "NICKLEN" \in TokensBefore(k)'
        BY <2>3, <3>4, <4>1 DEF TokensBefore
      <4> QED
        BY <4>2, <4>3 DEF Tokens
    <3>8. isupportPartial' = <<{}>> /\ isupportPartial'[1] = {} /\ isupportPartial' # <<>>
      BY <2>1, <2>2
    <3>9. isupportPartial'[1] \cup TokensBefore(k)' = Tokens
      BY <3>7, <3>8
    <3> QED
      BY <2>1, <2>2, <3>3, <3>6, <3>8, <3>9 DEF TokensInTransit
  <2> QED
    BY <2>1, <2>7, <2>8, <2>9, <2>10 DEF IInv, Queues
<1> QED
  BY <1>1, <1>2, <1>3 DEF Server

\* Services rename the client, and say so.
LEMMA RenameIInv == ASSUME IInv, ServerRename PROVE IInv'
<1> DEFINE m == Msg("NICK", serverNick, Guest)
<1>1. /\ Up /\ status = "welcomed" /\ serverNick' = Guest /\ toClient' = toClient \o <<m>>
      /\ UNCHANGED <<main, isVars, status, taken, currentNick, toServer>>
  BY DEF ServerRename, Reply
<1>2. Apply(m, serverNick) = Guest
  BY DEF Msg, Apply
<1> HIDE DEF m
<1>3. /\ toClient' \in Seq(Range(toClient')) /\ TokensInTransit'
      /\ Path(toClient', currentNick, Guest)
  BY <1>1, <1>2, ReplyFacts
<1>4. UserOnce' /\ BeforeWelcome' /\ NotTaken' /\ NickInTransit'
  BY <1>1, <1>3 DEF IInv, UserOnce, BeforeWelcome, NotTaken, NickInTransit, Up
<1> QED
  BY <1>1, <1>3, <1>4 DEF IInv, Queues

\* Other users never have the client's nick, so their renames do not touch its view.
LEMMA OtherUserIInv == ASSUME IInv, OtherUser PROVE IInv'
<1>1. UNCHANGED <<main, isVars, status, currentNick, serverNick, toServer>>
  BY DEF OtherUser
<1>2. CASE toClient' = toClient /\ NotTaken'
  BY <1>1, <1>2 DEF IInv, Queues, UserOnce, BeforeWelcome, NickInTransit, TokensInTransit,
                    TokensBefore, Up
<1>3. ASSUME NEW n \in taken, NEW k \in Contested \ (taken \cup {serverNick}),
             Up, status = "welcomed", taken' = (taken \ {n}) \cup {k},
             Reply(<<Msg("NICK", n, k)>>)
      PROVE  IInv'
  <2> DEFINE m == Msg("NICK", n, k)
  <2>1. toClient' = toClient \o <<m>>
    BY <1>3 DEF Reply
  <2>2. Apply(m, serverNick) = serverNick
    BY DEF Msg, Apply, IInv, NotTaken
  <2> HIDE DEF m
  <2>3. /\ toClient' \in Seq(Range(toClient')) /\ TokensInTransit'
        /\ Path(toClient', currentNick, serverNick)
    BY <1>1, <1>3, <2>1, <2>2, ReplyFacts
  <2>4. UserOnce' /\ BeforeWelcome' /\ NotTaken' /\ NickInTransit'
    BY <1>1, <1>3, <2>3 DEF IInv, UserOnce, BeforeWelcome, NotTaken, NickInTransit, Up
  <2> QED
    BY <1>1, <2>3, <2>4 DEF IInv, Queues
<1>4. CASE \E n \in Contested \ (taken \cup {serverNick}) :
              taken' = taken \cup {n} /\ UNCHANGED toClient
  BY <1>1, <1>2, <1>4 DEF IInv, NotTaken
<1>5. CASE \E n \in taken : taken' = taken \ {n} /\ UNCHANGED toClient
  BY <1>1, <1>2, <1>5 DEF IInv, NotTaken
<1> QED
  BY <1>3, <1>4, <1>5 DEF OtherUser

\* Every step keeps the invariant.
LEMMA NextIInv == ASSUME IInv, [Next]_vars PROVE IInv'
<1>1. CASE UNCHANGED vars
  BY <1>1 DEF vars, IInv, Queues, UserOnce, BeforeWelcome, NotTaken, NickInTransit,
              TokensInTransit, TokensBefore, Up
<1> QED
  BY <1>1, ClientIInv, ReaderIInv, ServerIInv, RenameIInv, OtherUserIInv DEF Next

\* The invariant holds throughout, for every set of nicks and every bound.
THEOREM Invariance == Spec => []IInv
<1>1. Init => IInv
  BY InitIInv
<1>2. IInv /\ [Next]_vars => IInv'
  BY NextIInv
<1> QED
  BY <1>1, <1>2, PTL DEF Spec

\* CurrentNick (currentNick) is the nick the server has for the client whenever nothing is
\* in transit to it: handleRplWelcome and the callback for NICK miss no change.
THEOREM NickAgrees == Spec => []NickAgree
<1>1. IInv => NickAgree
  <2>1. ASSUME NEW a, NEW b, Path(<<>>, a, b) PROVE a = b
    BY <2>1 DEF Path
  <2> QED
    BY <2>1 DEF IInv, NickInTransit, NickAgree
<1> QED
  BY <1>1, Invariance, PTL

\* ISupport (isupport) is nil or has every token announced during registration and no
\* other: handleRegistration publishes what handleISupport has collected, once.
THEOREM ISupportWhole == Spec => []ISupportComplete
<1>1. IInv => ISupportComplete
  BY DEF IInv, BeforeWelcome, TokensInTransit, ISupportComplete
<1> QED
  BY <1>1, Invariance, PTL
=============================================================================
