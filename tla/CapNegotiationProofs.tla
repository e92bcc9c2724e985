------------------------- MODULE CapNegotiationProofs -------------------------
(***************************************************************************)
(* The registration dialogue, for any capabilities, any server, and any    *)
(* interleaving of Connect, readLoop and the server: when Connect goes on   *)
(* from the negotiation, client and server agree on the capabilities, and  *)
(* the server has accepted the credentials if it must; and whatever SASL    *)
(* response is sent, the server gets that response.                        *)
(***************************************************************************)
EXTENDS CapNegotiation, SequenceLemmas

(***************************************************************************)
(* Every requested capability is at one place on its way from CAP LS to     *)
(* negotiateCaps.                                                          *)
(***************************************************************************)

\* The capabilities a message is about: all of them, until they are listed.
Holds(m) == {c \in Caps : \/ m[1] \in {"CAP LS", "LS"}
                          \/ m[1] \in {"CAP REQ", "ACK", "NAK"} /\ c \in m[2]}

Carries(s, c) == \E i \in DOMAIN s : c \in Holds(s[i])
Grants(s, c) == \E i \in DOMAIN s : c \in Holds(s[i]) /\ s[i][1] = "ACK"
Apart(s) == \A i, j \in DOMAIN s : \A c \in Caps : c \in Holds(s[i]) /\ c \in Holds(s[j]) => i = j

\* The same for the results in capsChan.
Has(q, c) == \E i \in DOMAIN q : q[i].capName = c
HasAck(q, c) == \E i \in DOMAIN q : q[i].capName = c /\ q[i].ack
Distinct(q) == \A i, j \in DOMAIN q : q[i].capName = q[j].capName => i = j

\* The server is asked for, and answers about, requested capabilities only.
Asked(s) == \A i \in DOMAIN s : s[i][1] = "CAP REQ" => s[i][2] \subseteq Caps
Named(q) == \A i \in DOMAIN q : q[i].capName \in Caps

Queues ==
    /\ toServer \in Seq(Range(toServer)) /\ Apart(toServer) /\ Asked(toServer)
    /\ toClient \in Seq(Range(toClient)) /\ Apart(toClient)
    /\ capsChan \in Seq(Range(capsChan)) /\ Distinct(capsChan) /\ Named(capsChan)

\* Where c is, and what that says about its being enabled.
Located(c) ==
    /\ main = "start" =>
          c \notin enabled /\ ~Carries(toServer, c) /\ ~Carries(toClient, c) /\ ~Has(capsChan, c)
    /\ Carries(toServer, c) => c \notin enabled /\ ~Carries(toClient, c) /\ ~Has(capsChan, c)
    /\ Carries(toClient, c) => ~Has(capsChan, c)
    /\ Carries(toClient, c) /\ ~Grants(toClient, c) => c \notin enabled
    /\ Grants(toClient, c) => c \in enabled \ acknowledged
    /\ Has(capsChan, c) /\ ~HasAck(capsChan, c) => c \notin enabled
    /\ HasAck(capsChan, c) => c \in enabled \ acknowledged

\* What negotiateCaps has yet to count.
Pending ==
    {c \in Caps : \/ main = "start" \/ Carries(toServer, c) \/ Carries(toClient, c)
                  \/ Has(capsChan, c) \/ c \in enabled \ acknowledged}

Counted == remaining \in Nat /\ Cardinality(Pending) <= remaining

Negotiation ==
    /\ Queues /\ Counted
    /\ acknowledged \subseteq enabled /\ enabled \subseteq Caps
    /\ \A c \in Caps : Located(c)

\* negotiateCaps has returned nil, or will once its deferred calls are made.
Negotiated == main \in {"nick", "await", "ok"} \/ (main = "ended" /\ ~err)

\* negotiateCaps goes on to SASL or returns nil only when it has counted everything.
Settled ==
    /\ main = "sasl" => remaining = 0
    /\ main \in {"nick", "await", "ok"} => capsAcked = acknowledged
    /\ Negotiated => timedOut \/ remaining = 0

(***************************************************************************)
(* SASL                                                                    *)
(***************************************************************************)

\* The chunk that ends a response.
Ends(chunk) == chunk = Plus \/ Len(chunk) < ChunkGroups

\* The exchange goes on: the client has the outcome, or it or the server has to answer.
Asks(m) == \/ m[1] = "AUTHENTICATE mech"
           \/ m[1] = "AUTHENTICATE" /\ Ends(m[2])
Tells(m) == m[1] \in {"AUTHENTICATE +", "903", "904"}

UnderWay ==
    \/ saslChan # <<>>
    \/ \E i \in DOMAIN toServer : Asks(toServer[i])
    \/ \E i \in DOMAIN toClient : Tells(toClient[i])

Credentials ==
    /\ saslChan \in Seq({"ok", "failed"})
    /\ \A i \in DOMAIN saslChan : saslChan[i] = "ok" => authenticated
    /\ \A i \in DOMAIN toClient : toClient[i][1] = "903" => authenticated
    /\ Negotiated /\ UseSASL /\ ~SASLOptional /\ ~timedOut => authenticated
    /\ main = "sasl" => UseSASL /\ (closed \/ UnderWay)

(***************************************************************************)
(* What the SASL response is on its way                                    *)
(***************************************************************************)

\* l bytes, after the first o.
Stretch(o, l) == [i \in 1 .. l |-> o + i]

\* What handleAUTHENTICATE sends chunk by chunk: n bytes in full chunks and a shorter one.
Raw(n) == [i \in 1 .. n |-> i]
ChunkCount(n) == GroupCount(n) \div ChunkGroups + 1
Begin(k) == ChunkGroups * (k - 1)  \* the groups before chunk k

\* r chunks of a response of n bytes are on their way in s, the last r, one after the
\* other, behind a other messages.
InTransit(s, n, a, r) ==
    /\ r <= ChunkCount(n)
    /\ \A i \in DOMAIN s : s[i][1] = "AUTHENTICATE" <=> i \in a + 1 .. a + r
    /\ \A k \in 1 .. r : /\ a + k \in DOMAIN s
                         /\ s[a + k][2] = EncodeSASLResponse(Raw(n))[ChunkCount(n) - r + k]

\* The server has what came before them, or is through.
Collected(n, r) ==
    /\ sasl.phase = "open" /\ r > 0 =>
          sasl.buf = Stretch(0, Upto(3 * Begin(ChunkCount(n) - r + 1), n))
    /\ sasl.phase = "over" =>
          IF sasl.err = NoError THEN sasl.output = Raw(n)
          ELSE sasl.limit # 0 /\ 3 * GroupCount(n) > sasl.limit

Sent == \E n \in ResponseLengths, a, r \in Nat :
            response = <<Raw(n)>> /\ InTransit(toServer, n, a, r) /\ Collected(n, r)

\* There is a message of this kind; there is no second one.
Calls(s, kind) == \E i \in DOMAIN s : s[i][1] = kind
Once(s, kind) == \A i, j \in DOMAIN s : s[i][1] = kind /\ s[j][1] = kind => i = j

\* Nothing of it has been sent.
Unsent ==
    /\ ~Calls(toServer, "AUTHENTICATE")
    /\ sasl.phase # "over" /\ sasl.buf = <<>> /\ sasl.output = <<>>

Early == main \in {"start", "caps"}

\* There is one exchange: the mechanism, the server's go-ahead, the response.
OneExchange ==
    /\ Once(toServer, "AUTHENTICATE mech") /\ Once(toClient, "AUTHENTICATE +")
    /\ Early => response = <<>> /\ sasl.phase = "none"
    /\ Calls(toServer, "AUTHENTICATE mech") =>
          ~Early /\ response = <<>> /\ sasl.phase = "none" /\ ~Calls(toClient, "AUTHENTICATE +")
    /\ Calls(toClient, "AUTHENTICATE +") => ~Early /\ response = <<>> /\ sasl.phase = "open"

Bounded == sasl.limit # 0 => Len(sasl.buf) <= sasl.limit /\ Len(sasl.output) <= sasl.limit

Buffers == [phase : {"none", "open", "over"}, limit : Nat, buf : Seq(Nat), output : Seq(Nat),
            err : {NoError, "ErrSASLTooLong", "ErrSASLLimitExceeded", "CorruptInputError"}]

Exchange ==
    /\ sasl \in Buffers /\ OneExchange /\ Bounded
    /\ IF response = <<>> THEN Unsent ELSE Sent

\* The inductive invariant.
IInv == Negotiation /\ Settled /\ Credentials

-----------------------------------------------------------------------------
(* What the operations on the queues do                                    *)

\* The first message is taken.
LEMMA TailCarries ==
    ASSUME NEW s, s \in Seq(Range(s)), Apart(s), s # <<>>
    PROVE  /\ Tail(s) \in Seq(Range(Tail(s))) /\ Apart(Tail(s))
           /\ \A c \in Caps : Carries(Tail(s), c) <=> Carries(s, c) /\ c \notin Holds(Head(s))
           /\ \A c \in Caps : Grants(Tail(s), c) <=> Grants(s, c) /\ c \notin Holds(Head(s))
           /\ \A c \in Holds(Head(s)) : c \in Caps /\ Carries(s, c)
           /\ \A c \in Holds(Head(s)) : Grants(s, c) <=> Head(s)[1] = "ACK"
           /\ \A i \in DOMAIN Tail(s) : \E j \in DOMAIN s : Tail(s)[i] = s[j]
           /\ 1 \in DOMAIN s /\ Head(s) = s[1]
           /\ \A j \in DOMAIN s : j = 1 \/ \E i \in DOMAIN Tail(s) : Tail(s)[i] = s[j]
<1>1. PICK l \in Nat \ {0} : l = Len(s)
  BY TailFacts
<1>2. PICK t : t = Tail(s)
  OBVIOUS
<1>3. /\ t \in Seq(Range(t)) /\ DOMAIN s = 1 .. l /\ Head(s) = s[1] /\ DOMAIN t = 1 .. l - 1
      /\ \A i \in 1 .. l - 1 : t[i] = s[i + 1]
  BY <1>1, <1>2, TailFacts
<1>4. \A i \in DOMAIN t : i + 1 \in DOMAIN s /\ t[i] = s[i + 1] /\ i + 1 # 1
  BY <1>1, <1>3
<1>5. \A j \in DOMAIN s : j # 1 => j - 1 \in DOMAIN t /\ t[j - 1] = s[j]
  BY <1>1, <1>3
<1>6. Apart(t)
  <2> SUFFICES ASSUME NEW i \in DOMAIN t, NEW j \in DOMAIN t, NEW c \in Caps,
                      c \in Holds(t[i]), c \in Holds(t[j])
               PROVE  i = j
    BY DEF Apart
  <2>1. i + 1 = j + 1
    BY <1>4 DEF Apart
  <2> QED
    BY <1>1, <1>3, <2>1
<1>7. 1 \in DOMAIN s
  BY <1>1, <1>3
<1>8. \A c \in Holds(Head(s)) : c \in Caps /\ \A i \in DOMAIN s : c \in Holds(s[i]) => i = 1
  BY <1>3, <1>7 DEF Apart, Holds
<1>9. \A c \in Caps : Carries(t, c) <=> Carries(s, c) /\ c \notin Holds(Head(s))
  <2> TAKE c \in Caps
  <2>1. ASSUME Carries(t, c) PROVE Carries(s, c) /\ c \notin Holds(Head(s))
    <3>1. PICK i \in DOMAIN t : c \in Holds(t[i])
      BY <2>1 DEF Carries
    <3>2. c \in Holds(s[i + 1]) /\ i + 1 \in DOMAIN s /\ i + 1 # 1
      BY <1>4, <3>1
    <3> QED
      BY <1>8, <3>2 DEF Carries
  <2>2. ASSUME Carries(s, c), c \notin Holds(Head(s)) PROVE Carries(t, c)
    BY <1>3, <1>5, <2>2 DEF Carries
  <2> QED
    BY <2>1, <2>2
<1>10. \A c \in Caps : Grants(t, c) <=> Grants(s, c) /\ c \notin Holds(Head(s))
  <2> TAKE c \in Caps
  <2>1. ASSUME Grants(t, c) PROVE Grants(s, c) /\ c \notin Holds(Head(s))
    <3>1. PICK i \in DOMAIN t : c \in Holds(t[i]) /\ t[i][1] = "ACK"
      BY <2>1 DEF Grants
    <3>2. c \in Holds(s[i + 1]) /\ s[i + 1][1] = "ACK" /\ i + 1 \in DOMAIN s /\ i + 1 # 1
      BY <1>4, <3>1
    <3> QED
      BY <1>8, <3>2 DEF Grants
  <2>2. ASSUME Grants(s, c), c \notin Holds(Head(s)) PROVE Grants(t, c)
    BY <1>3, <1>5, <2>2 DEF Grants
  <2> QED
    BY <2>1, <2>2
<1>11. \A c \in Holds(Head(s)) : Carries(s, c) /\ (Grants(s, c) <=> Head(s)[1] = "ACK")
  BY <1>3, <1>7, <1>8 DEF Carries, Grants
<1> QED
  BY <1>2, <1>3, <1>4, <1>5, <1>6, <1>7, <1>8, <1>9, <1>10, <1>11

\* A message is sent.
LEMMA AppendCarries ==
    ASSUME NEW s, s \in Seq(Range(s)), Apart(s), NEW m, \A c \in Holds(m) : ~Carries(s, c)
    PROVE  /\ Append(s, m) \in Seq(Range(Append(s, m))) /\ Apart(Append(s, m))
           /\ \A c \in Caps : Carries(Append(s, m), c) <=> Carries(s, c) \/ c \in Holds(m)
           /\ \A c \in Caps : Grants(Append(s, m), c)
                                 <=> Grants(s, c) \/ (c \in Holds(m) /\ m[1] = "ACK")
           /\ \A i \in DOMAIN Append(s, m) :
                 Append(s, m)[i] = m \/ \E j \in DOMAIN s : Append(s, m)[i] = s[j]
           /\ \A j \in DOMAIN s : \E i \in DOMAIN Append(s, m) : Append(s, m)[i] = s[j]
           /\ \E i \in DOMAIN Append(s, m) : Append(s, m)[i] = m
<1>1. PICK l \in Nat : l = Len(s)
  BY AppendFacts
<1>2. PICK t : t = Append(s, m)
  OBVIOUS
<1>3. /\ t \in Seq(Range(t)) /\ DOMAIN s = 1 .. l /\ DOMAIN t = 1 .. l + 1
      /\ (\A i \in DOMAIN s : t[i] = s[i]) /\ t[l + 1] = m
  BY <1>1, <1>2, AppendFacts
<1>4. \A i \in DOMAIN t : (i = l + 1 /\ t[i] = m) \/ (i \in DOMAIN s /\ t[i] = s[i])
  BY <1>1, <1>3
<1>5. l + 1 \in DOMAIN t /\ \A i \in DOMAIN s : i \in DOMAIN t
  BY <1>1, <1>3
<1>6. Apart(t)
  <2> SUFFICES ASSUME NEW i \in DOMAIN t, NEW j \in DOMAIN t, NEW c \in Caps,
                      c \in Holds(t[i]), c \in Holds(t[j])
               PROVE  i = j
    BY DEF Apart
  <2>1. \A k \in DOMAIN s : c \in Holds(s[k]) => c \notin Holds(m)
    BY DEF Carries
  <2> QED
    BY <1>4, <2>1 DEF Apart
<1>7. \A c \in Caps : Carries(t, c) <=> Carries(s, c) \/ c \in Holds(m)
  BY <1>3, <1>4, <1>5 DEF Carries
<1>8. \A c \in Caps : Grants(t, c) <=> Grants(s, c) \/ (c \in Holds(m) /\ m[1] = "ACK")
  BY <1>3, <1>4, <1>5 DEF Grants
<1> QED
  BY <1>2, <1>3, <1>4, <1>5, <1>6, <1>7, <1>8

\* Messages are sent.
LEMMA ConcatCarries ==
    ASSUME NEW s, s \in Seq(Range(s)), Apart(s), NEW t, t \in Seq(Range(t)), Apart(t),
           \A c \in Caps : Carries(t, c) => ~Carries(s, c)
    PROVE  /\ s \o t \in Seq(Range(s \o t)) /\ Apart(s \o t)
           /\ \A c \in Caps : Carries(s \o t, c) <=> Carries(s, c) \/ Carries(t, c)
           /\ \A j \in DOMAIN s : \E i \in DOMAIN (s \o t) : (s \o t)[i] = s[j]
           /\ \A j \in DOMAIN t : \E i \in DOMAIN (s \o t) : (s \o t)[i] = t[j]
           /\ \A i \in DOMAIN (s \o t) : \/ \E j \in DOMAIN s : (s \o t)[i] = s[j]
                                       \/ \E j \in DOMAIN t : (s \o t)[i] = t[j]
<1>1. PICK n \in Nat : n = Len(t) /\ DOMAIN t = 1 .. n
  OBVIOUS
<1>2. PICK u : u = s \o t
  OBVIOUS
<1>3. PICK l \in Nat : l = Len(s)
  OBVIOUS
<1>4. /\ u \in Seq(Range(u)) /\ DOMAIN s = 1 .. l /\ DOMAIN u = 1 .. l + n
      /\ \A i \in DOMAIN s : u[i] = s[i]
      /\ \A i \in 1 .. n : u[l + i] = t[i]
  BY <1>1, <1>2, <1>3, ConcatFacts
<1>5. \A i \in DOMAIN u : \/ i \in DOMAIN s /\ u[i] = s[i]
                          \/ i > l /\ i - l \in DOMAIN t /\ u[i] = t[i - l]
  <2> TAKE i \in DOMAIN u
  <2>1. CASE i <= l
    BY <1>3, <1>4, <2>1
  <2>2. CASE i > l
    <3>1. i - l \in 1 .. n /\ l + (i - l) = i
      BY <1>1, <1>3, <1>4, <2>2
    <3> QED
      BY <1>1, <1>4, <2>2, <3>1
  <2> QED
    BY <1>3, <1>4, <2>1, <2>2
<1>6. /\ \A j \in DOMAIN s : j \in DOMAIN u /\ u[j] = s[j]
      /\ \A j \in DOMAIN t : l + j \in DOMAIN u /\ u[l + j] = t[j]
  <2>1. \A j \in 1 .. n : l + j \in 1 .. l + n
    BY <1>1, <1>3
  <2>2. \A j \in 1 .. l : j \in 1 .. l + n
    BY <1>1, <1>3
  <2> QED
    BY <1>1, <1>4, <2>1, <2>2
<1>7. \A c \in Caps : Carries(u, c) <=> Carries(s, c) \/ Carries(t, c)
  <2> TAKE c \in Caps
  <2>1. Carries(u, c) => Carries(s, c) \/ Carries(t, c)
    BY <1>5 DEF Carries
  <2>2. Carries(s, c) \/ Carries(t, c) => Carries(u, c)
    BY <1>6 DEF Carries
  <2> QED
    BY <2>1, <2>2
<1>8. Apart(u)
  <2> SUFFICES ASSUME NEW i \in DOMAIN u, NEW j \in DOMAIN u, NEW c \in Caps,
                      c \in Holds(u[i]), c \in Holds(u[j])
               PROVE  i = j
    BY DEF Apart
  <2>1. ~((\E k \in DOMAIN s : c \in Holds(s[k])) /\ (\E k \in DOMAIN t : c \in Holds(t[k])))
    BY DEF Carries
  <2>2. CASE i \in DOMAIN s /\ u[i] = s[i]
    <3>1. j \in DOMAIN s /\ u[j] = s[j]
      BY <1>5, <2>1, <2>2
    <3> QED
      BY <2>2, <3>1 DEF Apart
  <2>3. CASE i > l /\ i - l \in DOMAIN t /\ u[i] = t[i - l]
    <3>1. j > l /\ j - l \in DOMAIN t /\ u[j] = t[j - l]
      BY <1>5, <2>1, <2>3
    <3>2. i - l = j - l
      BY <2>3, <3>1 DEF Apart
    <3> QED
      BY <1>3, <1>4, <3>2
  <2> QED
    BY <1>5, <2>2, <2>3
<1> QED
  BY <1>2, <1>4, <1>5, <1>6, <1>7, <1>8

\* A result is taken from capsChan.
LEMMA TailHas ==
    ASSUME NEW q, q \in Seq(Range(q)), Distinct(q), q # <<>>
    PROVE  /\ Tail(q) \in Seq(Range(Tail(q))) /\ Distinct(Tail(q))
           /\ \A c : Has(Tail(q), c) <=> Has(q, c) /\ c # Head(q).capName
           /\ \A c : HasAck(Tail(q), c) <=> HasAck(q, c) /\ c # Head(q).capName
           /\ Has(q, Head(q).capName) /\ (HasAck(q, Head(q).capName) <=> Head(q).ack)
<1>1. PICK l \in Nat \ {0} : l = Len(q)
  BY TailFacts
<1>2. PICK t : t = Tail(q)
  OBVIOUS
<1>3. /\ t \in Seq(Range(t)) /\ DOMAIN q = 1 .. l /\ Head(q) = q[1] /\ DOMAIN t = 1 .. l - 1
      /\ \A i \in 1 .. l - 1 : t[i] = q[i + 1]
  BY <1>1, <1>2, TailFacts
<1>4. \A i \in DOMAIN t : i + 1 \in DOMAIN q /\ t[i] = q[i + 1] /\ i + 1 # 1
  BY <1>1, <1>3
<1>5. \A j \in DOMAIN q : j # 1 => j - 1 \in DOMAIN t /\ t[j - 1] = q[j]
  BY <1>1, <1>3
<1>6. Distinct(t)
  <2> SUFFICES ASSUME NEW i \in DOMAIN t, NEW j \in DOMAIN t, t[i].capName = t[j].capName
               PROVE  i = j
    BY DEF Distinct
  <2>1. i + 1 = j + 1
    BY <1>4 DEF Distinct
  <2> QED
    BY <1>1, <1>3, <2>1
<1>7. 1 \in DOMAIN q
  BY <1>1, <1>3
<1>8. \A i \in DOMAIN q : q[i].capName = Head(q).capName => i = 1
  BY <1>3, <1>7 DEF Distinct
<1>9. \A c : Has(t, c) <=> Has(q, c) /\ c # Head(q).capName
  <2> TAKE c
  <2>1. Has(t, c) => Has(q, c) /\ c # Head(q).capName
    BY <1>4, <1>8 DEF Has
  <2>2. Has(q, c) /\ c # Head(q).capName => Has(t, c)
    BY <1>3, <1>5 DEF Has
  <2> QED
    BY <2>1, <2>2
<1>10. \A c : HasAck(t, c) <=> HasAck(q, c) /\ c # Head(q).capName
  <2> TAKE c
  <2>1. HasAck(t, c) => HasAck(q, c) /\ c # Head(q).capName
    BY <1>4, <1>8 DEF HasAck
  <2>2. HasAck(q, c) /\ c # Head(q).capName => HasAck(t, c)
    BY <1>3, <1>5 DEF HasAck
  <2> QED
    BY <2>1, <2>2
<1>11. Has(q, Head(q).capName) /\ (HasAck(q, Head(q).capName) <=> Head(q).ack)
  BY <1>3, <1>7, <1>8 DEF Has, HasAck
<1> QED
  BY <1>2, <1>3, <1>6, <1>9, <1>10, <1>11

\* Results are offered; a full channel drops the last of them.
LEMMA OfferHas ==
    ASSUME NEW q, q \in Seq(Range(q)), Distinct(q), NEW r, r \in Seq(Range(r)), Distinct(r),
           \A i \in DOMAIN r : ~Has(q, r[i].capName), NEW size \in Nat
    PROVE  /\ Offer(q, size, r) \in Seq(Range(Offer(q, size, r))) /\ Distinct(Offer(q, size, r))
           /\ \A c : Has(Offer(q, size, r), c) => Has(q, c) \/ Has(r, c)
           /\ \A c : HasAck(Offer(q, size, r), c) => HasAck(q, c) \/ HasAck(r, c)
           /\ \A c : Has(Offer(q, size, r), c) /\ ~HasAck(Offer(q, size, r), c) =>
                        ~HasAck(q, c) /\ ~HasAck(r, c)
<1>1. PICK n \in Nat : n = Len(r) /\ DOMAIN r = 1 .. n
  OBVIOUS
<1>2. PICK l \in Nat : l = Len(q) /\ DOMAIN q = 1 .. l
  OBVIOUS
<1>3. PICK all : all = q \o r
  OBVIOUS
<1>4. /\ all \in Seq(Range(all)) /\ DOMAIN all = 1 .. l + n
      /\ \A i \in DOMAIN q : all[i] = q[i]
      /\ \A i \in 1 .. n : all[l + i] = r[i]
  BY <1>1, <1>2, <1>3, ConcatFacts
<1>5. PICK k \in 0 .. l + n : k = IF Len(all) < size THEN Len(all) ELSE size
  <2>1. Len(all) = l + n /\ l + n \in Nat
    BY <1>1, <1>2, <1>4
  <2> QED
    BY <2>1
<1>6. PICK t : t = Offer(q, size, r)
  OBVIOUS
<1>7. t = SubSeq(all, 1, k)
  BY <1>3, <1>5, <1>6 DEF Offer
<1>8. t \in Seq(Range(all)) /\ DOMAIN t = 1 .. k /\ \A i \in 1 .. k : t[i] = all[i]
  <2>1. Len(all) = l + n /\ l + n \in Nat /\ k \in Nat /\ k <= l + n
    BY <1>1, <1>2, <1>4, <1>5
  <2> QED
    BY <1>4, <1>7, <2>1
<1>9. t \in Seq(Range(t))
  BY <1>8, OfOwnElements
<1>10. \A i \in DOMAIN t : \/ i <= l /\ i \in DOMAIN q /\ t[i] = q[i]
                           \/ i > l /\ i - l \in DOMAIN r /\ t[i] = r[i - l]
  <2> TAKE i \in DOMAIN t
  <2>1. i \in 1 .. l + n /\ t[i] = all[i]
    BY <1>1, <1>2, <1>5, <1>8
  <2>2. CASE i <= l
    <3>1. i \in 1 .. l
      BY <1>1, <1>2, <2>1, <2>2
    <3> QED
      BY <1>2, <1>4, <2>1, <2>2, <3>1
  <2>3. CASE i > l
    <3>1. i - l \in 1 .. n /\ l + (i - l) = i
      BY <1>1, <1>2, <2>1, <2>3
    <3> QED
      BY <1>1, <1>4, <2>1, <2>3, <3>1
  <2> QED
    BY <1>2, <2>1, <2>2, <2>3
<1>11. Distinct(t)
  <2> SUFFICES ASSUME NEW i \in DOMAIN t, NEW j \in DOMAIN t, t[i].capName = t[j].capName
               PROVE  i = j
    BY DEF Distinct
  <2>1. CASE i <= l /\ i \in DOMAIN q /\ t[i] = q[i]
    <3>1. j \in DOMAIN q /\ t[j] = q[j]
      BY <1>10, <2>1 DEF Has
    <3> QED
      BY <2>1, <3>1 DEF Distinct
  <2>2. CASE i > l /\ i - l \in DOMAIN r /\ t[i] = r[i - l]
    <3>1. j > l /\ j - l \in DOMAIN r /\ t[j] = r[j - l]
      BY <1>10, <2>2 DEF Has
    <3>2. i - l = j - l
      BY <2>2, <3>1 DEF Distinct
    <3> QED
      BY <1>2, <1>5, <1>8, <3>2
  <2> QED
    BY <1>10, <2>1, <2>2
<1>12. \A i \in DOMAIN t : (\E j \in DOMAIN q : t[i] = q[j]) \/ (\E j \in DOMAIN r : t[i] = r[j])
  BY <1>10
<1>13. ASSUME NEW c, Has(t, c) PROVE Has(q, c) \/ Has(r, c)
  BY <1>12, <1>13 DEF Has
<1>14. ASSUME NEW c, HasAck(t, c) PROVE HasAck(q, c) \/ HasAck(r, c)
  BY <1>12, <1>14 DEF HasAck
<1>15. ASSUME NEW c, Has(t, c), ~HasAck(t, c) PROVE ~HasAck(q, c) /\ ~HasAck(r, c)
  <2>1. PICK i \in DOMAIN t : t[i].capName = c /\ ~t[i].ack
    BY <1>15 DEF Has, HasAck
  <2>2. CASE \E j \in DOMAIN q : t[i] = q[j]
    <3>1. PICK j \in DOMAIN q : t[i] = q[j]
      BY <2>2
    <3>2. Has(q, c)
      BY <2>1, <3>1 DEF Has
    <3>3. ~HasAck(q, c)
      BY <2>1, <3>1 DEF HasAck, Distinct
    <3>4. ~HasAck(r, c)
      BY <3>2 DEF HasAck
    <3> QED
      BY <3>3, <3>4
  <2>3. CASE \E j \in DOMAIN r : t[i] = r[j]
    <3>1. PICK j \in DOMAIN r : t[i] = r[j]
      BY <2>3
    <3>2. ~HasAck(r, c)
      BY <2>1, <3>1 DEF HasAck, Distinct
    <3>3. ~HasAck(q, c)
      BY <2>1, <3>1 DEF Has, HasAck
    <3> QED
      BY <3>2, <3>3
  <2> QED
    BY <1>12, <2>2, <2>3
<1> QED
  BY <1>6, <1>9, <1>11, <1>13, <1>14, <1>15

-----------------------------------------------------------------------------
(* Messages and results                                                    *)

\* The requested capabilities, and how many there are.
LEMMA CapsFacts ==
    /\ RequestCaps \in Seq(Range(RequestCaps)) /\ Len(RequestCaps) \in Nat
    /\ DOMAIN RequestCaps = 1 .. Len(RequestCaps)
    /\ IsFiniteSet(Caps) /\ Cardinality(Caps) <= Len(RequestCaps)
<1>1. RequestCaps \in Seq(ToSet(RequestCaps))
  BY RequestCapsAssumption
<1>2. PICK n \in Nat : n = Len(RequestCaps) /\ DOMAIN RequestCaps = 1 .. n
  BY <1>1
<1>3. RequestCaps \in Seq(Range(RequestCaps))
  BY <1>1, OfOwnElements
<1>4. RequestCaps \in [1 .. n -> Caps]
  BY <1>1, <1>2 DEF Caps
<1>5. \A c \in Caps : \E i \in 1 .. n : RequestCaps[i] = c
  BY <1>2 DEF Caps, ToSet
<1>6. RequestCaps \in Surjection(1 .. n, Caps)
  BY <1>4, <1>5 DEF Surjection
<1>7. PICK one \in Int : one = 1
  OBVIOUS
<1>8. IsFiniteSet(one .. n) /\ Cardinality(one .. n) = IF one > n THEN 0 ELSE n - one + 1
  BY FS_Interval
<1>9. IsFiniteSet(1 .. n) /\ Cardinality(1 .. n) = n
  BY <1>7, <1>8
<1>10. IsFiniteSet(Caps) /\ Cardinality(Caps) <= Cardinality(1 .. n)
  BY <1>6, <1>9, FS_Surjection
<1> QED
  BY <1>2, <1>3, <1>9, <1>10

\* The loops over RequestCaps find each capability they look for once.
LEMMA SelectedCaps ==
    ASSUME NEW wanted
    PROVE  /\ Select(RequestCaps, wanted) \in Seq(Caps \cap wanted)
           /\ IsInjective(Select(RequestCaps, wanted))
<1>1. PICK pos : Selected(RequestCaps, wanted, Len(RequestCaps), Select(RequestCaps, wanted), pos)
  BY CapsFacts, SelectFacts
<1>2. PICK t : t = Select(RequestCaps, wanted)
  OBVIOUS
<1>3. PICK n \in Nat : n = Len(RequestCaps) /\ DOMAIN RequestCaps = 1 .. n
  BY CapsFacts
<1>4. /\ t \in Seq(Range(RequestCaps)) /\ pos \in [DOMAIN t -> 1 .. n]
      /\ \A i \in DOMAIN t : t[i] = RequestCaps[pos[i]] /\ t[i] \in wanted
      /\ \A i, j \in DOMAIN t : i < j => pos[i] < pos[j]
  BY <1>1, <1>2, <1>3 DEF Selected
<1>5. PICK l \in Nat : DOMAIN t = 1 .. l
  BY <1>4
<1>6. \A i \in DOMAIN t : pos[i] \in DOMAIN RequestCaps /\ t[i] \in Caps \cap wanted
  BY <1>3, <1>4 DEF Caps, ToSet
<1>7. t \in Seq(Caps \cap wanted)
  BY <1>4, <1>6
<1>8. \A i, j \in DOMAIN t : t[i] = t[j] => i = j
  <2> SUFFICES ASSUME NEW i \in DOMAIN t, NEW j \in DOMAIN t, t[i] = t[j] PROVE i = j
    OBVIOUS
  <2>1. pos[i] = pos[j]
    BY <1>4, <1>6, RequestCapsAssumption DEF IsInjective
  <2>2. pos[i] \in Nat /\ pos[j] \in Nat /\ ~(i < j) /\ ~(j < i)
    BY <1>3, <1>4, <2>1
  <2> QED
    BY <1>5, <2>2
<1> QED
  BY <1>2, <1>7, <1>8 DEF IsInjective

\* What readLoop puts into capsChan.
LEMMA ResultsFacts ==
    ASSUME NEW wanted, NEW ack \in BOOLEAN, NEW r, r = Results(Select(RequestCaps, wanted), ack)
    PROVE  /\ r \in Seq(Range(r)) /\ Distinct(r)
           /\ \A i \in DOMAIN r : r[i].capName \in Caps \cap wanted
           /\ \A c : Has(r, c) => c \in Caps \cap wanted
           /\ \A c : HasAck(r, c) <=> ack /\ Has(r, c)
<1>1. PICK t : t = Select(RequestCaps, wanted)
  OBVIOUS
<1>2. t \in Seq(Caps \cap wanted) /\ IsInjective(t)
  BY <1>1, SelectedCaps
<1>3. PICK l \in Nat : l = Len(t) /\ DOMAIN t = 1 .. l
  BY <1>2
<1>4. r = [i \in 1 .. l |-> [capName |-> t[i], ack |-> ack]]
  BY <1>1, <1>3 DEF Results
<1>5. DOMAIN r = 1 .. l /\ \A i \in 1 .. l : r[i].capName = t[i] /\ (r[i].ack <=> ack)
  BY <1>4
<1>6. r \in Seq(Range(r))
  <2>1. r \in [1 .. l -> Range(r)]
    BY <1>4 DEF Range
  <2> QED
    BY <1>3, <2>1
<1>7. \A i \in 1 .. l : t[i] \in Caps \cap wanted
  BY <1>2, <1>3
<1>8. Distinct(r)
  BY <1>2, <1>3, <1>5 DEF Distinct, IsInjective
<1>9. \A c : Has(r, c) => c \in Caps \cap wanted
  BY <1>5, <1>7 DEF Has
<1>10. \A c : HasAck(r, c) <=> ack /\ Has(r, c)
  BY <1>5 DEF Has, HasAck
<1> QED
  BY <1>5, <1>6, <1>7, <1>8, <1>9, <1>10

\* The requests handleCAPLS sends.
Requests(t) == [i \in DOMAIN t |-> Msg("CAP REQ", {t[i]})]

\* Each advertised capability is asked for once.
LEMMA RequestsFacts ==
    ASSUME NEW wanted, NEW t, t \in Seq(Caps \cap wanted), IsInjective(t)
    PROVE  /\ Requests(t) \in Seq(Range(Requests(t))) /\ Apart(Requests(t))
           /\ \A c \in Caps : Carries(Requests(t), c) => c \in wanted
           /\ Asked(Requests(t))
<1>1. PICK m : m = Requests(t)
  OBVIOUS
<1>2. PICK l \in Nat : l = Len(t) /\ DOMAIN t = 1 .. l
  OBVIOUS
<1>3. \A i \in 1 .. l : t[i] \in Caps \cap wanted
  BY <1>2
<1>4. m = [i \in 1 .. l |-> Msg("CAP REQ", {t[i]})]
  BY <1>1, <1>2 DEF Requests
<1>5. DOMAIN m = 1 .. l /\ \A i \in 1 .. l : m[i] = Msg("CAP REQ", {t[i]})
  BY <1>4
<1>6. \A i \in 1 .. l : m[i][1] = "CAP REQ" /\ m[i][2] = {t[i]}
  <2> TAKE i \in 1 .. l
  <2>1. PICK caps, x : caps = {t[i]} /\ x = m[i]
    OBVIOUS
  <2>2. x = Msg("CAP REQ", caps)
    BY <1>5, <2>1
  <2>3. x[1] = "CAP REQ" /\ x[2] = caps
    BY <2>2 DEF Msg
  <2> QED
    BY <2>1, <2>3
<1>7. m \in Seq(Range(m))
  <2>1. m \in [1 .. l -> Range(m)]
    BY <1>4, <1>5 DEF Range
  <2> QED
    BY <1>2, <2>1
<1>8. \A i \in 1 .. l : Holds(m[i]) = {t[i]}
  <2> TAKE i \in 1 .. l
  <2>1. PICK x : x = m[i]
    OBVIOUS
  <2>2. x[1] = "CAP REQ" /\ x[2] = {t[i]}
    BY <1>6, <2>1
  <2>3. Holds(x) = Caps \cap x[2]
    BY <2>2 DEF Holds
  <2> QED
    BY <1>3, <2>1, <2>2, <2>3
<1>9. Apart(m)
  <2> SUFFICES ASSUME NEW i \in DOMAIN m, NEW j \in DOMAIN m, NEW c \in Caps,
                      c \in Holds(m[i]), c \in Holds(m[j])
               PROVE  i = j
    BY DEF Apart
  <2>1. i \in 1 .. l /\ j \in 1 .. l
    BY <1>5
  <2>2. c = t[i] /\ c = t[j]
    BY <1>8, <2>1
  <2> QED
    BY <1>2, <2>1, <2>2 DEF IsInjective
<1>10. \A c \in Caps : Carries(m, c) => c \in wanted
  BY <1>3, <1>5, <1>8 DEF Carries
<1>11. Asked(m)
  <2>1. \A i \in 1 .. l : m[i][2] = {t[i]} /\ t[i] \in Caps
    BY <1>3, <1>6
  <2> SUFFICES ASSUME NEW i \in 1 .. l PROVE m[i][2] \subseteq Caps
    BY <1>5 DEF Asked
  <2>2. PICK x, y : x = t[i] /\ y = m[i][2]
    OBVIOUS
  <2>3. x \in Caps /\ y = {x}
    BY <2>1, <2>2
  <2> QED
    BY <2>2, <2>3
<1> QED
  BY <1>1, <1>7, <1>9, <1>10, <1>11

\* Nothing new is pending.
LEMMA StillCounted ==
    ASSUME Counted, Pending' \subseteq Pending, remaining' = remaining
    PROVE  Counted'
<1>1. IsFiniteSet(Pending)
  <2>1. Pending \in SUBSET Caps
    BY DEF Pending
  <2> QED
    BY <2>1, CapsFacts, FS_Subset
<1>2. PICK P, Q : P = Pending /\ Q = Pending'
  OBVIOUS
<1>3. Q \in SUBSET P /\ IsFiniteSet(P)
  BY <1>1, <1>2
<1>4. IsFiniteSet(Q) /\ Cardinality(Q) <= Cardinality(P)
  BY <1>3, FS_Subset
<1>5. Cardinality(Q) \in Nat /\ Cardinality(P) \in Nat
  BY <1>3, <1>4, FS_CardinalityType
<1> QED
  BY <1>2, <1>4, <1>5 DEF Counted

\* One less is pending, and counted.
LEMMA OneCounted ==
    ASSUME Counted, NEW c \in Pending, Pending' \subseteq Pending \ {c}, remaining > 0,
           remaining' = remaining - 1
    PROVE  Counted'
<1>1. IsFiniteSet(Pending)
  <2>1. Pending \in SUBSET Caps
    BY DEF Pending
  <2> QED
    BY <2>1, CapsFacts, FS_Subset
<1>2. PICK P, Q : P = Pending /\ Q = Pending'
  OBVIOUS
<1>3. IsFiniteSet(P \ {c}) /\ Cardinality(P \ {c}) = Cardinality(P) - 1
  BY <1>1, <1>2, FS_RemoveElement
<1>4. Q \in SUBSET (P \ {c})
  BY <1>2
<1>5. IsFiniteSet(Q) /\ Cardinality(Q) <= Cardinality(P \ {c})
  BY <1>3, <1>4, FS_Subset
<1>6. Cardinality(Q) \in Nat /\ Cardinality(P) \in Nat /\ Cardinality(P \ {c}) \in Nat
  BY <1>1, <1>2, <1>3, <1>5, FS_CardinalityType
<1> QED
  BY <1>2, <1>3, <1>5, <1>6 DEF Counted

-----------------------------------------------------------------------------
(* Steps of which the negotiation sees only that messages about other things *)
(* come and go                                                             *)

ServerQuiet ==
    /\ toServer' \in Seq(Range(toServer')) /\ Apart(toServer') /\ Asked(toServer')
    /\ \A c \in Caps : Carries(toServer', c) => Carries(toServer, c)

ClientQuiet ==
    /\ toClient' \in Seq(Range(toClient')) /\ Apart(toClient')
    /\ \A c \in Caps : Carries(toClient', c) => Carries(toClient, c)
    /\ \A c \in Caps : Carries(toClient', c) => (Grants(toClient', c) <=> Grants(toClient, c))

\* Such a step keeps what is said about the negotiation.
LEMMA Quiet ==
    ASSUME Negotiation, UNCHANGED <<capsChan, enabled, acknowledged, remaining>>,
           main' = "start" => main = "start", ServerQuiet, ClientQuiet
    PROVE  Negotiation'
<1>1. Queues'
  BY DEF Negotiation, Queues, ServerQuiet, ClientQuiet
<1>2. \A c : Grants(toClient', c) => Carries(toClient', c)
  BY DEF Grants, Carries
<1>3. ASSUME NEW c \in Caps PROVE Located(c)'
  <2>1. Located(c)
    BY DEF Negotiation
  <2>2. /\ Carries(toServer', c) => Carries(toServer, c)
        /\ Carries(toClient', c) => Carries(toClient, c)
        /\ Carries(toClient', c) => (Grants(toClient', c) <=> Grants(toClient, c))
        /\ Grants(toClient', c) => Carries(toClient', c)
    BY <1>2 DEF ServerQuiet, ClientQuiet
  <2> QED
    BY <2>1, <2>2 DEF Located
<1>4. Counted'
  <2>1. Pending' \subseteq Pending
    BY DEF Pending, ServerQuiet, ClientQuiet
  <2> QED
    BY <2>1, StillCounted DEF Negotiation
<1> QED
  BY <1>1, <1>3, <1>4 DEF Negotiation

\* Nothing is sent or received.
LEMMA SameQuiet ==
    ASSUME Queues
    PROVE  (toServer' = toServer => ServerQuiet) /\ (toClient' = toClient => ClientQuiet)
  BY DEF Queues, ServerQuiet, ClientQuiet

\* A message that is not about capabilities.
Other(m) == m[1] \notin {"CAP LS", "LS", "CAP REQ", "ACK", "NAK"}

\* Such a message holds none.
LEMMA OtherFacts ==
    /\ \A m : Other(m) => Holds(m) = {} /\ m[1] # "ACK" /\ m[1] # "CAP REQ"
    /\ \A k, caps : k \notin {"CAP LS", "LS", "CAP REQ", "ACK", "NAK"} => Other(Msg(k, caps))
<1>1. \A m : Other(m) => Holds(m) = {} /\ m[1] # "ACK" /\ m[1] # "CAP REQ"
  BY DEF Other, Holds
<1>2. ASSUME NEW k, NEW caps, k \notin {"CAP LS", "LS", "CAP REQ", "ACK", "NAK"}
      PROVE  Other(Msg(k, caps))
  <2>1. PICK m : m = Msg(k, caps)
    OBVIOUS
  <2>2. m[1] = k
    BY <2>1 DEF Msg
  <2> QED
    BY <1>2, <2>1, <2>2 DEF Other
<1> QED
  BY <1>1, <1>2

\* Such messages are sent to the server.
LEMMA WriteQuiet ==
    ASSUME Queues, NEW t, t \in Seq(Range(t)), \A i \in DOMAIN t : Other(t[i]), Write(t)
    PROVE  ServerQuiet
<1>1. CASE closed
  BY <1>1, SameQuiet DEF Write
<1>2. CASE ~closed
  <2>0. \A i \in DOMAIN t : Holds(t[i]) = {} /\ t[i][1] # "CAP REQ"
    BY OtherFacts
  <2>1. Apart(t) /\ \A c \in Caps : ~Carries(t, c)
    BY <2>0 DEF Apart, Carries
  <2>2. PICK u : u = toServer \o t
    OBVIOUS
  <2>3. /\ toServer \in Seq(Range(toServer)) /\ Apart(toServer) /\ Asked(toServer)
        /\ toServer' = u
    BY <1>2, <2>2 DEF Queues, Write
  <2>4. /\ u \in Seq(Range(u)) /\ Apart(u)
        /\ \A c \in Caps : Carries(u, c) <=> Carries(toServer, c) \/ Carries(t, c)
        /\ \A i \in DOMAIN u : \/ \E j \in DOMAIN toServer : u[i] = toServer[j]
                              \/ \E j \in DOMAIN t : u[i] = t[j]
    <3>1. PICK s : s = toServer
      OBVIOUS
    <3>2. s \in Seq(Range(s)) /\ Apart(s) /\ \A c \in Caps : Carries(t, c) => ~Carries(s, c)
      BY <2>1, <2>3, <3>1
    <3>3. /\ s \o t \in Seq(Range(s \o t)) /\ Apart(s \o t)
          /\ \A c \in Caps : Carries(s \o t, c) <=> Carries(s, c) \/ Carries(t, c)
          /\ \A i \in DOMAIN (s \o t) : \/ \E j \in DOMAIN s : (s \o t)[i] = s[j]
                                      \/ \E j \in DOMAIN t : (s \o t)[i] = t[j]
      BY <2>1, <3>2, ConcatCarries
    <3> QED
      BY <2>2, <3>1, <3>3
  <2>5. Asked(u)
    BY <2>0, <2>3, <2>4 DEF Asked
  <2> QED
    BY <2>1, <2>3, <2>4, <2>5 DEF ServerQuiet
<1> QED
  BY <1>1, <1>2

\* One or two of them.
LEMMA PlainQuiet ==
    ASSUME Queues, NEW k, k \notin {"CAP LS", "LS", "CAP REQ", "ACK", "NAK"},
           NEW a, a = Plain(k), Write(<<a>>)
    PROVE  ServerQuiet
<1>1. Other(a)
  BY OtherFacts DEF Plain
<1>2. PICK t : t = <<a>>
  OBVIOUS
<1>3. t \in Seq(Range(t)) /\ \A i \in DOMAIN t : t[i] = a
  BY <1>2, SingleFacts
<1>4. \A i \in DOMAIN t : Other(t[i])
  BY <1>1, <1>3
<1> QED
  BY <1>2, <1>3, <1>4, WriteQuiet

\* What Connect and the SASL callbacks send.
LEMMA WritesQuiet ==
    ASSUME Queues
    PROVE  /\ Write(<<Plain("CAP END")>>) => ServerQuiet
           /\ Write(<<Plain("AUTHENTICATE mech")>>) => ServerQuiet
           /\ Write(<<Plain("USER")>>) => ServerQuiet
           /\ Write(<<Plain("CAP END"), Plain("QUIT")>>) => ServerQuiet
<1>1. PICK a, b, c, d : /\ a = Plain("CAP END") /\ b = Plain("AUTHENTICATE mech")
                        /\ c = Plain("USER") /\ d = Plain("QUIT")
  OBVIOUS
<1>2. Write(<<a>>) => ServerQuiet
  BY <1>1, PlainQuiet
<1>3. Write(<<b>>) => ServerQuiet
  BY <1>1, PlainQuiet
<1>4. Write(<<c>>) => ServerQuiet
  BY <1>1, PlainQuiet
<1>5. ASSUME Write(<<a, d>>) PROVE ServerQuiet
  <2>1. PICK t : t = <<a, d>>
    OBVIOUS
  <2>2. t \in Seq(Range(t)) /\ \A i \in DOMAIN t : t[i] \in {a, d}
    BY <2>1, PairFacts
  <2>3. Other(a) /\ Other(d)
    BY <1>1, OtherFacts DEF Plain
  <2>4. \A i \in DOMAIN t : Other(t[i])
    BY <2>2, <2>3
  <2> QED
    BY <1>5, <2>1, <2>2, <2>4, WriteQuiet
<1> QED
  BY <1>1, <1>2, <1>3, <1>4, <1>5

\* The server takes a message, readLoop takes one.
LEMMA TakeQuiet ==
    ASSUME Queues, NEW k
    PROVE  (Handle(k) => ServerQuiet) /\ (Receive(k) => ClientQuiet)
<1>1. ASSUME Handle(k) PROVE ServerQuiet
  <2>1. PICK s : s = toServer
    OBVIOUS
  <2>2. s \in Seq(Range(s)) /\ Apart(s) /\ Asked(s) /\ s # <<>> /\ toServer' = Tail(s)
    BY <1>1, <2>1 DEF Queues, Handle
  <2>3. PICK t : t = Tail(s)
    OBVIOUS
  <2>4. /\ t \in Seq(Range(t)) /\ Apart(t)
        /\ \A c \in Caps : Carries(t, c) => Carries(s, c)
        /\ \A i \in DOMAIN t : \E j \in DOMAIN s : t[i] = s[j]
    BY <2>2, <2>3, TailCarries
  <2>5. Asked(t)
    BY <2>2, <2>4 DEF Asked
  <2> QED
    BY <2>1, <2>2, <2>3, <2>4, <2>5 DEF ServerQuiet
<1>2. ASSUME Receive(k) PROVE ClientQuiet
  <2>1. PICK s : s = toClient
    OBVIOUS
  <2>2. s \in Seq(Range(s)) /\ Apart(s) /\ s # <<>> /\ toClient' = Tail(s)
    BY <1>2, <2>1 DEF Queues, Receive
  <2>3. /\ Tail(s) \in Seq(Range(Tail(s))) /\ Apart(Tail(s))
        /\ \A c \in Caps : Carries(Tail(s), c) => Carries(s, c) /\ c \notin Holds(Head(s))
        /\ \A c \in Caps : Grants(Tail(s), c) <=> Grants(s, c) /\ c \notin Holds(Head(s))
    BY <2>2, TailCarries
  <2> QED
    BY <2>1, <2>2, <2>3 DEF ClientQuiet
<1> QED
  BY <1>1, <1>2

\* The server answers something else.
LEMMA ReplyQuiet ==
    ASSUME Queues, NEW k, k \notin {"CAP LS", "LS", "CAP REQ", "ACK", "NAK"}, NEW caps, Reply(k, caps)
    PROVE  ClientQuiet
<1>1. PICK m : m = Msg(k, caps)
  OBVIOUS
<1>2. Other(m)
  BY <1>1, OtherFacts
<1>3. Holds(m) = {} /\ m[1] # "ACK"
  BY <1>2, OtherFacts
<1>4. PICK s : s = toClient
  OBVIOUS
<1>5. s \in Seq(Range(s)) /\ Apart(s) /\ toClient' = Append(s, m)
  BY <1>1, <1>4 DEF Queues, Reply
<1>6. /\ Append(s, m) \in Seq(Range(Append(s, m))) /\ Apart(Append(s, m))
      /\ \A c \in Caps : Carries(Append(s, m), c) <=> Carries(s, c) \/ c \in Holds(m)
      /\ \A c \in Caps : Grants(Append(s, m), c)
                            <=> Grants(s, c) \/ (c \in Holds(m) /\ m[1] = "ACK")
  BY <1>3, <1>5, AppendCarries
<1> QED
  BY <1>3, <1>4, <1>5, <1>6 DEF ClientQuiet

\* What the server sends that is not about capabilities to be counted.
LEMMA RepliesQuiet ==
    ASSUME Queues, NEW caps
    PROVE  /\ (Reply("LS *", caps) => ClientQuiet) /\ (Reply("AUTHENTICATE +", caps) => ClientQuiet)
           /\ (Reply("903", caps) => ClientQuiet) /\ (Reply("904", caps) => ClientQuiet)
           /\ (Reply("376", caps) => ClientQuiet) /\ (Reply("EOF", caps) => ClientQuiet)
<1>1. ASSUME NEW k \in {"LS *", "AUTHENTICATE +", "903", "904", "376", "EOF"}
      PROVE  Reply(k, caps) => ClientQuiet
  <2>1. k \notin {"CAP LS", "LS", "CAP REQ", "ACK", "NAK"}
    OBVIOUS
  <2> QED
    BY <2>1, ReplyQuiet
<1> QED
  BY <1>1

-----------------------------------------------------------------------------
(* The SASL response                                                       *)

\* The quotient is the only one.
LEMMA Quotient ==
    ASSUME NEW d \in Nat \ {0}, NEW a \in Nat, NEW q \in Nat, NEW r \in 0 .. d - 1, a = q * d + r
    PROVE  a \div d = q /\ a % d = r
<1>1. PICK x, y \in Int : x = a \div d /\ y = a % d
  OBVIOUS
<1>2. a = d * x + y /\ y \in 0 .. d - 1
  BY <1>1
<1> QED
  BY <1>1, <1>2

\* Division with a remainder.
LEMMA Division ==
    ASSUME NEW d \in Nat \ {0}, NEW n \in Nat
    PROVE  \E q \in Nat, r \in 0 .. d - 1 : n = q * d + r /\ n \div d = q /\ n % d = r
  OBVIOUS

-----------------------------------------------------------------------------
(* The chunks of the SASL response                                         *)

\* Group j of the text of n bytes, and l groups after the first o.
Group(n, j) == Stretch(3 * j - 3, Upto(3 * j, n) - (3 * j - 3))
Text(n, o, l) == [j \in 1 .. l |-> Group(n, o + j)]

\* A stretch is a sequence of bytes.
LEMMA StretchFacts ==
    ASSUME NEW o \in Nat, NEW l \in Nat
    PROVE  /\ Stretch(o, l) \in Seq(Nat) /\ Len(Stretch(o, l)) = l
           /\ DOMAIN Stretch(o, l) = 1 .. l /\ \A i \in 1 .. l : Stretch(o, l)[i] = o + i
<1>1. PICK s : s = Stretch(o, l)
  OBVIOUS
<1>2. s = [i \in 1 .. l |-> o + i]
  BY <1>1 DEF Stretch
<1>3. s \in [1 .. l -> Nat]
  BY <1>2
<1>4. s \in Seq(Nat) /\ Len(s) = l
  BY <1>3
<1> QED
  BY <1>1, <1>2, <1>4

\* Two stretches in a row are one.
LEMMA StretchConcat ==
    ASSUME NEW o \in Nat, NEW l \in Nat, NEW k \in Nat
    PROVE  Stretch(o, l) \o Stretch(o + l, k) = Stretch(o, l + k)
<1>0. PICK p \in Nat, q \in Nat : p = o + l /\ q = l + k
  OBVIOUS
<1>1. PICK s, t, u : s = Stretch(o, l) /\ t = Stretch(p, k) /\ u = Stretch(o, q)
  OBVIOUS
<1>2. s \in Seq(Nat) /\ Len(s) = l /\ DOMAIN s = 1 .. l /\ \A i \in 1 .. l : s[i] = o + i
  BY <1>1, StretchFacts
<1>3. t \in Seq(Nat) /\ Len(t) = k /\ \A i \in 1 .. k : t[i] = p + i
  BY <1>1, StretchFacts
<1>4. u \in Seq(Nat) /\ Len(u) = q /\ \A i \in 1 .. q : u[i] = o + i
  BY <1>1, StretchFacts
<1>5. PICK v : v = s \o t
  OBVIOUS
<1>6. v \in Seq(Nat) /\ Len(v) = q
  <2>1. s \in Seq(Nat) /\ t \in Seq(Nat) /\ Len(s) = l /\ Len(t) = k
    BY <1>2, <1>3
  <2>2. v \in Seq(Nat) /\ Len(v) = Len(s) + Len(t)
    BY <1>5, <2>1, TypedConcat
  <2> QED
    BY <1>0, <2>1, <2>2
<1>7. ASSUME NEW i \in 1 .. q PROVE v[i] = u[i]
  <2>1. CASE i <= l
    <3>1. v[i] = s[i]
      BY <1>2, <1>3, <1>5, <2>1
    <3> QED
      BY <1>2, <1>4, <2>1, <3>1
  <2>2. CASE i > l
    <3>1. v[i] = t[i - l]
      BY <1>0, <1>2, <1>3, <1>5, <2>2
    <3>2. i - l \in 1 .. k /\ p + (i - l) = o + i
      BY <1>0, <2>2
    <3> QED
      BY <1>3, <1>4, <3>1, <3>2
  <2> QED
    BY <2>1, <2>2
<1>8. v = u
  BY <1>4, <1>6, <1>7
<1> QED
  BY <1>0, <1>1, <1>5, <1>8

\* GroupCount rounds up.
LEMMA GroupCountFacts ==
    ASSUME NEW n \in Nat
    PROVE  GroupCount(n) \in Nat /\ n <= 3 * GroupCount(n) /\ 3 * GroupCount(n) <= n + 2
<1>1. PICK a \in Nat : a = n + 2
  OBVIOUS
<1>2. PICK q \in Nat, r \in 0 .. 2 : a = q * 3 + r /\ a \div 3 = q
  <2>1. PICK d \in Nat \ {0} : d = 3
    OBVIOUS
  <2>2. \E q \in Nat, r \in 0 .. d - 1 : a = q * d + r /\ a \div d = q
    BY Division
  <2> QED
    BY <2>1, <2>2
<1> QED
  BY <1>1, <1>2 DEF GroupCount

\* Only the last group is short.
LEMMA GroupFacts ==
    ASSUME NEW n \in Nat, NEW j \in 1 .. GroupCount(n)
    PROVE  /\ Group(n, j) \in Seq(Nat) /\ Group(n, j) # <<>> /\ Len(Group(n, j)) <= 3
           /\ j < GroupCount(n) => Len(Group(n, j)) = 3
<1>1. PICK m \in Nat : m = GroupCount(n) /\ n <= 3 * m /\ 3 * m <= n + 2
  BY GroupCountFacts
<1>2. PICK o \in Nat, l \in Nat : /\ o = 3 * j - 3 /\ l = Upto(3 * j, n) - (3 * j - 3)
                                  /\ l \in 1 .. 3 /\ (j < m => l = 3)
  <2>1. 3 * j - 3 \in Nat
    BY <1>1
  <2>2. Upto(3 * j, n) - (3 * j - 3) \in 1 .. 3
    BY <1>1 DEF Upto
  <2>3. j < m => Upto(3 * j, n) - (3 * j - 3) = 3
    BY <1>1 DEF Upto
  <2> QED
    BY <2>1, <2>2, <2>3
<1>3. PICK g : g = Group(n, j)
  OBVIOUS
<1>4. g = Stretch(o, l)
  BY <1>2, <1>3 DEF Group
<1>5. g \in Seq(Nat) /\ Len(g) = l
  BY <1>4, StretchFacts
<1>6. g # <<>>
  BY <1>2, <1>5
<1> QED
  BY <1>1, <1>2, <1>3, <1>5, <1>6

\* The groups of a text.
LEMMA TextFacts ==
    ASSUME NEW n \in Nat, NEW o \in Nat, NEW l \in Nat, o + l <= GroupCount(n)
    PROVE  /\ Text(n, o, l) \in Seq(Seq(Nat)) /\ Len(Text(n, o, l)) = l
           /\ DOMAIN Text(n, o, l) = 1 .. l
           /\ \A j \in 1 .. l : Text(n, o, l)[j] = Group(n, o + j)
<1>1. PICK t : t = Text(n, o, l)
  OBVIOUS
<1>2. t = [j \in 1 .. l |-> Group(n, o + j)]
  BY <1>1 DEF Text
<1>3. PICK S : S = Seq(Nat)
  OBVIOUS
<1>4. ASSUME NEW j \in 1 .. l PROVE Group(n, o + j) \in S
  <2>1. PICK m \in Nat : m = GroupCount(n)
    BY GroupCountFacts
  <2>2. o + j \in 1 .. m
    BY <2>1
  <2> QED
    BY <1>3, <2>1, <2>2, GroupFacts
<1>5. t \in [1 .. l -> S]
  BY <1>2, <1>4
<1>6. t \in Seq(S) /\ Len(t) = l /\ DOMAIN t = 1 .. l
  BY <1>5
<1> QED
  BY <1>1, <1>2, <1>3, <1>6

\* The bytes of a text: decoding undoes EncodeToString.
LEMMA TextBytes ==
    ASSUME NEW n \in Nat, NEW o \in Nat, NEW l \in Nat \ {0}, o + l <= GroupCount(n)
    PROVE  FlattenSeq(Text(n, o, l)) = Stretch(3 * o, Upto(3 * (o + l), n) - 3 * o)
<1>1. PICK m \in Nat : m = GroupCount(n) /\ n <= 3 * m /\ 3 * m <= n + 2
  BY GroupCountFacts
<1>2. PICK t : t = Text(n, o, l)
  OBVIOUS
<1>3. Len(t) = l /\ \A j \in 1 .. l : t[j] = Group(n, o + j)
  BY <1>2, TextFacts
<1>4. PICK f : f = [j \in 1 .. l |-> FlattenStep(f, j, t)] /\ FlattenSeq(t) = f[l]
  BY <1>3, FlattenLoop
<1> DEFINE End(j) == Upto(3 * (o + j), n) - 3 * o
           S == {j \in Nat : j + 1 <= l => f[j + 1] = Stretch(3 * o, End(j + 1))}
<1>5. ASSUME NEW j \in 1 .. l PROVE f[j] = FlattenStep(f, j, t)
  BY <1>4
<1>6. 0 \in S
  <2>1. f[1] = t[1]
    BY <1>5 DEF FlattenStep
  <2>2. t[1] = Group(n, o + 1)
    BY <1>3
  <2>3. 3 * (o + 1) - 3 = 3 * o
    OBVIOUS
  <2>4. f[1] = Stretch(3 * o, End(1))
    BY <2>1, <2>2, <2>3 DEF Group
  <2> QED
    BY <2>4
<1>7. ASSUME NEW j \in Nat, j \in S PROVE j + 1 \in S
  <2> SUFFICES ASSUME j + 2 <= l PROVE f[j + 2] = Stretch(3 * o, End(j + 2))
    OBVIOUS
  <2>1. f[j + 1] = Stretch(3 * o, End(j + 1))
    BY <1>7
  <2>2. j + 2 \in 1 .. l /\ j + 2 # 1 /\ (j + 2) - 1 = j + 1
    OBVIOUS
  <2>3. f[j + 2] = f[j + 1] \o t[j + 2]
    BY <1>5, <2>2 DEF FlattenStep
  <2>4. t[j + 2] = Group(n, o + (j + 2))
    BY <1>3, <2>2
  <2>5. PICK b \in Nat, k \in Nat, c \in Nat :
           /\ b = 3 * o /\ k = End(j + 1) /\ b + k = 3 * (o + (j + 2)) - 3
           /\ c = Upto(3 * (o + (j + 2)), n) - (3 * (o + (j + 2)) - 3) /\ End(j + 2) = k + c
    <3>1. End(j + 1) = 3 * (j + 1)
      BY <1>1 DEF Upto
    <3>2. Upto(3 * (o + (j + 2)), n) - (3 * (o + (j + 2)) - 3) \in Nat
      BY <1>1 DEF Upto
    <3>3. End(j + 2) = 3 * (j + 1) + (Upto(3 * (o + (j + 2)), n) - (3 * (o + (j + 2)) - 3))
      <4>1. Upto(3 * (o + (j + 2)), n) \in Nat
        BY DEF Upto
      <4> QED
        BY <4>1
    <3>4. 3 * o \in Nat /\ 3 * (j + 1) \in Nat /\ 3 * o + 3 * (j + 1) = 3 * (o + (j + 2)) - 3
      OBVIOUS
    <3> HIDE DEF End
    <3> QED
      BY <3>1, <3>2, <3>3, <3>4
  <2>6. t[j + 2] = Stretch(b + k, c)
    BY <2>4, <2>5 DEF Group
  <2>7. f[j + 1] = Stretch(b, k)
    BY <2>1, <2>5
  <2>8. f[j + 2] = Stretch(b, k + c)
    <3>1. Stretch(b, k) \o Stretch(b + k, c) = Stretch(b, k + c)
      BY StretchConcat
    <3> QED
      BY <2>3, <2>6, <2>7, <3>1
  <2> QED
    BY <2>5, <2>8
<1>8. l - 1 \in S
  <2>1. \A j \in Nat : j \in S
    <3> HIDE DEF S
    <3> QED
      BY <1>6, <1>7, Induction
  <2> QED
    BY <2>1
<1>9. f[l] = Stretch(3 * o, End(l))
  <2>1. (l - 1) + 1 = l
    OBVIOUS
  <2> QED
    BY <1>8, <2>1
<1> QED
  BY <1>2, <1>4, <1>9

\* A part of a text.
LEMMA TextPart ==
    ASSUME NEW n \in Nat, NEW o \in Nat, NEW l \in Nat, NEW m \in Nat, m = GroupCount(n),
           o + l <= m
    PROVE  SubSeq(Text(n, 0, m), o + 1, o + l) = Text(n, o, l)
<1>1. m \in Nat /\ GroupCount(n) \in Nat /\ o + l <= GroupCount(n)
  OBVIOUS
<1>2. PICK all, t, u : all = Text(n, 0, m) /\ t = Text(n, o, l) /\ u = SubSeq(all, o + 1, o + l)
  OBVIOUS
<1>3. PICK S : S = Seq(Nat)
  OBVIOUS
<1>10. \A z, k \in Nat : z + k <= GroupCount(n) =>
         /\ Text(n, z, k) \in Seq(S) /\ Len(Text(n, z, k)) = k
         /\ \A j \in 1 .. k : Text(n, z, k)[j] = Group(n, z + j)
  BY <1>3, TextFacts
<1>4. /\ all \in Seq(S) /\ Len(all) = m
      /\ \A j \in 1 .. m : all[j] = Group(n, 0 + j)
  <2>1. 0 \in Nat /\ 0 + m <= GroupCount(n)
    OBVIOUS
  <2> QED
    BY <1>1, <1>2, <1>10, <2>1
<1>5. t \in Seq(S) /\ Len(t) = l /\ \A j \in 1 .. l : t[j] = Group(n, o + j)
  BY <1>1, <1>2, <1>10
<1>6. PICK a \in Nat, b \in Nat : a = o + 1 /\ b = o + l
  OBVIOUS
<1>7. u \in Seq(S) /\ Len(u) = l /\ \A j \in 1 .. l : u[j] = all[o + j]
  <2>1. all \in Seq(S) /\ Len(all) = m
    BY <1>4
  <2>2. u = SubSeq(all, a, b)
    BY <1>2, <1>6
  <2>3. a \in 1 .. Len(all) + 1 /\ b \in a - 1 .. Len(all) /\ b - a + 1 = l
    BY <1>1, <1>6, <2>1
  <2>4. u \in Seq(S) /\ Len(u) = l /\ \A j \in 1 .. l : u[j] = all[a + j - 1]
    BY <2>1, <2>2, <2>3, PartFacts
  <2>5. \A j \in 1 .. l : a + j - 1 = o + j
    BY <1>6
  <2> QED
    BY <2>4, <2>5
<1>8. ASSUME NEW j \in 1 .. l PROVE u[j] = t[j]
  <2>1. o + j \in 1 .. m /\ 0 + (o + j) = o + j
    BY <1>1
  <2> QED
    BY <1>4, <1>5, <1>7, <2>1
<1>9. u = t
  BY <1>5, <1>7, <1>8
<1> QED
  BY <1>2, <1>9

\* EncodeToString, of the bytes the model sends.
LEMMA EncodeText ==
    ASSUME NEW n \in Nat
    PROVE  /\ Raw(n) \in Seq(Nat) /\ Len(Raw(n)) = n /\ Raw(n) = Stretch(0, n)
           /\ EncodeToString(Raw(n)) = Text(n, 0, GroupCount(n))
<1>1. PICK raw : raw = Raw(n)
  OBVIOUS
<1>2. raw \in Seq(Nat) /\ Len(raw) = n /\ \A i \in 1 .. n : raw[i] = i
  BY <1>1 DEF Raw
<1>3. raw = Stretch(0, n)
  BY <1>1 DEF Raw, Stretch
<1>4. PICK m \in Nat : m = GroupCount(n) /\ n <= 3 * m /\ 3 * m <= n + 2
  BY GroupCountFacts
<1>5. ASSUME NEW j \in 1 .. m
      PROVE  SubSeq(raw, 3 * j - 2, Upto(3 * j, n)) = Group(n, 0 + j)
  <2>1. PICK a \in Nat, b \in Nat, o \in Nat, l \in Nat :
           /\ a = 3 * j - 2 /\ b = Upto(3 * j, n) /\ o = 3 * j - 3 /\ l = b - o
           /\ a = o + 1 /\ b <= n /\ 1 <= a /\ a <= b
    <3>1. 3 * j - 2 \in Nat /\ 3 * j - 3 \in Nat /\ 3 * j - 2 = (3 * j - 3) + 1 /\ 1 <= 3 * j - 2
      OBVIOUS
    <3>2. Upto(3 * j, n) \in Nat /\ Upto(3 * j, n) <= n /\ 3 * j - 2 <= Upto(3 * j, n)
      BY <1>4 DEF Upto
    <3>3. Upto(3 * j, n) - (3 * j - 3) \in Nat
      BY <3>1, <3>2
    <3> QED
      BY <3>1, <3>2, <3>3
  <2>2. PICK u, g : u = SubSeq(raw, a, b) /\ g = Stretch(o, l)
    OBVIOUS
  <2>3. raw \in Seq(Nat) /\ a \in 1 .. Len(raw) + 1 /\ b \in a - 1 .. Len(raw)
    BY <1>2, <2>1
  <2>4. u \in Seq(Nat) /\ Len(u) = b - a + 1 /\ \A i \in 1 .. b - a + 1 : u[i] = raw[a + i - 1]
    BY <2>2, <2>3, PartFacts
  <2>5. g \in Seq(Nat) /\ Len(g) = l /\ \A i \in 1 .. l : g[i] = o + i
    BY <2>2, StretchFacts
  <2>6. l = b - a + 1
    BY <2>1
  <2>7. ASSUME NEW i \in 1 .. l PROVE u[i] = g[i]
    <3>1. a + i - 1 = o + i /\ a + i - 1 \in 1 .. n
      BY <2>1, <2>6
    <3> QED
      BY <1>2, <2>4, <2>5, <2>6, <3>1
  <2>8. u = g
    BY <2>4, <2>5, <2>6, <2>7
  <2>9. 0 + j = j
    OBVIOUS
  <2> QED
    BY <2>1, <2>2, <2>8, <2>9 DEF Group
<1>6. EncodeToString(raw) = [j \in 1 .. m |-> SubSeq(raw, 3 * j - 2, Upto(3 * j, n))]
  BY <1>2, <1>4 DEF EncodeToString
<1>7. EncodeToString(raw) = Text(n, 0, m)
  BY <1>5, <1>6 DEF Text
<1> QED
  BY <1>1, <1>2, <1>3, <1>4, <1>7

\* How many groups chunk k has: all of them are full, but the last.
Size(n, k) == IF k < ChunkCount(n) THEN ChunkGroups ELSE GroupCount(n) - Begin(ChunkCount(n))

\* The chunks cover the text.
LEMMA SizeFacts ==
    ASSUME NEW n \in Nat
    PROVE  /\ ChunkCount(n) \in Nat \ {0} /\ GroupCount(n) \in Nat
           /\ \A k \in 1 .. ChunkCount(n) :
                 /\ Begin(k) \in Nat /\ Size(n, k) \in 0 .. ChunkGroups
                 /\ Begin(k) + Size(n, k) <= GroupCount(n)
                 /\ k < ChunkCount(n) => /\ Size(n, k) = ChunkGroups
                                         /\ Begin(k + 1) = Begin(k) + Size(n, k)
                 /\ k = ChunkCount(n) => /\ Size(n, k) < ChunkGroups
                                         /\ Begin(k) + Size(n, k) = GroupCount(n)
<1>1. PICK d \in Nat \ {0} : d = ChunkGroups
  BY ChunkAssumption
<1>2. PICK m \in Nat : m = GroupCount(n)
  BY GroupCountFacts
<1>3. PICK q \in Nat, r \in 0 .. d - 1 : m = q * d + r /\ m \div d = q
  BY Division
<1>4. ChunkCount(n) = q + 1
  BY <1>1, <1>2, <1>3 DEF ChunkCount
<1>5. Begin(q + 1) = q * d /\ q * d \in Nat
  BY <1>1 DEF Begin
<1>6. m - q * d = r
  BY <1>3, <1>5
<1>7. ASSUME NEW k \in 1 .. q + 1
      PROVE  /\ Begin(k) \in Nat /\ Size(n, k) \in 0 .. d /\ Begin(k) + Size(n, k) <= m
             /\ k < q + 1 => Size(n, k) = d /\ Begin(k + 1) = Begin(k) + Size(n, k)
             /\ k = q + 1 => Size(n, k) < d /\ Begin(k) + Size(n, k) = m
  <2>1. CASE k = q + 1
    <3>1. Size(n, k) = r
      BY <1>2, <1>4, <1>5, <1>6, <2>1 DEF Size
    <3> QED
      BY <1>3, <1>5, <2>1, <3>1
  <2>2. CASE k # q + 1
    <3>1. k < q + 1 /\ Size(n, k) = d
      BY <1>1, <1>4, <2>2 DEF Size
    <3>2. PICK b \in Nat : b = d * (k - 1)
      OBVIOUS
    <3>3. Begin(k) = b /\ Begin(k + 1) = b + d
      BY <1>1, <3>2 DEF Begin
    <3>4. b + d <= q * d
      <4>1. PICK e \in Nat : e = q - k
        BY <3>1
      <4>2. d * e \in Nat /\ q * d = d * (k - 1) + d + d * e
        BY <4>1
      <4> QED
        BY <1>5, <3>2, <4>2
    <3> QED
      BY <1>3, <1>5, <2>2, <3>1, <3>3, <3>4
  <2> QED
    BY <2>1, <2>2
<1> QED
  BY <1>1, <1>2, <1>4, <1>7

\* EncodeSASLResponse cuts the text into chunks; a last one that is empty is "+".
LEMMA EncodeChunks ==
    ASSUME NEW n \in Nat
    PROVE  /\ DOMAIN EncodeSASLResponse(Raw(n)) = 1 .. ChunkCount(n)
           /\ \A k \in 1 .. ChunkCount(n) :
                 EncodeSASLResponse(Raw(n))[k] = Text(n, Begin(k), Size(n, k))
<1>1. PICK d \in Nat \ {0} : d = ChunkGroups
  BY ChunkAssumption
<1>2. PICK m \in Nat : m = GroupCount(n) /\ n <= 3 * m /\ 3 * m <= n + 2
  BY GroupCountFacts
<1>3. PICK q \in Nat, r \in 0 .. d - 1 : m = q * d + r /\ m \div d = q /\ m % d = r
  BY Division
<1>4. ChunkCount(n) = q + 1
  BY <1>1, <1>2, <1>3 DEF ChunkCount
<1>5. PICK raw, text : raw = Raw(n) /\ text = EncodeToString(raw)
  OBVIOUS
<1>6. raw \in Seq(Nat) /\ Len(raw) = n /\ text = Text(n, 0, m)
  BY <1>2, <1>5, EncodeText
<1>7. \A o, l \in Nat : o + l <= m => Len(Text(n, o, l)) = l /\ (l = 0 => Text(n, o, l) = Plus)
  <2> SUFFICES ASSUME NEW o \in Nat, NEW l \in Nat, o + l <= GroupCount(n)
               PROVE  Len(Text(n, o, l)) = l /\ (l = 0 => Text(n, o, l) = Plus)
    BY <1>2
  <2>1. PICK t : t = Text(n, o, l)
    OBVIOUS
  <2>2. PICK S : S = Seq(Nat)
    OBVIOUS
  <2>3. t \in Seq(S) /\ Len(t) = l
    BY <2>1, <2>2, TextFacts
  <2>4. l = 0 => t = <<>>
    BY <2>3
  <2> QED
    BY <2>1, <2>3, <2>4 DEF Plus
<1>8. Len(text) = m
  <2>1. 0 \in Nat /\ 0 + m <= m
    OBVIOUS
  <2> QED
    BY <1>6, <1>7, <2>1
<1>9. PICK count : count = (m + d - 1) \div d
  OBVIOUS
<1>10. count = IF r = 0 THEN q ELSE q + 1
  <2>1. CASE r = 0
    <3>1. m + d - 1 = q * d + (d - 1) /\ d - 1 \in 0 .. d - 1 /\ m + d - 1 \in Nat
      BY <1>3, <2>1
    <3> QED
      BY <1>9, <2>1, <3>1, Quotient
  <2>2. CASE r # 0
    <3>1. m + d - 1 = (q + 1) * d + (r - 1) /\ r - 1 \in 0 .. d - 1 /\ m + d - 1 \in Nat
      BY <1>3, <2>2
    <3> QED
      BY <1>9, <2>2, <3>1, Quotient
  <2> QED
    BY <2>1, <2>2
<1>11. PICK chunks : chunks = [i \in 1 .. count |-> SubSeq(text, (i - 1) * d + 1, Upto(i * d, m))]
  OBVIOUS
<1>12. EncodeSASLResponse(raw) = IF raw = <<>> THEN <<Plus>>
                                 ELSE chunks \o IF r = 0 THEN <<Plus>> ELSE <<>>
  BY <1>1, <1>3, <1>5, <1>8, <1>9, <1>11 DEF EncodeSASLResponse
<1>13. chunks \in Seq(Range(chunks)) /\ Len(chunks) = count /\ DOMAIN chunks = 1 .. count /\ count \in Nat
  <2>1. count \in Nat
    BY <1>10
  <2>2. chunks \in [1 .. count -> Range(chunks)]
    BY <1>11 DEF Range
  <2> QED
    BY <2>1, <2>2
<1>14. \A k \in 1 .. q + 1 : /\ Begin(k) \in Nat /\ Size(n, k) \in 0 .. d
                             /\ Begin(k) + Size(n, k) <= m
                             /\ k < q + 1 => Size(n, k) = d
                             /\ k = q + 1 => Begin(k) + Size(n, k) = m /\ Size(n, k) < d
  BY <1>1, <1>2, <1>4, SizeFacts
<1>15. Size(n, q + 1) = r
  <2>1. q + 1 \in 1 .. q + 1 /\ Begin(q + 1) = q * d /\ q * d \in Nat
    BY <1>1 DEF Begin
  <2> QED
    BY <1>3, <1>14, <2>1
<1>16. ASSUME NEW k \in 1 .. count PROVE chunks[k] = Text(n, Begin(k), Size(n, k))
  <2>1. k \in 1 .. q + 1 /\ (k = q + 1 => r # 0)
    BY <1>10, <1>13
  <2>2. PICK o \in Nat, l \in Nat : o = Begin(k) /\ l = Size(n, k) /\ o + l <= m
    BY <1>14, <2>1
  <2>3. o = (k - 1) * d
    BY <1>1, <2>2 DEF Begin
  <2>4. Upto(k * d, m) = o + l
    <3>1. k * d = o + d
      BY <2>3
    <3>2. CASE k < q + 1
      BY <1>14, <2>1, <2>2, <3>1, <3>2 DEF Upto
    <3>3. CASE k = q + 1
      BY <1>14, <2>1, <2>2, <3>1, <3>3 DEF Upto
    <3> QED
      BY <2>1, <3>2, <3>3
  <2>5. chunks[k] = SubSeq(text, o + 1, o + l)
    BY <1>11, <2>3, <2>4
  <2>6. SubSeq(Text(n, 0, m), o + 1, o + l) = Text(n, o, l)
    <3>1. o + l <= m
      BY <2>2
    <3> QED
      BY <1>2, <3>1, TextPart
  <2> QED
    BY <1>6, <2>2, <2>5, <2>6
<1>17. CASE raw = <<>>
  <2>1. n = 0 /\ m = 0
    BY <1>2, <1>6, <1>17
  <2>2. q = 0
    <3>1. q * d \in Nat /\ q * d = 0
      BY <1>3, <2>1
    <3> QED
      BY <3>1
  <2>3. \A k \in 1 .. 1 : Begin(k) \in Nat /\ Size(n, k) = 0 /\ Begin(k) + Size(n, k) <= m
    BY <1>14, <2>1, <2>2
  <2>4. \A k \in 1 .. 1 : Text(n, Begin(k), Size(n, k)) = Plus
    BY <1>7, <2>3
  <2>5. DOMAIN <<Plus>> = 1 .. 1 /\ \A k \in 1 .. 1 : <<Plus>>[k] = Plus
    BY SingleFacts
  <2>6. EncodeSASLResponse(raw) = <<Plus>> /\ ChunkCount(n) = 1
    BY <1>4, <1>12, <1>17, <2>2
  <2> QED
    BY <1>5, <2>4, <2>5, <2>6
<1>18. CASE raw # <<>> /\ r = 0
  <2>1. EncodeSASLResponse(raw) = chunks \o <<Plus>> /\ count = q
    BY <1>10, <1>12, <1>18
  <2>2. DOMAIN <<Plus>> = 1 .. 1 /\ <<Plus>>[1] = Plus /\ <<Plus>> \in Seq(Range(<<Plus>>))
    BY SingleFacts
  <2>3. /\ DOMAIN (chunks \o <<Plus>>) = 1 .. count + 1
        /\ \A i \in 1 .. count : (chunks \o <<Plus>>)[i] = chunks[i]
        /\ \A i \in 1 .. 1 : (chunks \o <<Plus>>)[count + i] = <<Plus>>[i]
    BY <1>13, <2>2, ConcatFacts
  <2>4. (chunks \o <<Plus>>)[count + 1] = Plus
    <3>1. 1 \in 1 .. 1
      OBVIOUS
    <3> QED
      BY <2>2, <2>3, <3>1
  <2>5. Text(n, Begin(q + 1), Size(n, q + 1)) = Plus
    <3>1. q + 1 \in 1 .. q + 1
      OBVIOUS
    <3> QED
      BY <1>7, <1>14, <1>15, <1>18, <3>1
  <2>6. ASSUME NEW k \in 1 .. q + 1
        PROVE  EncodeSASLResponse(raw)[k] = Text(n, Begin(k), Size(n, k))
    <3>1. CASE k = q + 1
      BY <2>1, <2>4, <2>5, <3>1
    <3>2. CASE k # q + 1
      <4>1. k \in 1 .. count
        BY <2>1, <3>2
      <4> QED
        BY <1>16, <2>1, <2>3, <4>1
    <3> QED
      BY <3>1, <3>2
  <2> QED
    BY <1>4, <1>5, <2>1, <2>3, <2>6
<1>19. CASE raw # <<>> /\ r # 0
  <2>1. EncodeSASLResponse(raw) = chunks /\ count = q + 1
    BY <1>10, <1>12, <1>13, <1>19
  <2> QED
    BY <1>4, <1>5, <1>13, <1>16, <2>1
<1> QED
  BY <1>17, <1>18, <1>19

\* EncodeSASLResponse marks the end: its last chunk is one that ends a response.
LEMMA EncodeFacts ==
    ASSUME NEW n \in Nat, NEW raw, raw = [i \in 1 .. n |-> i]
    PROVE  \E l \in Nat \ {0} : /\ DOMAIN EncodeSASLResponse(raw) = 1 .. l
                                /\ Ends(EncodeSASLResponse(raw)[l])
<1>1. PICK l \in Nat \ {0} : l = ChunkCount(n)
  BY SizeFacts
<1>2. raw = Raw(n)
  BY DEF Raw
<1>3. l \in 1 .. l
  OBVIOUS
<1>4. PICK chunk : chunk = EncodeSASLResponse(raw)[l]
  OBVIOUS
<1>5. PICK o \in Nat, s \in Nat : /\ o = Begin(l) /\ s = Size(n, l) /\ s < ChunkGroups
                                  /\ o + s <= GroupCount(n)
  <2>1. /\ Begin(l) \in Nat /\ Size(n, l) \in 0 .. ChunkGroups /\ Size(n, l) < ChunkGroups
        /\ Begin(l) + Size(n, l) <= GroupCount(n)
    BY <1>1, <1>3, SizeFacts
  <2>2. Size(n, l) \in Nat
    BY <2>1, ChunkAssumption
  <2> QED
    BY <2>1, <2>2
<1>6. DOMAIN EncodeSASLResponse(raw) = 1 .. l /\ chunk = Text(n, o, s)
  BY <1>1, <1>2, <1>3, <1>4, <1>5, EncodeChunks
<1>7. Len(chunk) = s
  BY <1>5, <1>6, TextFacts
<1> QED
  BY <1>4, <1>5, <1>6, <1>7 DEF Ends

\* What the server's buffer makes of chunk k, after the chunks before it: the response, an
\* error because of the limit, or a longer buffer.
Outcome(n, k, limit, added) ==
    \/ added = Result(TRUE, Raw(n), NoError, <<>>) /\ (limit # 0 => n <= limit)
    \/ /\ added = Result(TRUE, <<>>, "ErrSASLLimitExceeded", <<>>)
       /\ limit # 0 /\ 3 * GroupCount(n) > limit
    \/ \E e \in Nat : /\ added = Result(FALSE, <<>>, NoError, Stretch(0, e))
                      /\ k < ChunkCount(n) /\ e = Upto(3 * Begin(k + 1), n)
                      /\ limit # 0 => e <= limit

\* Add has one of these outcomes.
LEMMA AddChunk ==
    ASSUME NEW n \in Nat, NEW k \in 1 .. ChunkCount(n), NEW limit \in Nat,
           NEW buf, buf = Stretch(0, Upto(3 * Begin(k), n)), limit # 0 => Len(buf) <= limit,
           NEW added, added = Add(buf, limit, Text(n, Begin(k), Size(n, k)))
    PROVE  Outcome(n, k, limit, added)
<1> USE DEF Outcome
<1>1. PICK d \in Nat \ {0} : d = ChunkGroups
  BY ChunkAssumption
<1>2. PICK m \in Nat : m = GroupCount(n) /\ n <= 3 * m /\ 3 * m <= n + 2
  BY GroupCountFacts
<1>3. PICK count \in Nat \ {0} : count = ChunkCount(n)
  BY SizeFacts
<1>4. PICK o \in Nat, l \in Nat :
         /\ o = Begin(k) /\ l = Size(n, k) /\ o + l <= m /\ l <= d
         /\ k < count => l = d /\ Begin(k + 1) = o + l
         /\ k = count => l < d /\ o + l = m
  <2>1. /\ Begin(k) \in Nat /\ Size(n, k) \in 0 .. d
        /\ Begin(k) + Size(n, k) <= m
        /\ k < count => Size(n, k) = d /\ Begin(k + 1) = Begin(k) + Size(n, k)
        /\ k = count => Size(n, k) < d /\ Begin(k) + Size(n, k) = m
    BY <1>1, <1>2, <1>3, SizeFacts
  <2>2. Size(n, k) \in Nat /\ Size(n, k) <= d
    BY <2>1
  <2> QED
    BY <2>1, <2>2
<1>5. k \in Nat /\ (k < count \/ k = count)
  BY <1>3
<1>6. PICK p \in Nat : p = Upto(3 * o, n) /\ p <= n /\ p <= 3 * o
  BY DEF Upto
<1>7. buf = Stretch(0, p) /\ Len(buf) = p
  <2>1. buf = Stretch(0, p)
    BY <1>4, <1>6
  <2> QED
    BY <2>1, StretchFacts
<1>8. PICK value : value = Text(n, o, l)
  OBVIOUS
<1>9. PICK T : T = Seq(Nat)
  OBVIOUS
<1>10. o + l <= GroupCount(n) /\ o + l <= m /\ (l < d \/ l = d)
  BY <1>2, <1>4
<1>11. /\ value \in Seq(T) /\ Len(value) = l /\ DOMAIN value = 1 .. l
       /\ \A j \in 1 .. l : value[j] = Group(n, o + j)
  <2>1. \A a, b \in Nat : a + b <= GroupCount(n) =>
           /\ Text(n, a, b) \in Seq(T) /\ Len(Text(n, a, b)) = b /\ DOMAIN Text(n, a, b) = 1 .. b
           /\ \A j \in 1 .. b : Text(n, a, b)[j] = Group(n, a + j)
    BY <1>9, TextFacts
  <2> QED
    BY <1>8, <1>10, <2>1
<1>12. value = Plus <=> l = 0
  BY <1>11 DEF Plus
<1>13. added = AddWith(p + 3 * l, <<>>, buf, limit, value)
  BY <1>4, <1>7, <1>8, <1>11 DEF Add
<1>14. Raw(n) = Stretch(0, n)
  BY EncodeText
<1>15. CASE l = 0
  <2>1. added = Result(TRUE, buf, NoError, <<>>)
    BY <1>12, <1>13, <1>15 DEF AddWith
  <2>2. o = m /\ p = n
    BY <1>2, <1>4, <1>5, <1>6, <1>15 DEF Upto
  <2> QED
    BY <1>7, <1>14, <2>1, <2>2
<1>16. CASE l # 0 /\ limit # 0 /\ p + 3 * l > limit
  <2>1. ~(Len(value) > d) /\ value # Plus
    BY <1>4, <1>11, <1>12, <1>16
  <2>2. added = Result(TRUE, <<>>, "ErrSASLLimitExceeded", <<>>)
    BY <1>1, <1>13, <1>16, <2>1 DEF AddWith
  <2>3. 3 * m > limit
    <3>1. o + l <= m /\ p <= 3 * o /\ p + 3 * l > limit
      BY <1>6, <1>10, <1>16
    <3> QED
      BY <3>1
  <2> QED
    BY <1>2, <1>16, <2>2, <2>3
<1>17. CASE l # 0 /\ ~(limit # 0 /\ p + 3 * l > limit)
  <2>1. ~(Len(value) > d) /\ value # Plus
    BY <1>4, <1>11, <1>12, <1>17
  <2>2. IsBase64(value)
    <3> SUFFICES ASSUME NEW j \in 1 .. l
                 PROVE  value[j] # <<>> /\ (j < l => Len(value[j]) = 3)
      BY <1>11 DEF IsBase64
    <3>1. PICK g \in Nat : g = o + j /\ g \in 1 .. m /\ (j < l => g < m)
      BY <1>4
    <3>2. g \in 1 .. GroupCount(n) /\ (j < l => g < GroupCount(n)) /\ value[j] = Group(n, g)
      BY <1>2, <1>11, <3>1
    <3> QED
      BY <3>2, GroupFacts
  <2>3. PICK e \in Nat : e = Upto(3 * (o + l), n) /\ p = 3 * o /\ p <= e /\ e <= p + 3 * l
    <3>1. 3 * o <= n
      <4>1. o + l <= m /\ 3 * m <= n + 2 /\ l # 0
        BY <1>2, <1>10, <1>17
      <4> QED
        BY <4>1
    <3>2. p = 3 * o
      BY <1>6, <3>1 DEF Upto
    <3> QED
      BY <3>1, <3>2 DEF Upto
  <2>4. FlattenSeq(value) = Stretch(p, e - p)
    BY <1>8, <1>10, <1>17, <2>3, TextBytes
  <2>5. PICK all : all = buf \o FlattenSeq(value)
    OBVIOUS
  <2>6. all = Stretch(0, e)
    <3>1. PICK f \in Nat : f = e - p /\ p + f = e
      BY <2>3
    <3>2. Stretch(0, p) \o Stretch(0 + p, f) = Stretch(0, p + f)
      BY StretchConcat
    <3>3. 0 + p = p
      OBVIOUS
    <3> QED
      BY <1>7, <2>4, <2>5, <3>1, <3>2, <3>3
  <2>7. limit # 0 => e <= limit
    BY <1>17, <2>3
  <2>8. CASE l < d
    <3>1. added = Result(TRUE, all, NoError, <<>>)
      BY <1>1, <1>11, <1>13, <1>17, <2>1, <2>2, <2>5, <2>8 DEF AddWith
    <3>2. o + l = m
      BY <1>4, <1>5, <2>8
    <3>3. e = n
      BY <1>2, <2>3, <3>2 DEF Upto
    <3> QED
      BY <1>14, <2>6, <2>7, <3>1, <3>3
  <2>9. CASE l = d
    <3>1. added = Result(FALSE, <<>>, NoError, all)
      BY <1>1, <1>11, <1>13, <1>17, <2>1, <2>2, <2>5, <2>9 DEF AddWith
    <3>2. k < count /\ Begin(k + 1) = o + l
      BY <1>4, <1>5, <2>9
    <3> QED
      BY <1>3, <2>3, <2>6, <2>7, <3>1, <3>2
  <2> QED
    BY <1>10, <2>8, <2>9
<1> QED
  BY <1>15, <1>16, <1>17

\* The messages handleAUTHENTICATE sends.
Chunks(chunks) == [i \in DOMAIN chunks |-> Msg("AUTHENTICATE", chunks[i])]

\* They are the chunks, in order.
LEMMA ChunksFacts ==
    ASSUME NEW chunks, NEW l \in Nat \ {0}, DOMAIN chunks = 1 .. l
    PROVE  /\ Chunks(chunks) \in Seq(Range(Chunks(chunks)))
           /\ DOMAIN Chunks(chunks) = 1 .. l
           /\ \A i \in 1 .. l : /\ Other(Chunks(chunks)[i])
                                /\ Chunks(chunks)[i][1] = "AUTHENTICATE"
                                /\ Chunks(chunks)[i][2] = chunks[i]
<1>1. PICK t : t = Chunks(chunks)
  OBVIOUS
<1>2. DOMAIN t = 1 .. l /\ \A i \in 1 .. l : t[i] = Msg("AUTHENTICATE", chunks[i])
  BY <1>1 DEF Chunks
<1>3. t \in Seq(Range(t))
  <2>1. t \in [1 .. l -> Range(t)]
    BY <1>1, <1>2 DEF Chunks, Range
  <2> QED
    BY <2>1
<1>4. ASSUME NEW i \in 1 .. l
      PROVE  Other(t[i]) /\ t[i][1] = "AUTHENTICATE" /\ t[i][2] = chunks[i]
  <2>1. PICK x, y : x = t[i] /\ y = chunks[i]
    OBVIOUS
  <2>2. x = Msg("AUTHENTICATE", y)
    BY <1>2, <2>1
  <2>3. x[1] = "AUTHENTICATE" /\ x[2] = y
    BY <2>2 DEF Msg
  <2>4. Other(x)
    BY <2>3 DEF Other
  <2> QED
    BY <2>1, <2>3, <2>4
<1> QED
  BY <1>1, <1>2, <1>3, <1>4

\* Add waits for more only after a chunk that does not end a response.
LEMMA AddFacts ==
    ASSUME NEW buf, NEW limit, NEW value, Ends(value)
    PROVE  Add(buf, limit, value).done
  BY DEF Add, AddWith, Result, Ends

-----------------------------------------------------------------------------
(* The negotiation, step by step                                           *)

\* Connect, after the last result or without waiting for it.
LEMMA ConnectQuiet ==
    ASSUME Negotiation,
           \/ CapTimeout \/ CapsSettled \/ SASLResult \/ SASLTimeout \/ NegotiationDisconnected
           \/ processAckedCaps \/ Identify \/ Welcomed \/ Disconnected \/ ServerTimedOut \/ CleanUp
    PROVE  Negotiation'
<1>1. Queues
  BY DEF Negotiation
<1>2. /\ UNCHANGED <<capsChan, enabled, acknowledged, remaining, toClient>>
      /\ main # "start" /\ main' # "start"
  BY DEF CapTimeout, CapsSettled, SASLResult, SASLTimeout, NegotiationDisconnected, processAckedCaps, Identify,
         Welcomed, Disconnected, ServerTimedOut, CleanUp, EndNegotiation, chanVars, serverVars
<1>3. ServerQuiet
  <2>1. \/ Write(<<Plain("CAP END")>>) \/ Write(<<Plain("AUTHENTICATE mech")>>)
        \/ Write(<<Plain("USER")>>) \/ toServer' = toServer
    BY DEF CapTimeout, CapsSettled, SASLResult, SASLTimeout, NegotiationDisconnected, processAckedCaps, Identify,
           Welcomed, Disconnected, ServerTimedOut, CleanUp, EndNegotiation
  <2> QED
    BY <1>1, <2>1, WritesQuiet, SameQuiet
<1>4. ClientQuiet
  BY <1>1, <1>2, SameQuiet
<1> QED
  BY <1>2, <1>3, <1>4, Quiet

\* readLoop, on messages that are not about capabilities.
LEMMA ReaderQuiet ==
    ASSUME Negotiation,
           \/ handleCAPLS(FALSE) \/ (handleCAPLS(TRUE) /\ registered) \/ handleAUTHENTICATE
           \/ SASLSuccess \/ SASLFailure \/ handleRegistration \/ ReadEOF \/ Lose
    PROVE  Negotiation'
<1>1. Queues
  BY DEF Negotiation
<1>2. UNCHANGED <<capsChan, enabled, acknowledged, remaining, main>>
  BY DEF handleCAPLS, handleAUTHENTICATE, SASLSuccess, SASLFailure, handleRegistration, ReadEOF,
         Lose, mainVars, chanVars, serverVars
<1>3. ClientQuiet
  <2>1. (\E k : Receive(k)) \/ toClient' = toClient
    BY DEF handleCAPLS, handleAUTHENTICATE, SASLSuccess, SASLFailure, handleRegistration, ReadEOF,
           Lose
  <2> QED
    BY <1>1, <2>1, TakeQuiet, SameQuiet
<1>4. ServerQuiet
  <2>1. \/ handleAUTHENTICATE \/ Write(<<Plain("CAP END"), Plain("QUIT")>>) \/ toServer' = toServer
    BY DEF handleCAPLS, SASLSuccess, SASLFailure, handleRegistration, ReadEOF, Lose
  <2>2. CASE handleAUTHENTICATE
    <3>1. PICK n \in ResponseLengths :
             Write(Chunks(EncodeSASLResponse([i \in 1 .. n |-> i])))
      BY <2>2 DEF handleAUTHENTICATE, Chunks
    <3>2. PICK raw : raw = [i \in 1 .. n |-> i]
      OBVIOUS
    <3>3. n \in Nat
      BY SASLAssumption
    <3>4. PICK chunks : chunks = EncodeSASLResponse(raw)
      OBVIOUS
    <3>5. PICK l \in Nat \ {0} : DOMAIN chunks = 1 .. l
      BY <3>2, <3>3, <3>4, EncodeFacts
    <3>6. PICK t : t = Chunks(chunks)
      OBVIOUS
    <3>7. t \in Seq(Range(t)) /\ \A i \in DOMAIN t : Other(t[i])
      BY <3>5, <3>6, ChunksFacts
    <3>8. Write(t)
      BY <3>1, <3>2, <3>4, <3>6
    <3> QED
      BY <1>1, <3>7, <3>8, WriteQuiet
  <2>3. CASE Write(<<Plain("CAP END"), Plain("QUIT")>>)
    BY <1>1, <2>3, WritesQuiet
  <2>4. CASE toServer' = toServer
    BY <1>1, <2>4, SameQuiet
  <2> QED
    BY <2>1, <2>2, <2>3, <2>4
<1> QED
  BY <1>2, <1>3, <1>4, Quiet

\* The server, on messages that are not about capabilities.
LEMMA OtherServerQuiet ==
    ASSUME Negotiation,
           \/ ServerPartialList \/ ServerSilent \/ ServerMechanism
           \/ ServerChunk \/ ServerCapEnd \/ ServerUser \/ ServerWelcome \/ ServerQuit
    PROVE  Negotiation'
<1>1. Queues
  BY DEF Negotiation
<1>2. UNCHANGED <<capsChan, enabled, acknowledged, remaining, main>>
  BY DEF ServerPartialList, ServerSilent, ServerMechanism, ServerChunk, ServerCapEnd, ServerUser,
         ServerWelcome, ServerQuit, mainVars, chanVars, serverVars
<1>3. ServerQuiet
  <2>1. (\E k : Handle(k)) \/ toServer' = toServer
    BY DEF ServerPartialList, ServerSilent, ServerMechanism, ServerChunk, ServerCapEnd, ServerUser,
           ServerWelcome, ServerQuit
  <2> QED
    BY <1>1, <2>1, TakeQuiet, SameQuiet
<1>4. ClientQuiet
  <2>1. CASE ServerPartialList
    BY <1>1, <2>1, RepliesQuiet DEF ServerPartialList
  <2>2. CASE ServerMechanism
    <3>1. Reply("AUTHENTICATE +", {}) \/ Reply("904", {})
      BY <2>2 DEF ServerMechanism
    <3> QED
      BY <1>1, <3>1, RepliesQuiet
  <2>3. CASE ServerChunk
    <3>1. Reply("904", {}) \/ Reply("903", {}) \/ toClient' = toClient
      BY <2>3 DEF ServerChunk
    <3> QED
      BY <1>1, <3>1, RepliesQuiet, SameQuiet
  <2>4. CASE ServerSilent \/ ServerCapEnd \/ ServerUser
    BY <1>1, <2>4, SameQuiet DEF ServerSilent, ServerCapEnd, ServerUser
  <2>5. CASE ServerWelcome \/ ServerQuit
    BY <1>1, <2>5, RepliesQuiet DEF ServerWelcome, ServerQuit
  <2> QED
    BY <2>1, <2>2, <2>3, <2>4, <2>5
<1> QED
  BY <1>2, <1>3, <1>4, Quiet

\* negotiateCaps asks for the list: every capability is in that message.
LEMMA ListRequested ==
    ASSUME Negotiation, RequestList
    PROVE  Negotiation'
<1>1. Queues
  BY DEF Negotiation
<1>2. /\ UNCHANGED <<capsChan, enabled, acknowledged, remaining, toClient>>
      /\ main = "start" /\ main' = "caps"
  BY DEF RequestList, chanVars, serverVars
<1>3. CASE closed
  <2>1. toServer' = toServer
    BY <1>3 DEF RequestList, Write
  <2> QED
    BY <1>1, <1>2, <2>1, SameQuiet, Quiet
<1>4. CASE ~closed
  <2>1. PICK s, m, t, u : s = toServer /\ m = Plain("CAP LS") /\ t = <<m>> /\ u = s \o t
    OBVIOUS
  <2>2. toServer' = u
    BY <1>4, <2>1 DEF RequestList, Write
  <2>3. m[1] = "CAP LS"
    BY <2>1 DEF Plain, Msg
  <2>4. t \in Seq(Range(t)) /\ (\A i \in DOMAIN t : t[i] = m) /\ DOMAIN t = 1 .. 1
    BY <2>1, SingleFacts
  <2>5. Apart(t) /\ Asked(t)
    <3>1. \A i, j \in DOMAIN t : i = j
      BY <2>4
    <3>2. \A i \in DOMAIN t : t[i][1] # "CAP REQ"
      BY <2>3, <2>4
    <3> QED
      BY <3>1, <3>2 DEF Apart, Asked
  <2>6. s \in Seq(Range(s)) /\ Apart(s) /\ Asked(s) /\ \A c \in Caps : ~Carries(s, c)
    BY <1>2, <2>1 DEF Negotiation, Queues, Located
  <2>7. /\ s \o t \in Seq(Range(s \o t)) /\ Apart(s \o t)
        /\ \A i \in DOMAIN (s \o t) : \/ \E j \in DOMAIN s : (s \o t)[i] = s[j]
                                    \/ \E j \in DOMAIN t : (s \o t)[i] = t[j]
    BY <2>4, <2>5, <2>6, ConcatCarries
  <2>8. Asked(u)
    <3>1. \A i \in DOMAIN u : (\E j \in DOMAIN s : u[i] = s[j]) \/ (\E j \in DOMAIN t : u[i] = t[j])
      BY <2>1, <2>7
    <3> QED
      BY <2>5, <2>6, <3>1 DEF Asked
  <2>9. Queues'
    BY <1>1, <1>2, <2>1, <2>2, <2>7, <2>8 DEF Queues
  <2>10. ASSUME NEW c \in Caps PROVE Located(c)'
    <3>1. /\ c \notin enabled /\ ~Carries(toClient, c) /\ ~Has(capsChan, c) /\ ~Grants(toClient, c)
          /\ ~HasAck(capsChan, c)
      BY <1>2 DEF Negotiation, Located, Grants, Carries, HasAck, Has
    <3> QED
      BY <1>2, <3>1 DEF Located
  <2>11. Counted'
    <3>1. Pending' \subseteq Pending
      BY <1>2 DEF Pending
    <3> QED
      BY <1>2, <3>1, StillCounted DEF Negotiation
  <2> QED
    BY <1>2, <2>9, <2>10, <2>11 DEF Negotiation
<1> QED
  BY <1>3, <1>4

\* negotiateCaps counts a result.
LEMMA ResultCounted ==
    ASSUME Negotiation, CapResult
    PROVE  Negotiation'
<1>1. Queues /\ Counted
  BY DEF Negotiation
<1>2. /\ UNCHANGED <<enabled, toServer, toClient, main>> /\ main # "start"
      /\ capsChan # <<>> /\ capsChan' = Tail(capsChan)
      /\ remaining > 0 /\ remaining' = remaining - 1
      /\ acknowledged' = IF Head(capsChan).ack
                         THEN acknowledged \cup {Head(capsChan).capName} ELSE acknowledged
  BY DEF CapResult, serverVars
<1>3. PICK q, h, x : q = capsChan /\ h = Head(capsChan) /\ x = h.capName
  OBVIOUS
<1>4. q \in Seq(Range(q)) /\ Distinct(q) /\ q # <<>>
  BY <1>1, <1>2, <1>3 DEF Queues
<1>5. /\ Tail(q) \in Seq(Range(Tail(q))) /\ Distinct(Tail(q))
      /\ \A c : Has(Tail(q), c) <=> Has(q, c) /\ c # Head(q).capName
      /\ \A c : HasAck(Tail(q), c) <=> HasAck(q, c) /\ c # Head(q).capName
      /\ Has(q, Head(q).capName) /\ (HasAck(q, Head(q).capName) <=> Head(q).ack)
  BY <1>4, TailHas
<1>6. /\ capsChan' \in Seq(Range(capsChan')) /\ Distinct(capsChan')
      /\ \A c : Has(capsChan', c) <=> Has(capsChan, c) /\ c # x
      /\ \A c : HasAck(capsChan', c) <=> HasAck(capsChan, c) /\ c # x
      /\ Has(capsChan, x) /\ (HasAck(capsChan, x) <=> h.ack)
  BY <1>2, <1>3, <1>5
<1>7. x \in Caps
  BY <1>1, <1>6 DEF Queues, Named, Has
<1>8. /\ ~Carries(toServer, x) /\ ~Carries(toClient, x)
      /\ (h.ack => x \in enabled) /\ (~h.ack => x \notin enabled)
  BY <1>6, <1>7 DEF Negotiation, Located
<1>9. acknowledged' = IF h.ack THEN acknowledged \cup {x} ELSE acknowledged
  BY <1>2, <1>3
<1>10. Queues'
  <2>0. \A c : Has(capsChan, c) => c \in Caps
    BY <1>1 DEF Queues, Named, Has
  <2>1. \A c : Has(capsChan', c) => c \in Caps
    BY <1>6, <2>0
  <2>2. Named(capsChan')
    BY <2>1 DEF Named, Has
  <2> QED
    BY <1>1, <1>2, <1>6, <2>2 DEF Queues
<1>11. ASSUME NEW c \in Caps PROVE Located(c)'
  <2>1. Located(c)
    BY DEF Negotiation
  <2>2. Grants(toClient, c) => Carries(toClient, c)
    BY DEF Grants, Carries
  <2>3. CASE c = x
    BY <1>2, <1>6, <1>8, <2>2, <2>3 DEF Located
  <2>4. CASE c # x
    <3>1. c \in acknowledged' <=> c \in acknowledged
      BY <1>9, <2>4
    <3> QED
      BY <1>2, <1>6, <2>1, <2>4, <3>1 DEF Located
  <2> QED
    BY <2>3, <2>4
<1>12. Counted'
  <2>1. x \in Pending
    BY <1>6, <1>7 DEF Pending
  <2>2. Pending' \subseteq Pending \ {x}
    <3> SUFFICES ASSUME NEW c \in Pending' PROVE c \in Pending /\ c # x
      OBVIOUS
    <3>1. /\ c \in Caps
          /\ \/ Carries(toServer, c) \/ Carries(toClient, c) \/ Has(capsChan', c)
             \/ c \in enabled \ acknowledged'
      BY <1>2 DEF Pending
    <3>2. c # x
      BY <1>6, <1>8, <1>9, <3>1
    <3>3. c \in Pending
      BY <1>6, <1>9, <3>1 DEF Pending
    <3> QED
      BY <3>2, <3>3
  <2> QED
    BY <1>1, <1>2, <2>1, <2>2, OneCounted
<1>13. acknowledged' \subseteq enabled' /\ enabled' \subseteq Caps
  BY <1>2, <1>8, <1>9 DEF Negotiation
<1> QED
  BY <1>10, <1>11, <1>12, <1>13 DEF Negotiation

\* What taking the first message from the server does.
LEMMA Taken ==
    ASSUME Queues, NEW k, Receive(k)
    PROVE  \E h : /\ h = Head(toClient) /\ h[1] = k
                  /\ toClient' \in Seq(Range(toClient')) /\ Apart(toClient')
                  /\ \A c \in Caps : Carries(toClient', c) <=> Carries(toClient, c) /\ c \notin Holds(h)
                  /\ \A c \in Caps : Grants(toClient', c) <=> Grants(toClient, c) /\ c \notin Holds(h)
                  /\ \A c \in Holds(h) : c \in Caps /\ Carries(toClient, c)
                  /\ \A c \in Holds(h) : Grants(toClient, c) <=> h[1] = "ACK"
<1>1. PICK s, h : s = toClient /\ h = Head(s)
  OBVIOUS
<1>2. s \in Seq(Range(s)) /\ Apart(s) /\ s # <<>> /\ toClient' = Tail(s) /\ h[1] = k
  BY <1>1 DEF Queues, Receive
<1>3. /\ Tail(s) \in Seq(Range(Tail(s))) /\ Apart(Tail(s))
      /\ \A c \in Caps : Carries(Tail(s), c) <=> Carries(s, c) /\ c \notin Holds(Head(s))
      /\ \A c \in Caps : Grants(Tail(s), c) <=> Grants(s, c) /\ c \notin Holds(Head(s))
      /\ \A c \in Holds(Head(s)) : c \in Caps /\ Carries(s, c)
      /\ \A c \in Holds(Head(s)) : Grants(s, c) <=> Head(s)[1] = "ACK"
  BY <1>2, TailCarries
<1> QED
  BY <1>1, <1>2, <1>3

\* What taking the first message from the client does.
LEMMA Handled ==
    ASSUME Queues, NEW k, Handle(k)
    PROVE  \E h : /\ h = Head(toServer) /\ h[1] = k
                  /\ toServer' \in Seq(Range(toServer')) /\ Apart(toServer') /\ Asked(toServer')
                  /\ \A c \in Caps : Carries(toServer', c) <=> Carries(toServer, c) /\ c \notin Holds(h)
                  /\ \A c \in Holds(h) : c \in Caps /\ Carries(toServer, c)
                  /\ k = "CAP REQ" => h[2] \subseteq Caps
<1>1. PICK s, h, t : s = toServer /\ h = Head(s) /\ t = Tail(s)
  OBVIOUS
<1>2. /\ s \in Seq(Range(s)) /\ Apart(s) /\ Asked(s) /\ s # <<>> /\ toServer' = t /\ h[1] = k
  BY <1>1 DEF Queues, Handle
<1>3. /\ t \in Seq(Range(t)) /\ Apart(t)
      /\ \A c \in Caps : Carries(t, c) <=> Carries(s, c) /\ c \notin Holds(h)
      /\ \A c \in Holds(h) : c \in Caps /\ Carries(s, c)
      /\ \A i \in DOMAIN t : \E j \in DOMAIN s : t[i] = s[j]
      /\ 1 \in DOMAIN s /\ h = s[1]
  BY <1>1, <1>2, TailCarries
<1>4. Asked(t) /\ (k = "CAP REQ" => h[2] \subseteq Caps)
  BY <1>2, <1>3 DEF Asked
<1> QED
  BY <1>1, <1>2, <1>3, <1>4

\* handleCAPLS asks for what is advertised and refuses the rest itself.
LEMMA ListHandled ==
    ASSUME Negotiation, handleCAPLS(TRUE), ~registered
    PROVE  Negotiation'
<1>1. Queues /\ Counted
  BY DEF Negotiation
<1>2. UNCHANGED <<enabled, acknowledged, remaining, main, closed>> /\ Receive("LS")
  BY DEF handleCAPLS, mainVars, serverVars
<1>3. PICK h : /\ h = Head(toClient) /\ h[1] = "LS"
               /\ toClient' \in Seq(Range(toClient')) /\ Apart(toClient')
               /\ \A c \in Caps : Carries(toClient', c) <=> Carries(toClient, c) /\ c \notin Holds(h)
               /\ \A c \in Caps : Grants(toClient', c) <=> Grants(toClient, c) /\ c \notin Holds(h)
               /\ \A c \in Holds(h) : c \in Caps /\ Carries(toClient, c)
               /\ \A c \in Holds(h) : Grants(toClient, c) <=> h[1] = "ACK"
  BY <1>1, <1>2, Taken
<1>4. Holds(h) = Caps
  BY <1>3 DEF Holds
<1>5. ASSUME NEW c \in Caps
      PROVE  /\ ~Carries(toServer, c) /\ ~Has(capsChan, c) /\ ~HasAck(capsChan, c)
             /\ c \notin enabled /\ ~Carries(toClient', c) /\ ~Grants(toClient', c)
             /\ Carries(toClient, c) /\ main # "start"
  <2>1. Carries(toClient, c) /\ ~Grants(toClient, c) /\ ~Carries(toClient', c) /\ ~Grants(toClient', c)
    BY <1>3, <1>4
  <2>2. HasAck(capsChan, c) => Has(capsChan, c)
    BY DEF HasAck, Has
  <2> QED
    BY <2>1, <2>2 DEF Negotiation, Located
<1>6. PICK adv, rest, req, none, res, q :
         /\ adv = capsAdvertised \cup h[2] /\ rest = Caps \ adv
         /\ req = Select(RequestCaps, adv) /\ none = Select(RequestCaps, rest)
         /\ res = Results(none, FALSE) /\ q = capsChan
  OBVIOUS
<1>7. Write(Requests(req)) /\ capsChan' = Offer(q, ChanSize, res)
  BY <1>3, <1>6 DEF handleCAPLS, Requests
<1>8. req \in Seq(Caps \cap adv) /\ IsInjective(req)
  BY <1>6, SelectedCaps
<1>9. /\ Requests(req) \in Seq(Range(Requests(req))) /\ Apart(Requests(req)) /\ Asked(Requests(req))
      /\ \A c \in Caps : Carries(Requests(req), c) => c \in adv
  BY <1>8, RequestsFacts
<1>10. /\ toServer' \in Seq(Range(toServer')) /\ Apart(toServer') /\ Asked(toServer')
       /\ \A c \in Caps : Carries(toServer', c) => c \in adv
  <2>1. CASE closed
    BY <1>1, <1>5, <1>7, <2>1 DEF Write, Queues
  <2>2. CASE ~closed
    <3>1. PICK s, t, u : s = toServer /\ t = Requests(req) /\ u = s \o t
      OBVIOUS
    <3>2. toServer' = u
      BY <1>7, <2>2, <3>1 DEF Write
    <3>3. /\ s \in Seq(Range(s)) /\ Apart(s) /\ Asked(s) /\ t \in Seq(Range(t)) /\ Apart(t)
          /\ Asked(t) /\ \A c \in Caps : ~Carries(s, c)
      BY <1>1, <1>5, <1>9, <3>1 DEF Queues
    <3>4. /\ s \o t \in Seq(Range(s \o t)) /\ Apart(s \o t)
          /\ \A c \in Caps : Carries(s \o t, c) <=> Carries(s, c) \/ Carries(t, c)
          /\ \A i \in DOMAIN (s \o t) : \/ \E j \in DOMAIN s : (s \o t)[i] = s[j]
                                      \/ \E j \in DOMAIN t : (s \o t)[i] = t[j]
      BY <3>3, ConcatCarries
    <3>5. \A i \in DOMAIN u : (\E j \in DOMAIN s : u[i] = s[j]) \/ (\E j \in DOMAIN t : u[i] = t[j])
      BY <3>1, <3>4
    <3>6. Asked(u)
      BY <3>3, <3>5 DEF Asked
    <3>7. \A c \in Caps : Carries(u, c) => c \in adv
      BY <1>9, <3>1, <3>3, <3>4
    <3> QED
      BY <3>1, <3>2, <3>4, <3>6, <3>7
  <2> QED
    BY <2>1, <2>2
<1>11. /\ res \in Seq(Range(res)) /\ Distinct(res)
       /\ \A i \in DOMAIN res : res[i].capName \in Caps \cap rest
       /\ \A c : Has(res, c) => c \in Caps \cap rest
       /\ \A c : ~HasAck(res, c)
  BY <1>6, ResultsFacts
<1>12. /\ capsChan' \in Seq(Range(capsChan')) /\ Distinct(capsChan')
       /\ \A c : Has(capsChan', c) => Has(capsChan, c) \/ c \in Caps \cap rest
       /\ \A c : HasAck(capsChan', c) => HasAck(capsChan, c)
  <2>1. /\ q \in Seq(Range(q)) /\ Distinct(q)
        /\ \A i \in DOMAIN res : ~Has(q, res[i].capName)
    BY <1>1, <1>5, <1>6, <1>11 DEF Queues
  <2>2. PICK size \in Nat : size = ChanSize
    BY CapsFacts DEF ChanSize
  <2>3. /\ Offer(q, size, res) \in Seq(Range(Offer(q, size, res))) /\ Distinct(Offer(q, size, res))
        /\ \A c : Has(Offer(q, size, res), c) => Has(q, c) \/ Has(res, c)
        /\ \A c : HasAck(Offer(q, size, res), c) => HasAck(q, c) \/ HasAck(res, c)
    BY <1>11, <2>1, OfferHas
  <2> QED
    BY <1>6, <1>7, <1>11, <2>2, <2>3
<1>13. Queues'
  <2>1. \A c : Has(capsChan', c) => c \in Caps
    BY <1>1, <1>12 DEF Queues, Named, Has
  <2>2. Named(capsChan')
    BY <2>1 DEF Named, Has
  <2> QED
    BY <1>1, <1>3, <1>10, <1>12, <2>2 DEF Queues
<1>14. ASSUME NEW c \in Caps PROVE Located(c)'
  <2>1. /\ ~Carries(toClient', c) /\ ~Grants(toClient', c) /\ ~HasAck(capsChan', c)
        /\ c \notin enabled' /\ main' # "start" /\ ~(Carries(toServer', c) /\ Has(capsChan', c))
    BY <1>2, <1>5, <1>6, <1>10, <1>12
  <2> QED
    BY <2>1 DEF Located
<1>15. Counted'
  <2>1. Pending' \subseteq Pending
    BY <1>5 DEF Pending
  <2> QED
    BY <1>1, <1>2, <2>1, StillCounted
<1> QED
  BY <1>2, <1>13, <1>14, <1>15 DEF Negotiation

\* handleCAP passes on the answer for each capability it names.
LEMMA AnswerHandled ==
    ASSUME Negotiation, NEW ack \in BOOLEAN, handleCAP(ack)
    PROVE  Negotiation'
<1>1. Queues /\ Counted
  BY DEF Negotiation
<1>2. UNCHANGED <<enabled, acknowledged, remaining, main, toServer>>
  BY DEF handleCAP, mainVars, serverVars
<1>3. PICK k : k = (IF ack THEN "ACK" ELSE "NAK") /\ Receive(k)
  BY DEF handleCAP
<1>4. PICK h : /\ h = Head(toClient) /\ h[1] = k
               /\ toClient' \in Seq(Range(toClient')) /\ Apart(toClient')
               /\ \A c \in Caps : Carries(toClient', c) <=> Carries(toClient, c) /\ c \notin Holds(h)
               /\ \A c \in Caps : Grants(toClient', c) <=> Grants(toClient, c) /\ c \notin Holds(h)
               /\ \A c \in Holds(h) : c \in Caps /\ Carries(toClient, c)
               /\ \A c \in Holds(h) : Grants(toClient, c) <=> h[1] = "ACK"
  BY <1>1, <1>3, Taken
<1>5. Holds(h) = Caps \cap h[2] /\ (h[1] = "ACK" <=> ack)
  BY <1>3, <1>4 DEF Holds
<1>6. ASSUME NEW c \in Holds(h)
      PROVE  /\ c \in Caps /\ ~Carries(toServer, c) /\ ~Has(capsChan, c) /\ ~HasAck(capsChan, c)
             /\ ~Carries(toClient', c) /\ ~Grants(toClient', c) /\ Carries(toClient, c)
             /\ main # "start" /\ (ack => c \in enabled \ acknowledged) /\ (~ack => c \notin enabled)
  <2>1. /\ c \in Caps /\ Carries(toClient, c) /\ (Grants(toClient, c) <=> ack)
        /\ ~Carries(toClient', c) /\ ~Grants(toClient', c)
    BY <1>4, <1>5
  <2>2. HasAck(capsChan, c) => Has(capsChan, c)
    BY DEF HasAck, Has
  <2> QED
    BY <2>1, <2>2 DEF Negotiation, Located
<1>7. PICK wanted, res, q :
         wanted = h[2] /\ res = Results(Select(RequestCaps, wanted), ack) /\ q = capsChan
  OBVIOUS
<1>8. capsChan' = Offer(q, ChanSize, res)
  BY <1>4, <1>7 DEF handleCAP
<1>9. /\ res \in Seq(Range(res)) /\ Distinct(res)
      /\ \A i \in DOMAIN res : res[i].capName \in Caps \cap wanted
      /\ \A c : Has(res, c) => c \in Caps \cap wanted
      /\ \A c : HasAck(res, c) <=> ack /\ Has(res, c)
  BY <1>7, ResultsFacts
<1>10. /\ capsChan' \in Seq(Range(capsChan')) /\ Distinct(capsChan')
       /\ \A c : Has(capsChan', c) => Has(capsChan, c) \/ c \in Holds(h)
       /\ \A c : HasAck(capsChan', c) => HasAck(capsChan, c) \/ (ack /\ c \in Holds(h))
       /\ \A c : Has(capsChan', c) /\ ~HasAck(capsChan', c) =>
                    \/ Has(capsChan, c) /\ ~HasAck(capsChan, c)
                    \/ c \in Holds(h) /\ ~ack
  <2>1. /\ q \in Seq(Range(q)) /\ Distinct(q)
        /\ \A i \in DOMAIN res : ~Has(q, res[i].capName)
    BY <1>1, <1>5, <1>6, <1>7, <1>9 DEF Queues
  <2>2. PICK size \in Nat : size = ChanSize
    BY CapsFacts DEF ChanSize
  <2>3. /\ Offer(q, size, res) \in Seq(Range(Offer(q, size, res))) /\ Distinct(Offer(q, size, res))
        /\ \A c : Has(Offer(q, size, res), c) => Has(q, c) \/ Has(res, c)
        /\ \A c : HasAck(Offer(q, size, res), c) => HasAck(q, c) \/ HasAck(res, c)
        /\ \A c : Has(Offer(q, size, res), c) /\ ~HasAck(Offer(q, size, res), c) =>
                     ~HasAck(q, c) /\ ~HasAck(res, c)
    BY <1>9, <2>1, OfferHas
  <2>4. PICK o : o = Offer(q, size, res)
    OBVIOUS
  <2>5. /\ o \in Seq(Range(o)) /\ Distinct(o)
        /\ \A c : Has(o, c) => Has(q, c) \/ c \in Holds(h)
        /\ \A c : HasAck(o, c) => HasAck(q, c) \/ (ack /\ c \in Holds(h))
    BY <1>5, <1>7, <1>9, <2>3, <2>4
  <2>6. ASSUME NEW c, Has(o, c), ~HasAck(o, c)
        PROVE  (Has(q, c) /\ ~HasAck(q, c)) \/ (c \in Holds(h) /\ ~ack)
    <3>1. ~HasAck(q, c) /\ ~HasAck(res, c) /\ (Has(q, c) \/ Has(res, c))
      BY <2>3, <2>4, <2>6
    <3> QED
      BY <1>5, <1>7, <1>9, <3>1
  <2>7. capsChan' = o
    BY <1>8, <2>2, <2>4
  <2> QED
    BY <1>7, <2>5, <2>6, <2>7
<1>11. Queues'
  <2>1. \A c : Has(capsChan', c) => c \in Caps
    BY <1>1, <1>6, <1>10 DEF Queues, Named, Has
  <2>2. Named(capsChan')
    BY <2>1 DEF Named, Has
  <2> QED
    BY <1>1, <1>2, <1>4, <1>10, <2>2 DEF Queues
<1>12. ASSUME NEW c \in Caps PROVE Located(c)'
  <2>1. Located(c)
    BY DEF Negotiation
  <2>2. CASE c \in Holds(h)
    <3>1. /\ ~Carries(toServer', c) /\ ~Carries(toClient', c) /\ ~Grants(toClient', c)
          /\ main' # "start"
          /\ HasAck(capsChan', c) => c \in enabled' \ acknowledged'
          /\ Has(capsChan', c) /\ ~HasAck(capsChan', c) => c \notin enabled'
      BY <1>2, <1>6, <1>10, <2>2
    <3> QED
      BY <3>1 DEF Located
  <2>3. CASE c \notin Holds(h)
    <3>1. /\ Carries(toClient', c) <=> Carries(toClient, c)
          /\ Grants(toClient', c) <=> Grants(toClient, c)
          /\ Has(capsChan', c) => Has(capsChan, c)
          /\ HasAck(capsChan', c) => HasAck(capsChan, c)
          /\ Has(capsChan', c) /\ ~HasAck(capsChan', c) => Has(capsChan, c) /\ ~HasAck(capsChan, c)
      BY <1>4, <1>10, <2>3
    <3> QED
      BY <1>2, <2>1, <3>1 DEF Located
  <2> QED
    BY <2>2, <2>3
<1>13. Counted'
  <2>1. Pending' \subseteq Pending
    BY <1>2, <1>4, <1>6, <1>10 DEF Pending
  <2> QED
    BY <1>1, <1>2, <2>1, StillCounted
<1> QED
  BY <1>2, <1>11, <1>12, <1>13 DEF Negotiation

\* What a message to the client adds.
LEMMA Replied ==
    ASSUME Queues, NEW k, NEW caps, Reply(k, caps), NEW m, m = Msg(k, caps),
           \A c \in Holds(m) : ~Carries(toClient, c)
    PROVE  /\ toClient' \in Seq(Range(toClient')) /\ Apart(toClient')
           /\ \A c \in Caps : Carries(toClient', c) <=> Carries(toClient, c) \/ c \in Holds(m)
           /\ \A c \in Caps : Grants(toClient', c) <=> Grants(toClient, c) \/ (c \in Holds(m) /\ k = "ACK")
<1>1. PICK s : s = toClient
  OBVIOUS
<1>2. /\ s \in Seq(Range(s)) /\ Apart(s) /\ toClient' = Append(s, m)
      /\ \A c \in Holds(m) : ~Carries(s, c)
  BY <1>1 DEF Queues, Reply
<1>3. /\ Append(s, m) \in Seq(Range(Append(s, m))) /\ Apart(Append(s, m))
      /\ \A c \in Caps : Carries(Append(s, m), c) <=> Carries(s, c) \/ c \in Holds(m)
      /\ \A c \in Caps : Grants(Append(s, m), c)
                            <=> Grants(s, c) \/ (c \in Holds(m) /\ m[1] = "ACK")
  BY <1>2, AppendCarries
<1>4. m[1] = k
  BY DEF Msg
<1> QED
  BY <1>1, <1>2, <1>3, <1>4

\* The server lists its capabilities.
LEMMA Listed ==
    ASSUME Negotiation, ServerList
    PROVE  Negotiation'
<1>1. Queues /\ Counted
  BY DEF Negotiation
<1>2. /\ UNCHANGED <<enabled, acknowledged, remaining, main, capsChan>>
      /\ Handle("CAP LS") /\ Reply("LS", unlisted)
  BY DEF ServerList, mainVars, chanVars
<1>3. PICK h : /\ h = Head(toServer) /\ h[1] = "CAP LS"
               /\ toServer' \in Seq(Range(toServer')) /\ Apart(toServer') /\ Asked(toServer')
               /\ \A c \in Caps : Carries(toServer', c) <=> Carries(toServer, c) /\ c \notin Holds(h)
               /\ \A c \in Holds(h) : c \in Caps /\ Carries(toServer, c)
  BY <1>1, <1>2, Handled
<1>4. Holds(h) = Caps
  BY <1>3 DEF Holds
<1>5. PICK m, caps : caps = unlisted /\ m = Msg("LS", caps)
  OBVIOUS
<1>6. Holds(m) = Caps
  <2>1. m[1] = "LS"
    BY <1>5 DEF Msg
  <2> QED
    BY <2>1 DEF Holds
<1>7. ASSUME NEW c \in Caps
      PROVE  /\ Carries(toServer, c) /\ ~Carries(toServer', c) /\ ~Carries(toClient, c)
             /\ ~Has(capsChan, c) /\ ~HasAck(capsChan, c) /\ c \notin enabled
             /\ main # "start" /\ ~Grants(toClient, c)
  <2>1. Carries(toServer, c) /\ ~Carries(toServer', c)
    BY <1>3, <1>4
  <2>2. (HasAck(capsChan, c) => Has(capsChan, c)) /\ (Grants(toClient, c) => Carries(toClient, c))
    BY DEF HasAck, Has, Grants, Carries
  <2> QED
    BY <2>1, <2>2 DEF Negotiation, Located
<1>8. /\ toClient' \in Seq(Range(toClient')) /\ Apart(toClient')
      /\ \A c \in Caps : Grants(toClient', c) <=> Grants(toClient, c)
  <2>1. PICK k : k = "LS"
    OBVIOUS
  <2>2. Reply(k, caps) /\ m = Msg(k, caps) /\ k # "ACK" /\ \A c \in Holds(m) : ~Carries(toClient, c)
    BY <1>2, <1>5, <1>6, <1>7, <2>1
  <2>3. /\ toClient' \in Seq(Range(toClient')) /\ Apart(toClient')
        /\ \A c \in Caps : Grants(toClient', c) <=> Grants(toClient, c) \/ (c \in Holds(m) /\ k = "ACK")
    BY <1>1, <2>2, Replied
  <2> QED
    BY <2>2, <2>3
<1>9. Queues'
  BY <1>1, <1>2, <1>3, <1>8 DEF Queues
<1>10. ASSUME NEW c \in Caps PROVE Located(c)'
  BY <1>2, <1>7, <1>8 DEF Located
<1>11. Counted'
  <2>1. Pending' \subseteq Pending
    BY <1>7 DEF Pending
  <2> QED
    BY <1>1, <1>2, <2>1, StillCounted
<1> QED
  BY <1>2, <1>9, <1>10, <1>11 DEF Negotiation

\* The server grants or refuses what it is asked for.
LEMMA Answered ==
    ASSUME Negotiation, ServerRequest
    PROVE  Negotiation'
<1>1. Queues /\ Counted
  BY DEF Negotiation
<1>2. /\ UNCHANGED <<acknowledged, remaining, main, capsChan>> /\ Handle("CAP REQ")
  BY DEF ServerRequest, mainVars, chanVars
<1>3. PICK h : /\ h = Head(toServer) /\ h[1] = "CAP REQ"
               /\ toServer' \in Seq(Range(toServer')) /\ Apart(toServer') /\ Asked(toServer')
               /\ \A c \in Caps : Carries(toServer', c) <=> Carries(toServer, c) /\ c \notin Holds(h)
               /\ \A c \in Holds(h) : c \in Caps /\ Carries(toServer, c)
               /\ h[2] \subseteq Caps
  BY <1>1, <1>2, Handled
<1>4. Holds(h) = h[2]
  BY <1>3 DEF Holds
<1>5. PICK caps : caps = h[2] /\ caps \subseteq Caps
  BY <1>3
<1>6. PICK k : /\ k \in {"ACK", "NAK"} /\ Reply(k, caps)
               /\ enabled' = IF k = "ACK" THEN enabled \cup caps ELSE enabled
  <2>1. \/ Reply("ACK", caps) /\ enabled' = enabled \cup caps
        \/ Reply("NAK", caps) /\ enabled' = enabled
    BY <1>3, <1>5 DEF ServerRequest
  <2>2. "ACK" # "NAK"
    OBVIOUS
  <2> QED
    BY <2>1, <2>2
<1>7. PICK m : m = Msg(k, caps)
  OBVIOUS
<1>8. Holds(m) = caps
  <2>1. m[1] = k /\ m[2] = caps
    BY <1>7 DEF Msg
  <2> QED
    BY <1>5, <1>6, <2>1 DEF Holds
<1>9. ASSUME NEW c \in caps
      PROVE  /\ c \in Caps /\ Carries(toServer, c) /\ ~Carries(toServer', c) /\ ~Carries(toClient, c)
             /\ ~Has(capsChan, c) /\ ~HasAck(capsChan, c) /\ c \notin enabled
             /\ main # "start" /\ ~Grants(toClient, c)
  <2>1. c \in Caps /\ Carries(toServer, c) /\ ~Carries(toServer', c)
    BY <1>3, <1>4, <1>5
  <2>2. (HasAck(capsChan, c) => Has(capsChan, c)) /\ (Grants(toClient, c) => Carries(toClient, c))
    BY DEF HasAck, Has, Grants, Carries
  <2> QED
    BY <2>1, <2>2 DEF Negotiation, Located
<1>10. /\ toClient' \in Seq(Range(toClient')) /\ Apart(toClient')
       /\ \A c \in Caps : Carries(toClient', c) <=> Carries(toClient, c) \/ c \in caps
       /\ \A c \in Caps : Grants(toClient', c) <=> Grants(toClient, c) \/ (c \in caps /\ k = "ACK")
  BY <1>1, <1>6, <1>7, <1>8, <1>9, Replied
<1>11. Queues'
  BY <1>1, <1>2, <1>3, <1>10 DEF Queues
<1>12. acknowledged \subseteq enabled /\ enabled \subseteq Caps
  BY DEF Negotiation
<1>13. ASSUME NEW c \in Caps PROVE Located(c)'
  <2>1. Located(c)
    BY DEF Negotiation
  <2>2. CASE c \in caps
    <3>1. /\ ~Carries(toServer', c) /\ Carries(toClient', c) /\ ~Has(capsChan', c)
          /\ ~HasAck(capsChan', c) /\ main' # "start" /\ (Grants(toClient', c) <=> k = "ACK")
          /\ (c \in enabled' <=> k = "ACK") /\ c \notin acknowledged'
      BY <1>2, <1>6, <1>9, <1>10, <1>12, <2>2
    <3> QED
      BY <3>1 DEF Located
  <2>3. CASE c \notin caps
    <3>1. /\ Carries(toServer', c) <=> Carries(toServer, c)
          /\ Carries(toClient', c) <=> Carries(toClient, c)
          /\ Grants(toClient', c) <=> Grants(toClient, c)
          /\ c \in enabled' <=> c \in enabled
      BY <1>3, <1>4, <1>5, <1>6, <1>10, <2>3
    <3> QED
      BY <1>2, <2>1, <3>1 DEF Located
  <2> QED
    BY <2>2, <2>3
<1>14. Counted'
  <2>1. Pending' \subseteq Pending
    BY <1>2, <1>3, <1>6, <1>9, <1>10 DEF Pending
  <2> QED
    BY <1>1, <1>2, <2>1, StillCounted
<1>15. acknowledged' \subseteq enabled' /\ enabled' \subseteq Caps
  BY <1>2, <1>5, <1>6, <1>12
<1> QED
  BY <1>11, <1>13, <1>14, <1>15 DEF Negotiation

\* No step disturbs the negotiation.
LEMMA NegotiationStep ==
    ASSUME Negotiation, [Next]_vars
    PROVE  Negotiation'
<1>1. CASE RequestList
  BY <1>1, ListRequested
<1>2. CASE CapResult
  BY <1>2, ResultCounted
<1>3. CASE Main /\ ~RequestList /\ ~CapResult
  BY <1>3, ConnectQuiet DEF Main
<1>4. CASE Reader
  <2>1. ASSUME NEW b \in BOOLEAN, handleCAP(b) PROVE Negotiation'
    BY <2>1, AnswerHandled
  <2>2. ASSUME NEW b \in BOOLEAN, handleCAPLS(b) PROVE Negotiation'
    <3>1. CASE b = FALSE
      BY <2>2, <3>1, ReaderQuiet
    <3>2. CASE b = TRUE
      BY <2>2, <3>2, ReaderQuiet, ListHandled
    <3> QED
      BY <3>1, <3>2
  <2>3. CASE handleAUTHENTICATE \/ SASLSuccess \/ SASLFailure \/ handleRegistration \/ ReadEOF
    BY <2>3, ReaderQuiet
  <2> QED
    BY <1>4, <2>1, <2>2, <2>3 DEF Reader
<1>5. CASE Lose
  BY <1>5, ReaderQuiet
<1>6. CASE Server
  <2>1. CASE ServerRequest
    BY <2>1, Answered
  <2>2. CASE ServerList
    BY <2>2, Listed
  <2>3. CASE \/ ServerPartialList \/ ServerSilent \/ ServerMechanism
             \/ ServerChunk \/ ServerCapEnd \/ ServerUser \/ ServerWelcome \/ ServerQuit
    BY <2>3, OtherServerQuiet
  <2> QED
    BY <1>6, <2>1, <2>2, <2>3 DEF Server
<1>7. CASE UNCHANGED vars
  <2>1. /\ UNCHANGED <<capsChan, enabled, acknowledged, remaining, main>>
        /\ toServer' = toServer /\ toClient' = toClient
    BY <1>7 DEF vars, mainVars, chanVars, serverVars
  <2>2. ServerQuiet /\ ClientQuiet
    BY <2>1, SameQuiet DEF Negotiation
  <2> QED
    BY <2>1, <2>2, Quiet
<1> QED
  BY <1>1, <1>2, <1>3, <1>4, <1>5, <1>6, <1>7 DEF Next, Returned

-----------------------------------------------------------------------------
(* What Connect concludes from it                                          *)

\* Connect goes on only with everything counted.
LEMMA SettledStep ==
    ASSUME Settled, [Next]_vars
    PROVE  Settled'
<1>1. CASE Main
  <2>1. CASE RequestList \/ CapResult \/ CleanUp
    BY <2>1 DEF Settled, Negotiated, RequestList, CapResult, CleanUp
  <2>2. CASE CapTimeout
    BY <2>2 DEF Settled, Negotiated, CapTimeout, EndNegotiation
  <2>3. CASE CapsSettled
    BY <2>3 DEF Settled, Negotiated, CapsSettled, EndNegotiation
  <2>4. CASE SASLResult \/ SASLTimeout
    BY <2>4 DEF Settled, Negotiated, SASLResult, SASLTimeout, EndNegotiation
  <2>5. CASE NegotiationDisconnected
    BY <2>5 DEF Settled, Negotiated, NegotiationDisconnected, EndNegotiation
  <2>6. CASE processAckedCaps \/ Identify \/ Welcomed \/ Disconnected \/ ServerTimedOut
    BY <2>6 DEF Settled, Negotiated, processAckedCaps, Identify, Welcomed, Disconnected, ServerTimedOut
  <2> QED
    BY <1>1, <2>1, <2>2, <2>3, <2>4, <2>5, <2>6 DEF Main
<1>2. CASE Reader \/ Lose \/ Server \/ UNCHANGED vars
  <2>1. UNCHANGED <<main, err, remaining, capsAcked, acknowledged, timedOut>>
    BY <1>2 DEF Reader, Lose, Server, handleCAPLS, handleCAP, handleAUTHENTICATE, SASLSuccess,
                SASLFailure, handleRegistration, ReadEOF, ServerSilent, ServerPartialList,
                ServerList, ServerRequest, ServerMechanism, ServerChunk, ServerCapEnd,
                ServerUser, ServerWelcome, ServerQuit, vars, mainVars
  <2> QED
    BY <2>1 DEF Settled, Negotiated
<1> QED
  BY <1>1, <1>2 DEF Next, Returned

\* What is not taken from a queue stays in it.
ServerKept == \A j \in DOMAIN toServer : Asks(toServer[j]) =>
                 \E i \in DOMAIN toServer' : toServer'[i] = toServer[j]
ClientKept == \A j \in DOMAIN toClient : Tells(toClient[j]) =>
                 \E i \in DOMAIN toClient' : toClient'[i] = toClient[j]

\* The server claims a success only once it has accepted the credentials.
NoClaim == \A i \in DOMAIN toClient' : toClient'[i][1] = "903" =>
              \E j \in DOMAIN toClient : toClient[j] = toClient'[i]

\* Nothing is sent or received.
LEMMA SameKept ==
    /\ toServer' = toServer => ServerKept
    /\ toClient' = toClient => ClientKept /\ NoClaim
  BY DEF ServerKept, ClientKept, NoClaim

\* The client sends messages.
LEMMA WriteKept ==
    ASSUME Queues, NEW t, t \in Seq(Range(t)), Write(t)
    PROVE  /\ ServerKept
           /\ ~closed => \A j \in DOMAIN t : \E i \in DOMAIN toServer' : toServer'[i] = t[j]
<1>1. CASE closed
  BY <1>1, SameKept DEF Write
<1>2. CASE ~closed
  <2>1. PICK s, u : s = toServer /\ u = s \o t
    OBVIOUS
  <2>2. toServer' = u /\ s \in Seq(Range(s))
    BY <1>2, <2>1 DEF Write, Queues
  <2>3. PICK n \in Nat : DOMAIN t = 1 .. n
    OBVIOUS
  <2>4. PICK l \in Nat : l = Len(s)
    BY <2>2
  <2>5. /\ DOMAIN s = 1 .. l /\ DOMAIN u = 1 .. l + n
        /\ \A i \in DOMAIN s : u[i] = s[i]
        /\ \A i \in 1 .. n : u[l + i] = t[i]
    BY <2>1, <2>2, <2>3, <2>4, ConcatFacts
  <2>6. /\ \A j \in DOMAIN s : j \in DOMAIN u /\ u[j] = s[j]
        /\ \A j \in DOMAIN t : l + j \in DOMAIN u /\ u[l + j] = t[j]
    <3>1. (\A j \in 1 .. l : j \in 1 .. l + n) /\ \A j \in 1 .. n : l + j \in 1 .. l + n
      BY <2>3, <2>4
    <3> QED
      BY <2>3, <2>5, <3>1
  <2> QED
    BY <2>1, <2>2, <2>6 DEF ServerKept
<1> QED
  BY <1>1, <1>2

\* The server takes a message, the client takes one.
LEMMA TakeKept ==
    ASSUME Queues, NEW k
    PROVE  /\ Handle(k) /\ ~Asks(Head(toServer)) => ServerKept
           /\ Receive(k) => NoClaim
           /\ Receive(k) /\ ~Tells(Head(toClient)) => ClientKept
<1>1. ASSUME Handle(k), ~Asks(Head(toServer)) PROVE ServerKept
  <2>1. PICK s, t : s = toServer /\ t = Tail(s)
    OBVIOUS
  <2>2. s \in Seq(Range(s)) /\ Apart(s) /\ s # <<>> /\ toServer' = t
    BY <1>1, <2>1 DEF Queues, Handle
  <2>3. Head(s) = s[1] /\ \A j \in DOMAIN s : j = 1 \/ \E i \in DOMAIN t : t[i] = s[j]
    BY <2>1, <2>2, TailCarries
  <2> QED
    BY <1>1, <2>1, <2>2, <2>3 DEF ServerKept
<1>2. ASSUME Receive(k) PROVE NoClaim /\ (~Tells(Head(toClient)) => ClientKept)
  <2>1. PICK s, t : s = toClient /\ t = Tail(s)
    OBVIOUS
  <2>2. s \in Seq(Range(s)) /\ Apart(s) /\ s # <<>> /\ toClient' = t
    BY <1>2, <2>1 DEF Queues, Receive
  <2>3. Head(s) = s[1] /\ \A j \in DOMAIN s : j = 1 \/ \E i \in DOMAIN t : t[i] = s[j]
    BY <2>1, <2>2, TailCarries
  <2>4. \A i \in DOMAIN t : \E j \in DOMAIN s : t[i] = s[j]
    BY <2>1, <2>2, TailCarries
  <2>5. NoClaim
    BY <2>1, <2>2, <2>4 DEF NoClaim
  <2>6. ~Tells(Head(toClient)) => ClientKept
    BY <2>1, <2>2, <2>3 DEF ClientKept
  <2> QED
    BY <2>5, <2>6
<1> QED
  BY <1>1, <1>2

\* The server answers.
LEMMA ReplyKept ==
    ASSUME Queues, NEW k, NEW caps, Reply(k, caps)
    PROVE  /\ ClientKept /\ (k # "903" => NoClaim)
           /\ \E i \in DOMAIN toClient' : toClient'[i][1] = k
<1>1. PICK s, m, t : s = toClient /\ m = Msg(k, caps) /\ t = Append(s, m)
  OBVIOUS
<1>2. toClient' = t /\ s \in Seq(Range(s))
  BY <1>1 DEF Queues, Reply
<1>3. m[1] = k
  BY <1>1 DEF Msg
<1>4. PICK l \in Nat : l = Len(s)
  BY <1>2
<1>5. /\ DOMAIN s = 1 .. l /\ DOMAIN t = 1 .. l + 1
      /\ (\A i \in DOMAIN s : t[i] = s[i]) /\ t[l + 1] = m
  BY <1>1, <1>2, <1>4, AppendFacts
<1>6. /\ \A i \in DOMAIN t : (i = l + 1 /\ t[i] = m) \/ (i \in DOMAIN s /\ t[i] = s[i])
      /\ l + 1 \in DOMAIN t /\ \A i \in DOMAIN s : i \in DOMAIN t /\ t[i] = s[i]
  BY <1>4, <1>5
<1>7. ClientKept
  BY <1>1, <1>2, <1>6 DEF ClientKept
<1>8. k # "903" => NoClaim
  BY <1>1, <1>2, <1>3, <1>6 DEF NoClaim
<1> QED
  BY <1>2, <1>3, <1>5, <1>6, <1>7, <1>8

\* The outcome goes into saslChan, or one is already there.
LEMMA OfferOutcome ==
    ASSUME saslChan \in Seq({"ok", "failed"}), NEW x \in {"ok", "failed"},
           saslChan' = Offer(saslChan, 1, <<x>>)
    PROVE  /\ saslChan' \in Seq({"ok", "failed"}) /\ saslChan' # <<>>
           /\ \A i \in DOMAIN saslChan' : saslChan'[i] = x \/ \E j \in DOMAIN saslChan : saslChan[j] = saslChan'[i]
<1>1. PICK s, t, all, S : /\ s = saslChan /\ t = <<x>> /\ all = s \o t /\ S = {"ok", "failed"}
  OBVIOUS
<1>2. s \in Seq(S) /\ x \in S
  BY <1>1
<1>3. t \in Seq(S) /\ Len(t) = 1 /\ t[1] = x
  BY <1>1, <1>2
<1>4. PICK l \in Nat : l = Len(s) /\ DOMAIN s = 1 .. l
  BY <1>2
<1>5. /\ all \in Seq(S) /\ Len(all) = l + 1
      /\ \A i \in 1 .. l + 1 : all[i] = IF i <= l THEN s[i] ELSE t[i - l]
  BY <1>1, <1>2, <1>3, <1>4
<1>6. saslChan' = SubSeq(all, 1, 1)
  <2>1. ~(Len(all) < 1)
    BY <1>4, <1>5
  <2> QED
    BY <1>1, <2>1 DEF Offer
<1>7. PICK u : u = SubSeq(all, 1, 1)
  OBVIOUS
<1>8. u \in Seq(S) /\ Len(u) = 1 /\ u[1] = all[1]
  BY <1>4, <1>5, <1>7
<1>9. all[1] = x \/ \E j \in DOMAIN s : s[j] = all[1]
  <2>1. CASE l = 0
    BY <1>3, <1>5, <2>1
  <2>2. CASE l # 0
    <3>1. 1 \in 1 .. l + 1 /\ 1 \in 1 .. l /\ 1 <= l
      BY <1>4, <2>2
    <3> QED
      BY <1>4, <1>5, <3>1
  <2> QED
    BY <2>1, <2>2
<1>10. u # <<>> /\ \A i \in DOMAIN u : u[i] = all[1]
  <2>1. DOMAIN u = 1 .. 1 /\ \A i \in 1 .. 1 : i = 1
    BY <1>8
  <2> QED
    BY <1>8, <2>1
<1> QED
  BY <1>1, <1>6, <1>7, <1>8, <1>9, <1>10

\* What is said about the credentials stays true, outcome and all.
LEMMA CredentialsKept ==
    ASSUME Credentials, UNCHANGED <<saslChan, authenticated, main, err, timedOut>>, NoClaim,
           main = "sasl" /\ ~closed' => ~closed /\ ServerKept /\ ClientKept
    PROVE  Credentials'
<1>1. \A i \in DOMAIN toClient' : toClient'[i][1] = "903" => authenticated'
  BY DEF Credentials, NoClaim
<1>2. ASSUME main = "sasl" PROVE UseSASL /\ (closed' \/ UnderWay')
  <2>1. UseSASL /\ (closed \/ UnderWay)
    BY <1>2 DEF Credentials
  <2>2. ASSUME ~closed' PROVE UnderWay'
    <3>1. UnderWay /\ ServerKept /\ ClientKept
      BY <1>2, <2>1, <2>2
    <3>2. CASE saslChan # <<>>
      BY <3>2 DEF UnderWay
    <3>3. CASE \E i \in DOMAIN toServer : Asks(toServer[i])
      BY <3>1, <3>3 DEF UnderWay, ServerKept
    <3>4. CASE \E i \in DOMAIN toClient : Tells(toClient[i])
      BY <3>1, <3>4 DEF UnderWay, ClientKept
    <3> QED
      BY <3>1, <3>2, <3>3, <3>4 DEF UnderWay
  <2> QED
    BY <2>1, <2>2
<1> QED
  BY <1>1, <1>2 DEF Credentials, Negotiated

\* Connect.
LEMMA CredentialsMain ==
    ASSUME Queues, Credentials, Main
    PROVE  Credentials'
<1>1. UNCHANGED <<saslChan, authenticated, toClient>> /\ (closed' \/ closed' = closed)
  BY DEF Main, RequestList, CapResult, CapTimeout, CapsSettled, SASLResult, SASLTimeout,
         NegotiationDisconnected, processAckedCaps, Identify, Welcomed, Disconnected, ServerTimedOut, CleanUp,
         EndNegotiation, chanVars, serverVars
<1>2. ASSUME Negotiated', UseSASL, ~SASLOptional, ~timedOut'
      PROVE  authenticated
  <2>1. CASE RequestList \/ CapResult \/ CleanUp
    BY <1>2, <2>1 DEF RequestList, CapResult, CleanUp, Negotiated
  <2>2. CASE CapTimeout
    BY <1>2, <2>2 DEF CapTimeout
  <2>3. CASE CapsSettled
    BY <1>2, <2>3 DEF Negotiated, CapsSettled, EndNegotiation, saslError
  <2>4. CASE SASLResult
    <3>1. Head(saslChan) # "failed"
      BY <1>2, <2>4 DEF Negotiated, SASLResult, EndNegotiation, saslError
    <3>2. saslChan # <<>> /\ saslChan \in Seq({"ok", "failed"})
      BY <2>4 DEF SASLResult, Credentials
    <3>3. PICK q : q = saslChan
      OBVIOUS
    <3>4. Head(q) \in {"ok", "failed"} /\ 1 \in DOMAIN q /\ Head(q) = q[1]
      BY <3>2, <3>3
    <3> QED
      BY <1>2, <3>1, <3>3, <3>4 DEF Credentials
  <2>5. CASE SASLTimeout
    BY <1>2, <2>5 DEF Negotiated, SASLTimeout, EndNegotiation, saslError
  <2>6. CASE NegotiationDisconnected
    BY <1>2, <2>6 DEF Negotiated, NegotiationDisconnected, EndNegotiation
  <2>7. CASE processAckedCaps \/ Identify \/ Welcomed \/ Disconnected \/ ServerTimedOut
    BY <1>2, <2>7 DEF processAckedCaps, Identify, Welcomed, Disconnected, ServerTimedOut,
                     Credentials, Negotiated
  <2> QED
    BY <2>1, <2>2, <2>3, <2>4, <2>5, <2>6, <2>7 DEF Main
<1>3. ASSUME main' = "sasl" PROVE UseSASL /\ (closed' \/ UnderWay')
  <2>1. CapsSettled
    BY <1>3 DEF Main, RequestList, CapResult, CapTimeout, SASLResult, SASLTimeout,
           NegotiationDisconnected, processAckedCaps, Identify, Welcomed, Disconnected, ServerTimedOut, CleanUp,
           EndNegotiation
  <2>2. UseSASL /\ Write(<<Plain("AUTHENTICATE mech")>>) /\ closed' = closed
    BY <1>3, <2>1 DEF CapsSettled, EndNegotiation
  <2>3. PICK m, t : m = Plain("AUTHENTICATE mech") /\ t = <<m>>
    OBVIOUS
  <2>4. m[1] = "AUTHENTICATE mech"
    BY <2>3 DEF Plain, Msg
  <2>5. t \in Seq(Range(t)) /\ DOMAIN t = 1 .. 1 /\ t[1] = m
    BY <2>3, SingleFacts
  <2>6. 1 \in DOMAIN t
    BY <2>5
  <2>7. ~closed => \A j \in DOMAIN t : \E i \in DOMAIN toServer' : toServer'[i] = t[j]
    BY <2>2, <2>3, <2>5, WriteKept
  <2>8. ~closed => \E i \in DOMAIN toServer' : Asks(toServer'[i])
    BY <2>4, <2>5, <2>6, <2>7 DEF Asks
  <2> QED
    BY <2>2, <2>8 DEF UnderWay
<1> QED
  BY <1>1, <1>2, <1>3 DEF Credentials, Negotiated

\* The exchange goes on: the client has the outcome, or there is a message about it.
LEMMA CredentialsGoOn ==
    ASSUME Credentials, UNCHANGED <<main, err, timedOut>>, authenticated => authenticated',
           saslChan' \in Seq({"ok", "failed"}),
           \A i \in DOMAIN saslChan' : saslChan'[i] = "ok" => authenticated',
           NoClaim \/ authenticated', closed' \/ UnderWay'
    PROVE  Credentials'
<1>1. \A i \in DOMAIN toClient' : toClient'[i][1] = "903" => authenticated'
  BY DEF Credentials, NoClaim
<1> QED
  BY <1>1 DEF Credentials, Negotiated

\* readLoop.
LEMMA CredentialsReader ==
    ASSUME Queues, Credentials, Reader \/ Lose
    PROVE  Credentials'
<1>1. UNCHANGED <<authenticated, main, err, timedOut>>
  BY DEF Reader, Lose, handleCAPLS, handleCAP, handleAUTHENTICATE, SASLSuccess, SASLFailure,
         handleRegistration, ReadEOF, mainVars, serverVars
<1>2. ASSUME NEW b \in BOOLEAN, handleCAPLS(b) PROVE Credentials'
  <2>1. UNCHANGED <<saslChan, closed>>
    BY <1>2 DEF handleCAPLS
  <2>2. PICK k : k \in {"LS", "LS *"} /\ Receive(k) /\ Head(toClient)[1] = k
    BY <1>2 DEF handleCAPLS, Receive
  <2>3. ~Tells(Head(toClient))
    BY <2>2 DEF Tells
  <2>4. NoClaim /\ ClientKept
    BY <2>2, <2>3, TakeKept
  <2>5. ServerKept
    <3>1. toServer' = toServer \/ \E adv : Write(Requests(Select(RequestCaps, adv)))
      BY <1>2 DEF handleCAPLS, Requests
    <3>2. CASE toServer' = toServer
      BY <3>2, SameKept
    <3>3. ASSUME NEW adv, Write(Requests(Select(RequestCaps, adv))) PROVE ServerKept
      <4>1. PICK req, t : req = Select(RequestCaps, adv) /\ t = Requests(req)
        OBVIOUS
      <4>2. req \in Seq(Caps \cap adv) /\ IsInjective(req)
        BY <4>1, SelectedCaps
      <4>3. t \in Seq(Range(t))
        BY <4>1, <4>2, RequestsFacts
      <4> QED
        BY <3>3, <4>1, <4>3, WriteKept
    <3> QED
      BY <3>1, <3>2, <3>3
  <2> QED
    BY <1>1, <2>1, <2>4, <2>5, CredentialsKept
<1>3. ASSUME NEW b \in BOOLEAN, handleCAP(b) PROVE Credentials'
  <2>1. UNCHANGED <<saslChan, closed, toServer>>
    BY <1>3 DEF handleCAP
  <2>2. PICK k : k \in {"ACK", "NAK"} /\ Receive(k) /\ Head(toClient)[1] = k
    BY <1>3 DEF handleCAP, Receive
  <2>3. ~Tells(Head(toClient))
    BY <2>2 DEF Tells
  <2>4. NoClaim /\ ClientKept /\ ServerKept
    BY <2>1, <2>2, <2>3, TakeKept, SameKept
  <2> QED
    BY <1>1, <2>1, <2>4, CredentialsKept
<1>4. CASE handleAUTHENTICATE
  <2>1. UNCHANGED <<saslChan, closed>> /\ Receive("AUTHENTICATE +")
    BY <1>4 DEF handleAUTHENTICATE, chanVars
  <2>2. PICK n \in ResponseLengths : Write(Chunks(EncodeSASLResponse([i \in 1 .. n |-> i])))
    BY <1>4 DEF handleAUTHENTICATE, Chunks
  <2>3. PICK raw : raw = [i \in 1 .. n |-> i]
    OBVIOUS
  <2>4. n \in Nat
    BY SASLAssumption
  <2>5. PICK chunks : chunks = EncodeSASLResponse(raw)
    OBVIOUS
  <2>6. PICK l \in Nat \ {0} : DOMAIN chunks = 1 .. l /\ Ends(chunks[l])
    BY <2>3, <2>4, <2>5, EncodeFacts
  <2>7. PICK t : t = Chunks(chunks)
    OBVIOUS
  <2>8. /\ t \in Seq(Range(t)) /\ DOMAIN t = 1 .. l
        /\ \A i \in 1 .. l : t[i][1] = "AUTHENTICATE" /\ t[i][2] = chunks[i]
    BY <2>6, <2>7, ChunksFacts
  <2>9. Write(t)
    BY <2>2, <2>3, <2>5, <2>7
  <2>10. ~closed => \A j \in DOMAIN t : \E i \in DOMAIN toServer' : toServer'[i] = t[j]
    BY <2>8, <2>9, WriteKept
  <2>11. l \in DOMAIN t /\ Asks(t[l])
    <3>1. l \in 1 .. l
      OBVIOUS
    <3>2. PICK x, y : x = t[l] /\ y = chunks[l]
      OBVIOUS
    <3>3. x[1] = "AUTHENTICATE" /\ x[2] = y /\ Ends(y)
      BY <2>6, <2>8, <3>1, <3>2
    <3> QED
      BY <2>8, <3>1, <3>2, <3>3 DEF Asks
  <2>12. ~closed => UnderWay'
    BY <2>10, <2>11 DEF UnderWay
  <2>13. NoClaim
    BY <2>1, TakeKept
  <2>14. saslChan \in Seq({"ok", "failed"}) /\ \A i \in DOMAIN saslChan : saslChan[i] = "ok" => authenticated
    BY DEF Credentials
  <2> QED
    BY <1>1, <2>1, <2>12, <2>13, <2>14, CredentialsGoOn
<1>5. CASE SASLSuccess
  <2>1. Receive("903") /\ saslChan' = Offer(saslChan, 1, <<"ok">>)
    BY <1>5 DEF SASLSuccess
  <2>2. authenticated
    <3>1. PICK s : s = toClient
      OBVIOUS
    <3>2. s \in Seq(Range(s)) /\ s # <<>> /\ Head(s)[1] = "903"
      BY <2>1, <3>1 DEF Queues, Receive
    <3>3. 1 \in DOMAIN s /\ Head(s) = s[1]
      BY <3>2, TailFacts
    <3> QED
      BY <3>1, <3>2, <3>3 DEF Credentials
  <2>3. saslChan \in Seq({"ok", "failed"})
    BY DEF Credentials
  <2>4. saslChan' \in Seq({"ok", "failed"}) /\ saslChan' # <<>>
    BY <2>1, <2>3, OfferOutcome
  <2>5. NoClaim
    BY <2>1, TakeKept
  <2>6. UnderWay'
    BY <2>4 DEF UnderWay
  <2> QED
    BY <1>1, <2>2, <2>4, <2>5, <2>6, CredentialsGoOn
<1>6. CASE SASLFailure
  <2>1. Receive("904") /\ saslChan' = Offer(saslChan, 1, <<"failed">>)
    BY <1>6 DEF SASLFailure
  <2>2. saslChan \in Seq({"ok", "failed"}) /\ \A i \in DOMAIN saslChan : saslChan[i] = "ok" => authenticated
    BY DEF Credentials
  <2>3. PICK x : x = "failed" /\ x \in {"ok", "failed"}
    OBVIOUS
  <2>4. /\ saslChan' \in Seq({"ok", "failed"}) /\ saslChan' # <<>>
        /\ \A i \in DOMAIN saslChan' : saslChan'[i] = x \/ \E j \in DOMAIN saslChan : saslChan[j] = saslChan'[i]
    BY <2>1, <2>2, <2>3, OfferOutcome
  <2>5. \A i \in DOMAIN saslChan' : saslChan'[i] = "ok" => authenticated'
    BY <1>1, <2>2, <2>3, <2>4
  <2>6. NoClaim
    BY <2>1, TakeKept
  <2>7. UnderWay'
    BY <2>4 DEF UnderWay
  <2> QED
    BY <1>1, <2>4, <2>5, <2>6, <2>7, CredentialsGoOn
<1>7. CASE handleRegistration
  <2>1. UNCHANGED <<saslChan, closed, toServer>> /\ Receive("376") /\ Head(toClient)[1] = "376"
    BY <1>7 DEF handleRegistration, Receive
  <2>2. ~Tells(Head(toClient))
    BY <2>1 DEF Tells
  <2>3. NoClaim /\ ClientKept /\ ServerKept
    BY <2>1, <2>2, TakeKept, SameKept
  <2> QED
    BY <1>1, <2>1, <2>3, CredentialsKept
<1>8. CASE ReadEOF
  <2>1. UNCHANGED saslChan /\ closed' /\ Receive("EOF")
    BY <1>8 DEF ReadEOF, chanVars
  <2>2. NoClaim
    BY <2>1, TakeKept
  <2> QED
    BY <1>1, <2>1, <2>2, CredentialsKept
<1>9. CASE Lose
  <2>1. UNCHANGED <<saslChan, toClient>> /\ closed'
    BY <1>9 DEF Lose, chanVars
  <2>2. NoClaim
    BY <2>1, SameKept
  <2> QED
    BY <1>1, <2>1, <2>2, CredentialsKept
<1> QED
  BY <1>2, <1>3, <1>4, <1>5, <1>6, <1>7, <1>8, <1>9 DEF Reader

\* The server.
LEMMA CredentialsServer ==
    ASSUME Queues, Credentials, Server
    PROVE  Credentials'
<1>1. UNCHANGED <<saslChan, main, err, timedOut, closed>>
  BY DEF Server, ServerSilent, ServerPartialList, ServerList, ServerRequest, ServerMechanism, ServerChunk,
         ServerCapEnd, ServerUser, ServerWelcome, ServerQuit, mainVars, chanVars
<1>2. ASSUME NEW k \in {"CAP LS", "CAP REQ", "CAP END", "USER", "QUIT"}, Handle(k)
      PROVE  ServerKept
  <2>1. Head(toServer)[1] = k
    BY <1>2 DEF Handle
  <2>2. ~Asks(Head(toServer))
    BY <2>1 DEF Asks
  <2> QED
    BY <1>2, <2>2, TakeKept
<1>3. ASSUME NEW k \in {"LS *", "LS", "ACK", "NAK", "376", "EOF"}, NEW caps, Reply(k, caps)
      PROVE  NoClaim /\ ClientKept
  <2>1. k # "903"
    OBVIOUS
  <2> QED
    BY <1>3, <2>1, ReplyKept
<1>4. ASSUME NEW k \in {"AUTHENTICATE +", "904"}, NEW caps, Reply(k, caps)
      PROVE  NoClaim /\ UnderWay'
  <2>1. NoClaim /\ \E i \in DOMAIN toClient' : toClient'[i][1] = k
    BY <1>4, ReplyKept
  <2> QED
    BY <2>1 DEF UnderWay, Tells
<1>5. saslChan \in Seq({"ok", "failed"}) /\ \A i \in DOMAIN saslChan : saslChan[i] = "ok" => authenticated
  BY DEF Credentials
<1>6. CASE ServerPartialList
  <2>1. UNCHANGED <<authenticated, toServer>> /\ \E caps : Reply("LS *", caps)
    BY <1>6 DEF ServerPartialList
  <2>2. NoClaim /\ ClientKept /\ ServerKept
    BY <1>3, <2>1, SameKept
  <2> QED
    BY <1>1, <2>1, <2>2, CredentialsKept
<1>7. CASE ServerSilent \/ ServerList
  <2>1. UNCHANGED authenticated /\ Handle("CAP LS") /\ (toClient' = toClient \/ Reply("LS", unlisted))
    BY <1>7 DEF ServerSilent, ServerList, serverVars
  <2>2. NoClaim /\ ClientKept /\ ServerKept
    BY <1>2, <1>3, <2>1, SameKept
  <2> QED
    BY <1>1, <2>1, <2>2, CredentialsKept
<1>8. CASE ServerRequest
  <2>1. /\ UNCHANGED authenticated /\ Handle("CAP REQ")
        /\ \E caps : Reply("ACK", caps) \/ Reply("NAK", caps)
    BY <1>8 DEF ServerRequest
  <2>2. NoClaim /\ ClientKept /\ ServerKept
    BY <1>2, <1>3, <2>1
  <2> QED
    BY <1>1, <2>1, <2>2, CredentialsKept
<1>9. CASE ServerMechanism
  <2>1. UNCHANGED authenticated /\ (Reply("AUTHENTICATE +", {}) \/ Reply("904", {}))
    BY <1>9 DEF ServerMechanism
  <2>2. NoClaim /\ UnderWay'
    BY <1>4, <2>1
  <2> QED
    BY <1>1, <1>5, <2>1, <2>2, CredentialsGoOn
<1>10. CASE ServerChunk
  <2>1. PICK value, added : value = Head(toServer)[2] /\ added = Add(sasl.buf, sasl.limit, value)
    OBVIOUS
  <2>2. /\ Handle("AUTHENTICATE")
        /\ \/ UNCHANGED authenticated /\ Reply("904", {})
           \/ UNCHANGED <<authenticated, toClient>> /\ ~added.done
           \/ authenticated' = TRUE /\ Reply("903", {})
    BY <1>10, <2>1 DEF ServerChunk
  <2>3. CASE UNCHANGED authenticated /\ Reply("904", {})
    BY <1>1, <1>4, <1>5, <2>3, CredentialsGoOn
  <2>4. CASE UNCHANGED <<authenticated, toClient>> /\ ~added.done
    <3>1. ~Ends(value)
      BY <2>1, <2>4, AddFacts
    <3>2. Head(toServer)[1] = "AUTHENTICATE"
      BY <2>2 DEF Handle
    <3>3. ~Asks(Head(toServer))
      BY <2>1, <3>1, <3>2 DEF Asks
    <3>4. ServerKept /\ ClientKept /\ NoClaim
      BY <2>2, <2>4, <3>3, TakeKept, SameKept
    <3> QED
      BY <1>1, <2>4, <3>4, CredentialsKept
  <2>5. CASE authenticated' = TRUE /\ Reply("903", {})
    <3>1. PICK k, caps : k = "903" /\ caps = {} /\ Reply(k, caps)
      BY <2>5
    <3>2. \E i \in DOMAIN toClient' : toClient'[i][1] = k
      BY <3>1, ReplyKept
    <3>3. UnderWay'
      BY <3>1, <3>2 DEF UnderWay, Tells
    <3> QED
      BY <1>1, <1>5, <2>5, <3>3, CredentialsGoOn
  <2> QED
    BY <2>2, <2>3, <2>4, <2>5
<1>11. CASE ServerCapEnd \/ ServerUser
  <2>1. UNCHANGED <<authenticated, toClient>> /\ (Handle("CAP END") \/ Handle("USER"))
    BY <1>11 DEF ServerCapEnd, ServerUser
  <2>2. NoClaim /\ ClientKept /\ ServerKept
    BY <1>2, <2>1, SameKept
  <2> QED
    BY <1>1, <2>1, <2>2, CredentialsKept
<1>12. CASE ServerWelcome
  <2>1. UNCHANGED <<authenticated, toServer>> /\ Reply("376", {})
    BY <1>12 DEF ServerWelcome
  <2>2. NoClaim /\ ClientKept /\ ServerKept
    BY <1>3, <2>1, SameKept
  <2> QED
    BY <1>1, <2>1, <2>2, CredentialsKept
<1>13. CASE ServerQuit
  <2>1. UNCHANGED authenticated /\ Handle("QUIT") /\ Reply("EOF", {})
    BY <1>13 DEF ServerQuit
  <2>2. NoClaim /\ ClientKept /\ ServerKept
    BY <1>2, <1>3, <2>1
  <2> QED
    BY <1>1, <2>1, <2>2, CredentialsKept
<1> QED
  BY <1>6, <1>7, <1>8, <1>9, <1>10, <1>11, <1>12, <1>13 DEF Server

-----------------------------------------------------------------------------
(* The messages of the SASL exchange come and go                           *)

\* A message is taken.
LEMMA TailCalls ==
    ASSUME NEW s, s \in Seq(Range(s)), s # <<>>, NEW kind
    PROVE  /\ Calls(Tail(s), kind) => Calls(s, kind)
           /\ Head(s)[1] = kind => Calls(s, kind)
           /\ Once(s, kind) => Once(Tail(s), kind)
           /\ Once(s, kind) /\ Head(s)[1] = kind => ~Calls(Tail(s), kind)
<1>1. PICK l \in Nat \ {0} : l = Len(s)
  BY TailFacts
<1>2. PICK t : t = Tail(s)
  OBVIOUS
<1>3. /\ DOMAIN s = 1 .. l /\ Head(s) = s[1] /\ DOMAIN t = 1 .. l - 1
      /\ \A i \in 1 .. l - 1 : t[i] = s[i + 1]
  BY <1>1, <1>2, TailFacts
<1>4. \A i \in DOMAIN t : i \in Nat /\ i + 1 \in DOMAIN s /\ t[i] = s[i + 1] /\ i + 1 # 1
  BY <1>1, <1>3
<1>5. ASSUME Once(s, kind) PROVE Once(t, kind)
  <2> SUFFICES ASSUME NEW i \in DOMAIN t, NEW j \in DOMAIN t, t[i][1] = kind, t[j][1] = kind
               PROVE  i = j
    BY DEF Once
  <2>1. i + 1 = j + 1
    BY <1>4, <1>5 DEF Once
  <2> QED
    BY <1>4, <2>1
<1>6. Calls(t, kind) => Calls(s, kind)
  BY <1>4 DEF Calls
<1>7. 1 \in DOMAIN s
  BY <1>1, <1>3
<1>8. Head(s)[1] = kind => Calls(s, kind)
  BY <1>3, <1>7 DEF Calls
<1>9. Once(s, kind) /\ Head(s)[1] = kind => ~Calls(t, kind)
  BY <1>3, <1>4, <1>7 DEF Calls, Once
<1> QED
  BY <1>2, <1>5, <1>6, <1>8, <1>9

\* Messages are sent: of other kinds, or the first of this kind.
LEMMA ConcatCalls ==
    ASSUME NEW s, s \in Seq(Range(s)), NEW t, t \in Seq(Range(t)), NEW kind
    PROVE  /\ ~Calls(t, kind) => (Calls(s \o t, kind) => Calls(s, kind))
           /\ Once(s, kind) /\ ~Calls(t, kind) => Once(s \o t, kind)
           /\ Once(t, kind) /\ ~Calls(s, kind) => Once(s \o t, kind)
<1>1. PICK n \in Nat : n = Len(t) /\ DOMAIN t = 1 .. n
  OBVIOUS
<1>0. PICK u : u = s \o t
  OBVIOUS
<1>2. PICK l \in Nat : l = Len(s) /\ u = s \o t
  BY <1>0
<1>3. /\ DOMAIN s = 1 .. l /\ DOMAIN u = 1 .. l + n
      /\ \A i \in DOMAIN s : u[i] = s[i]
      /\ \A i \in 1 .. n : u[l + i] = t[i]
  BY <1>1, <1>2, ConcatFacts
<1>4. \A i \in DOMAIN u : \/ i \in DOMAIN s /\ u[i] = s[i]
                          \/ i \in Nat /\ i - l \in DOMAIN t /\ u[i] = t[i - l]
  <2> TAKE i \in DOMAIN u
  <2>1. CASE i <= l
    BY <1>2, <1>3, <2>1
  <2>2. CASE i > l
    <3>0. i \in 1 .. l + n /\ l \in Nat /\ n \in Nat
      BY <1>1, <1>2, <1>3
    <3>1. i - l \in 1 .. n /\ l + (i - l) = i /\ i \in Nat
      BY <2>2, <3>0
    <3> QED
      BY <1>1, <1>3, <3>1
  <2> QED
    BY <1>2, <1>3, <2>1, <2>2
<1>5. ASSUME ~Calls(t, kind)
      PROVE  (Calls(u, kind) => Calls(s, kind)) /\ (Once(s, kind) => Once(u, kind))
  <2>1. \A i \in DOMAIN u : u[i][1] = kind => i \in DOMAIN s /\ u[i] = s[i]
    BY <1>4, <1>5 DEF Calls
  <2> QED
    BY <2>1 DEF Calls, Once
<1>6. ASSUME Once(t, kind), ~Calls(s, kind) PROVE Once(u, kind)
  <2>1. \A i \in DOMAIN u : u[i][1] = kind => i \in Nat /\ i - l \in DOMAIN t /\ u[i] = t[i - l]
    BY <1>4, <1>6 DEF Calls
  <2> SUFFICES ASSUME NEW i \in DOMAIN u, NEW j \in DOMAIN u, u[i][1] = kind, u[j][1] = kind
               PROVE  i = j
    BY DEF Once
  <2>2. i - l = j - l
    BY <1>6, <2>1 DEF Once
  <2> QED
    BY <1>2, <2>1, <2>2
<1> QED
  BY <1>2, <1>5, <1>6

\* A message in front of the chunks is taken.
LEMMA TailTransit ==
    ASSUME NEW s, s \in Seq(Range(s)), s # <<>>, Head(s)[1] # "AUTHENTICATE",
           NEW n \in Nat, NEW a \in Nat, NEW r \in Nat, InTransit(s, n, a, r)
    PROVE  \E b \in Nat : InTransit(Tail(s), n, b, r)
<1>1. PICK l \in Nat \ {0} : l = Len(s)
  BY TailFacts
<1>2. PICK t : t = Tail(s)
  OBVIOUS
<1>3. /\ DOMAIN s = 1 .. l /\ Head(s) = s[1] /\ DOMAIN t = 1 .. l - 1
      /\ \A i \in 1 .. l - 1 : t[i] = s[i + 1]
  BY <1>1, <1>2, TailFacts
<1>4. 1 \in DOMAIN s /\ 1 \notin a + 1 .. a + r
  <2>1. 1 \in DOMAIN s
    BY <1>1, <1>3
  <2> QED
    BY <1>3, <2>1 DEF InTransit
<1>5. PICK b \in Nat : (r # 0 => a = b + 1) /\ (r = 0 => b = 0)
  <2>1. CASE r = 0
    BY <2>1
  <2>2. CASE r # 0
    <3>1. a - 1 \in Nat /\ a = (a - 1) + 1
      BY <1>4, <2>2
    <3> QED
      BY <2>2, <3>1
  <2> QED
    BY <2>1, <2>2
<1>6. r <= ChunkCount(n)
  BY DEF InTransit
<1>7. ASSUME NEW i \in DOMAIN t PROVE t[i][1] = "AUTHENTICATE" <=> i \in b + 1 .. b + r
  <2>1. i \in Nat /\ i + 1 \in DOMAIN s /\ t[i] = s[i + 1]
    BY <1>1, <1>3
  <2>2. t[i][1] = "AUTHENTICATE" <=> i + 1 \in a + 1 .. a + r
    BY <2>1 DEF InTransit
  <2>3. i + 1 \in a + 1 .. a + r <=> i \in b + 1 .. b + r
    BY <1>5, <2>1
  <2> QED
    BY <2>2, <2>3
<1>8. ASSUME NEW k \in 1 .. r
      PROVE  /\ b + k \in DOMAIN t
             /\ t[b + k][2] = EncodeSASLResponse(Raw(n))[ChunkCount(n) - r + k]
  <2>1. PICK i : i = a + k /\ i \in DOMAIN s /\ s[i][2] = EncodeSASLResponse(Raw(n))[ChunkCount(n) - r + k]
    BY DEF InTransit
  <2>2. b + k \in DOMAIN t /\ t[b + k] = s[i]
    <3>1. i = (b + k) + 1 /\ b + k \in Nat /\ b + k # 0 /\ i \in 1 .. l
      BY <1>3, <1>5, <2>1
    <3>2. b + k \in 1 .. l - 1
      BY <1>1, <3>1
    <3> QED
      BY <1>3, <3>1, <3>2
  <2> QED
    BY <2>1, <2>2
<1>9. InTransit(t, n, b, r)
  BY <1>6, <1>7, <1>8 DEF InTransit
<1> QED
  BY <1>2, <1>9

\* The first chunk is taken: nothing was in front of it.
LEMMA ChunkTaken ==
    ASSUME NEW s, s \in Seq(Range(s)), s # <<>>, Head(s)[1] = "AUTHENTICATE",
           NEW n \in Nat, NEW a \in Nat, NEW r \in Nat, InTransit(s, n, a, r)
    PROVE  /\ r # 0 /\ r <= ChunkCount(n) /\ InTransit(Tail(s), n, 0, r - 1)
           /\ Head(s)[2] = EncodeSASLResponse(Raw(n))[ChunkCount(n) - r + 1]
<1>1. PICK l \in Nat \ {0} : l = Len(s)
  BY TailFacts
<1>2. PICK t : t = Tail(s)
  OBVIOUS
<1>3. /\ DOMAIN s = 1 .. l /\ Head(s) = s[1] /\ DOMAIN t = 1 .. l - 1
      /\ \A i \in 1 .. l - 1 : t[i] = s[i + 1]
  BY <1>1, <1>2, TailFacts
<1>4. 1 \in a + 1 .. a + r
  <2>1. 1 \in DOMAIN s
    BY <1>1, <1>3
  <2> QED
    BY <1>3, <2>1 DEF InTransit
<1>5. a = 0 /\ r # 0
  BY <1>4
<1>6. PICK c \in Nat : c = ChunkCount(n) /\ r <= c
  BY SizeFacts DEF InTransit
<1>7. PICK q \in Nat : r = q + 1 /\ q = r - 1
  BY <1>5
<1>8. ASSUME NEW k \in 1 .. r
      PROVE  k \in DOMAIN s /\ s[k][2] = EncodeSASLResponse(Raw(n))[c - r + k]
  <2>1. a + k = k
    BY <1>5
  <2> QED
    BY <1>6, <2>1 DEF InTransit
<1>9. Head(s)[2] = EncodeSASLResponse(Raw(n))[c - r + 1]
  <2>1. 1 \in 1 .. r
    BY <1>5
  <2> QED
    BY <1>3, <1>8, <2>1
<1>10. ASSUME NEW i \in DOMAIN t PROVE t[i][1] = "AUTHENTICATE" <=> i \in 0 + 1 .. 0 + q
  <2>1. i \in Nat /\ i + 1 \in DOMAIN s /\ t[i] = s[i + 1] /\ i # 0
    BY <1>1, <1>3
  <2>2. t[i][1] = "AUTHENTICATE" <=> i + 1 \in a + 1 .. a + r
    BY <2>1 DEF InTransit
  <2>3. i + 1 \in a + 1 .. a + r <=> i \in 0 + 1 .. 0 + q
    BY <1>5, <1>7, <2>1
  <2> QED
    BY <2>2, <2>3
<1>11. ASSUME NEW k \in 1 .. q
       PROVE  /\ 0 + k \in DOMAIN t
              /\ t[0 + k][2] = EncodeSASLResponse(Raw(n))[c - q + k]
  <2>1. PICK i \in Nat : i = k + 1 /\ i \in 1 .. r /\ c - r + i = c - q + k
    BY <1>6, <1>7
  <2>2. i \in DOMAIN s /\ s[i][2] = EncodeSASLResponse(Raw(n))[c - q + k]
    BY <1>8, <2>1
  <2>3. k \in 1 .. l - 1 /\ 0 + k = k
    BY <1>1, <1>3, <2>1, <2>2
  <2> QED
    BY <1>3, <2>1, <2>2, <2>3
<1>12. InTransit(t, n, 0, q)
  <2>1. q <= c
    BY <1>6, <1>7
  <2> QED
    BY <1>6, <1>10, <1>11, <2>1 DEF InTransit
<1> QED
  BY <1>2, <1>5, <1>6, <1>7, <1>9, <1>12

\* Other messages are sent behind the chunks.
LEMMA ConcatTransit ==
    ASSUME NEW s, s \in Seq(Range(s)), NEW t, t \in Seq(Range(t)), ~Calls(t, "AUTHENTICATE"),
           NEW n \in Nat, NEW a \in Nat, NEW r \in Nat, InTransit(s, n, a, r)
    PROVE  InTransit(s \o t, n, a, r)
<1>1. PICK e \in Nat : e = Len(t) /\ DOMAIN t = 1 .. e
  OBVIOUS
<1>0. PICK u : u = s \o t
  OBVIOUS
<1>2. PICK l \in Nat : l = Len(s) /\ u = s \o t
  BY <1>0
<1>3. /\ DOMAIN s = 1 .. l /\ DOMAIN u = 1 .. l + e
      /\ \A i \in DOMAIN s : u[i] = s[i]
      /\ \A i \in 1 .. e : u[l + i] = t[i]
  BY <1>1, <1>2, ConcatFacts
<1>4. ASSUME NEW i \in DOMAIN u PROVE u[i][1] = "AUTHENTICATE" <=> i \in a + 1 .. a + r
  <2>1. CASE i <= l
    <3>1. i \in DOMAIN s /\ u[i] = s[i]
      BY <1>2, <1>3, <2>1
    <3> QED
      BY <3>1 DEF InTransit
  <2>2. CASE i > l
    <3>1. i - l \in 1 .. e /\ l + (i - l) = i /\ i \in Nat
      BY <1>1, <1>2, <1>3, <2>2
    <3>2. u[i][1] # "AUTHENTICATE"
      BY <1>1, <1>3, <3>1 DEF Calls
    <3>3. i \notin a + 1 .. a + r
      <4> SUFFICES ASSUME i \in a + 1 .. a + r PROVE FALSE
        OBVIOUS
      <4>1. i - a \in 1 .. r /\ a + (i - a) = i
        BY <3>1
      <4>2. i \in DOMAIN s
        BY <4>1 DEF InTransit
      <4> QED
        BY <1>2, <1>3, <2>2, <4>2
    <3> QED
      BY <3>2, <3>3
  <2> QED
    BY <1>1, <1>2, <1>3, <2>1, <2>2
<1>5. ASSUME NEW k \in 1 .. r
      PROVE  /\ a + k \in DOMAIN u
             /\ u[a + k][2] = EncodeSASLResponse(Raw(n))[ChunkCount(n) - r + k]
  <2>1. PICK i : i = a + k /\ i \in DOMAIN s
                 /\ s[i][2] = EncodeSASLResponse(Raw(n))[ChunkCount(n) - r + k]
    BY DEF InTransit
  <2>2. i \in DOMAIN u /\ u[i] = s[i]
    BY <1>1, <1>2, <1>3, <2>1
  <2> QED
    BY <2>1, <2>2
<1>6. r <= ChunkCount(n)
  BY DEF InTransit
<1>7. InTransit(u, n, a, r)
  BY <1>4, <1>5, <1>6 DEF InTransit
<1> QED
  BY <1>2, <1>7

\* The response is sent.
LEMMA ChunksSent ==
    ASSUME NEW s, s \in Seq(Range(s)), ~Calls(s, "AUTHENTICATE"), NEW n \in Nat
    PROVE  /\ InTransit(s \o Chunks(EncodeSASLResponse(Raw(n))), n, Len(s), ChunkCount(n))
           /\ Chunks(EncodeSASLResponse(Raw(n))) \in Seq(Range(Chunks(EncodeSASLResponse(Raw(n)))))
           /\ ~Calls(Chunks(EncodeSASLResponse(Raw(n))), "AUTHENTICATE mech")
<1>1. PICK c \in Nat \ {0} : c = ChunkCount(n)
  BY SizeFacts
<1>2. PICK chunks, t : chunks = EncodeSASLResponse(Raw(n)) /\ t = Chunks(chunks)
  OBVIOUS
<1>3. DOMAIN chunks = 1 .. c
  BY <1>1, <1>2, EncodeChunks
<1>4. /\ t \in Seq(Range(t)) /\ DOMAIN t = 1 .. c
      /\ \A i \in 1 .. c : t[i][1] = "AUTHENTICATE" /\ t[i][2] = chunks[i]
  BY <1>1, <1>2, <1>3, ChunksFacts
<1>0. PICK u : u = s \o t
  OBVIOUS
<1>5. PICK l \in Nat : l = Len(s) /\ u = s \o t
  BY <1>0
<1>6. /\ DOMAIN s = 1 .. l /\ DOMAIN u = 1 .. l + c
      /\ \A i \in DOMAIN s : u[i] = s[i]
      /\ \A i \in 1 .. c : u[l + i] = t[i]
  BY <1>1, <1>4, <1>5, ConcatFacts
<1>7. ASSUME NEW i \in DOMAIN u PROVE u[i][1] = "AUTHENTICATE" <=> i \in l + 1 .. l + c
  <2>1. CASE i <= l
    <3>1. i \in DOMAIN s /\ u[i] = s[i] /\ i \notin l + 1 .. l + c
      BY <1>5, <1>6, <2>1
    <3> QED
      BY <3>1 DEF Calls
  <2>2. CASE i > l
    <3>1. i - l \in 1 .. c /\ l + (i - l) = i /\ i \in l + 1 .. l + c
      BY <1>1, <1>5, <1>6, <2>2
    <3> QED
      BY <1>4, <1>6, <3>1
  <2> QED
    BY <1>1, <1>5, <1>6, <2>1, <2>2
<1>8. ASSUME NEW k \in 1 .. c PROVE l + k \in DOMAIN u /\ u[l + k][2] = chunks[c - c + k]
  <2>1. l + k \in 1 .. l + c /\ c - c + k = k
    BY <1>1, <1>5
  <2> QED
    BY <1>4, <1>6, <2>1
<1>9. InTransit(u, n, l, c)
  <2>1. c <= c
    BY <1>1
  <2> QED
    BY <1>1, <1>2, <1>7, <1>8, <2>1 DEF InTransit
<1>10. ~Calls(t, "AUTHENTICATE mech")
  BY <1>4 DEF Calls
<1> QED
  BY <1>1, <1>2, <1>4, <1>5, <1>9, <1>10

-----------------------------------------------------------------------------
(* Steps of which the SASL exchange sees only that other messages come and  *)
(* go                                                                      *)

ServerCalm ==
    /\ Once(toServer', "AUTHENTICATE mech")
    /\ Calls(toServer', "AUTHENTICATE mech") => Calls(toServer, "AUTHENTICATE mech")
    /\ Calls(toServer', "AUTHENTICATE") => Calls(toServer, "AUTHENTICATE")
    /\ \A n, a, r \in Nat :
          InTransit(toServer, n, a, r) => \E b \in Nat : InTransit(toServer', n, b, r)

ClientCalm ==
    /\ Once(toClient', "AUTHENTICATE +")
    /\ Calls(toClient', "AUTHENTICATE +") => Calls(toClient, "AUTHENTICATE +")

\* They leave the exchange where it is.
LEMMA ExchangeKept ==
    ASSUME Exchange, UNCHANGED <<response, sasl>>, Early' => Early, ServerCalm, ClientCalm
    PROVE  Exchange'
<1>1. sasl' \in Buffers /\ Bounded' /\ response' = response /\ sasl' = sasl
  BY DEF Exchange, Bounded
<1>2. OneExchange'
  BY DEF Exchange, OneExchange, ServerCalm, ClientCalm
<1>3. ASSUME response = <<>> PROVE Unsent'
  BY <1>1, <1>3 DEF Exchange, Unsent, ServerCalm
<1>4. ASSUME response # <<>> PROVE Sent'
  <2>1. PICK n \in ResponseLengths, a \in Nat, r \in Nat :
           response = <<Raw(n)>> /\ InTransit(toServer, n, a, r) /\ Collected(n, r)
    BY <1>4 DEF Exchange, Sent
  <2>2. n \in Nat
    BY SASLAssumption
  <2>3. PICK b \in Nat : InTransit(toServer', n, b, r)
    BY <2>1, <2>2 DEF ServerCalm
  <2>4. Collected(n, r)'
    BY <1>1, <2>1 DEF Collected
  <2> QED
    BY <1>1, <2>1, <2>3, <2>4 DEF Sent
<1> QED
  BY <1>1, <1>2, <1>3, <1>4 DEF Exchange

\* Nothing is sent or taken.
LEMMA SameCalm ==
    ASSUME Exchange
    PROVE  /\ toServer' = toServer => ServerCalm
           /\ toClient' = toClient => ClientCalm
<1>1. Once(toServer, "AUTHENTICATE mech") /\ Once(toClient, "AUTHENTICATE +")
  BY DEF Exchange, OneExchange
<1>2. ASSUME toServer' = toServer PROVE ServerCalm
  BY <1>1, <1>2 DEF ServerCalm
<1>3. ASSUME toClient' = toClient PROVE ClientCalm
  BY <1>1, <1>3 DEF ClientCalm
<1> QED
  BY <1>2, <1>3

\* The client sends other messages.
LEMMA WriteCalm ==
    ASSUME Exchange, Queues, NEW t, t \in Seq(Range(t)), ~Calls(t, "AUTHENTICATE mech"),
           ~Calls(t, "AUTHENTICATE"), Write(t)
    PROVE  ServerCalm
<1>1. CASE closed
  BY <1>1, SameCalm DEF Write
<1>2. CASE ~closed
  <2>1. PICK s, u : s = toServer /\ u = s \o t
    OBVIOUS
  <2>2. toServer' = u /\ s \in Seq(Range(s)) /\ Once(s, "AUTHENTICATE mech")
    BY <1>2, <2>1 DEF Write, Queues, Exchange, OneExchange
  <2>3. /\ Calls(u, "AUTHENTICATE mech") => Calls(s, "AUTHENTICATE mech")
        /\ Once(u, "AUTHENTICATE mech")
        /\ Calls(u, "AUTHENTICATE") => Calls(s, "AUTHENTICATE")
    BY <2>1, <2>2, ConcatCalls
  <2>4. \A n, a, r \in Nat : InTransit(s, n, a, r) => InTransit(u, n, a, r)
    BY <2>1, <2>2, ConcatTransit
  <2> QED
    BY <2>1, <2>2, <2>3, <2>4 DEF ServerCalm
<1> QED
  BY <1>1, <1>2

\* What the client sends that is not about SASL.
LEMMA WritesCalm ==
    ASSUME Exchange, Queues
    PROVE  /\ \A k : Write(<<Plain(k)>>) /\ k \notin {"AUTHENTICATE mech", "AUTHENTICATE"} =>
                        ServerCalm
           /\ Write(<<Plain("CAP END"), Plain("QUIT")>>) => ServerCalm
           /\ \A t : Write(Requests(t)) /\ Requests(t) \in Seq(Range(Requests(t))) => ServerCalm
<1>1. ASSUME NEW k, k \notin {"AUTHENTICATE mech", "AUTHENTICATE"}, Write(<<Plain(k)>>)
      PROVE  ServerCalm
  <2>1. PICK m, t : m = Plain(k) /\ t = <<m>>
    OBVIOUS
  <2>2. m[1] = k
    BY <2>1 DEF Plain, Msg
  <2>3. t \in Seq(Range(t)) /\ \A i \in DOMAIN t : t[i] = m
    BY <2>1, SingleFacts
  <2>4. ~Calls(t, "AUTHENTICATE mech") /\ ~Calls(t, "AUTHENTICATE")
    BY <1>1, <2>2, <2>3 DEF Calls
  <2> QED
    BY <1>1, <2>1, <2>3, <2>4, WriteCalm
<1>2. ASSUME Write(<<Plain("CAP END"), Plain("QUIT")>>) PROVE ServerCalm
  <2>1. PICK a, d, t : a = Plain("CAP END") /\ d = Plain("QUIT") /\ t = <<a, d>>
    OBVIOUS
  <2>2. a[1] = "CAP END" /\ d[1] = "QUIT"
    BY <2>1 DEF Plain, Msg
  <2>3. t \in Seq(Range(t)) /\ \A i \in DOMAIN t : t[i] \in {a, d}
    BY <2>1, PairFacts
  <2>4. ~Calls(t, "AUTHENTICATE mech") /\ ~Calls(t, "AUTHENTICATE")
    BY <2>2, <2>3 DEF Calls
  <2> QED
    BY <1>2, <2>1, <2>3, <2>4, WriteCalm
<1>3. ASSUME NEW t, Write(Requests(t)), Requests(t) \in Seq(Range(Requests(t))) PROVE ServerCalm
  <2>1. \A i \in DOMAIN Requests(t) : Requests(t)[i][1] = "CAP REQ"
    BY DEF Requests, Msg
  <2>2. ~Calls(Requests(t), "AUTHENTICATE mech") /\ ~Calls(Requests(t), "AUTHENTICATE")
    BY <2>1 DEF Calls
  <2> QED
    BY <1>3, <2>2, WriteCalm
<1> QED
  BY <1>1, <1>2, <1>3

\* The server takes another message, the client takes any.
LEMMA TakeCalm ==
    ASSUME Exchange, Queues, NEW k
    PROVE  /\ Handle(k) /\ k # "AUTHENTICATE" => ServerCalm
           /\ Receive(k) => ClientCalm
<1>1. ASSUME Handle(k), k # "AUTHENTICATE" PROVE ServerCalm
  <2>1. PICK s, t : s = toServer /\ t = Tail(s)
    OBVIOUS
  <2>2. /\ s \in Seq(Range(s)) /\ s # <<>> /\ toServer' = t /\ Once(s, "AUTHENTICATE mech")
        /\ Head(s)[1] # "AUTHENTICATE"
    BY <1>1, <2>1 DEF Queues, Handle, Exchange, OneExchange
  <2>3. /\ Calls(t, "AUTHENTICATE mech") => Calls(s, "AUTHENTICATE mech")
        /\ Once(t, "AUTHENTICATE mech")
        /\ Calls(t, "AUTHENTICATE") => Calls(s, "AUTHENTICATE")
    BY <2>1, <2>2, TailCalls
  <2>4. \A n, a, r \in Nat : InTransit(s, n, a, r) => \E b \in Nat : InTransit(t, n, b, r)
    BY <2>1, <2>2, TailTransit
  <2> QED
    BY <2>1, <2>2, <2>3, <2>4 DEF ServerCalm
<1>2. ASSUME Receive(k) PROVE ClientCalm
  <2>1. PICK s, t : s = toClient /\ t = Tail(s)
    OBVIOUS
  <2>2. s \in Seq(Range(s)) /\ s # <<>> /\ toClient' = t /\ Once(s, "AUTHENTICATE +")
    BY <1>2, <2>1 DEF Queues, Receive, Exchange, OneExchange
  <2>3. /\ Calls(t, "AUTHENTICATE +") => Calls(s, "AUTHENTICATE +")
        /\ Once(t, "AUTHENTICATE +")
    BY <2>1, <2>2, TailCalls
  <2> QED
    BY <2>1, <2>2, <2>3 DEF ClientCalm
<1> QED
  BY <1>1, <1>2

\* The server answers: with something else, or with its go-ahead.
LEMMA ReplyCalm ==
    ASSUME Exchange, Queues, NEW k, NEW caps, Reply(k, caps)
    PROVE  /\ k # "AUTHENTICATE +" => ClientCalm
           /\ ~Calls(toClient, "AUTHENTICATE +") => Once(toClient', "AUTHENTICATE +")
<1>1. PICK s, m, t : s = toClient /\ m = Msg(k, caps) /\ t = Append(s, m)
  OBVIOUS
<1>2. toClient' = t /\ s \in Seq(Range(s))
  BY <1>1 DEF Queues, Reply
<1>9. Once(s, "AUTHENTICATE +")
  BY <1>1 DEF Exchange, OneExchange
<1>3. m[1] = k
  BY <1>1 DEF Msg
<1>4. PICK l \in Nat : l = Len(s)
  BY <1>2
<1>5. /\ DOMAIN s = 1 .. l /\ DOMAIN t = 1 .. l + 1
      /\ (\A i \in DOMAIN s : t[i] = s[i]) /\ t[l + 1] = m
  BY <1>1, <1>2, <1>4, AppendFacts
<1>6. \A i \in DOMAIN t : (i = l + 1 /\ t[i] = m) \/ (i \in DOMAIN s /\ t[i] = s[i])
  BY <1>4, <1>5
<1>7. ASSUME k # "AUTHENTICATE +" PROVE ClientCalm
  <2>1. \A i \in DOMAIN t : t[i][1] = "AUTHENTICATE +" => i \in DOMAIN s /\ t[i] = s[i]
    BY <1>3, <1>6, <1>7
  <2>2. Once(t, "AUTHENTICATE +")
    BY <1>9, <2>1 DEF Once
  <2>3. Calls(t, "AUTHENTICATE +") => Calls(s, "AUTHENTICATE +")
    BY <2>1 DEF Calls
  <2> QED
    BY <1>1, <1>2, <2>2, <2>3 DEF ClientCalm
<1>8. ASSUME ~Calls(toClient, "AUTHENTICATE +") PROVE Once(toClient', "AUTHENTICATE +")
  <2>1. \A i \in DOMAIN t : t[i][1] = "AUTHENTICATE +" => i = l + 1
    BY <1>1, <1>6, <1>8 DEF Calls
  <2> QED
    BY <1>2, <2>1 DEF Once
<1> QED
  BY <1>7, <1>8

\* What the server sends that is not its go-ahead.
LEMMA RepliesCalm ==
    ASSUME Exchange, Queues, NEW caps
    PROVE  /\ (Reply("LS *", caps) => ClientCalm) /\ (Reply("LS", caps) => ClientCalm)
           /\ (Reply("ACK", caps) => ClientCalm) /\ (Reply("NAK", caps) => ClientCalm)
           /\ (Reply("903", caps) => ClientCalm) /\ (Reply("904", caps) => ClientCalm)
           /\ (Reply("376", caps) => ClientCalm) /\ (Reply("EOF", caps) => ClientCalm)
<1>1. ASSUME NEW k \in {"LS *", "LS", "ACK", "NAK", "903", "904", "376", "EOF"}
      PROVE  Reply(k, caps) => ClientCalm
  <2>1. k # "AUTHENTICATE +"
    OBVIOUS
  <2> QED
    BY <2>1, ReplyCalm
<1> QED
  BY <1>1

-----------------------------------------------------------------------------
(* The SASL exchange, step by step                                         *)

\* Connect asks for the mechanism: nothing has come before.
LEMMA MechanismSent ==
    ASSUME Exchange, Queues, CapsSettled, main' = "sasl"
    PROVE  Exchange'
<1>1. /\ UNCHANGED <<response, sasl, toClient>> /\ Early /\ ~Early'
      /\ Write(<<Plain("AUTHENTICATE mech")>>)
  BY DEF CapsSettled, EndNegotiation, readVars, serverVars, Early
<1>2. CASE closed
  <2>1. ServerCalm /\ ClientCalm
    BY <1>1, <1>2, SameCalm DEF Write
  <2> QED
    BY <1>1, <2>1, ExchangeKept
<1>3. CASE ~closed
  <2>1. PICK s, m, t, u : /\ s = toServer /\ m = Plain("AUTHENTICATE mech") /\ t = <<m>>
                          /\ u = s \o t
    OBVIOUS
  <2>2. toServer' = u /\ s \in Seq(Range(s))
    BY <1>1, <1>3, <2>1 DEF Write, Queues
  <2>3. m[1] = "AUTHENTICATE mech"
    BY <2>1 DEF Plain, Msg
  <2>4. t \in Seq(Range(t)) /\ DOMAIN t = 1 .. 1 /\ \A i \in DOMAIN t : t[i] = m
    BY <2>1, SingleFacts
  <2>5. ~Calls(t, "AUTHENTICATE")
    BY <2>3, <2>4 DEF Calls
  <2>6. Once(t, "AUTHENTICATE mech")
    <3>1. \A i, j \in 1 .. 1 : i = j
      OBVIOUS
    <3> QED
      BY <2>4, <3>1 DEF Once
  <2>7. /\ response = <<>> /\ sasl.phase = "none" /\ Unsent
        /\ ~Calls(toServer, "AUTHENTICATE mech") /\ ~Calls(toClient, "AUTHENTICATE +")
    BY <1>1 DEF Exchange, OneExchange
  <2>8. Once(u, "AUTHENTICATE mech") /\ ~Calls(u, "AUTHENTICATE")
    <3>1. ~Calls(s, "AUTHENTICATE") /\ ~Calls(s, "AUTHENTICATE mech")
      BY <2>1, <2>7 DEF Unsent
    <3> QED
      BY <2>1, <2>2, <2>4, <2>5, <2>6, <3>1, ConcatCalls
  <2>9. OneExchange'
    <3>1. Once(toClient', "AUTHENTICATE +") /\ ~Calls(toClient', "AUTHENTICATE +")
      BY <1>1, <2>7 DEF Exchange, OneExchange
    <3> QED
      BY <1>1, <2>2, <2>7, <2>8, <3>1 DEF OneExchange
  <2>10. Unsent'
    BY <1>1, <2>2, <2>7, <2>8 DEF Unsent
  <2>11. sasl' \in Buffers /\ Bounded' /\ response' = <<>>
    BY <1>1, <2>7 DEF Exchange, Bounded
  <2> QED
    BY <2>9, <2>10, <2>11 DEF Exchange
<1> QED
  BY <1>2, <1>3

\* The server takes the mechanism, and gives its go-ahead for the first time, or refuses it.
LEMMA MechanismTaken ==
    ASSUME Exchange, Queues, ServerMechanism
    PROVE  Exchange'
<1>1. UNCHANGED <<response, main>> /\ Handle("AUTHENTICATE mech")
  BY DEF ServerMechanism, readVars, mainVars
<1>2. Early' => Early
  BY <1>1 DEF Early
<1>3. ServerCalm
  BY <1>1, TakeCalm
<1>4. CASE Reply("904", {}) /\ UNCHANGED sasl
  <2>1. ClientCalm
    BY <1>4, RepliesCalm
  <2> QED
    BY <1>1, <1>2, <1>3, <1>4, <2>1, ExchangeKept
<1>5. ASSUME NEW limit \in Limits, sasl' = [sasl EXCEPT !.phase = "open", !.limit = limit],
             Reply("AUTHENTICATE +", {})
      PROVE  Exchange'
  <2>1. PICK s, t : s = toServer /\ t = Tail(s)
    OBVIOUS
  <2>2. /\ s \in Seq(Range(s)) /\ s # <<>> /\ toServer' = t
        /\ Head(s)[1] = "AUTHENTICATE mech"
    BY <1>1, <2>1 DEF Queues, Handle
  <2>3. Once(s, "AUTHENTICATE mech")
    BY <2>1 DEF Exchange, OneExchange
  <2>4. Calls(s, "AUTHENTICATE mech") /\ ~Calls(t, "AUTHENTICATE mech")
    BY <2>1, <2>2, <2>3, TailCalls
  <2>5. /\ ~Early /\ response = <<>> /\ ~Calls(toClient, "AUTHENTICATE +")
        /\ Unsent /\ sasl \in Buffers
    BY <2>1, <2>4 DEF Exchange, OneExchange
  <2>6. /\ sasl' \in Buffers /\ sasl'.phase = "open" /\ sasl'.buf = <<>>
        /\ sasl'.output = <<>> /\ sasl'.limit \in Nat
    <3>1. limit \in Nat
      BY SASLAssumption
    <3> QED
      BY <1>5, <2>5, <3>1 DEF Buffers, Unsent
  <2>7. Bounded'
    <3>1. Len(<<>>) = 0
      OBVIOUS
    <3> QED
      BY <2>6, <3>1 DEF Bounded
  <2>8. Once(toClient', "AUTHENTICATE +")
    BY <1>5, <2>5, ReplyCalm
  <2>9. Once(toServer', "AUTHENTICATE mech") /\ ~Calls(toServer', "AUTHENTICATE mech")
    BY <1>3, <2>2, <2>4 DEF ServerCalm
  <2>10. OneExchange'
    BY <1>1, <1>2, <2>5, <2>6, <2>8, <2>9 DEF OneExchange
  <2>11. ~Calls(toServer', "AUTHENTICATE")
    BY <1>3, <2>5 DEF ServerCalm, Unsent
  <2>12. Unsent'
    BY <2>6, <2>11 DEF Unsent
  <2> QED
    BY <1>1, <2>5, <2>6, <2>7, <2>10, <2>12 DEF Exchange
<1> QED
  BY <1>4, <1>5 DEF ServerMechanism

\* handleAUTHENTICATE sends the response, for the first time, to a server that waits for it.
LEMMA ResponseSent ==
    ASSUME Exchange, Queues, handleAUTHENTICATE
    PROVE  Exchange'
<1>1. UNCHANGED <<sasl, main>> /\ Receive("AUTHENTICATE +")
  BY DEF handleAUTHENTICATE, serverVars, mainVars
<1>2. PICK n \in ResponseLengths :
         Write(Chunks(EncodeSASLResponse(Raw(n)))) /\ response' = <<Raw(n)>>
  BY DEF handleAUTHENTICATE, Chunks, Raw
<1>3. n \in Nat
  BY SASLAssumption
<1>4. /\ ~Early' /\ response = <<>> /\ sasl.phase = "open" /\ Unsent /\ sasl \in Buffers
      /\ ~Calls(toServer, "AUTHENTICATE mech")
      /\ Once(toClient', "AUTHENTICATE +") /\ ~Calls(toClient', "AUTHENTICATE +")
  <2>1. PICK s, t : s = toClient /\ t = Tail(s)
    OBVIOUS
  <2>2. s \in Seq(Range(s)) /\ s # <<>> /\ toClient' = t /\ Head(s)[1] = "AUTHENTICATE +"
    BY <1>1, <2>1 DEF Queues, Receive
  <2>3. Once(s, "AUTHENTICATE +")
    BY <2>1 DEF Exchange, OneExchange
  <2>4. /\ Once(t, "AUTHENTICATE +") /\ Calls(s, "AUTHENTICATE +")
        /\ ~Calls(t, "AUTHENTICATE +")
    BY <2>1, <2>2, <2>3, TailCalls
  <2>5. /\ ~Early /\ response = <<>> /\ sasl.phase = "open" /\ Unsent /\ sasl \in Buffers
        /\ ~Calls(toServer, "AUTHENTICATE mech")
    BY <2>1, <2>4 DEF Exchange, OneExchange
  <2>6. ~Early'
    BY <1>1, <2>5 DEF Early
  <2> QED
    BY <2>2, <2>4, <2>5, <2>6
<1>5. PICK c \in Nat \ {0} : c = ChunkCount(n)
  BY <1>3, SizeFacts
<1>6. /\ \E a, r \in Nat : InTransit(toServer', n, a, r) /\ (r # 0 => r = c)
      /\ Once(toServer', "AUTHENTICATE mech") /\ ~Calls(toServer', "AUTHENTICATE mech")
  <2>1. Once(toServer, "AUTHENTICATE mech") /\ ~Calls(toServer, "AUTHENTICATE")
    BY <1>4 DEF Exchange, OneExchange, Unsent
  <2>2. CASE closed
    <3>1. toServer' = toServer
      BY <1>2, <2>2 DEF Write
    <3>2. 0 <= c /\ 0 + 1 .. 0 + 0 = {} /\ 1 .. 0 = {}
      BY <1>5
    <3>3. InTransit(toServer, n, 0, 0)
      BY <1>5, <2>1, <3>2 DEF InTransit, Calls
    <3> QED
      BY <1>4, <2>1, <3>1, <3>3
  <2>3. CASE ~closed
    <3>1. PICK s, t, u : /\ s = toServer /\ t = Chunks(EncodeSASLResponse(Raw(n)))
                         /\ u = s \o t
      OBVIOUS
    <3>2. toServer' = u /\ s \in Seq(Range(s))
      BY <1>2, <2>3, <3>1 DEF Write, Queues
    <3>3. PICK l \in Nat : l = Len(s)
      BY <3>2
    <3>4. InTransit(u, n, l, c) /\ t \in Seq(Range(t)) /\ ~Calls(t, "AUTHENTICATE mech")
      BY <1>3, <1>5, <2>1, <3>1, <3>2, <3>3, ChunksSent
    <3>5. Once(u, "AUTHENTICATE mech") /\ ~Calls(u, "AUTHENTICATE mech")
      BY <1>4, <2>1, <3>1, <3>2, <3>4, ConcatCalls
    <3> QED
      BY <1>5, <3>2, <3>3, <3>4, <3>5
  <2> QED
    BY <2>2, <2>3
<1>7. PICK a \in Nat, r \in Nat : InTransit(toServer', n, a, r) /\ (r # 0 => r = c)
  BY <1>6
<1>8. Collected(n, r)'
  <2>1. Stretch(0, Upto(3 * Begin(c - c + 1), n)) = <<>>
    <3>1. c - c + 1 = 1 /\ ChunkGroups * (1 - 1) = 0
      BY <1>5, ChunkAssumption
    <3>2. Begin(c - c + 1) = 0
      BY <3>1 DEF Begin
    <3>3. Upto(3 * 0, n) = 0
      BY <1>3 DEF Upto
    <3>4. Stretch(0, 0) = <<>>
      BY DEF Stretch
    <3> QED
      BY <3>2, <3>3, <3>4
  <2>2. sasl' = sasl /\ sasl.phase = "open" /\ sasl.buf = <<>>
    BY <1>1, <1>4 DEF Unsent
  <2> QED
    BY <1>5, <1>7, <2>1, <2>2 DEF Collected
<1>9. Sent'
  BY <1>2, <1>7, <1>8 DEF Sent
<1>10. sasl' \in Buffers /\ Bounded' /\ response' # <<>>
  BY <1>1, <1>2, <1>4 DEF Exchange, Bounded
<1>11. OneExchange'
  BY <1>4, <1>6 DEF OneExchange
<1> QED
  BY <1>9, <1>10, <1>11 DEF Exchange

\* The server takes a chunk: the next one of the response if it waits for one.
LEMMA ChunkAdded ==
    ASSUME Exchange, Queues, ServerChunk
    PROVE  Exchange'
<1>1. UNCHANGED <<response, main>> /\ Handle("AUTHENTICATE")
  BY DEF ServerChunk, readVars, mainVars
<1>2. PICK s, t, value : s = toServer /\ t = Tail(s) /\ value = Head(s)[2]
  OBVIOUS
<1>3. s \in Seq(Range(s)) /\ s # <<>> /\ toServer' = t /\ Head(s)[1] = "AUTHENTICATE"
  BY <1>1, <1>2 DEF Queues, Handle
<1>4. /\ response # <<>> /\ ~Early /\ sasl \in Buffers /\ Bounded
      /\ ~Calls(s, "AUTHENTICATE mech") /\ Once(s, "AUTHENTICATE mech")
      /\ ~Calls(toClient, "AUTHENTICATE +")
  <2>1. Calls(s, "AUTHENTICATE")
    BY <1>3, TailCalls
  <2>2. response # <<>>
    BY <1>2, <2>1 DEF Exchange, Unsent
  <2> QED
    BY <1>2, <2>2 DEF Exchange, OneExchange
<1>5. Once(t, "AUTHENTICATE mech") /\ ~Calls(t, "AUTHENTICATE mech")
  BY <1>2, <1>3, <1>4, TailCalls
<1>6. ClientCalm
  <2>1. toClient' = toClient \/ Reply("904", {}) \/ Reply("903", {})
    BY DEF ServerChunk
  <2>2. CASE toClient' = toClient
    BY <2>2, SameCalm
  <2>3. CASE Reply("904", {})
    BY <2>3, RepliesCalm
  <2>4. CASE Reply("903", {})
    BY <2>4, RepliesCalm
  <2> QED
    BY <2>1, <2>2, <2>3, <2>4
<1>7. OneExchange'
  <2>1. ~Early' /\ ~Calls(toClient', "AUTHENTICATE +") /\ Once(toClient', "AUTHENTICATE +")
    BY <1>1, <1>4, <1>6 DEF ClientCalm, Early
  <2> QED
    BY <1>3, <1>5, <2>1 DEF OneExchange
<1>8. PICK n \in ResponseLengths, a \in Nat, r \in Nat :
         response = <<Raw(n)>> /\ InTransit(s, n, a, r) /\ Collected(n, r)
  BY <1>2, <1>4 DEF Exchange, Sent
<1>9. n \in Nat
  BY SASLAssumption
<1>10. PICK c \in Nat \ {0} : c = ChunkCount(n)
  BY <1>9, SizeFacts
<1>11. /\ r # 0 /\ r <= c /\ InTransit(t, n, 0, r - 1)
       /\ value = EncodeSASLResponse(Raw(n))[c - r + 1]
  BY <1>2, <1>3, <1>8, <1>9, <1>10, ChunkTaken
<1>12. PICK q \in Nat, k \in Nat : /\ q = r - 1 /\ k = c - r + 1 /\ k \in 1 .. c
                                   /\ k + 1 = c - q + 1 /\ (k < c <=> q > 0)
  <2>1. r - 1 \in Nat /\ c - r + 1 \in Nat /\ c - r + 1 \in 1 .. c
    BY <1>8, <1>10, <1>11
  <2> QED
    BY <1>8, <1>10, <1>11, <2>1
<1>13. InTransit(toServer', n, 0, q) /\ response' = <<Raw(n)>> /\ response' # <<>>
  BY <1>1, <1>3, <1>4, <1>8, <1>11, <1>12
<1>14. ASSUME Collected(n, q)', sasl' \in Buffers, Bounded' PROVE Exchange'
  <2>1. Sent'
    <3>1. 0 \in Nat
      OBVIOUS
    <3> QED
      BY <1>12, <1>13, <1>14, <3>1 DEF Sent
  <2> QED
    BY <1>7, <1>13, <1>14, <2>1 DEF Exchange
<1>15. CASE sasl.phase # "open"
  <2>1. sasl' = sasl
    BY <1>15 DEF ServerChunk
  <2>2. Collected(n, q)'
    BY <1>8, <1>15, <2>1 DEF Collected
  <2>3. sasl' \in Buffers /\ Bounded'
    BY <1>4, <2>1 DEF Bounded
  <2> QED
    BY <1>14, <2>2, <2>3
<1>16. CASE sasl.phase = "open"
  <2>0. PICK buf : buf = sasl.buf
    OBVIOUS
  <2>1. PICK limit \in Nat : buf = sasl.buf /\ limit = sasl.limit
    BY <1>4, <2>0 DEF Buffers
  <2>2. PICK added : added = Add(buf, limit, value)
    OBVIOUS
  <2>3. sasl' = [phase |-> IF added.done THEN "over" ELSE "open", limit |-> limit,
                 buf |-> added.buf, output |-> added.output, err |-> added.err]
    BY <1>2, <1>16, <2>1, <2>2 DEF ServerChunk
  <2>4. value = Text(n, Begin(k), Size(n, k))
    BY <1>9, <1>10, <1>11, <1>12, EncodeChunks
  <2>5. buf = Stretch(0, Upto(3 * Begin(k), n)) /\ (limit # 0 => Len(buf) <= limit)
    <3>1. r > 0
      BY <1>8, <1>11
    <3> QED
      BY <1>4, <1>8, <1>10, <1>12, <1>16, <2>1, <3>1 DEF Collected, Bounded
  <2>6. Outcome(n, k, limit, added)
    <3>1. k \in 1 .. ChunkCount(n) /\ limit \in Nat
      BY <1>10, <1>12, <2>1
    <3>2. added = Add(buf, limit, Text(n, Begin(k), Size(n, k)))
      BY <2>2, <2>4
    <3> QED
      BY <1>9, <2>5, <3>1, <3>2, AddChunk
  <2>8. <<>> \in Seq(Nat) /\ Len(<<>>) = 0 /\ NoError # "ErrSASLLimitExceeded"
    BY DEF NoError
  <2>9. CASE added = Result(TRUE, Raw(n), NoError, <<>>) /\ (limit # 0 => n <= limit)
    <3>1. added.done /\ added.output = Raw(n) /\ added.err = NoError /\ added.buf = <<>>
      BY <2>9 DEF Result
    <3>2. sasl' = [phase |-> "over", limit |-> limit, buf |-> <<>>, output |-> Raw(n),
                   err |-> NoError]
      BY <2>3, <3>1
    <3>3. Raw(n) \in Seq(Nat) /\ Len(Raw(n)) = n
      BY <1>9, EncodeText
    <3>4. /\ sasl' \in Buffers /\ sasl'.phase = "over" /\ sasl'.output = Raw(n)
          /\ sasl'.err = NoError /\ sasl'.limit = limit /\ sasl'.buf = <<>>
      BY <2>1, <2>8, <3>2, <3>3 DEF Buffers
    <3>5. Bounded'
      BY <2>1, <2>8, <2>9, <3>3, <3>4 DEF Bounded
    <3> QED
      BY <1>14, <3>4, <3>5 DEF Collected
  <2>10. CASE /\ added = Result(TRUE, <<>>, "ErrSASLLimitExceeded", <<>>)
              /\ limit # 0 /\ 3 * GroupCount(n) > limit
    <3>1. /\ added.done /\ added.output = <<>> /\ added.err = "ErrSASLLimitExceeded"
          /\ added.buf = <<>>
      BY <2>10 DEF Result
    <3>2. sasl' = [phase |-> "over", limit |-> limit, buf |-> <<>>, output |-> <<>>,
                   err |-> "ErrSASLLimitExceeded"]
      BY <2>3, <3>1
    <3>3. /\ sasl' \in Buffers /\ sasl'.phase = "over" /\ sasl'.limit = limit
          /\ sasl'.err = "ErrSASLLimitExceeded" /\ sasl'.buf = <<>> /\ sasl'.output = <<>>
      BY <2>1, <2>8, <3>2 DEF Buffers
    <3>4. Bounded'
      BY <2>1, <2>8, <3>3 DEF Bounded
    <3> QED
      BY <1>14, <2>8, <2>10, <3>3, <3>4 DEF Collected
  <2>11. ASSUME NEW e \in Nat, added = Result(FALSE, <<>>, NoError, Stretch(0, e)),
                k < ChunkCount(n), e = Upto(3 * Begin(k + 1), n), limit # 0 => e <= limit
         PROVE  Exchange'
    <3>1. /\ ~added.done /\ added.output = <<>> /\ added.err = NoError
          /\ added.buf = Stretch(0, e)
      BY <2>11 DEF Result
    <3>2. sasl' = [phase |-> "open", limit |-> limit, buf |-> Stretch(0, e), output |-> <<>>,
                   err |-> NoError]
      BY <2>3, <3>1
    <3>3. Stretch(0, e) \in Seq(Nat) /\ Len(Stretch(0, e)) = e
      BY <2>11, StretchFacts
    <3>4. /\ sasl' \in Buffers /\ sasl'.phase = "open" /\ sasl'.limit = limit
          /\ sasl'.buf = Stretch(0, e) /\ sasl'.output = <<>>
      BY <2>1, <2>8, <3>2, <3>3 DEF Buffers
    <3>6. Bounded'
      BY <2>1, <2>8, <2>11, <3>3, <3>4 DEF Bounded
    <3>5. e = Upto(3 * Begin(ChunkCount(n) - q + 1), n)
      BY <1>10, <1>12, <2>11
    <3> QED
      BY <1>14, <3>4, <3>5, <3>6 DEF Collected
  <2> QED
    BY <2>6, <2>9, <2>10, <2>11 DEF Outcome
<1> QED
  BY <1>15, <1>16

\* Connect.
LEMMA ExchangeMain ==
    ASSUME Exchange, Queues, Main
    PROVE  Exchange'
<1>1. CASE CapsSettled /\ main' = "sasl"
  BY <1>1, MechanismSent
<1>2. CASE ~(CapsSettled /\ main' = "sasl")
  <2>1. UNCHANGED <<response, sasl, toClient>>
    BY DEF Main, RequestList, CapResult, CapTimeout, CapsSettled, SASLResult, SASLTimeout,
           NegotiationDisconnected, processAckedCaps, Identify, Welcomed, Disconnected, ServerTimedOut, CleanUp,
           EndNegotiation, readVars, serverVars
  <2>2. Early' => Early
    BY <1>2 DEF Main, RequestList, CapResult, CapTimeout, CapsSettled, SASLResult, SASLTimeout,
           NegotiationDisconnected, processAckedCaps, Identify, Welcomed, Disconnected, ServerTimedOut, CleanUp,
           EndNegotiation, Early
  <2>3. \/ Write(<<Plain("CAP LS")>>) \/ Write(<<Plain("CAP END")>>)
        \/ Write(<<Plain("USER")>>) \/ toServer' = toServer
    BY <1>2 DEF Main, RequestList, CapResult, CapTimeout, CapsSettled, SASLResult, SASLTimeout,
           NegotiationDisconnected, processAckedCaps, Identify, Welcomed, Disconnected, ServerTimedOut, CleanUp,
           EndNegotiation
  <2>4. ServerCalm
    BY <2>3, WritesCalm, SameCalm
  <2>5. ClientCalm
    BY <2>1, SameCalm
  <2> QED
    BY <2>1, <2>2, <2>4, <2>5, ExchangeKept
<1> QED
  BY <1>1, <1>2

\* readLoop, and the network.
LEMMA ExchangeReader ==
    ASSUME Exchange, Queues, Reader \/ Lose
    PROVE  Exchange'
<1>1. CASE handleAUTHENTICATE
  BY <1>1, ResponseSent
<1>2. ASSUME NEW b \in BOOLEAN, handleCAPLS(b) PROVE Exchange'
  <2>1. UNCHANGED <<response, sasl, main>> /\ \E k : Receive(k)
    BY <1>2 DEF handleCAPLS, mainVars, serverVars
  <2>2. \/ toServer' = toServer
        \/ Write(Requests(Select(RequestCaps, capsAdvertised \cup Head(toClient)[2])))
    BY <1>2 DEF handleCAPLS, Requests
  <2>3. ServerCalm
    <3>1. PICK adv, req : /\ adv = capsAdvertised \cup Head(toClient)[2]
                          /\ req = Select(RequestCaps, adv)
      OBVIOUS
    <3>2. req \in Seq(Caps \cap adv) /\ IsInjective(req)
      BY <3>1, SelectedCaps
    <3>3. Requests(req) \in Seq(Range(Requests(req)))
      BY <3>2, RequestsFacts
    <3>4. toServer' = toServer \/ Write(Requests(req))
      BY <2>2, <3>1
    <3> QED
      BY <3>3, <3>4, WritesCalm, SameCalm
  <2>4. ClientCalm
    BY <2>1, TakeCalm
  <2>5. Early' => Early
    BY <2>1 DEF Early
  <2> QED
    BY <2>1, <2>3, <2>4, <2>5, ExchangeKept
<1>3. ASSUME \/ \E b \in BOOLEAN : handleCAP(b)
             \/ SASLSuccess \/ SASLFailure \/ handleRegistration \/ ReadEOF \/ Lose
      PROVE  Exchange'
  <2>1. UNCHANGED <<response, sasl, main>>
    BY <1>3 DEF handleCAP, SASLSuccess, SASLFailure, handleRegistration, ReadEOF, Lose,
                mainVars, readVars, serverVars
  <2>2. (\E k : Receive(k)) \/ toClient' = toClient
    BY <1>3 DEF handleCAP, SASLSuccess, SASLFailure, handleRegistration, ReadEOF, Lose
  <2>3. Write(<<Plain("CAP END"), Plain("QUIT")>>) \/ toServer' = toServer
    BY <1>3 DEF handleCAP, SASLSuccess, SASLFailure, handleRegistration, ReadEOF, Lose
  <2>4. ServerCalm
    BY <2>3, WritesCalm, SameCalm
  <2>5. ClientCalm
    BY <2>2, TakeCalm, SameCalm
  <2>6. Early' => Early
    BY <2>1 DEF Early
  <2> QED
    BY <2>1, <2>4, <2>5, <2>6, ExchangeKept
<1> QED
  BY <1>1, <1>2, <1>3 DEF Reader

\* The server.
LEMMA ExchangeServer ==
    ASSUME Exchange, Queues, Server
    PROVE  Exchange'
<1>1. CASE ServerMechanism
  BY <1>1, MechanismTaken
<1>2. CASE ServerChunk
  BY <1>2, ChunkAdded
<1>3. ASSUME \/ ServerSilent \/ ServerPartialList \/ ServerList \/ ServerRequest \/ ServerCapEnd
             \/ ServerUser \/ ServerWelcome \/ ServerQuit
      PROVE  Exchange'
  <2>1. UNCHANGED <<response, sasl, main>>
    BY <1>3 DEF ServerSilent, ServerPartialList, ServerList, ServerRequest, ServerCapEnd,
                ServerUser, ServerWelcome, ServerQuit, mainVars, readVars, serverVars
  <2>2. \/ Handle("CAP LS") \/ Handle("CAP REQ") \/ Handle("CAP END") \/ Handle("USER")
        \/ Handle("QUIT") \/ toServer' = toServer
    BY <1>3 DEF ServerSilent, ServerPartialList, ServerList, ServerRequest, ServerCapEnd,
                ServerUser, ServerWelcome, ServerQuit
  <2>3. ServerCalm
    BY <2>2, TakeCalm, SameCalm
  <2>4. ClientCalm
    <3>1. CASE ServerPartialList
      BY <3>1, RepliesCalm DEF ServerPartialList
    <3>2. CASE ServerSilent \/ ServerList
      BY <3>2, RepliesCalm, SameCalm DEF ServerSilent, ServerList
    <3>3. CASE ServerRequest
      BY <3>3, RepliesCalm DEF ServerRequest
    <3>4. CASE ServerCapEnd \/ ServerUser
      BY <3>4, SameCalm DEF ServerCapEnd, ServerUser
    <3>5. CASE ServerWelcome \/ ServerQuit
      BY <3>5, RepliesCalm DEF ServerWelcome, ServerQuit
    <3> QED
      BY <1>3, <3>1, <3>2, <3>3, <3>4, <3>5
  <2>5. Early' => Early
    BY <2>1 DEF Early
  <2> QED
    BY <2>1, <2>3, <2>4, <2>5, ExchangeKept
<1> QED
  BY <1>1, <1>2, <1>3 DEF Server

-----------------------------------------------------------------------------
(* The theorems                                                            *)

\* The invariant holds when Connect begins.
LEMMA Start == Init => IInv
<1> SUFFICES ASSUME Init PROVE IInv
  OBVIOUS
<1>1. PICK e : e = <<>>
  OBVIOUS
<1>2. e \in Seq(Range(e)) /\ DOMAIN e = {} /\ e \in Seq({"ok", "failed"})
  BY <1>1, OfOwnElements
<1>3. toServer = e /\ toClient = e /\ capsChan = e /\ saslChan = e
  BY <1>1 DEF Init
<1>4. Queues
  BY <1>2, <1>3 DEF Queues, Apart, Asked, Distinct, Named
<1>5. ASSUME NEW c \in Caps PROVE Located(c)
  BY <1>2, <1>3 DEF Located, Carries, Grants, Has, HasAck, Init
<1>6. Counted
  <2>1. Pending = Caps
    BY DEF Pending, Init
  <2>2. remaining = Len(RequestCaps)
    BY DEF Init
  <2> QED
    BY <2>1, <2>2, CapsFacts DEF Counted
<1>7. Negotiation
  BY <1>4, <1>5, <1>6 DEF Negotiation, Init
<1>8. Settled
  BY DEF Settled, Negotiated, Init
<1>9. Credentials
  BY <1>2, <1>3 DEF Credentials, Negotiated, Init
<1> QED
  BY <1>7, <1>8, <1>9 DEF IInv

\* Every capability is at one place, nothing is counted twice, and the exchange of the
\* credentials is never left without a message on its way.
THEOREM Invariance == Spec => []IInv
<1>1. IInv /\ [Next]_vars => IInv'
  <2> SUFFICES ASSUME IInv, [Next]_vars PROVE IInv'
    OBVIOUS
  <2>1. Negotiation' /\ Settled'
    BY NegotiationStep, SettledStep DEF IInv
  <2>2. Queues /\ Credentials
    BY DEF IInv, Negotiation
  <2>3. Credentials'
    <3>1. CASE Main
      BY <2>2, <3>1, CredentialsMain
    <3>2. CASE Reader \/ Lose
      BY <2>2, <3>2, CredentialsReader
    <3>3. CASE Server
      BY <2>2, <3>3, CredentialsServer
    <3>4. CASE UNCHANGED vars
      <4>1. /\ UNCHANGED <<saslChan, authenticated, main, err, timedOut, closed>>
            /\ toServer' = toServer /\ toClient' = toClient
        BY <3>4 DEF vars, mainVars, chanVars, serverVars
      <4>2. NoClaim /\ ServerKept /\ ClientKept
        BY <4>1, SameKept
      <4> QED
        BY <2>2, <4>1, <4>2, CredentialsKept
    <3> QED
      BY <3>1, <3>2, <3>3, <3>4 DEF Next, Returned
  <2> QED
    BY <2>1, <2>3 DEF IInv
<1> QED
  BY <1>1, Start, PTL DEF Spec

\* Client and server agree on the capabilities once negotiateCaps has returned nil,
\* unless CAPTimeout cut it short: whatever the server lists, in however many lines, and
\* whatever it grants.  A result dropped from a full capsChan could delay negotiateCaps,
\* and not make it go on in disagreement.
THEOREM CapabilitiesAgree == Spec => []CapsAgree
<1>1. IInv => CapsAgree
  <2> SUFFICES ASSUME IInv, main \in {"nick", "await", "ok"}, ~timedOut
               PROVE  capsAcked = enabled
    BY DEF CapsAgree
  <2>1. capsAcked = acknowledged /\ remaining = 0
    BY DEF IInv, Settled, Negotiated
  <2>2. Pending = {}
    <3>1. IsFiniteSet(Pending)
      <4>1. Pending \in SUBSET Caps
        BY DEF Pending
      <4> QED
        BY <4>1, CapsFacts, FS_Subset
    <3>2. Cardinality(Pending) \in Nat /\ Cardinality(Pending) <= 0
      BY <2>1, <3>1, FS_CardinalityType DEF IInv, Negotiation, Counted
    <3>3. Cardinality(Pending) = 0
      BY <3>2
    <3> QED
      BY <3>1, <3>3, FS_EmptySet
  <2>3. acknowledged \subseteq enabled /\ enabled \subseteq Caps
    BY DEF IInv, Negotiation
  <2>4. \A c \in Caps : c \notin enabled \ acknowledged
    BY <2>2 DEF Pending
  <2>5. enabled \subseteq acknowledged
    BY <2>3, <2>4
  <2> QED
    BY <2>1, <2>3, <2>5
<1> QED
  BY <1>1, Invariance, PTL

\* Where SASL is required, Connect returns nil only after the server has accepted the
\* credentials, unless CAPTimeout passed: no order of the outcome, the timeouts and the
\* loss of the connection gets round it.
THEOREM NoLoginNoConnection == Spec => []SASLFatal
<1>1. IInv => SASLFatal
  BY DEF IInv, Credentials, Negotiated, SASLFatal
<1> QED
  BY <1>1, Invariance, PTL

\* Whatever the length of the response and the size of the chunks, the server is never left
\* waiting for one more chunk of it while negotiateCaps waits for the outcome.
THEOREM ExchangeProgresses == Spec => []SASLProgress
<1>1. IInv => SASLProgress
  <2> SUFFICES ASSUME IInv, main = "sasl", toServer = <<>>, toClient = <<>>, ~closed
               PROVE  saslChan # <<>>
    BY DEF SASLProgress
  <2>1. UnderWay
    BY DEF IInv, Credentials
  <2>2. DOMAIN toServer = {} /\ DOMAIN toClient = {}
    OBVIOUS
  <2> QED
    BY <2>1, <2>2 DEF UnderWay
<1> QED
  BY <1>1, Invariance, PTL

\* The chunks on their way, and what the server has collected, together are the response.
THEOREM ExchangeInvariance == Spec => []Exchange
<1>1. Init => Exchange
  <2> SUFFICES ASSUME Init PROVE Exchange
    OBVIOUS
  <2>1. PICK e : e = <<>>
    OBVIOUS
  <2>2. DOMAIN e = {} /\ e \in Seq(Nat) /\ Len(e) = 0
    BY <2>1
  <2>3. /\ toServer = e /\ toClient = e /\ response = <<>> /\ main = "start"
        /\ sasl = [phase |-> "none", limit |-> 0, buf |-> e, output |-> e, err |-> NoError]
    BY <2>1 DEF Init
  <2>4. /\ sasl \in Buffers /\ sasl.phase = "none" /\ sasl.limit = 0 /\ sasl.buf = <<>>
        /\ sasl.output = <<>>
    BY <2>1, <2>2, <2>3 DEF Buffers
  <2>5. OneExchange /\ Unsent
    BY <2>2, <2>3, <2>4 DEF OneExchange, Unsent, Calls, Once
  <2> QED
    BY <2>3, <2>4, <2>5 DEF Exchange, Bounded
<1>2. IInv /\ Exchange /\ [Next]_vars => Exchange'
  <2> SUFFICES ASSUME IInv, Exchange, [Next]_vars PROVE Exchange'
    OBVIOUS
  <2>1. Queues
    BY DEF IInv, Negotiation
  <2>2. CASE Main
    BY <2>1, <2>2, ExchangeMain
  <2>3. CASE Reader \/ Lose
    BY <2>1, <2>3, ExchangeReader
  <2>4. CASE Server
    BY <2>1, <2>4, ExchangeServer
  <2>5. CASE UNCHANGED vars
    <3>1. UNCHANGED <<response, sasl, main, toServer, toClient>>
      BY <2>5 DEF vars, mainVars, readVars, serverVars
    <3>2. Early' => Early
      BY <3>1 DEF Early
    <3> QED
      BY <3>1, <3>2, SameCalm, ExchangeKept
  <2> QED
    BY <2>2, <2>3, <2>4, <2>5 DEF Next, Returned
<1> QED
  BY <1>1, <1>2, Invariance, PTL DEF Spec

\* What handleAUTHENTICATE encodes is what the server's SASLBuffer gives back, for any
\* response, any size of the chunks and any limit, however the chunks fall and whatever
\* comes between them; the buffer refuses it only because of its limit, and never holds
\* more than that.
THEOREM ResponseIntact == Spec => []SASLIntact
<1>1. Exchange => SASLIntact
  <2> SUFFICES ASSUME Exchange PROVE SASLIntact
    OBVIOUS
  <2>1. sasl.limit # 0 => Len(sasl.buf) <= sasl.limit /\ Len(sasl.output) <= sasl.limit
    BY DEF Exchange, Bounded
  <2>2. ASSUME sasl.phase = "over"
        PROVE  IF sasl.err = NoError THEN sasl.output = response[1]
               ELSE sasl.limit # 0 /\ 3 * GroupCount(Len(response[1])) > sasl.limit
    <3>1. Sent
      BY <2>2 DEF Exchange, Unsent
    <3>2. PICK n \in ResponseLengths : /\ response = <<Raw(n)>> /\ \E r \in Nat : Collected(n, r)
      BY <3>1 DEF Sent
    <3>3. n \in Nat
      BY SASLAssumption
    <3>4. response[1] = Raw(n) /\ Len(Raw(n)) = n
      BY <3>2, <3>3, EncodeText
    <3>5. IF sasl.err = NoError THEN sasl.output = Raw(n)
          ELSE sasl.limit # 0 /\ 3 * GroupCount(n) > sasl.limit
      BY <2>2, <3>2 DEF Collected
    <3> QED
      BY <3>4, <3>5
  <2> QED
    BY <2>1, <2>2 DEF SASLIntact
<1> QED
  BY <1>1, ExchangeInvariance, PTL
=============================================================================
