------------------------- MODULE CDPManager_proofs -------------------------
(* What holds of CDPManager for any sets of addresses, files, tabs and sessions,
   any number of calls, launches and events, and any of the failures. *)
EXTENDS CDPManager, SequenceTheorems, TLAPS

-----------------------------------------------------------------------------
(* What is in a sequence. *)

Elements(s) == {s[i] : i \in DOMAIN s}

\* What is in a sequence over S is in S.
LEMMA ElementsInSet ==
  ASSUME NEW S, NEW s \in Seq(S)
  PROVE  Elements(s) \subseteq S
BY ElementOfSeq, LenProperties DEF Elements

\* Taking the head of a queue.
LEMMA ElementsOfTail ==
  ASSUME NEW S, NEW s \in Seq(S), s # <<>>
  PROVE  /\ Head(s) \in Elements(s) /\ Head(s) \in S
         /\ Tail(s) \in Seq(S) /\ Elements(Tail(s)) \subseteq Elements(s)
<1>1. Len(s) \in Nat /\ Len(s) # 0 /\ DOMAIN s = 1 .. Len(s)
  BY LenProperties, EmptySeq
<1>2. /\ Head(s) \in S /\ Tail(s) \in Seq(S)
      /\ Len(Tail(s)) = Len(s) - 1
      /\ \A i \in 1 .. Len(Tail(s)) : Tail(s)[i] = s[i + 1]
  BY HeadTailProperties
<1>3. DOMAIN Tail(s) = 1 .. Len(s) - 1
  BY <1>2, LenProperties
<1>4. Head(s) = s[1]
  BY <1>1
<1> QED
  BY <1>1, <1>2, <1>3, <1>4 DEF Elements

\* Taking a stretch of the messages in a pipe.
LEMMA ElementsOfSubSeq ==
  ASSUME NEW S, NEW s \in Seq(S), NEW m \in Nat \ {0}, NEW n \in 0 .. Len(s)
  PROVE  SubSeq(s, m, n) \in Seq(S) /\ Elements(SubSeq(s, m, n)) \subseteq Elements(s)
<1>1. Len(s) \in Nat /\ DOMAIN s = 1 .. Len(s) /\ n \in Int /\ m \in Int
  BY LenProperties
<1>2. \A i \in m .. n : i \in 1 .. Len(s) /\ s[i] \in S
  BY <1>1, ElementOfSeq
<1>3. /\ SubSeq(s, m, n) \in Seq(S)
      /\ Len(SubSeq(s, m, n)) = IF m <= n THEN n - m + 1 ELSE 0
      /\ \A i \in 1 .. n - m + 1 : SubSeq(s, m, n)[i] = s[m + i - 1]
  BY <1>1, <1>2, SubSeqProperties
<1>4. DOMAIN SubSeq(s, m, n) = 1 .. Len(SubSeq(s, m, n))
  BY <1>3, LenProperties
<1>5. ASSUME NEW i \in DOMAIN SubSeq(s, m, n)
      PROVE  SubSeq(s, m, n)[i] = s[m + i - 1] /\ m + i - 1 \in DOMAIN s
  BY <1>1, <1>3, <1>4, <1>5
<1> QED
  BY <1>3, <1>5 DEF Elements

\* Writing one more message or command.
LEMMA ElementsOfAppend ==
  ASSUME NEW S, NEW s \in Seq(S), NEW e \in S
  PROVE  Append(s, e) \in Seq(S) /\ Elements(Append(s, e)) = Elements(s) \cup {e}
<1>1. /\ Append(s, e) \in Seq(S) /\ Len(Append(s, e)) = Len(s) + 1
      /\ \A i \in 1 .. Len(s) : Append(s, e)[i] = s[i]
      /\ Append(s, e)[Len(s) + 1] = e
  BY AppendProperties
<1>2. DOMAIN s = 1 .. Len(s) /\ DOMAIN Append(s, e) = 1 .. Len(s) + 1 /\ Len(s) \in Nat
  BY <1>1, LenProperties
<1>3. \A i \in DOMAIN Append(s, e) : i \in DOMAIN s \/ i = Len(s) + 1
  BY <1>2
<1>4. Elements(Append(s, e)) \subseteq Elements(s) \cup {e}
  BY <1>1, <1>2, <1>3 DEF Elements
<1>5. Elements(s) \cup {e} \subseteq Elements(Append(s, e))
  BY <1>1, <1>2 DEF Elements
<1> QED
  BY <1>1, <1>4, <1>5

-----------------------------------------------------------------------------
(* The inductive invariant. *)

\* The client is in a public call only while it is connected, and what is not
\* connected has no browser and nothing in its pipes.
LinkInv ==
  /\ pc \notin {"idle", "killed", "blocked"} => link = "open"
  /\ link = "unset" => cmds = <<>> /\ wire = <<>> /\ pending = {} /\ browser = "none"

\* Of the commands on their way.
CommandOK(c) ==
  /\ c.id <= m_ID
  /\ c.method = "Page.navigate" => c.arg \in Url \cup {None}
  /\ pc \in DOMAIN Awaited /\ c.id = m_ID => c.method = Awaited[pc]

\* Of the messages on their way: what each kind of answer carries, and whose
\* answer it may be.
MessageOK(m) ==
  /\ m.browser <= launches
  /\ m.kind = "reply" /\ m.method = "Target.createTarget" => m.value \in Target
  /\ m.kind = "reply" /\ m.method = "Target.attachToTarget" => m.value \in Session
  /\ m.kind = "reply" /\ m.method \in DataMethods => m.value \in Rendering
  /\ link = "open" /\ m.browser = launches =>
       /\ m.id <= m_ID
       /\ pc \in DOMAIN Awaited /\ m.kind = "reply" /\ m.id = m_ID => m.method = Awaited[pc]

TrafficInv ==
  /\ \A c \in Elements(cmds) : CommandOK(c)
  /\ \A m \in InFlight : MessageOK(m)

Inv == TypeOK /\ LinkInv /\ TrafficInv

LEMMA InFlightElements == InFlight = Elements(m_MessageQueue) \cup Elements(wire) \cup pending
BY DEF InFlight, Elements

LEMMA InitInv == Init => Inv
<1> SUFFICES ASSUME Init PROVE Inv
  OBVIOUS
<1>1. TypeOK
  <2>1. m_MessageQueue \in Seq(Message) /\ wire \in Seq(Message) /\ cmds \in Seq(Command)
    BY EmptySeq DEF Init
  <2>2. local \in [url : Url \cup {None}, path : Path \cup {None},
                   targetId : Target \cup {None}, sessionId : Session \cup {None}]
    BY DEF Init, NoLocal
  <2>3. page \in [Target -> Page] /\ disk \in [Path -> Rendering \cup {None, Part}]
        /\ attached \in [Session -> Target \cup {None}]
    BY DEF Init, Page
  <2>4. pc \in Places
    BY DEF Init, Places
  <2> QED
    BY <2>1, <2>2, <2>3, <2>4 DEF Init, TypeOK
<1>2. LinkInv
  BY DEF Init, LinkInv
<1>3. TrafficInv
  BY DEF Init, TrafficInv, InFlight, Elements
<1> QED
  BY <1>1, <1>2, <1>3 DEF Inv

-----------------------------------------------------------------------------
(* The steps of the pipe. *)

\* Fewer messages, the same commands, and a client that waits as before or no more.
LEMMA KeepsTraffic ==
  ASSUME Inv, InFlight' \subseteq InFlight, Elements(cmds') \subseteq Elements(cmds),
         m_ID' = m_ID, launches' = launches, link' = link,
         pc' = pc \/ pc' \notin DOMAIN Awaited
  PROVE  TrafficInv'
<1>1. \A c \in Elements(cmds') : CommandOK(c)'
  BY DEF Inv, TrafficInv, CommandOK
<1>2. \A m \in InFlight' : MessageOK(m)'
  BY DEF Inv, TrafficInv, MessageOK
<1> QED
  BY <1>1, <1>2 DEF TrafficInv, Elements

\* Take hands over a message that was on its way and leaves the rest there.
LEMMA TakeProperties ==
  ASSUME Inv, Take
  PROVE  /\ NextMessage \in InFlight /\ NextMessage \in Message
         /\ InFlight' \subseteq InFlight
         /\ m_MessageQueue' \in Seq(Message) /\ wire' \in Seq(Message)
         /\ browser' \in {"none", "running", "dead", "deadMidMessage"}
         /\ browser # "dead" => browser' = browser \/ browser = "deadMidMessage"
         /\ wire = <<>> => wire' = <<>>
         /\ UNCHANGED <<cmds, launches, page, attached, enabled, pending>>
<1>1. m_MessageQueue \in Seq(Message) /\ wire \in Seq(Message)
  BY DEF Inv, TypeOK
<1>2. UNCHANGED <<cmds, launches, page, attached, enabled, pending>>
  BY DEF Take
<1>3. CASE m_MessageQueue # <<>>
  <2>1. m_MessageQueue' = Tail(m_MessageQueue) /\ wire' = wire /\ browser' = browser
    BY <1>3 DEF Take
  <2>2. NextMessage = Head(m_MessageQueue)
    BY <1>3 DEF NextMessage
  <2>3. /\ NextMessage \in Elements(m_MessageQueue) /\ NextMessage \in Message
        /\ m_MessageQueue' \in Seq(Message)
        /\ Elements(m_MessageQueue') \subseteq Elements(m_MessageQueue)
    BY <1>1, <1>3, <2>1, <2>2, ElementsOfTail
  <2>4. InFlight' \subseteq InFlight /\ NextMessage \in InFlight
    BY <1>2, <2>1, <2>3, InFlightElements DEF InFlight, Elements
  <2> QED
    BY <1>1, <1>2, <2>1, <2>3, <2>4 DEF Inv, TypeOK
<1>4. CASE m_MessageQueue = <<>>
  <2>1. wire # <<>>
    BY <1>4 DEF Take, Readable
  <2>2. PICK n \in 1 .. Len(wire) :
          /\ m_MessageQueue' = SubSeq(wire, 2, n)
          /\ wire' = SubSeq(wire, n + 1, Len(wire))
          /\ \/ UNCHANGED browser
             \/ browser = "deadMidMessage" /\ n = Len(wire) /\ browser' = "dead"
    BY <1>4, Zenon DEF Take
  <2>3. NextMessage = Head(wire)
    BY <1>4 DEF NextMessage
  <2>4. NextMessage \in Elements(wire) /\ NextMessage \in Message
    BY <1>1, <2>1, <2>3, ElementsOfTail
  <2>5. Len(wire) \in Nat /\ n \in 0 .. Len(wire) /\ n + 1 \in Nat \ {0} /\ Len(wire) \in 0 .. Len(wire)
    BY <1>1, <2>2, LenProperties
  <2>6. m_MessageQueue' \in Seq(Message) /\ Elements(m_MessageQueue') \subseteq Elements(wire)
    BY <1>1, <2>2, <2>5, ElementsOfSubSeq
  <2>7. wire' \in Seq(Message) /\ Elements(wire') \subseteq Elements(wire)
    BY <1>1, <2>2, <2>5, ElementsOfSubSeq
  <2>8. InFlight' \subseteq InFlight /\ NextMessage \in InFlight
    BY <1>2, <2>4, <2>6, <2>7, InFlightElements DEF InFlight, Elements
  <2> QED
    BY <1>2, <2>1, <2>2, <2>4, <2>6, <2>7, <2>8 DEF Inv, TypeOK
<1> QED
  BY <1>3, <1>4

\* A read: whatever the client makes of the message, only its own variables are
\* left to look at.
LEMMA ReadPreserves ==
  ASSUME Inv, Take, m_ID' = m_ID, link' = link, m_Timeout' = m_Timeout,
         pc # "idle", pc # "killed", pc # "blocked", pc' \in Places, pc' = pc \/ pc' \notin DOMAIN Awaited,
         ret' \in {"true", "false", "threw"},
         local' \in [url : Url \cup {None}, path : Path \cup {None},
                     targetId : Target \cup {None}, sessionId : Session \cup {None}],
         m_TargetID' \in Target \cup {None}, m_SessionID' \in Session \cup {None},
         disk' \in [Path -> Rendering \cup {None, Part}]
  PROVE  Inv'
<1>1. TypeOK'
  BY TakeProperties DEF Inv, TypeOK
<1>2. LinkInv'
  BY DEF Inv, LinkInv, TypeOK
<1>3. TrafficInv'
  BY TakeProperties, KeepsTraffic
<1> QED
  BY <1>1, <1>2, <1>3 DEF Inv

LocalType == [url : Url \cup {None}, path : Path \cup {None},
              targetId : Target \cup {None}, sessionId : Session \cup {None}]

\* A new command carries a number that no command or answer on its way has yet.
LEMMA SendPreserves ==
  ASSUME Inv, NEW method \in Methods, NEW session \in Session \cup {None},
         NEW arg \in Url \cup Target \cup {None}, NEW next \in Places \ {"idle", "killed", "blocked"},
         NEW loc \in LocalType,
         next \in DOMAIN Awaited => Awaited[next] = method,
         method = "Page.navigate" => arg \in Url \cup {None},
         Send(method, session, arg, next, loc)
  PROVE  Inv'
<1>0. PICK c : c = [id |-> m_ID + 1, method |-> method, session |-> session, arg |-> arg]
  OBVIOUS
<1>1. /\ m_ID' = m_ID + 1 /\ m_ID \in Nat
      /\ UNCHANGED <<m_TargetID, m_SessionID, m_MessageQueue, m_Timeout, link, disk, wire, browserVars>>
  BY DEF Send, Inv, TypeOK
<1>2. InFlight' = InFlight
  BY <1>1 DEF InFlight, browserVars
<1>3. \A m \in InFlight : m \in Message
  BY InFlightElements, ElementsInSet DEF Inv, TypeOK
<1>4. CASE /\ link = "open" /\ cmds' = Append(cmds, c)
           /\ pc' = next /\ local' = loc /\ UNCHANGED ret
  <2>1. c \in Command /\ cmds \in Seq(Command)
    BY <1>0, <1>1 DEF Command, Inv, TypeOK
  <2>2. cmds' \in Seq(Command) /\ Elements(cmds') = Elements(cmds) \cup {c}
    BY <1>4, <2>1, ElementsOfAppend
  <2>3. TypeOK'
    BY <1>1, <1>4, <2>2 DEF Inv, TypeOK, LocalType, browserVars
  <2>4. LinkInv'
    BY <1>1, <1>4 DEF LinkInv
  <2>5. \A d \in Elements(cmds) : d.id \in Nat
    BY <2>1, ElementsInSet DEF Command
  <2>6. ASSUME NEW d \in Elements(cmds) PROVE CommandOK(d)'
    BY <1>1, <2>5 DEF CommandOK, Inv, TrafficInv
  <2>7. CommandOK(c)'
    BY <1>0, <1>1, <1>4 DEF CommandOK
  <2>8. ASSUME NEW m \in InFlight PROVE MessageOK(m)'
    BY <1>1, <1>3, <1>4 DEF MessageOK, Inv, TrafficInv, Message, browserVars
  <2>9. TrafficInv'
    BY <1>2, <2>2, <2>6, <2>7, <2>8 DEF TrafficInv, Elements
  <2> QED
    BY <2>3, <2>4, <2>9 DEF Inv
<1>5. CASE /\ pc' \in {"idle", "killed", "blocked"} /\ ret' \in {"true", "false", "threw"}
           /\ local' \in LocalType /\ UNCHANGED cmds
  <2>1. TypeOK'
    BY <1>1, <1>5 DEF Inv, TypeOK, LocalType, Places, browserVars
  <2>2. LinkInv'
    BY <1>1, <1>5 DEF Inv, LinkInv, browserVars
  <2>3. \A d \in Elements(cmds) : d.id \in Nat
    <3>1. cmds \in Seq(Command)
      BY DEF Inv, TypeOK
    <3> QED
      BY <3>1, ElementsInSet DEF Command
  <2>4. pc' \notin DOMAIN Awaited
    BY <1>5 DEF Awaited
  <2>5. ASSUME NEW d \in Elements(cmds) PROVE CommandOK(d)'
    BY <1>1, <2>3, <2>4 DEF CommandOK, Inv, TrafficInv
  <2>6. ASSUME NEW m \in InFlight PROVE MessageOK(m)'
    BY <1>1, <1>3, <2>4 DEF MessageOK, Inv, TrafficInv, Message, browserVars
  <2>7. TrafficInv'
    BY <1>2, <1>5, <2>5, <2>6 DEF TrafficInv, Elements
  <2> QED
    BY <2>1, <2>2, <2>7 DEF Inv
<1>6. local \in LocalType /\ NoLocal \in LocalType /\ ret \in {"true", "false", "threw"}
  BY DEF Inv, TypeOK, LocalType, NoLocal
<1> QED
  BY <1>0, <1>4, <1>5, <1>6 DEF Send, Return

\* An answer is prepared: it has the number and the method of its command.
LEMMA AnswerPreserves ==
  ASSUME Inv, browser = "running", cmds # <<>>,
         NEW kind \in {"reply", "error"}, NEW value \in Target \cup Session \cup Rendering \cup {None},
         kind = "reply" =>
           /\ Head(cmds).method = "Target.createTarget" => value \in Target
           /\ Head(cmds).method = "Target.attachToTarget" => value \in Session
           /\ Head(cmds).method \in DataMethods => value \in Rendering,
         Answer(kind, value),
         page' \in [Target -> Page], attached' \in [Session -> Target \cup {None}],
         enabled' \subseteq Session
  PROVE  Inv'
<1>0. PICK c, m : c = Head(cmds) /\ m = Msg(kind, c.id, c.method, value)
  OBVIOUS
<1>1. /\ pending' = pending \cup {m} /\ cmds' = Tail(cmds)
      /\ UNCHANGED <<clientVars, m_MessageQueue, wire, browser, launches>>
  BY <1>0 DEF Answer
<1>2. /\ c \in Elements(cmds) /\ c \in Command
      /\ cmds' \in Seq(Command) /\ Elements(cmds') \subseteq Elements(cmds)
  BY <1>0, <1>1, ElementsOfTail DEF Inv, TypeOK
<1>3. CommandOK(c)
  BY <1>2 DEF Inv, TrafficInv
<1>4. m \in Message /\ m.kind = kind /\ m.id = c.id /\ m.method = c.method
      /\ m.value = value /\ m.browser = launches
  BY <1>0, <1>2 DEF Msg, Message, Command, Inv, TypeOK
<1>5. InFlight' = InFlight \cup {m}
  BY <1>1 DEF InFlight
<1>6. TypeOK'
  BY <1>1, <1>2, <1>4 DEF Inv, TypeOK, clientVars
<1>7. LinkInv'
  BY <1>1 DEF Inv, LinkInv, clientVars
<1>8. MessageOK(m)'
  BY <1>0, <1>1, <1>3, <1>4 DEF MessageOK, CommandOK, clientVars, Inv, TypeOK
<1>9. ASSUME NEW k \in InFlight PROVE MessageOK(k)'
  BY <1>1 DEF MessageOK, Inv, TrafficInv, clientVars
<1>10. ASSUME NEW d \in Elements(cmds) PROVE CommandOK(d)'
  BY <1>1 DEF CommandOK, Inv, TrafficInv, clientVars
<1>11. TrafficInv'
  BY <1>2, <1>5, <1>8, <1>9, <1>10 DEF TrafficInv, Elements
<1> QED
  BY <1>6, <1>7, <1>11 DEF Inv

\* A message goes into the pipe.
LEMMA BrowserSendsPreserves ==
  ASSUME Inv, browser = "running", NEW m \in Message, MessageOK(m), BrowserSends(m),
         pending' \subseteq pending, page' \in [Target -> Page]
  PROVE  Inv'
<1>1. /\ wire' = Append(wire, m)
      /\ UNCHANGED <<clientVars, m_MessageQueue, cmds, browser, launches, attached, enabled>>
  BY DEF BrowserSends
<1>2. wire' \in Seq(Message) /\ Elements(wire') = Elements(wire) \cup {m}
  BY <1>1, ElementsOfAppend DEF Inv, TypeOK
<1>3. InFlight' \subseteq InFlight \cup {m}
  BY <1>1, <1>2 DEF InFlight, Elements
<1>4. TypeOK'
  BY <1>1, <1>2 DEF Inv, TypeOK, clientVars
<1>5. LinkInv'
  BY <1>1 DEF Inv, LinkInv, clientVars
<1>6. ASSUME NEW k \in InFlight \cup {m} PROVE MessageOK(k)'
  BY <1>1 DEF MessageOK, Inv, TrafficInv, clientVars
<1>7. ASSUME NEW d \in Elements(cmds) PROVE CommandOK(d)'
  BY <1>1 DEF CommandOK, Inv, TrafficInv, clientVars
<1>8. TrafficInv'
  BY <1>1, <1>3, <1>6, <1>7 DEF TrafficInv, Elements
<1> QED
  BY <1>4, <1>5, <1>8 DEF Inv

-----------------------------------------------------------------------------
(* Every step preserves the invariant. *)

LEMMA LocalTypes ==
  /\ NoLocal \in LocalType
  /\ \A u \in Url : [NoLocal EXCEPT !.url = u] \in LocalType
  /\ \A p \in Path : [NoLocal EXCEPT !.path = p] \in LocalType
BY DEF NoLocal, LocalType

LEMMA WaitPlaces ==
  /\ Waits \subseteq Places \ {"idle", "killed", "blocked"}
  /\ "idle" \notin DOMAIN Awaited /\ "killed" \notin DOMAIN Awaited /\ "blocked" \notin DOMAIN Awaited
  /\ {"attach", "enable", "metrics", "navigate", "capture"} \cap DOMAIN Awaited = {}
  /\ "loadWait" \notin DOMAIN Awaited
BY DEF Waits, Places, Awaited

\* The waits that end without the message they are for.
LEMMA WaitPreserves ==
  ASSUME Inv, WaitDiscards \/ WaitFindsError \/ WaitThrows
  PROVE  Inv'
<1>1. Take /\ pc \in Places /\ pc # "idle" /\ pc # "killed" /\ pc # "blocked"
  BY WaitPlaces DEF WaitDiscards, WaitFindsError, WaitThrows, Waiting
<1>2. CASE WaitDiscards
  BY <1>1, <1>2, ReadPreserves DEF WaitDiscards, clientVars, Inv, TypeOK
<1>3. CASE WaitFindsError \/ WaitThrows
  <2>1. /\ pc' = "idle" /\ ret' \in {"true", "false", "threw"} /\ local' = NoLocal
        /\ UNCHANGED <<m_ID, m_TargetID, m_SessionID, m_Timeout, link, disk>>
    BY <1>3 DEF WaitFindsError, WaitThrows, Return
  <2>2. pc' \in Places /\ pc' \notin DOMAIN Awaited /\ local' \in LocalType
    BY <2>1, WaitPlaces, LocalTypes DEF Places
  <2> QED
    BY <1>1, <2>1, <2>2, ReadPreserves DEF Inv, TypeOK, LocalType
<1> QED
  BY <1>2, <1>3

LEMMA TimeoutPreserves ==
  ASSUME Inv, WaitTimesOut
  PROVE  Inv'
<1>1. /\ pc' = "idle" /\ ret' = "false" /\ local' = NoLocal
      /\ UNCHANGED <<m_ID, m_TargetID, m_SessionID, m_Timeout, link, disk, m_MessageQueue,
                     cmds, browserVars>>
  BY DEF WaitTimesOut, ReadTimesOut, Return
<1>2. wire' = wire \/ wire' = <<TailOfMessage>>
  BY DEF WaitTimesOut, ReadTimesOut
<1>3. pc' \in Places /\ pc' \notin DOMAIN Awaited /\ local' \in LocalType
  BY <1>1, WaitPlaces, LocalTypes DEF Places
<1>4. TailOfMessage \in Message
  BY DEF TailOfMessage, Message, Inv, TypeOK
<1>5. wire' \in Seq(Message) /\ Elements(wire') \subseteq Elements(wire) \cup {TailOfMessage}
  <2>1. CASE wire' = wire
    BY <2>1 DEF Inv, TypeOK
  <2>2. CASE wire' = <<TailOfMessage>>
    BY <2>2, <1>4 DEF Elements
  <2> QED
    BY <1>2, <2>1, <2>2
<1>6. TypeOK'
  BY <1>1, <1>3, <1>5 DEF Inv, TypeOK, LocalType, browserVars
<1>7. LinkInv'
  <2>1. link = "open"
    BY WaitPlaces DEF WaitTimesOut, Waiting, Inv, LinkInv
  <2> QED
    BY <1>1, <2>1 DEF LinkInv
<1>8. InFlight' \subseteq InFlight \cup {TailOfMessage}
  BY <1>1, <1>5 DEF InFlight, Elements, browserVars
<1>9. ASSUME NEW m \in InFlight' PROVE MessageOK(m)'
  <2>1. CASE m \in InFlight
    BY <2>1, <1>1, <1>3 DEF MessageOK, Inv, TrafficInv, browserVars
  <2>2. CASE m = TailOfMessage
    <3>1. m.kind = "tail" /\ m.id = 0 /\ m.browser = launches /\ launches \in Nat /\ m_ID \in Nat
      BY <2>2 DEF TailOfMessage, Inv, TypeOK
    <3> QED
      BY <3>1, <1>1, <1>3 DEF MessageOK, browserVars
  <2> QED
    BY <1>8, <2>1, <2>2
<1>10. ASSUME NEW c \in Elements(cmds) PROVE CommandOK(c)'
  BY <1>1, <1>3 DEF CommandOK, Inv, TrafficInv
<1>11. TrafficInv'
  BY <1>1, <1>9, <1>10 DEF TrafficInv, Elements
<1> QED
  BY <1>6, <1>7, <1>11 DEF Inv

\* The write() that blocks meets the end of the browser.
LEMMA BreakPreserves ==
  ASSUME Inv, BlockedWriteBreaks
  PROVE  Inv'
<1>1. /\ pc = "blocked" /\ browser # "none" /\ pc' = "killed"
      /\ UNCHANGED <<ret, local, m_ID, m_TargetID, m_SessionID, m_Timeout, link, disk,
                     m_MessageQueue, cmds, wire, browserVars>>
  BY DEF BlockedWriteBreaks
<1>2. TypeOK'
  BY <1>1 DEF Inv, TypeOK, Places, browserVars
<1>3. LinkInv'
  BY <1>1 DEF Inv, LinkInv, browserVars
<1>4. InFlight' = InFlight /\ pc' \notin DOMAIN Awaited
  BY <1>1, WaitPlaces DEF InFlight, browserVars
<1>5. TrafficInv'
  BY <1>1, <1>4, KeepsTraffic DEF browserVars
<1> QED
  BY <1>2, <1>3, <1>5 DEF Inv

LEMMA EndPreserves ==
  ASSUME Inv, WaitMeetsEnd
  PROVE  Inv'
<1>1. /\ pc' \in {"idle", "killed", "blocked"} /\ ret' \in {"true", "false", "threw"}
      /\ local' \in LocalType /\ browser' = "dead"
      /\ UNCHANGED <<m_ID, m_TargetID, m_SessionID, m_Timeout, link, disk, m_MessageQueue, cmds,
                     wire, launches, page, attached, enabled, pending>>
  BY LocalTypes DEF WaitMeetsEnd, Return, Inv, TypeOK, LocalType
<1>2. link = "open"
  BY WaitPlaces DEF WaitMeetsEnd, Waiting, Inv, LinkInv
<1>3. TypeOK'
  BY <1>1 DEF Inv, TypeOK, LocalType, Places
<1>4. LinkInv'
  BY <1>1, <1>2 DEF LinkInv
<1>5. InFlight' = InFlight /\ pc' \notin DOMAIN Awaited
  BY <1>1, WaitPlaces DEF InFlight
<1>6. TrafficInv'
  BY <1>1, <1>5, KeepsTraffic
<1> QED
  BY <1>3, <1>4, <1>6 DEF Inv

\* The message a wait is for, when it has arrived.
LEMMA AwaitProperties ==
  ASSUME Inv, NEW place \in Waits, Await(place)
  PROVE  /\ Take /\ pc = place /\ pc # "idle" /\ pc # "killed" /\ pc # "blocked"
         /\ place = "createWait" => NextMessage.value \in Target
         /\ place = "attachWait" => NextMessage.value \in Session
         /\ place \in {"captureWait", "printWait"} => NextMessage.value \in Rendering
<1>1. Take /\ pc = place /\ Wanted(NextMessage) /\ HasResult(NextMessage)
  BY DEF Await
<1>2. MessageOK(NextMessage)
  BY <1>1, TakeProperties DEF Inv, TrafficInv
<1>3. pc # "idle" /\ pc # "killed" /\ pc # "blocked"
  BY <1>1, WaitPlaces
<1>4. CASE place \in {"createWait", "attachWait"}
  <2>1. NextMessage.kind = "reply" /\ NextMessage.method = Awaited[place]
    BY <1>1, <1>4 DEF Wanted, HasResult
  <2> QED
    BY <1>1, <1>2, <1>3, <1>4, <2>1 DEF MessageOK, Awaited, DataMethods
<1>5. CASE place \in {"captureWait", "printWait"}
  <2>1. NextMessage.kind = "reply" /\ NextMessage.method \in DataMethods
    BY <1>1, <1>5 DEF Wanted, HasResult
  <2> QED
    BY <1>1, <1>2, <1>3, <1>5, <2>1 DEF MessageOK
<1> QED
  BY <1>1, <1>3, <1>4, <1>5

LEMMA NavegatePreserves ==
  ASSUME Inv,
         \/ NavegateGetsTarget \/ NavegateAttaches \/ NavegateGetsSession \/ NavegateEnables
         \/ NavegateSetsMetrics \/ NavegateGetsMetrics \/ NavegateLoads \/ NavegateSeesLoad
         \/ \E u \in Url : Navegate(u)
  PROVE  Inv'
<1> USE DEF LocalType
<1>0. /\ local \in LocalType /\ ret \in {"true", "false", "threw"}
      /\ {"createWait", "attachWait", "metricsWait", "loadWait"} \subseteq Waits
      /\ {"attach", "enable", "metrics", "navigate"} \subseteq Places \ {"idle", "killed", "blocked"}
  BY DEF Inv, TypeOK, Waits, Awaited, Places
<1>1. CASE \E u \in Url : Navegate(u)
  <2>1. PICK u \in Url : Navegate(u)
    BY <1>1
  <2> QED
    BY <2>1, <1>0, SendPreserves, LocalTypes, WaitPlaces DEF Navegate, Awaited, Methods
<1>2. CASE NavegateGetsTarget
  BY <1>2, <1>0, AwaitProperties, ReadPreserves, WaitPlaces DEF NavegateGetsTarget, Inv, TypeOK
<1>3. CASE NavegateAttaches
  BY <1>3, <1>0, SendPreserves, WaitPlaces DEF NavegateAttaches, Awaited, Methods
<1>4. CASE NavegateGetsSession
  BY <1>4, <1>0, AwaitProperties, ReadPreserves, WaitPlaces DEF NavegateGetsSession, Inv, TypeOK
<1>5. CASE NavegateEnables
  BY <1>5, <1>0, SendPreserves, WaitPlaces DEF NavegateEnables, Awaited, Methods
<1>6. CASE NavegateSetsMetrics
  BY <1>6, <1>0, SendPreserves, WaitPlaces DEF NavegateSetsMetrics, Awaited, Methods
<1>7. CASE NavegateGetsMetrics
  BY <1>7, <1>0, AwaitProperties, ReadPreserves, WaitPlaces DEF NavegateGetsMetrics, Inv, TypeOK
<1>8. CASE NavegateLoads
  BY <1>8, <1>0, SendPreserves, WaitPlaces DEF NavegateLoads, Awaited, Methods
<1>9. CASE NavegateSeesLoad
  <2>1. pc' = "idle" /\ ret' = "true" /\ local' = NoLocal
        /\ UNCHANGED <<m_ID, m_Timeout, link, disk>> /\ Await("loadWait")
        /\ m_TargetID' = local.targetId /\ m_SessionID' = local.sessionId
    BY <1>9 DEF NavegateSeesLoad, Return
  <2>2. pc' \in Places /\ local' \in LocalType
    BY <2>1, LocalTypes DEF Places
  <2> QED
    BY <2>1, <2>2, <1>0, AwaitProperties, ReadPreserves, WaitPlaces DEF Inv, TypeOK
<1> QED
  BY <1>1, <1>2, <1>3, <1>4, <1>5, <1>6, <1>7, <1>8, <1>9

LEMMA TabCallsPreserve ==
  ASSUME Inv,
         \/ CloseTab \/ CloseTabReturns
         \/ \E p \in Path : Screenshot(p) \/ PrintToPDF(p)
         \/ ScreenshotGetsLayout \/ ScreenshotCaptures \/ DataArrives
  PROVE  Inv'
<1> USE DEF LocalType
<1>0. /\ local \in LocalType /\ ret \in {"true", "false", "threw"}
      /\ {"closeWait", "layoutWait", "captureWait", "printWait"} \subseteq Waits
      /\ "capture" \in Places \ {"idle", "killed", "blocked"}
      /\ m_TargetID \in Target \cup {None} /\ m_SessionID \in Session \cup {None}
      /\ disk \in [Path -> Rendering \cup {None, Part}]
  BY DEF Inv, TypeOK, Waits, Awaited, Places
<1>1. CASE CloseTab
  BY <1>1, <1>0, SendPreserves, LocalTypes, WaitPlaces DEF CloseTab, Awaited, Methods
<1>2. CASE \E p \in Path : Screenshot(p)
  <2>1. PICK p \in Path : Screenshot(p)
    BY <1>2
  <2> QED
    <3> DEFINE loc == [NoLocal EXCEPT !.path = p]
    <3>1. Send("Page.getLayoutMetrics", m_SessionID, None, "layoutWait", loc)
      BY <2>1 DEF Screenshot
    <3>2. loc \in LocalType
      BY LocalTypes
    <3>3. Awaited["layoutWait"] = "Page.getLayoutMetrics" /\ "layoutWait" \in Places \ {"idle", "killed", "blocked"}
      BY <1>0, WaitPlaces DEF Awaited
    <3>4. "Page.getLayoutMetrics" \in Methods
      BY DEF Methods
    <3> HIDE DEF loc
    <3> QED
      BY <3>1, <3>2, <3>3, <3>4, <1>0, SendPreserves
<1>3. CASE \E p \in Path : PrintToPDF(p)
  <2>1. PICK p \in Path : PrintToPDF(p)
    BY <1>3
  <2> QED
    <3> DEFINE loc == [NoLocal EXCEPT !.path = p]
    <3>1. Send("Page.printToPDF", m_SessionID, None, "printWait", loc)
      BY <2>1 DEF PrintToPDF
    <3>2. loc \in LocalType
      BY LocalTypes
    <3>3. Awaited["printWait"] = "Page.printToPDF" /\ "printWait" \in Places \ {"idle", "killed", "blocked"}
      BY <1>0, WaitPlaces DEF Awaited
    <3>4. "Page.printToPDF" \in Methods
      BY DEF Methods, DataMethods
    <3> HIDE DEF loc
    <3> QED
      BY <3>1, <3>2, <3>3, <3>4, <1>0, SendPreserves
<1>4. CASE ScreenshotGetsLayout
  BY <1>4, <1>0, AwaitProperties, ReadPreserves, WaitPlaces DEF ScreenshotGetsLayout, Inv, TypeOK
<1>5. CASE ScreenshotCaptures
  BY <1>5, <1>0, SendPreserves, WaitPlaces DEF ScreenshotCaptures, Awaited, Methods, DataMethods
<1>6. CASE CloseTabReturns
  <2>1. pc' = "idle" /\ ret' = "true" /\ local' = NoLocal /\ Await("closeWait")
        /\ UNCHANGED <<m_ID, m_TargetID, m_SessionID, m_Timeout, link, disk>>
    BY <1>6 DEF CloseTabReturns, Return
  <2>2. pc' \in Places /\ local' \in LocalType
    BY <2>1, LocalTypes DEF Places
  <2> QED
    BY <2>1, <2>2, <1>0, AwaitProperties, ReadPreserves, WaitPlaces
<1>7. CASE DataArrives
  <2>1. pc' = "idle" /\ ret' = "true" /\ local' = NoLocal
        /\ UNCHANGED <<m_ID, m_TargetID, m_SessionID, m_Timeout, link>>
    BY <1>7 DEF DataArrives, Return
  <2>2. pc' \in Places /\ local' \in LocalType
    BY <2>1, LocalTypes DEF Places
  <2>3. PICK place \in {"captureWait", "printWait"} : Await(place)
    BY <1>7 DEF DataArrives
  <2>4. Take /\ pc # "idle" /\ pc # "killed" /\ pc # "blocked" /\ NextMessage.value \in Rendering
    BY <2>3, <1>0, AwaitProperties
  <2>5. \/ disk' = disk \/ disk' = [disk EXCEPT ![local.path] = NextMessage.value]
        \/ disk' = [disk EXCEPT ![local.path] = Part]
    BY <1>7 DEF DataArrives, SaveFile, SaveFails
  <2>6. disk' \in [Path -> Rendering \cup {None, Part}]
    BY <2>4, <2>5, <1>0
  <2> QED
    BY <2>1, <2>2, <2>4, <2>6, <1>0, ReadPreserves, WaitPlaces
<1> QED
  BY <1>1, <1>2, <1>3, <1>4, <1>5, <1>6, <1>7

\* Launch starts a browser with empty pipes; what is left of an earlier one can
\* only be in m_MessageQueue.
LEMMA LaunchPreserves ==
  ASSUME Inv, Launch
  PROVE  Inv'
<1>1. /\ link = "unset" /\ pc = "idle" /\ launches' = launches + 1 /\ launches \in Nat
      /\ UNCHANGED <<pc, local, m_ID, m_TargetID, m_SessionID, m_MessageQueue, m_Timeout, disk,
                     cmds, wire, page, attached, enabled, pending>>
  BY DEF Launch, Inv, TypeOK
<1>2. /\ ret' \in {"true", "false"}
      /\ \/ link' = "open" /\ browser' = "running"
         \/ UNCHANGED <<link, browser>>
  BY DEF Launch
<1>3. cmds = <<>> /\ wire = <<>> /\ pending = {} /\ browser = "none"
  BY <1>1 DEF Inv, LinkInv
<1>4. TypeOK'
  BY <1>1, <1>2 DEF Inv, TypeOK
<1>5. LinkInv'
  BY <1>1, <1>2, <1>3 DEF LinkInv
<1>6. InFlight' = InFlight /\ \A m \in InFlight : m \in Message
  BY <1>1, InFlightElements, ElementsInSet DEF InFlight, Inv, TypeOK
<1>7. ASSUME NEW m \in InFlight PROVE MessageOK(m)'
  <2>1. m.browser \in Nat /\ m.browser <= launches
    BY <1>6 DEF Message, MessageOK, Inv, TrafficInv
  <2> QED
    BY <1>1, <2>1 DEF MessageOK, Inv, TrafficInv
<1>8. Elements(cmds') = {}
  BY <1>1, <1>3 DEF Elements
<1>9. TrafficInv'
  BY <1>6, <1>7, <1>8 DEF TrafficInv, Elements
<1> QED
  BY <1>4, <1>5, <1>9 DEF Inv

LEMMA ExitPreserves ==
  ASSUME Inv, Exit
  PROVE  Inv'
<1> DEFINE closed == [t \in Target |-> IF page[t].state = "free" THEN page[t]
                                       ELSE [page[t] EXCEPT !.state = "closed"]]
<1>1. /\ pc = "idle" /\ m_ID' = 0 /\ m_TargetID' = None /\ m_SessionID' = None /\ link' = "unset"
      /\ cmds' = <<>> /\ wire' = <<>> /\ pending' = {} /\ browser' = "none"
      /\ page' \in {page, closed}
      /\ UNCHANGED <<pc, ret, local, m_Timeout, m_MessageQueue, disk, launches, attached,
                     enabled>>
  <2>1. CASE link = "open"
    BY <2>1 DEF Exit, ExitManager, BrowserGone
  <2>2. CASE link = "unset"
    BY <2>2 DEF Exit, ExitManager, browserVars, Inv, LinkInv
  <2> QED
    BY <2>1, <2>2 DEF Inv, TypeOK
<1>2. page' \in [Target -> Page]
  <2>1. page \in [Target -> Page]
    BY DEF Inv, TypeOK
  <2>2. closed \in [Target -> Page]
    BY <2>1 DEF Page
  <2> HIDE DEF closed
  <2> QED
    BY <1>1, <2>1, <2>2
<1> HIDE DEF closed
<1>3. cmds' \in Seq(Command) /\ wire' \in Seq(Message)
  BY <1>1, EmptySeq
<1>4. TypeOK'
  BY <1>1, <1>2, <1>3 DEF Inv, TypeOK
<1>5. LinkInv'
  BY <1>1 DEF LinkInv
<1>6. InFlight' \subseteq InFlight /\ Elements(cmds') = {}
  BY <1>1 DEF InFlight, Elements
<1>7. ASSUME NEW m \in InFlight PROVE MessageOK(m)'
  BY <1>1 DEF MessageOK, Inv, TrafficInv
<1>8. TrafficInv'
  BY <1>6, <1>7 DEF TrafficInv, Elements
<1> QED
  BY <1>4, <1>5, <1>8 DEF Inv

LEMMA SetTimeoutPreserves ==
  ASSUME Inv, NEW set \in BOOLEAN, SetTimeout(set)
  PROVE  Inv'
<1>1. /\ m_Timeout' = set
      /\ UNCHANGED <<pc, ret, local, m_ID, m_TargetID, m_SessionID, link, disk,
                     m_MessageQueue, cmds, wire, browserVars>>
  BY DEF SetTimeout
<1>2. TypeOK' /\ LinkInv'
  BY <1>1 DEF Inv, TypeOK, LinkInv, browserVars
<1>3. InFlight' = InFlight /\ Elements(cmds') = Elements(cmds)
  BY <1>1 DEF InFlight, browserVars
<1>4. TrafficInv'
  BY <1>1, <1>3, KeepsTraffic DEF browserVars
<1> QED
  BY <1>2, <1>4 DEF Inv

\* The browser executes a command.
LEMMA ExecutesPreserves ==
  ASSUME Inv, BrowserExecutes
  PROVE  Inv'
<1> DEFINE c == Head(cmds)
<1>0. cmds # <<>> /\ browser = "running" /\ c \in Command /\ CommandOK(c)
  <2>1. cmds # <<>> /\ browser = "running"
    BY DEF BrowserExecutes, BrowserCreatesTarget, BrowserAttaches, BrowserEnables, BrowserNavigates,
           BrowserMeasures, BrowserCaptures, BrowserClosesTarget, BrowserRejects, Executes
  <2>2. c \in Elements(cmds) /\ c \in Command
    BY <2>1, ElementsOfTail DEF Inv, TypeOK
  <2> QED
    BY <2>1, <2>2 DEF Inv, TrafficInv
<1>1. /\ page \in [Target -> Page] /\ attached \in [Session -> Target \cup {None}]
      /\ enabled \subseteq Session
  BY DEF Inv, TypeOK
<1>2. ASSUME NEW s, SessionExists(s)
      PROVE  s \in Session /\ attached[s] \in Target /\ Shown(s) \in Page
  BY <1>1, <1>2 DEF SessionExists, Exists, Shown
<1>3. CASE BrowserCreatesTarget
  <2>1. PICK t \in Target : /\ page' = [page EXCEPT ![t].state = "blank"]
                            /\ Answer("reply", t)
    BY <1>3 DEF BrowserCreatesTarget
  <2>2. page' \in [Target -> Page]
    BY <1>1, <2>1 DEF Page
  <2>3. c.method = "Target.createTarget" /\ UNCHANGED <<attached, enabled>>
    BY <1>3 DEF BrowserCreatesTarget, Executes
  <2> QED
    BY <1>0, <1>1, <2>1, <2>2, <2>3, AnswerPreserves DEF DataMethods
<1>4. CASE BrowserAttaches
  <2>1. PICK s \in Session : /\ attached' = [attached EXCEPT ![s] = c.arg]
                             /\ Answer("reply", s)
    BY <1>4 DEF BrowserAttaches
  <2>2. c.method = "Target.attachToTarget" /\ c.arg \in Target /\ UNCHANGED <<page, enabled>>
    BY <1>4 DEF BrowserAttaches, Executes, Exists
  <2>3. attached' \in [Session -> Target \cup {None}]
    BY <1>1, <2>1, <2>2
  <2> QED
    BY <1>0, <1>1, <2>1, <2>2, <2>3, AnswerPreserves DEF DataMethods
<1>5. CASE BrowserEnables
  <2>1. c.method = "Page.enable" /\ c.session \in Session /\ enabled' = enabled \cup {c.session}
        /\ Answer("reply", None) /\ UNCHANGED <<page, attached>>
    BY <1>2, <1>5 DEF BrowserEnables, Executes
  <2> QED
    BY <1>0, <1>1, <2>1, AnswerPreserves DEF DataMethods
<1>6. CASE BrowserNavigates
  <2>1. c.method = "Page.navigate" /\ SessionExists(c.session) /\ Answer("reply", None)
        /\ page' = [page EXCEPT ![attached[c.session]] = [url |-> c.arg, state |-> "loading"]]
        /\ UNCHANGED <<attached, enabled>>
    BY <1>6 DEF BrowserNavigates, Executes
  <2>2. [url |-> c.arg, state |-> "loading"] \in Page
    BY <1>0, <2>1 DEF CommandOK, Page
  <2>3. page' \in [Target -> Page]
    BY <1>1, <2>1, <2>2
  <2> QED
    BY <1>0, <1>1, <2>1, <2>3, AnswerPreserves DEF DataMethods
<1>7. CASE BrowserMeasures
  <2>1. c.method \in {"Emulation.setDeviceMetricsOverride", "Page.getLayoutMetrics"}
        /\ Answer("reply", None) /\ UNCHANGED <<page, attached, enabled>>
    BY <1>7 DEF BrowserMeasures, Executes
  <2> QED
    BY <1>0, <1>1, <2>1, AnswerPreserves DEF DataMethods
<1>8. CASE BrowserCaptures
  <2>1. PICK method \in DataMethods :
          /\ c.method = method /\ SessionExists(c.session)
          /\ Answer("reply", [page |-> Shown(c.session), method |-> method])
    BY <1>8 DEF BrowserCaptures, Executes
  <2>2. [page |-> Shown(c.session), method |-> method] \in Rendering
    BY <1>2, <2>1 DEF Rendering
  <2>3. UNCHANGED <<page, attached, enabled>>
    BY <1>8 DEF BrowserCaptures
  <2>4. c.method \notin {"Target.createTarget", "Target.attachToTarget"}
    BY <2>1 DEF DataMethods
  <2> QED
    BY <1>0, <1>1, <2>1, <2>2, <2>3, <2>4, AnswerPreserves
<1>9. CASE BrowserClosesTarget
  <2>1. c.method = "Target.closeTarget" /\ page' = [page EXCEPT ![c.arg].state = "closed"]
        /\ Answer("reply", None) /\ UNCHANGED <<attached, enabled>>
    BY <1>9 DEF BrowserClosesTarget, Executes
  <2>2. page' \in [Target -> Page]
    BY <1>1, <2>1 DEF Page
  <2> QED
    BY <1>0, <1>1, <2>1, <2>2, AnswerPreserves DEF DataMethods
<1>10. CASE BrowserRejects
  <2>1. Answer("error", None) /\ UNCHANGED <<page, attached, enabled>>
    BY <1>10 DEF BrowserRejects
  <2> QED
    BY <1>0, <1>1, <2>1, AnswerPreserves
<1> QED
  BY <1>3, <1>4, <1>5, <1>6, <1>7, <1>8, <1>9, <1>10 DEF BrowserExecutes

\* The browser sends something, or dies.
LEMMA BrowserPreserves ==
  ASSUME Inv, BrowserAnswers \/ BrowserFiresLoad \/ BrowserFiresOther \/ BrowserDies
  PROVE  Inv'
<1>0. /\ page \in [Target -> Page] /\ pending \subseteq Message
      /\ launches \in Nat /\ m_ID \in Nat /\ wire \in Seq(Message)
  BY DEF Inv, TypeOK
<1>1. CASE BrowserAnswers
  <2>1. PICK m \in pending : pending' = pending \ {m} /\ BrowserSends(m)
    BY <1>1 DEF BrowserAnswers
  <2>2. m \in Message /\ MessageOK(m)
    BY <1>0, InFlightElements DEF Inv, TrafficInv
  <2> QED
    BY <1>0, <1>1, <2>1, <2>2, BrowserSendsPreserves DEF BrowserAnswers
<1>2. CASE BrowserFiresLoad
  <2>1. PICK t \in Target :
          /\ page' = [page EXCEPT ![t].state = "loaded"]
          /\ \/ BrowserSends(Msg("event", 0, "Page.loadEventFired", t))
             \/ UNCHANGED <<clientVars, m_MessageQueue, cmds, wire, browser, launches, attached, enabled>>
    BY <1>2 DEF BrowserFiresLoad
  <2>2. page' \in [Target -> Page]
    BY <1>0, <2>1 DEF Page
  <2>3. PICK m : m = Msg("event", 0, "Page.loadEventFired", t)
    OBVIOUS
  <2>4. m \in Message /\ MessageOK(m)
    BY <1>0, <2>3 DEF Msg, Message, MessageOK, Events
  <2>5. browser = "running" /\ pending' = pending
    BY <1>2 DEF BrowserFiresLoad
  <2>6. CASE BrowserSends(m)
    BY <1>0, <2>2, <2>4, <2>5, <2>6, BrowserSendsPreserves
  <2>7. CASE UNCHANGED <<clientVars, m_MessageQueue, cmds, wire, browser, launches, attached, enabled>>
    <3>1. TypeOK' /\ LinkInv'
      BY <2>2, <2>5, <2>7 DEF Inv, TypeOK, LinkInv, clientVars
    <3>2. InFlight' = InFlight /\ Elements(cmds') = Elements(cmds)
      BY <2>5, <2>7 DEF InFlight
    <3>3. TrafficInv'
      BY <2>7, <3>2, KeepsTraffic DEF clientVars
    <3> QED
      BY <3>1, <3>3 DEF Inv
  <2> QED
    BY <2>1, <2>3, <2>6, <2>7
<1>3. CASE BrowserFiresOther
  <2>1. PICK m : m = Msg("event", 0, "other", None)
    OBVIOUS
  <2>2. m \in Message /\ MessageOK(m)
    BY <1>0, <2>1 DEF Msg, Message, MessageOK, Events
  <2>3. browser = "running" /\ BrowserSends(m) /\ UNCHANGED <<page, pending>>
    BY <1>3, <2>1 DEF BrowserFiresOther
  <2> QED
    BY <1>0, <2>2, <2>3, BrowserSendsPreserves
<1>4. CASE BrowserDies
  <2>1. /\ cmds' = <<>> /\ pending' = {} /\ browser' \in {"dead", "deadMidMessage"}
        /\ wire' = wire \/ (wire # <<>> /\ wire' = SubSeq(wire, 1, Len(wire) - 1))
        /\ UNCHANGED <<clientVars, m_MessageQueue, launches, page, attached, enabled>>
    BY <1>4 DEF BrowserDies
  <2>2. link = "open"
    BY <1>4 DEF BrowserDies, Inv, LinkInv, TypeOK
  <2>3. wire' \in Seq(Message) /\ Elements(wire') \subseteq Elements(wire)
    <3>1. CASE wire' = wire
      BY <1>0, <3>1
    <3>2. CASE wire # <<>> /\ wire' = SubSeq(wire, 1, Len(wire) - 1)
      <4>1. Len(wire) - 1 \in 0 .. Len(wire)
        BY <1>0, <3>2, LenProperties, EmptySeq
      <4> QED
        BY <1>0, <3>2, <4>1, ElementsOfSubSeq
    <3> QED
      BY <2>1, <3>1, <3>2
  <2>4. TypeOK'
    BY <2>1, <2>3, EmptySeq DEF Inv, TypeOK, clientVars
  <2>5. LinkInv'
    BY <2>1, <2>2 DEF Inv, LinkInv, clientVars
  <2>6. InFlight' \subseteq InFlight /\ Elements(cmds') = {}
    BY <2>1, <2>3 DEF InFlight, Elements
  <2>7. TrafficInv'
    BY <2>1, <2>6, KeepsTraffic DEF clientVars
  <2> QED
    BY <2>4, <2>5, <2>7 DEF Inv
<1> QED
  BY <1>1, <1>2, <1>3, <1>4

LEMMA NextInv == Inv /\ [Next]_vars => Inv'
<1> SUFFICES ASSUME Inv, [Next]_vars PROVE Inv'
  OBVIOUS
<1>1. CASE StartCall
  BY <1>1, LaunchPreserves, ExitPreserves, SetTimeoutPreserves, NavegatePreserves, TabCallsPreserve
     DEF StartCall
<1>2. CASE CallStep
  BY <1>2, WaitPreserves, TimeoutPreserves, EndPreserves, BreakPreserves, NavegatePreserves, TabCallsPreserve
     DEF CallStep
<1>3. CASE BrowserStep
  BY <1>3, ExecutesPreserves, BrowserPreserves DEF BrowserStep
<1>4. CASE UNCHANGED vars
  <2>1. TypeOK' /\ LinkInv'
    BY <1>4 DEF vars, clientVars, browserVars, Inv, TypeOK, LinkInv
  <2>2. InFlight' = InFlight /\ Elements(cmds') = Elements(cmds)
    BY <1>4 DEF vars, browserVars, InFlight
  <2>3. TrafficInv'
    BY <1>4, <2>2, KeepsTraffic DEF vars, clientVars, browserVars
  <2> QED
    BY <2>1, <2>3 DEF Inv
<1> QED
  BY <1>1, <1>2, <1>3, <1>4 DEF Next

(* The inductive invariant holds in every state of every order of calls. *)
THEOREM InvHolds == Spec => []Inv
BY InitInv, NextInv, PTL DEF Spec

-----------------------------------------------------------------------------
(* What follows from it. *)

(* Whatever the browser answers, drops or breaks off, what the client extracts
   from an answer is of the kind it stores: tabs, sessions and captures are never
   mixed up. *)
THEOREM TypeCorrect == Spec => []TypeOK
BY InvHolds, PTL DEF Inv

(* The answer _Wait(m_ID) would take is the answer to the command just written,
   however many unanswered commands of earlier calls are still on their way. *)
THEOREM AnswersMatch == Spec => []ReplyIsForCommand
<1>1. Inv => ReplyIsForCommand
  <2> SUFFICES ASSUME Inv, pc \in DOMAIN Awaited, NEW m \in InFlight,
                      m.kind = "reply" /\ m.id = m_ID /\ m.browser = launches
               PROVE  m.method = Awaited[pc]
    BY DEF ReplyIsForCommand
  <2>1. link = "open"
    BY WaitPlaces DEF Inv, LinkInv
  <2> QED
    BY <2>1 DEF Inv, TrafficInv, MessageOK
<1> QED
  BY <1>1, InvHolds, PTL

-----------------------------------------------------------------------------
(* The session and the tab that CDPManager remembers belong together: the inductive
   invariant. *)

\* Messages of the browser the manager is connected to.
Current(m) == link = "open" /\ m.browser = launches

CreateReply(m) == m.kind = "reply" /\ m.method = "Target.createTarget"
AttachReply(m) == m.kind = "reply" /\ m.method = "Target.attachToTarget"

Closed(t) == t \in Target /\ page[t].state = "closed"

\* A read of the pipe follows only when the queue is empty, so that what is in the queue
\* comes from one browser, and what is outside it from the one that runs.
OneBrowser ==
  /\ \A m, n \in Elements(m_MessageQueue) : m.browser = n.browser
  /\ \A m \in Elements(wire) \cup pending : m.browser = launches

\* A number is given to one command, and createTarget is answered once.
SameAnswer(m, n) == CreateReply(m) /\ CreateReply(n) /\ m.browser = n.browser /\ m.id = n.id
OnceIn(s) == \A i, j \in DOMAIN s : SameAnswer(s[i], s[j]) => i = j
Apart(S, T) == \A m \in S, n \in T : ~SameAnswer(m, n)
AnsweredOnce ==
  /\ \A i, j \in DOMAIN cmds : cmds[i].id = cmds[j].id => i = j
  /\ \A c \in Elements(cmds), m \in InFlight : CreateReply(m) /\ Current(m) => m.id # c.id
  /\ OnceIn(m_MessageQueue) /\ OnceIn(wire) /\ Apart(Elements(m_MessageQueue), Elements(wire))
  /\ Apart(Elements(m_MessageQueue) \cup Elements(wire), pending)
  /\ \A m, n \in pending : SameAnswer(m, n) => m = n

\* The tab of an answer to createTarget exists while its browser does, and no longer.
TabsOfAnswers ==
  \A m \in InFlight : CreateReply(m) =>
    /\ page[m.value].state # "free"
    /\ ~Current(m) => Closed(m.value)

\* The numbers of createTarget commands that the browser has not executed, or whose
\* answer the client has not taken yet.
OpenCreates ==
  {c.id : c \in {d \in Elements(cmds) : d.method = "Target.createTarget"}}
    \cup {m.id : m \in {n \in InFlight : CreateReply(n) /\ Current(n)}}

\* The attachToTarget that follows an unanswered createTarget took its tab from an
\* answer of an earlier browser.  It is refused, so that no browser leaves behind both
\* the answer to a createTarget and the one to the attachToTarget after it.
AttachFollows ==
  /\ \A c \in Elements(cmds) :
       c.method = "Target.attachToTarget" /\ c.id - 1 \in OpenCreates => Closed(c.arg)
  /\ \A m \in InFlight : AttachReply(m) /\ Current(m) => m.id - 1 \notin OpenCreates
  /\ \A m, n \in Elements(m_MessageQueue) :
       CreateReply(m) /\ AttachReply(n) /\ m.browser = n.browser => n.id # m.id + 1

\* What Navegate has in its locals on its way.
NavegateInv ==
  /\ pc \in {"attach", "attachWait", "enable", "metrics", "metricsWait", "navigate", "loadWait"}
       => local.targetId \in Target
  /\ pc = "attach" =>
       /\ m_ID \in OpenCreates => Closed(local.targetId)
       /\ \A m \in InFlight : AttachReply(m) /\ ~Current(m) => m.id # m_ID + 1
  /\ pc = "attachWait" =>
       /\ \A c \in Elements(cmds) : c.id = m_ID => c.arg = local.targetId
       /\ \A m \in InFlight : AttachReply(m) /\ m.id = m_ID =>
            Current(m) /\ attached[m.value] = local.targetId
  /\ pc \in {"enable", "metrics", "metricsWait", "navigate", "loadWait"} =>
       local.sessionId \in Session /\ attached[local.sessionId] = local.targetId

AnswersInv == OneBrowser /\ AnsweredOnce /\ TabsOfAnswers /\ AttachFollows

SessionInv == AnswersInv /\ NavegateInv /\ SessionOfTarget

\* Messages and commands are what TypeOK says, whichever sequence or set they are in.
LEMMA TrafficTypes ==
  ASSUME Inv
  PROVE  /\ \A m \in InFlight : m \in Message /\ MessageOK(m) /\ m.id \in Nat /\ m.browser \in Nat
         /\ \A c \in Elements(cmds) : c \in Command /\ CommandOK(c) /\ c.id \in Nat
         /\ m_ID \in Nat /\ launches \in Nat
<1>1. m_MessageQueue \in Seq(Message) /\ wire \in Seq(Message) /\ pending \subseteq Message
      /\ cmds \in Seq(Command) /\ m_ID \in Nat /\ launches \in Nat
  BY DEF Inv, TypeOK
<1>2. \A m \in InFlight : m \in Message
  BY <1>1, InFlightElements, ElementsInSet
<1>3. \A c \in Elements(cmds) : c \in Command
  BY <1>1, ElementsInSet
<1> QED
  BY <1>1, <1>2, <1>3 DEF Inv, TrafficInv, Message, Command

\* What is not of the current browser is in the queue.
LEMMA StaleInQueue ==
  ASSUME Inv, OneBrowser, NEW m \in InFlight, ~Current(m)
  PROVE  m \in Elements(m_MessageQueue)
<1>1. CASE link = "open"
  BY <1>1, InFlightElements DEF OneBrowser, Current
<1>2. CASE link # "open"
  <2>1. wire = <<>> /\ pending = {}
    BY <1>2 DEF Inv, TypeOK, LinkInv
  <2>2. Elements(wire) = {}
    BY <2>1 DEF Elements
  <2> QED
    BY <2>1, <2>2, InFlightElements
<1> QED
  BY <1>1, <1>2

\* The second of two messages with the same browser and number would have to be at the
\* same place.
LEMMA OnceInTail ==
  ASSUME NEW S, NEW s \in Seq(S), s # <<>>, OnceIn(s)
  PROVE  OnceIn(Tail(s)) /\ \A m \in Elements(Tail(s)) : ~SameAnswer(m, Head(s))
<1>1. /\ Len(s) \in Nat /\ DOMAIN s = 1 .. Len(s) /\ Len(s) # 0
      /\ Tail(s) \in Seq(S) /\ Len(Tail(s)) = Len(s) - 1
      /\ \A i \in 1 .. Len(Tail(s)) : Tail(s)[i] = s[i + 1]
  BY LenProperties, EmptySeq, HeadTailProperties
<1>2. DOMAIN Tail(s) = 1 .. Len(s) - 1 /\ Head(s) = s[1]
  BY <1>1, LenProperties
<1>3. \A i \in DOMAIN Tail(s) : i \in Nat /\ i # 0 /\ i + 1 \in DOMAIN s /\ 1 \in DOMAIN s
                                /\ Tail(s)[i] = s[i + 1]
  BY <1>1, <1>2
<1>4. ASSUME NEW i \in DOMAIN Tail(s), NEW j \in DOMAIN Tail(s), SameAnswer(Tail(s)[i], Tail(s)[j])
      PROVE  i = j
  <2>1. i + 1 = j + 1
    BY <1>3, <1>4 DEF OnceIn
  <2> QED
    BY <1>3, <2>1
<1>5. ASSUME NEW i \in DOMAIN Tail(s)  PROVE ~SameAnswer(Tail(s)[i], Head(s))
  <2>1. SameAnswer(s[i + 1], s[1]) => i + 1 = 1
    BY <1>3 DEF OnceIn
  <2> QED
    BY <1>2, <1>3, <2>1
<1> QED
  BY <1>4, <1>5 DEF OnceIn, Elements

\* The messages from the m-th to the n-th.
LEMMA Stretch ==
  ASSUME NEW S, NEW s \in Seq(S), NEW m \in Nat \ {0}, NEW n \in Nat, m <= n + 1, n <= Len(s)
  PROVE  LET part == SubSeq(s, m, n)
         IN  /\ DOMAIN part = 1 .. (n + 1 - m)
             /\ \A i \in DOMAIN part : m + i - 1 \in DOMAIN s /\ m + i - 1 <= n /\ part[i] = s[m + i - 1]
<1> DEFINE part == SubSeq(s, m, n)
<1>1. Len(s) \in Nat /\ DOMAIN s = 1 .. Len(s)
  BY LenProperties
<1>2. \A i \in m .. n : s[i] \in S
  BY <1>1, ElementOfSeq
<1>3. /\ part \in Seq(S) /\ Len(part) = IF m <= n THEN n - m + 1 ELSE 0
      /\ \A i \in 1 .. n - m + 1 : part[i] = s[m + i - 1]
  BY <1>2, SubSeqProperties
<1>4. DOMAIN part = 1 .. Len(part)
  BY <1>3, LenProperties
<1> HIDE DEF part
<1>5. Len(part) = n + 1 - m
  BY <1>3
<1> QED
  BY <1>1, <1>3, <1>4, <1>5, SMTT(30) DEF part

\* A read cuts the pipe's messages after the n-th.
LEMMA OnceInCut ==
  ASSUME NEW S, NEW s \in Seq(S), OnceIn(s), NEW n \in 1 .. Len(s)
  PROVE  LET first == SubSeq(s, 2, n)  second == SubSeq(s, n + 1, Len(s))
         IN  /\ OnceIn(first) /\ OnceIn(second) /\ Apart(Elements(first), Elements(second))
             /\ \A m \in Elements(first) \cup Elements(second) : ~SameAnswer(m, s[1])
<1> DEFINE first == SubSeq(s, 2, n)
           second == SubSeq(s, n + 1, Len(s))
<1>1. Len(s) \in Nat /\ DOMAIN s = 1 .. Len(s) /\ n \in Nat /\ n >= 1 /\ n <= Len(s)
  BY LenProperties
<1>2. /\ DOMAIN first = 1 .. n - 1
      /\ \A i \in DOMAIN first : i + 1 \in DOMAIN s /\ i + 1 <= n /\ first[i] = s[i + 1]
  <2>1. /\ DOMAIN first = 1 .. (n + 1 - 2)
        /\ \A i \in DOMAIN first : 2 + i - 1 \in DOMAIN s /\ 2 + i - 1 <= n /\ first[i] = s[2 + i - 1]
    BY <1>1, Stretch
  <2> HIDE DEF first
  <2>2. \A i \in DOMAIN first : 2 + i - 1 = i + 1
    BY <1>1, <2>1
  <2> QED
    BY <1>1, <2>1, <2>2
<1>3. /\ DOMAIN second = 1 .. Len(s) - n
      /\ \A i \in DOMAIN second : n + i \in DOMAIN s /\ second[i] = s[n + i]
  <2>1. \A l \in Nat : /\ n + 1 \in Nat \ {0} /\ (n <= l => n + 1 <= l + 1) /\ l <= l
                        /\ l + 1 - (n + 1) = l - n
    BY <1>1
  <2>2. n + 1 \in Nat \ {0} /\ n + 1 <= Len(s) + 1 /\ Len(s) <= Len(s)
        /\ Len(s) + 1 - (n + 1) = Len(s) - n
    BY <1>1, <2>1
  <2>3. /\ DOMAIN second = 1 .. (Len(s) + 1 - (n + 1))
        /\ \A i \in DOMAIN second : (n + 1) + i - 1 \in DOMAIN s /\ second[i] = s[(n + 1) + i - 1]
    <3>1. PICK k, l : k = n + 1 /\ l = Len(s)
      OBVIOUS
    <3>2. k \in Nat \ {0} /\ l \in Nat /\ k <= l + 1 /\ l <= Len(s)
      BY <1>1, <2>2, <3>1
    <3>3. /\ DOMAIN SubSeq(s, k, l) = 1 .. (l + 1 - k)
          /\ \A i \in DOMAIN SubSeq(s, k, l) :
               k + i - 1 \in DOMAIN s /\ k + i - 1 <= l /\ SubSeq(s, k, l)[i] = s[k + i - 1]
      BY <3>2, Stretch
    <3> QED
      BY <3>1, <3>3
  <2> HIDE DEF second
  <2>4. \A i \in DOMAIN second : (n + 1) + i - 1 = n + i
    BY <1>1, <2>3
  <2> QED
    BY <2>2, <2>3, <2>4
<1> HIDE DEF first, second
<1>5. \A i \in DOMAIN first : i \in Nat /\ i + 1 \in DOMAIN s /\ i + 1 # 1 /\ i + 1 <= n /\ first[i] = s[i + 1]
  BY <1>1, <1>2
<1>6. \A i \in DOMAIN second : i \in Nat /\ n + i \in DOMAIN s /\ n + i # 1 /\ n + i > n /\ second[i] = s[n + i]
  BY <1>1, <1>3
<1>7. 1 \in DOMAIN s
  BY <1>1
<1>8. ASSUME NEW i \in DOMAIN first, NEW j \in DOMAIN first, SameAnswer(first[i], first[j])
      PROVE  i = j
  <2>1. i + 1 = j + 1
    BY <1>5, <1>8 DEF OnceIn
  <2> QED
    BY <1>5, <2>1
<1>9. ASSUME NEW i \in DOMAIN second, NEW j \in DOMAIN second, SameAnswer(second[i], second[j])
      PROVE  i = j
  <2>1. n + i = n + j
    BY <1>6, <1>9 DEF OnceIn
  <2> QED
    BY <1>1, <1>6, <2>1
<1>10. ASSUME NEW i \in DOMAIN first, NEW j \in DOMAIN second, SameAnswer(first[i], second[j])
       PROVE  FALSE
  <2>1. i + 1 = n + j
    BY <1>5, <1>6, <1>10 DEF OnceIn
  <2> QED
    BY <1>1, <1>5, <1>6, <2>1
<1>11. \A m \in Elements(first) \cup Elements(second) : ~SameAnswer(m, s[1])
  BY <1>5, <1>6, <1>7 DEF OnceIn, Elements
<1>12. Apart(Elements(first), Elements(second))
  BY <1>10 DEF Apart, Elements
<1> QED
  BY <1>8, <1>9, <1>11, <1>12 DEF OnceIn, first, second

\* A message goes to the end of the pipe.
LEMMA OnceInAppend ==
  ASSUME NEW S, NEW s \in Seq(S), NEW e \in S, OnceIn(s), \A m \in Elements(s) : ~SameAnswer(m, e)
  PROVE  OnceIn(Append(s, e))
<1>1. /\ Append(s, e) \in Seq(S) /\ Len(Append(s, e)) = Len(s) + 1
      /\ \A i \in 1 .. Len(s) : Append(s, e)[i] = s[i]
      /\ Append(s, e)[Len(s) + 1] = e
  BY AppendProperties
<1>2. DOMAIN s = 1 .. Len(s) /\ DOMAIN Append(s, e) = 1 .. Len(s) + 1 /\ Len(s) \in Nat
  BY <1>1, LenProperties
<1>3. \A i \in DOMAIN s : ~SameAnswer(s[i], e) /\ ~SameAnswer(e, s[i])
  BY DEF Elements, SameAnswer
<1>4. \A i \in DOMAIN Append(s, e) : (i \in DOMAIN s /\ Append(s, e)[i] = s[i])
                                      \/ (i = Len(s) + 1 /\ Append(s, e)[i] = e)
  BY <1>1, <1>2
<1> QED
  BY <1>3, <1>4 DEF OnceIn

\* Prefixes: what is left of a pipe whose last message was cut off.
LEMMA OnceInPrefix ==
  ASSUME NEW S, NEW s \in Seq(S), s # <<>>, OnceIn(s)
  PROVE  OnceIn(SubSeq(s, 1, Len(s) - 1))
<1>1. PICK l : l = Len(s) - 1
  OBVIOUS
<1>2. Len(s) \in Nat /\ l \in Nat /\ l <= Len(s) /\ 1 <= l + 1 /\ DOMAIN s = 1 .. Len(s)
  BY <1>1, LenProperties, EmptySeq
<1>3. /\ DOMAIN SubSeq(s, 1, l) = 1 .. (l + 1 - 1)
      /\ \A i \in DOMAIN SubSeq(s, 1, l) : 1 + i - 1 \in DOMAIN s /\ SubSeq(s, 1, l)[i] = s[1 + i - 1]
  BY <1>2, Stretch
<1>4. \A i \in DOMAIN SubSeq(s, 1, l) : 1 + i - 1 = i
  BY <1>2, <1>3
<1> QED
  BY <1>1, <1>3, <1>4 DEF OnceIn

\* The numbers of the commands differ.
LEMMA NumbersOfTail ==
  ASSUME NEW s \in Seq(Command), s # <<>>, \A i, j \in DOMAIN s : s[i].id = s[j].id => i = j
  PROVE  /\ \A i, j \in DOMAIN Tail(s) : Tail(s)[i].id = Tail(s)[j].id => i = j
         /\ \A c \in Elements(Tail(s)) : c.id # Head(s).id
<1>1. /\ Len(s) \in Nat /\ DOMAIN s = 1 .. Len(s) /\ Len(s) # 0
      /\ Tail(s) \in Seq(Command) /\ Len(Tail(s)) = Len(s) - 1
      /\ \A i \in 1 .. Len(Tail(s)) : Tail(s)[i] = s[i + 1]
  BY LenProperties, EmptySeq, HeadTailProperties
<1>2. DOMAIN Tail(s) = 1 .. Len(s) - 1 /\ Head(s) = s[1]
  BY <1>1, LenProperties
<1>3. \A i \in DOMAIN Tail(s) : i \in Nat /\ i # 0 /\ i + 1 \in DOMAIN s /\ 1 \in DOMAIN s
                                /\ Tail(s)[i] = s[i + 1]
  BY <1>1, <1>2
<1>4. ASSUME NEW i \in DOMAIN Tail(s), NEW j \in DOMAIN Tail(s), Tail(s)[i].id = Tail(s)[j].id
      PROVE  i = j
  <2>1. i + 1 = j + 1
    BY <1>3, <1>4
  <2> QED
    BY <1>3, <2>1
<1>5. ASSUME NEW i \in DOMAIN Tail(s)  PROVE Tail(s)[i].id # Head(s).id
  <2>1. s[i + 1].id = s[1].id => i + 1 = 1
    BY <1>3
  <2> QED
    BY <1>2, <1>3, <2>1
<1> QED
  BY <1>4, <1>5 DEF Elements

LEMMA NumbersOfAppend ==
  ASSUME NEW s \in Seq(Command), NEW e \in Command, \A i, j \in DOMAIN s : s[i].id = s[j].id => i = j,
         \A c \in Elements(s) : c.id # e.id
  PROVE  \A i, j \in DOMAIN Append(s, e) : Append(s, e)[i].id = Append(s, e)[j].id => i = j
<1>1. /\ Append(s, e) \in Seq(Command) /\ Len(Append(s, e)) = Len(s) + 1
      /\ \A i \in 1 .. Len(s) : Append(s, e)[i] = s[i]
      /\ Append(s, e)[Len(s) + 1] = e
  BY AppendProperties
<1>2. DOMAIN s = 1 .. Len(s) /\ DOMAIN Append(s, e) = 1 .. Len(s) + 1 /\ Len(s) \in Nat
  BY <1>1, LenProperties
<1>3. \A i \in DOMAIN s : s[i].id # e.id
  BY DEF Elements
<1>4. \A i \in DOMAIN Append(s, e) : (i \in DOMAIN s /\ Append(s, e)[i] = s[i])
                                      \/ (i = Len(s) + 1 /\ Append(s, e)[i] = e)
  BY <1>1, <1>2
<1> QED
  BY <1>3, <1>4

LEMMA InOpenCreates ==
  /\ \A id : id \in OpenCreates <=>
       \/ \E c \in Elements(cmds) : c.method = "Target.createTarget" /\ c.id = id
       \/ \E m \in InFlight : CreateReply(m) /\ Current(m) /\ m.id = id
  /\ \A id : id \in OpenCreates' <=>
       \/ \E c \in Elements(cmds') : c.method = "Target.createTarget" /\ c.id = id
       \/ \E m \in InFlight' : CreateReply(m) /\ Current(m)' /\ m.id = id
BY DEF OpenCreates, Elements

-----------------------------------------------------------------------------
(* The answers on their way, step by step. *)

\* A tab that was created stays created, one that was closed stays closed.
PagesGoOn ==
  \A t \in Target : /\ page[t].state # "free" => page'[t].state # "free"
                    /\ page[t].state = "closed" => page'[t].state = "closed"

LEMMA TabsKeep ==
  ASSUME Inv, TabsOfAnswers, PagesGoOn, link' = link, launches' = launches,
         \A m \in InFlight' : m \in InFlight \/ ~CreateReply(m)
  PROVE  TabsOfAnswers'
<1>1. SUFFICES ASSUME NEW m \in InFlight', CreateReply(m)
               PROVE  page'[m.value].state # "free" /\ (~Current(m)' => Closed(m.value)')
  BY DEF TabsOfAnswers
<1>2. m \in InFlight /\ page[m.value].state # "free" /\ (~Current(m) => Closed(m.value))
  BY <1>1 DEF TabsOfAnswers
<1>3. m.value \in Target
  BY <1>1, <1>2 DEF Inv, TrafficInv, MessageOK, CreateReply
<1> QED
  BY <1>2, <1>3 DEF PagesGoOn, Current, Closed

\* The client takes a message.
LEMMA TakeKeeps ==
  ASSUME Inv, AnswersInv, Take, link' = link
  PROVE  AnswersInv' /\ OpenCreates' \subseteq OpenCreates
<1>1. /\ m_MessageQueue \in Seq(Message) /\ wire \in Seq(Message) /\ InFlight' \subseteq InFlight
      /\ UNCHANGED <<cmds, launches, page, attached, pending>>
  BY TakeProperties DEF Inv, TypeOK
<1>2. \A m : Current(m)' <=> Current(m)
  BY <1>1 DEF Current
<1>3. OpenCreates' \subseteq OpenCreates
  BY <1>1, <1>2, InOpenCreates
<1>4. TabsOfAnswers'
  BY <1>1, TabsKeep DEF PagesGoOn, AnswersInv
<1>5. /\ OneBrowser'
      /\ OnceIn(m_MessageQueue)' /\ OnceIn(wire)' /\ Apart(Elements(m_MessageQueue), Elements(wire))'
      /\ Apart(Elements(m_MessageQueue) \cup Elements(wire), pending)'
      /\ \A m, n \in Elements(m_MessageQueue') :
           CreateReply(m) /\ AttachReply(n) /\ m.browser = n.browser => n.id # m.id + 1
  <2>1. CASE m_MessageQueue # <<>>
    <3>1. m_MessageQueue' = Tail(m_MessageQueue) /\ wire' = wire
      BY <2>1 DEF Take
    <3>2. OnceIn(m_MessageQueue') /\ Elements(m_MessageQueue') \subseteq Elements(m_MessageQueue)
      BY <1>1, <2>1, <3>1, OnceInTail, ElementsOfTail DEF AnswersInv, AnsweredOnce
    <3>3. Elements(wire') = Elements(wire) /\ pending' = pending /\ launches' = launches
      BY <1>1, <3>1
    <3> QED
      BY <3>1, <3>2, <3>3 DEF AnswersInv, AnsweredOnce, AttachFollows, OneBrowser, Apart, OnceIn, Elements
  <2>2. CASE m_MessageQueue = <<>>
    <3>1. wire # <<>> /\ link = "open"
      BY <2>2 DEF Take, Readable, Inv, TypeOK, LinkInv
    <3>2. PICK n \in 1 .. Len(wire) :
            /\ m_MessageQueue' = SubSeq(wire, 2, n) /\ wire' = SubSeq(wire, n + 1, Len(wire))
      BY <2>2, Zenon DEF Take
    <3>3. Len(wire) \in Nat /\ n \in 0 .. Len(wire) /\ n + 1 \in Nat \ {0} /\ Len(wire) \in 0 .. Len(wire)
      BY <1>1, <3>2, LenProperties
    <3>4. Elements(m_MessageQueue') \subseteq Elements(wire)
      BY <1>1, <3>2, <3>3, ElementsOfSubSeq
    <3>5. Elements(wire') \subseteq Elements(wire)
      BY <1>1, <3>2, <3>3, ElementsOfSubSeq
    <3>6. OnceIn(wire)
      BY DEF AnswersInv, AnsweredOnce
    <3>7. OnceIn(m_MessageQueue') /\ OnceIn(wire') /\ Apart(Elements(m_MessageQueue'), Elements(wire'))
      BY <1>1, <3>2, <3>6, OnceInCut
    <3>8. pending' = pending /\ launches' = launches
      BY <1>1
    <3>9. OneBrowser'
      BY <3>4, <3>5, <3>8 DEF AnswersInv, OneBrowser, Elements
    <3>10. Apart(Elements(m_MessageQueue) \cup Elements(wire), pending)'
      BY <3>4, <3>5, <3>8 DEF AnswersInv, AnsweredOnce, Apart, Elements
    <3>11. ASSUME NEW m \in Elements(m_MessageQueue'), NEW k \in Elements(m_MessageQueue'),
                  CreateReply(m), AttachReply(k), k.id = m.id + 1
           PROVE  FALSE
      <4>1. m \in InFlight /\ k \in InFlight /\ Current(m) /\ Current(k)
        BY <3>1, <3>4, InFlightElements DEF AnswersInv, OneBrowser, Current
      <4>2. m.id \in Nat /\ k.id - 1 = m.id
        BY <3>11, <4>1, TrafficTypes
      <4>3. m.id \in OpenCreates
        BY <3>11, <4>1, InOpenCreates
      <4> QED
        BY <3>11, <4>1, <4>2, <4>3 DEF AnswersInv, AttachFollows
    <3> QED
      BY <3>7, <3>9, <3>10, <3>11 DEF OnceIn, Apart, Elements
  <2> QED
    BY <2>1, <2>2
<1>6. AnsweredOnce'
  <2>1. cmds' = cmds /\ pending' = pending
    BY <1>1
  <2> QED
    BY <1>1, <1>2, <1>5, <2>1 DEF AnswersInv, AnsweredOnce, Elements
<1>7. AttachFollows'
  <2>1. ASSUME NEW c \in Elements(cmds'), c.method = "Target.attachToTarget" /\ c.id - 1 \in OpenCreates'
        PROVE  Closed(c.arg)'
    <3>1. c \in Elements(cmds) /\ c.id - 1 \in OpenCreates
      BY <1>1, <1>3, <2>1
    <3> QED
      BY <1>1, <2>1, <3>1 DEF AnswersInv, AttachFollows, Closed
  <2>2. ASSUME NEW m \in InFlight', AttachReply(m), Current(m)'  PROVE m.id - 1 \notin OpenCreates'
    BY <1>1, <1>2, <1>3, <2>2 DEF AnswersInv, AttachFollows
  <2> QED
    BY <1>5, <2>1, <2>2 DEF AttachFollows, Elements
<1> QED
  BY <1>3, <1>4, <1>5, <1>6, <1>7 DEF AnswersInv

\* The answer taken was the only one of its command, and what is left in the queue is of
\* the same browser.
LEMMA TakenReply ==
  ASSUME Inv, AnswersInv, Take, link' = link
  PROVE  /\ CreateReply(NextMessage) /\ Current(NextMessage) => NextMessage.id \notin OpenCreates'
         /\ Current(NextMessage) => \A m \in InFlight' : Current(m)'
         /\ CreateReply(NextMessage) /\ ~Current(NextMessage) =>
              \A m \in InFlight' : AttachReply(m) /\ ~Current(m)' => m.id # NextMessage.id + 1
<1> DEFINE first == NextMessage
<1>1. /\ m_MessageQueue \in Seq(Message) /\ wire \in Seq(Message) /\ InFlight' \subseteq InFlight
      /\ UNCHANGED <<cmds, launches, pending>> /\ first \in InFlight
  BY TakeProperties DEF Inv, TypeOK
<1>2. \A m : Current(m)' <=> Current(m)
  BY <1>1 DEF Current
<1>3. InFlight' = Elements(m_MessageQueue') \cup Elements(wire') \cup pending
  BY <1>1 DEF InFlight, Elements
<1>4. \A m \in InFlight' : ~SameAnswer(m, first)
  <2>1. CASE m_MessageQueue # <<>>
    <3>1. m_MessageQueue' = Tail(m_MessageQueue) /\ wire' = wire /\ first = Head(m_MessageQueue)
      BY <2>1 DEF Take, NextMessage
    <3>2. first \in Elements(m_MessageQueue) /\ \A m \in Elements(m_MessageQueue') : ~SameAnswer(m, first)
      BY <1>1, <2>1, <3>1, OnceInTail, ElementsOfTail DEF AnswersInv, AnsweredOnce
    <3>3. \A m \in Elements(wire) \cup pending : ~SameAnswer(first, m)
      BY <3>2 DEF AnswersInv, AnsweredOnce, Apart
    <3>4. Elements(wire') = Elements(wire)
      BY <3>1
    <3> QED
      BY <1>3, <3>2, <3>3, <3>4 DEF SameAnswer
  <2>2. CASE m_MessageQueue = <<>>
    <3>1. wire # <<>> /\ first = Head(wire)
      BY <2>2 DEF Take, Readable, NextMessage
    <3>2. PICK n \in 1 .. Len(wire) :
            /\ m_MessageQueue' = SubSeq(wire, 2, n) /\ wire' = SubSeq(wire, n + 1, Len(wire))
      BY <2>2, Zenon DEF Take
    <3>3. OnceIn(wire)
      BY DEF AnswersInv, AnsweredOnce
    <3>4. \A m \in Elements(m_MessageQueue') \cup Elements(wire') : ~SameAnswer(m, wire[1])
      BY <1>1, <3>2, <3>3, OnceInCut
    <3>5. first = wire[1] /\ first \in Elements(wire)
      BY <1>1, <3>1, ElementsOfTail
    <3>6. \A m \in pending : ~SameAnswer(first, m)
      BY <3>5 DEF AnswersInv, AnsweredOnce, Apart
    <3> QED
      BY <1>3, <3>4, <3>5, <3>6 DEF SameAnswer
  <2> QED
    BY <2>1, <2>2
<1>5. ASSUME CreateReply(first), Current(first), first.id \in OpenCreates'  PROVE FALSE
  <2>1. \A c \in Elements(cmds') : c.id # first.id
    BY <1>1, <1>5 DEF AnswersInv, AnsweredOnce
  <2>2. PICK m \in InFlight' : CreateReply(m) /\ Current(m)' /\ m.id = first.id
    BY <1>5, <2>1, InOpenCreates
  <2>3. SameAnswer(m, first)
    BY <1>2, <1>5, <2>2 DEF SameAnswer, Current
  <2> QED
    BY <1>4, <2>3
<1>6. ASSUME Current(first), NEW m \in InFlight', ~Current(m)'  PROVE FALSE
  <2>1. m \in InFlight /\ ~Current(m)
    BY <1>1, <1>2, <1>6
  <2>2. m \in Elements(m_MessageQueue)
    BY <2>1, StaleInQueue DEF AnswersInv
  <2>3. m_MessageQueue # <<>>
    BY <2>2 DEF Elements
  <2>4. first \in Elements(m_MessageQueue)
    BY <1>1, <2>3, ElementsOfTail DEF NextMessage
  <2> QED
    BY <1>6, <2>1, <2>2, <2>4 DEF AnswersInv, OneBrowser, Current
<1>7. ASSUME CreateReply(first), ~Current(first), NEW m \in InFlight', AttachReply(m), ~Current(m)'
      PROVE  m.id # first.id + 1
  <2>1. m \in InFlight /\ ~Current(m)
    BY <1>1, <1>2, <1>7
  <2>2. m \in Elements(m_MessageQueue) /\ first \in Elements(m_MessageQueue)
    BY <1>1, <1>7, <2>1, StaleInQueue DEF AnswersInv
  <2> QED
    BY <1>7, <2>2 DEF AnswersInv, OneBrowser, AttachFollows
<1> QED
  BY <1>5, <1>6, <1>7

\* A command is written.
LEMMA SendKeeps ==
  ASSUME Inv, AnswersInv, NEW c \in Command, c.id = m_ID + 1, cmds' = Append(cmds, c),
         UNCHANGED <<m_MessageQueue, wire, pending, link, launches, page>>,
         c.method = "Target.attachToTarget" /\ m_ID \in OpenCreates => Closed(c.arg)
  PROVE  AnswersInv'
<1>1. /\ InFlight' = InFlight /\ cmds \in Seq(Command) /\ m_ID \in Nat
      /\ \A m : (Current(m)' <=> Current(m)) /\ (Closed(m)' <=> Closed(m))
  BY DEF InFlight, Current, Closed, Inv, TypeOK
<1>2. /\ \A d \in Elements(cmds) : d.id \in Nat /\ d.id <= m_ID
      /\ \A m \in InFlight : m.id \in Nat /\ (Current(m) => m.id <= m_ID)
  BY TrafficTypes DEF Inv, TrafficInv, MessageOK, CommandOK, Current
<1>3. Elements(cmds') = Elements(cmds) \cup {c}
  BY <1>1, ElementsOfAppend
<1>4. \A id : id \in OpenCreates' => id \in OpenCreates \/ id = m_ID + 1
  BY <1>1, <1>3, InOpenCreates
<1>5. OneBrowser' /\ TabsOfAnswers'
  BY <1>1 DEF AnswersInv, OneBrowser, TabsOfAnswers, Elements
<1>6. AnsweredOnce'
  <2>1. \A d \in Elements(cmds) : d.id # c.id
    BY <1>1, <1>2
  <2>2. \A i, j \in DOMAIN cmds' : cmds'[i].id = cmds'[j].id => i = j
    BY <1>1, <2>1, NumbersOfAppend DEF AnswersInv, AnsweredOnce
  <2>3. ASSUME NEW d \in Elements(cmds'), NEW m \in InFlight', CreateReply(m), Current(m)'
        PROVE  m.id # d.id
    BY <1>1, <1>2, <1>3, <2>3 DEF AnswersInv, AnsweredOnce
  <2>4. Elements(cmds)' = Elements(cmds') /\ Elements(wire)' = Elements(wire)
        /\ Elements(m_MessageQueue)' = Elements(m_MessageQueue)
    BY DEF Elements
  <2> QED
    BY <2>2, <2>3, <2>4 DEF AnswersInv, AnsweredOnce
<1>7. AttachFollows'
  <2>1. ASSUME NEW d \in Elements(cmds'), d.method = "Target.attachToTarget", d.id - 1 \in OpenCreates'
        PROVE  Closed(d.arg)
    <3>1. CASE d = c
      <4>1. d.id - 1 = m_ID /\ d.id - 1 # m_ID + 1
        BY <1>1, <3>1
      <4> QED
        BY <1>4, <2>1, <3>1, <4>1
    <3>2. CASE d \in Elements(cmds)
      <4>1. d.id - 1 # m_ID + 1
        BY <1>1, <1>2, <3>2
      <4> QED
        BY <1>4, <2>1, <3>2, <4>1 DEF AnswersInv, AttachFollows
    <3> QED
      BY <1>3, <3>1, <3>2
  <2>2. ASSUME NEW m \in InFlight', AttachReply(m), Current(m)'  PROVE m.id - 1 \notin OpenCreates'
    <3>1. m.id - 1 # m_ID + 1
      BY <1>1, <1>2, <2>2
    <3> QED
      BY <1>1, <1>4, <2>2, <3>1 DEF AnswersInv, AttachFollows
  <2>3. Elements(cmds)' = Elements(cmds') /\ Elements(m_MessageQueue)' = Elements(m_MessageQueue)
    BY DEF Elements
  <2> QED
    BY <1>1, <2>1, <2>2, <2>3 DEF AnswersInv, AttachFollows
<1> QED
  BY <1>5, <1>6, <1>7 DEF AnswersInv

\* The browser executes the first command and prepares its answer.
LEMMA AnswerKeeps ==
  ASSUME Inv, AnswersInv, browser = "running", cmds # <<>>, NEW kind, NEW value, Answer(kind, value), PagesGoOn,
         kind = "reply" /\ Head(cmds).method = "Target.createTarget" =>
           value \in Target /\ page'[value].state # "free",
         kind = "reply" /\ Head(cmds).method = "Target.attachToTarget" => ~Closed(Head(cmds).arg)
  PROVE  /\ AnswersInv' /\ OpenCreates' \subseteq OpenCreates
         /\ Elements(cmds') \subseteq Elements(cmds)
         /\ InFlight' = InFlight \cup {Msg(kind, Head(cmds).id, Head(cmds).method, value)}
<1>0. PICK c, r : c = Head(cmds) /\ r = Msg(kind, c.id, c.method, value)
  OBVIOUS
<1>1. /\ pending' = pending \cup {r} /\ cmds' = Tail(cmds) /\ link' = link /\ link = "open"
      /\ UNCHANGED <<m_MessageQueue, wire, launches>>
  BY <1>0 DEF Answer, clientVars, Inv, TypeOK, LinkInv
<1>2. r.kind = kind /\ r.id = c.id /\ r.method = c.method /\ r.value = value /\ r.browser = launches
  BY <1>0 DEF Msg
<1>3. /\ cmds \in Seq(Command) /\ c \in Elements(cmds) /\ Elements(cmds') \subseteq Elements(cmds)
      /\ \A i, j \in DOMAIN cmds' : cmds'[i].id = cmds'[j].id => i = j
      /\ \A d \in Elements(cmds') : d.id # c.id
  BY <1>0, <1>1, ElementsOfTail, NumbersOfTail DEF Inv, TypeOK, AnswersInv, AnsweredOnce
<1>4. InFlight' = InFlight \cup {r} /\ \A m : (Current(m)' <=> Current(m))
  BY <1>1 DEF InFlight, Current
<1>5. Current(r)
  BY <1>1, <1>2 DEF Current
<1>6. OpenCreates' \subseteq OpenCreates
  BY <1>2, <1>3, <1>4, InOpenCreates DEF CreateReply
<1>7. \A m \in InFlight : ~SameAnswer(m, r)
  BY <1>1, <1>2, <1>3, <1>5 DEF AnswersInv, AnsweredOnce, SameAnswer, CreateReply, Current
<1>8. OneBrowser'
  BY <1>1, <1>2 DEF AnswersInv, OneBrowser, Elements
<1>9. AnsweredOnce'
  <2>1. ASSUME NEW d \in Elements(cmds'), NEW m \in InFlight', CreateReply(m), Current(m)'
        PROVE  m.id # d.id
    BY <1>2, <1>3, <1>4, <2>1 DEF AnswersInv, AnsweredOnce
  <2>2. Elements(m_MessageQueue') = Elements(m_MessageQueue) /\ Elements(wire') = Elements(wire)
    BY <1>1
  <2>3. \A m \in Elements(m_MessageQueue) \cup Elements(wire) \cup pending : ~SameAnswer(m, r)
    BY <1>7, InFlightElements
  <2>4. Apart(Elements(m_MessageQueue') \cup Elements(wire'), pending')
    BY <1>1, <2>2, <2>3 DEF AnswersInv, AnsweredOnce, Apart
  <2>5. \A m, n \in pending' : SameAnswer(m, n) => m = n
    <3>1. \A m \in pending : ~SameAnswer(r, m)
      BY <2>3 DEF SameAnswer
    <3> QED
      BY <1>1, <2>3, <3>1 DEF AnswersInv, AnsweredOnce
  <2>6. OnceIn(m_MessageQueue') /\ OnceIn(wire') /\ Apart(Elements(m_MessageQueue'), Elements(wire'))
    BY <1>1, <2>2 DEF AnswersInv, AnsweredOnce
  <2> QED
    BY <1>3, <2>1, <2>4, <2>5, <2>6 DEF AnsweredOnce, Elements, OnceIn, Apart
<1>10. TabsOfAnswers'
  <2>1. ASSUME NEW m \in InFlight', CreateReply(m)
        PROVE  page'[m.value].state # "free" /\ (~Current(m) => Closed(m.value)')
    <3>1. CASE m = r
      BY <1>0, <1>2, <1>5, <2>1, <3>1 DEF CreateReply
    <3>2. CASE m \in InFlight
      <4>1. m.value \in Target
        BY <2>1, <3>2 DEF Inv, TrafficInv, MessageOK, CreateReply
      <4> QED
        BY <2>1, <3>2, <4>1 DEF AnswersInv, TabsOfAnswers, PagesGoOn, Closed
    <3> QED
      BY <1>4, <3>1, <3>2
  <2> QED
    BY <1>4, <2>1 DEF TabsOfAnswers
<1>11. AttachFollows'
  <2>1. ASSUME NEW d \in Elements(cmds'), d.method = "Target.attachToTarget", d.id - 1 \in OpenCreates'
        PROVE  Closed(d.arg)'
    BY <1>3, <1>6, <2>1 DEF AnswersInv, AttachFollows, Closed, PagesGoOn
  <2>2. ASSUME NEW m \in InFlight', AttachReply(m), Current(m)'  PROVE m.id - 1 \notin OpenCreates'
    <3>1. CASE m \in InFlight
      BY <1>4, <1>6, <2>2, <3>1 DEF AnswersInv, AttachFollows
    <3>2. CASE m = r
      <4>1. c.method = "Target.attachToTarget" /\ ~Closed(c.arg)
        BY <1>0, <1>2, <2>2, <3>2 DEF AttachReply
      <4> QED
        BY <1>2, <1>3, <1>6, <3>2, <4>1 DEF AnswersInv, AttachFollows
    <3> QED
      BY <1>4, <3>1, <3>2
  <2>3. Elements(m_MessageQueue') = Elements(m_MessageQueue)
    BY <1>1
  <2> QED
    BY <2>1, <2>2, <2>3 DEF AnswersInv, AttachFollows, Elements
<1> QED
  BY <1>0, <1>3, <1>4, <1>6, <1>8, <1>9, <1>10, <1>11 DEF AnswersInv

\* The browser sends a prepared answer or an event.
LEMMA BrowserSendsKeeps ==
  ASSUME Inv, AnswersInv, browser = "running", NEW m \in Message, BrowserSends(m), m.browser = launches,
         \/ m \in pending /\ pending' = pending \ {m}
         \/ m.kind = "event" /\ pending' = pending,
         PagesGoOn
  PROVE  /\ AnswersInv' /\ OpenCreates' \subseteq OpenCreates
         /\ \A k \in InFlight' : k \in InFlight \/ k.kind = "event"
<1>1. /\ wire' = Append(wire, m) /\ link' = link /\ wire \in Seq(Message)
      /\ UNCHANGED <<m_MessageQueue, cmds, launches>>
  BY DEF BrowserSends, clientVars, Inv, TypeOK
<1>2. Elements(wire') = Elements(wire) \cup {m}
  BY <1>1, ElementsOfAppend
<1>3. /\ \A k \in InFlight' : k \in InFlight \/ (k = m /\ k.kind = "event")
      /\ \A k : (Current(k)' <=> Current(k))
  BY <1>1, <1>2 DEF InFlight, Current, Elements
<1>4. OpenCreates' \subseteq OpenCreates
  BY <1>1, <1>3, InOpenCreates DEF CreateReply
<1>5. \A k \in Elements(m_MessageQueue) \cup Elements(wire) \cup pending' : ~SameAnswer(k, m)
  <2>1. CASE m \in pending /\ pending' = pending \ {m}
    BY <2>1 DEF AnswersInv, AnsweredOnce, Apart
  <2>2. CASE m.kind = "event"
    BY <2>2 DEF SameAnswer, CreateReply
  <2> QED
    BY <2>1, <2>2
<1>6. OneBrowser'
  BY <1>1, <1>2 DEF AnswersInv, OneBrowser, Elements
<1>7. AnsweredOnce'
  <2>1. OnceIn(wire')
    BY <1>1, <1>5, OnceInAppend DEF AnswersInv, AnsweredOnce
  <2>2. Elements(m_MessageQueue') = Elements(m_MessageQueue)
    BY <1>1
  <2>3. Apart(Elements(m_MessageQueue'), Elements(wire'))
    BY <1>2, <1>5, <2>2 DEF AnswersInv, AnsweredOnce, Apart
  <2>4. \A k \in pending' : ~SameAnswer(m, k)
    BY <1>5 DEF SameAnswer
  <2>5. Apart(Elements(m_MessageQueue') \cup Elements(wire'), pending')
    BY <1>2, <2>2, <2>4 DEF AnswersInv, AnsweredOnce, Apart
  <2>6. \A k, n \in pending' : SameAnswer(k, n) => k = n
    BY DEF AnswersInv, AnsweredOnce
  <2>7. ASSUME NEW c \in Elements(cmds), NEW k \in InFlight', CreateReply(k), Current(k)'
        PROVE  k.id # c.id
    BY <1>3, <2>7 DEF AnswersInv, AnsweredOnce, CreateReply
  <2>8. cmds' = cmds /\ m_MessageQueue' = m_MessageQueue
    BY <1>1
  <2> QED
    BY <2>1, <2>3, <2>5, <2>6, <2>7, <2>8 DEF AnswersInv, AnsweredOnce, Elements, OnceIn, Apart
<1>8. TabsOfAnswers'
  BY <1>1, <1>3, TabsKeep DEF AnswersInv, CreateReply
<1>9. AttachFollows'
  <2>1. ASSUME NEW d \in Elements(cmds'), d.method = "Target.attachToTarget", d.id - 1 \in OpenCreates'
        PROVE  Closed(d.arg)'
    BY <1>1, <1>4, <2>1 DEF AnswersInv, AttachFollows, Closed, PagesGoOn
  <2>2. ASSUME NEW k \in InFlight', AttachReply(k), Current(k)'  PROVE k.id - 1 \notin OpenCreates'
    BY <1>3, <1>4, <2>2 DEF AnswersInv, AttachFollows, AttachReply
  <2>3. Elements(m_MessageQueue') = Elements(m_MessageQueue)
    BY <1>1
  <2> QED
    BY <2>1, <2>2, <2>3 DEF AnswersInv, AttachFollows, Elements
<1> QED
  BY <1>3, <1>4, <1>6, <1>7, <1>8, <1>9 DEF AnswersInv

\* Messages in the pipe, prepared answers and commands are lost.
LEMMA LossKeeps ==
  ASSUME Inv, AnswersInv, UNCHANGED <<m_MessageQueue, link, launches, page>>,
         pending' \subseteq pending, cmds' = cmds \/ cmds' = <<>>, OnceIn(wire'),
         \A m \in Elements(wire') : m \in Elements(wire) \/ (m.kind = "tail" /\ m.browser = launches)
  PROVE  /\ AnswersInv' /\ OpenCreates' \subseteq OpenCreates
         /\ Elements(cmds') \subseteq Elements(cmds)
         /\ \A m \in InFlight' : m \in InFlight \/ m.kind = "tail"
<1>1. /\ \A m \in InFlight' : m \in InFlight \/ m.kind = "tail"
      /\ \A m : (Current(m)' <=> Current(m)) /\ (Closed(m)' <=> Closed(m))
  BY DEF InFlight, Current, Closed, Elements
<1>2. Elements(cmds') \subseteq Elements(cmds) /\ Elements(m_MessageQueue') = Elements(m_MessageQueue)
  BY DEF Elements
<1>3. OpenCreates' \subseteq OpenCreates
  BY <1>1, <1>2, InOpenCreates DEF CreateReply
<1>4. OneBrowser'
  BY <1>2 DEF AnswersInv, OneBrowser, Elements
<1>5. TabsOfAnswers'
  BY <1>1, TabsKeep DEF AnswersInv, CreateReply, PagesGoOn
<1>6. AnsweredOnce'
  <2>1. \A i, j \in DOMAIN cmds' : cmds'[i].id = cmds'[j].id => i = j
    BY DEF AnswersInv, AnsweredOnce
  <2>2. \A m \in Elements(wire') : \A n : SameAnswer(m, n) \/ SameAnswer(n, m) => m \in Elements(wire)
    BY DEF SameAnswer, CreateReply
  <2>3. Apart(Elements(m_MessageQueue'), Elements(wire'))
    BY <1>2, <2>2 DEF AnswersInv, AnsweredOnce, Apart
  <2>4. Apart(Elements(m_MessageQueue') \cup Elements(wire'), pending')
    BY <1>2, <2>2 DEF AnswersInv, AnsweredOnce, Apart
  <2>5. ASSUME NEW c \in Elements(cmds'), NEW m \in InFlight', CreateReply(m), Current(m)'
        PROVE  m.id # c.id
    BY <1>1, <1>2, <2>5 DEF AnswersInv, AnsweredOnce, CreateReply
  <2> QED
    BY <2>1, <2>3, <2>4, <2>5 DEF AnswersInv, AnsweredOnce, Elements, OnceIn, Apart
<1>7. AttachFollows'
  <2>1. ASSUME NEW d \in Elements(cmds'), d.method = "Target.attachToTarget", d.id - 1 \in OpenCreates'
        PROVE  Closed(d.arg)'
    BY <1>1, <1>2, <1>3, <2>1 DEF AnswersInv, AttachFollows
  <2>2. ASSUME NEW m \in InFlight', AttachReply(m), Current(m)'  PROVE m.id - 1 \notin OpenCreates'
    BY <1>1, <1>3, <2>2 DEF AnswersInv, AttachFollows, AttachReply
  <2> QED
    BY <1>2, <2>1, <2>2 DEF AnswersInv, AttachFollows, Elements
<1> QED
  BY <1>1, <1>2, <1>3, <1>4, <1>5, <1>6, <1>7 DEF AnswersInv

LEMMA TimeoutKeeps ==
  ASSUME Inv, AnswersInv, ReadTimesOut, UNCHANGED link
  PROVE  AnswersInv'
<1>1. UNCHANGED <<m_MessageQueue, link, launches, page, pending, cmds>>
  BY DEF ReadTimesOut, browserVars
<1>2. CASE wire' = wire
  BY <1>1, <1>2, LossKeeps DEF AnswersInv, AnsweredOnce
<1>3. CASE wire' = <<TailOfMessage>>
  <2>1. Elements(wire') = {TailOfMessage} /\ OnceIn(wire')
    BY <1>3 DEF Elements, OnceIn
  <2>2. TailOfMessage.kind = "tail" /\ TailOfMessage.browser = launches
    BY DEF TailOfMessage
  <2> QED
    BY <1>1, <2>1, <2>2, LossKeeps
<1> QED
  BY <1>2, <1>3 DEF ReadTimesOut

LEMMA BrowserDiesKeeps ==
  ASSUME Inv, AnswersInv, BrowserDies
  PROVE  /\ AnswersInv' /\ OpenCreates' \subseteq OpenCreates
         /\ Elements(cmds') \subseteq Elements(cmds)
         /\ \A m \in InFlight' : m \in InFlight \/ m.kind = "tail"
<1>1. /\ cmds' = <<>> /\ pending' = {} /\ UNCHANGED <<m_MessageQueue, link, launches, page>>
      /\ wire' = wire \/ (wire # <<>> /\ wire' = SubSeq(wire, 1, Len(wire) - 1))
      /\ wire \in Seq(Message)
  BY DEF BrowserDies, clientVars, Inv, TypeOK
<1>2. OnceIn(wire)
  BY DEF AnswersInv, AnsweredOnce
<1>3. CASE wire' = wire
  BY <1>1, <1>2, <1>3, LossKeeps
<1>4. CASE wire # <<>> /\ wire' = SubSeq(wire, 1, Len(wire) - 1)
  <2>1. OnceIn(wire')
    BY <1>1, <1>2, <1>4, OnceInPrefix
  <2>2. Len(wire) - 1 \in 0 .. Len(wire)
    BY <1>1, <1>4, LenProperties, EmptySeq
  <2>3. Elements(wire') \subseteq Elements(wire)
    BY <1>1, <1>4, <2>2, ElementsOfSubSeq
  <2> QED
    BY <1>1, <2>1, <2>3, LossKeeps
<1> QED
  BY <1>1, <1>3, <1>4

\* Nothing an earlier browser left behind counts for the new one.
LEMMA LaunchKeeps ==
  ASSUME Inv, AnswersInv, Launch
  PROVE  AnswersInv'
<1>1. /\ link = "unset" /\ launches' = launches + 1 /\ launches \in Nat
      /\ UNCHANGED <<m_MessageQueue, cmds, wire, page, pending>>
      /\ cmds = <<>> /\ wire = <<>> /\ pending = {}
  BY DEF Launch, Inv, TypeOK, LinkInv
<1>2. /\ Elements(cmds') = {} /\ Elements(wire') = {} /\ pending' = {}
      /\ InFlight' = InFlight /\ Elements(m_MessageQueue') = Elements(m_MessageQueue)
  BY <1>1 DEF Elements, InFlight
<1>3. \A m \in InFlight : ~Current(m) /\ ~Current(m)'
  <2>1. \A m \in InFlight : m.browser \in Nat /\ m.browser <= launches
    BY TrafficTypes DEF MessageOK
  <2> QED
    BY <1>1, <2>1 DEF Current
<1>4. OneBrowser'
  BY <1>2 DEF AnswersInv, OneBrowser, Elements
<1>5. AnsweredOnce'
  BY <1>1, <1>2, <1>3 DEF AnswersInv, AnsweredOnce, Elements, OnceIn, Apart
<1>6. TabsOfAnswers'
  BY <1>1, <1>2, <1>3 DEF AnswersInv, TabsOfAnswers, Closed
<1>7. AttachFollows'
  BY <1>1, <1>2, <1>3 DEF AnswersInv, AttachFollows, Elements
<1> QED
  BY <1>4, <1>5, <1>6, <1>7 DEF AnswersInv

LEMMA ExitKeeps ==
  ASSUME Inv, AnswersInv, ExitManager, m_MessageQueue' = m_MessageQueue
  PROVE  AnswersInv' /\ PagesGoOn /\ attached' = attached
<1>1. CASE link = "open"
  <2>1. /\ cmds' = <<>> /\ wire' = <<>> /\ pending' = {} /\ link' = "unset" /\ page \in [Target -> Page]
        /\ page' = [t \in Target |-> IF page[t].state = "free" THEN page[t]
                                     ELSE [page[t] EXCEPT !.state = "closed"]]
        /\ UNCHANGED <<launches, attached>>
    BY <1>1 DEF ExitManager, BrowserGone, Inv, TypeOK
  <2>2. \A t \in Target : (page[t].state = "free" <=> page'[t].state = "free")
                          /\ (page[t].state # "free" => page'[t].state = "closed")
    BY <2>1 DEF Page
  <2>3. /\ Elements(cmds') = {} /\ Elements(wire') = {} /\ Elements(m_MessageQueue') = Elements(m_MessageQueue)
        /\ InFlight' = Elements(m_MessageQueue) /\ \A m : ~Current(m)'
    BY <2>1 DEF Elements, InFlight, Current
  <2>4. PagesGoOn
    BY <2>2 DEF PagesGoOn
  <2>5. OneBrowser'
    BY <2>1, <2>3 DEF AnswersInv, OneBrowser, Elements
  <2>6. AnsweredOnce'
    BY <2>1, <2>3 DEF AnswersInv, AnsweredOnce, Elements, OnceIn, Apart
  <2>7. TabsOfAnswers'
    <3>1. ASSUME NEW m \in InFlight', CreateReply(m)
          PROVE  page'[m.value].state # "free" /\ Closed(m.value)'
      <4>1. m \in InFlight
        BY <2>3, <3>1, InFlightElements
      <4>2. m.value \in Target /\ page[m.value].state # "free"
        BY <3>1, <4>1 DEF Inv, TrafficInv, MessageOK, CreateReply, AnswersInv, TabsOfAnswers
      <4> QED
        BY <2>2, <4>2 DEF Closed
    <3> QED
      BY <3>1 DEF TabsOfAnswers
  <2>8. AttachFollows'
    BY <2>3 DEF AnswersInv, AttachFollows, Elements
  <2> QED
    BY <2>1, <2>4, <2>5, <2>6, <2>7, <2>8 DEF AnswersInv
<1>2. CASE link = "unset"
  <2>1. UNCHANGED <<cmds, wire, pending, link, page, launches, attached>>
    BY <1>2 DEF ExitManager, browserVars
  <2>2. OnceIn(wire') /\ Elements(wire') = Elements(wire)
    BY <2>1 DEF AnswersInv, AnsweredOnce
  <2> QED
    BY <2>1, <2>2, LossKeeps DEF PagesGoOn
<1> QED
  BY <1>1, <1>2 DEF Inv, TypeOK

-----------------------------------------------------------------------------
(* What Navegate remembers, step by step. *)

\* A session stays attached to its tab.
AttachedGoOn == \A s \in Session : attached[s] # None => attached'[s] = attached[s]

\* Where Navegate has a session.
WithSession == {"enable", "metrics", "metricsWait", "navigate", "loadWait"}

LEMMA MembersKeep ==
  ASSUME Inv, SessionOfTarget, AttachedGoOn, UNCHANGED <<m_TargetID, m_SessionID>>
  PROVE  SessionOfTarget'
<1>1. m_SessionID # None => m_SessionID \in Session /\ attached[m_SessionID] # None
  BY DEF Inv, TypeOK, SessionOfTarget
<1> QED
  BY <1>1 DEF SessionOfTarget, AttachedGoOn

\* Outside Navegate, and before it has a tab, there is nothing to remember.
LEMMA NothingRemembered ==
  ASSUME pc' \notin WithSession \cup {"attach", "attachWait"}
  PROVE  NavegateInv'
BY DEF NavegateInv, WithSession

\* The client stays where it is while the browser goes on.
LEMMA LocalsKeep ==
  ASSUME Inv, NavegateInv, UNCHANGED <<pc, local, m_ID, link, launches>>, PagesGoOn, AttachedGoOn,
         OpenCreates' \subseteq OpenCreates, Elements(cmds') \subseteq Elements(cmds),
         \A m \in InFlight' : AttachReply(m) =>
           \/ m \in InFlight
           \/ Current(m) /\ (pc = "attachWait" /\ m.id = m_ID => attached'[m.value] = local.targetId)
  PROVE  NavegateInv'
<1>1. \A m : (Current(m)' <=> Current(m)) /\ (Closed(m) => Closed(m)')
  BY DEF Current, Closed, PagesGoOn
<1>2. ASSUME NEW m \in InFlight, AttachReply(m), attached[m.value] = local.targetId, local.targetId \in Target
      PROVE  attached'[m.value] = local.targetId
  <2>1. m.value \in Session /\ local.targetId # None
    BY <1>2, NoneAssumption DEF Inv, TrafficInv, MessageOK, AttachReply
  <2> QED
    BY <1>2, <2>1 DEF AttachedGoOn
<1>3. pc = "attach" => /\ m_ID \in OpenCreates' => Closed(local.targetId)'
                       /\ \A m \in InFlight' : AttachReply(m) /\ ~Current(m)' => m.id # m_ID + 1
  BY <1>1 DEF NavegateInv
<1>4. pc = "attachWait" =>
        /\ \A c \in Elements(cmds') : c.id = m_ID => c.arg = local.targetId
        /\ \A m \in InFlight' : AttachReply(m) /\ m.id = m_ID =>
             Current(m)' /\ attached'[m.value] = local.targetId
  <2> SUFFICES ASSUME pc = "attachWait"
               PROVE  /\ \A c \in Elements(cmds') : c.id = m_ID => c.arg = local.targetId
                      /\ \A m \in InFlight' : AttachReply(m) /\ m.id = m_ID =>
                           Current(m)' /\ attached'[m.value] = local.targetId
    OBVIOUS
  <2>1. local.targetId \in Target
    BY DEF NavegateInv
  <2> QED
    BY <1>1, <1>2, <2>1 DEF NavegateInv
<1>5. pc \in WithSession => local.sessionId \in Session /\ attached'[local.sessionId] = local.targetId
  <2> SUFFICES ASSUME pc \in WithSession
               PROVE  local.sessionId \in Session /\ attached'[local.sessionId] = local.targetId
    OBVIOUS
  <2>1. local.targetId \in Target /\ local.targetId # None /\ local.sessionId \in Session
        /\ attached[local.sessionId] = local.targetId
    BY NoneAssumption DEF NavegateInv, WithSession
  <2> QED
    BY <2>1 DEF AttachedGoOn
<1>6. pc \in WithSession \cup {"attach", "attachWait"} => local.targetId \in Target
  BY DEF NavegateInv, WithSession
<1> QED
  BY <1>3, <1>4, <1>5, <1>6 DEF NavegateInv, WithSession, Elements

\* The steps that read a message.
LEMMA ReadsKeep ==
  ASSUME Inv, SessionInv,
         \/ WaitDiscards \/ WaitFindsError \/ WaitThrows
         \/ NavegateGetsTarget \/ NavegateGetsSession \/ NavegateGetsMetrics \/ NavegateSeesLoad
         \/ CloseTabReturns \/ ScreenshotGetsLayout \/ DataArrives
  PROVE  SessionInv'
<1>1. Take /\ link' = link
  BY DEF WaitDiscards, WaitFindsError, WaitThrows, NavegateGetsTarget, NavegateGetsSession,
         NavegateGetsMetrics, NavegateSeesLoad, CloseTabReturns, ScreenshotGetsLayout, DataArrives,
         Await, clientVars
<1>2. AnswersInv /\ NavegateInv /\ SessionOfTarget
  BY DEF SessionInv
<1>3. AnswersInv' /\ OpenCreates' \subseteq OpenCreates
  BY <1>1, <1>2, TakeKeeps
<1>4. /\ NextMessage \in InFlight /\ InFlight' \subseteq InFlight
      /\ UNCHANGED <<cmds, launches, page, attached>>
  BY <1>1, TakeProperties
<1>5. PagesGoOn /\ AttachedGoOn /\ Elements(cmds') = Elements(cmds)
      /\ \A m : (Current(m)' <=> Current(m)) /\ (Closed(m)' <=> Closed(m))
  BY <1>1, <1>4 DEF PagesGoOn, AttachedGoOn, Current, Closed
<1>6. CASE WaitDiscards
  <2>1. UNCHANGED <<pc, local, m_ID, m_TargetID, m_SessionID>>
    BY <1>6 DEF WaitDiscards, clientVars
  <2>2. NavegateInv'
    BY <1>1, <1>2, <1>3, <1>4, <1>5, <2>1, LocalsKeep
  <2> QED
    BY <1>2, <1>3, <1>5, <2>1, <2>2, MembersKeep DEF SessionInv
<1>7. CASE WaitFindsError \/ WaitThrows \/ CloseTabReturns \/ ScreenshotGetsLayout \/ DataArrives
  <2>1. pc' \in {"idle", "capture"} /\ UNCHANGED <<m_TargetID, m_SessionID>>
    BY <1>7 DEF WaitFindsError, WaitThrows, CloseTabReturns, ScreenshotGetsLayout, DataArrives, Return
  <2>2. NavegateInv'
    BY <2>1, NothingRemembered DEF WithSession
  <2> QED
    BY <1>2, <1>3, <1>5, <2>1, <2>2, MembersKeep DEF SessionInv
<1>8. CASE NavegateGetsTarget
  <2>1. /\ Await("createWait") /\ pc' = "attach" /\ local' = [local EXCEPT !.targetId = NextMessage.value]
        /\ UNCHANGED <<m_ID, m_TargetID, m_SessionID>>
    BY <1>8 DEF NavegateGetsTarget
  <2>2. CreateReply(NextMessage) /\ NextMessage.id = m_ID
    BY <2>1 DEF Await, Wanted, HasResult, Awaited, CreateReply
  <2>3. NextMessage.value \in Target
    BY <1>4, <2>2 DEF Inv, TrafficInv, MessageOK, CreateReply
  <2>4. local'.targetId = NextMessage.value
    BY <2>1 DEF Inv, TypeOK
  <2>5. m_ID \in OpenCreates' => Closed(NextMessage.value)
    <3>1. Current(NextMessage) => m_ID \notin OpenCreates'
      BY <1>1, <1>2, <2>2, TakenReply
    <3>2. ~Current(NextMessage) => Closed(NextMessage.value)
      BY <1>2, <1>4, <2>2 DEF AnswersInv, TabsOfAnswers
    <3> QED
      BY <3>1, <3>2
  <2>6. \A m \in InFlight' : AttachReply(m) /\ ~Current(m)' => m.id # m_ID + 1
    BY <1>1, <1>2, <2>2, TakenReply
  <2>7. NavegateInv'
    BY <1>5, <2>1, <2>3, <2>4, <2>5, <2>6 DEF NavegateInv
  <2> QED
    BY <1>2, <1>3, <1>5, <2>1, <2>7, MembersKeep DEF SessionInv
<1>9. CASE NavegateGetsSession
  <2>1. /\ Await("attachWait") /\ pc' = "enable" /\ local' = [local EXCEPT !.sessionId = NextMessage.value]
        /\ UNCHANGED <<m_ID, m_TargetID, m_SessionID>> /\ pc = "attachWait"
    BY <1>9 DEF NavegateGetsSession, Await
  <2>2. AttachReply(NextMessage) /\ NextMessage.id = m_ID
    BY <2>1 DEF Await, Wanted, HasResult, Awaited, AttachReply
  <2>3. NextMessage.value \in Session
    BY <1>4, <2>2 DEF Inv, TrafficInv, MessageOK, AttachReply
  <2>4. local'.sessionId = NextMessage.value /\ local'.targetId = local.targetId
    BY <2>1 DEF Inv, TypeOK
  <2>5. attached[NextMessage.value] = local.targetId /\ local.targetId \in Target
    BY <1>2, <1>4, <2>1, <2>2 DEF NavegateInv
  <2>6. NavegateInv'
    BY <1>4, <2>1, <2>3, <2>4, <2>5 DEF NavegateInv
  <2> QED
    BY <1>2, <1>3, <1>5, <2>1, <2>6, MembersKeep DEF SessionInv
<1>10. CASE NavegateGetsMetrics
  <2>1. pc = "metricsWait" /\ pc' = "navigate" /\ UNCHANGED <<local, m_ID, m_TargetID, m_SessionID>>
    BY <1>10 DEF NavegateGetsMetrics, Await
  <2>2. NavegateInv'
    BY <1>2, <1>4, <2>1 DEF NavegateInv
  <2> QED
    BY <1>2, <1>3, <1>5, <2>1, <2>2, MembersKeep DEF SessionInv
<1>11. CASE NavegateSeesLoad
  <2>1. pc = "loadWait" /\ pc' = "idle" /\ m_TargetID' = local.targetId /\ m_SessionID' = local.sessionId
    BY <1>11 DEF NavegateSeesLoad, Await, Return
  <2>2. local.targetId \in Target /\ local.sessionId \in Session /\ attached[local.sessionId] = local.targetId
    BY <1>2, <2>1 DEF NavegateInv
  <2>3. SessionOfTarget'
    BY <1>4, <2>1, <2>2, NoneAssumption DEF SessionOfTarget
  <2>4. NavegateInv'
    BY <2>1, NothingRemembered DEF WithSession
  <2> QED
    BY <1>3, <2>3, <2>4 DEF SessionInv
<1> QED
  BY <1>6, <1>7, <1>8, <1>9, <1>10, <1>11

\* A Send that is given up, because the pipe is full, missing or broken, ends the call.
LEMMA SendFails ==
  ASSUME Inv, SessionInv, pc' \in {"idle", "killed", "blocked"}, cmds' = cmds,
         UNCHANGED <<m_TargetID, m_SessionID, m_MessageQueue, m_Timeout, link, disk, wire, browserVars>>
  PROVE  SessionInv'
<1>1. PagesGoOn /\ AttachedGoOn /\ OnceIn(wire') /\ Elements(wire') = Elements(wire)
  BY DEF browserVars, PagesGoOn, AttachedGoOn, SessionInv, AnswersInv, AnsweredOnce
<1>2. AnswersInv'
  BY <1>1, LossKeeps DEF SessionInv, browserVars
<1>3. NavegateInv'
  BY NothingRemembered DEF WithSession
<1> QED
  BY <1>1, <1>2, <1>3, MembersKeep DEF SessionInv

\* A command other than attachToTarget is sent.
LEMMA SendsKeep ==
  ASSUME Inv, SessionInv, NEW method \in Methods \ {"Target.attachToTarget"},
         NEW session \in Session \cup {None}, NEW arg \in Url \cup Target \cup {None},
         NEW next \in Places \ {"attach", "attachWait"}, NEW loc,
         next \in WithSession => pc \in WithSession /\ loc = local,
         Send(method, session, arg, next, loc)
  PROVE  SessionInv'
<1>0. PICK c : c = [id |-> m_ID + 1, method |-> method, session |-> session, arg |-> arg]
  OBVIOUS
<1>1. /\ m_ID' = m_ID + 1 /\ m_ID \in Nat
      /\ UNCHANGED <<m_TargetID, m_SessionID, m_MessageQueue, m_Timeout, link, disk, wire, browserVars>>
  BY DEF Send, Inv, TypeOK
<1>2. CASE /\ link = "open" /\ cmds' = Append(cmds, c) /\ pc' = next /\ local' = loc
  <2>1. c \in Command /\ c.id = m_ID + 1 /\ c.method # "Target.attachToTarget"
    BY <1>0, <1>1 DEF Command
  <2>2. AnswersInv'
    BY <1>1, <1>2, <2>1, SendKeeps DEF SessionInv, browserVars
  <2>3. NavegateInv'
    <3>1. CASE next \in WithSession
      BY <1>1, <1>2, <3>1 DEF SessionInv, NavegateInv, WithSession, browserVars
    <3>2. CASE next \notin WithSession
      BY <1>2, <3>2, NothingRemembered
    <3> QED
      BY <3>1, <3>2
  <2> QED
    BY <1>1, <2>2, <2>3, MembersKeep DEF SessionInv, AttachedGoOn, browserVars
<1>3. CASE pc' \in {"idle", "killed", "blocked"} /\ cmds' = cmds
  BY <1>1, <1>3, SendFails
<1> QED
  BY <1>0, <1>2, <1>3 DEF Send, Return

\* attachToTarget is sent for the tab just created.
LEMMA AttachKeeps ==
  ASSUME Inv, SessionInv, NavegateAttaches
  PROVE  SessionInv'
<1>0. PICK c : c = [id |-> m_ID + 1, method |-> "Target.attachToTarget", session |-> None, arg |-> local.targetId]
  OBVIOUS
<1>1. /\ pc = "attach" /\ m_ID' = m_ID + 1 /\ m_ID \in Nat /\ local.targetId \in Target
      /\ cmds \in Seq(Command)
      /\ UNCHANGED <<m_TargetID, m_SessionID, m_MessageQueue, m_Timeout, link, disk, wire, browserVars>>
  BY DEF NavegateAttaches, Send, Inv, TypeOK, SessionInv, NavegateInv
<1>2. CASE /\ link = "open" /\ cmds' = Append(cmds, c) /\ pc' = "attachWait" /\ local' = local
  <2>1. /\ c \in Command /\ c.id = m_ID + 1 /\ c.arg = local.targetId
        /\ m_ID \in OpenCreates => Closed(c.arg)
    BY <1>0, <1>1 DEF Command, Methods, SessionInv, NavegateInv
  <2>2. AnswersInv'
    BY <1>1, <1>2, <2>1, SendKeeps DEF SessionInv, browserVars
  <2>3. /\ \A d \in Elements(cmds) : d.id \in Nat /\ d.id <= m_ID
        /\ \A m \in InFlight : m.id \in Nat /\ (Current(m) => m.id <= m_ID)
    BY TrafficTypes DEF Inv, TrafficInv, MessageOK, CommandOK, Current
  <2>4. Elements(cmds') = Elements(cmds) \cup {c} /\ InFlight' = InFlight
    BY <1>1, <1>2, <2>1, ElementsOfAppend DEF InFlight, browserVars
  <2>5. \A d \in Elements(cmds') : d.id = m_ID + 1 => d.arg = local.targetId
    BY <1>1, <2>1, <2>3, <2>4
  <2>6. \A m \in InFlight' : ~(AttachReply(m) /\ m.id = m_ID + 1)
    BY <1>1, <2>3, <2>4 DEF SessionInv, NavegateInv
  <2>7. NavegateInv'
    BY <1>1, <1>2, <2>5, <2>6 DEF NavegateInv, Elements
  <2> QED
    BY <1>1, <2>2, <2>7, MembersKeep DEF SessionInv, AttachedGoOn, browserVars
<1>3. CASE pc' \in {"idle", "killed", "blocked"} /\ cmds' = cmds
  BY <1>1, <1>3, SendFails
<1> QED
  BY <1>0, <1>2, <1>3 DEF NavegateAttaches, Send, Return

LEMMA CallsKeep ==
  ASSUME Inv, SessionInv,
         \/ NavegateAttaches \/ NavegateEnables \/ NavegateSetsMetrics \/ NavegateLoads
         \/ ScreenshotCaptures \/ CloseTab
         \/ \E u \in Url : Navegate(u)
         \/ \E p \in Path : Screenshot(p) \/ PrintToPDF(p)
  PROVE  SessionInv'
<1>0. /\ local.sessionId \in Session \cup {None} /\ local.url \in Url \cup {None}
      /\ m_SessionID \in Session \cup {None} /\ m_TargetID \in Target \cup {None}
      /\ {"createWait", "layoutWait", "printWait", "captureWait", "closeWait"}
           \subseteq Places \ (WithSession \cup {"attach", "attachWait"})
      /\ WithSession \subseteq Places \ {"attach", "attachWait"}
  BY DEF Inv, TypeOK, Places, Waits, Awaited, WithSession
<1>1. CASE NavegateAttaches
  BY <1>1, AttachKeeps
<1>2. CASE NavegateEnables
  BY <1>2, <1>0, SendsKeep DEF NavegateEnables, Methods, WithSession
<1>3. CASE NavegateSetsMetrics
  BY <1>3, <1>0, SendsKeep DEF NavegateSetsMetrics, Methods, WithSession
<1>4. CASE NavegateLoads
  BY <1>4, <1>0, SendsKeep DEF NavegateLoads, Methods, WithSession
<1>5. CASE ScreenshotCaptures
  BY <1>5, <1>0, SendsKeep DEF ScreenshotCaptures, Methods, DataMethods
<1>6. CASE CloseTab
  BY <1>6, <1>0, SendsKeep DEF CloseTab, Methods
<1>7. CASE \E u \in Url : Navegate(u)
  BY <1>7, <1>0, SendsKeep DEF Navegate, Methods
<1>8. CASE \E p \in Path : Screenshot(p)
  BY <1>8, <1>0, SendsKeep DEF Screenshot, Methods
<1>9. CASE \E p \in Path : PrintToPDF(p)
  BY <1>9, <1>0, SendsKeep DEF PrintToPDF, Methods, DataMethods
<1> QED
  BY <1>1, <1>2, <1>3, <1>4, <1>5, <1>6, <1>7, <1>8, <1>9

\* Waits that end without a message, and the calls that write no command.
LEMMA OtherCallsKeep ==
  ASSUME Inv, SessionInv,
         WaitTimesOut \/ WaitMeetsEnd \/ BlockedWriteBreaks \/ Launch \/ Exit \/ \E set \in BOOLEAN : SetTimeout(set)
  PROVE  SessionInv'
<1>0. AnswersInv /\ NavegateInv /\ SessionOfTarget /\ OnceIn(wire)
  BY DEF SessionInv, AnswersInv, AnsweredOnce
<1>1. CASE WaitTimesOut
  <2>1. ReadTimesOut /\ pc' = "idle" /\ UNCHANGED <<link, m_TargetID, m_SessionID, attached>>
    BY <1>1 DEF WaitTimesOut, ReadTimesOut, Return, browserVars
  <2> QED
    BY <2>1, <1>0, TimeoutKeeps, NothingRemembered, MembersKeep DEF SessionInv, WithSession, AttachedGoOn
<1>2. CASE WaitMeetsEnd \/ BlockedWriteBreaks
  <2>1. /\ pc' \in {"idle", "killed", "blocked"}
        /\ UNCHANGED <<m_TargetID, m_SessionID, link, m_MessageQueue, cmds, wire,
                       launches, page, attached, pending>>
    BY <1>2 DEF WaitMeetsEnd, BlockedWriteBreaks, Return, browserVars
  <2>2. AnswersInv'
    BY <1>0, <2>1, LossKeeps
  <2> QED
    BY <2>1, <2>2, <1>0, NothingRemembered, MembersKeep DEF SessionInv, WithSession, AttachedGoOn
<1>3. CASE Launch
  <2>1. pc' = "idle" /\ UNCHANGED <<m_TargetID, m_SessionID, attached>>
    BY <1>3 DEF Launch
  <2> QED
    BY <2>1, <1>0, <1>3, LaunchKeeps, NothingRemembered, MembersKeep DEF SessionInv, WithSession, AttachedGoOn
<1>4. CASE Exit
  <2>1. /\ pc' = "idle" /\ m_TargetID' = None /\ m_SessionID' = None
        /\ ExitManager /\ m_MessageQueue' = m_MessageQueue
    BY <1>4 DEF Exit, ExitManager
  <2>2. SessionOfTarget'
    BY <2>1 DEF SessionOfTarget
  <2> QED
    BY <2>1, <2>2, <1>0, ExitKeeps, NothingRemembered DEF SessionInv, WithSession
<1>5. CASE \E set \in BOOLEAN : SetTimeout(set)
  <2>1. /\ pc' = "idle"
        /\ UNCHANGED <<m_TargetID, m_SessionID, link, m_MessageQueue, cmds, wire,
                       launches, page, attached, pending>>
    BY <1>5 DEF SetTimeout, browserVars
  <2>2. AnswersInv'
    BY <1>0, <2>1, LossKeeps
  <2> QED
    BY <2>1, <2>2, <1>0, NothingRemembered, MembersKeep DEF SessionInv, WithSession, AttachedGoOn
<1> QED
  BY <1>1, <1>2, <1>3, <1>4, <1>5

\* What executing a command has to leave alone, and what its answer has to carry.
LEMMA ExecutionKeeps ==
  ASSUME Inv, SessionInv, browser = "running", cmds # <<>>, NEW kind, NEW value, Answer(kind, value),
         PagesGoOn, AttachedGoOn,
         kind = "reply" /\ Head(cmds).method = "Target.createTarget" =>
           value \in Target /\ page'[value].state # "free",
         kind = "reply" /\ Head(cmds).method = "Target.attachToTarget" =>
           ~Closed(Head(cmds).arg) /\ attached'[value] = Head(cmds).arg
  PROVE  SessionInv'
<1>0. PICK c, r : c = Head(cmds) /\ r = Msg(kind, c.id, c.method, value)
  OBVIOUS
<1>1. /\ AnswersInv' /\ OpenCreates' \subseteq OpenCreates
      /\ Elements(cmds') \subseteq Elements(cmds) /\ InFlight' = InFlight \cup {r}
  BY <1>0, AnswerKeeps DEF SessionInv
<1>2. UNCHANGED <<pc, local, m_ID, link, launches, m_TargetID, m_SessionID>> /\ link = "open"
  BY DEF Answer, clientVars, Inv, TypeOK, LinkInv
<1>3. r.kind = kind /\ r.id = c.id /\ r.method = c.method /\ r.value = value /\ Current(r)
  BY <1>0, <1>2 DEF Msg, Current
<1>4. c \in Elements(cmds)
  BY <1>0, ElementsOfTail DEF Inv, TypeOK
<1>5. ASSUME AttachReply(r), pc = "attachWait", r.id = m_ID  PROVE attached'[r.value] = local.targetId
  BY <1>0, <1>3, <1>4, <1>5 DEF AttachReply, SessionInv, NavegateInv
<1>6. NavegateInv'
  BY <1>1, <1>2, <1>3, <1>5, LocalsKeep DEF SessionInv
<1> QED
  BY <1>1, <1>2, <1>6, MembersKeep DEF SessionInv

LEMMA ExecutesKeeps ==
  ASSUME Inv, SessionInv, BrowserExecutes
  PROVE  SessionInv'
<1> DEFINE c == Head(cmds)
<1>1. /\ cmds # <<>> /\ browser = "running"
      /\ page \in [Target -> Page] /\ attached \in [Session -> Target \cup {None}]
  BY DEF BrowserExecutes, BrowserCreatesTarget, BrowserAttaches, BrowserEnables, BrowserNavigates,
         BrowserMeasures, BrowserCaptures, BrowserClosesTarget, BrowserRejects, Executes, Inv, TypeOK
<1>2. CASE BrowserCreatesTarget
  <2>1. PICK t \in Target : /\ page[t].state = "free" /\ page' = [page EXCEPT ![t].state = "blank"]
                            /\ Answer("reply", t)
    BY <1>2 DEF BrowserCreatesTarget
  <2>2. PagesGoOn /\ page'[t].state # "free"
    BY <1>1, <2>1 DEF PagesGoOn, Page
  <2>3. AttachedGoOn /\ c.method = "Target.createTarget"
    BY <1>2 DEF BrowserCreatesTarget, AttachedGoOn, Executes
  <2> QED
    BY <1>1, <2>1, <2>2, <2>3, ExecutionKeeps
<1>3. CASE BrowserAttaches
  <2>1. PICK s \in Session : /\ attached[s] = None /\ attached' = [attached EXCEPT ![s] = c.arg]
                             /\ Answer("reply", s)
    BY <1>3 DEF BrowserAttaches
  <2>2. c.method = "Target.attachToTarget" /\ ~Closed(c.arg) /\ page' = page
    BY <1>3 DEF BrowserAttaches, Executes, Exists, Closed
  <2>3. AttachedGoOn /\ attached'[s] = c.arg
    BY <1>1, <2>1 DEF AttachedGoOn
  <2> QED
    BY <1>1, <2>1, <2>2, <2>3, ExecutionKeeps DEF PagesGoOn
<1>4. CASE BrowserNavigates
  <2>1. /\ c.method = "Page.navigate" /\ Exists(attached[c.session]) /\ Answer("reply", None)
        /\ page' = [page EXCEPT ![attached[c.session]] = [url |-> c.arg, state |-> "loading"]]
        /\ attached' = attached
    BY <1>4 DEF BrowserNavigates, Executes, SessionExists
  <2>2. PagesGoOn
    BY <1>1, <2>1 DEF PagesGoOn, Exists
  <2> QED
    BY <1>1, <2>1, <2>2, ExecutionKeeps DEF AttachedGoOn
<1>5. CASE BrowserClosesTarget
  <2>1. /\ c.method = "Target.closeTarget" /\ Answer("reply", None)
        /\ page' = [page EXCEPT ![c.arg].state = "closed"] /\ attached' = attached
    BY <1>5 DEF BrowserClosesTarget, Executes
  <2>2. PagesGoOn
    BY <1>1, <2>1 DEF PagesGoOn, Page
  <2> QED
    BY <1>1, <2>1, <2>2, ExecutionKeeps DEF AttachedGoOn
<1>6. CASE BrowserEnables \/ BrowserMeasures \/ BrowserCaptures
  <2>1. /\ c.method \in {"Page.enable", "Emulation.setDeviceMetricsOverride", "Page.getLayoutMetrics"}
             \cup DataMethods
        /\ \E value : Answer("reply", value)
        /\ UNCHANGED <<page, attached>>
    BY <1>6 DEF BrowserEnables, BrowserMeasures, BrowserCaptures, Executes
  <2>2. c.method # "Target.createTarget" /\ c.method # "Target.attachToTarget"
    BY <2>1 DEF DataMethods
  <2> QED
    BY <1>1, <2>1, <2>2, ExecutionKeeps DEF PagesGoOn, AttachedGoOn
<1>7. CASE BrowserRejects
  <2>1. Answer("error", None) /\ UNCHANGED <<page, attached>>
    BY <1>7 DEF BrowserRejects
  <2> QED
    BY <1>1, <2>1, ExecutionKeeps DEF PagesGoOn, AttachedGoOn
<1> QED
  BY <1>2, <1>3, <1>4, <1>5, <1>6, <1>7 DEF BrowserExecutes

\* The browser sends a message.
LEMMA BrowserSendsSession ==
  ASSUME Inv, SessionInv, browser = "running", NEW m \in Message, BrowserSends(m), m.browser = launches,
         \/ m \in pending /\ pending' = pending \ {m}
         \/ m.kind = "event" /\ pending' = pending,
         PagesGoOn
  PROVE  SessionInv'
<1>1. /\ AnswersInv' /\ OpenCreates' \subseteq OpenCreates
      /\ \A k \in InFlight' : k \in InFlight \/ k.kind = "event"
  BY BrowserSendsKeeps DEF SessionInv
<1>2. UNCHANGED <<pc, local, m_ID, link, launches, m_TargetID, m_SessionID, cmds, attached>>
  BY DEF BrowserSends, clientVars
<1>3. AttachedGoOn /\ Elements(cmds') \subseteq Elements(cmds)
  BY <1>2 DEF AttachedGoOn
<1>4. NavegateInv'
  BY <1>1, <1>2, <1>3, LocalsKeep DEF SessionInv, AttachReply
<1> QED
  BY <1>1, <1>2, <1>3, <1>4, MembersKeep DEF SessionInv

LEMMA BrowserKeeps ==
  ASSUME Inv, SessionInv, BrowserAnswers \/ BrowserFiresLoad \/ BrowserFiresOther \/ BrowserDies
  PROVE  SessionInv'
<1>0. /\ page \in [Target -> Page] /\ pending \subseteq Message /\ launches \in Nat
      /\ AnswersInv /\ NavegateInv /\ SessionOfTarget /\ OnceIn(wire)
  BY DEF Inv, TypeOK, SessionInv, AnswersInv, AnsweredOnce
<1>1. CASE BrowserAnswers
  <2>1. PICK m \in pending : pending' = pending \ {m} /\ BrowserSends(m)
    BY <1>1 DEF BrowserAnswers
  <2>2. browser = "running" /\ m \in Message /\ m.browser = launches /\ PagesGoOn
    BY <1>0, <1>1 DEF BrowserAnswers, AnswersInv, OneBrowser, PagesGoOn
  <2> QED
    BY <2>1, <2>2, BrowserSendsSession
<1>2. CASE BrowserFiresLoad
  <2>1. PICK t \in Target :
          /\ page[t].state = "loading" /\ page' = [page EXCEPT ![t].state = "loaded"]
          /\ \/ BrowserSends(Msg("event", 0, "Page.loadEventFired", t))
             \/ UNCHANGED <<clientVars, m_MessageQueue, cmds, wire, browser, launches, attached, enabled>>
    BY <1>2 DEF BrowserFiresLoad
  <2>2. PICK m : m = Msg("event", 0, "Page.loadEventFired", t)
    OBVIOUS
  <2>3. m \in Message /\ m.kind = "event" /\ m.browser = launches
    BY <1>0, <2>2 DEF Msg, Message, Events
  <2>4. browser = "running" /\ pending' = pending /\ PagesGoOn
    BY <1>0, <1>2, <2>1 DEF BrowserFiresLoad, PagesGoOn, Page
  <2>5. CASE BrowserSends(m)
    BY <2>3, <2>4, <2>5, BrowserSendsSession
  <2>6. CASE UNCHANGED <<clientVars, m_MessageQueue, cmds, wire, browser, launches, attached, enabled>>
    <3>1. /\ UNCHANGED <<pc, local, m_ID, link, launches, m_TargetID, m_SessionID, m_MessageQueue>>
          /\ AttachedGoOn /\ InFlight' = InFlight /\ cmds' = cmds /\ wire' = wire
      BY <2>4, <2>6 DEF clientVars, AttachedGoOn, InFlight
    <3>2. \A k : (Current(k)' <=> Current(k)) /\ (Closed(k) => Closed(k)')
      BY <2>4, <3>1 DEF Current, Closed, PagesGoOn
    <3>3. OpenCreates' = OpenCreates
      BY <3>1, <3>2 DEF OpenCreates, Elements
    <3>4. TabsOfAnswers'
      BY <1>0, <2>4, <3>1, TabsKeep DEF AnswersInv
    <3>5. OneBrowser' /\ AnsweredOnce'
      BY <1>0, <2>4, <3>1, <3>2 DEF AnswersInv, OneBrowser, AnsweredOnce, Elements, OnceIn, Apart
    <3>6. AttachFollows'
      BY <1>0, <3>1, <3>2, <3>3 DEF AnswersInv, AttachFollows, Elements
    <3>7. NavegateInv'
      BY <1>0, <2>4, <3>1, <3>3, LocalsKeep
    <3> QED
      BY <1>0, <3>1, <3>4, <3>5, <3>6, <3>7, MembersKeep DEF SessionInv, AnswersInv
  <2> QED
    BY <2>1, <2>2, <2>5, <2>6
<1>3. CASE BrowserFiresOther
  <2>1. PICK m : m = Msg("event", 0, "other", None)
    OBVIOUS
  <2>2. m \in Message /\ m.kind = "event" /\ m.browser = launches
    BY <1>0, <2>1 DEF Msg, Message, Events
  <2>3. browser = "running" /\ BrowserSends(m) /\ pending' = pending /\ PagesGoOn
    BY <1>3, <2>1 DEF BrowserFiresOther, PagesGoOn
  <2> QED
    BY <2>2, <2>3, BrowserSendsSession
<1>4. CASE BrowserDies
  <2>1. /\ AnswersInv' /\ OpenCreates' \subseteq OpenCreates
        /\ Elements(cmds') \subseteq Elements(cmds)
        /\ \A m \in InFlight' : m \in InFlight \/ m.kind = "tail"
    BY <1>0, <1>4, BrowserDiesKeeps
  <2>2. UNCHANGED <<pc, local, m_ID, link, launches, m_TargetID, m_SessionID, page, attached>>
    BY <1>4 DEF BrowserDies, clientVars
  <2>3. PagesGoOn /\ AttachedGoOn
    BY <2>2 DEF PagesGoOn, AttachedGoOn
  <2>4. NavegateInv'
    BY <1>0, <2>1, <2>2, <2>3, LocalsKeep DEF AttachReply
  <2> QED
    BY <1>0, <2>1, <2>2, <2>3, <2>4, MembersKeep DEF SessionInv
<1> QED
  BY <1>1, <1>2, <1>3, <1>4

-----------------------------------------------------------------------------

LEMMA InitSession == Init => SessionInv
<1> SUFFICES ASSUME Init PROVE SessionInv
  OBVIOUS
<1>1. Elements(m_MessageQueue) = {} /\ Elements(wire) = {} /\ Elements(cmds) = {} /\ InFlight = {}
  BY DEF Init, Elements, InFlight
<1>2. AnswersInv
  BY <1>1 DEF Init, AnswersInv, OneBrowser, AnsweredOnce, TabsOfAnswers, AttachFollows, OnceIn, Apart
<1>3. NavegateInv /\ SessionOfTarget
  BY DEF Init, NavegateInv, SessionOfTarget
<1> QED
  BY <1>2, <1>3 DEF SessionInv

LEMMA NextSession == Inv /\ SessionInv /\ [Next]_vars => SessionInv'
<1> SUFFICES ASSUME Inv, SessionInv, [Next]_vars PROVE SessionInv'
  OBVIOUS
<1>1. CASE StartCall
  BY <1>1, CallsKeep, OtherCallsKeep DEF StartCall
<1>2. CASE CallStep
  BY <1>2, ReadsKeep, CallsKeep, OtherCallsKeep DEF CallStep
<1>3. CASE BrowserStep
  BY <1>3, ExecutesKeeps, BrowserKeeps DEF BrowserStep
<1>4. CASE UNCHANGED vars
  <2>1. /\ UNCHANGED <<pc, local, m_ID, link, launches, m_TargetID, m_SessionID, m_MessageQueue,
                       cmds, wire, pending, page, attached>>
        /\ OnceIn(wire)
    BY <1>4 DEF vars, clientVars, browserVars, SessionInv, AnswersInv, AnsweredOnce
  <2>2. PagesGoOn /\ AttachedGoOn /\ InFlight' = InFlight /\ Elements(wire') = Elements(wire)
    BY <2>1 DEF PagesGoOn, AttachedGoOn, InFlight
  <2>3. AnswersInv' /\ OpenCreates' \subseteq OpenCreates /\ Elements(cmds') \subseteq Elements(cmds)
    BY <2>1, <2>2, LossKeeps DEF SessionInv
  <2>4. NavegateInv'
    BY <2>1, <2>2, <2>3, LocalsKeep DEF SessionInv
  <2> QED
    BY <2>1, <2>2, <2>3, <2>4, MembersKeep DEF SessionInv
<1> QED
  BY <1>1, <1>2, <1>3, <1>4 DEF Next

THEOREM SessionInvHolds == Spec => []SessionInv
<1>1. Spec => []Inv
  BY InvHolds
<1> QED
  BY <1>1, InitSession, NextSession, PTL DEF Spec

(* The session and the tab Navegate has stored belong together, whatever was
   abandoned, timed out, refused or left over from an earlier browser, for any
   number of tabs, browsers and calls. *)
THEOREM SessionMatches == Spec => []SessionOfTarget
BY SessionInvHolds, PTL DEF SessionInv
=============================================================================
