----------------------------- MODULE VoiceProofs -----------------------------
(***************************************************************************)
(* What is proved of VoiceMessages for any number of phones, boxes and     *)
(* messages.                                                               *)
(***************************************************************************)
EXTENDS VoiceMessages, FiniteSetTheorems, SequenceTheorems, TLAPS

(***************************************************************************)
(* Routes                                                                  *)
(***************************************************************************)
(* Paths put together.                                                     *)
LEMMA Join ==
  ASSUME NEW a, NEW b, NEW c
  PROVE  /\ <<a>> \o << >> = <<a>> /\ <<a>> \o <<b>> = <<a, b>>
         /\ <<a>> \o <<b, c>> = <<a, b, c>> /\ <<a, b>> \o <<c>> = <<a, b, c>>
<1> DEFINE S == {a, b, c}
<1>1. /\ <<a>> \in Seq(S) /\ <<b>> \in Seq(S) /\ <<c>> \in Seq(S)
      /\ <<a, b>> \in Seq(S) /\ <<b, c>> \in Seq(S) /\ <<a, b, c>> \in Seq(S)
  OBVIOUS
<1> HIDE DEF S
<1>2. <<a>> \o << >> = <<a>>
  BY <1>1, ConcatEmptySeq
<1>3. <<a>> \o <<b>> = <<a, b>>
  <2>1. /\ <<a>> \o <<b>> \in Seq(S) /\ Len(<<a>> \o <<b>>) = Len(<<a, b>>)
        /\ \A i \in 1 .. 2 : (<<a>> \o <<b>>)[i] = <<a, b>>[i]
    BY <1>1
  <2> QED BY <1>1, <2>1, SeqEqual
<1>4. <<a>> \o <<b, c>> = <<a, b, c>>
  <2>1. /\ <<a>> \o <<b, c>> \in Seq(S) /\ Len(<<a>> \o <<b, c>>) = Len(<<a, b, c>>)
        /\ \A i \in 1 .. 3 : (<<a>> \o <<b, c>>)[i] = <<a, b, c>>[i]
    BY <1>1
  <2> QED BY <1>1, <2>1, SeqEqual
<1>5. <<a, b>> \o <<c>> = <<a, b, c>>
  <2>1. /\ <<a, b>> \o <<c>> \in Seq(S) /\ Len(<<a, b>> \o <<c>>) = Len(<<a, b, c>>)
        /\ \A i \in 1 .. 3 : (<<a, b>> \o <<c>>)[i] = <<a, b, c>>[i]
    BY <1>1
  <2> QED BY <1>1, <2>1, SeqEqual
<1> QED BY <1>2, <1>3, <1>4, <1>5

(* A key is parsed to what it was built of, whatever dots the id has, and  *)
(* is no name, as it has a dot (voicemail.py:66-85).                       *)
LEMMA KeyParsed ==
  ASSUME NEW k \in Keys
  PROVE  ParseKey(BuildKey(k)) = {k} /\ \A s : BuildKey(k) # Text(s)
<1>1. PICK b \in Boxes, i \in Ids : k = <<b, i>>
  BY KeysAssumption
<1>2. i \in Seq(Pieces) /\ i # << >> /\ i # Empty /\ Len(i) \in Nat /\ Len(i) > 0
  BY IdsAssumption, EmptySeq
<1> DEFINE S == Pieces \union {b}
           key == <<b>> \o i
<1>3. <<b>> \in Seq(S) /\ i \in Seq(S) /\ Len(<<b>>) = 1 /\ <<b>>[1] = b
  BY <1>2
<1> HIDE DEF S
<1>4. /\ key \in Seq(S) /\ Len(key) = 1 + Len(i)
      /\ \A j \in 1 .. 1 + Len(i) : key[j] = IF j <= 1 THEN <<b>>[j] ELSE i[j - 1]
  BY <1>3, ConcatProperties
<1> HIDE DEF key
<1>5. key # << >> /\ Len(key) > 1
  BY <1>2, <1>4
<1>6. Head(key) = b
  <2>1. Head(key) = key[1] /\ 1 \in 1 .. 1 + Len(i)
    BY <1>2, <1>4, <1>5
  <2> QED BY <1>3, <1>4, <2>1
<1>7. Tail(key) = i
  <2>1. /\ Tail(key) \in Seq(S) /\ Len(Tail(key)) = Len(i)
        /\ \A j \in 1 .. Len(i) : Tail(key)[j] = key[j + 1]
    BY <1>2, <1>4, <1>5, HeadTailProperties
  <2>2. \A j \in 1 .. Len(i) : Tail(key)[j] = i[j]
    BY <1>2, <1>4, <2>1
  <2> QED BY <1>3, <2>1, <2>2, SeqEqual
<1>8. BuildKey(k) = key
  BY <1>1 DEF BuildKey, key
<1>9. ParseKey(BuildKey(k)) = {k}
  BY <1>1, <1>2, <1>5, <1>6, <1>7, <1>8 DEF ParseKey, WellFormed
<1>10. ASSUME NEW s PROVE key # Text(s)
  <2>1. Len(<<s>>) = 1
    OBVIOUS
  <2>2. ASSUME key = <<s>> PROVE FALSE
    <3>1. Len(key) = 1
      BY <2>1, <2>2, Zenon
    <3> QED BY <1>2, <1>4, <1>5, <3>1
  <2> QED BY <2>2, Zenon DEF Text
<1> QED BY <1>8, <1>9, <1>10

(* The texts of the rules tell them apart.                                 *)
LEMMA TextsDiffer ==
  ASSUME NEW s, NEW t, s # t
  PROVE  Text(s) # Text(t)
<1>1. Text(s)[1] = s /\ Text(t)[1] = t
  BY DEF Text
<1> QED BY <1>1

(* The rules, one by one.                                                  *)
RulesOf(c) ==
    {Rule("VoiceMessages", <<Text(c)>>), Rule("VoiceMessages", <<Text(c), Empty>>),
     Rule("VoiceMessage", <<Text(c), Wild>>), Rule("VoiceMessageMark", <<Text(c), Wild, Wild>>)}

LEMMA VoicemailRule ==
  ASSUME NEW rule, NEW resource, NEW suffix
  PROVE  rule \in Voicemail(resource, {suffix}) <=>
            \E c \in Collections : rule = Rule(resource, <<Text(c)>> \o suffix)
  BY DEF Voicemail

LEMMA VoicemailRules ==
  ASSUME NEW resource, NEW s, NEW t
  PROVE  Voicemail(resource, {s, t}) = Voicemail(resource, {s}) \union Voicemail(resource, {t})
  BY DEF Voicemail

LEMMA RulesListed ==
  ASSUME NEW rule
  PROVE  rule \in Rules <=>
            \/ rule = Rule("CallLogs", <<Text("directories"), Text("CallLogs")>>)
            \/ rule = Rule("CallLogs", <<Text("directories"), Text("CallLogs"), Empty>>)
            \/ rule = Rule("CallLogsList", <<Text("directories"), Text("CallLogs"), Wild>>)
            \/ \E c \in Collections :
                \/ rule = Rule("VoiceMessages", <<Text(c)>>)
                \/ rule = Rule("VoiceMessages", <<Text(c), Empty>>)
                \/ rule = Rule("VoiceMessage", <<Text(c), Wild>>)
                \/ rule = Rule("VoiceMessageMark", <<Text(c), Wild, Wild>>)
<1>1. /\ CALLLOGS = <<Text("directories"), Text("CallLogs")>>
      /\ CALLLOGS \o <<Empty>> = <<Text("directories"), Text("CallLogs"), Empty>>
      /\ CALLLOGS \o <<Wild>> = <<Text("directories"), Text("CallLogs"), Wild>>
  BY Join DEF CALLLOGS
<1>2. \A c : /\ <<Text(c)>> \o << >> = <<Text(c)>>
             /\ <<Text(c)>> \o <<Empty>> = <<Text(c), Empty>>
             /\ <<Text(c)>> \o <<Wild>> = <<Text(c), Wild>>
             /\ <<Text(c)>> \o <<Wild, Wild>> = <<Text(c), Wild, Wild>>
  BY Join
<1>3. rule \in Voicemail("VoiceMessages", {<<>>, <<Empty>>}) <=>
         \E c \in Collections : \/ rule = Rule("VoiceMessages", <<Text(c)>> \o << >>)
                              \/ rule = Rule("VoiceMessages", <<Text(c)>> \o <<Empty>>)
  <2> DEFINE none == << >>
             slash == <<Empty>>
  <2> HIDE DEF none, slash
  <2>1. Voicemail("VoiceMessages", {none, slash}) =
           Voicemail("VoiceMessages", {none}) \union Voicemail("VoiceMessages", {slash})
    BY VoicemailRules
  <2>2. rule \in Voicemail("VoiceMessages", {none}) <=>
           \E c \in Collections : rule = Rule("VoiceMessages", <<Text(c)>> \o none)
    BY VoicemailRule
  <2>3. rule \in Voicemail("VoiceMessages", {slash}) <=>
           \E c \in Collections : rule = Rule("VoiceMessages", <<Text(c)>> \o slash)
    BY VoicemailRule
  <2>4. rule \in Voicemail("VoiceMessages", {none, slash}) <=>
           \/ rule \in Voicemail("VoiceMessages", {none})
           \/ rule \in Voicemail("VoiceMessages", {slash})
    BY <2>1, Zenon
  <2> QED BY <2>2, <2>3, <2>4, Zenon DEF none, slash
<1>4. rule \in Voicemail("VoiceMessage", {<<Wild>>}) <=>
         \E c \in Collections : rule = Rule("VoiceMessage", <<Text(c)>> \o <<Wild>>)
  BY VoicemailRule
<1>5. rule \in Voicemail("VoiceMessageMark", {<<Wild, Wild>>}) <=>
         \E c \in Collections : rule = Rule("VoiceMessageMark", <<Text(c)>> \o <<Wild, Wild>>)
  BY VoicemailRule
<1>6. rule \in Rules <=>
         \/ rule \in {Rule("CallLogs", CALLLOGS), Rule("CallLogs", CALLLOGS \o <<Empty>>),
                     Rule("CallLogsList", CALLLOGS \o <<Wild>>)}
         \/ rule \in Voicemail("VoiceMessages", {<<>>, <<Empty>>})
         \/ rule \in Voicemail("VoiceMessage", {<<Wild>>})
         \/ rule \in Voicemail("VoiceMessageMark", {<<Wild, Wild>>})
  BY Zenon DEF Rules
<1> QED BY <1>1, <1>2, <1>3, <1>4, <1>5, <1>6, Zenon

(* How long the paths of the rules are, and what they are made of.         *)
Shape(resource, path) ==
    \/ /\ resource = "CallLogs" /\ Len(path) = 2
       /\ path[1] = Text("directories") /\ path[2] = Text("CallLogs")
    \/ /\ resource = "CallLogs" /\ Len(path) = 3
       /\ path[1] = Text("directories") /\ path[2] = Text("CallLogs") /\ path[3] = Empty
    \/ /\ resource = "CallLogsList" /\ Len(path) = 3
       /\ path[1] = Text("directories") /\ path[2] = Text("CallLogs") /\ path[3] = Wild
    \/ \E c \in Collections : path[1] = Text(c) /\
        \/ resource = "VoiceMessages" /\ Len(path) = 1
        \/ resource = "VoiceMessages" /\ Len(path) = 2 /\ path[2] = Empty
        \/ resource = "VoiceMessage" /\ Len(path) = 2 /\ path[2] = Wild
        \/ resource = "VoiceMessageMark" /\ Len(path) = 3 /\ path[2] = Wild /\ path[3] = Wild
 
LEMMA RuleShapes ==
  ASSUME NEW rule \in Rules
  PROVE  Shape(rule.resource, rule.path)
<1>1. \A resource, path : /\ Rule(resource, path).resource = resource
                         /\ Rule(resource, path).path = path
  BY DEF Rule
<1>2. /\ Shape("CallLogs", <<Text("directories"), Text("CallLogs")>>)
      /\ Shape("CallLogs", <<Text("directories"), Text("CallLogs"), Empty>>)
      /\ Shape("CallLogsList", <<Text("directories"), Text("CallLogs"), Wild>>)
  BY DEF Shape
<1>3. ASSUME NEW c \in Collections
      PROVE  /\ Shape("VoiceMessages", <<Text(c)>>)
             /\ Shape("VoiceMessages", <<Text(c), Empty>>)
             /\ Shape("VoiceMessage", <<Text(c), Wild>>)
             /\ Shape("VoiceMessageMark", <<Text(c), Wild, Wild>>)
  BY DEF Shape
<1>4. ASSUME NEW resource, NEW path, Shape(resource, path), rule = Rule(resource, path)
      PROVE  Shape(rule.resource, rule.path)
  BY <1>1, <1>4, Zenon
<1> QED BY <1>2, <1>3, <1>4, RulesListed, Zenon

(* A rule that fits a path, segment for segment.                           *)
LEMMA FitsShape ==
  ASSUME NEW S, NEW path \in Seq(S), NEW rule \in Rules, Fits(path, rule)
  PROVE  \/ /\ rule.resource \in {"CallLogs", "CallLogsList"} /\ Len(path) \in {2, 3}
            /\ path[1] = Text("directories")
            /\ rule.resource = "CallLogs" <=> Len(path) = 2 \/ path[3] = Empty
         \/ /\ rule.resource = "VoiceMessages" /\ \E c \in Collections : path[1] = Text(c)
            /\ Len(path) = 1 \/ (Len(path) = 2 /\ path[2] = Empty)
         \/ /\ rule.resource = "VoiceMessage" /\ \E c \in Collections : path[1] = Text(c)
            /\ Len(path) = 2 /\ path[2] # Empty
         \/ /\ rule.resource = "VoiceMessageMark" /\ \E c \in Collections : path[1] = Text(c)
            /\ Len(path) = 3 /\ path[2] # Empty /\ path[3] # Empty
<1>1. /\ Len(rule.path) = Len(path)
      /\ \A i \in 1 .. Len(path) : rule.path[i] = Wild => path[i] # Empty
      /\ \A i \in 1 .. Len(path) : rule.path[i] # Wild => path[i] = rule.path[i]
  <2>1. DOMAIN path = 1 .. Len(path)
    OBVIOUS
  <2> QED BY <2>1 DEF Fits
<1>2. /\ Text("directories") # Wild /\ Empty # Wild
      /\ \A c \in Collections : Text(c) # Wild /\ Text(c) # Text("directories")
  BY TextsDiffer, Zenon DEF Wild, Empty, Collections
<1>3. Shape(rule.resource, rule.path)
  BY RuleShapes
<1> DEFINE p == rule.path
           q == rule.resource
<1> HIDE DEF p, q
<1>4. /\ Len(p) = Len(path) /\ Shape(q, p)
      /\ \A i \in 1 .. Len(path) : p[i] = Wild => path[i] # Empty
      /\ \A i \in 1 .. Len(path) : p[i] # Wild => path[i] = p[i]
  BY <1>1, <1>3 DEF p, q
<1>5. CASE \E c \in Collections : p[1] = Text(c)
  <2>1. PICK c \in Collections :
          /\ p[1] = Text(c)
          /\ \/ q = "VoiceMessages" /\ Len(p) = 1
             \/ q = "VoiceMessages" /\ Len(p) = 2 /\ p[2] = Empty
             \/ q = "VoiceMessage" /\ Len(p) = 2 /\ p[2] = Wild
             \/ q = "VoiceMessageMark" /\ Len(p) = 3 /\ p[2] = Wild /\ p[3] = Wild
    BY <1>2, <1>4, <1>5 DEF Shape
  <2>2. path[1] = Text(c)
    BY <1>2, <1>4, <2>1
  <2>3. CASE q = "VoiceMessages"
    <3>1. Len(path) = 1 \/ (Len(path) = 2 /\ p[2] = Empty)
      BY <1>4, <2>1, <2>3
    <3>2. Len(path) = 1 \/ (Len(path) = 2 /\ path[2] = Empty)
      BY <1>2, <1>4, <3>1
    <3> QED BY <2>2, <2>3, <3>2 DEF q
  <2>4. CASE q = "VoiceMessage"
    <3>1. Len(path) = 2 /\ path[2] # Empty
      BY <1>4, <2>1, <2>4
    <3> QED BY <2>2, <2>4, <3>1 DEF q
  <2>5. CASE q = "VoiceMessageMark"
    <3>1. Len(path) = 3 /\ path[2] # Empty /\ path[3] # Empty
      BY <1>4, <2>1, <2>5
    <3> QED BY <2>2, <2>5, <3>1 DEF q
  <2> QED BY <2>1, <2>3, <2>4, <2>5
<1>6. CASE p[1] = Text("directories") /\ q = "CallLogs"
  BY <1>2, <1>4, <1>6 DEF Shape, p, q
<1>7. CASE p[1] = Text("directories") /\ q = "CallLogsList"
  <2>1. Len(p) = 3 /\ p[3] = Wild
    BY <1>2, <1>4, <1>7 DEF Shape
  <2>2. path[1] = Text("directories") /\ Len(path) = 3 /\ path[3] # Empty
    BY <1>2, <1>4, <1>7, <2>1
  <2> QED BY <1>7, <2>2 DEF q
<1> QED BY <1>4, <1>5, <1>6, <1>7 DEF Shape

(* At most one resource is asked.                                          *)
LEMMA OneResource ==
  ASSUME NEW S, NEW path \in Seq(S), NEW rule \in Rules, NEW other \in Rules,
         Fits(path, rule), Fits(path, other)
  PROVE  rule.resource = other.resource
<1>1. \A c \in Collections : Text(c) # Text("directories")
  BY TextsDiffer DEF Collections
<1> QED BY <1>1, FitsShape


(* What is taken for an operation is taken for no other.                   *)
LEMMA SpelledOnce ==
  ASSUME NEW segment, NEW name, NEW other,
         name \in {"markasread", "markasunread", "markallasread", "markallasunread",
                  "placed", "received", "missed"},
         other \in {"markasread", "markasunread", "markallasread", "markallasunread",
                   "placed", "received", "missed"},
         Spells(segment, name), Spells(segment, other)
  PROVE  name = other
<1> DEFINE Names(n) == {Text(n), Text(CASE n = "markasread" -> "MarkAsRead"
                                        [] n = "markasunread" -> "MarkAsUnread"
                                        [] n = "markallasread" -> "MarkAllAsRead"
                                        [] n = "markallasunread" -> "MarkAllAsUnread"
                                        [] n = "placed" -> "Placed"
                                        [] n = "received" -> "Received"
                                        [] n = "missed" -> "Missed")}
<1>1. segment \in Names(name) /\ segment \in Names(other)
  BY DEF Spells
<1>2. \A s, t : s # t => Text(s) # Text(t)
  BY TextsDiffer
<1> QED BY <1>1, <1>2

LEMMA OneOperation ==
  ASSUME NEW resource, NEW method, NEW path, NEW r, NEW t,
         Takes(resource, method, path, r), Takes(resource, method, path, t)
  PROVE  r = t
<1> DEFINE last == path[Len(path)]
           key == path[Len(path) - 1]
<1> HIDE DEF last, key
<1>0. \A segment, j, k : j \in ParseKey(segment) /\ k \in ParseKey(segment) => j = k
  BY DEF ParseKey
<1>1. CASE resource = "CallLogs"
  BY <1>1 DEF Takes, CallLogsTakes
<1>2. CASE resource = "VoiceMessages"
  BY <1>2 DEF Takes, VoiceMessagesTakes
<1>3. CASE resource = "CallLogsList"
  <2>1. PICK a \in {"placed", "received", "missed"} :
          Spells(last, a) /\ r = [op |-> "calllogs", of |-> a]
    BY <1>3 DEF Takes, CallLogsListTakes, last
  <2>2. PICK b \in {"placed", "received", "missed"} :
          Spells(last, b) /\ t = [op |-> "calllogs", of |-> b]
    BY <1>3 DEF Takes, CallLogsListTakes, last
  <2> QED BY <2>1, <2>2, SpelledOnce
<1>4. CASE resource = "VoiceMessage"
  <2>1. ~ (Spells(last, "markallasread") /\ Spells(last, "markallasunread"))
    BY SpelledOnce
  <2> QED BY <1>0, <1>4, <2>1 DEF Takes, VoiceMessageTakes, last
<1>5. CASE resource = "VoiceMessageMark"
  <2>1. ~ (Spells(last, "markasread") /\ Spells(last, "markasunread"))
    BY SpelledOnce
  <2> QED BY <1>0, <1>5, <2>1 DEF Takes, VoiceMessageMarkTakes, last, key
<1> QED BY <1>1, <1>2, <1>3, <1>4, <1>5 DEF Takes

(* A request means one thing, whatever path it has: no two rules fit it    *)
(* that would have different resources serve it, and no resource takes it  *)
(* for two operations (routes.py:39-98, http.py:128-151, 243-356).         *)
THEOREM RequestsMeanOneThing ==
  ASSUME NEW method, NEW S, NEW path \in Seq(S),
         NEW r \in Asks(method, path), NEW t \in Asks(method, path)
  PROVE  r = t
<1>1. PICK rule \in Rules : Fits(path, rule) /\ Takes(rule.resource, method, path, r)
  BY DEF Asks
<1>2. PICK other \in Rules : Fits(path, other) /\ Takes(other.resource, method, path, t)
  BY DEF Asks
<1> QED BY <1>1, <1>2, OneResource, OneOperation

LEMMA RequestTypes ==
  ASSUME NEW k \in Keys
  PROVE  /\ [op |-> "play", key |-> k] \in Requests
         /\ [op |-> "delete", key |-> k] \in Requests
         /\ [op |-> "mark", key |-> k, to |-> "old"] \in Requests
         /\ [op |-> "mark", key |-> k, to |-> "new"] \in Requests
  BY DEF Requests

(* What the link of a message is for.                                      *)
LEMMA LinkAsks ==
  ASSUME NEW k \in Keys, NEW method, NEW r
  PROVE  r \in Asks(method, MessagePath(k)) <=>
            r \in Requests \union CallLogRequests /\ Takes("VoiceMessage", method, MessagePath(k), r)
<1> DEFINE key == BuildKey(k)
           path == MessagePath(k)
           rule == Rule("VoiceMessage", <<Text("voicemessagingmessages"), Wild>>)
           Segments == {Text("voicemessagingmessages"), key}
<1>1. path \in Seq(Segments) /\ Len(path) = 2 /\ path[2] = key /\ path[1] = Text("voicemessagingmessages")
  BY DEF MessagePath
<1>2. rule \in Rules
  BY RulesListed, Zenon DEF Collections
<1>3. rule.resource = "VoiceMessage" /\ Len(rule.path) = 2
      /\ rule.path[1] = Text("voicemessagingmessages") /\ rule.path[2] = Wild
  BY DEF Rule
<1>4. key # Empty /\ Text("voicemessagingmessages") # Wild
  BY KeyParsed, TextsDiffer, Zenon DEF Empty, Wild
<1> HIDE DEF key, path, rule
<1>5. Fits(path, rule)
  <2>1. DOMAIN path = 1 .. 2
    BY <1>1
  <2> QED BY <1>1, <1>3, <1>4, <2>1 DEF Fits
<1>6. \A other \in Rules : Fits(path, other) => other.resource = "VoiceMessage"
  BY <1>1, <1>2, <1>3, <1>5, OneResource
<1>7. r \in Asks(method, path) <=>
         r \in Requests \union CallLogRequests /\ Takes("VoiceMessage", method, path, r)
  BY <1>2, <1>3, <1>5, <1>6 DEF Asks
<1> QED BY <1>7 DEF path

(* What the link with an action is for.                                    *)
LEMMA MarkAsks ==
  ASSUME NEW k \in Keys, NEW a \in {"MarkAsRead", "MarkAsUnread"}, NEW method, NEW r
  PROVE  r \in Asks(method, MessagePath(k) \o <<Text(a)>>) <=>
            /\ r \in Requests \union CallLogRequests
            /\ Takes("VoiceMessageMark", method, <<Text("voicemessagingmessages"), BuildKey(k), Text(a)>>, r)
<1> DEFINE key == BuildKey(k)
           path == <<Text("voicemessagingmessages"), key, Text(a)>>
           rule == Rule("VoiceMessageMark", <<Text("voicemessagingmessages"), Wild, Wild>>)
           Segments == {Text("voicemessagingmessages"), key, Text(a)}
<1>0. MessagePath(k) \o <<Text(a)>> = path
  BY Join DEF MessagePath
<1>1. /\ path \in Seq(Segments) /\ Len(path) = 3
      /\ path[1] = Text("voicemessagingmessages") /\ path[2] = key /\ path[3] = Text(a)
  OBVIOUS
<1>2. rule \in Rules
  BY RulesListed, Zenon DEF Collections
<1>3. /\ rule.resource = "VoiceMessageMark" /\ Len(rule.path) = 3
      /\ rule.path[1] = Text("voicemessagingmessages")
      /\ rule.path[2] = Wild /\ rule.path[3] = Wild
  BY DEF Rule
<1>4. /\ key # Empty /\ Text("voicemessagingmessages") # Wild
      /\ Text("MarkAsRead") # Empty /\ Text("MarkAsUnread") # Empty
  BY KeyParsed, TextsDiffer, Zenon DEF Empty, Wild
<1> HIDE DEF key, path, rule
<1>5. Fits(path, rule)
  <2>1. DOMAIN path = 1 .. 3
    BY <1>1
  <2> QED BY <1>1, <1>3, <1>4, <2>1 DEF Fits
<1>6. \A other \in Rules : Fits(path, other) => other.resource = "VoiceMessageMark"
  BY <1>1, <1>2, <1>3, <1>5, OneResource
<1>7. r \in Asks(method, path) <=>
         r \in Requests \union CallLogRequests /\ Takes("VoiceMessageMark", method, path, r)
  BY <1>2, <1>3, <1>5, <1>6 DEF Asks
<1> QED BY <1>0, <1>7 DEF path, key

(* The link of every message leads back to it.                             *)
LEMMA LinkLeadsBack ==
  ASSUME NEW k \in Keys
  PROVE  k \in LeadBack
<1> DEFINE path == MessagePath(k)
           key == BuildKey(k)
<1>1. Len(path) = 2 /\ path[2] = key
  BY DEF MessagePath
<1> HIDE DEF key
<1>2. \A name \in {"markallasread", "markallasunread"} : ~Spells(key, name)
  BY KeyParsed DEF Spells, key
<1>0. ParseKey(key) = {k}
  BY KeyParsed DEF key
<1>3. \A method, r : Takes("VoiceMessage", method, path, r) <=>
         \/ method = "GET" /\ r = [op |-> "play", key |-> k]
         \/ method = "DELETE" /\ r = [op |-> "delete", key |-> k]
  <2> HIDE DEF path
  <2> QED BY <1>0, <1>1, <1>2 DEF Takes, VoiceMessageTakes
<1>4. /\ Asks("GET", path) = {[op |-> "play", key |-> k]}
      /\ Asks("DELETE", path) = {[op |-> "delete", key |-> k]}
      /\ Asks("PUT", path) = {}
  <2>1. \A method, r : r \in Asks(method, path) <=>
           r \in Requests \union CallLogRequests /\ Takes("VoiceMessage", method, path, r)
    BY LinkAsks
  <2> HIDE DEF path
  <2>2. [op |-> "play", key |-> k] \in Requests /\ [op |-> "delete", key |-> k] \in Requests
    BY RequestTypes
  <2>3. "GET" # "DELETE" /\ "GET" # "PUT" /\ "DELETE" # "PUT"
    OBVIOUS
  <2>4. ASSUME NEW r PROVE Takes("VoiceMessage", "GET", path, r) <=> r = [op |-> "play", key |-> k]
    BY <1>3, <2>3, Zenon
  <2>5. ASSUME NEW r PROVE Takes("VoiceMessage", "DELETE", path, r) <=> r = [op |-> "delete", key |-> k]
    BY <1>3, <2>3, SMT
  <2>6. ASSUME NEW r PROVE ~ Takes("VoiceMessage", "PUT", path, r)
    BY <1>3, <2>3, Zenon
  <2> QED BY <2>1, <2>2, <2>4, <2>5, <2>6, Zenon
<1>5. ASSUME NEW a \in {"MarkAsRead", "MarkAsUnread"}, NEW name, NEW to,
             Spells(Text(a), name), name = "markasread" <=> to = "old",
             name \in {"markasread", "markasunread"}, to \in {"old", "new"}
      PROVE  Asks("PUT", path \o <<Text(a)>>) = {[op |-> "mark", key |-> k, to |-> to]}
  <2> DEFINE mark == <<Text("voicemessagingmessages"), key, Text(a)>>
  <2>1. Len(mark) = 3 /\ mark[2] = key /\ mark[3] = Text(a)
    OBVIOUS
  <2>2. \A r : r \in Asks("PUT", path \o <<Text(a)>>) <=>
           r \in Requests \union CallLogRequests /\ Takes("VoiceMessageMark", "PUT", mark, r)
    BY MarkAsks DEF key
  <2> HIDE DEF mark
  <2>3. \A r : Takes("VoiceMessageMark", "PUT", mark, r) <=>
           \/ Spells(Text(a), "markasread") /\ r = [op |-> "mark", key |-> k, to |-> "old"]
           \/ Spells(Text(a), "markasunread") /\ r = [op |-> "mark", key |-> k, to |-> "new"]
    BY <1>0, <2>1 DEF Takes, VoiceMessageMarkTakes
  <2>4. \A other \in {"markasread", "markasunread"} : Spells(Text(a), other) => other = name
    BY <1>5, SpelledOnce
  <2>5. \A r : Takes("VoiceMessageMark", "PUT", mark, r) <=> r = [op |-> "mark", key |-> k, to |-> to]
    BY <1>5, <2>3, <2>4
  <2>6. [op |-> "mark", key |-> k, to |-> to] \in Requests
    BY <1>5, RequestTypes
  <2> QED BY <2>2, <2>5, <2>6
<1>6. Spells(Text("MarkAsRead"), "markasread") /\ Spells(Text("MarkAsUnread"), "markasunread")
  BY DEF Spells
<1> QED BY <1>4, <1>5, <1>6 DEF LeadBack

(* Which resource serves the rest of a path after the collection.          *)
Serves(resource, rest) ==
    \/ /\ resource = "VoiceMessages"
       /\ Len(rest) = 0 \/ (Len(rest) = 1 /\ rest[1] = Empty)
    \/ resource = "VoiceMessage" /\ Len(rest) = 1 /\ rest[1] # Empty
    \/ resource = "VoiceMessageMark" /\ Len(rest) = 2 /\ rest[1] # Empty /\ rest[2] # Empty

LEMMA CollectionPath ==
  ASSUME NEW c, NEW S, NEW rest \in Seq(S)
  PROVE  /\ <<Text(c)>> \o rest \in Seq(S \union {Text(c)})
         /\ Len(<<Text(c)>> \o rest) = Len(rest) + 1
         /\ (<<Text(c)>> \o rest)[1] = Text(c)
         /\ \A i \in 1 .. Len(rest) : (<<Text(c)>> \o rest)[i + 1] = rest[i]
<1> DEFINE T == S \union {Text(c)}
<1>1. <<Text(c)>> \in Seq(T) /\ rest \in Seq(T) /\ Len(rest) \in Nat
  OBVIOUS
<1>2. Len(<<Text(c)>>) = 1 /\ <<Text(c)>>[1] = Text(c)
  OBVIOUS
<1> HIDE DEF T
<1>3. /\ <<Text(c)>> \o rest \in Seq(T)
      /\ Len(<<Text(c)>> \o rest) = Len(<<Text(c)>>) + Len(rest)
      /\ \A i \in 1 .. Len(<<Text(c)>>) + Len(rest) : (<<Text(c)>> \o rest)[i] =
             IF i <= Len(<<Text(c)>>) THEN <<Text(c)>>[i] ELSE rest[i - Len(<<Text(c)>>)]
  BY <1>1, ConcatProperties
<1> DEFINE path == <<Text(c)>> \o rest
           head == <<Text(c)>>
<1> HIDE DEF path, head
<1>4. /\ Len(path) = 1 + Len(rest)
      /\ \A i \in 1 .. 1 + Len(rest) : path[i] = IF i <= 1 THEN head[i] ELSE rest[i - 1]
  BY <1>2, <1>3 DEF path, head
<1>5. Len(path) = Len(rest) + 1 /\ path[1] = head[1] /\ \A i \in 1 .. Len(rest) : path[i + 1] = rest[i]
  BY <1>1, <1>4
<1> QED BY <1>2, <1>3, <1>5 DEF path, head, T

LEMMA CollectionServed ==
  ASSUME NEW c \in Collections, NEW S, NEW rest \in Seq(S), NEW resource
  PROVE  (\E rule \in Rules : Fits(<<Text(c)>> \o rest, rule) /\ rule.resource = resource)
            <=> Serves(resource, rest)
<1> DEFINE path == <<Text(c)>> \o rest
           T == S \union {Text(c)}
<1>1. /\ path \in Seq(T) /\ Len(path) = Len(rest) + 1 /\ path[1] = Text(c) /\ Len(rest) \in Nat
      /\ \A i \in 1 .. Len(rest) : path[i + 1] = rest[i]
  BY CollectionPath
<1> HIDE DEF path, T
<1>2. Text(c) # Text("directories") /\ Text(c) # Wild
  BY TextsDiffer, Zenon DEF Wild, Collections
<1>3. ASSUME NEW rule \in Rules, Fits(path, rule) PROVE Serves(rule.resource, rest)
  <2>1. \/ /\ rule.resource = "VoiceMessages"
           /\ Len(path) = 1 \/ (Len(path) = 2 /\ path[2] = Empty)
        \/ rule.resource = "VoiceMessage" /\ Len(path) = 2 /\ path[2] # Empty
        \/ /\ rule.resource = "VoiceMessageMark"
           /\ Len(path) = 3 /\ path[2] # Empty /\ path[3] # Empty
    BY <1>1, <1>2, <1>3, FitsShape
  <2>2. Len(rest) = Len(path) - 1
    BY <1>1
  <2>3. CASE Len(path) = 1
    BY <2>1, <2>2, <2>3 DEF Serves
  <2>4. CASE Len(path) = 2
    <3>1. Len(rest) = 1 /\ path[2] = rest[1]
      BY <1>1, <2>2, <2>4
    <3> QED BY <2>1, <2>4, <3>1 DEF Serves
  <2>5. CASE Len(path) = 3
    <3>1. Len(rest) = 2 /\ path[1 + 1] = rest[1] /\ path[2 + 1] = rest[2]
      <4>1. 1 \in 1 .. Len(rest) /\ 2 \in 1 .. Len(rest)
        BY <2>2, <2>5
      <4> QED BY <1>1, <2>2, <2>5, <4>1
    <3>2. path[2] = rest[1] /\ path[3] = rest[2]
      BY <3>1
    <3> QED BY <2>1, <2>5, <3>1, <3>2 DEF Serves
  <2> QED BY <2>1, <2>3, <2>4, <2>5
<1>4. ASSUME Serves(resource, rest) PROVE \E rule \in Rules : Fits(path, rule) /\ rule.resource = resource
  <2>1. /\ Rule("VoiceMessages", <<Text(c)>>) \in Rules
        /\ Rule("VoiceMessages", <<Text(c), Empty>>) \in Rules
        /\ Rule("VoiceMessage", <<Text(c), Wild>>) \in Rules
        /\ Rule("VoiceMessageMark", <<Text(c), Wild, Wild>>) \in Rules
    BY RulesListed, Zenon
  <2>2. \A a, b : Rule(a, b).resource = a /\ Rule(a, b).path = b
    BY DEF Rule
  <2>3. DOMAIN path = 1 .. Len(path)
    BY <1>1
  <2>4. ASSUME NEW rule \in Rules, rule.resource = resource, Len(rule.path) = Len(path),
               rule.path[1] = Text(c),
               \A i \in 1 .. Len(rest) :
                  IF rule.path[i + 1] = Wild THEN rest[i] # Empty ELSE rest[i] = rule.path[i + 1]
        PROVE  Fits(path, rule) /\ rule.resource = resource
    <3>1. ASSUME NEW i \in 1 .. Len(path)
          PROVE  IF rule.path[i] = Wild THEN path[i] # Empty ELSE path[i] = rule.path[i]
      <4>1. CASE i = 1
        BY <1>1, <1>2, <2>4, <4>1
      <4>2. CASE i # 1
        <5>1. i - 1 \in 1 .. Len(rest) /\ (i - 1) + 1 = i
          BY <1>1, <4>2
        <5> QED BY <1>1, <2>4, <5>1
      <4> QED BY <4>1, <4>2
    <3> QED BY <2>3, <2>4, <3>1 DEF Fits
  <2>5. CASE resource = "VoiceMessages" /\ Len(rest) = 0
    <3> DEFINE rule == Rule("VoiceMessages", <<Text(c)>>)
    <3>1. rule.resource = resource /\ Len(rule.path) = Len(path) /\ rule.path[1] = Text(c)
      BY <1>1, <2>2, <2>5
    <3> HIDE DEF rule
    <3> QED BY <2>1, <2>4, <2>5, <3>1 DEF rule
  <2>6. CASE resource = "VoiceMessages" /\ Len(rest) = 1 /\ rest[1] = Empty
    <3> DEFINE rule == Rule("VoiceMessages", <<Text(c), Empty>>)
    <3>1. /\ rule.resource = resource /\ Len(rule.path) = Len(path)
          /\ rule.path[1] = Text(c) /\ rule.path[2] = Empty
      BY <1>1, <2>2, <2>6
    <3>2. rule \in Rules /\ Empty # Wild
      BY <2>1, TextsDiffer, Zenon DEF Empty, Wild
    <3> HIDE DEF rule
    <3> QED BY <2>4, <2>6, <3>1, <3>2
  <2>7. CASE resource = "VoiceMessage"
    <3> DEFINE rule == Rule("VoiceMessage", <<Text(c), Wild>>)
    <3>0. Len(rest) = 1 /\ rest[1] # Empty
      BY <1>4, <2>7 DEF Serves
    <3>1. /\ rule.resource = resource /\ Len(rule.path) = Len(path)
          /\ rule.path[1] = Text(c) /\ rule.path[2] = Wild
      BY <1>1, <2>2, <2>7, <3>0
    <3>2. rule \in Rules
      BY <2>1
    <3> HIDE DEF rule
    <3> QED BY <2>4, <3>0, <3>1, <3>2
  <2>8. CASE resource = "VoiceMessageMark"
    <3> DEFINE rule == Rule("VoiceMessageMark", <<Text(c), Wild, Wild>>)
    <3>0. Len(rest) = 2 /\ rest[1] # Empty /\ rest[2] # Empty
      BY <1>4, <2>8 DEF Serves
    <3>1. /\ rule.resource = resource /\ Len(rule.path) = Len(path)
          /\ rule.path[1] = Text(c) /\ rule.path[2] = Wild /\ rule.path[3] = Wild
      BY <1>1, <2>2, <2>8, <3>0
    <3>2. rule \in Rules
      BY <2>1
    <3> HIDE DEF rule
    <3> QED BY <2>4, <3>0, <3>1, <3>2
  <2> QED BY <1>4, <2>5, <2>6, <2>7, <2>8 DEF Serves
<1> QED BY <1>3, <1>4 DEF path

(* A list and the actions its links lead to cannot disagree over the       *)
(* spelling of the collection: both mean the same, whatever comes after it *)
(* (routes.py:29-36).                                                      *)
THEOREM SpellingsAgree ==
  ASSUME NEW method, NEW S, NEW rest \in Seq(S)
  PROVE  Asks(method, <<Text("VoiceMessagingMessages")>> \o rest)
            = Asks(method, <<Text("voicemessagingmessages")>> \o rest)
<1> DEFINE one == <<Text("VoiceMessagingMessages")>> \o rest
           two == <<Text("voicemessagingmessages")>> \o rest
<1>1. /\ Len(one) = Len(rest) + 1 /\ Len(two) = Len(rest) + 1 /\ Len(rest) \in Nat
      /\ \A i \in 1 .. Len(rest) : one[i + 1] = rest[i] /\ two[i + 1] = rest[i]
  BY CollectionPath
<1>2. ASSUME NEW resource
      PROVE  /\ (\E rule \in Rules : Fits(one, rule) /\ rule.resource = resource)
                    <=> Serves(resource, rest)
             /\ (\E rule \in Rules : Fits(two, rule) /\ rule.resource = resource)
                    <=> Serves(resource, rest)
  BY CollectionServed DEF Collections
<1> HIDE DEF one, two
<1>3. ASSUME NEW resource, NEW r, Serves(resource, rest)
      PROVE  Takes(resource, method, one, r) <=> Takes(resource, method, two, r)
  <2>1. CASE resource = "VoiceMessages"
    BY <2>1 DEF Takes
  <2>2. CASE resource = "VoiceMessage"
    <3>1. one[Len(one)] = two[Len(two)]
      BY <1>1, <1>3, <2>2 DEF Serves
    <3> QED BY <2>2, <3>1 DEF Takes
  <2>3. CASE resource = "VoiceMessageMark"
    <3>1. one[Len(one)] = two[Len(two)] /\ one[Len(one) - 1] = two[Len(two) - 1]
      BY <1>1, <1>3, <2>3 DEF Serves
    <3> QED BY <2>3, <3>1 DEF Takes
  <2> QED BY <1>3, <2>1, <2>2, <2>3 DEF Serves
<1>4. ASSUME NEW r PROVE r \in Asks(method, one) <=> r \in Asks(method, two)
  BY <1>2, <1>3 DEF Asks
<1> QED BY <1>4 DEF one, two

LEMMA AskedSo ==
  ASSUME NEW method \in {"GET", "PUT", "DELETE"}, NEW path \in Paths, NEW r \in Asks(method, path)
  PROVE  r \in Askable
  BY DEF Askable

LEMMA CallLogsPath ==
  ASSUME NEW suffix,
         suffix = <<Empty>> \/ (\E s \in {"Placed", "Received", "Missed"} : suffix = <<Text(s)>>)
  PROVE  CALLLOGS \o suffix \in Paths
<1> DEFINE Suffixes == {<<>>, <<Empty>>, <<Text("Placed")>>, <<Text("Received")>>, <<Text("Missed")>>}
<1>1. suffix \in Suffixes
  BY Zenon
<1> HIDE DEF Suffixes
<1>2. CALLLOGS \o suffix \in {CALLLOGS \o s : s \in Suffixes}
  BY <1>1
<1>3. {CALLLOGS \o s : s \in Suffixes} \subseteq Paths
  <2> DEFINE ofLogs == {CALLLOGS \o s : s \in Suffixes}
             collection == {<<Text("VoiceMessagingMessages")>> \o s : s \in {<<>>, <<Empty>>}}
             actions == {<<Text("VoiceMessagingMessages"), Text(a)>> : a \in {"MarkAllAsRead", "MarkAllAsUnread"}}
             links == {MessagePath(k) : k \in Keys}
             marks == {MessagePath(k) \o <<Text(a)>> : k \in Keys, a \in {"MarkAsRead", "MarkAsUnread"}}
  <2>1. Paths = ofLogs \union collection \union actions \union links \union marks
    BY DEF Paths, Suffixes
  <2> HIDE DEF ofLogs, collection, actions, links, marks
  <2>2. ofLogs \subseteq Paths
    BY <2>1
  <2> QED BY <2>2 DEF ofLogs
<1> QED BY <1>2, <1>3

(* The call logs: the combined list and one for each type.                 *)
LEMMA CallLogsAsked ==
  ASSUME NEW of \in {"all", "placed", "received", "missed"}
  PROVE  [op |-> "calllogs", of |-> of] \in Askable
<1> DEFINE r == [op |-> "calllogs", of |-> of]
           d == Text("directories")
           l == Text("CallLogs")
<1>1. r \in Requests \union CallLogRequests
  BY DEF CallLogRequests
<1>2. d # Wild /\ l # Wild /\ Empty # Wild
  BY TextsDiffer, Zenon DEF Empty, Wild
<1>3. CALLLOGS \o <<Empty>> = <<d, l, Empty>> /\ \A s : CALLLOGS \o <<Text(s)>> = <<d, l, Text(s)>>
  BY Join DEF CALLLOGS
<1> HIDE DEF r, d, l
<1>4. CASE of = "all"
  <2> DEFINE path == <<d, l, Empty>>
             rule == Rule("CallLogs", path)
  <2>1. path \in Paths
    BY <1>3, CallLogsPath
  <2>2. rule \in Rules
    BY RulesListed, Zenon DEF d, l
  <2>3. rule.resource = "CallLogs" /\ rule.path = path
    BY DEF Rule
  <2>4. /\ Len(path) = 3 /\ DOMAIN path = 1 .. 3
        /\ path[1] = d /\ path[2] = l /\ path[3] = Empty
    OBVIOUS
  <2> HIDE DEF path, rule
  <2>5. Fits(path, rule)
    BY <1>2, <2>3, <2>4 DEF Fits
  <2>6. Takes("CallLogs", "GET", path, r)
    BY <1>4 DEF Takes, CallLogsTakes, r
  <2> QED BY <1>1, <2>1, <2>2, <2>3, <2>5, <2>6, AskedSo DEF Asks, r
<1>5. ASSUME NEW s \in {"Placed", "Received", "Missed"}, Spells(Text(s), of), of # "all"
      PROVE  r \in Askable
  <2> DEFINE path == <<d, l, Text(s)>>
             rule == Rule("CallLogsList", <<d, l, Wild>>)
  <2>1. path \in Paths
    BY <1>3, CallLogsPath
  <2>2. rule \in Rules
    BY RulesListed, Zenon DEF d, l
  <2>3. /\ rule.resource = "CallLogsList" /\ Len(rule.path) = 3
        /\ rule.path[1] = d /\ rule.path[2] = l /\ rule.path[3] = Wild
    BY DEF Rule
  <2>4. /\ Len(path) = 3 /\ DOMAIN path = 1 .. 3
        /\ path[1] = d /\ path[2] = l /\ path[3] = Text(s)
    OBVIOUS
  <2>5. Text("Placed") # Empty /\ Text("Received") # Empty /\ Text("Missed") # Empty
    BY TextsDiffer, Zenon DEF Empty
  <2> HIDE DEF path, rule
  <2>6. Fits(path, rule)
    BY <1>2, <2>3, <2>4, <2>5 DEF Fits
  <2>7. Takes("CallLogsList", "GET", path, r)
    BY <1>5, <2>4 DEF Takes, CallLogsListTakes, r
  <2> QED BY <1>1, <2>1, <2>2, <2>3, <2>6, <2>7, AskedSo DEF Asks
<1>6. /\ Spells(Text("Placed"), "placed") /\ Spells(Text("Received"), "received")
      /\ Spells(Text("Missed"), "missed")
  BY DEF Spells
<1> QED BY <1>4, <1>5, <1>6 DEF r

(* The mark-alls, and the list of the messages.                            *)
LEMMA ListAsked == [op |-> "list"] \in Askable
<1> DEFINE path == <<Text("VoiceMessagingMessages")>>
           rule == Rule("VoiceMessages", path)
<1>1. path \in Paths
  <2>1. path = path \o << >>
    BY Join
  <2> HIDE DEF path
  <2> QED BY <2>1 DEF Paths, path
<1>2. rule \in Rules
  BY RulesListed, Zenon DEF Collections
<1>3. rule.resource = "VoiceMessages" /\ rule.path = path
  BY DEF Rule
<1>4. Len(path) = 1 /\ DOMAIN path = 1 .. 1 /\ path[1] = Text("VoiceMessagingMessages")
  OBVIOUS
<1>5. Text("VoiceMessagingMessages") # Wild
  BY TextsDiffer, Zenon DEF Wild
<1> HIDE DEF path, rule
<1>6. Fits(path, rule)
  BY <1>3, <1>4, <1>5 DEF Fits
<1>7. Takes("VoiceMessages", "GET", path, [op |-> "list"])
  BY DEF Takes, VoiceMessagesTakes
<1>8. [op |-> "list"] \in Requests
  BY DEF Requests
<1> QED BY <1>1, <1>2, <1>3, <1>6, <1>7, <1>8, AskedSo DEF Asks

LEMMA MarkAllAsked ==
  ASSUME NEW to \in {"old", "new"}
  PROVE  [op |-> "markall", to |-> to] \in Askable
<1> DEFINE a == IF to = "old" THEN "MarkAllAsRead" ELSE "MarkAllAsUnread"
           path == <<Text("VoiceMessagingMessages"), Text(a)>>
           rule == Rule("VoiceMessage", <<Text("VoiceMessagingMessages"), Wild>>)
<1>1. path \in Paths
  BY DEF Paths
<1>2. rule \in Rules
  BY RulesListed, Zenon DEF Collections
<1>3. /\ rule.resource = "VoiceMessage" /\ Len(rule.path) = 2
      /\ rule.path[1] = Text("VoiceMessagingMessages") /\ rule.path[2] = Wild
  BY DEF Rule
<1>4. /\ Len(path) = 2 /\ DOMAIN path = 1 .. 2
      /\ path[1] = Text("VoiceMessagingMessages") /\ path[2] = Text(a)
  OBVIOUS
<1>5. /\ Text("VoiceMessagingMessages") # Wild
      /\ Text("MarkAllAsRead") # Empty /\ Text("MarkAllAsUnread") # Empty
  BY TextsDiffer, Zenon DEF Wild, Empty
<1>6. Text(a) # Empty
  BY <1>5
<1>7. Spells(Text(a), IF to = "old" THEN "markallasread" ELSE "markallasunread")
  BY DEF Spells
<1> HIDE DEF path, rule
<1>8. Fits(path, rule)
  BY <1>3, <1>4, <1>5, <1>6 DEF Fits
<1>9. Takes("VoiceMessage", "PUT", path, [op |-> "markall", to |-> to])
  BY <1>4, <1>7 DEF Takes, VoiceMessageTakes
<1>10. [op |-> "markall", to |-> to] \in Requests
  BY DEF Requests
<1> QED BY <1>1, <1>2, <1>3, <1>8, <1>9, <1>10, AskedSo DEF Asks

(* Nothing the resources do is out of a phone's reach: each operation, on  *)
(* each message and with each target, is what some URL means that a phone  *)
(* composes from the endpoints and the links (routes.py:39-98,             *)
(* http.py:128-151, 243-356, xml.py:88-90).                                *)
THEOREM EverythingCanBeAsked == Askable = Requests \union CallLogRequests
<1>1. Askable \subseteq Requests \union CallLogRequests
  BY DEF Askable, Asks
<1>2. ASSUME NEW r \in CallLogRequests PROVE r \in Askable
  BY CallLogsAsked DEF CallLogRequests
<1>3. ASSUME NEW k \in Keys
      PROVE  /\ [op |-> "play", key |-> k] \in Askable
             /\ [op |-> "delete", key |-> k] \in Askable
             /\ [op |-> "mark", key |-> k, to |-> "old"] \in Askable
             /\ [op |-> "mark", key |-> k, to |-> "new"] \in Askable
  <2>1. MessagePath(k) \in Paths
    BY DEF Paths
  <2>2. \A a \in {"MarkAsRead", "MarkAsUnread"} : MessagePath(k) \o <<Text(a)>> \in Paths
    BY DEF Paths
  <2>3. /\ [op |-> "play", key |-> k] \in Asks("GET", MessagePath(k))
        /\ [op |-> "delete", key |-> k] \in Asks("DELETE", MessagePath(k))
        /\ [op |-> "mark", key |-> k, to |-> "old"] \in Asks("PUT", MessagePath(k) \o <<Text("MarkAsRead")>>)
        /\ [op |-> "mark", key |-> k, to |-> "new"] \in Asks("PUT", MessagePath(k) \o <<Text("MarkAsUnread")>>)
    BY LinkLeadsBack DEF LeadBack
  <2> QED BY <2>1, <2>2, <2>3, AskedSo
<1>4. ASSUME NEW r \in Requests PROVE r \in Askable
  <2>1. CASE r \in [op : {"list"}]
    BY <2>1, ListAsked
  <2>2. CASE r \in [op : {"play", "delete"}, key : Keys]
    BY <1>3, <2>2
  <2>3. CASE r \in [op : {"mark"}, key : Keys, to : {"old", "new"}]
    BY <1>3, <2>3
  <2>4. CASE r \in [op : {"markall"}, to : {"old", "new"}]
    BY <2>4, MarkAllAsked
  <2> QED BY <2>1, <2>2, <2>3, <2>4 DEF Requests
<1> QED BY <1>1, <1>2, <1>4

(***************************************************************************)
(* Types                                                                   *)
(***************************************************************************)
Types ==
    /\ folder \in [Keys -> FolderTypes \union {"unsent", "gone"}]
    /\ personal \in [Phones -> Boxes \union {None}]
    /\ shared \subseteq Boxes
    /\ request \in [Phones -> Requests \union {None}]
    /\ pc \in [Phones -> {"idle", "rights", "reading", "acting"}]
    /\ reply \in [Phones -> {"none", "200", "204", "404", "500", "503"}]
    /\ left \in [Phones -> SUBSET Boxes]
    /\ seen \in [Phones -> SUBSET (Keys \X FolderTypes)]
    /\ todo \in [Phones -> SUBSET Keys]
    /\ ever \in [Phones -> SUBSET Boxes]
    /\ always \in [Phones -> SUBSET ({"personal", "shared"} \X Boxes)]
    /\ steady \in [Phones -> SUBSET Keys]
    /\ \A p \in Phones : request[p] = None <=> pc[p] = "idle"

LEMMA RequestFields ==
  ASSUME NEW r \in Requests
  PROVE  /\ r.op \in {"list", "play", "delete", "mark", "markall"}
         /\ Keyed(r) => r.key \in Keys
         /\ r.op \in {"mark", "markall"} => r.to \in {"old", "new"}
  BY DEF Requests, Keyed

LEMMA KeyBox ==
  ASSUME NEW k \in Keys
  PROVE  BoxOf(k) \in Boxes
  BY KeysAssumption DEF BoxOf

LEMMA BoxFolders ==
  ASSUME NEW b \in Boxes
  PROVE  Folders[b] \subseteq FolderTypes
  BY FoldersAssumption

(* What a box holds, and what of it a request wants.                       *)
LEMMA ContentsProps ==
  ASSUME Types, NEW b
  PROVE  /\ Contents(b) \subseteq Keys \X FolderTypes
         /\ \A k \in Keys : <<k, folder[k]>> \in Contents(b) <=> BoxOf(k) = b /\ Present(k)
         /\ {s[1] : s \in Contents(b)} = {k \in Keys : BoxOf(k) = b /\ Present(k)}
<1>1. \A k \in Keys : Present(k) <=> folder[k] \in FolderTypes
  BY DEF Types, Present, FolderTypes
<1>2. Contents(b) = {<<k, folder[k]>> : k \in {x \in Keys : BoxOf(x) = b /\ Present(x)}}
  BY DEF Contents
<1>3. Contents(b) \subseteq Keys \X FolderTypes
  BY <1>1, <1>2
<1>4. ASSUME NEW k \in Keys PROVE <<k, folder[k]>> \in Contents(b) <=> BoxOf(k) = b /\ Present(k)
  BY <1>2
<1>5. {s[1] : s \in Contents(b)} = {k \in Keys : BoxOf(k) = b /\ Present(k)}
  <2>1. ASSUME NEW s \in Contents(b) PROVE s[1] \in {k \in Keys : BoxOf(k) = b /\ Present(k)}
    BY <1>2
  <2>2. ASSUME NEW k \in Keys, BoxOf(k) = b, Present(k) PROVE k \in {s[1] : s \in Contents(b)}
    <3>1. <<k, folder[k]>> \in Contents(b) /\ <<k, folder[k]>>[1] = k
      BY <1>4, <2>2
    <3>2. QED
      BY <3>1
  <2>3. QED
    BY <2>1, <2>2
<1>6. QED
  BY <1>3, <1>4, <1>5

LEMMA WantedProps ==
  ASSUME Types, NEW b, NEW r \in Requests
  PROVE  /\ Wanted(r, Contents(b)) \subseteq {k \in Keys : BoxOf(k) = b /\ Present(k)}
         /\ r.op = "list" => Wanted(r, Contents(b)) = {}
         /\ r.op = "markall" => \A k \in Keys :
              BoxOf(k) = b /\ Present(k) =>
                 (k \in Wanted(r, Contents(b)) <=> ~(Heard(folder[k]) <=> r.to = "old"))
         /\ Keyed(r) => /\ Wanted(r, Contents(b)) \subseteq {r.key}
                        /\ BoxOf(r.key) = b /\ Present(r.key) => r.key \in Wanted(r, Contents(b))
<1>1. {s[1] : s \in Contents(b)} = {k \in Keys : BoxOf(k) = b /\ Present(k)}
  BY ContentsProps
<1>2. \A s \in Contents(b) : s[1] \in Keys /\ BoxOf(s[1]) = b /\ Present(s[1])
  BY <1>1
<1>3. CASE r.op = "list"
  BY <1>3 DEF Wanted, Keyed
<1>4. CASE r.op = "markall"
  <2>1. Wanted(r, Contents(b)) = {s[1] : s \in {x \in Contents(b) : OtherState(r, x[2])}}
    BY <1>4 DEF Wanted
  <2>2. ASSUME NEW k \in Keys, BoxOf(k) = b, Present(k)
        PROVE  k \in Wanted(r, Contents(b)) <=> ~(Heard(folder[k]) <=> r.to = "old")
    <3>1. folder[k] \in FolderTypes
      BY <2>2 DEF Types, Present
    <3>2. OtherState(r, folder[k]) <=> ~(Heard(folder[k]) <=> r.to = "old")
      BY <3>1 DEF OtherState, ReadFolder, Heard, FolderTypes
    <3>3. ASSUME OtherState(r, folder[k]) PROVE k \in Wanted(r, Contents(b))
      <4> DEFINE s == <<k, folder[k]>>
      <4>1. s \in Contents(b) /\ s[1] = k /\ s[2] = folder[k]
        BY <2>2, ContentsProps
      <4> HIDE DEF s
      <4> QED BY <2>1, <3>3, <4>1
    <3>4. ASSUME k \in Wanted(r, Contents(b)) PROVE OtherState(r, folder[k])
      <4>1. PICK s \in Contents(b) : s[1] = k /\ OtherState(r, s[2])
        BY <2>1, <3>4
      <4>2. s[2] = folder[k]
        BY <4>1 DEF Contents
      <4> QED BY <4>1, <4>2
    <3> QED BY <3>2, <3>3, <3>4
  <2>3. QED
    BY <1>2, <1>4, <2>1, <2>2 DEF Keyed
<1>5. CASE Keyed(r)
  <2>1. Wanted(r, Contents(b)) = {r.key} \intersect {s[1] : s \in Contents(b)}
    BY <1>5 DEF Wanted, Found, Keyed
  <2>2. QED
    BY <1>1, <1>5, <2>1, RequestFields DEF Keyed
<1>6. QED
  BY <1>3, <1>4, <1>5, RequestFields DEF Keyed

(* The rights of a phone's user are on boxes.                              *)
LEMMA RightsTyped ==
  ASSUME Types, NEW p \in Phones
  PROVE  /\ Rights(p) \subseteq {"personal", "shared"} \X Boxes
         /\ BoxesOf(Rights(p)) = PersonalOf(p) \union SharedWith(p)
         /\ PersonalOf(p) \subseteq Boxes /\ SharedWith(p) \subseteq Boxes
<1>1. PersonalOf(p) \subseteq Boxes /\ SharedWith(p) \subseteq Boxes
  BY DEF Types, PersonalOf, SharedWith
<1>2. ASSUME NEW b \in PersonalOf(p) \union SharedWith(p) PROVE b \in BoxesOf(Rights(p))
  <2>1. CASE b \in PersonalOf(p)
    <3>1. <<"personal", b>> \in Rights(p) /\ <<"personal", b>>[2] = b
      BY <2>1 DEF Rights
    <3> QED BY <3>1 DEF BoxesOf
  <2>2. CASE b \in SharedWith(p)
    <3>1. <<"shared", b>> \in Rights(p) /\ <<"shared", b>>[2] = b
      BY <2>2 DEF Rights
    <3> QED BY <3>1 DEF BoxesOf
  <2> QED BY <2>1, <2>2
<1>3. ASSUME NEW x \in Rights(p)
      PROVE  x[2] \in PersonalOf(p) \union SharedWith(p)
  BY DEF Rights
<1> QED BY <1>1, <1>2, <1>3 DEF Rights, BoxesOf

LEMMA TypesInit == Init => Types
  BY DEF Init, Types

(* An answer resets what the request held.                                 *)
LEMMA EndTyped ==
  ASSUME Types, NEW p \in Phones, NEW messages,
         NEW status \in {"200", "204", "404", "500", "503"}, End(p, status, messages),
         UNCHANGED rights, folder' \in [Keys -> FolderTypes \union {"unsent", "gone"}]
  PROVE  Types'
  BY DEF Types, End, Touches, rights

LEMMA TypesStep == Types /\ [Next]_vars => Types'
<1> SUFFICES ASSUME Types, [Next]_vars PROVE Types'
  OBVIOUS
<1>1. ASSUME NEW k \in Keys, Arrive(k) PROVE Types'
  BY <1>1, KeyBox, BoxFolders DEF Arrive, Types, rights, requests
<1>2. ASSUME NEW k \in Keys, DeletedElsewhere(k) PROVE Types'
  BY <1>2 DEF DeletedElsewhere, Types, rights, requests
<1>3. ASSUME NEW k \in Keys, MarkedElsewhere(k) PROVE Types'
  BY <1>3, KeyBox, BoxFolders DEF MarkedElsewhere, Types, rights, requests
<1>4. ASSUME RightsWatched, personal' \in [Phones -> Boxes \union {None}],
             shared' \subseteq Boxes
      PROVE  Types'
  <2>1. ASSUME NEW p \in Phones PROVE BoxesOf(Rights(p)') \subseteq Boxes
    BY <1>4 DEF BoxesOf, Rights, PersonalOf, SharedWith
  <2> QED BY <1>4, <2>1 DEF RightsWatched, Types
<1>5. ASSUME NEW p \in Phones, NEW b \in MayOwn(p), PersonalGoes(p, b) PROVE Types'
  BY <1>4, <1>5 DEF PersonalGoes, MayOwn, Types
<1>6. ASSUME NEW b \in Boxes, SharedOrNot(b) PROVE Types'
  BY <1>4, <1>6 DEF SharedOrNot, Types
<1>7. ASSUME NEW p \in Phones, NEW r \in Requests, Begin(p, r) PROVE Types'
  BY <1>7, RightsTyped, NoneAssumption DEF Begin, Touches, Types, rights
<1>8. ASSUME NEW p \in Phones, ReadShared(p) PROVE Types'
  <2> DEFINE boxes == Admitted(request[p], left[p] \union SharedWith(p))
  <2>1. CASE Keyed(request[p]) /\ boxes = {}
    BY <1>8, <2>1, EndTyped DEF ReadShared, Types
  <2>2. CASE ~(Keyed(request[p]) /\ boxes = {})
    <3>1. boxes \subseteq Boxes
      BY RightsTyped DEF Admitted, Types
    <3>2. Undisputed(p) \subseteq Keys
      BY DEF Undisputed, Types
    <3>3. /\ pc' = [pc EXCEPT ![p] = "reading"] /\ pc[p] = "rights"
          /\ left' = [left EXCEPT ![p] = boxes]
          /\ ever' = [ever EXCEPT ![p] = @ \intersect boxes]
          /\ always' = [always EXCEPT ![p] = {}]
          /\ UNCHANGED <<folder, personal, shared, request, reply, seen, todo>>
      BY <1>8, <2>2 DEF ReadShared, rights
    <3>4. steady' = [q \in Phones |-> IF q = p THEN Undisputed(p) ELSE steady[q] \ {}]
      BY <1>8, <2>2 DEF ReadShared, Touches
    <3> HIDE DEF boxes
    <3>5. steady' \in [Phones -> SUBSET Keys]
      BY <3>2, <3>4 DEF Types
    <3> QED BY <3>1, <3>3, <3>5 DEF Types
  <2> QED BY <2>1, <2>2
<1>9. ASSUME NEW p \in Phones, NEW b \in Boxes, ReadBox(p, b) PROVE Types'
  <2>0. request[p] \in Requests
    BY <1>9 DEF ReadBox, Types
  <2>1. Contents(b) \subseteq Keys \X FolderTypes
    BY ContentsProps
  <2>2. Wanted(request[p], Contents(b)) \subseteq Keys
    BY <2>0, WantedProps
  <2>3. CASE Keyed(request[p]) /\ Wanted(request[p], Contents(b)) = {}
    BY <1>9, <2>3, EndTyped DEF ReadBox, Types
  <2>4. CASE ~(Keyed(request[p]) /\ Wanted(request[p], Contents(b)) = {})
    BY <1>9, <2>1, <2>2, <2>4 DEF ReadBox, Types, rights
  <2> QED BY <2>3, <2>4
<1>10. ASSUME NEW p \in Phones, Finish(p) \/ BackendFails(p) PROVE Types'
  BY <1>10, EndTyped DEF Finish, BackendFails, Types
<1>11. ASSUME NEW p \in Phones, NEW k \in Keys, Play(p, k) \/ NoSuchFolder(p, k) \/ WentMeanwhile(p, k)
       PROVE  Types'
  BY <1>11, EndTyped DEF Play, NoSuchFolder, WentMeanwhile, Acts, Types
<1>12. ASSUME NEW p \in Phones, NEW k \in Keys, Delete(p, k) PROVE Types'
  BY <1>12, EndTyped DEF Delete, Acts, Types
<1>13. ASSUME NEW p \in Phones, NEW k \in Keys,
              Mark(p, k) \/ MarkNext(p, k) \/ AnswerLost(p, k)
       PROVE  Types'
  <2>1. request[p].op # "delete" => request[p].to \in {"old", "new"}
    BY <1>13, RequestFields DEF Mark, MarkNext, AnswerLost, Acts, Types
  <2>2. folder' \in [Keys -> FolderTypes \union {"unsent", "gone"}]
    BY <1>13, <2>1 DEF Mark, MarkNext, AnswerLost, Acts, Types, FolderTypes
  <2>3. CASE Mark(p, k)
    BY <2>2, <2>3, EndTyped DEF Mark, Acts
  <2>4. CASE MarkNext(p, k)
    BY <2>2, <2>4 DEF MarkNext, Acts, Touches, Types, rights
  <2>5. CASE AnswerLost(p, k)
    BY <2>2, <2>5, EndTyped DEF AnswerLost, Acts
  <2> QED BY <1>13, <2>3, <2>4, <2>5
<1>14. CASE UNCHANGED vars
  BY <1>14 DEF vars, Types
<1>15. QED
  BY <1>1, <1>2, <1>3, <1>5, <1>6, <1>7, <1>8, <1>9, <1>10, <1>11, <1>12, <1>13, <1>14
     DEF Next, AskedOfVoicemail, Serve

(***************************************************************************)
(* The invariant of one phone                                              *)
(***************************************************************************)
(* Where its request is, and what it may still act on.                     *)
Course(p) ==
    /\ pc[p] = "idle" => steady[p] = {}
    /\ pc[p] # "idle" => reply[p] = "none"
    /\ pc[p] = "acting" <=> todo[p] # {}
    /\ pc[p] \in {"idle", "rights"} => seen[p] = {}
    /\ pc[p] = "reading" /\ Keyed(request[p]) => left[p] = {BoxOf(request[p].key)}
    /\ todo[p] \subseteq {s[1] : s \in seen[p]}
    /\ todo[p] # {} => request[p].op # "list"
    /\ \A k \in todo[p] :
        /\ BoxOf(k) \notin left[p]
        /\ Keyed(request[p]) => k = request[p].key
        /\ request[p].op = "markall" =>
              \E s \in seen[p] : s[1] = k /\ Heard(s[2]) # (request[p].to = "old")

(* Its boxes are its user's.                                               *)
Owns(p) ==
    /\ personal[p] \in MayOwn(p)
    /\ \A b \in left[p] : b \in ever[p] /\ TenantOf[b] = TenantOf[p]
    /\ \A s \in seen[p] : BoxOf(s[1]) \in ever[p] /\ TenantOf[BoxOf(s[1])] = TenantOf[p]
    /\ pc[p] = "rights" =>
        /\ always[p] \subseteq Rights(p)
        /\ BoxesOf(Rights(p)) \subseteq ever[p]
        /\ \A b \in Boxes : <<"personal", b>> \in always[p] => b \in left[p]

(* What it knows of a message nobody else has touched.                     *)
Knows(p) ==
    \A k \in steady[p] :
        /\ Present(k)
        /\ pc[p] # "rights" /\ request[p].op = "list" =>
              BoxOf(k) \in left[p] \/ <<k, folder[k]>> \in seen[p]
        /\ pc[p] # "rights" /\ request[p].op = "markall" =>
              BoxOf(k) \in left[p] \/ k \in todo[p] \/ (Heard(folder[k]) <=> request[p].to = "old")

PhoneInv(p) == Course(p) /\ Owns(p) /\ Knows(p)

VoiceInv == Types /\ \A p \in Phones : PhoneInv(p)

LEMMA VoiceInit == Init => VoiceInv
<1> SUFFICES ASSUME Init PROVE VoiceInv
  OBVIOUS
<1>1. Types
  BY TypesInit
<1>2. ASSUME NEW p \in Phones PROVE PhoneInv(p)
  BY DEF Init, PhoneInv, Course, Owns, Knows
<1>3. QED
  BY <1>1, <1>2 DEF VoiceInv

(* What the others leave of a phone's request.                             *)
Undisturbed(p) ==
    /\ request'[p] = request[p] /\ pc'[p] = pc[p] /\ reply'[p] = reply[p]
    /\ left'[p] = left[p] /\ seen'[p] = seen[p] /\ todo'[p] = todo[p]
    /\ steady'[p] \subseteq steady[p]
    /\ \A k \in steady'[p] : folder'[k] = folder[k]

RightsKept(p) ==
    /\ UNCHANGED <<personal, shared>>
    /\ ever'[p] = ever[p] /\ always'[p] = always[p]

LEMMA UndisturbedKeeps ==
  ASSUME NEW p \in Phones, PhoneInv(p), Undisturbed(p), Owns(p)'
  PROVE  PhoneInv(p)'
<1>1. Course(p)'
  BY DEF PhoneInv, Undisturbed, Course
<1>2. Knows(p)'
  BY DEF PhoneInv, Undisturbed, Knows, Present
<1>3. QED
  BY <1>1, <1>2 DEF PhoneInv

LEMMA RightsKeptKeeps ==
  ASSUME NEW p \in Phones, PhoneInv(p), Undisturbed(p), RightsKept(p)
  PROVE  PhoneInv(p)'
<1>1. Owns(p)'
  BY DEF PhoneInv, Undisturbed, RightsKept, Owns, MayOwn, Rights, BoxesOf, PersonalOf, SharedWith
<1> QED
  BY <1>1, UndisturbedKeeps

(* Rights given and taken are watched while a request reads the rights,    *)
(* and mean nothing to it after that.                                      *)
LEMMA RightsWatchedKeeps ==
  ASSUME VoiceInv, Types', NEW p \in Phones, RightsWatched, personal'[p] \in MayOwn(p)
  PROVE  PhoneInv(p)'
<1>1. Undisturbed(p)
  BY DEF RightsWatched, Undisturbed, VoiceInv, Types
<1>2. PhoneInv(p) /\ UNCHANGED <<left, seen, pc>>
  BY DEF VoiceInv, RightsWatched
<1>3. personal'[p] \in MayOwn(p)'
  BY DEF MayOwn
<1>4. CASE pc[p] = "rights"
  <2>1. /\ ever'[p] = ever[p] \union BoxesOf(Rights(p)')
        /\ always'[p] = always[p] \intersect Rights(p)'
    BY <1>4 DEF RightsWatched
  <2>2. BoxesOf(Rights(p))' = BoxesOf(Rights(p)')
    BY DEF BoxesOf
  <2> QED
    <3>1. Owns(p)'
      BY <1>2, <1>3, <1>4, <2>1, <2>2 DEF PhoneInv, Owns
    <3> QED BY <1>1, <1>2, <3>1, UndisturbedKeeps
<1>5. CASE pc[p] # "rights"
  <2>1. ever'[p] = ever[p] /\ always'[p] = always[p]
    BY <1>5 DEF RightsWatched
  <2>2. Owns(p)'
    BY <1>2, <1>3, <1>5, <2>1 DEF PhoneInv, Owns
  <2> QED BY <1>1, <1>2, <2>2, UndisturbedKeeps
<1> QED BY <1>4, <1>5

LEMMA WorldKeeps ==
  ASSUME VoiceInv, NEW p \in Phones,
         \/ \E k \in Keys : Arrive(k) \/ DeletedElsewhere(k) \/ MarkedElsewhere(k)
         \/ UNCHANGED vars
  PROVE  PhoneInv(p)'
<1> USE DEF VoiceInv, Types
<1>1. ASSUME NEW k \in Keys, Arrive(k) PROVE Undisturbed(p)
  <2>1. \A x \in steady[p] : folder[x] # "unsent"
    BY DEF PhoneInv, Knows, Present
  <2>2. /\ folder[k] = "unsent" /\ UNCHANGED <<requests, steady>>
        /\ \A x \in Keys \ {k} : folder'[x] = folder[x]
    BY <1>1 DEF Arrive
  <2>3. \A x \in steady'[p] : folder'[x] = folder[x]
    BY <2>1, <2>2
  <2>4. QED
    BY <2>2, <2>3 DEF Undisturbed, requests
<1>2. ASSUME NEW k \in Keys, DeletedElsewhere(k) \/ MarkedElsewhere(k) PROVE Undisturbed(p)
  BY <1>2 DEF DeletedElsewhere, MarkedElsewhere, Undisturbed, requests
<1>3. CASE UNCHANGED vars
  <2>1. Undisturbed(p) /\ RightsKept(p)
    BY <1>3 DEF vars, Undisturbed, RightsKept
  <2> QED BY <2>1, RightsKeptKeeps
<1>4. ASSUME NEW k \in Keys, Arrive(k) \/ DeletedElsewhere(k) \/ MarkedElsewhere(k)
      PROVE  PhoneInv(p)'
  <2>1. RightsKept(p)
    BY <1>4 DEF Arrive, DeletedElsewhere, MarkedElsewhere, RightsKept, rights, requests
  <2> QED BY <1>1, <1>2, <1>4, <2>1, RightsKeptKeeps
<1> QED BY <1>3, <1>4

LEMMA OthersUndisturb ==
  ASSUME VoiceInv, NEW p \in Phones, NEW q \in Phones, p # q,
         \/ \E r \in Requests : Begin(q, r)
         \/ Serve(q) \/ BackendFails(q)
  PROVE  Undisturbed(p) /\ RightsKept(p)
<1> USE DEF VoiceInv, Types, Undisturbed, RightsKept, rights, Touches
<1>1. ASSUME NEW r \in Requests, Begin(q, r) PROVE Undisturbed(p) /\ RightsKept(p)
  BY <1>1 DEF Begin
<1>2. ASSUME NEW messages, NEW status, End(q, status, messages), UNCHANGED rights,
             \A k \in Keys \ messages : folder'[k] = folder[k]
      PROVE  Undisturbed(p) /\ RightsKept(p)
  BY <1>2 DEF End
<1>3. CASE ReadShared(q)
  <2>1. CASE End(q, "404", {})
    BY <1>2, <1>3, <2>1 DEF ReadShared
  <2>2. CASE ~End(q, "404", {})
    BY <1>3, <2>2 DEF ReadShared
  <2> QED BY <2>1, <2>2
<1>4. ASSUME NEW b \in Boxes, ReadBox(q, b) PROVE Undisturbed(p) /\ RightsKept(p)
  <2>1. CASE End(q, "404", {})
    BY <1>2, <1>4, <2>1 DEF ReadBox
  <2>2. CASE ~End(q, "404", {})
    BY <1>4, <2>2 DEF ReadBox
  <2> QED BY <2>1, <2>2
<1>5. ASSUME Finish(q) \/ BackendFails(q) PROVE Undisturbed(p) /\ RightsKept(p)
  BY <1>2, <1>5 DEF Finish, BackendFails
<1>6. ASSUME NEW k \in Keys, Play(q, k) \/ NoSuchFolder(q, k) \/ WentMeanwhile(q, k)
      PROVE  Undisturbed(p) /\ RightsKept(p)
  BY <1>2, <1>6 DEF Play, NoSuchFolder, WentMeanwhile, Acts
<1>7. ASSUME NEW k \in Keys, Delete(q, k) \/ Mark(q, k) \/ AnswerLost(q, k)
      PROVE  Undisturbed(p) /\ RightsKept(p)
  BY <1>2, <1>7 DEF Delete, Mark, AnswerLost, Acts
<1>8. ASSUME NEW k \in Keys, MarkNext(q, k) PROVE Undisturbed(p) /\ RightsKept(p)
  BY <1>8 DEF MarkNext, Acts
<1>9. QED
  BY <1>1, <1>3, <1>4, <1>5, <1>6, <1>7, <1>8 DEF Serve

LEMMA BeginKeeps ==
  ASSUME VoiceInv, NEW p \in Phones, NEW r \in Requests, Begin(p, r)
  PROVE  PhoneInv(p)'
<1> USE DEF VoiceInv, Types
<1>1. /\ request'[p] = r /\ pc'[p] = "rights" /\ reply'[p] = "none"
      /\ seen'[p] = {} /\ todo'[p] = {} /\ left'[p] = PersonalOf(p)
      /\ ever'[p] = BoxesOf(Rights(p)) /\ always'[p] = Rights(p)
      /\ steady'[p] = {k \in Keys : Present(k)}
      /\ UNCHANGED <<folder, personal, shared>>
  BY DEF Begin, Touches, rights, PhoneInv, Course
<1>2. Course(p)'
  BY <1>1 DEF Course
<1>3. Owns(p)'
  <2>1. Rights(p)' = Rights(p) /\ MayOwn(p)' = MayOwn(p)
    BY <1>1 DEF Rights, PersonalOf, SharedWith, MayOwn
  <2>2. \A b \in PersonalOf(p) : b \in BoxesOf(Rights(p)) /\ TenantOf[b] = TenantOf[p]
    BY RightsTyped DEF PhoneInv, Owns, MayOwn, PersonalOf
  <2>3. \A b \in Boxes : <<"personal", b>> \in Rights(p) => b \in PersonalOf(p)
    BY DEF Rights
  <2>4. personal[p] \in MayOwn(p)
    BY DEF PhoneInv, Owns
  <2> QED BY <1>1, <2>1, <2>2, <2>3, <2>4 DEF Owns, BoxesOf
<1>4. Knows(p)'
  BY <1>1 DEF Knows, Present
<1>5. QED
  BY <1>2, <1>3, <1>4 DEF PhoneInv

(* An answer leaves nothing to say of the request.                         *)
LEMMA EndKeeps ==
  ASSUME VoiceInv, NEW p \in Phones, NEW status, NEW messages, End(p, status, messages),
         UNCHANGED rights
  PROVE  PhoneInv(p)'
<1>1. /\ pc'[p] = "idle" /\ left'[p] = {} /\ seen'[p] = {} /\ todo'[p] = {} /\ steady'[p] = {}
      /\ UNCHANGED <<personal, shared>>
  BY DEF End, Touches, VoiceInv, Types, rights
<1>2. personal[p] \in MayOwn(p)
  BY DEF VoiceInv, PhoneInv, Owns
<1> QED BY <1>1, <1>2 DEF PhoneInv, Course, Owns, Knows, MayOwn

LEMMA ReadSharedKeeps ==
  ASSUME VoiceInv, NEW p \in Phones, ReadShared(p)
  PROVE  /\ PhoneInv(p)'
         /\ reply'[p] = "404" => Keyed(request[p]) /\ request[p].key \notin Undisputed(p)
<1> USE DEF VoiceInv, Types
<1> DEFINE boxes == Admitted(request[p], left[p] \union SharedWith(p))
<1>1. PhoneInv(p) /\ pc[p] = "rights" /\ request[p] \in Requests
  BY DEF ReadShared
<1>2. \A b \in BoxesOf(always[p]) : b \in left[p] \union SharedWith(p)
  <2>1. ASSUME NEW x \in always[p] PROVE x[2] \in left[p] \union SharedWith(p)
    <3>1. x \in Rights(p) /\ x \in {"personal", "shared"} \X Boxes
      BY <1>1, RightsTyped DEF PhoneInv, Owns
    <3>2. CASE x[1] = "personal"
      <4>1. x = <<"personal", x[2]>> /\ x[2] \in Boxes
        BY <3>1, <3>2
      <4> QED BY <1>1, <4>1 DEF PhoneInv, Owns
    <3>3. CASE x[1] = "shared"
      BY <3>1, <3>3 DEF Rights
    <3> QED BY <3>1, <3>2, <3>3
  <2> QED BY <2>1 DEF BoxesOf
<1>3. CASE Keyed(request[p]) /\ boxes = {}
  <2>1. End(p, "404", {}) /\ UNCHANGED rights
    BY <1>3 DEF ReadShared
  <2>2. request[p].key \notin Undisputed(p)
    BY <1>1, <1>2, <1>3 DEF Undisputed, Admitted
  <2> QED BY <1>3, <2>1, <2>2, EndKeeps
<1>4. CASE ~(Keyed(request[p]) /\ boxes = {})
  <2>0. /\ pc' = [pc EXCEPT ![p] = "reading"] /\ left' = [left EXCEPT ![p] = boxes]
        /\ ever' = [ever EXCEPT ![p] = @ \intersect boxes]
        /\ UNCHANGED <<folder, personal, shared, request, reply, seen, todo>>
    BY <1>4 DEF ReadShared, rights
  <2>1. /\ pc'[p] = "reading" /\ left'[p] = boxes
        /\ ever'[p] = ever[p] \intersect boxes
        /\ UNCHANGED <<folder, personal, shared, request, reply, seen, todo>>
    BY <2>0
  <2>2. steady'[p] = Undisputed(p)
    BY <1>4 DEF ReadShared, Touches
  <2>3. boxes \subseteq left[p] \union SharedWith(p)
    BY DEF Admitted
  <2>4. \A b \in boxes : b \in ever[p] /\ TenantOf[b] = TenantOf[p]
    <3>1. \A b \in SharedWith(p) : b \in ever[p] /\ TenantOf[b] = TenantOf[p]
      BY <1>1, RightsTyped DEF PhoneInv, Owns, SharedWith
    <3> QED BY <1>1, <2>3, <3>1 DEF PhoneInv, Owns
  <2>5. Keyed(request[p]) => boxes = {BoxOf(request[p].key)}
    BY <1>4 DEF Admitted
  <2>6. ~Keyed(request[p]) => boxes = left[p] \union SharedWith(p)
    BY DEF Admitted
  <2>7. reply[p] = "none" /\ seen[p] = {} /\ todo[p] = {}
    BY <1>1 DEF PhoneInv, Course
  <2> HIDE DEF boxes
  <2>8. Course(p)'
    BY <2>1, <2>5, <2>7 DEF Course, Keyed
  <2>9. Owns(p)'
    BY <1>1, <2>1, <2>4, <2>7 DEF PhoneInv, Owns, MayOwn
  <2>10. Knows(p)'
    <3>1. ASSUME NEW k \in Undisputed(p) PROVE Present(k) /\ (~Keyed(request[p]) => BoxOf(k) \in boxes)
      BY <1>1, <1>2, <2>6 DEF PhoneInv, Knows, Undisputed
    <3> QED BY <2>1, <2>2, <3>1 DEF Knows, Present, Keyed
  <2> QED BY <2>1, <2>7, <2>8, <2>9, <2>10 DEF PhoneInv
<1> QED BY <1>3, <1>4

LEMMA ReadBoxKeeps ==
  ASSUME VoiceInv, NEW p \in Phones, NEW b \in Boxes, ReadBox(p, b)
  PROVE  /\ PhoneInv(p)'
         /\ reply'[p] = "404" => Keyed(request[p]) /\ request[p].key \notin Undisputed(p)
<1> USE DEF VoiceInv, Types
<1> DEFINE found == Wanted(request[p], Contents(b))
<1>1. /\ PhoneInv(p) /\ pc[p] = "reading" /\ b \in left[p] /\ request[p] \in Requests
      /\ reply[p] = "none" /\ todo[p] = {}
  BY DEF ReadBox, PhoneInv, Course
<1>2. CASE Keyed(request[p]) /\ found = {}
  <2>1. End(p, "404", {}) /\ UNCHANGED rights
    BY <1>2 DEF ReadBox
  <2>2. request[p].key \notin Undisputed(p)
    <3>1. ASSUME request[p].key \in steady[p] PROVE FALSE
      <4>1. Present(request[p].key) /\ request[p].key \in Keys
        BY <1>1, <3>1 DEF PhoneInv, Knows
      <4>2. BoxOf(request[p].key) = b
        BY <1>1, <1>2 DEF PhoneInv, Course
      <4>3. Keyed(request[p]) => (BoxOf(request[p].key) = b /\ Present(request[p].key)
                                   => request[p].key \in Wanted(request[p], Contents(b)))
        BY <1>1, WantedProps
      <4> QED BY <1>2, <4>1, <4>2, <4>3
    <3> QED BY <3>1 DEF Undisputed
  <2> QED BY <1>2, <2>1, <2>2, EndKeeps
<1>3. CASE ~(Keyed(request[p]) /\ found = {})
  <2>1. /\ left'[p] = left[p] \ {b} /\ seen'[p] = seen[p] \union Contents(b)
        /\ todo'[p] = found
        /\ pc'[p] = IF found # {} THEN "acting" ELSE "reading"
        /\ UNCHANGED <<folder, personal, shared, request, reply, ever, always, steady>>
    BY <1>3 DEF ReadBox, rights, HasWork
  <2>2. /\ found \subseteq {k \in Keys : BoxOf(k) = b /\ Present(k)}
        /\ request[p].op = "list" => found = {}
        /\ request[p].op = "markall" => \A k \in Keys :
              BoxOf(k) = b /\ Present(k) =>
                 (k \in found <=> ~(Heard(folder[k]) <=> request[p].to = "old"))
        /\ Keyed(request[p]) => found \subseteq {request[p].key}
    BY <1>1, WantedProps
  <2>3. /\ Contents(b) \subseteq Keys \X FolderTypes
        /\ \A k \in Keys : <<k, folder[k]>> \in Contents(b) <=> BoxOf(k) = b /\ Present(k)
        /\ {s[1] : s \in Contents(b)} = {k \in Keys : BoxOf(k) = b /\ Present(k)}
    BY ContentsProps
  <2> HIDE DEF found
  <2>4. Course(p)'
    <3>1. found \subseteq {s[1] : s \in seen'[p]}
      BY <2>1, <2>2, <2>3
    <3>2. ASSUME NEW k \in found, request[p].op = "markall"
          PROVE  \E s \in seen'[p] : s[1] = k /\ Heard(s[2]) # (request[p].to = "old")
      <4> DEFINE s == <<k, folder[k]>>
      <4>1. s \in Contents(b) /\ s[1] = k /\ s[2] = folder[k]
        BY <2>2, <2>3
      <4>2. ~(Heard(folder[k]) <=> request[p].to = "old")
        BY <2>2, <3>2
      <4> HIDE DEF s
      <4> QED BY <2>1, <4>1, <4>2
    <3>3. Keyed(request[p]) => found # {}
      BY <1>3
    <3> QED BY <1>1, <2>1, <2>2, <3>1, <3>2, <3>3 DEF PhoneInv, Course, Keyed
  <2>5. Owns(p)'
    <3>1. \A s \in Contents(b) : BoxOf(s[1]) = b
      BY <2>3
    <3> QED BY <1>1, <2>1, <3>1 DEF PhoneInv, Owns, MayOwn
  <2>6. Knows(p)'
    BY <1>1, <2>1, <2>2, <2>3 DEF PhoneInv, Knows, Present
  <2> QED BY <1>1, <2>1, <2>4, <2>5, <2>6 DEF PhoneInv
<1> QED BY <1>2, <1>3

(* A message moved leaves one less to move.                                *)
LEMMA MarkNextKeeps ==
  ASSUME VoiceInv, NEW p \in Phones, NEW k \in Keys, MarkNext(p, k)
  PROVE  PhoneInv(p)'
<1> USE DEF VoiceInv, Types
<1>1. /\ PhoneInv(p) /\ pc[p] = "acting" /\ k \in todo[p] /\ request[p] \in Requests
      /\ request[p].op = "markall" /\ ~Keyed(request[p])
      /\ request[p].to \in {"old", "new"}
  BY RequestFields DEF MarkNext, Acts, Keyed
<1>2. /\ todo'[p] = todo[p] \ {k} /\ folder' = [folder EXCEPT ![k] = request[p].to]
      /\ pc'[p] = IF todo[p] \ {k} = {} THEN "reading" ELSE "acting"
      /\ steady'[p] = steady[p]
      /\ UNCHANGED <<personal, shared, request, reply, left, seen, ever, always>>
  BY DEF MarkNext, Acts, Touches, rights
<1>3. Course(p)'
  BY <1>1, <1>2 DEF PhoneInv, Course
<1>4. Owns(p)'
  BY <1>1, <1>2 DEF PhoneInv, Owns, MayOwn
<1>5. Knows(p)'
  <2>1. ASSUME NEW x \in steady[p], x # k
        PROVE  /\ folder'[x] = folder[x] /\ Present(x)
               /\ BoxOf(x) \in left[p] \/ x \in todo[p] \/ (Heard(folder[x]) <=> request[p].to = "old")
    BY <1>1, <1>2, <2>1 DEF PhoneInv, Knows
  <2>2. folder'[k] = request[p].to
    BY <1>2
  <2>3. folder'[k] \notin {"unsent", "gone"} /\ (Heard(folder'[k]) <=> request[p].to = "old")
    BY <1>1, <2>2 DEF Heard
  <2> QED BY <1>1, <1>2, <2>1, <2>3 DEF Knows, Present
<1> QED BY <1>3, <1>4, <1>5 DEF PhoneInv

(* The steps that answer what was asked for.                               *)
Ends(p) ==
    \/ Finish(p) \/ BackendFails(p)
    \/ \E k \in Keys : Play(p, k) \/ Delete(p, k) \/ Mark(p, k)
                       \/ NoSuchFolder(p, k) \/ WentMeanwhile(p, k) \/ AnswerLost(p, k)

LEMMA EndsKeep ==
  ASSUME VoiceInv, NEW p \in Phones, Ends(p)
  PROVE  PhoneInv(p)'
  BY EndKeeps DEF Ends, Finish, BackendFails, Play, Delete, Mark, NoSuchFolder, WentMeanwhile,
               AnswerLost, Acts

LEMMA VoiceStep == VoiceInv /\ [Next]_vars => VoiceInv'
<1> SUFFICES ASSUME VoiceInv, [Next]_vars PROVE VoiceInv'
  OBVIOUS
<1>1. Types'
  BY TypesStep DEF VoiceInv
<1>2. ASSUME NEW p \in Phones PROVE PhoneInv(p)'
  <2>1. CASE \/ \E k \in Keys : Arrive(k) \/ DeletedElsewhere(k) \/ MarkedElsewhere(k)
             \/ UNCHANGED vars
    BY <2>1, WorldKeeps
  <2>2. ASSUME NEW b \in Boxes, SharedOrNot(b) PROVE PhoneInv(p)'
    <3>1. personal'[p] \in MayOwn(p)
      BY <2>2 DEF SharedOrNot, VoiceInv, PhoneInv, Owns
    <3> QED BY <1>1, <2>2, <3>1, RightsWatchedKeeps DEF SharedOrNot
  <2>3. ASSUME NEW q \in Phones, NEW b \in MayOwn(q), PersonalGoes(q, b) PROVE PhoneInv(p)'
    <3>1. personal'[p] \in MayOwn(p)
      BY <2>3 DEF PersonalGoes, VoiceInv, Types, PhoneInv, Owns
    <3> QED BY <1>1, <2>3, <3>1, RightsWatchedKeeps DEF PersonalGoes
  <2>4. ASSUME NEW q \in Phones,
               (\E r \in Requests : Begin(q, r)) \/ Serve(q) \/ BackendFails(q)
        PROVE  PhoneInv(p)'
    <3>1. CASE p # q
      BY <2>4, <3>1, OthersUndisturb, RightsKeptKeeps DEF VoiceInv
    <3>2. CASE p = q
      BY <2>4, <3>2, BeginKeeps, ReadSharedKeeps, ReadBoxKeeps, MarkNextKeeps, EndsKeep
         DEF Serve, Ends
    <3> QED BY <3>1, <3>2
  <2> QED BY <2>1, <2>2, <2>3, <2>4 DEF Next, AskedOfVoicemail
<1> QED BY <1>1, <1>2 DEF VoiceInv

(* The invariant the theorems rest on: where each request is, whose boxes  *)
(* it holds, and what it knows of untouched messages.                      *)
LEMMA VoiceInvHolds == Spec => []VoiceInv
  BY VoiceInit, VoiceStep, PTL DEF Spec

(***************************************************************************)
(* What a step of a request may be                                         *)
(***************************************************************************)
LEMMA AnswerSteps ==
  ASSUME VoiceInv, [Next]_vars, NEW p \in Phones, pc[p] # "idle", reply'[p] # "none"
  PROVE  ReadShared(p) \/ (\E b \in Boxes : ReadBox(p, b)) \/ Ends(p)
<1> USE DEF VoiceInv, Types
<1>1. reply[p] = "none"
  BY DEF PhoneInv, Course
<1>2. ASSUME NEW k \in Keys, Arrive(k) \/ DeletedElsewhere(k) \/ MarkedElsewhere(k) PROVE FALSE
  BY <1>1, <1>2 DEF Arrive, DeletedElsewhere, MarkedElsewhere, requests
<1>3. ASSUME RightsWatched PROVE FALSE
  BY <1>1, <1>3 DEF RightsWatched
<1>4. ASSUME NEW q \in Phones, (\E r \in Requests : Begin(q, r)) \/ Serve(q) \/ BackendFails(q)
      PROVE  q = p
  BY <1>1, <1>4, OthersUndisturb DEF Undisturbed
<1>5. ASSUME NEW r \in Requests, Begin(p, r) PROVE FALSE
  BY <1>5 DEF Begin
<1>6. ASSUME NEW k \in Keys, MarkNext(p, k) PROVE FALSE
  BY <1>1, <1>6 DEF MarkNext
<1>7. CASE UNCHANGED vars
  BY <1>1, <1>7 DEF vars
<1> QED
  BY <1>2, <1>3, <1>4, <1>5, <1>6, <1>7 DEF Next, AskedOfVoicemail, Serve, Ends, SharedOrNot, PersonalGoes

(* A list is answered 200, and marks 204, only when all is done.           *)
LEMMA AnsweredInFull ==
  ASSUME VoiceInv, [Next]_vars, NEW p \in Phones, pc[p] # "idle", reply'[p] \in {"200", "204"},
         request[p].op \in {"list", "mark", "markall"}
  PROVE  \/ /\ pc[p] = "reading" /\ left[p] = {} /\ todo[p] = {} /\ UNCHANGED folder
            /\ request[p].op \in {"list", "markall"}
         \/ \E k \in Keys : Mark(p, k)
<1> USE DEF VoiceInv, Types
<1>1. reply[p] = "none"
  BY DEF PhoneInv, Course
<1>2. ASSUME ReadShared(p) PROVE FALSE
  BY <1>1, <1>2 DEF ReadShared, End
<1>3. ASSUME NEW b \in Boxes, ReadBox(p, b) PROVE FALSE
  BY <1>1, <1>3 DEF ReadBox, End
<1>4. CASE Finish(p)
  <2>1. pc[p] = "reading" /\ left[p] = {} /\ UNCHANGED folder
    BY <1>4 DEF Finish
  <2>2. Keyed(request[p]) => left[p] = {BoxOf(request[p].key)}
    BY <2>1 DEF PhoneInv, Course
  <2>3. todo[p] = {}
    BY <2>1 DEF PhoneInv, Course
  <2>4. request[p].op \in {"list", "markall"}
    BY <2>1, <2>2 DEF Keyed
  <2> QED BY <2>1, <2>3, <2>4
<1>5. ASSUME BackendFails(p) PROVE FALSE
  BY <1>5 DEF BackendFails, End
<1>6. ASSUME NEW k \in Keys,
             \/ Play(p, k) \/ Delete(p, k) \/ NoSuchFolder(p, k)
             \/ WentMeanwhile(p, k) \/ AnswerLost(p, k)
      PROVE  FALSE
  BY <1>6 DEF Play, Delete, NoSuchFolder, WentMeanwhile, AnswerLost, Acts, End
<1> QED BY AnswerSteps, <1>2, <1>3, <1>4, <1>5, <1>6 DEF Ends

(***************************************************************************)
(* Theorems                                                                *)
(***************************************************************************)
(* Requests are well typed, in particular one that acts on messages has    *)
(* seen them all and has some left (http.py:196-240).                      *)
THEOREM RequestsWellTyped == Spec => []TypeOK
<1>1. ASSUME VoiceInv PROVE TypeOK
  BY <1>1 DEF VoiceInv, Types, PhoneInv, Course, TypeOK
<1>2. QED
  BY <1>1, VoiceInvHolds, PTL

(* A list answered 200 shows every message that sat untouched in a box its *)
(* user could read all the while the rights were read, as it is, whatever  *)
(* the other phones and the webapp did (http.py:177-194).                  *)
THEOREM ListsAreComplete == Spec => ListIsComplete
<1>1. ASSUME VoiceInv, [Next]_vars, NEW p \in Phones, Answers(p, {"list"}, "200"),
             NEW k \in Undisputed(p)
      PROVE  <<k, folder[k]>> \in seen[p]
  <2>1. pc[p] # "idle" /\ request[p].op = "list" /\ reply'[p] = "200" /\ k \in steady[p]
    BY <1>1 DEF Answers, Undisputed
  <2>2. \A x \in Keys : ~Mark(p, x)
    BY <2>1 DEF Mark, Acts
  <2>3. pc[p] = "reading" /\ left[p] = {}
    BY <1>1, <2>1, <2>2, AnsweredInFull
  <2> QED BY <1>1, <2>1, <2>3 DEF VoiceInv, PhoneInv, Knows
<1>2. VoiceInv /\ [Next]_vars =>
        \A p \in Phones : Answers(p, {"list"}, "200") =>
           \A k \in Undisputed(p) : <<k, folder[k]>> \in seen[p]
  BY <1>1
<1>3. QED
  BY <1>2, VoiceInvHolds, PTL DEF Spec, ListIsComplete

(* A mark or mark-all answered 204 has put every untouched message it was  *)
(* about into the state the phone asked for (http.py:227-240, 354-363).    *)
THEOREM AnsweredMarksHold == Spec => MarksAreApplied
<1>1. ASSUME VoiceInv, [Next]_vars, NEW p \in Phones, Answers(p, {"mark", "markall"}, "204"),
             NEW k \in Undisputed(p), request[p].op = "markall" \/ request[p].key = k
      PROVE  Heard(folder'[k]) <=> request[p].to = "old"
  <2>1. /\ pc[p] # "idle" /\ request[p].op \in {"mark", "markall"} /\ reply'[p] = "204"
        /\ k \in steady[p] /\ k \in Keys /\ request[p] \in Requests
    BY <1>1 DEF Answers, Undisputed, VoiceInv, Types
  <2>2. CASE /\ pc[p] = "reading" /\ left[p] = {} /\ todo[p] = {} /\ UNCHANGED folder
             /\ request[p].op \in {"list", "markall"}
    BY <1>1, <2>1, <2>2 DEF VoiceInv, PhoneInv, Knows
  <2>3. ASSUME NEW x \in Keys, Mark(p, x) PROVE Heard(folder'[k]) <=> request[p].to = "old"
    <3>1. request[p].op = "mark" /\ x \in todo[p] /\ folder' = [folder EXCEPT ![x] = request[p].to]
      BY <2>3 DEF Mark, Acts
    <3>2. x = request[p].key /\ k = request[p].key
      BY <1>1, <3>1 DEF VoiceInv, PhoneInv, Course, Keyed
    <3>3. request[p].to \in {"old", "new"}
      BY <2>1, <3>1, RequestFields
    <3>4. folder'[k] = request[p].to
      BY <1>1, <3>1, <3>2 DEF VoiceInv, Types
    <3> QED BY <3>3, <3>4 DEF Heard
  <2> QED BY <1>1, <2>1, <2>2, <2>3, AnsweredInFull
<1>2. VoiceInv /\ [Next]_vars =>
        \A p \in Phones : Answers(p, {"mark", "markall"}, "204") =>
           \A k \in Undisputed(p) :
              request[p].op = "markall" \/ request[p].key = k =>
                 Heard(folder'[k]) <=> request[p].to = "old"
  BY <1>1
<1>3. QED
  BY <1>2, VoiceInvHolds, PTL DEF Spec, MarksAreApplied

(* Only a request for a message is answered 404, and only if the message   *)
(* was touched, or was of a box it could not rely on (http.py:196-216).    *)
THEOREM NothingFalselyMissing == Spec => NeverFalselyMissing
<1>1. ASSUME VoiceInv, [Next]_vars, NEW p \in Phones, pc[p] # "idle", reply'[p] = "404"
      PROVE  Keyed(request[p]) /\ request[p].key \notin Undisputed(p)
  <2>1. ASSUME NEW status \in {"200", "204", "500", "503"}, NEW messages, End(p, status, messages)
        PROVE  FALSE
    BY <1>1, <2>1 DEF End, VoiceInv, Types
  <2>2. ASSUME Ends(p) PROVE FALSE
    BY <2>1, <2>2 DEF Ends, Finish, BackendFails, Play, Delete, Mark, NoSuchFolder, WentMeanwhile,
                      AnswerLost
  <2> QED BY <1>1, <2>2, AnswerSteps, ReadSharedKeeps, ReadBoxKeeps
<1>2. VoiceInv /\ [Next]_vars =>
        \A p \in Phones : pc[p] # "idle" /\ reply'[p] = "404" =>
           Keyed(request[p]) /\ request[p].key \notin Undisputed(p)
  BY <1>1
<1>3. QED
  BY <1>2, VoiceInvHolds, PTL DEF Spec, NeverFalselyMissing

(* A request changes the message it names and nothing else, a mark-all     *)
(* only messages it has seen in the other state (http.py:201-216, 237-240).*)
THEOREM ActsOnlyAsAsked == Spec => OnlyWhatWasAsked
<1>1. ASSUME VoiceInv, [Next]_vars, NEW p \in Phones, NEW k \in Keys, folder'[k] # folder[k],
             <<pc[p], todo[p]>>' # <<pc[p], todo[p]>>
      PROVE  /\ Keyed(request[p]) => request[p].key = k
             /\ \E s \in seen[p] :
                   /\ s[1] = k
                   /\ request[p].op = "markall" => Heard(s[2]) # (request[p].to = "old")
  <2> USE DEF VoiceInv, Types
  <2>1. ASSUME NEW x \in Keys, Arrive(x) \/ DeletedElsewhere(x) \/ MarkedElsewhere(x) PROVE FALSE
    BY <1>1, <2>1 DEF Arrive, DeletedElsewhere, MarkedElsewhere, requests
  <2>2. ASSUME RightsWatched \/ UNCHANGED vars PROVE FALSE
    BY <1>1, <2>2 DEF RightsWatched, vars
  <2>3. ASSUME NEW q \in Phones, (\E r \in Requests : Begin(q, r)) \/ Serve(q) \/ BackendFails(q)
        PROVE  q = p
    BY <1>1, <2>3, OthersUndisturb DEF Undisturbed
  <2>4. ASSUME (\E r \in Requests : Begin(p, r)) \/ ReadShared(p)
               \/ (\E b \in Boxes : ReadBox(p, b)) \/ Finish(p) \/ BackendFails(p)
        PROVE  FALSE
    BY <1>1, <2>4 DEF Begin, ReadShared, ReadBox, Finish, BackendFails
  <2>5. ASSUME NEW x \in Keys, Play(p, x) \/ NoSuchFolder(p, x) \/ WentMeanwhile(p, x) PROVE FALSE
    BY <1>1, <2>5 DEF Play, NoSuchFolder, WentMeanwhile
  <2>6. ASSUME NEW x \in Keys, Delete(p, x) \/ Mark(p, x) \/ MarkNext(p, x) \/ AnswerLost(p, x)
        PROVE  x = k /\ k \in todo[p]
    BY <1>1, <2>6 DEF Delete, Mark, MarkNext, AnswerLost, Acts
  <2>7. k \in todo[p]
    BY <1>1, <2>1, <2>2, <2>3, <2>4, <2>5, <2>6 DEF Next, AskedOfVoicemail, Serve, SharedOrNot, PersonalGoes
  <2>8. Course(p)
    BY <1>1 DEF PhoneInv
  <2>9. \E s \in seen[p] : s[1] = k
    BY <2>7, <2>8 DEF Course
  <2> QED BY <2>7, <2>8, <2>9 DEF Course
<1>2. VoiceInv /\ [Next]_vars =>
        \A p \in Phones, k \in Keys :
           folder'[k] # folder[k] /\ <<pc[p], todo[p]>>' # <<pc[p], todo[p]>> =>
              /\ Keyed(request[p]) => request[p].key = k
              /\ \E s \in seen[p] :
                    /\ s[1] = k
                    /\ request[p].op = "markall" => Heard(s[2]) # (request[p].to = "old")
  BY <1>1
<1>3. QED
  BY <1>2, VoiceInvHolds, PTL DEF Spec, OnlyWhatWasAsked

(* What a request sees is of a box its user could read while the rights    *)
(* were read, and of the user's tenant (http.py:172-187, 201-211).         *)
THEOREM NobodyElsesBoxesSeen == Spec => []NobodyElsesBoxes
<1>1. ASSUME VoiceInv PROVE NobodyElsesBoxes
  BY <1>1 DEF VoiceInv, PhoneInv, Owns, NobodyElsesBoxes
<1>2. QED
  BY <1>1, VoiceInvHolds, PTL

(* Whatever a list has shown can be fetched, marked and deleted under its  *)
(* link, and the link means this message and nothing else, though a key    *)
(* stands where an action may (routes.py:29-36, 65-67, xml.py:39-44,       *)
(* 88-90).                                                                 *)
THEOREM LinksHold == Spec => []LinksLeadBack
<1>1. ASSUME VoiceInv PROVE LinksLeadBack
  <2>1. ASSUME NEW p \in Phones, NEW s \in seen[p] PROVE s[1] \in Keys
    BY <1>1, <2>1 DEF VoiceInv, Types
  <2> QED BY <2>1, LinkLeadsBack DEF LinksLeadBack
<1>2. QED
  BY <1>1, VoiceInvHolds, PTL

(***************************************************************************)
(* How long a request takes                                                *)
(***************************************************************************)
(* The messages a request may still act on.                                *)
Ahead(p) == {k \in Keys : k \in todo[p] \/ BoxOf(k) \in left[p]}

(* How many calls it may still make, with its answer as the last: one for  *)
(* each box it has still to read, and one for each message ahead.          *)
CallsLeft(p) ==
    IF pc[p] = "idle" THEN 0
    ELSE IF pc[p] = "rights" THEN 2 + Cardinality(Boxes) + Cardinality(Keys)
    ELSE 1 + Cardinality(left[p]) + Cardinality(Ahead(p))

(* A request is as it was, or a call nearer to its end.                    *)
Waits(p) ==
    /\ request'[p] = request[p] /\ pc'[p] = pc[p]
    /\ left'[p] = left[p] /\ seen'[p] = seen[p] /\ todo'[p] = todo[p]

NearsItsEnd(p) == CallsLeft(p)' \in Nat /\ CallsLeft(p)' < CallsLeft(p)

(* Each step of a request brings its end closer, and no step of others     *)
(* changes how far it is (http.py:169-194, 227-240).                       *)
RequestsAreShort ==
    [][\A p \in Phones : pc[p] # "idle" => Waits(p) \/ NearsItsEnd(p)]_vars

LEMMA Counts ==
  ASSUME Types, NEW p \in Phones
  PROVE  /\ IsFiniteSet(left[p]) /\ Cardinality(left[p]) \in Nat
         /\ Cardinality(left[p]) <= Cardinality(Boxes) /\ Cardinality(Boxes) \in Nat
         /\ IsFiniteSet(Ahead(p)) /\ Cardinality(Ahead(p)) \in Nat
         /\ Cardinality(Ahead(p)) <= Cardinality(Keys) /\ Cardinality(Keys) \in Nat
<1>1. left[p] \subseteq Boxes /\ Ahead(p) \subseteq Keys
  BY DEF Types, Ahead
<1> QED BY <1>1, FiniteAssumption, FS_Subset, FS_CardinalityType

LEMMA EndIsLast ==
  ASSUME VoiceInv, NEW p \in Phones, pc[p] # "idle", pc'[p] = "idle"
  PROVE  NearsItsEnd(p)
<1>1. CallsLeft(p)' = 0
  BY DEF CallsLeft
<1>2. CallsLeft(p) \in Nat /\ CallsLeft(p) > 0
  BY Counts DEF CallsLeft, VoiceInv
<1> QED BY <1>1, <1>2 DEF NearsItsEnd

LEMMA ReadSharedIsShort ==
  ASSUME VoiceInv, VoiceInv', NEW p \in Phones, ReadShared(p)
  PROVE  NearsItsEnd(p)
<1>1. pc[p] = "rights" /\ pc'[p] \in {"idle", "reading"}
  BY DEF ReadShared, End, VoiceInv, Types
<1>2. CASE pc'[p] = "idle"
  BY <1>1, <1>2, EndIsLast
<1>3. CASE pc'[p] = "reading"
  <2>1. /\ Cardinality(left'[p]) \in Nat /\ Cardinality(Ahead(p)') \in Nat
        /\ Cardinality(left'[p]) <= Cardinality(Boxes) /\ Cardinality(Boxes) \in Nat
        /\ Cardinality(Ahead(p)') <= Cardinality(Keys) /\ Cardinality(Keys) \in Nat
    <3>1. left'[p] \subseteq Boxes /\ Ahead(p)' \subseteq Keys
      BY DEF VoiceInv, Types, Ahead
    <3> QED BY <3>1, FiniteAssumption, FS_Subset, FS_CardinalityType
  <2>2. CallsLeft(p)' = 1 + Cardinality(left'[p]) + Cardinality(Ahead(p)')
    BY <1>3 DEF CallsLeft
  <2>3. CallsLeft(p) = 2 + Cardinality(Boxes) + Cardinality(Keys)
    BY <1>1 DEF CallsLeft
  <2> QED BY <2>1, <2>2, <2>3 DEF NearsItsEnd
<1> QED BY <1>1, <1>2, <1>3

LEMMA ReadBoxIsShort ==
  ASSUME VoiceInv, NEW p \in Phones, NEW b \in Boxes, ReadBox(p, b)
  PROVE  NearsItsEnd(p)
<1>1. /\ pc[p] = "reading" /\ b \in left[p] /\ request[p] \in Requests /\ Types
      /\ pc'[p] \in {"idle", "reading", "acting"}
  BY DEF ReadBox, End, VoiceInv, Types
<1>2. CASE pc'[p] = "idle"
  BY <1>1, <1>2, EndIsLast
<1>3. CASE pc'[p] # "idle"
  <2>1. left'[p] = left[p] \ {b} /\ todo'[p] = Wanted(request[p], Contents(b))
    BY <1>1, <1>3 DEF ReadBox, End, Types
  <2>2. \A k \in todo'[p] : BoxOf(k) = b
    BY <1>1, <2>1, WantedProps
  <2>3. Ahead(p)' \subseteq Ahead(p)
    BY <1>1, <2>1, <2>2 DEF Ahead
  <2>4. /\ IsFiniteSet(left[p]) /\ Cardinality(left[p]) \in Nat
        /\ IsFiniteSet(Ahead(p)) /\ Cardinality(Ahead(p)) \in Nat
    BY <1>1, Counts
  <2>5. /\ Cardinality(left'[p]) = Cardinality(left[p]) - 1
        /\ Cardinality(left'[p]) \in Nat
    BY <1>1, <2>1, <2>4, FS_RemoveElement, FS_CardinalityType
  <2>6. Cardinality(Ahead(p)') <= Cardinality(Ahead(p)) /\ Cardinality(Ahead(p)') \in Nat
    BY <2>3, <2>4, FS_Subset, FS_CardinalityType
  <2>7. /\ CallsLeft(p) = 1 + Cardinality(left[p]) + Cardinality(Ahead(p))
        /\ CallsLeft(p)' = 1 + Cardinality(left'[p]) + Cardinality(Ahead(p)')
    BY <1>1, <1>3 DEF CallsLeft
  <2> QED BY <2>4, <2>5, <2>6, <2>7 DEF NearsItsEnd
<1> QED BY <1>2, <1>3

LEMMA MarkNextIsShort ==
  ASSUME VoiceInv, NEW p \in Phones, NEW k \in Keys, MarkNext(p, k)
  PROVE  NearsItsEnd(p)
<1>1. /\ pc[p] = "acting" /\ k \in todo[p] /\ BoxOf(k) \notin left[p]
      /\ pc'[p] \in {"reading", "acting"} /\ Types
  BY DEF MarkNext, Acts, VoiceInv, Types, PhoneInv, Course
<1>2. left'[p] = left[p] /\ todo'[p] = todo[p] \ {k}
  BY <1>1 DEF MarkNext, Types
<1>3. k \in Ahead(p) /\ Ahead(p)' = Ahead(p) \ {k}
  BY <1>1, <1>2 DEF Ahead
<1>4. /\ Cardinality(left[p]) \in Nat
      /\ IsFiniteSet(Ahead(p)) /\ Cardinality(Ahead(p)) \in Nat
  BY <1>1, Counts
<1>5. /\ Cardinality(Ahead(p)') = Cardinality(Ahead(p)) - 1
      /\ Cardinality(Ahead(p)') \in Nat
  BY <1>3, <1>4, FS_RemoveElement, FS_CardinalityType
<1>6. /\ CallsLeft(p) = 1 + Cardinality(left[p]) + Cardinality(Ahead(p))
      /\ CallsLeft(p)' = 1 + Cardinality(left[p]) + Cardinality(Ahead(p)')
  BY <1>1, <1>2 DEF CallsLeft
<1> QED BY <1>4, <1>5, <1>6 DEF NearsItsEnd

(* A request ends after at most one call for each box it may read and one  *)
(* for each message of those, however many messages arrive and whoever     *)
(* else acts meanwhile: what it works on is what it has read               *)
(* (http.py:169-194, 227-240).                                             *)
THEOREM EveryRequestIsShort == Spec => RequestsAreShort
<1>1. ASSUME VoiceInv, VoiceInv', [Next]_vars, NEW p \in Phones, pc[p] # "idle"
      PROVE  Waits(p) \/ NearsItsEnd(p)
  <2>1. ASSUME NEW k \in Keys, Arrive(k) \/ DeletedElsewhere(k) \/ MarkedElsewhere(k)
        PROVE  Waits(p)
    <3>1. UNCHANGED requests
      BY <2>1 DEF Arrive, DeletedElsewhere, MarkedElsewhere
    <3> QED BY <3>1 DEF Waits, requests
  <2>2. CASE RightsWatched \/ UNCHANGED vars
    BY <2>2 DEF RightsWatched, Waits, vars
  <2>3. ASSUME NEW q \in Phones \ {p},
               (\E r \in Requests : Begin(q, r)) \/ Serve(q) \/ BackendFails(q)
        PROVE  Waits(p)
    BY <1>1, <2>3, OthersUndisturb DEF VoiceInv, Undisturbed, Waits
  <2>4. ASSUME NEW r \in Requests, Begin(p, r) PROVE FALSE
    BY <1>1, <2>4 DEF Begin
  <2>5. CASE Ends(p)
    <3>1. pc'[p] = "idle"
      BY <1>1, <2>5 DEF Ends, Finish, BackendFails, Play, Delete, Mark, NoSuchFolder,
                        WentMeanwhile, AnswerLost, End, VoiceInv, Types
    <3> QED BY <1>1, <3>1, EndIsLast
  <2>6. CASE Serve(p) \/ BackendFails(p)
    BY <1>1, <2>5, <2>6, ReadSharedIsShort, ReadBoxIsShort, MarkNextIsShort DEF Serve, Ends
  <2> QED
    BY <1>1, <2>1, <2>2, <2>3, <2>4, <2>6 DEF Next, AskedOfVoicemail, SharedOrNot, PersonalGoes
<1>2. VoiceInv /\ VoiceInv' /\ [Next]_vars =>
         [\A p \in Phones : pc[p] # "idle" => Waits(p) \/ NearsItsEnd(p)]_vars
  BY <1>1
<1>3. QED
  BY <1>2, VoiceInvHolds, PTL DEF Spec, RequestsAreShort

=============================================================================
