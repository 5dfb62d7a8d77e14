------------------------------ MODULE XsiRoutes ------------------------------
(***************************************************************************)
(* What a phone asks with a method and a URL: the rules of routes.py, the  *)
(* actions and keys that http.py and voicemail.py take out of the URL, and *)
(* the links that xml.py publishes and phones append to the base URL.      *)
(*                                                                         *)
(* A path is the sequence of its segments after the user's; a segment is   *)
(* the sequence of its pieces between dots.  A message is the pair of its  *)
(* box and its id, which is unique only within the box; its key is a       *)
(* segment, built of both and parsed again, and an id may hold dots.       *)
(***************************************************************************)
EXTENDS Integers, Sequences

CONSTANTS
    Boxes,       \* by their number, which is one piece
    Ids,         \* each the sequence of its pieces
    Pieces,      \* of which ids are made
    Keys         \* the messages: pairs of a box and an id

Text(s) == <<s>>
Empty == Text("")      \* nothing between two slashes or after a dot

ASSUME KeysAssumption == Keys \subseteq Boxes \X Ids
ASSUME IdsAssumption == \A i \in Ids : i \in Seq(Pieces) /\ i # <<>> /\ i # Empty

BoxOf(k) == k[1]

BuildKey(k) == <<k[1]>> \o k[2]

(* The message a segment names, if any: a box number, a dot, and the rest, *)
(* which is not empty.  Whatever else stands there is answered 404 before  *)
(* anything is read.                                                       *)
WellFormed(segment) ==
    Len(segment) > 1 /\ Head(segment) \in Boxes /\ Tail(segment) # Empty
ParseKeyAtLastDot(segment) ==      \* mutated: an id may not hold a dot
    IF WellFormed(segment) /\ Len(segment) = 2
    THEN {<<Head(segment), Tail(segment)>>} ELSE {}
ParseKey(segment) ==
    IF WellFormed(segment) THEN {<<Head(segment), Tail(segment)>>} ELSE {}

Requests ==
    [op : {"list"}] \union
    [op : {"play", "delete"}, key : Keys] \union
    [op : {"mark"}, key : Keys, to : {"old", "new"}] \union
    [op : {"markall"}, to : {"old", "new"}]
CallLogRequests == [op : {"calllogs"}, of : {"all", "placed", "received", "missed"}]
Keyed(r) == r.op \in {"play", "delete", "mark"}

(* The rules: a rule fits a path of its length, segment for segment.       *)
Wild == Text("<segment>")
Collections == {"VoiceMessagingMessages", "voicemessagingmessages"}
CALLLOGS == <<Text("directories"), Text("CallLogs")>>

Rule(resource, path) == [resource |-> resource, path |-> path]
Voicemail(resource, suffixes) ==
    {Rule(resource, <<Text(c)>> \o s) : c \in Collections, s \in suffixes}

Rules ==
    {Rule("CallLogs", CALLLOGS), Rule("CallLogs", CALLLOGS \o <<Empty>>),
     Rule("CallLogsList", CALLLOGS \o <<Wild>>)}
    \union Voicemail("VoiceMessages", {<<>>, <<Empty>>})
    \union Voicemail("VoiceMessage", {<<Wild>>})
    \union Voicemail("VoiceMessageMark", {<<Wild, Wild>>})

Fits(path, rule) ==
    /\ Len(path) = Len(rule.path)
    /\ \A i \in DOMAIN path :
         IF rule.path[i] = Wild THEN path[i] # Empty ELSE path[i] = rule.path[i]

(* Actions and types are known in any capitalisation: here the one of the  *)
(* specification and the small one.                                        *)
Spells(segment, name) ==
    \/ segment = Text(name)
    \/ <<segment, name>> \in
         {<<Text("MarkAsRead"), "markasread">>, <<Text("MarkAsUnread"), "markasunread">>,
          <<Text("MarkAllAsRead"), "markallasread">>,
          <<Text("MarkAllAsUnread"), "markallasunread">>,
          <<Text("Placed"), "placed">>, <<Text("Received"), "received">>,
          <<Text("Missed"), "missed">>}

(* What a resource takes a request for; anything else is answered 404 or   *)
(* 405 at once.                                                            *)
CallLogsTakes(method, r) == method = "GET" /\ r = [op |-> "calllogs", of |-> "all"]

CallLogsListTakes(method, last, r) ==
    /\ method = "GET"
    /\ \E list \in {"placed", "received", "missed"} :
         Spells(last, list) /\ r = [op |-> "calllogs", of |-> list]

VoiceMessagesTakes(method, r) == method = "GET" /\ r = [op |-> "list"]

VoiceMessageTakes(method, last, r) ==
    \/ method = "GET" /\ \E k \in ParseKey(last) : r = [op |-> "play", key |-> k]
    \/ method = "DELETE" /\ \E k \in ParseKey(last) : r = [op |-> "delete", key |-> k]
    \/ method = "PUT" /\ Spells(last, "markallasread") /\ r = [op |-> "markall", to |-> "old"]
    \/ method = "PUT" /\ Spells(last, "markallasunread") /\ r = [op |-> "markall", to |-> "new"]

VoiceMessageMarkTakes(method, segment, last, r) ==
    /\ method = "PUT"
    /\ \E k \in ParseKey(segment) :
         \/ Spells(last, "markasread") /\ r = [op |-> "mark", key |-> k, to |-> "old"]
         \/ Spells(last, "markasunread") /\ r = [op |-> "mark", key |-> k, to |-> "new"]

Takes(resource, method, path, r) ==
    LET last == path[Len(path)] IN
    \/ resource = "CallLogs" /\ CallLogsTakes(method, r)
    \/ resource = "CallLogsList" /\ CallLogsListTakes(method, last, r)
    \/ resource = "VoiceMessages" /\ VoiceMessagesTakes(method, r)
    \/ resource = "VoiceMessage" /\ VoiceMessageTakes(method, last, r)
    \/ /\ resource = "VoiceMessageMark"
       /\ VoiceMessageMarkTakes(method, path[Len(path) - 1], last, r)

Asks(method, path) ==
    {r \in Requests \union CallLogRequests :
        \E rule \in Rules : Fits(path, rule) /\ Takes(rule.resource, method, path, r)}

(* The link of a message in a list.                                        *)
MessagePath(k) == <<Text("voicemessagingmessages"), BuildKey(k)>>

(* What phones ask: lists, links, links with an action, and mark-alls.     *)
Paths ==
    {CALLLOGS \o s : s \in {<<>>, <<Empty>>, <<Text("Placed")>>,
                            <<Text("Received")>>, <<Text("Missed")>>}} \union
    {<<Text("VoiceMessagingMessages")>> \o s : s \in {<<>>, <<Empty>>}} \union
    {<<Text("VoiceMessagingMessages"), Text(a)>> : a \in {"MarkAllAsRead", "MarkAllAsUnread"}} \union
    {MessagePath(k) : k \in Keys} \union
    {MessagePath(k) \o <<Text(a)>> : k \in Keys, a \in {"MarkAsRead", "MarkAsUnread"}}

Askable == UNION {Asks(m, path) : m \in {"GET", "PUT", "DELETE"}, path \in Paths}

(* The messages whose links lead to them: what a phone does with one means *)
(* this very message of this very box, and means one thing.                *)
LeadBack ==
    {k \in Keys :
        /\ Asks("GET", MessagePath(k)) = {[op |-> "play", key |-> k]}
        /\ Asks("DELETE", MessagePath(k)) = {[op |-> "delete", key |-> k]}
        /\ Asks("PUT", MessagePath(k)) = {}
        /\ Asks("PUT", MessagePath(k) \o <<Text("MarkAsRead")>>)
             = {[op |-> "mark", key |-> k, to |-> "old"]}
        /\ Asks("PUT", MessagePath(k) \o <<Text("MarkAsUnread")>>)
             = {[op |-> "mark", key |-> k, to |-> "new"]}}
=============================================================================
