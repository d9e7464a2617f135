----------------------------- MODULE MCEventRounds -----------------------------
(* Users' events on servers of three kinds: a backend is its protocol.         *)
EXTENDS ConvertedRounds, EventCodecs

AllFields == DOMAIN EventStrategy
Dav == {"dav"}
SeparateCalls(p) == {}
LeftOut(p) ==
  CASE p = "jmap" -> {"reminder_action"}
    [] p = "graph" -> {"status", "exdates", "url", "color", "conference", "reminder_action"}
    [] p = "dav" -> {}

ZoneOffset(z) == IF z \in {"Europe/Berlin", "Europe/Stockholm"} THEN 1 ELSE 0
MappedZones == {UTC, "Europe/Berlin", "Europe/London"}

\* Spellings and defaults are not looked at, of an attendee only the address.
FactOf(f, v) ==
  CASE f = "attendees" -> <<f, v.email>>
    [] f \in {"dtstart_utc", "dtend_utc"} -> <<f, v.at>>
    [] f = "exdates" -> <<f, IF v.zulu THEN v.at ELSE v.at - ZoneOffset("Europe/Berlin")>>
    [] f \in {"dtstart_tz", "dtend_tz"} -> IF v \in {"", UTC} THEN None ELSE <<f, v>>
    [] f = "priority" -> IF Importance(v) = "normal" THEN None ELSE <<f, Importance(v)>>
    [] f = "rrule" -> <<f, {IF p \in {"UNTIL=date", "UNTIL=time"} THEN "UNTIL" ELSE p :
                              p \in v \ {"INTERVAL=1"}}>>
    [] f = "reminder_minutes" -> IF v = 0 THEN None ELSE <<f, v>>
    [] f = "all_day" -> IF v THEN <<f, v>> ELSE None
    [] f = "privacy" -> IF v = "public" THEN None ELSE <<f, v>>
    [] OTHER -> <<f, v>>

MCRead(p, r) ==
  CASE p = "jmap" -> JmapEventRead(r)
    [] p = "graph" -> GraphEventRead(r)
    [] p = "dav" -> IcalEventRead(r)

MCWrites(p, r, i) ==
  CASE p = "jmap" -> JmapEventWrites(IF r = Absent THEN BlankJmapEvent ELSE r, i)
    [] p = "graph" -> GraphEventWrites(IF r = Absent THEN BlankGraphEvent ELSE r, i)
    [] p = "dav" -> IcalEventWrites(IF r = Absent THEN None ELSE r, i)

JmapEventChoices(group) ==
  CASE group = "time" -> [start : {1, 2}, timeZone : {"Europe/Berlin", "Europe/London"}, duration : {3}]
    [] group = "zone" -> [start : {2}, timeZone : {"Europe/Stockholm"}, duration : {3}]
    [] group = "day" -> [start : {0, 24}, timeZone : {None}, duration : {24}, showWithoutTime : {TRUE}]
    [] group = "place" -> [location : {None, "l", "m"}]
    [] group = "geo" -> [geo : {None, [form |-> "jmap", at |-> 1]}]
    [] group = "status" -> [status : {None, "confirmed", "tentative", "cancelled"}]
    [] group = "class" -> [priority : {None, 1, 7}, privacy : {None, "secret"}]
    [] group = "categories" -> [categories : SUBSET {"c", "d"}]
    [] group = "rule" -> [rule : {None, {"FREQ=DAILY"}, {"FREQ=DAILY", "UNTIL=T235959"}, {"FREQ=DAILY", "UNTIL=time"}}]
    [] group = "hourly" -> [rule : {None, {"FREQ=HOURLY"}}]
    [] group = "exdates" -> [excluded : SUBSET [at : {1, 2}, zulu : {FALSE}]]
    [] group = "people" -> [organizer : {None, "o"},
                            participants : SUBSET [email : {"x"}, role : {"chair"}, partstat : {"accepted"}]]
    [] group = "reminder" -> [alert : {None, 0, 10}]
    [] group = "text" -> [summary : {"s", "t"}, description : {None, "d"}]
    [] group = "links" -> [url : {None, "u"}, color : {None, "c", "d"}]

GraphEventChoices(group) ==
  CASE group = "time" -> [start : [local : {1, 2}, zone : {"Europe/Berlin"}], end : [local : {4, 5}, zone : {"Europe/Berlin"}]]
    [] group = "zone" -> [start : [local : {3}, zone : {"Europe/London"}], end : [local : {5}, zone : {"Europe/London"}]]
    [] group = "day" -> [start : [local : {0, 24}, zone : {UTC}], end : [local : {24, 48}, zone : {UTC}], isAllDay : {TRUE}]
    [] group = "place" -> [location : {None, "l", "m"}]
    [] group = "geo" -> [geo : {None, [form |-> "graph", at |-> 1]}]
    [] group = "status" -> [isCancelled : BOOLEAN]
    [] group = "class" -> [importance : {"low", "normal", "high"}, sensitivity : {"public", "secret"}]
    [] group = "categories" -> [categories : SUBSET {"c", "d"}]
    [] group = "rule" -> [recurrence : {None} \cup [type : {"weekly"}, interval : {2}, range : {"noEnd", "numbered"}]
                                           \cup [type : {"unknown"}, interval : {1}, range : {"noEnd"}]]
    [] group = "hourly" -> [recurrence : {None}]
    [] group = "exdates" -> [summary : {"s", "t"}]
    [] group = "people" -> [organizer : {None, "o"}, attendees : SUBSET [email : {"x"}, type : {"required", "optional"}, response : {"accepted"}]]
    [] group = "reminder" -> [reminder : {0, 10, 15}]
    [] group = "text" -> [summary : {"s", "t"}, body : {None} \cup [type : {"html"}, content : {"e"}]]
    [] group = "links" -> [conference : {None, "v"}]

IcalEventChoices(group) ==
  CASE group = "time" -> [start : [day : {FALSE}, at : {0, 1}, zone : {"Europe/Berlin"}], end : [day : {FALSE}, at : {3, 4}, zone : {"Europe/Berlin"}]]
    [] group = "day" -> [start : [day : {TRUE}, at : {0, 24}, zone : {""}], end : [day : {TRUE}, at : {24, 48}, zone : {""}]]
    [] group = "place" -> [location : {None, "l", "m"}]
    [] group = "geo" -> [geo : {None, [form |-> "dav", at |-> 1]}]
    [] group = "status" -> [status : {None, "confirmed", "tentative", "cancelled"}]
    [] group = "class" -> [priority : {None, 0, 1}, privacy : {None, "secret"}]
    [] group = "categories" -> [categories : SUBSET {"c", "d"}]
    [] group = "rule" -> [rrule : {None, {"FREQ=WEEKLY", "INTERVAL=1"}, {"FREQ=WEEKLY", "UNTIL=date"}}]
    [] group = "hourly" -> [rrule : {None, {"FREQ=HOURLY"}}]
    [] group = "exdates" -> [exdates : SUBSET {1, 2}]
    [] group = "people" -> [organizer : {None, "o"}, attendees : SUBSET [email : {"x"}, role : {"chair"}, status : {"accepted"}]]
    [] group = "text" -> [summary : {"s", "t"}, description : {None, "d"}]
    [] group = "reminder" -> [alarm : {[minutes |-> None, action |-> None]} \cup [minutes : {10, 15}, action : {"display"}]]
    [] group = "links" -> [url : {None, "u"}, color : {None, "c", "d"}]

\* Every event has a start, Graph's and iCalendar's have an end.
StockGraphEvent ==
  [BlankGraphEvent EXCEPT !.start = [local |-> 1, zone |-> "Europe/Berlin"],
                           !.end = [local |-> 2, zone |-> "Europe/Berlin"]]
StockIcalEvent ==
  [f \in Plain \ EventSets |-> None]
    @@ [start |-> [day |-> FALSE, at |-> 0, zone |-> "Europe/Berlin"],
        end |-> [day |-> FALSE, at |-> 1, zone |-> "Europe/Berlin"],
        priority |-> None, rrule |-> None, organizer |-> None, categories |-> {}, exdates |-> {},
        attendees |-> {}, alarm |-> [minutes |-> None, action |-> None]]
StockJmapEvent == [BlankJmapEvent EXCEPT !.timeZone = "Europe/Berlin", !.start = 1, !.duration = 1]

MCNatives(p, group) ==
  CASE p = "jmap" -> {c @@ StockJmapEvent : c \in JmapEventChoices(group)}
    [] p = "graph" -> {c @@ StockGraphEvent : c \in GraphEventChoices(group)}
    [] p = "dav" -> {c @@ StockIcalEvent : c \in IcalEventChoices(group)}

Pair(p, q) == [a |-> p, b |-> q]
MixedPairs == {Pair("jmap", "graph"), Pair("dav", "jmap"), Pair("dav", "graph")}
MixedAndSame ==
  [kind : MixedPairs, group : {"time", "day", "place", "class", "categories", "rule", "people", "reminder",
                                "text"}]
    \cup [kind : {Pair("dav", "jmap")}, group : {"status", "links", "hourly"}]
    \cup [kind : {Pair("jmap", "jmap"), Pair("dav", "dav")}, group : {"geo", "exdates"}]
    \cup [kind : {Pair("graph", "graph")}, group : {"geo", "status"}]

\* An event with a rule that a calendar program spelled out.
DavRules == [kind : {Pair("dav", "jmap")}, group : {"rule"}]
\* Zones that are not the one CLDR names for a Windows zone.
UnmappedZones == [kind : {Pair("jmap", "graph")}, group : {"zone"}]
=============================================================================
