----------------------------- MODULE EventCodecs -----------------------------
(***************************************************************************)
(* What the calendar adapters make of an event: from the record a server   *)
(* holds to the fields of a SyncItem, and from merged fields to the record  *)
(* the server holds after the write.  An instant is a number of hours, a    *)
(* zone an offset; a recurrence rule is the set of its parts, an attendee   *)
(* has no name, an excluded time is UTC (zulu) or local to the event.       *)
(* Every event has a start.                                                 *)
(***************************************************************************)
EXTENDS FieldMerge, Integers, TLC

CONSTANTS
  Offset(_),      \* zone |-> hours from UTC
  WindowsZones    \* zones with an entry in IANA_TO_WINDOWS

EventSets == {"exdates", "attendees", "categories"}
EventStrategy ==
  [f \in {"summary", "description", "dtstart_utc", "dtstart_tz", "dtend_utc", "dtend_tz", "all_day",
          "location", "geo", "rrule", "organizer", "status", "priority", "privacy",
          "reminder_minutes", "reminder_action", "url", "color", "conference"} \cup EventSets
     |-> IF f \in EventSets THEN "set" ELSE "scalar"]

UTC == "Etc/UTC"
\* dtstart_utc and dtend_utc: a date, or a date and a time.
Day(at) == [day |-> TRUE, at |-> at]
Moment(at) == [day |-> FALSE, at |-> at]

\* Faulty variant: a patch only fills in what is missing.
KeptBlank(old, new) == IF old = None THEN new ELSE old
Kept(old, new) == IF new = None THEN old ELSE new
KeptSet(old, new) == IF Elements(new) = {} THEN old ELSE new
SetOrNone(elements) == IF elements = {} THEN None ELSE elements

\* Properties that have the same values in all records.
Plain == {"summary", "description", "location", "geo", "status", "privacy", "categories",
          "url", "color", "conference"}
ReadPlain(e) ==
  [f \in Plain \cap DOMAIN e |-> IF f \in EventSets THEN SetOrNone(e[f]) ELSE e[f]]

-----------------------------------------------------------------------------
(* JSCalendar: start is a local time of timeZone, the end a duration.         *)

BlankJmapEvent ==
  [f \in Plain \ EventSets |-> None]
    @@ [start |-> 0, timeZone |-> None, duration |-> None, showWithoutTime |-> None,
        categories |-> {}, rule |-> None, excluded |-> {}, priority |-> None,
        organizer |-> None, participants |-> {}, alert |-> None]

JmapTimesRead(e) ==
  LET zone == Kept(UTC, e.timeZone)
      At(local) == Moment(local - Offset(zone))
      ends == e.duration # None
  IN [dtstart_utc |-> At(e.start), dtstart_tz |-> zone, all_day |-> e.showWithoutTime,
      dtend_utc |-> IF ends THEN At(e.start + e.duration) ELSE None,
      dtend_tz |-> IF ends THEN zone ELSE None]

\* Faulty variant: the duration is taken from the end in UTC and the local start.
JmapDurationMixed(e, i, start) ==
  IF i.dtend_utc # None /\ i.dtend_utc.day = i.dtstart_utc.day
  THEN i.dtend_utc.at - start ELSE e.duration
\* A date and a time cannot be subtracted and leave the duration alone.
JmapDuration(e, i, start) ==
  IF i.dtend_utc # None /\ i.dtend_utc.day = i.dtstart_utc.day
  THEN i.dtend_utc.at - i.dtstart_utc.at ELSE e.duration

\* The time zone of an event is left alone when it becomes an all-day event.
JmapTimesWrite(e, i) ==
  LET zone == IF i.dtstart_tz = "" THEN UTC ELSE Kept(UTC, i.dtstart_tz)
      utc == i.dtstart_utc
      start == IF utc.day THEN utc.at ELSE utc.at + Offset(zone)
  IN [start |-> start,
      timeZone |-> IF i.all_day = TRUE THEN e.timeZone ELSE zone,
      duration |-> JmapDuration(e, i, start),
      showWithoutTime |-> Kept(e.showWithoutTime, i.all_day)]

\* A rule object ends at a time: a date is its last second, and read as the date;
\* an interval of 1 is not read.
JmapRuleRead(rule) ==
  (rule \ {"INTERVAL=1", "UNTIL=T235959"})
    \cup (IF "UNTIL=T235959" \in rule THEN {"UNTIL=date"} ELSE {})
JmapRuleWrite(rule) ==
  (rule \ {"UNTIL=date"}) \cup (IF "UNTIL=date" \in rule THEN {"UNTIL=T235959"} ELSE {})

\* Participants other than the owner; they have no `status`.
JmapPeopleRead(e) ==
  [organizer |-> e.organizer,
   attendees |-> SetOrNone({[email |-> p.email, role |-> p.role, partstat |-> p.partstat,
                             status |-> None] : p \in e.participants})]

\* Owner and attendees are replaced together, unless there are none at all.
JmapPeopleWrite(e, i) ==
  IF i.organizer = None /\ Elements(i.attendees) = {}
  THEN [organizer |-> e.organizer, participants |-> e.participants]
  ELSE [organizer |-> i.organizer,
        participants |-> {[email |-> p.email,
                           role |-> IF p.role \in {"chair", "optional"} THEN p.role ELSE "attendee",
                           partstat |-> Kept("needs-action", p.partstat)] : p \in Elements(i.attendees)}]

JmapEventRead(e) ==
  [reminder_minutes |-> e.alert, reminder_action |-> None, priority |-> e.priority,
   rrule |-> IF e.rule = None THEN None ELSE JmapRuleRead(e.rule),
   exdates |-> SetOrNone(e.excluded)]
    @@ JmapTimesRead(e) @@ JmapPeopleRead(e) @@ ReadPlain(e)

\* CalendarEvent/set with a patch: only alerts are cleared.  Name and coordinates
\* of the location are replaced together.  An alert at the start is stored or, by
\* Stalwart, dropped.
JmapEventWrites(e, i) ==
  LET placed == i.location # None \/ i.geo # None IN
  {[alert |-> alert,
   priority |-> Kept(e.priority, i.priority),
   rule |-> IF i.rrule = None THEN e.rule ELSE JmapRuleWrite(i.rrule),
   excluded |-> KeptSet(e.excluded, i.exdates),
   location |-> IF placed THEN i.location ELSE e.location,
   geo |-> IF placed THEN i.geo ELSE e.geo]
    @@ JmapTimesWrite(e, i) @@ JmapPeopleWrite(e, i)
    @@ [f \in Plain |-> IF f \in EventSets THEN KeptSet(e[f], i[f]) ELSE Kept(e[f], i[f])]
     : alert \in {i.reminder_minutes} \cup IF i.reminder_minutes = 0 THEN {None} ELSE {}}

-----------------------------------------------------------------------------
(* Graph: start and end are [local, zone], the zone has a Windows name; the   *)
(* description is the content of a body, which has a type, html or text.      *)

BlankGraphEvent ==
  [f \in {"summary", "body", "location", "geo", "conference", "start", "end", "recurrence",
          "organizer"} |-> None]
    @@ [isAllDay |-> FALSE, isCancelled |-> FALSE, importance |-> "normal",
        sensitivity |-> "public", categories |-> {}, attendees |-> {}, reminder |-> 0]

GraphTimesRead(e) ==
  LET At(t) == Moment(t.local - Offset(t.zone))
  IN [dtstart_utc |-> At(e.start), dtstart_tz |-> e.start.zone,
      dtend_utc |-> At(e.end), dtend_tz |-> e.end.zone, all_day |-> e.isAllDay]

\* Faulty variant: UTC under the label of the zone.
GraphTimeUtc(old, utc, zone) ==
  IF utc = None \/ zone \in {None, ""} THEN old
  ELSE [local |-> utc.at, zone |-> IF zone \in WindowsZones THEN zone ELSE UTC]
\* Local time of the zone, under the label UTC when the zone has no Windows name;
\* without a zone the time is left out.
GraphTime(old, utc, zone) ==
  IF utc = None \/ zone \in {None, ""} THEN old
  ELSE [local |-> utc.at + Offset(zone), zone |-> IF zone \in WindowsZones THEN zone ELSE UTC]

GraphTimesWrite(e, i) ==
  [start |-> GraphTime(e.start, i.dtstart_utc, i.dtstart_tz),
   end |-> GraphTime(e.end, i.dtend_utc, i.dtend_tz),
   isAllDay |-> Kept(e.isAllDay, i.all_day)]

Importance(priority) ==
  IF priority \in 1..4 THEN "high" ELSE IF priority \in 6..9 THEN "low" ELSE "normal"
GraphPriority(importance) ==
  CASE importance = "low" -> 6 [] importance = "normal" -> 5 [] importance = "high" -> 1

\* Faulty variant: a rule is never sent.
GraphRuleOmitted(old, rule) == old
\* A pattern with a type and an interval, and a range that ends on a date or after
\* a number of times; a frequency it does not know leaves the old one.
GraphRule(old, rule) ==
  IF rule = None \/ rule \cap {"FREQ=DAILY", "FREQ=WEEKLY"} = {} THEN old
  ELSE [type |-> IF "FREQ=DAILY" \in rule THEN "daily" ELSE "weekly",
        interval |-> IF "INTERVAL=2" \in rule THEN 2 ELSE 1,
        range |-> IF rule \cap {"UNTIL=date", "UNTIL=time"} # {} THEN "endDate"
                  ELSE IF "COUNT=3" \in rule THEN "numbered" ELSE "noEnd"]

\* A pattern that it cannot parse leaves the field unset.
GraphRuleRead(r) ==
  IF r.type \notin {"daily", "weekly"} THEN None
  ELSE {IF r.type = "daily" THEN "FREQ=DAILY" ELSE "FREQ=WEEKLY"}
    \cup (IF r.interval = 1 THEN {} ELSE {"INTERVAL=2"})
    \cup (CASE r.range = "endDate" -> {"UNTIL=date"}
            [] r.range = "numbered" -> {"COUNT=3"}
            [] r.range = "noEnd" -> {})

GraphPeopleRead(e) ==
  [organizer |-> e.organizer,
   attendees |-> SetOrNone({[email |-> p.email, partstat |-> p.response, status |-> None,
                             role |-> IF p.type = "optional" THEN "optional" ELSE "attendee"]
                              : p \in e.attendees})]

GraphPeopleWrite(e, i) ==
  [organizer |-> Kept(e.organizer, i.organizer),
   attendees |-> {[email |-> p.email, response |-> Kept("needs-action", p.partstat),
                   type |-> IF p.role = "optional" THEN "optional" ELSE "required"]
                    : p \in Elements(i.attendees)}]

\* Cancelled or confirmed, never tentative; a reminder at the start is none.
GraphEventRead(e) ==
  [status |-> IF e.isCancelled THEN "cancelled" ELSE "confirmed",
   priority |-> GraphPriority(e.importance), privacy |-> e.sensitivity,
   reminder_minutes |-> IF e.reminder = 0 THEN None ELSE e.reminder, reminder_action |-> None,
   rrule |-> IF e.recurrence = None THEN None ELSE GraphRuleRead(e.recurrence),
   description |-> IF e.body = None THEN None ELSE e.body.content,
   exdates |-> None, url |-> None, color |-> None]
    @@ GraphTimesRead(e) @@ GraphPeopleRead(e) @@ ReadPlain(e)

\* PATCH: what has no value is left out, categories and attendees are replaced;
\* whether the event is cancelled and its online meeting are never written.  A
\* body is always sent as text, its markup then is part of the text.
\* Coordinates are those of Graph itself, or an error, or left out.
GraphEventWrites(e, i) ==
  LET placed == i.location # None \/ i.geo # None
      event == [isCancelled |-> e.isCancelled,
                importance |-> IF i.priority = None THEN e.importance ELSE Importance(i.priority),
                sensitivity |-> Kept(e.sensitivity, i.privacy),
                reminder |-> Kept(e.reminder, i.reminder_minutes),
                recurrence |-> GraphRule(e.recurrence, i.rrule),
                summary |-> Kept(e.summary, i.summary),
                body |-> IF i.description = None THEN e.body
                         ELSE [type |-> "text", content |-> i.description],
                location |-> IF placed THEN i.location ELSE e.location,
                geo |-> IF ~placed THEN e.geo
                        ELSE IF i.geo # None /\ i.geo.form = "graph" THEN i.geo ELSE None,
                categories |-> Elements(i.categories)]
                 @@ GraphTimesWrite(e, i) @@ GraphPeopleWrite(e, i) @@ e
  IN IF event.start = None \/ event.end = None \/ (i.geo # None /\ i.geo.form = "jmap")
     THEN {} ELSE {event}

-----------------------------------------------------------------------------
(* iCalendar: times are UTC with a zone, or dates.                            *)

IcalZone(t) == IF t.day \/ t.zone \in {"", UTC} THEN "" ELSE t.zone

IcalTimesRead(e) ==
  LET ends == e.end # None
      At(t) == [day |-> t.day, at |-> t.at]
  IN [dtstart_utc |-> At(e.start), dtstart_tz |-> IcalZone(e.start), all_day |-> e.start.day,
      dtend_utc |-> IF ends THEN At(e.end) ELSE None,
      dtend_tz |-> IF ends THEN IcalZone(e.end) ELSE None]

\* A date without all_day becomes the time it begins, in UTC.
IcalTime(utc, zone, all_day) ==
  IF utc = None THEN None ELSE [day |-> all_day = TRUE, at |-> utc.at, zone |-> Kept("", zone)]

IcalPeopleRead(e) ==
  [organizer |-> e.organizer,
   attendees |-> SetOrNone({p @@ [partstat |-> None] : p \in e.attendees})]

IcalEventRead(e) ==
  [priority |-> e.priority, rrule |-> e.rrule, exdates |-> SetOrNone({[at |-> d, zulu |-> TRUE] : d \in e.exdates}),
   reminder_minutes |-> e.alarm.minutes, reminder_action |-> e.alarm.action]
    @@ IcalTimesRead(e) @@ IcalPeopleRead(e) @@ ReadPlain(e)

\* A date has no time in it, an all-day event has only dates.
DatesFit(i) == i.all_day = TRUE => \A f \in {"dtstart_utc", "dtend_utc"} : i[f] = None \/ i[f].day

\* An alarm needs an action; an item without the field gets the default, one
\* with an empty field, which is a merged item, cannot be written.
AlarmFits(e, i) == e = None \/ i.reminder_minutes = None \/ i.reminder_action # None

\* PUT replaces the event.  An excluded time is taken for UTC, the partstat of JMAP
\* and Graph has another name here.
IcalEventWrites(e, i) ==
  IF ~DatesFit(i) \/ ~AlarmFits(e, i) \/ (i.geo # None /\ i.geo.form # "dav") THEN {}
  ELSE {[priority |-> i.priority, rrule |-> i.rrule, exdates |-> {d.at : d \in Elements(i.exdates)},
         alarm |-> [minutes |-> i.reminder_minutes,
                    action |-> IF i.reminder_minutes = None THEN None
                               ELSE Kept("display", i.reminder_action)],
         start |-> IcalTime(i.dtstart_utc, i.dtstart_tz, i.all_day),
         end |-> IcalTime(i.dtend_utc, i.dtend_tz, i.all_day),
         organizer |-> i.organizer,
         attendees |-> {[email |-> p.email, role |-> p.role, status |-> p.status]
                          : p \in Elements(i.attendees)}]
          @@ [f \in Plain |-> IF f \in EventSets THEN Elements(i[f]) ELSE i[f]]}
=============================================================================
