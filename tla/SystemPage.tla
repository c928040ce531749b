------------------------------ MODULE SystemPage ------------------------------
(***************************************************************************)
(* System management (views/SystemManagementView.tsx) with the settings     *)
(* service it writes to (app/services/system_settings_service.py).  The     *)
(* page reads everything again every five seconds, and the catch-up's       *)
(* status every two while it believes one to run.                          *)
(*                                                                         *)
(* The cards share only these readings: an instance follows one card, that  *)
(* of the settings, of the market data or of the system's events.           *)
(***************************************************************************)
EXTENDS Integers, FiniteSets, Sequences

CONSTANTS
  Lowest, Highest, Standard,   \* setting -> its range and its default
  Typed,        \* what an administrator types: <<>> is a blank input, <<n>> a number
  MaxSysCalls,  \* requests under way, at most
  Codes,        \* what requests of others are answered with; 0 is an event of another kind
  FetchLimit,   \* SYSTEM_TERMINAL_FETCH_LIMIT and SYSTEM_TERMINAL_VISIBLE_LIMIT
  MaxEvents     \* events recorded, at most

Setting == DOMAIN Standard

Legal(k) == Lowest[k] .. Highest[k]

ASSUME SystemAssumption ==
  /\ DOMAIN Lowest = Setting /\ DOMAIN Highest = Setting
  /\ \A k \in Setting : Standard[k] \in Legal(k)
  /\ <<>> \in Typed /\ MaxSysCalls \in Nat \ {0} /\ Codes \subseteq 0 .. 599
  /\ FetchLimit \in Nat \ {0} /\ MaxEvents \in Nat

VARIABLES
  card,       \* the card that is followed
  stored,     \* the settings on the server
  thread,     \* the state of the catch-up on the server
  fields,     \* setting -> what its input shows
  touched,    \* history: inputs typed in since the last click on Save
  told,       \* [saved, catching, action]: what the page tells of its requests
  trace,      \* [log, shown]: the events on the server, and in the terminal, newest first
  sysCalls    \* requests: [id, kind, sent, stage, settings, status, events]

sysVars == <<card, stored, thread, fields, touched, told, trace, sysCalls>>

ThreadState == {"idle", "running", "stopping", "stopped", "completed", "error"}

IsRunning(status) == status \in {"running", "stopping"}

AsText(settings) == [k \in Setting |-> <<settings[k]>>]

\* Number(input): a blank one is 0.
NumberOf(text) == IF text = <<>> THEN 0 ELSE text[1]

Nobody == [k \in {} |-> 0]

\* A request that finds too many under way is not followed; none is refused.
Call(calls, kind, sent) ==
  IF Cardinality(calls) >= MaxSysCalls THEN calls
  ELSE calls \cup {[kind |-> kind, sent |-> sent, stage |-> "sent", settings |-> {}, status |-> {}, events |-> {},
                    id |-> CHOOSE i \in 1 .. MaxSysCalls : \A c \in calls : c.id # i]}

SysRoom == Cardinality(sysCalls) < MaxSysCalls

SysInit ==
  /\ card \in {"settings", "market", "trace"}
  /\ stored \in IF card = "settings" THEN [Setting -> UNION {Legal(k) : k \in Setting}] ELSE {Standard}
  /\ \A k \in Setting : stored[k] \in Legal(k)
  /\ thread \in IF card = "market" THEN {"idle", "running"} ELSE {"idle"}
  /\ fields = [k \in Setting |-> <<>>]
  /\ touched = {}
  /\ told = [saved |-> FALSE, catching |-> FALSE, action |-> "none"]
  /\ trace = [log |-> <<>>, shown |-> <<>>]
  /\ sysCalls = Call({}, "snapshot", Nobody)
-----------------------------------------------------------------------------
(* The administrator and the timers. *)

TypeSetting ==
  /\ card = "settings"
  /\ \E k \in Setting, text \in Typed :
       /\ fields' = [fields EXCEPT ![k] = text]
       /\ touched' = touched \cup {k}
  /\ UNCHANGED <<card, stored, thread, told, trace, sysCalls>>

\* saveSettings: all five inputs, typed in or not.
SaveSettings ==
  /\ card = "settings" /\ SysRoom
  /\ sysCalls' = Call(sysCalls, "save", [k \in Setting |-> NumberOf(fields[k])])
  /\ touched' = {}
  /\ told' = [told EXCEPT !.saved = FALSE]
  /\ UNCHANGED <<card, stored, thread, fields, trace>>

\* The five-second timer and the Refresh button.
RefreshTick ==
  /\ SysRoom
  /\ sysCalls' = Call(sysCalls, "snapshot", Nobody)
  /\ UNCHANGED <<card, stored, thread, fields, touched, told, trace>>

\* The two-second timer.
PollCatchUp ==
  /\ told.catching /\ SysRoom
  /\ sysCalls' = Call(sysCalls, "poll", Nobody)
  /\ UNCHANGED <<card, stored, thread, fields, touched, told, trace>>

\* runCatchUp: one button, for what the page believes.
RunCatchUp ==
  /\ card = "market" /\ SysRoom
  /\ sysCalls' = Call(sysCalls, IF told.catching THEN "stop" ELSE "start", Nobody)
  /\ told' = [told EXCEPT !.action = IF told.catching THEN @ ELSE "none"]
  /\ UNCHANGED <<card, stored, thread, fields, touched, trace>>

ClearData ==
  /\ card = "market" /\ SysRoom
  /\ ~told.catching
  /\ sysCalls' = Call(sysCalls, "clear", Nobody)
  /\ told' = [told EXCEPT !.action = "none"]
  /\ UNCHANGED <<card, stored, thread, fields, touched, trace>>
-----------------------------------------------------------------------------
(* The server.  A database that cannot be read answers with the defaults;   *)
(* one that cannot be written answers a save with the defaults as well.     *)

\* As a bug would have it: only what is read is brought into range.
UpdatedUnchecked(sent) == sent

\* update_settings: one bad value refuses them all.
Updated(sent) == IF \A k \in Setting : sent[k] \in Legal(k) THEN sent ELSE stored

Readable == IF card = "settings" THEN {stored, Standard} ELSE {}

Served(c, settings, status, events) ==
  sysCalls' = (sysCalls \ {c}) \cup {[c EXCEPT !.stage = "served", !.settings = settings, !.status = status,
                                              !.events = events]}

NewestEvents(log) == SubSeq(log, 1, IF Len(log) < FetchLimit THEN Len(log) ELSE FetchLimit)

\* record_event: a request is answered, or something of note happens.
RecordEvent ==
  /\ card = "trace" /\ Len(trace.log) < MaxEvents
  /\ \E code \in Codes : trace' = [trace EXCEPT !.log = <<code>> \o @]
  /\ UNCHANGED <<card, stored, thread, fields, touched, told, sysCalls>>

\* Each part of a snapshot may fail by itself.
ServeSnapshot ==
  /\ \E c \in sysCalls, settings \in {{}} \cup {{s} : s \in Readable},
        status \in IF card = "market" THEN {{}, {thread}} ELSE {{}},
        events \in IF card = "trace" THEN {{}, {NewestEvents(trace.log)}} ELSE {{}} :
       c.kind = "snapshot" /\ c.stage = "sent" /\ Served(c, settings, status, events)
  /\ UNCHANGED <<card, stored, thread, fields, touched, told, trace>>

ServeSave ==
  /\ \E c \in sysCalls :
       /\ c.kind = "save" /\ c.stage = "sent"
       /\ \/ /\ stored' = Updated(c.sent)
             /\ Served(c, IF \A k \in Setting : c.sent[k] \in Legal(k) THEN {stored'} ELSE {}, {}, {})
          \/ /\ \A k \in Setting : c.sent[k] \in Legal(k)
             /\ Served(c, {Standard}, {}, {})
             /\ UNCHANGED stored
  /\ UNCHANGED <<card, thread, fields, touched, told, trace>>

\* The catch-up's endpoints: module CatchUp has them in detail.
ServeCatchUp ==
  /\ \E c \in sysCalls :
       /\ c.kind \in {"start", "stop", "poll", "clear"} /\ c.stage = "sent"
       /\ thread' = CASE c.kind = "start" /\ ~IsRunning(thread) -> "running"
                      [] c.kind = "stop" /\ IsRunning(thread)   -> "stopping"
                      [] OTHER                                  -> thread
       /\ Served(c, {}, IF c.kind = "clear" /\ IsRunning(thread) THEN {} ELSE {thread'}, {})
  /\ UNCHANGED <<card, stored, fields, touched, told, trace>>

ThreadEnds ==
  /\ \/ thread = "running" /\ thread' \in {"completed", "error"}
     \/ thread = "stopping" /\ thread' \in {"stopped", "error"}
  /\ UNCHANGED <<card, stored, fields, touched, told, trace, sysCalls>>
-----------------------------------------------------------------------------
(* Answers, in any order. *)

\* applyCatchUpStatus: idle leaves the message.
Tell(t, status) ==
  [t EXCEPT !.catching = IsRunning(status), !.action = IF status = "idle" THEN @ ELSE status]

SnapshotAnswered ==
  /\ \E c \in sysCalls :
       /\ c.kind = "snapshot" /\ c.stage = "served"
       /\ sysCalls' = sysCalls \ {c}
       /\ fields' = IF c.settings = {} THEN fields ELSE AsText(CHOOSE s \in c.settings : TRUE)
       /\ told' = IF c.status = {} THEN told ELSE Tell(told, CHOOSE s \in c.status : TRUE)
       /\ trace' = IF c.events = {} THEN trace ELSE [trace EXCEPT !.shown = CHOOSE e \in c.events : TRUE]
  /\ UNCHANGED <<card, stored, thread, touched>>

SaveAnswered ==
  /\ \E c \in sysCalls : \E s \in c.settings :
       /\ c.kind = "save" /\ c.stage = "served"
       /\ sysCalls' = sysCalls \ {c}
       /\ fields' = AsText(s)
       /\ told' = [told EXCEPT !.saved = TRUE]
  /\ UNCHANGED <<card, stored, thread, touched, trace>>

\* A start and a poll read everything again; a clear tells of itself as well.
CatchUpAnswered ==
  /\ \E c \in sysCalls : \E s \in c.status :
       /\ c.kind \in {"start", "stop", "poll", "clear"} /\ c.stage = "served"
       /\ sysCalls' = IF c.kind = "stop" THEN sysCalls \ {c} ELSE Call(sysCalls \ {c}, "snapshot", Nobody)
       /\ told' = IF c.kind = "clear" THEN [told EXCEPT !.action = "cleared"] ELSE Tell(told, s)
  /\ UNCHANGED <<card, stored, thread, fields, touched, trace>>

\* A failed poll gives the catch-up up; a failed start tells; a save, a stop
\* and a clear are not caught; a snapshot never fails as a whole.
SysCallFails ==
  /\ \E c \in sysCalls \ {c \in sysCalls : c.kind = "snapshot"} :
       /\ sysCalls' = sysCalls \ {c}
       /\ told' = CASE c.kind = "poll"  -> [told EXCEPT !.catching = FALSE, !.action = "unavailable"]
                    [] c.kind = "start" -> [told EXCEPT !.action = "failed"]
                    [] OTHER            -> told
  /\ UNCHANGED <<card, stored, thread, fields, touched, trace>>

SysNext ==
  \/ TypeSetting \/ SaveSettings \/ RefreshTick \/ PollCatchUp \/ RunCatchUp \/ ClearData
  \/ ServeSnapshot \/ ServeSave \/ ServeCatchUp \/ ThreadEnds \/ RecordEvent
  \/ SnapshotAnswered \/ SaveAnswered \/ CatchUpAnswered \/ SysCallFails
-----------------------------------------------------------------------------
\* The colour of an event, by the class of the status it was answered with.
Badge(code) ==
  IF code >= 500 THEN "red" ELSE IF code >= 400 THEN "orange" ELSE IF code >= 300 THEN "yellow"
  ELSE IF code >= 200 THEN "emerald" ELSE IF code >= 100 THEN "cyan" ELSE "slate"

\* The rows of the terminal.
TerminalRows == [i \in DOMAIN NewestEvents(trace.shown) |-> [code |-> trace.shown[i], badge |-> Badge(trace.shown[i])]]

\* The labels of the buttons and the messages.
SystemShown ==
  [button |-> IF told.catching THEN "Stop" ELSE "Catch up",
   clear  |-> IF told.catching THEN "disabled" ELSE "enabled",
   action |-> told.action,
   saved  |-> told.saved]

SysTypeOK ==
  /\ DOMAIN stored = Setting /\ \A k \in Setting : stored[k] \in Legal(k)
  /\ thread \in ThreadState
  /\ \A k \in Setting : fields[k] \in Typed \cup {<<n>> : n \in Legal(k)}
  /\ touched \subseteq Setting
  /\ told.action \in ThreadState \cup {"none", "cleared", "unavailable", "failed"}
  /\ Cardinality(sysCalls) <= MaxSysCalls
  \* The terminal shows the newest events as they were at one time, none left out.
  /\ \E n \in 0 .. Len(trace.log) : trace.shown = NewestEvents(SubSeq(trace.log, n + 1, Len(trace.log)))
  /\ \A i \in DOMAIN TerminalRows : TerminalRows[i].badge = "red" <=> trace.shown[i] \in 500 .. 599

\* Settings only ever change to what all inputs showed together at one click: a
\* save with a value out of its range changes none of them.
SavesAreWhole ==
  [][stored' # stored => \E c \in sysCalls : c.kind = "save" /\ c.sent = stored']_sysVars
=============================================================================
