------------------------------- MODULE Screen -------------------------------
(***************************************************************************)
(* What the touch screen shows (HMI.c): the threads that store the weather *)
(* and those that draw it.  A draw copies weather_data, which others may   *)
(* be storing, and writes one line after the other over the serial port;   *)
(* a line is its text and, in a second write, the three bytes that end it. *)
(* The port is written by polling and without a lock, so that the lines of *)
(* the threads and of the RTC interrupt get into each other.               *)
(*                                                                         *)
(* The screen is external: it does what a line says when the line holds    *)
(* one text, and forgets what it has drawn when the user turns the page.   *)
(* Lines that the code treats alike stand as one, and so do the suggestions *)
(* of the day and the forecast; a text in a line is the version of the data  *)
(* it was made from.                                                       *)
(***************************************************************************)
EXTENDS Integers, Sequences, FiniteSets, SequencesExt

CONSTANTS MaxVersion,   \* bound: how often new data are stored
          MaxCommands,  \* bound: what the user does
          MaxSeconds    \* bound: the interrupts of the RTC

ASSUME ScreenAssumption ==
  MaxVersion \in Nat /\ MaxCommands \in Nat /\ MaxSeconds \in Nat

Threads == {"GetWeather", "UpdateHMI", "HMIRePrecess"}
Desk == "page_Desk"
Daily == "page_DailyWeather"
Pages == {Desk, Daily}
Parts == {"now", "daily", "wifi"}
NoPage == ""

VARIABLES
  weather_data,   \* part -> version, 0 when cleared; WIFI_connect_Sign is
                  \* the part "wifi"
  version,        \* the last version stored
  todo,           \* thread -> what it has still to do, as a sequence of steps
  copy,           \* thread -> the arguments of the function it is in
  g_page,         \* the page the program draws
  GetWea_sem, espwifi_getweath,
  page,           \* the page of the screen
  asked,          \* the page the screen has asked for, not yet handled
  line,           \* what the screen has received since the last end of a line
  shown,          \* what it shows: line -> version and day
  commands, seconds

dataVars == <<weather_data, version, copy>>
progVars == <<todo, g_page, GetWea_sem, espwifi_getweath>>
screenVars == <<page, asked, line, shown>>
bounds == <<commands, seconds>>
vars == <<dataVars, progVars, screenVars, bounds>>

(***************************************************************************)
(* The lines: their name, the part of the data and the day they are about. *)
(***************************************************************************)
Line(name, part, day) == [name |-> name, part |-> part, day |-> day]

IconsOfDesk == <<Line("DeskIcon", "now", 0)>>
IconsOfDaily == <<Line("AfterTomorIcon", "daily", 2)>>
TextsOfDesk == <<Line("DeskTem", "now", 0), Line("WindDirTxt", "daily", 0)>>

\* The temperature of the day after tomorrow is taken from tomorrow (HMI.c:193).
TextsOfDaily == <<Line("AfterTorTemp", "daily", 1), Line("AftorWind", "daily", 2)>>
WifiIcon == <<Line("WifiIcon", "wifi", 0)>>
LoadIcon(sign) == Line("LoadIcon", "load", sign)

PageOf(name) ==
  CASE name \in {"DeskIcon", "DeskTem", "WindDirTxt", "WifiIcon"} -> Desk
    [] name \in {"AfterTomorIcon", "AfterTorTemp", "AftorWind"} -> Daily
    [] OTHER -> NoPage

(***************************************************************************)
(* What a thread has to do is a sequence of such steps.                    *)
(***************************************************************************)
Step(do, arg, lines) == [do |-> do, arg |-> arg, lines |-> lines]
Copy(part) == <<Step("copy", part, <<>>)>>
On(p, lines) == <<Step("onPage", p, lines)>>
Store(part) == <<Step("store", part, <<>>)>>
Do(what) == <<Step(what, "", <<>>)>>
Write(l) == <<Step("text", "", <<l>>), Step("end", "", <<>>)>>

\* Mutant of DisplayWeatherIcon: the lines of one page are not asked for.
DisplayIconOfDesk ==
  Copy("now") \o Copy("daily") \o On(Desk, IconsOfDesk)

DisplayWeatherIcon ==
  Copy("now") \o Copy("daily")
    \o On(Desk, IconsOfDesk) \o On(Daily, IconsOfDaily)

Task_SendHMI_WeaData ==
  Copy("now") \o Copy("daily")
    \o On(Desk, TextsOfDesk) \o On(Daily, TextsOfDaily) \o Do("clearBuffer")

DisplayWifiIcon == Copy("wifi") \o On(Desk, WifiIcon)
DisplayLoadIcon(sign) == Write(LoadIcon(sign))
Draw == DisplayWeatherIcon \o Task_SendHMI_WeaData \o DisplayWifiIcon
Refresh == Do("fetch") \o Store("now") \o Store("daily")

Init ==
  /\ weather_data = [p \in Parts |-> 0] /\ version = 0
  /\ todo = [t \in Threads |-> <<>>]
  /\ copy = [t \in Threads |-> [p \in Parts |-> 0]]
  /\ g_page = NoPage
  /\ GetWea_sem = 0 /\ espwifi_getweath = 0
  /\ page = Desk /\ asked = NoPage
  /\ line = <<>> /\ shown = {}
  /\ commands = 0 /\ seconds = 0
-----------------------------------------------------------------------------
(***************************************************************************)
(* The screen.                                                             *)
(***************************************************************************)
\* The lines shown after one that says: name, with this version and day.
Shows(text) ==
  {s \in shown : s.name # text.name}
    \union (IF PageOf(text.name) \in {page, NoPage} THEN {text} ELSE {})

\* The user turns the page, and the screen tells the program.
TurnPage ==
  /\ commands < MaxCommands /\ asked = NoPage
  /\ commands' = commands + 1
  /\ page' \in Pages \ {page}
  /\ asked' = page'
  /\ shown' = {}
  /\ UNCHANGED <<dataVars, progVars, line, seconds>>
-----------------------------------------------------------------------------
(***************************************************************************)
(* The steps of the threads.                                               *)
(***************************************************************************)
Idle(t) == todo[t] = <<>>
Now(t) == Head(todo[t])
Does(t, do) == ~Idle(t) /\ Now(t).do = do
Goes(t, before) == todo' = [todo EXCEPT ![t] = before \o Tail(@)]

CopyPart(t) ==
  /\ Does(t, "copy")
  /\ copy' = [copy EXCEPT ![t][Now(t).arg] = weather_data[Now(t).arg]]
  /\ Goes(t, <<>>)
  /\ UNCHANGED <<weather_data, version, g_page, GetWea_sem, espwifi_getweath,
                 screenVars, bounds>>

WriteAll(lines) == FlattenSeq([i \in DOMAIN lines |-> Write(lines[i])])

\* strcmp(g_page, ...) decides which lines are written.
CheckPage(t) ==
  /\ Does(t, "onPage")
  /\ Goes(t, IF g_page = Now(t).arg THEN WriteAll(Now(t).lines) ELSE <<>>)
  /\ UNCHANGED <<dataVars, g_page, GetWea_sem, espwifi_getweath, screenVars, bounds>>

\* The text of a line, made from the copy
Text(t, l) ==
  [name |-> l.name, day |-> l.day,
   version |-> IF l.part \in Parts THEN copy[t][l.part] ELSE 0]

WriteText(t) ==
  /\ Does(t, "text")
  /\ line' = Append(line, Text(t, Now(t).lines[1]))
  /\ Goes(t, <<>>)
  /\ UNCHANGED <<dataVars, g_page, GetWea_sem, espwifi_getweath, page, asked,
                 shown, bounds>>

WriteEnd(t) ==
  /\ Does(t, "end")
  /\ line' = <<>>
  /\ shown' = IF Len(line) = 1 THEN Shows(line[1]) ELSE shown
  /\ Goes(t, <<>>)
  /\ UNCHANGED <<dataVars, g_page, GetWea_sem, espwifi_getweath, page, asked,
                 bounds>>

\* A parser stores what the server says now, if its answer has data.
StorePart(t) ==
  /\ Does(t, "store")
  /\ \E v \in {version, weather_data[Now(t).arg]} :
       weather_data' = [weather_data EXCEPT ![Now(t).arg] = v]
  /\ Goes(t, <<>>)
  /\ UNCHANGED <<version, copy, g_page, GetWea_sem, espwifi_getweath, screenVars, bounds>>

Fetch(t) ==
  /\ Does(t, "fetch")
  /\ version' = version + 1
  /\ Goes(t, <<>>)
  /\ UNCHANGED <<weather_data, copy, g_page, GetWea_sem, espwifi_getweath,
                 screenVars, bounds>>

\* Another city: memset(&weather_data, 0, ...)
ClearData(t) ==
  /\ Does(t, "clear")
  /\ weather_data' = [p \in Parts |-> IF p = "wifi" THEN weather_data[p] ELSE 0]
  /\ Goes(t, <<>>)
  /\ UNCHANGED <<version, copy, g_page, GetWea_sem, espwifi_getweath, screenVars, bounds>>

Join(t) ==
  /\ Does(t, "join")
  /\ \E sign \in {0, 1} : weather_data' = [weather_data EXCEPT !["wifi"] = sign]
  /\ Goes(t, <<>>)
  /\ UNCHANGED <<version, copy, g_page, GetWea_sem, espwifi_getweath, screenVars, bounds>>

\* After a join the weather is fetched by the thread GetWeather.
PostGetWea(t) ==
  /\ Does(t, "postGetWea")
  /\ GetWea_sem' = IF weather_data["wifi"] = 1 THEN GetWea_sem + 1 ELSE GetWea_sem
  /\ Goes(t, <<>>)
  /\ UNCHANGED <<dataVars, g_page, espwifi_getweath, screenVars, bounds>>

\* UpdateHMI is told, unless one of the parsers has returned 0.
PostUpdate(t) ==
  /\ Does(t, "postUpdate")
  /\ espwifi_getweath' \in {espwifi_getweath, espwifi_getweath + 1}
  /\ Goes(t, <<>>)
  /\ UNCHANGED <<dataVars, g_page, GetWea_sem, screenVars, bounds>>

\* The buffer of received bytes is cleared, and a command with it that has
\* come meanwhile.
ClearBuffer(t) ==
  /\ Does(t, "clearBuffer")
  /\ asked' \in {asked, NoPage}
  /\ Goes(t, <<>>)
  /\ UNCHANGED <<dataVars, g_page, GetWea_sem, espwifi_getweath, page, line, shown, bounds>>

Thread(t) ==
  \/ CopyPart(t) \/ CheckPage(t) \/ WriteText(t) \/ WriteEnd(t)
  \/ StorePart(t) \/ Fetch(t) \/ ClearData(t) \/ Join(t)
  \/ PostGetWea(t) \/ PostUpdate(t) \/ ClearBuffer(t)
-----------------------------------------------------------------------------
(***************************************************************************)
(* What the threads begin.                                                 *)
(***************************************************************************)
Begins(t, steps) == Idle(t) /\ todo' = [todo EXCEPT ![t] = steps]

GetWeather ==
  /\ GetWea_sem > 0 /\ version < MaxVersion
  /\ GetWea_sem' = GetWea_sem - 1
  /\ Begins("GetWeather", Refresh \o Do("postUpdate"))
  /\ UNCHANGED <<dataVars, g_page, espwifi_getweath, screenVars, bounds>>

\* Mutant of UpdateHMI: it does not wait to be told.
UpdateHMIUntold ==
  /\ espwifi_getweath' = espwifi_getweath - 1
  /\ Begins("UpdateHMI", Draw)
  /\ UNCHANGED <<dataVars, g_page, GetWea_sem, screenVars, bounds>>

UpdateHMI ==
  /\ espwifi_getweath > 0
  /\ espwifi_getweath' = espwifi_getweath - 1
  /\ Begins("UpdateHMI", Draw)
  /\ UNCHANGED <<dataVars, g_page, GetWea_sem, screenVars, bounds>>

\* HMI_RePrecess, one command per call
PageCommand ==
  /\ asked # NoPage
  /\ g_page' = asked /\ asked' = NoPage
  /\ Begins("HMIRePrecess", Draw \o Do("clearBuffer"))
  /\ UNCHANGED <<dataVars, GetWea_sem, espwifi_getweath, page, line, shown, bounds>>

Command(steps) ==
  /\ commands < MaxCommands
  /\ commands' = commands + 1
  /\ Begins("HMIRePrecess", steps \o Do("clearBuffer"))
  /\ UNCHANGED <<dataVars, g_page, GetWea_sem, espwifi_getweath, screenVars, seconds>>

UpdateCommand ==
  /\ version < MaxVersion
  /\ Command(DisplayLoadIcon(1) \o Refresh \o DisplayLoadIcon(0))

PlaceCommand ==
  /\ version < MaxVersion
  /\ Command(Do("clear") \o DisplayLoadIcon(1) \o Refresh \o DisplayLoadIcon(0))

WifiCommand == Command(Do("join") \o DisplayWifiIcon \o Do("postGetWea"))

\* DisplayRTCTime writes its lines in the interrupt, between two writes of the
\* thread that runs; the first of them ends the line that was begun.  The
\* lines that show the time are not followed.
RTC_IRQHandler ==
  /\ seconds < MaxSeconds
  /\ seconds' = seconds + 1
  /\ line' = <<>>
  /\ UNCHANGED <<dataVars, progVars, page, asked, shown, commands>>

Next ==
  \/ TurnPage \/ UpdateCommand \/ PlaceCommand \/ WifiCommand
  \/ RTC_IRQHandler
  \/ PageCommand \/ GetWeather \/ UpdateHMI
  \/ \E t \in Threads : Thread(t)

Spec == Init /\ [][Next]_vars
-----------------------------------------------------------------------------
Names == {"DeskIcon", "DeskTem", "WindDirTxt", "WifiIcon", "AfterTomorIcon",
          "AfterTorTemp", "AftorWind", "LoadIcon"}
Texts == [name : Names, version : 0 .. MaxVersion + 1, day : 0 .. 2]

\* No semaphore is taken more often than it is posted or posted more often than
\* a command or a fetch allows, and no more lines get into each other than
\* there are threads.
TypeOK ==
  /\ weather_data \in [Parts -> 0 .. MaxVersion + 1]
  /\ copy \in [Threads -> [Parts -> 0 .. MaxVersion + 1]]
  /\ g_page \in Pages \union {NoPage} /\ page \in Pages
  /\ asked \in Pages \union {NoPage}
  /\ GetWea_sem \in 0 .. MaxCommands /\ espwifi_getweath \in 0 .. MaxCommands
  /\ line \in Seq(Texts) /\ Len(line) <= Cardinality(Threads)
  /\ shown \subseteq Texts

\* The lines of a page, each with the part of the data and the day that its name
\* and the comment beside it say (HMI.c:49-205).
Wanted(p) ==
  IF p = Desk
  THEN {Line("DeskIcon", "now", 0), Line("DeskTem", "now", 0),
        Line("WindDirTxt", "daily", 0), Line("WifiIcon", "wifi", 0)}
  ELSE {Line("AfterTomorIcon", "daily", 2), Line("AfterTorTemp", "daily", 2),
        Line("AftorWind", "daily", 2)}

Drawers == {"UpdateHMI", "HMIRePrecess"}
=============================================================================
