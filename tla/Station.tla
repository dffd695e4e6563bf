------------------------------- MODULE Station -------------------------------
(***************************************************************************)
(* The weather station: the threads GetWeather and HMIRePrecess (Task.c,   *)
(* HMI.c) and the fetches they make through the one Wi-Fi module           *)
(* (WeatherInfo.c, NtpExample.c over BspEsp8266.c).  A fetch is a sequence *)
(* of exchanges with the module: open a link, enter transparent mode, send *)
(* a request, read what came back, leave the mode, close the link.  In     *)
(* every exchange the thread sends, sleeps in rt_thread_mdelay and then    *)
(* looks at the frame buffer; nothing keeps the other thread from using    *)
(* the module and the buffer meanwhile.                                    *)
(***************************************************************************)
EXTENDS Esp8266

CONSTANTS
  Commands,      \* the commands the screen sends: "update", "place", "wifi"
  MaxCommands,   \* bound: how many of them
  Places,        \* the cities the user can choose
  FirstPlace,    \* the city at start
  JoinedAtStart, \* the module finds its access point by itself
  TimerRuns      \* the timer of six hours runs out (if lost < MaxLost)

ASSUME StationAssumption ==
  /\ Commands \subseteq {"update", "place", "wifi"}
  /\ MaxCommands \in Nat
  /\ FirstPlace \in Places
  /\ JoinedAtStart \in BOOLEAN /\ TimerRuns \in BOOLEAN

Threads == {"GetWeather", "HMIRePrecess"}
Weather == {"Now", "Daily", "Life"}

\* What both threads do to refresh everything, in this order.
Fetch == <<"Test", "Now", "Daily", "Life", "NTP">>

VARIABLES
  job,               \* the functions each thread has still to run
  step,              \* the exchange its current function is in
  phase,             \* "go", "reset" or "wait" within the exchange
  gw,                \* where GetWeather is: "take", "blocked", "run", "delay"
  sign,              \* its Now_sign, Daily_sign and Life_sign
  hmi,               \* the command HMIRePrecess handles, or "idle"
  commands,          \* how many commands the screen has sent
  GetWea_sem, espwifi_getweath,
  g_city,            \* the city asked about
  weather_data,      \* the city each part of the data is about, "" for none
  clock,             \* what the RTC was last set from: "unset", "ntp", "other"
  loadIcon,          \* the loading icon is shown
  WIFI_connect_Sign,
  hung               \* the program hangs in the tick interrupt

threadVars == <<job, step, phase>>
gwVars == <<gw, sign, GetWea_sem, espwifi_getweath>>
hmiVars == <<hmi, commands, loadIcon, g_city>>
dataVars == <<weather_data, clock, WIFI_connect_Sign>>
vars == <<espVars, threadVars, gwVars, hmiVars, dataVars, hung>>

Init ==
  /\ EspInit(JoinedAtStart)
  /\ job = [t \in Threads |-> <<>>]
  /\ step = [t \in Threads |-> "link"]
  /\ phase = [t \in Threads |-> "go"]
  /\ gw = "take" /\ sign = [k \in Weather |-> FALSE]
  /\ hmi = "idle" /\ commands = 0
  /\ GetWea_sem = 0 /\ espwifi_getweath = 0
  /\ g_city = FirstPlace
  /\ weather_data = [k \in Weather |-> ""]
  /\ clock = "unset" /\ loadIcon = FALSE /\ WIFI_connect_Sign = FALSE
  /\ hung = FALSE

Busy(t) == job[t] /= <<>>
Function(t) == Head(job[t])

\* t goes on with exchange s of its current function.
Exchange(t, s) ==
  /\ step' = [step EXCEPT ![t] = s]
  /\ phase' = [phase EXCEPT ![t] = "go"]
  /\ UNCHANGED job

\* t has returned from its current function.
Return(t) ==
  /\ job' = [job EXCEPT ![t] = Tail(@)]
  /\ step' = [step EXCEPT ![t] = "link"]
  /\ phase' = [phase EXCEPT ![t] = "go"]

Then(t, p) == phase' = [phase EXCEPT ![t] = p] /\ UNCHANGED <<job, step>>
-----------------------------------------------------------------------------
(***************************************************************************)
(* Sending.                                                                *)
(***************************************************************************)

\* ESP8266_Cmd forgets what was received, sends the line and sleeps.
Cmd(t, s, command) ==
  /\ step[t] = s
  /\ rx' = <<>>
  /\ Line(command)
  /\ Then(t, "wait")

\* The server answers with the data asked for, or with an error as JSON, or
\* its answer gets lost.
GetRequest(t) ==
  /\ step[t] = "request" /\ Function(t) \in Weather
  /\ Ask("TCP", [tag |-> Function(t), city |-> g_city],
         {<<>>, <<Answer("error")>>}, <<ERROR>>)
  /\ Then(t, "reset")
  /\ UNCHANGED rx

\* GetTest sends a line that does not end and waits for nothing.
TestRequest(t) ==
  /\ step[t] = "request" /\ Function(t) = "Test"
  /\ Swallowed
  /\ Exchange(t, "exit")
  /\ UNCHANGED rx

\* Mutant of NtpRequest: what was received before is kept.
NtpRequestKeepsRx(t) ==
  /\ step[t] = "request" /\ Function(t) = "NTP"
  /\ Ask("UDP", Answer("ntp"), {<<>>}, <<>>)
  /\ Then(t, "wait")
  /\ UNCHANGED rx

\* GetNtp forgets what was received before it sends the packet.
NtpRequest(t) ==
  /\ step[t] = "request" /\ Function(t) = "NTP"
  /\ rx' = <<>>
  /\ Ask("UDP", Answer("ntp"), {<<>>}, <<>>)
  /\ Then(t, "wait")

\* Mutant of ExitUnvarnishSend: GetNtp returns without closing its link.
ExitWithoutClose(t) ==
  /\ step[t] = "exit"
  /\ Escape
  /\ IF Function(t) = "NTP" THEN Return(t) ELSE Exchange(t, "close")
  /\ UNCHANGED rx

\* ESP8266_ExitUnvarnishSend sleeps before and after it sends "+++".
ExitUnvarnishSend(t) ==
  /\ step[t] = "exit"
  /\ Escape
  /\ Exchange(t, "close")
  /\ UNCHANGED rx

Send(t) ==
  /\ Busy(t) /\ phase[t] = "go"
  /\ \/ Cmd(t, "link", CASE Function(t) = "NTP"  -> OpenLink("UDP")
                         [] Function(t) = "Join" -> JoinAP
                         [] OTHER                -> OpenLink("TCP"))
     \/ Cmd(t, "mode", SetTransparent)
     \/ Cmd(t, "send", BeginTransparent)
     \/ Cmd(t, "close", CloseLink)
     \/ GetRequest(t) \/ TestRequest(t) \/ NtpRequest(t) \/ ExitUnvarnishSend(t)
  /\ UNCHANGED <<gwVars, hmiVars, dataVars>>

\* The weather functions forget what was received after they have sent.
Reset(t) ==
  /\ phase[t] = "reset"
  /\ rx' = <<>>
  /\ Then(t, "wait")
  /\ UNCHANGED <<modemVars, air, lost, gwVars, hmiVars, dataVars>>
-----------------------------------------------------------------------------
(***************************************************************************)
(* Waking up and looking at the frame buffer.                              *)
(***************************************************************************)

\* The sleep in rt_thread_mdelay is over; an answer that is not there by then
\* is late.
Woken(t) ==
  /\ phase[t] = "wait"
  /\ IF air = <<>> THEN UNCHANGED lost ELSE Fails

\* A weather function goes on whatever ESP8266_Link_Server returns; GetNtp
\* returns 0, and AccessNTP calls it again.
LinkDone(t) ==
  /\ Woken(t) /\ step[t] = "link" /\ Function(t) /= "Join"
  /\ IF Function(t) = "NTP" /\ ~Found({CONNECT, OK}) THEN Exchange(t, "link")
     ELSE Exchange(t, "mode")
  /\ UNCHANGED <<modemVars, air, rx, gwVars, hmiVars, dataVars>>

JoinDone(t) ==
  /\ Woken(t) /\ step[t] = "link" /\ Function(t) = "Join"
  /\ WIFI_connect_Sign' = Found({OK})
  /\ Return(t)
  /\ UNCHANGED <<modemVars, air, rx, gwVars, hmiVars, weather_data, clock>>

\* ESP8266_UnvarnishSend: without the OK to AT+CIPMODE=1 there is no
\* AT+CIPSEND; what it returns is looked at by nobody.
ModeDone(t) ==
  /\ Woken(t) /\ step[t] = "mode"
  /\ Exchange(t, IF Found({OK}) THEN "send" ELSE "request")
  /\ UNCHANGED <<modemVars, air, rx, gwVars, hmiVars, dataVars>>

SendDone(t) ==
  /\ Woken(t) /\ step[t] = "send"
  /\ Exchange(t, "request")
  /\ UNCHANGED <<modemVars, air, rx, gwVars, hmiVars, dataVars>>

\* cJSON_Parse takes any JSON at the start of the buffer; what the parser
\* looks for is stored where it is found.
ParsesAsJson == rx /= <<>> /\ Head(rx).tag \in Weather \union {"error"}

Parse(t) ==
  /\ Woken(t) /\ step[t] = "request" /\ Function(t) \in Weather
  /\ weather_data' =
       IF ParsesAsJson /\ Head(rx).tag = Function(t)
         THEN [weather_data EXCEPT ![Function(t)] = Head(rx).city]
         ELSE weather_data
  /\ sign' = IF t = "GetWeather" THEN [sign EXCEPT ![Function(t)] = ParsesAsJson]
             ELSE sign
  /\ Exchange(t, "exit")
  /\ UNCHANGED <<modemVars, air, rx, gw, GetWea_sem, espwifi_getweath, hmiVars, clock,
                 WIFI_connect_Sign>>

\* Any byte is taken for the packet of the time server; when there is none
\* GetNtp returns 0 as it is, in transparent mode, and is called again.
NtpDone(t) ==
  /\ Woken(t) /\ step[t] = "request" /\ Function(t) = "NTP"
  /\ IF rx = <<>> THEN Exchange(t, "link") /\ UNCHANGED clock
     ELSE /\ Exchange(t, "exit")
          /\ clock' = IF Head(rx) = Answer("ntp") THEN "ntp" ELSE "other"
  /\ UNCHANGED <<modemVars, air, rx, gwVars, hmiVars, weather_data, WIFI_connect_Sign>>

CloseDone(t) ==
  /\ Woken(t) /\ step[t] = "close"
  /\ rx' = IF Function(t) = "NTP" THEN <<>> ELSE rx
  /\ Return(t)
  /\ UNCHANGED <<modemVars, air, gwVars, hmiVars, dataVars>>

Wake(t) ==
  /\ Busy(t)
  /\ \/ LinkDone(t) \/ JoinDone(t) \/ ModeDone(t) \/ SendDone(t)
     \/ Parse(t) \/ NtpDone(t) \/ CloseDone(t)
-----------------------------------------------------------------------------
(***************************************************************************)
(* The thread GetWeather.                                                  *)
(***************************************************************************)
Start(t, functions) ==
  job' = [job EXCEPT ![t] = functions] /\ UNCHANGED <<step, phase>>

\* Mutant of GwTake: the semaphore is taken although it is not there.
GwTakeBlind ==
  /\ gw = "take"
  /\ GetWea_sem' = GetWea_sem - 1
  /\ gw' = "run"
  /\ Start("GetWeather", Fetch)
  /\ UNCHANGED <<espVars, sign, espwifi_getweath, hmiVars, dataVars>>

GwTake ==
  /\ gw = "take"
  /\ IF GetWea_sem > 0
       THEN /\ GetWea_sem' = GetWea_sem - 1
            /\ gw' = "run"
            /\ Start("GetWeather", Fetch)
       ELSE gw' = "blocked" /\ UNCHANGED <<GetWea_sem, threadVars>>
  /\ UNCHANGED <<espVars, sign, espwifi_getweath, hmiVars, dataVars>>

\* When the three parsers returned 1 the screen is updated, and the next
\* wait comes ten minutes later.
GwFetched ==
  /\ gw = "run" /\ ~Busy("GetWeather")
  /\ IF \A k \in Weather : sign[k]
       THEN gw' = "delay" /\ espwifi_getweath' = espwifi_getweath + 1
       ELSE gw' = "take" /\ UNCHANGED espwifi_getweath
  /\ UNCHANGED <<espVars, threadVars, sign, GetWea_sem, hmiVars, dataVars>>

GwDelayOver ==
  /\ gw = "delay"
  /\ gw' = "take"
  /\ UNCHANGED <<espVars, threadVars, sign, GetWea_sem, espwifi_getweath,
                 hmiVars, dataVars>>

\* The thread UpdateHMI takes the semaphore and draws weather_data.
UpdateHMI ==
  /\ espwifi_getweath > 0
  /\ espwifi_getweath' = espwifi_getweath - 1
  /\ UNCHANGED <<espVars, threadVars, gw, sign, GetWea_sem, hmiVars, dataVars>>
-----------------------------------------------------------------------------
(***************************************************************************)
(* The thread HMIRePrecess (HMI_RePrecess), one command per call.          *)
(***************************************************************************)
Command(c) ==
  /\ hmi = "idle" /\ commands < MaxCommands
  /\ hmi' = c
  /\ commands' = commands + 1
  /\ UNCHANGED <<espVars, gwVars, clock, WIFI_connect_Sign>>

Update ==
  /\ Command("update")
  /\ loadIcon' = TRUE
  /\ Start("HMIRePrecess", Fetch)
  /\ UNCHANGED <<g_city, weather_data>>

\* Mutant of Place: the data about the old city stays.
PlaceKeepsData ==
  /\ Command("place")
  /\ \E p \in Places : g_city' = p
  /\ loadIcon' = TRUE
  /\ Start("HMIRePrecess", Fetch)
  /\ UNCHANGED weather_data

Place ==
  /\ Command("place")
  /\ \E p \in Places : g_city' = p
  /\ weather_data' = [k \in Weather |-> ""]
  /\ loadIcon' = TRUE
  /\ Start("HMIRePrecess", Fetch)

WifiPassword ==
  /\ Command("wifi")
  /\ Start("HMIRePrecess", <<"Join">>)
  /\ UNCHANGED <<g_city, weather_data, loadIcon>>

\* A screen that has joined an access point starts GetWeather.
PostGetWea ==
  IF gw = "blocked"
    THEN /\ gw' = "run"
         /\ Start("GetWeather", Fetch)
         /\ UNCHANGED GetWea_sem
    ELSE GetWea_sem' = GetWea_sem + 1 /\ UNCHANGED <<gw, threadVars>>

\* The command is done; the one that joins draws no load icon.
HmiDone ==
  /\ hmi /= "idle" /\ ~Busy("HMIRePrecess")
  /\ hmi' = "idle"
  /\ loadIcon' = (hmi = "wifi" /\ loadIcon)
  /\ IF hmi = "wifi" /\ WIFI_connect_Sign THEN PostGetWea
     ELSE UNCHANGED <<gw, GetWea_sem, threadVars>>
  /\ UNCHANGED <<espVars, sign, espwifi_getweath, commands, g_city, dataVars>>

Screen == \/ "update" \in Commands /\ Update
          \/ "place" \in Commands /\ Place
          \/ "wifi" \in Commands /\ WifiPassword
-----------------------------------------------------------------------------
(***************************************************************************)
(* The timer of six hours, and the watchdog.                               *)
(***************************************************************************)

\* The timer is a hard one: AccessNTP runs in the tick interrupt, with the
\* interrupts off.  Its sleeps return at once and no answer is received, so
\* that GetNtp fails at its first command and AccessNTP calls it for ever,
\* or until the stack is used up; the module refuses the commands that follow.
GetNTPSoftTimer_CallBack ==
  /\ TimerRuns /\ ~hung /\ lost < MaxLost
  /\ rx' = <<>>
  /\ Line(OpenLink("UDP")) /\ UNCHANGED lost
  /\ hung' = TRUE
  /\ UNCHANGED <<threadVars, gwVars, hmiVars, dataVars>>

\* The idle thread does not feed the watchdog any more, which restarts the
\* program, and SysInit the module.  The screen and the clock, on its battery,
\* are not restarted.
WatchdogRestart ==
  /\ hung /\ hung' = FALSE
  /\ ESP8266_Init /\ lost' = lost + 1
  /\ job' = [t \in Threads |-> <<>>]
  /\ step' = [t \in Threads |-> "link"]
  /\ phase' = [t \in Threads |-> "go"]
  /\ gw' = "take" /\ sign' = [k \in Weather |-> FALSE]
  /\ hmi' = "idle"
  /\ GetWea_sem' = 0 /\ espwifi_getweath' = 0
  /\ g_city' = FirstPlace
  /\ weather_data' = [k \in Weather |-> ""]
  /\ WIFI_connect_Sign' = FALSE
  /\ UNCHANGED <<commands, clock, loadIcon>>
-----------------------------------------------------------------------------
Receive == USART2_IRQ /\ UNCHANGED <<threadVars, gwVars, hmiVars, dataVars>>

Run(t) == Send(t) \/ Reset(t) \/ Wake(t)
GetWeather == GwTake \/ GwFetched \/ GwDelayOver

Alive(action) == ~hung /\ action /\ UNCHANGED hung

Next == \/ Alive(Receive \/ Screen \/ HmiDone \/ GetWeather \/ UpdateHMI)
        \/ \E t \in Threads : Alive(Run(t))
        \/ GetNTPSoftTimer_CallBack \/ WatchdogRestart

\* Threads that are ready run and sleeps end, and the watchdog does not wait;
\* the screen need not send.
Fairness ==
  /\ WF_vars(Alive(Receive)) /\ WF_vars(Alive(HmiDone))
  /\ \A t \in Threads : WF_vars(Alive(Run(t)))
  /\ WF_vars(Alive(GetWeather)) /\ WF_vars(Alive(UpdateHMI))
  /\ WF_vars(WatchdogRestart)

Spec == Init /\ [][Next]_vars /\ Fairness
-----------------------------------------------------------------------------
TypeOK ==
  /\ mode \in {"command", "transparent"} /\ link \in {"none", "TCP", "UDP"}
  /\ cipmode \in BOOLEAN /\ joined \in BOOLEAN
  /\ Len(rx) <= RxCap /\ lost \in 0 .. MaxLost
  /\ step \in [Threads -> {"link", "mode", "send", "request", "exit", "close"}]
  /\ phase \in [Threads -> {"go", "reset", "wait"}]
  /\ gw \in {"take", "blocked", "run", "delay"}
  /\ sign \in [Weather -> BOOLEAN]
  /\ hmi \in Commands \union {"idle"} /\ commands \in 0 .. MaxCommands
  /\ GetWea_sem \in Nat /\ espwifi_getweath \in Nat
  /\ g_city \in Places
  /\ weather_data \in [Weather -> Places \union {""}]
  /\ clock \in {"unset", "ntp", "other"}
  /\ loadIcon \in BOOLEAN /\ WIFI_connect_Sign \in BOOLEAN /\ hung \in BOOLEAN

\* Every way out of the fetches leaves the module as they found it: when no
\* thread uses it, it is in command mode and has no link open, whichever
\* answers did not come (WeatherInfo.c, NtpExample.c), and also when the
\* program was restarted in the middle of an exchange (BspEsp8266.c:18-31).
ModuleReleased ==
  ~hung /\ (\A t \in Threads : ~Busy(t)) => mode = "command" /\ link = "none"

\* All parts of the weather data are about the city on the screen.
OneCity == \A k \in Weather : weather_data[k] \in {"", g_city}

\* The clock is set only from what the time server sent (NtpExample.c:74-99
\* takes any byte in the frame buffer for its packet).
ClockFromNtp == clock /= "other"

\* The loading icon that a command shows is closed again (HMI.c:490, "close
\* the loading icon").
LoadIconCloses == loadIcon ~> ~loadIcon
=============================================================================
