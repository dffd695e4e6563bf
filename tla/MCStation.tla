----------------------------- MODULE MCStation -----------------------------
(***************************************************************************)
(* Station with two cities, and with what it takes to say when an answer   *)
(* is taken for another: whether the exchanges were disturbed, and whether *)
(* an answer was on its way to a thread that waits for something else.     *)
(***************************************************************************)
EXTENDS Station

VARIABLES
  disturbed,  \* both threads have fetched at once, or one of them went on
              \* while an answer to it was still on its way
  crossed     \* an answer was on its way that the thread waiting for data had
              \* not asked for, or another city was chosen while it waited

mcVars == <<vars, disturbed, crossed>>
MCPlaces == {"beijing", "nanning"}

\* t waits for the data one of these functions has asked for.
Awaits(t, functions) ==
  Busy(t) /\ phase[t] = "wait" /\ step[t] = "request" /\ Function(t) \in functions

Foreign(t) ==
  \E i \in 1 .. Len(air) :
    \/ Awaits(t, {"NTP"}) /\ air[i] /= Answer("ntp")
    \/ Awaits(t, Weather) /\ air[i].city \notin {"", g_city}

DisturbedNext ==
  disturbed' = \/ disturbed
               \/ \A t \in Threads : Busy(t)'
               \/ \E t \in Threads : Wake(t) /\ air /= <<>>
CrossedNext ==
  crossed' = \/ crossed
             \/ \E t \in Threads : Foreign(t)'
             \/ g_city' /= g_city /\ \E t \in Threads : Awaits(t, Weather)

MCInit == Init /\ disturbed = FALSE /\ crossed = FALSE
HistoryNext == Next /\ DisturbedNext /\ CrossedNext
HistorySpec == MCInit /\ [][HistoryNext]_mcVars

\* Bound: a command that fetches while the thread GetWeather does, or is about to,
\* is for another city.  The exchanges are the same for every city.
Alongside ==
  hmi = "idle" /\ hmi' \in {"update", "place"}
    => g_city' /= g_city \/ (GetWea_sem = 0 /\ ~Busy("GetWeather"))

MCNext == HistoryNext /\ Alongside
MCSpec == MCInit /\ [][MCNext]_mcVars

\* The data are about another city than the one on the screen only when an
\* answer about it was still on its way to a thread that waits for its own, or
\* the city was changed while it waited; and that comes only of fetching with
\* both threads, or of going on before an answer has come.  What was received
\* before a request is never taken for its answer (HMI.c:532 clears the data,
\* WeatherInfo.c the buffer).
OneCityUnlessCrossed == ~OneCity => crossed /\ disturbed

\* In the same way the clock is set from something else than the packet of the
\* time server, although GetNtp takes any byte in the frame buffer for it
\* (NtpExample.c:74-99), only when another answer was on its way to GetNtp.
ClockFromNtpUnlessCrossed == ~ClockFromNtp => crossed /\ disturbed
=============================================================================
