------------------------------ MODULE MCScreen ------------------------------
(***************************************************************************)
(* Screen with what it takes to say what the page may show: the data there *)
(* have been since a draw began, and the lines that were lost meanwhile.   *)
(***************************************************************************)
EXTENDS Screen

VARIABLES
  held,     \* part -> the versions it has had since the last draw that began alone
  lost,     \* the lines that got into another, or were cut off, since then
  drawn     \* a draw has begun since the page was turned

mcVars == <<vars, held, lost, drawn>>

MCInit == Init /\ held = [p \in Parts |-> {0}] /\ lost = {} /\ drawn = FALSE

Began(t) == Idle(t) /\ todo'[t] # <<>> /\ Len(todo'[t]) >= Len(Draw)
BeginsAlone == \E t \in Drawers : Began(t) /\ \A u \in Drawers \ {t} : Idle(u)

HeldNext ==
  held' = [p \in Parts |-> IF BeginsAlone THEN {weather_data[p]}
                           ELSE held[p] \union {weather_data'[p]}]

\* A line that ends holds one text and is shown, or its texts are lost, as they
\* are when the interrupt ends it.
Ended == line # <<>> /\ line' = <<>>
LostNext ==
  lost' = CASE BeginsAlone -> {}
            [] ~BeginsAlone /\ Ended /\ Len(line) = 1 /\ seconds' = seconds
                 -> lost \ {line[1].name}
            [] ~BeginsAlone /\ Ended /\ ~(Len(line) = 1 /\ seconds' = seconds)
                 -> lost \union {line[i].name : i \in 1 .. Len(line)}
            [] OTHER -> lost

DrawnNext ==
  drawn' = ((\E t \in Drawers : Began(t)) \/ (drawn /\ page' = page))

MCNext == Next /\ HeldNext /\ LostNext /\ DrawnNext
MCSpec == MCInit /\ [][MCNext]_mcVars

\* The texts a line may show: of its day, from data there have been.
HeldTexts(l) == {[name |-> l.name, day |-> l.day, version |-> v] : v \in held[l.part]}

\* When the draws are over, each line of the page shows its day and data that
\* there have been since they began, and so, if nothing was stored meanwhile,
\* the data there are.  This holds whatever was stored, drawn by the other
\* thread or turned to in between (HMI.c:46-217, 226-350, Task.c:166-184), but
\* for the lines that got into another one, and for AfterTorTemp: HMI.c:192
\* calls it the temperature of the day after tomorrow, and HMI.c:193 writes
\* that of tomorrow.
ShowsTheData ==
  (\A t \in Drawers : Idle(t)) /\ page = g_page /\ drawn
    => \A l \in Wanted(page) :
         l.name \in lost \union {"AfterTorTemp"} \/ \E x \in HeldTexts(l) : x \in shown
=============================================================================
