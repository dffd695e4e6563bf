--------------------------- MODULE MCWeatherInfo ---------------------------
(***************************************************************************)
(* WeatherInfo with a pool that the calls can fill: one thread on its own, *)
(* with two versions of the answers, one of them with shorter texts, or    *)
(* both threads at once, with fewer calls and one version.  A history      *)
(* variable remembers whether a parser has freed, through utf8str, a block *)
(* that the other thread had got from the pool.                            *)
(***************************************************************************)
EXTENDS WeatherInfo

CONSTANTS CallsTogether   \* bound: answers parsed, when there are two threads

VARIABLES together, foreign

mcVars == <<vars, together, foreign>>

MCLength == [v \in {"long", "short"} |-> IF v = "long" THEN 2 ELSE 1]

FreesForeign(t) ==
  FreeUtf8(t) /\ \E b \in utf8str[t] : mem[b] /= FREE /\ mem[b].call /= call[t]

Bounded ==
  IF together
  THEN calls' <= CallsTogether /\ \A t \in Threads : answer'[t].version /= "short"
  ELSE \A t \in Threads \ {"GetWeather"} : pc'[t] = "idle"

MCInit == Init /\ together \in BOOLEAN /\ foreign = FALSE
MCNext ==
  /\ Next /\ Bounded
  /\ foreign' = (foreign \/ \E t \in Threads : FreesForeign(t))
  /\ UNCHANGED together
MCSpec == MCInit /\ [][MCNext]_mcVars

\* While a parser works with its blocks and its tree they are its own, also
\* with the other thread in a parser, until one of them frees through utf8str
\* what the other has taken since the tree was deleted (WeatherInfo.c:148-151):
\* of all the frees only this one can hit what is in use.
KeepsWhatItUsesTillThen == ~foreign => KeepsWhatItUses

\* What the parsers lose when one thread runs them.
LostIsAccountedAlone == ~together => LostIsAccounted
=============================================================================
