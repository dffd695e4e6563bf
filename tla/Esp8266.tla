------------------------------- MODULE Esp8266 -------------------------------
(***************************************************************************)
(* The ESP8266 Wi-Fi module on USART2 and the frame buffer its answers are *)
(* collected in (WIFI/BspEsp8266.c).  The module is external: it is        *)
(* modelled from the commands the driver sends and the answers it looks    *)
(* for.  It is in command mode, where a line is a command, or in           *)
(* transparent mode, where everything but "+++" goes to the other end of   *)
(* the open link.  Its answers travel in the sequence air until the USART2 *)
(* interrupt appends them to the frame buffer rx, one answer at a time.    *)
(***************************************************************************)
EXTENDS Naturals, Sequences

CONSTANTS RxCap,    \* bound: answers the frame buffer holds (RX_BUF_MAX_LEN)
          AirCap,   \* bound: answers on their way; more are lost on the wire
          MaxLost   \* bound: how often the network or the server fails or is
                    \* slower than the driver

ASSUME Esp8266Assumption == RxCap \in Nat /\ AirCap \in Nat /\ MaxLost \in Nat

VARIABLES
  mode,      \* "command" or "transparent"
  link,      \* the open link: "none", "TCP" or "UDP"
  cipmode,   \* AT+CIPMODE=1 was given
  joined,    \* the module is joined to an access point
  air,       \* answers not yet received
  rx,        \* Data_RX_BUF[0 .. FramLength-1]
  lost       \* how many failures there were

modemVars == <<mode, link, cipmode, joined>>
espVars == <<modemVars, air, rx, lost>>

\* What the driver looks for in an answer, or what a server sends.  The city
\* is the one a weather answer is about.
Answer(tag) == [tag |-> tag, city |-> ""]
OK == Answer("OK")
CONNECT == Answer("CONNECT")
ERROR == Answer("ERROR")
PROMPT == Answer(">")

EspInit(joinedAtStart) ==
  /\ mode = "command" /\ link = "none" /\ cipmode = FALSE
  /\ joined = joinedAtStart
  /\ air = <<>> /\ rx = <<>>
  /\ lost = 0

\* The reset line is pulled: the module is in command mode, without a link,
\* and joins the access point it knows by itself, if that is there.
ESP8266_Init ==
  /\ mode' = "command" /\ link' = "none" /\ cipmode' = FALSE
  /\ joined' \in BOOLEAN
  /\ air' = <<>> /\ rx' = <<>>

Replies(answers) ==
  air' = IF Len(air \o answers) <= AirCap THEN air \o answers ELSE air

Fails == lost < MaxLost /\ lost' = lost + 1
-----------------------------------------------------------------------------
(***************************************************************************)
(* What the module does with a line in command mode.                       *)
(***************************************************************************)

\* AT+CIPSTART: a connection is made when there is none, unless the network
\* fails.
OpenLink(protocol) ==
  \/ /\ joined /\ link = "none"
     /\ link' = protocol
     /\ Replies(<<CONNECT, OK>>)
     /\ UNCHANGED <<mode, cipmode, joined, lost>>
  \/ /\ joined /\ link = "none"
     /\ Fails
     /\ Replies(<<ERROR>>)
     /\ UNCHANGED modemVars
  \/ /\ ~joined \/ link /= "none"
     /\ Replies(<<ERROR>>)
     /\ UNCHANGED <<modemVars, lost>>

\* AT+CIPMODE=1
SetTransparent ==
  /\ cipmode' = TRUE
  /\ Replies(<<OK>>)
  /\ UNCHANGED <<mode, link, joined, lost>>

\* AT+CIPSEND
BeginTransparent ==
  /\ IF link /= "none" /\ cipmode
       THEN mode' = "transparent" /\ Replies(<<OK, PROMPT>>)
       ELSE Replies(<<ERROR>>) /\ UNCHANGED mode
  /\ UNCHANGED <<link, cipmode, joined, lost>>

\* AT+CIPCLOSE
CloseLink ==
  /\ link' = "none"
  /\ Replies(IF link = "none" THEN <<ERROR>> ELSE <<OK>>)
  /\ UNCHANGED <<mode, cipmode, joined, lost>>

\* AT+CWJAP: the station leaves its access point and joins the one named.
JoinAP ==
  /\ link' = "none"
  /\ \/ joined' = TRUE /\ Replies(<<OK>>) /\ UNCHANGED lost
     \/ joined' = FALSE /\ Replies(<<Answer("FAIL")>>) /\ Fails
  /\ UNCHANGED <<mode, cipmode>>

\* "+++" leaves the transparent mode; in command mode it is not a command.
Escape == mode' = "command" /\ UNCHANGED <<link, cipmode, joined, air, lost>>

\* A request sent in transparent mode is answered by the server it reaches,
\* unless that fails; in command mode it is no command, and the module answers
\* refusal.
Ask(protocol, answer, failures, refusal) ==
  /\ IF mode = "command" THEN Replies(refusal) /\ UNCHANGED lost
     ELSE IF link /= protocol THEN UNCHANGED <<air, lost>>
     ELSE \/ Replies(<<answer>>) /\ UNCHANGED lost
          \/ Fails /\ \E answers \in failures : Replies(answers)
  /\ UNCHANGED modemVars

\* Text that nobody answers: a command line sent in transparent mode, or a
\* line that does not end.
Swallowed == UNCHANGED <<modemVars, air, lost>>

Line(command) == IF mode = "command" THEN command ELSE Swallowed
-----------------------------------------------------------------------------
(***************************************************************************)
(* The USART2 interrupt: an answer that finds the buffer full is dropped.  *)
(***************************************************************************)
USART2_IRQ ==
  /\ air /= <<>>
  /\ air' = Tail(air)
  /\ rx' = IF Len(rx) < RxCap THEN Append(rx, Head(air)) ELSE rx
  /\ UNCHANGED <<modemVars, lost>>

\* strstr finds one of the answers in the buffer.
Found(answers) == \E k \in 1 .. Len(rx) : rx[k] \in answers
=============================================================================
