--------------------------- MODULE Station_proofs ---------------------------
(***************************************************************************)
(* The two threads and the Wi-Fi module, for every set of cities and       *)
(* commands and every bound: whatever gets lost or is restarted, a thread  *)
(* that has put the module into transparent mode, or opened a link, still  *)
(* has the step before it that takes this back; and the data are about one *)
(* city and the clock is set only from the time server until an answer has *)
(* crossed another request, which takes two fetches at once or one that    *)
(* goes on before its answer has come.                                     *)
(***************************************************************************)
EXTENDS MCStation, TLAPS

USE StationAssumption, Esp8266Assumption DEF StationAssumption, Esp8266Assumption

Functions == Weather \union {"Test", "NTP", "Join"}
Tags == Weather \union {"error", "ntp", "OK", "CONNECT", "ERROR", ">", "FAIL"}
Message == [tag : Tags, city : Places \union {""}]

StationType ==
  /\ TypeOK
  /\ job \in [Threads -> Seq(Functions)]
  /\ air \in Seq(Message) /\ rx \in Seq(Message)
  /\ hung => lost < MaxLost

(***************************************************************************)
(* Who leaves the module as it was found.                                  *)
(***************************************************************************)

\* t is in a function that has "+++", or the close of its link, before it.
Leaves(t) == Busy(t) /\ Function(t) /= "Join" /\ step[t] /= "close"
Closes(t) == Leaves(t) \/ (Busy(t) /\ step[t] = "close" /\ phase[t] = "go")

\* Where the threads are in their jobs.
JobsOK ==
  /\ \A t \in Threads :
       /\ ~Busy(t) => step[t] = "link" /\ phase[t] = "go"
       /\ Busy(t) /\ Function(t) = "Join" => step[t] = "link"
       /\ phase[t] = "reset" => Function(t) \in Weather /\ step[t] = "request"
  /\ hmi = "idle" => ~Busy("HMIRePrecess")
  /\ gw /= "run" => ~Busy("GetWeather")

ModuleOK ==
  ~hung => /\ mode = "transparent" => \E t \in Threads : Leaves(t)
           /\ link /= "none" => \E t \in Threads : Closes(t)

(***************************************************************************)
(* One thread at a time.                                                   *)
(***************************************************************************)

\* The messages of a sequence.
Among(s) == {s[k] : k \in 1 .. Len(s)}

\* What a thread that fetches alone finds: nothing is on its way when a thread
\* is about to send, the answers on their way are about the city asked about,
\* and so are those it is going to parse, which are the packet for GetNtp.
AloneOK ==
  /\ ~ \A t \in Threads : Busy(t)
  /\ (\A t \in Threads : phase[t] = "go") => air = <<>>
  /\ \A a \in Among(air) : a.city \in {"", g_city}
  /\ \A t \in Threads : step[t] = "request" /\ phase[t] = "wait" =>
       /\ \A a \in Among(rx) : a.city \in {"", g_city}
       /\ Function(t) = "NTP" => \A a \in Among(rx) \union Among(air) : a = Answer("ntp")

FetchedAloneOK ==
  ~disturbed => OneCity /\ ClockFromNtp /\ (~hung => AloneOK)

-----------------------------------------------------------------------------
(***************************************************************************)
(* Types.                                                                  *)
(***************************************************************************)
ModemType ==
  /\ mode \in {"command", "transparent"} /\ link \in {"none", "TCP", "UDP"}
  /\ cipmode \in BOOLEAN /\ joined \in BOOLEAN
  /\ lost \in 0 .. MaxLost
  /\ air \in Seq(Message)

LEMMA AnswerType ==
  ASSUME NEW tag \in Tags
  PROVE  Answer(tag) \in Message /\ Answer(tag).city = ""
  BY DEF Answer, Message

LEMMA FailsType ==
  ASSUME lost \in 0 .. MaxLost, Fails
  PROVE  lost' \in 0 .. MaxLost
  BY DEF Fails

\* What is on its way after some answers was there before or is one of them.
LEMMA RepliesWhat ==
  ASSUME air \in Seq(Message), NEW answers \in Seq(Message), Replies(answers)
  PROVE  air' \in Seq(Message) /\ Among(air') \subseteq Among(air) \union Among(answers)
  <1>1. CASE air' = air
    BY <1>1
  <1>2. CASE air' = air \o answers
    <2>1. air \o answers \in Seq(Message)
      OBVIOUS
    <2>2. Len(air \o answers) = Len(air) + Len(answers)
      OBVIOUS
    <2>3. \A k \in 1 .. Len(air \o answers) :
            (air \o answers)[k] = IF k <= Len(air) THEN air[k] ELSE answers[k - Len(air)]
      OBVIOUS
    <2>4. \A k \in 1 .. Len(air \o answers) :
            (air \o answers)[k] \in Among(air) \union Among(answers)
      <3> SUFFICES ASSUME NEW k \in 1 .. Len(air \o answers)
                   PROVE  (air \o answers)[k] \in Among(air) \union Among(answers)
        OBVIOUS
      <3>1. CASE k <= Len(air)
        BY <3>1, <2>3 DEF Among
      <3>2. CASE k > Len(air)
        <4>1. k - Len(air) \in 1 .. Len(answers)
          BY <3>2, <2>2
        <4> QED BY <4>1, <3>2, <2>3 DEF Among
      <3> QED BY <3>1, <3>2
    <2> QED BY <1>2, <2>1, <2>4 DEF Among
  <1> QED BY <1>1, <1>2 DEF Replies

LEMMA AmongNone == Among(<<>>) = {}
  BY DEF Among

LEMMA AmongOne ==
  ASSUME NEW u
  PROVE  Among(<<u>>) = {u}
  BY DEF Among

LEMMA AmongTwo ==
  ASSUME NEW u, NEW v
  PROVE  Among(<<u, v>>) = {u, v}
  <1>1. Len(<<u, v>>) = 2 /\ <<u, v>>[1] = u /\ <<u, v>>[2] = v /\ 1 .. 2 = {1, 2}
    OBVIOUS
  <1> QED BY <1>1 DEF Among

LEMMA SeqOne ==
  ASSUME NEW S, NEW u \in S
  PROVE  <<u>> \in Seq(S)
  OBVIOUS

LEMMA SeqTwo ==
  ASSUME NEW S, NEW u \in S, NEW v \in S
  PROVE  <<u, v>> \in Seq(S)
  OBVIOUS

\* The answers that have come on their way are about no city.
NewIsPlain == \A a \in Among(air)' : a \in Among(air) \/ a.city = ""

LEMMA RepliesOne ==
  ASSUME air \in Seq(Message), NEW x \in Tags, Replies(<<Answer(x)>>)
  PROVE  air' \in Seq(Message) /\ NewIsPlain
  <1>1. Answer(x) \in Message /\ Answer(x).city = ""
    BY AnswerType
  <1>2. <<Answer(x)>> \in Seq(Message)
    BY <1>1, SeqOne
  <1>3. Among(<<Answer(x)>>) = {Answer(x)}
    BY AmongOne
  <1>4. air' \in Seq(Message) /\ Among(air') \subseteq Among(air) \union Among(<<Answer(x)>>)
    BY <1>2, RepliesWhat
  <1> QED BY <1>1, <1>3, <1>4 DEF NewIsPlain, Among

LEMMA RepliesTwo ==
  ASSUME air \in Seq(Message), NEW x \in Tags, NEW y \in Tags,
         Replies(<<Answer(x), Answer(y)>>)
  PROVE  air' \in Seq(Message) /\ NewIsPlain
  <1> DEFINE two == <<Answer(x), Answer(y)>>
  <1>1. /\ Answer(x) \in Message /\ Answer(x).city = ""
        /\ Answer(y) \in Message /\ Answer(y).city = ""
    BY AnswerType
  <1>2. two \in Seq(Message)
    BY <1>1, SeqTwo
  <1>3. Among(two) = {Answer(x), Answer(y)}
    BY AmongTwo
  <1>4. air' \in Seq(Message) /\ Among(air') \subseteq Among(air) \union Among(two)
    BY <1>2, RepliesWhat
  <1> QED BY <1>1, <1>3, <1>4 DEF NewIsPlain, Among

LEMMA SwallowedWhat ==
  ASSUME ModemType, Swallowed
  PROVE  ModemType' /\ NewIsPlain /\ mode' = mode /\ link' = link /\ cipmode' = cipmode
  BY DEF Swallowed, ModemType, modemVars, NewIsPlain, Among

\* What each line the threads send does to the module.
LEMMA OpenLinkWhat ==
  ASSUME ModemType, NEW p \in {"TCP", "UDP"}, Line(OpenLink(p))
  PROVE  ModemType' /\ NewIsPlain /\ mode' = mode
  <1>1. CASE mode = "command"
    <2>1. OpenLink(p)
      BY <1>1 DEF Line
    <2>2. Replies(<<Answer("CONNECT"), Answer("OK")>>) \/ Replies(<<Answer("ERROR")>>)
      BY <2>1 DEF OpenLink, CONNECT, OK, ERROR
    <2>3. air' \in Seq(Message) /\ NewIsPlain
      BY <2>2, RepliesOne, RepliesTwo DEF ModemType, Tags
    <2>4. lost' \in 0 .. MaxLost
      BY <2>1, FailsType DEF OpenLink, ModemType
    <2> QED BY <2>1, <2>3, <2>4 DEF OpenLink, ModemType, modemVars
  <1>2. CASE mode /= "command"
    BY <1>2, SwallowedWhat DEF Line
  <1> QED BY <1>1, <1>2

LEMMA SetTransparentWhat ==
  ASSUME ModemType, Line(SetTransparent)
  PROVE  ModemType' /\ NewIsPlain /\ mode' = mode /\ link' = link
  <1>1. CASE mode = "command"
    <2>1. SetTransparent
      BY <1>1 DEF Line
    <2>2. Replies(<<Answer("OK")>>)
      BY <2>1 DEF SetTransparent, OK
    <2>3. air' \in Seq(Message) /\ NewIsPlain
      BY <2>2, RepliesOne DEF ModemType, Tags
    <2> QED BY <2>1, <2>3 DEF SetTransparent, ModemType
  <1>2. CASE mode /= "command"
    BY <1>2, SwallowedWhat DEF Line
  <1> QED BY <1>1, <1>2

LEMMA BeginTransparentWhat ==
  ASSUME ModemType, Line(BeginTransparent)
  PROVE  ModemType' /\ NewIsPlain /\ link' = link
  <1>1. CASE mode = "command"
    <2>1. BeginTransparent
      BY <1>1 DEF Line
    <2>2. Replies(<<Answer("OK"), Answer(">")>>) \/ Replies(<<Answer("ERROR")>>)
      BY <2>1 DEF BeginTransparent, OK, PROMPT, ERROR
    <2>3. air' \in Seq(Message) /\ NewIsPlain
      BY <2>2, RepliesOne, RepliesTwo DEF ModemType, Tags
    <2> QED BY <2>1, <2>3 DEF BeginTransparent, ModemType
  <1>2. CASE mode /= "command"
    BY <1>2, SwallowedWhat DEF Line
  <1> QED BY <1>1, <1>2

LEMMA CloseLinkWhat ==
  ASSUME ModemType, Line(CloseLink)
  PROVE  /\ ModemType' /\ NewIsPlain /\ mode' = mode
         /\ IF mode = "command" THEN link' = "none" ELSE link' = link
  <1>1. CASE mode = "command"
    <2>1. CloseLink
      BY <1>1 DEF Line
    <2>2. Replies(<<Answer("OK")>>) \/ Replies(<<Answer("ERROR")>>)
      BY <2>1 DEF CloseLink, OK, ERROR
    <2>3. air' \in Seq(Message) /\ NewIsPlain
      BY <2>2, RepliesOne DEF ModemType, Tags
    <2> QED BY <1>1, <2>1, <2>3 DEF CloseLink, ModemType
  <1>2. CASE mode /= "command"
    BY <1>2, SwallowedWhat DEF Line
  <1> QED BY <1>1, <1>2

LEMMA JoinAPWhat ==
  ASSUME ModemType, Line(JoinAP)
  PROVE  ModemType' /\ NewIsPlain /\ mode' = mode /\ link' \in {"none", link}
  <1>1. CASE mode = "command"
    <2>1. JoinAP
      BY <1>1 DEF Line
    <2>2. Replies(<<Answer("OK")>>) \/ Replies(<<Answer("FAIL")>>)
      BY <2>1 DEF JoinAP, OK
    <2>3. air' \in Seq(Message) /\ NewIsPlain
      BY <2>2, RepliesOne DEF ModemType, Tags
    <2>4. lost' \in 0 .. MaxLost /\ joined' \in BOOLEAN
      BY <2>1, FailsType DEF JoinAP, ModemType
    <2> QED BY <2>1, <2>3, <2>4 DEF JoinAP, ModemType
  <1>2. CASE mode /= "command"
    BY <1>2, SwallowedWhat DEF Line
  <1> QED BY <1>1, <1>2

\* A request: what is new on its way is the refusal, the answer, or one of a
\* failure.
LEMMA AskWhat ==
  ASSUME ModemType, NEW p, NEW answer \in Message, NEW failures \in SUBSET Seq(Message),
         NEW refusal \in Seq(Message), Ask(p, answer, failures, refusal)
  PROVE  /\ ModemType' /\ UNCHANGED modemVars
         /\ \A a \in Among(air)' : \/ a \in Among(air) \union Among(refusal) \union {answer}
                                  \/ \E f \in failures : a \in Among(f)
  <1>1. CASE Replies(refusal) /\ UNCHANGED lost
    BY <1>1, RepliesWhat DEF Ask, ModemType, modemVars
  <1>2. CASE UNCHANGED <<air, lost>>
    BY <1>2 DEF Ask, ModemType, modemVars
  <1>3. CASE Replies(<<answer>>) /\ UNCHANGED lost
    <2>1. <<answer>> \in Seq(Message) /\ Among(<<answer>>) = {answer}
      BY AmongOne
    <2>2. air' \in Seq(Message) /\ Among(air') \subseteq Among(air) \union {answer}
      BY <1>3, <2>1, RepliesWhat DEF ModemType
    <2> QED BY <1>3, <2>2 DEF Ask, ModemType, modemVars, Among
  <1>4. CASE Fails /\ \E f \in failures : Replies(f)
    <2>1. PICK f \in failures : Replies(f)
      BY <1>4
    <2>2. air' \in Seq(Message) /\ Among(air') \subseteq Among(air) \union Among(f)
      BY <2>1, RepliesWhat DEF ModemType
    <2>3. lost' \in 0 .. MaxLost
      BY <1>4, FailsType DEF ModemType
    <2> QED BY <2>2, <2>3 DEF Ask, ModemType, modemVars, Among
  <1> QED BY <1>1, <1>2, <1>3, <1>4 DEF Ask

(***************************************************************************)
(* The type invariant, in parts.                                           *)
(***************************************************************************)
ThreadType ==
  /\ job \in [Threads -> Seq(Functions)]
  /\ step \in [Threads -> {"link", "mode", "send", "request", "exit", "close"}]
  /\ phase \in [Threads -> {"go", "reset", "wait"}]
RxType == rx \in Seq(Message) /\ Len(rx) <= RxCap
GwType ==
  /\ gw \in {"take", "blocked", "run", "delay"} /\ sign \in [Weather -> BOOLEAN]
  /\ GetWea_sem \in Nat /\ espwifi_getweath \in Nat
HmiType ==
  /\ hmi \in Commands \union {"idle"} /\ commands \in 0 .. MaxCommands
  /\ g_city \in Places /\ loadIcon \in BOOLEAN
DataType ==
  /\ weather_data \in [Weather -> Places \union {""}]
  /\ clock \in {"unset", "ntp", "other"} /\ WIFI_connect_Sign \in BOOLEAN

\* The timer that hangs the program has left room for the restart.
HungType == hung \in BOOLEAN /\ (hung => lost < MaxLost)

LEMMA TypeParts ==
  StationType <=> /\ ModemType /\ RxType /\ ThreadType
                  /\ GwType /\ HmiType /\ DataType /\ HungType
  BY DEF StationType, TypeOK, ModemType, RxType, ThreadType, GwType, HmiType, DataType,
         HungType

LEMMA TypePartsPrime ==
  StationType' <=> /\ ModemType' /\ RxType' /\ ThreadType'
                   /\ GwType' /\ HmiType' /\ DataType' /\ HungType'
  BY DEF StationType, TypeOK, ModemType, RxType, ThreadType, GwType, HmiType, DataType,
         HungType

\* What is left alone keeps its type.
LEMMA SameType ==
  /\ UNCHANGED <<modemVars, air, lost>> => (ModemType => ModemType')
  /\ UNCHANGED rx => (RxType => RxType')
  /\ UNCHANGED threadVars => (ThreadType => ThreadType')
  /\ UNCHANGED gwVars => (GwType => GwType')
  /\ UNCHANGED hmiVars => (HmiType => HmiType')
  /\ UNCHANGED dataVars => (DataType => DataType')
  BY DEF ModemType, RxType, ThreadType, GwType, HmiType, DataType, modemVars,
         threadVars, gwVars, hmiVars, dataVars

LEMMA FetchType ==
  /\ Fetch \in Seq(Functions) /\ <<"Join">> \in Seq(Functions)
  /\ <<>> \in Seq(Functions)
  BY DEF Fetch, Functions, Weather

LEMMA EmptyAirType == air' = <<>> => air' \in Seq(Message)
  OBVIOUS

LEMMA EmptyRxType == rx' = <<>> => RxType'
  BY DEF RxType

\* The ways a thread goes on keep the types of where it is.
LEMMA ThreadSteps ==
  ASSUME ThreadType, NEW t \in Threads
  PROVE  /\ \A s \in {"link", "mode", "send", "request", "exit", "close"} :
              Exchange(t, s) => ThreadType'
         /\ Busy(t) /\ Return(t) => ThreadType'
         /\ \A p \in {"go", "reset", "wait"} : Then(t, p) => ThreadType'
         /\ \A f \in Seq(Functions) : Start(t, f) => ThreadType'
  <1>1. ASSUME Busy(t) PROVE Tail(job[t]) \in Seq(Functions)
    BY <1>1 DEF ThreadType, Busy
  <1>2. \A s \in {"link", "mode", "send", "request", "exit", "close"} :
          Exchange(t, s) => ThreadType'
    BY DEF ThreadType, Exchange
  <1>3. Busy(t) /\ Return(t) => ThreadType'
    BY <1>1 DEF ThreadType, Return
  <1>4. \A p \in {"go", "reset", "wait"} : Then(t, p) => ThreadType'
    BY DEF ThreadType, Then
  <1>5. \A f \in Seq(Functions) : Start(t, f) => ThreadType'
    BY DEF ThreadType, Start
  <1> QED BY <1>2, <1>3, <1>4, <1>5

\* What a request leaves on its way to the thread that sent it.
LEMMA GetRequestWhat ==
  ASSUME ModemType, NEW t \in Threads, GetRequest(t), g_city \in Places
  PROVE  /\ ModemType' /\ UNCHANGED modemVars
         /\ \A a \in Among(air)' : a \in Among(air) \/ a.city \in {"", g_city}
  <1> DEFINE data == [tag |-> Function(t), city |-> g_city]
             failures == {<<>>, <<Answer("error")>>}
  <1>1. data \in Message /\ Answer("error") \in Message /\ ERROR \in Message
    BY AnswerType DEF GetRequest, Message, Tags, ERROR
  <1>2. data.city = g_city /\ Answer("error").city = "" /\ ERROR.city = ""
    BY DEF Answer, ERROR
  <1>3. /\ <<ERROR>> \in Seq(Message) /\ Among(<<ERROR>>) = {ERROR}
        /\ Among(<<Answer("error")>>) = {Answer("error")} /\ Among(<<>>) = {}
    BY <1>1, SeqOne, AmongOne, AmongNone
  <1>4. failures \in SUBSET Seq(Message)
    BY <1>1, SeqOne
  <1>5. Ask("TCP", data, failures, <<ERROR>>)
    BY DEF GetRequest
  <1>6. \A f \in failures : \A a \in Among(f) : a = Answer("error")
    BY <1>3
  <1> HIDE DEF data, failures
  <1>7. /\ ModemType' /\ UNCHANGED modemVars
        /\ \A a \in Among(air)' : \/ a \in Among(air) \union Among(<<ERROR>>) \union {data}
                                 \/ \E f \in failures : a \in Among(f)
    BY <1>1, <1>3, <1>4, <1>5, AskWhat
  <1> QED BY <1>2, <1>3, <1>6, <1>7

LEMMA NtpRequestWhat ==
  ASSUME ModemType, NEW t \in Threads, NtpRequest(t)
  PROVE  /\ ModemType' /\ UNCHANGED modemVars
         /\ \A a \in Among(air)' : a \in Among(air) \/ a = Answer("ntp")
  <1> DEFINE packet == Answer("ntp")
             failures == {<<>>}
             refusal == <<>>
  <1>1. packet \in Message
    BY AnswerType DEF Tags
  <1>2. /\ failures \in SUBSET Seq(Message) /\ refusal \in Seq(Message)
        /\ Among(refusal) = {} /\ \A f \in failures : Among(f) = {}
    BY AmongNone
  <1>3. Ask("UDP", packet, failures, refusal)
    BY DEF NtpRequest
  <1> HIDE DEF packet, failures, refusal
  <1>4. /\ ModemType' /\ UNCHANGED modemVars
        /\ \A a \in Among(air)' :
             \/ a \in Among(air) \union Among(refusal) \union {packet}
             \/ \E f \in failures : a \in Among(f)
    BY <1>1, <1>2, <1>3, AskWhat
  <1> QED BY <1>2, <1>4 DEF packet

LEMMA SendType ==
  ASSUME StationType, NEW t \in Threads, Send(t), ~hung, hung' = hung
  PROVE  StationType'
  <1> USE TypeParts, TypePartsPrime, SameType, ThreadSteps, EmptyRxType
  <1>1. /\ GwType' /\ HmiType' /\ DataType' /\ HungType' /\ Busy(t)
        /\ ModemType /\ RxType /\ ThreadType
    BY DEF Send, HungType
  <1>2. ASSUME Then(t, "wait"), rx' = <<>>, ModemType' PROVE StationType'
    BY <1>1, <1>2
  <1>3. CASE Cmd(t, "link", CASE Function(t) = "NTP"  -> OpenLink("UDP")
                              [] Function(t) = "Join" -> JoinAP
                              [] OTHER                -> OpenLink("TCP"))
    <2>1. ModemType'
      BY <1>1, <1>3, OpenLinkWhat, JoinAPWhat, SwallowedWhat DEF Cmd, Line
    <2> QED BY <1>2, <1>3, <2>1 DEF Cmd
  <1>4. CASE Cmd(t, "mode", SetTransparent)
    BY <1>1, <1>2, <1>4, SetTransparentWhat DEF Cmd
  <1>5. CASE Cmd(t, "send", BeginTransparent)
    BY <1>1, <1>2, <1>5, BeginTransparentWhat DEF Cmd
  <1>6. CASE Cmd(t, "close", CloseLink)
    BY <1>1, <1>2, <1>6, CloseLinkWhat DEF Cmd
  <1>7. CASE GetRequest(t)
    <2>1. ModemType'
      BY <1>1, <1>7, GetRequestWhat DEF StationType, TypeOK
    <2> QED BY <2>1, <1>1, <1>7 DEF GetRequest
  <1>8. CASE TestRequest(t)
    BY <1>1, <1>8, SwallowedWhat DEF TestRequest
  <1>9. CASE NtpRequest(t)
    BY <1>1, <1>2, <1>9, NtpRequestWhat DEF NtpRequest
  <1>10. CASE ExitUnvarnishSend(t)
    <2>1. ModemType'
      BY <1>1, <1>10 DEF ExitUnvarnishSend, Escape, ModemType
    <2> QED BY <2>1, <1>1, <1>10 DEF ExitUnvarnishSend
  <1> QED BY <1>3, <1>4, <1>5, <1>6, <1>7, <1>8, <1>9, <1>10 DEF Send

\* What is received was on its way.
LEMMA ReceiveWhat ==
  ASSUME ModemType, RxType, USART2_IRQ
  PROVE  /\ ModemType' /\ RxType' /\ UNCHANGED modemVars
         /\ Among(air)' \subseteq Among(air)
         /\ Among(rx)' \subseteq Among(rx) \union Among(air)
  <1>1. /\ air \in Seq(Message) /\ air /= <<>> /\ air' = Tail(air) /\ rx \in Seq(Message)
        /\ RxCap \in Nat
    BY DEF USART2_IRQ, ModemType, RxType
  <1>2. /\ Tail(air) \in Seq(Message) /\ Head(air) \in Message /\ Len(air) > 0
        /\ Len(Tail(air)) = Len(air) - 1 /\ Head(air) = air[1]
        /\ \A k \in 1 .. Len(air) - 1 : Tail(air)[k] = air[k + 1]
    BY <1>1
  <1>3. Among(air)' \subseteq Among(air) /\ Head(air) \in Among(air)
    BY <1>1, <1>2 DEF Among
  <1>4. /\ Append(rx, Head(air)) \in Seq(Message)
        /\ Len(Append(rx, Head(air))) = Len(rx) + 1
        /\ \A k \in 1 .. Len(rx) + 1 :
             Append(rx, Head(air))[k] = IF k <= Len(rx) THEN rx[k] ELSE Head(air)
    BY <1>1, <1>2
  <1>5. CASE rx' = rx
    BY <1>1, <1>2, <1>3, <1>5 DEF USART2_IRQ, ModemType, RxType, modemVars, Among
  <1>6. CASE Len(rx) < RxCap /\ rx' = Append(rx, Head(air))
    <2>1. Among(rx)' \subseteq Among(rx) \union Among(air)
      BY <1>1, <1>3, <1>4, <1>6 DEF Among
    <2> QED BY <2>1, <1>1, <1>2, <1>3, <1>4, <1>6 DEF USART2_IRQ, ModemType, RxType, modemVars
  <1> QED BY <1>5, <1>6 DEF USART2_IRQ

\* A thread that wakes up leaves the module and what is on its way alone.
LEMMA WakeModem ==
  ASSUME ModemType, NEW t \in Threads, Wake(t)
  PROVE  ModemType' /\ UNCHANGED <<modemVars, air>> /\ (rx' = rx \/ rx' = <<>>)
  <1>1. Woken(t) /\ UNCHANGED <<modemVars, air>> /\ (rx' = rx \/ rx' = <<>>)
    BY DEF Wake, LinkDone, JoinDone, ModeDone, SendDone, Parse, NtpDone, CloseDone
  <1>2. lost' \in 0 .. MaxLost
    BY <1>1, FailsType DEF Woken, ModemType
  <1> QED BY <1>1, <1>2 DEF ModemType, modemVars

LEMMA WakeType ==
  ASSUME StationType, NEW t \in Threads, Wake(t), ~hung, hung' = hung
  PROVE  StationType'
  <1> USE TypeParts, TypePartsPrime, SameType, ThreadSteps
  <1>1. /\ Busy(t) /\ ModemType /\ RxType /\ ThreadType /\ GwType /\ HmiType /\ DataType
        /\ HungType' /\ ModemType'
    BY WakeModem DEF Wake, HungType
  <1>2. CASE LinkDone(t)
    BY <1>1, <1>2 DEF LinkDone
  <1>3. CASE JoinDone(t)
    <2>1. GwType' /\ HmiType' /\ RxType'
      BY <1>1, <1>3 DEF JoinDone
    <2>2. DataType'
      BY <1>1, <1>3 DEF JoinDone, DataType, Found
    <2> QED BY <2>1, <2>2, <1>1, <1>3 DEF JoinDone
  <1>4. CASE ModeDone(t)
    BY <1>1, <1>4 DEF ModeDone
  <1>5. CASE SendDone(t)
    BY <1>1, <1>5 DEF SendDone
  <1>6. CASE Parse(t)
    <2>1. RxType' /\ HmiType' /\ ThreadType'
      BY <1>1, <1>6 DEF Parse
    <2>2. GwType'
      <3>1. ParsesAsJson \in BOOLEAN
        BY DEF ParsesAsJson
      <3> QED BY <3>1, <1>1, <1>6 DEF Parse, GwType
    <2>3. DataType'
      <3>1. ASSUME ParsesAsJson PROVE Head(rx).city \in Places \union {""}
        <4>1. Head(rx) \in Message
          BY <1>1, <3>1 DEF ParsesAsJson, RxType
        <4> QED BY <4>1 DEF Message
      <3> QED BY <3>1, <1>1, <1>6 DEF Parse, DataType
    <2> QED BY <2>1, <2>2, <2>3, <1>1
  <1>7. CASE NtpDone(t)
    <2>1. RxType' /\ GwType' /\ HmiType' /\ ThreadType'
      BY <1>1, <1>7 DEF NtpDone
    <2>2. DataType'
      BY <1>1, <1>7 DEF NtpDone, DataType
    <2> QED BY <2>1, <2>2, <1>1
  <1>8. CASE CloseDone(t)
    <2>1. RxType'
      BY <1>1, <1>8, EmptyRxType DEF CloseDone
    <2> QED BY <2>1, <1>1, <1>8 DEF CloseDone
  <1> QED BY <1>2, <1>3, <1>4, <1>5, <1>6, <1>7, <1>8 DEF Wake

LEMMA OthersType ==
  ASSUME StationType, ~hung, hung' = hung,
         HmiDone \/ GetWeather \/ UpdateHMI \/ Screen
  PROVE  StationType'
  <1> USE TypeParts, TypePartsPrime, SameType, ThreadSteps, FetchType
          DEF espVars, Threads
  <1>1. /\ ModemType /\ RxType /\ ThreadType /\ GwType /\ HmiType /\ DataType
        /\ HungType'
    BY DEF HungType
  <1>2. CASE HmiDone
    <2>1. GwType' /\ ThreadType'
      BY <1>1, <1>2 DEF HmiDone, PostGetWea, GwType, gwVars, threadVars
    <2>2. HmiType'
      BY <1>1, <1>2 DEF HmiDone, HmiType
    <2> QED BY <2>1, <2>2, <1>1, <1>2 DEF HmiDone
  <1>3. CASE GwTake
    <2>1. GwType' /\ ThreadType'
      BY <1>1, <1>3 DEF GwTake, GwType
    <2> QED BY <2>1, <1>1, <1>3 DEF GwTake
  <1>4. CASE GwFetched
    BY <1>1, <1>4 DEF GwFetched, GwType
  <1>5. CASE GwDelayOver
    BY <1>1, <1>5 DEF GwDelayOver, GwType
  <1>6. CASE UpdateHMI
    BY <1>1, <1>6 DEF UpdateHMI, GwType
  <1>7. CASE Screen
    <2>1. ThreadType' /\ ModemType' /\ RxType' /\ GwType'
      BY <1>1, <1>7 DEF Screen, Update, Place, WifiPassword, Command
    <2>2. HmiType'
      <3>1. commands' \in 0 .. MaxCommands
        <4>1. /\ commands \in 0 .. MaxCommands /\ commands < MaxCommands
              /\ commands' = commands + 1
          BY <1>1, <1>7 DEF Screen, Update, Place, WifiPassword, Command, HmiType
        <4> QED BY <4>1
      <3>2. hmi' \in Commands
        BY <1>7 DEF Screen, Update, Place, WifiPassword, Command
      <3> QED BY <3>1, <3>2, <1>1, <1>7
              DEF Screen, Update, Place, WifiPassword, Command, HmiType
    <2>3. DataType'
      BY <1>1, <1>7 DEF Screen, Update, Place, WifiPassword, Command, DataType
    <2> QED BY <2>1, <2>2, <2>3, <1>1
  <1> QED BY <1>2, <1>3, <1>4, <1>5, <1>6, <1>7 DEF GetWeather

\* The tick interrupt and the watchdog.
LEMMA HangType ==
  ASSUME StationType, GetNTPSoftTimer_CallBack \/ WatchdogRestart
  PROVE  StationType'
  <1> USE TypeParts, TypePartsPrime, SameType, EmptyRxType, FetchType
  <1>1. ModemType /\ RxType /\ ThreadType /\ GwType /\ HmiType /\ DataType /\ HungType
    OBVIOUS
  <1>2. CASE GetNTPSoftTimer_CallBack
    <2>1. ModemType'
      BY <1>1, <1>2, OpenLinkWhat DEF GetNTPSoftTimer_CallBack
    <2>2. HungType'
      BY <1>2 DEF GetNTPSoftTimer_CallBack, ModemType, HungType
    <2> QED BY <2>1, <2>2, <1>1, <1>2 DEF GetNTPSoftTimer_CallBack
  <1>3. CASE WatchdogRestart
    <2>1. RxType' /\ HmiType'
      BY <1>1, <1>3 DEF WatchdogRestart, ESP8266_Init, HmiType
    <2>2. ModemType'
      <3>1. lost' \in 0 .. MaxLost
        <4>1. lost \in 0 .. MaxLost /\ lost < MaxLost /\ lost' = lost + 1
          BY <1>1, <1>3 DEF WatchdogRestart, ModemType, HungType
        <4> QED BY <4>1
      <3>2. air' \in Seq(Message)
        BY <1>3, EmptyAirType DEF WatchdogRestart, ESP8266_Init
      <3> QED BY <3>1, <3>2, <1>3 DEF WatchdogRestart, ESP8266_Init, ModemType
    <2>3. ThreadType' /\ GwType' /\ DataType'
      BY <1>1, <1>3 DEF WatchdogRestart, ThreadType, GwType, DataType
    <2>4. HungType'
      BY <1>3 DEF WatchdogRestart, HungType
    <2> QED BY <2>1, <2>2, <2>3, <2>4
  <1> QED BY <1>2, <1>3

LEMMA InitType ==
  ASSUME Init
  PROVE  StationType
  <1>0. 0 \in 0 .. MaxLost /\ 0 \in 0 .. MaxCommands /\ <<>> \in Seq(Message)
        /\ Len(<<>>) = 0
    OBVIOUS
  <1>1. ModemType /\ RxType
    <2>1. ModemType
      BY <1>0 DEF Init, EspInit, ModemType
    <2>2. RxType
      <3>1. rx = <<>>
        BY DEF Init, EspInit
      <3>2. Len(rx) <= RxCap
        BY <3>1, <1>0
      <3> QED BY <3>1, <3>2, <1>0 DEF RxType
    <2> QED BY <2>1, <2>2
  <1>2. ThreadType
    BY FetchType DEF Init, ThreadType
  <1>3. GwType /\ HmiType /\ DataType /\ HungType
    <2>1. GwType
      BY DEF Init, GwType
    <2>2. HmiType
      BY <1>0 DEF Init, HmiType
    <2>3. DataType /\ HungType
      BY DEF Init, DataType, HungType
    <2> QED BY <2>1, <2>2, <2>3
  <1> QED BY <1>1, <1>2, <1>3, TypeParts

LEMMA NextType ==
  ASSUME StationType, [Next]_vars
  PROVE  StationType'
  <1>1. CASE UNCHANGED vars
    BY <1>1, TypeParts, TypePartsPrime, SameType DEF vars, espVars, HungType
  <1>2. CASE Alive(Receive \/ Screen \/ HmiDone \/ GetWeather \/ UpdateHMI)
    <2>1. CASE Receive
      BY <1>2, <2>1, ReceiveWhat, TypeParts, TypePartsPrime, SameType
         DEF Alive, Receive, HungType
    <2> QED BY <1>2, <2>1, OthersType DEF Alive
  <1>3. ASSUME NEW t \in Threads, Alive(Run(t))
        PROVE  StationType'
    <2>1. CASE Reset(t)
      BY <1>3, <2>1, TypeParts, TypePartsPrime, SameType, ThreadSteps, EmptyRxType
         DEF Reset, Alive, HungType
    <2> QED BY <1>3, <2>1, SendType, WakeType DEF Alive, Run
  <1>4. CASE GetNTPSoftTimer_CallBack \/ WatchdogRestart
    BY <1>4, HangType
  <1> QED BY <1>1, <1>2, <1>3, <1>4 DEF Next

-----------------------------------------------------------------------------
(***************************************************************************)
(* The module is left as it was found.                                     *)
(***************************************************************************)
LEMMA JobsSame ==
  ASSUME JobsOK, UNCHANGED <<threadVars, gw, hmi>>
  PROVE  JobsOK'
  BY DEF JobsOK, threadVars, Busy, Function

\* What the step of a thread leaves of the other one's place in its job.
LEMMA JobsStep ==
  ASSUME JobsOK, StationType, NEW t \in Threads, Busy(t), UNCHANGED <<gw, hmi>>
  PROVE  /\ \A s \in {"link", "mode", "send", "request", "exit", "close"} :
              Exchange(t, s) /\ (s = "link" \/ Function(t) /= "Join") => JobsOK'
         /\ Return(t) => JobsOK'
         /\ Then(t, "wait") => JobsOK'
         /\ Then(t, "reset") /\ Function(t) \in Weather /\ step[t] = "request" => JobsOK'
  <1> USE DEF Busy, Function
  <1>1. ThreadType
    BY TypeParts
  <1>2. ASSUME NEW s \in {"link", "mode", "send", "request", "exit", "close"},
               Exchange(t, s), s = "link" \/ Function(t) /= "Join"
        PROVE  JobsOK'
    BY <1>1, <1>2 DEF JobsOK, Exchange, ThreadType
  <1>3. ASSUME Return(t) PROVE JobsOK'
    BY <1>1, <1>3 DEF JobsOK, Return, ThreadType
  <1>4. ASSUME Then(t, "wait") PROVE JobsOK'
    BY <1>1, <1>4 DEF JobsOK, Then, ThreadType
  <1>5. ASSUME Then(t, "reset"), Function(t) \in Weather, step[t] = "request" PROVE JobsOK'
    BY <1>1, <1>5 DEF JobsOK, Then, ThreadType
  <1> QED BY <1>2, <1>3, <1>4, <1>5

LEMMA SendJobs ==
  ASSUME JobsOK, StationType, NEW t \in Threads, Send(t)
  PROVE  JobsOK'
  <1>1. Busy(t) /\ UNCHANGED <<gw, hmi>>
    BY DEF Send, gwVars, hmiVars
  <1>2. CASE Then(t, "wait")
    BY <1>1, <1>2, JobsStep
  <1>3. CASE GetRequest(t)
    BY <1>1, <1>3, JobsStep DEF GetRequest
  <1>4. CASE TestRequest(t)
    BY <1>1, <1>4, JobsStep DEF TestRequest
  <1>5. CASE ExitUnvarnishSend(t)
    <2>1. Function(t) /= "Join"
      BY <1>1, <1>5 DEF JobsOK, ExitUnvarnishSend
    <2> QED BY <1>1, <1>5, <2>1, JobsStep DEF ExitUnvarnishSend
  <1> QED BY <1>2, <1>3, <1>4, <1>5 DEF Send, Cmd, NtpRequest

LEMMA WakeJobs ==
  ASSUME JobsOK, StationType, NEW t \in Threads, Wake(t)
  PROVE  JobsOK'
  <1>1. Busy(t) /\ UNCHANGED <<gw, hmi>>
    BY DEF Wake, LinkDone, JoinDone, ModeDone, SendDone, Parse, NtpDone, CloseDone,
           gwVars, hmiVars
  <1>2. Return(t) => JobsOK'
    BY <1>1, JobsStep
  <1>3. CASE step[t] /= "link"
    <2>1. Function(t) /= "Join"
      BY <1>1, <1>3 DEF JobsOK
    <2>2. \A s \in {"link", "send", "request", "exit"} : Exchange(t, s) => JobsOK'
      BY <1>1, <2>1, JobsStep
    <2> QED BY <1>2, <1>3, <2>2
            DEF Wake, LinkDone, JoinDone, ModeDone, SendDone, Parse, NtpDone, CloseDone
  <1>4. CASE step[t] = "link"
    <2>1. LinkDone(t) => JobsOK'
      BY <1>1, JobsStep DEF LinkDone
    <2> QED BY <1>2, <1>4, <2>1
            DEF Wake, JoinDone, ModeDone, SendDone, Parse, NtpDone, CloseDone
  <1> QED BY <1>3, <1>4

LEMMA StartJobs ==
  ASSUME JobsOK, StationType, NEW t \in Threads, ~Busy(t),
         NEW f \in {Fetch, <<"Join">>}, Start(t, f)
  PROVE  /\ \A u \in Threads :
              /\ ~Busy(u)' => step'[u] = "link" /\ phase'[u] = "go"
              /\ Busy(u)' /\ Function(u)' = "Join" => step'[u] = "link"
              /\ phase'[u] = "reset" => Function(u)' \in Weather /\ step'[u] = "request"
         /\ \A u \in Threads \ {t} : Busy(u)' = Busy(u)
  <1>1. ThreadType
    BY TypeParts
  <1>2. f \in Seq(Functions)
    BY FetchType
  <1>3. \A u \in Threads : /\ job'[u] = IF u = t THEN f ELSE job[u]
                           /\ step'[u] = step[u] /\ phase'[u] = phase[u]
    BY <1>1 DEF ThreadType, Start
  <1> QED BY <1>3 DEF JobsOK, Busy, Function

LEMMA OthersJobs ==
  ASSUME JobsOK, StationType,
         HmiDone \/ GetWeather \/ UpdateHMI \/ Screen
  PROVE  JobsOK'
  <1> USE DEF Threads
  <1>1. CASE HmiDone
    <2>1. CASE PostGetWea /\ gw = "blocked"
      <3>1. ~Busy("GetWeather") /\ Start("GetWeather", Fetch) /\ gw' = "run" /\ hmi' = "idle"
        BY <1>1, <2>1 DEF PostGetWea, JobsOK, HmiDone
      <3> QED BY <1>1, <3>1, StartJobs DEF JobsOK, HmiDone
    <2>2. CASE UNCHANGED <<gw, threadVars>>
      BY <1>1, <2>2 DEF JobsOK, HmiDone, threadVars, Busy, Function
    <2> QED BY <1>1, <2>1, <2>2 DEF HmiDone, PostGetWea
  <1>2. CASE GwTake
    <2>1. ~Busy("GetWeather") /\ hmi' = hmi
      BY <1>2 DEF JobsOK, GwTake, hmiVars
    <2>2. CASE gw' = "run" /\ Start("GetWeather", Fetch)
      BY <2>1, <2>2, StartJobs DEF JobsOK
    <2>3. CASE gw' = "blocked" /\ UNCHANGED threadVars
      BY <1>2, <2>1, <2>3 DEF JobsOK, threadVars, Busy, Function
    <2> QED BY <1>2, <2>2, <2>3 DEF GwTake
  <1>3. CASE GwFetched \/ GwDelayOver \/ UpdateHMI
    BY <1>3 DEF GwFetched, GwDelayOver, UpdateHMI, JobsOK, threadVars, hmiVars, Busy, Function
  <1>4. CASE Screen
    <2>1. /\ ~Busy("HMIRePrecess") /\ gw' = gw /\ hmi' /= "idle"
          /\ \E f \in {Fetch, <<"Join">>} : Start("HMIRePrecess", f)
      BY <1>4 DEF Screen, Update, Place, WifiPassword, Command, JobsOK, gwVars
    <2> QED BY <2>1, StartJobs DEF JobsOK
  <1> QED BY <1>1, <1>2, <1>3, <1>4 DEF GetWeather

LEMMA HangJobs ==
  ASSUME JobsOK, StationType, GetNTPSoftTimer_CallBack \/ WatchdogRestart
  PROVE  JobsOK'
  <1>1. CASE GetNTPSoftTimer_CallBack
    BY <1>1, JobsSame DEF GetNTPSoftTimer_CallBack, gwVars, hmiVars
  <1>2. CASE WatchdogRestart
    BY <1>2 DEF WatchdogRestart, JobsOK, Busy, Threads
  <1> QED BY <1>1, <1>2

LEMMA NextJobs ==
  ASSUME JobsOK, StationType, [Next]_vars
  PROVE  JobsOK'
  <1>1. CASE UNCHANGED vars \/ Receive
    BY <1>1, JobsSame DEF vars, Receive, gwVars, hmiVars
  <1>2. CASE Screen \/ HmiDone \/ GetWeather \/ UpdateHMI
    BY <1>2, OthersJobs
  <1>3. ASSUME NEW t \in Threads, Busy(t), Reset(t)
        PROVE  JobsOK'
    BY <1>3, JobsStep DEF Reset, gwVars, hmiVars
  <1>4. ASSUME NEW t \in Threads, Reset(t)
        PROVE  Busy(t)
    BY <1>4 DEF Reset, JobsOK
  <1>5. ASSUME NEW t \in Threads, Run(t)
        PROVE  JobsOK'
    BY <1>3, <1>4, <1>5, SendJobs, WakeJobs DEF Run
  <1>6. CASE GetNTPSoftTimer_CallBack \/ WatchdogRestart
    BY <1>6, HangJobs
  <1> QED BY <1>1, <1>2, <1>5, <1>6 DEF Next, Alive

\* While one thread goes on the other keeps what it has before it.
LEMMA OtherThread ==
  ASSUME StationType, NEW t \in Threads, NEW u \in Threads \ {t},
         \/ \E s \in {"link", "mode", "send", "request", "exit", "close"} : Exchange(t, s)
         \/ Return(t)
         \/ \E p \in {"reset", "wait"} : Then(t, p)
         \/ \E f \in {Fetch, <<"Join">>} : Start(t, f)
  PROVE  /\ job'[u] = job[u] /\ step'[u] = step[u] /\ phase'[u] = phase[u]
         /\ Leaves(u)' = Leaves(u) /\ Closes(u)' = Closes(u)
  <1>1. ThreadType
    BY TypeParts
  <1>2. job'[u] = job[u] /\ step'[u] = step[u] /\ phase'[u] = phase[u]
    BY <1>1 DEF ThreadType, Exchange, Return, Then, Start
  <1> QED BY <1>2 DEF Leaves, Closes, Busy, Function

\* A thread that goes on within a function that is not to join still leaves.
LEMMA StillLeaves ==
  ASSUME StationType, NEW t \in Threads, Busy(t), Function(t) /= "Join",
         \/ \E s \in {"link", "mode", "send", "request", "exit"} : Exchange(t, s)
         \/ step[t] /= "close" /\ \E p \in {"reset", "wait"} : Then(t, p)
  PROVE  Leaves(t)' /\ Closes(t)'
  <1>1. ThreadType
    BY TypeParts
  <1> QED BY <1>1 DEF ThreadType, Exchange, Then, Leaves, Closes, Busy, Function

LEMMA SendModule ==
  ASSUME ModuleOK, JobsOK, StationType, NEW t \in Threads, Send(t), ~hung
  PROVE  ModuleOK'
  <1>1. Busy(t) /\ phase[t] = "go" /\ ModemType
    BY TypeParts DEF Send
  <1>2. Leaves(t)' /\ Closes(t)' => ModuleOK'
    BY DEF ModuleOK
  <1>3. ASSUME step[t] /= "link" PROVE Function(t) /= "Join"
    BY <1>1, <1>3 DEF JobsOK
  <1>4. ASSUME Then(t, "wait"), step[t] \in {"mode", "send", "request"}
        PROVE  ModuleOK'
    BY <1>1, <1>2, <1>3, <1>4, StillLeaves
  <1>5. CASE Cmd(t, "link", CASE Function(t) = "NTP"  -> OpenLink("UDP")
                              [] Function(t) = "Join" -> JoinAP
                              [] OTHER                -> OpenLink("TCP"))
    <2>1. CASE Function(t) /= "Join"
      BY <1>1, <1>2, <1>5, <2>1, StillLeaves DEF Cmd
    <2>2. CASE Function(t) = "Join"
      <3>1. Line(JoinAP) /\ Then(t, "wait") /\ step[t] = "link"
        BY <1>5, <2>2 DEF Cmd
      <3>2. mode' = mode /\ link' \in {"none", link}
        BY <1>1, <3>1, JoinAPWhat
      <3>3. ~Leaves(t) /\ ~Closes(t)
        BY <2>2, <3>1 DEF Leaves, Closes
      <3> QED BY <3>1, <3>2, <3>3, OtherThread DEF ModuleOK
    <2> QED BY <2>1, <2>2
  <1>6. CASE Cmd(t, "mode", SetTransparent) \/ Cmd(t, "send", BeginTransparent)
    BY <1>4, <1>6 DEF Cmd
  <1>7. CASE NtpRequest(t)
    BY <1>4, <1>7 DEF NtpRequest
  <1>8. CASE GetRequest(t)
    BY <1>1, <1>2, <1>3, <1>8, StillLeaves DEF GetRequest
  <1>9. CASE TestRequest(t)
    BY <1>1, <1>2, <1>3, <1>9, StillLeaves DEF TestRequest
  <1>10. CASE ExitUnvarnishSend(t)
    <2>1. mode' = "command" /\ Exchange(t, "close")
      BY <1>10 DEF ExitUnvarnishSend, Escape
    <2>2. Closes(t)'
      BY <1>1, <2>1, TypeParts DEF Exchange, ThreadType, Closes, Busy
    <2> QED BY <2>1, <2>2 DEF ModuleOK
  <1>11. CASE Cmd(t, "close", CloseLink)
    <2>1. step[t] = "close" /\ Then(t, "wait") /\ Line(CloseLink)
      BY <1>11 DEF Cmd
    <2>2. mode' = mode /\ (mode = "command" => link' = "none")
      BY <1>1, <2>1, CloseLinkWhat
    <2>3. CASE mode = "command"
      BY <2>2, <2>3 DEF ModuleOK
    <2>4. CASE mode = "transparent"
      <3>1. PICK u \in Threads : Leaves(u)
        BY <2>4 DEF ModuleOK
      <3>2. u /= t /\ Closes(u)
        BY <2>1, <3>1 DEF Leaves, Closes
      <3>3. Leaves(u)' /\ Closes(u)'
        BY <2>1, <3>1, <3>2, OtherThread
      <3> QED BY <3>3 DEF ModuleOK
    <2> QED BY <1>1, <2>3, <2>4 DEF ModemType
  <1> QED BY <1>5, <1>6, <1>7, <1>8, <1>9, <1>10, <1>11 DEF Send

LEMMA WakeModule ==
  ASSUME ModuleOK, JobsOK, StationType, NEW t \in Threads, Wake(t), ~hung
  PROVE  ModuleOK'
  <1>1. Busy(t) /\ mode' = mode /\ link' = link
    BY DEF Wake, LinkDone, JoinDone, ModeDone, SendDone, Parse, NtpDone, CloseDone,
           espVars, modemVars
  <1>2. CASE JoinDone(t) \/ CloseDone(t)
    <2>1. Return(t) /\ ~Leaves(t) /\ ~Closes(t)
      BY <1>2 DEF JoinDone, CloseDone, Leaves, Closes, Woken
    <2> QED BY <1>1, <2>1, OtherThread DEF ModuleOK
  <1>3. CASE LinkDone(t) \/ ModeDone(t) \/ SendDone(t) \/ Parse(t) \/ NtpDone(t)
    <2>1. Function(t) /= "Join"
      BY <1>1, <1>3 DEF JobsOK, LinkDone, ModeDone, SendDone, Parse, NtpDone
    <2>2. \E s \in {"link", "mode", "send", "request", "exit"} : Exchange(t, s)
      BY <1>3 DEF LinkDone, ModeDone, SendDone, Parse, NtpDone
    <2> QED BY <1>1, <2>1, <2>2, StillLeaves DEF ModuleOK
  <1> QED BY <1>2, <1>3 DEF Wake

LEMMA NextModule ==
  ASSUME ModuleOK, JobsOK, StationType, [Next]_vars
  PROVE  ModuleOK'
  <1> USE DEF Threads
  <1>1. ASSUME UNCHANGED <<mode, link, threadVars, hung>>
        PROVE  ModuleOK'
    BY <1>1 DEF ModuleOK, Leaves, Closes, Busy, Function, threadVars
  <1>2. ASSUME NEW t \in Threads, ~Busy(t), NEW f \in {Fetch, <<"Join">>}, Start(t, f),
               UNCHANGED <<mode, link, hung>>
        PROVE  ModuleOK'
    BY <1>2, OtherThread DEF ModuleOK, Leaves, Closes
  <1>3. CASE UNCHANGED vars
    BY <1>1, <1>3 DEF vars, espVars, modemVars
  <1>4. CASE Alive(Receive \/ HmiDone \/ GetWeather \/ UpdateHMI \/ Screen)
    <2>1. UNCHANGED <<mode, link, hung>>
      BY <1>4 DEF Alive, Receive, USART2_IRQ, HmiDone, GetWeather, GwTake, GwFetched,
           GwDelayOver, UpdateHMI, Screen, Update, Place, WifiPassword, Command, espVars,
           modemVars
    <2>2. CASE UNCHANGED threadVars
      BY <1>1, <2>1, <2>2
    <2>3. CASE HmiDone \/ GwTake
      <3>1. UNCHANGED threadVars \/ (~Busy("GetWeather") /\ Start("GetWeather", Fetch))
        BY <2>3 DEF HmiDone, PostGetWea, GwTake, JobsOK
      <3> QED BY <1>2, <2>1, <2>2, <3>1
    <2>4. CASE Screen
      <3>1. /\ ~Busy("HMIRePrecess")
            /\ \E f \in {Fetch, <<"Join">>} : Start("HMIRePrecess", f)
        BY <2>4 DEF Screen, Update, Place, WifiPassword, Command, JobsOK
      <3> QED BY <1>2, <2>1, <3>1
    <2>5. Receive \/ GwFetched \/ GwDelayOver \/ UpdateHMI => UNCHANGED threadVars
      BY DEF Receive, GwFetched, GwDelayOver, UpdateHMI
    <2> QED BY <1>4, <2>2, <2>3, <2>4, <2>5 DEF Alive, GetWeather
  <1>5. ASSUME NEW t \in Threads, Alive(Run(t))
        PROVE  ModuleOK'
    <2>1. CASE Reset(t)
      <3>1. Busy(t) /\ Function(t) \in Weather /\ step[t] = "request"
        BY <2>1 DEF Reset, JobsOK
      <3> QED BY <2>1, <3>1, StillLeaves DEF Reset, ModuleOK, Weather
    <2> QED BY <1>5, <2>1, SendModule, WakeModule DEF Alive, Run
  <1>6. CASE GetNTPSoftTimer_CallBack \/ WatchdogRestart
    BY <1>6 DEF GetNTPSoftTimer_CallBack, WatchdogRestart, ESP8266_Init, ModuleOK
  <1> QED BY <1>3, <1>4, <1>5, <1>6 DEF Next

\* The types, the jobs and the module, in every reachable state.
StationInv == StationType /\ JobsOK /\ ModuleOK

LEMMA InitInv ==
  Init => StationInv
  <1>1. Init => JobsOK
    <2> SUFFICES ASSUME Init PROVE JobsOK
      OBVIOUS
    <2>1. \A t \in Threads : job[t] = <<>> /\ step[t] = "link" /\ phase[t] = "go"
      BY DEF Init
    <2>2. \A t \in Threads : ~Busy(t)
      BY <2>1 DEF Busy
    <2> QED BY <2>1, <2>2 DEF JobsOK, Threads
  <1>2. Init => ModuleOK
    BY DEF Init, EspInit, ModuleOK
  <1> QED BY <1>1, <1>2, InitType DEF StationInv

LEMMA NextInv ==
  StationInv /\ [Next]_vars => StationInv'
  BY NextType, NextJobs, NextModule DEF StationInv

LEMMA StationInvariant ==
  Spec => []StationInv
  BY InitInv, NextInv, PTL DEF Spec

\* Every variable of the station keeps to its range; in particular the frame
\* buffer never holds more than it has room for.
THEOREM StationTyped == Spec => []TypeOK
  <1>1. StationInv => TypeOK
    BY DEF StationInv, StationType
  <1> QED BY <1>1, StationInvariant, PTL

\* When neither GetWeather nor HMIRePrecess is in a fetch, the Wi-Fi module is
\* in command mode without a link: whatever answers were lost, however the
\* fetches of the two have interleaved, and after a restart by the watchdog.
THEOREM StationModuleReleased == Spec => []ModuleReleased
  <1>1. StationInv => ModuleReleased
    BY DEF StationInv, StationType, TypeOK, ModuleOK, ModuleReleased, Leaves, Closes
  <1> QED BY <1>1, StationInvariant, PTL

-----------------------------------------------------------------------------
(***************************************************************************)
(* One thread at a time.                                                   *)
(***************************************************************************)

\* While one thread fetches alone the other is not in a function.
LEMMA OtherIdle ==
  ASSUME AloneOK, JobsOK, NEW t \in Threads, Busy(t), NEW u \in Threads \ {t}
  PROVE  ~Busy(u) /\ phase[u] = "go" /\ step[u] = "link"
  BY DEF AloneOK, JobsOK, Threads

\* It is enough to look at the thread that goes on.
LEMMA AloneStep ==
  ASSUME NEW t \in Threads,
         ~ \A u \in Threads : Busy(u)',
         \A u \in Threads \ {t} : phase'[u] = "go",
         phase'[t] = "go" => air' = <<>>,
         \A a \in Among(air)' : a.city \in {"", g_city'},
         step'[t] = "request" /\ phase'[t] = "wait" =>
           /\ \A a \in Among(rx)' : a.city \in {"", g_city'}
           /\ Function(t)' = "NTP" =>
                \A a \in Among(rx)' \union Among(air)' : a = Answer("ntp")
  PROVE  AloneOK'
  BY DEF AloneOK

LEMMA HeadAmong ==
  ASSUME NEW s \in Seq(Message), s /= <<>>
  PROVE  Head(s) \in Among(s)
  <1>1. Len(s) \in Nat \ {0} /\ Head(s) = s[1]
    OBVIOUS
  <1>2. 1 \in 1 .. Len(s)
    BY <1>1
  <1> QED BY <1>1, <1>2 DEF Among

LEMMA SendAlone ==
  ASSUME AloneOK, JobsOK, StationType, NEW t \in Threads, Send(t),
         ~ \A u \in Threads : Busy(u)'
  PROVE  AloneOK'
  <1>1. /\ Busy(t) /\ phase[t] = "go" /\ ModemType /\ ThreadType /\ g_city' = g_city
        /\ g_city \in Places
    BY TypeParts DEF Send, hmiVars, StationType, TypeOK
  <1>2. air = <<>> /\ Among(air) = {}
    BY <1>1, OtherIdle, AmongNone DEF AloneOK
  <1>3. /\ \A s \in {"link", "mode", "send", "request", "exit", "close"} :
             Exchange(t, s) => phase'[t] = "go" /\ \A u \in Threads \ {t} : phase'[u] = "go"
        /\ \A p \in {"reset", "wait"} :
             Then(t, p) => /\ phase'[t] = p /\ step'[t] = step[t] /\ job'[t] = job[t]
                           /\ \A u \in Threads \ {t} : phase'[u] = "go"
    BY <1>1, OtherIdle DEF ThreadType, Exchange, Then
  <1>4. ASSUME NEW p \in {"reset", "wait"}, Then(t, p), NewIsPlain,
               step[t] /= "request"
        PROVE  AloneOK'
    BY <1>1, <1>2, <1>3, <1>4, AloneStep DEF NewIsPlain
  <1>5. CASE Cmd(t, "link", CASE Function(t) = "NTP"  -> OpenLink("UDP")
                              [] Function(t) = "Join" -> JoinAP
                              [] OTHER                -> OpenLink("TCP"))
    <2>1. NewIsPlain
      BY <1>1, <1>5, OpenLinkWhat, JoinAPWhat DEF Cmd
    <2> QED BY <1>4, <1>5, <2>1 DEF Cmd
  <1>6. CASE \/ Cmd(t, "mode", SetTransparent) \/ Cmd(t, "send", BeginTransparent)
             \/ Cmd(t, "close", CloseLink)
    <2>1. NewIsPlain
      BY <1>1, <1>6, SetTransparentWhat, BeginTransparentWhat, CloseLinkWhat DEF Cmd
    <2> QED BY <1>4, <1>6, <2>1 DEF Cmd
  <1>7. CASE GetRequest(t)
    <2>1. \A a \in Among(air)' : a.city \in {"", g_city}
      BY <1>1, <1>2, <1>7, GetRequestWhat
    <2>2. phase'[t] = "reset" /\ \A u \in Threads \ {t} : phase'[u] = "go"
      BY <1>3, <1>7 DEF GetRequest
    <2> QED BY <1>1, <2>1, <2>2, AloneStep
  <1>8. CASE NtpRequest(t)
    <2>1. \A a \in Among(air)' : a = Answer("ntp") /\ a.city = ""
      <3>1. \A a \in Among(air)' : a = Answer("ntp")
        BY <1>1, <1>2, <1>8, NtpRequestWhat
      <3>2. Answer("ntp").city = ""
        BY DEF Answer
      <3> QED BY <3>1, <3>2
    <2>2. phase'[t] = "wait" /\ \A u \in Threads \ {t} : phase'[u] = "go"
      BY <1>3, <1>8 DEF NtpRequest
    <2>3. Among(rx)' = {}
      BY <1>8, AmongNone DEF NtpRequest
    <2> QED BY <1>1, <2>1, <2>2, <2>3, AloneStep
  <1>9. CASE TestRequest(t) \/ ExitUnvarnishSend(t)
    <2>1. air' = <<>> /\ Among(air)' = {}
      BY <1>2, <1>9, AmongNone DEF TestRequest, ExitUnvarnishSend, Swallowed, Escape
    <2>2. phase'[t] = "go" /\ \A u \in Threads \ {t} : phase'[u] = "go"
      BY <1>3, <1>9 DEF TestRequest, ExitUnvarnishSend
    <2> QED BY <2>1, <2>2, AloneStep
  <1> QED BY <1>5, <1>6, <1>7, <1>8, <1>9 DEF Send

\* What a thread that is alone finds in the frame buffer.
LEMMA WakeAlone ==
  ASSUME AloneOK, JobsOK, StationType, OneCity, ClockFromNtp,
         NEW t \in Threads, Wake(t), air = <<>>,
         ~ \A u \in Threads : Busy(u)'
  PROVE  AloneOK' /\ OneCity' /\ ClockFromNtp'
  <1>1. /\ Busy(t) /\ phase[t] = "wait" /\ air' = <<>> /\ ThreadType
        /\ rx \in Seq(Message) /\ weather_data \in [Weather -> Places \union {""}]
        /\ g_city' = g_city
    BY TypeParts
       DEF Wake, Woken, LinkDone, JoinDone, ModeDone, SendDone, Parse, NtpDone, CloseDone,
           hmiVars, StationType, TypeOK
  <1>2. \/ Return(t)
        \/ \E s \in {"link", "mode", "send", "request", "exit"} : Exchange(t, s)
    BY DEF Wake, LinkDone, JoinDone, ModeDone, SendDone, Parse, NtpDone, CloseDone
  <1>3. phase'[t] = "go" /\ \A u \in Threads \ {t} : phase'[u] = "go"
    BY <1>1, <1>2, OtherIdle DEF ThreadType, Exchange, Return
  <1>4. AloneOK'
    BY <1>1, <1>3, AmongNone, AloneStep
  <1>5. rx /= <<>> => Head(rx) \in Among(rx)
    BY <1>1, HeadAmong
  <1>6. CASE Parse(t)
    <2>1. \A a \in Among(rx) : a.city \in {"", g_city}
      BY <1>1, <1>6 DEF Parse, AloneOK
    <2>2. CASE ParsesAsJson /\ Head(rx).tag = Function(t)
      <3>1. /\ weather_data' = [weather_data EXCEPT ![Function(t)] = Head(rx).city]
            /\ Head(rx).city \in {"", g_city} /\ clock' = clock
        BY <1>5, <1>6, <2>1, <2>2 DEF Parse, ParsesAsJson
      <3> QED BY <3>1, <1>1, <1>4 DEF OneCity, ClockFromNtp
    <2>3. CASE ~(ParsesAsJson /\ Head(rx).tag = Function(t))
      BY <1>1, <1>4, <1>6, <2>3 DEF Parse, OneCity, ClockFromNtp
    <2> QED BY <2>2, <2>3
  <1>7. CASE NtpDone(t)
    <2>1. \A a \in Among(rx) : a = Answer("ntp")
      BY <1>1, <1>7 DEF NtpDone, AloneOK
    <2>2. clock' \in {clock, "ntp"} /\ weather_data' = weather_data
      BY <1>5, <1>7, <2>1 DEF NtpDone
    <2> QED BY <2>2, <1>1, <1>4 DEF OneCity, ClockFromNtp
  <1>8. CASE LinkDone(t) \/ JoinDone(t) \/ ModeDone(t) \/ SendDone(t) \/ CloseDone(t)
    <2>1. clock' = clock /\ weather_data' = weather_data
      BY <1>8 DEF LinkDone, JoinDone, ModeDone, SendDone, CloseDone, dataVars
    <2> QED BY <2>1, <1>1, <1>4 DEF OneCity, ClockFromNtp
  <1> QED BY <1>6, <1>7, <1>8 DEF Wake

\* A step after which the threads are where they were, or one has got a job.
LEMMA PlaceAlone ==
  ASSUME AloneOK, JobsOK, StationType, UNCHANGED <<air, rx, g_city>>,
         ~ \A u \in Threads : Busy(u)',
         \/ UNCHANGED threadVars
         \/ \E t \in Threads, f \in {Fetch, <<"Join">>} : ~Busy(t) /\ Start(t, f)
  PROVE  AloneOK'
  <1>1. CASE UNCHANGED threadVars
    BY <1>1 DEF AloneOK, threadVars, Function
  <1>2. ASSUME NEW t \in Threads, NEW f \in {Fetch, <<"Join">>}, ~Busy(t), Start(t, f)
        PROVE  AloneOK'
    <2>1. \A u \in Threads : phase'[u] = phase[u] /\ step'[u] = step[u]
      BY <1>2 DEF Start
    <2>2. \A u \in Threads \ {t} : Function(u)' = Function(u)
      BY <1>2, OtherThread DEF Function
    <2>3. phase[t] = "go"
      BY <1>2 DEF JobsOK
    <2> QED BY <2>1, <2>2, <2>3 DEF AloneOK
  <1> QED BY <1>1, <1>2

LEMMA OthersAlone ==
  ASSUME AloneOK, JobsOK, StationType, OneCity, ClockFromNtp,
         Receive \/ HmiDone \/ GetWeather \/ UpdateHMI \/ Screen,
         ~ \A u \in Threads : Busy(u)'
  PROVE  AloneOK' /\ OneCity' /\ ClockFromNtp'
  <1> USE DEF Threads
  <1>1. CASE Receive
    <2>1. /\ Among(air)' \subseteq Among(air) /\ air /= <<>>
          /\ Among(rx)' \subseteq Among(rx) \union Among(air)
          /\ UNCHANGED <<threadVars, hmiVars, dataVars>>
      BY <1>1, TypeParts, ReceiveWhat DEF Receive, USART2_IRQ
    <2>2. OneCity' /\ ClockFromNtp'
      BY <2>1 DEF OneCity, ClockFromNtp, hmiVars, dataVars
    <2>3. AloneOK'
      BY <2>1 DEF AloneOK, threadVars, hmiVars, Function
    <2> QED BY <2>2, <2>3
  <1>2. CASE HmiDone \/ GetWeather \/ UpdateHMI
    <2>1. /\ UNCHANGED <<air, rx, g_city, weather_data, clock>>
          /\ \/ UNCHANGED threadVars
             \/ ~Busy("GetWeather") /\ Start("GetWeather", Fetch)
      BY <1>2 DEF HmiDone, PostGetWea, GetWeather, GwTake, GwFetched, GwDelayOver, UpdateHMI,
                  espVars, hmiVars, dataVars, JobsOK
    <2> QED BY <2>1, PlaceAlone DEF OneCity, ClockFromNtp
  <1>3. CASE Update \/ WifiPassword
    <2>1. /\ UNCHANGED <<air, rx, g_city, weather_data, clock>>
          /\ ~Busy("HMIRePrecess")
          /\ \E f \in {Fetch, <<"Join">>} : Start("HMIRePrecess", f)
      BY <1>3 DEF Update, WifiPassword, Command, espVars, JobsOK
    <2> QED BY <2>1, PlaceAlone DEF OneCity, ClockFromNtp
  <1>4. CASE Place
    <2> DEFINE h == "HMIRePrecess"
               g == "GetWeather"
    <2>1. /\ UNCHANGED <<air, rx, clock>> /\ ~Busy(h) /\ Start(h, Fetch)
          /\ weather_data' = [k \in Weather |-> ""]
      BY <1>4 DEF Place, Command, espVars, JobsOK
    <2>2. Busy(h)' /\ Busy(g)' = Busy(g)
      <3>1. Busy(g)' = Busy(g)
        BY <2>1, OtherThread DEF Busy
      <3>2. job'[h] = Fetch
        BY <2>1, TypeParts DEF Start, ThreadType
      <3> QED BY <3>1, <3>2 DEF Busy, Fetch
    <2>3. \A u \in Threads : phase[u] = "go" /\ phase'[u] = "go"
      BY <2>1, <2>2 DEF JobsOK, Start
    <2>4. air' = <<>> /\ Among(air)' = {}
      BY <2>1, <2>3, AmongNone DEF AloneOK
    <2>5. AloneOK'
      BY <2>3, <2>4 DEF AloneOK
    <2> QED BY <2>1, <2>5 DEF OneCity, ClockFromNtp
  <1> QED BY <1>1, <1>2, <1>3, <1>4 DEF Screen

LEMMA NextFetchedAlone ==
  ASSUME FetchedAloneOK, StationInv, [HistoryNext]_mcVars
  PROVE  FetchedAloneOK'
  <1> SUFFICES ASSUME ~disturbed' PROVE OneCity' /\ ClockFromNtp' /\ (~hung' => AloneOK')
    BY DEF FetchedAloneOK
  <1> USE DEF StationInv
  <1>1. CASE UNCHANGED mcVars
    BY <1>1 DEF mcVars, vars, espVars, threadVars, gwVars, hmiVars, dataVars, FetchedAloneOK,
                OneCity, ClockFromNtp, AloneOK, Busy, Function
  <1>2. CASE HistoryNext
    <2>1. /\ ~disturbed /\ Next /\ ~ \A t \in Threads : Busy(t)'
          /\ \A t \in Threads : Wake(t) => air = <<>>
          /\ OneCity /\ ClockFromNtp /\ (~hung => AloneOK)
      BY <1>2 DEF HistoryNext, DisturbedNext, FetchedAloneOK
    <2>2. CASE Alive(Receive \/ Screen \/ HmiDone \/ GetWeather \/ UpdateHMI)
      BY <2>1, <2>2, OthersAlone DEF Alive
    <2>3. ASSUME NEW t \in Threads, Alive(Run(t))
          PROVE  OneCity' /\ ClockFromNtp' /\ AloneOK'
      <3>1. CASE Send(t)
        BY <2>1, <2>3, <3>1, SendAlone
           DEF Alive, Send, OneCity, ClockFromNtp, hmiVars, dataVars
      <3>2. CASE Wake(t)
        BY <2>1, <2>3, <3>2, WakeAlone DEF Alive
      <3>3. CASE Reset(t)
        <4>1. /\ phase[t] = "reset" /\ rx' = <<>> /\ air' = air /\ g_city' = g_city
              /\ weather_data' = weather_data /\ clock' = clock
              /\ Then(t, "wait") /\ Function(t) \in Weather /\ Busy(t) /\ AloneOK
          BY <2>1, <2>3, <3>3 DEF Alive, Reset, JobsOK, hmiVars, dataVars
        <4>2. /\ Function(t)' \in Weather /\ phase'[t] = "wait"
              /\ \A u \in Threads \ {t} : phase'[u] = "go"
          BY <4>1, OtherIdle, TypeParts DEF Then, ThreadType, Function
        <4>3. AloneOK'
          BY <2>1, <4>1, <4>2, AloneStep, AmongNone DEF AloneOK, Weather
        <4> QED BY <2>1, <4>1, <4>3 DEF OneCity, ClockFromNtp
      <3> QED BY <2>3, <3>1, <3>2, <3>3 DEF Alive, Run
    <2>4. CASE GetNTPSoftTimer_CallBack
      BY <2>1, <2>4 DEF GetNTPSoftTimer_CallBack, OneCity, ClockFromNtp, hmiVars, dataVars
    <2>5. CASE WatchdogRestart
      <3>1. /\ \A t \in Threads : step'[t] = "link" /\ phase'[t] = "go"
            /\ air' = <<>> /\ Among(air)' = {}
        BY <2>5, AmongNone DEF WatchdogRestart, ESP8266_Init
      <3>2. AloneOK'
        BY <2>1, <3>1 DEF AloneOK
      <3> QED BY <2>1, <2>5, <3>2 DEF WatchdogRestart, OneCity, ClockFromNtp
    <2> QED BY <2>1, <2>2, <2>3, <2>4, <2>5 DEF Next
  <1> QED BY <1>1, <1>2

-----------------------------------------------------------------------------
(***************************************************************************)
(* No answer has crossed a request.                                        *)
(***************************************************************************)

\* What two threads may fetch at once, however late their answers come, as
\* long as none of them finds a stranger's answer on its way.
CleanOK ==
  /\ OneCity /\ ClockFromNtp
  /\ \A t \in Threads :
       /\ ~Foreign(t)
       /\ Awaits(t, Weather) => \A a \in Among(rx) : a.city \in {"", g_city}
       /\ Awaits(t, {"NTP"}) => \A a \in Among(rx) : a = Answer("ntp")

NotCrossedOK == ~crossed => CleanOK

\* A thread begins to wait for data with an empty frame buffer.
BeginsClean(t) ==
  \A F \in {Weather, {"NTP"}} : Awaits(t, F)' => Awaits(t, F) \/ Among(rx)' = {}

\* Nothing gets into the frame buffer that was not on its way.
RxFromAir == Among(rx)' \subseteq Among(rx) \union Among(air)

LEMMA SameWait ==
  ASSUME NEW u \in Threads, job'[u] = job[u], step'[u] = step[u], phase'[u] = phase[u]
  PROVE  BeginsClean(u)
  BY DEF BeginsClean, Awaits, Busy, Function

LEMMA NoWait ==
  ASSUME NEW u \in Threads, phase'[u] /= "wait"
  PROVE  BeginsClean(u)
  BY DEF BeginsClean, Awaits

LEMMA EmptyRx ==
  ASSUME rx' = <<>>
  PROVE  RxFromAir /\ \A u \in Threads : BeginsClean(u)
  BY AmongNone DEF RxFromAir, BeginsClean

LEMMA SameRx ==
  ASSUME rx' = rx
  PROVE  RxFromAir
  BY DEF RxFromAir, Among

LEMMA RunClean ==
  ASSUME StationInv, NEW t \in Threads, Run(t)
  PROVE  RxFromAir /\ \A u \in Threads : BeginsClean(u)
  <1> USE DEF StationInv
  <1>1. ThreadType /\ ModemType
    BY TypeParts
  <1>2. ASSUME rx' = rx \/ rx' = <<>>,
               \/ \E s \in {"link", "mode", "send", "request", "exit", "close"} : Exchange(t, s)
               \/ Return(t) \/ Then(t, "reset")
        PROVE  RxFromAir /\ \A u \in Threads : BeginsClean(u)
    <2>1. phase'[t] /= "wait"
      BY <1>1, <1>2 DEF ThreadType, Exchange, Return, Then
    <2>2. \A u \in Threads \ {t} : BeginsClean(u)
      BY <1>2, OtherThread, SameWait
    <2> QED BY <1>2, <2>1, <2>2, NoWait, EmptyRx, SameRx
  <1>3. CASE Wake(t)
    <2>1. rx' = rx \/ rx' = <<>>
      BY <1>1, <1>3, WakeModem
    <2>2. \/ Return(t)
          \/ \E s \in {"link", "mode", "send", "request", "exit"} : Exchange(t, s)
      BY <1>3 DEF Wake, LinkDone, JoinDone, ModeDone, SendDone, Parse, NtpDone, CloseDone
    <2> QED BY <1>2, <2>1, <2>2
  <1>4. CASE GetRequest(t) \/ TestRequest(t) \/ ExitUnvarnishSend(t)
    BY <1>2, <1>4 DEF GetRequest, TestRequest, ExitUnvarnishSend
  <1>5. CASE rx' = <<>>
    BY <1>5, EmptyRx
  <1>6. Send(t) => GetRequest(t) \/ TestRequest(t) \/ ExitUnvarnishSend(t) \/ rx' = <<>>
    BY DEF Send, Cmd, NtpRequest
  <1> QED BY <1>3, <1>4, <1>5, <1>6 DEF Run, Reset

LEMMA OthersClean ==
  ASSUME StationInv, Receive \/ HmiDone \/ GetWeather \/ UpdateHMI \/ Screen
  PROVE  RxFromAir /\ \A u \in Threads : BeginsClean(u)
  <1> USE DEF StationInv, Threads
  <1>1. ASSUME UNCHANGED threadVars
        PROVE  \A u \in Threads : BeginsClean(u)
    BY <1>1, SameWait DEF threadVars
  <1>2. ASSUME NEW t \in Threads, ~Busy(t), NEW f \in {Fetch, <<"Join">>}, Start(t, f)
        PROVE  \A u \in Threads : BeginsClean(u)
    <2>1. phase'[t] /= "wait"
      BY <1>2 DEF JobsOK, Start
    <2>2. \A u \in Threads \ {t} : BeginsClean(u)
      BY <1>2, OtherThread, SameWait
    <2> QED BY <2>1, <2>2, NoWait
  <1>3. CASE Receive
    BY <1>1, <1>3, TypeParts, ReceiveWhat DEF Receive, RxFromAir
  <1>4. CASE HmiDone \/ GetWeather \/ UpdateHMI
    <2>1. /\ rx' = rx
          /\ \/ UNCHANGED threadVars
             \/ ~Busy("GetWeather") /\ Start("GetWeather", Fetch)
      BY <1>4 DEF HmiDone, PostGetWea, GetWeather, GwTake, GwFetched, GwDelayOver, UpdateHMI,
                  espVars, JobsOK
    <2> QED BY <1>1, <1>2, <2>1, SameRx
  <1>5. CASE Screen
    <2>1. /\ rx' = rx /\ ~Busy("HMIRePrecess")
          /\ \E f \in {Fetch, <<"Join">>} : Start("HMIRePrecess", f)
      BY <1>5 DEF Screen, Update, Place, WifiPassword, Command, espVars, JobsOK
    <2> QED BY <1>2, <2>1, SameRx
  <1> QED BY <1>3, <1>4, <1>5

\* What a thread stores is what it finds in the frame buffer.
LEMMA WakeClean ==
  ASSUME CleanOK, StationInv, NEW t \in Threads, Wake(t)
  PROVE  OneCity' /\ ClockFromNtp'
  <1> USE DEF StationInv
  <1>1. /\ Busy(t) /\ phase[t] = "wait" /\ OneCity /\ ClockFromNtp /\ g_city' = g_city
        /\ rx \in Seq(Message) /\ weather_data \in [Weather -> Places \union {""}]
    BY TypeParts
       DEF Wake, Woken, LinkDone, JoinDone, ModeDone, SendDone, Parse, NtpDone, CloseDone,
           hmiVars, StationType, TypeOK, CleanOK
  <1>2. rx /= <<>> => Head(rx) \in Among(rx)
    BY <1>1, HeadAmong
  <1>3. CASE Parse(t)
    <2>1. Awaits(t, Weather)
      BY <1>1, <1>3 DEF Parse, Awaits
    <2>2. CASE ParsesAsJson /\ Head(rx).tag = Function(t)
      <3>1. /\ weather_data' = [weather_data EXCEPT ![Function(t)] = Head(rx).city]
            /\ Head(rx).city \in {"", g_city} /\ clock' = clock
        BY <1>2, <1>3, <2>1, <2>2 DEF Parse, ParsesAsJson, CleanOK
      <3> QED BY <3>1, <1>1 DEF OneCity, ClockFromNtp
    <2>3. CASE ~(ParsesAsJson /\ Head(rx).tag = Function(t))
      BY <1>1, <1>3, <2>3 DEF Parse, OneCity, ClockFromNtp
    <2> QED BY <2>2, <2>3
  <1>4. CASE NtpDone(t)
    <2>1. Awaits(t, {"NTP"})
      BY <1>1, <1>4 DEF NtpDone, Awaits
    <2>2. clock' \in {clock, "ntp"} /\ weather_data' = weather_data
      BY <1>2, <1>4, <2>1 DEF NtpDone, CleanOK
    <2> QED BY <2>2, <1>1 DEF OneCity, ClockFromNtp
  <1>5. CASE LinkDone(t) \/ JoinDone(t) \/ ModeDone(t) \/ SendDone(t) \/ CloseDone(t)
    <2>1. clock' = clock /\ weather_data' = weather_data
      BY <1>5 DEF LinkDone, JoinDone, ModeDone, SendDone, CloseDone, dataVars
    <2> QED BY <2>1, <1>1 DEF OneCity, ClockFromNtp
  <1> QED BY <1>3, <1>4, <1>5 DEF Wake

LEMMA NextData ==
  ASSUME CleanOK, StationInv, Next
  PROVE  OneCity' /\ ClockFromNtp'
  <1>1. OneCity /\ ClockFromNtp
    BY DEF CleanOK
  <1>2. CASE UNCHANGED <<weather_data, clock, g_city>>
    BY <1>1, <1>2 DEF OneCity, ClockFromNtp
  <1>3. CASE Alive(Receive \/ HmiDone \/ GetWeather \/ UpdateHMI \/ Update \/ WifiPassword)
    BY <1>2, <1>3
       DEF Alive, Receive, HmiDone, GetWeather, GwTake, GwFetched, GwDelayOver, UpdateHMI,
           Update, WifiPassword, Command, hmiVars, dataVars
  <1>4. CASE Place
    BY <1>1, <1>4 DEF Place, Command, OneCity, ClockFromNtp
  <1>5. ASSUME NEW t \in Threads, Alive(Run(t))
        PROVE  OneCity' /\ ClockFromNtp'
    BY <1>2, <1>5, WakeClean DEF Alive, Run, Send, Reset, hmiVars, dataVars
  <1>6. CASE GetNTPSoftTimer_CallBack
    BY <1>2, <1>6 DEF GetNTPSoftTimer_CallBack, hmiVars, dataVars
  <1>7. CASE WatchdogRestart
    BY <1>1, <1>7 DEF WatchdogRestart, OneCity, ClockFromNtp
  <1> QED BY <1>3, <1>4, <1>5, <1>6, <1>7 DEF Next, Alive, Screen

LEMMA NextNotCrossed ==
  ASSUME NotCrossedOK, StationInv, [HistoryNext]_mcVars
  PROVE  NotCrossedOK'
  <1> SUFFICES ASSUME ~crossed' PROVE CleanOK'
    BY DEF NotCrossedOK
  <1>1. CASE UNCHANGED mcVars
    BY <1>1 DEF mcVars, vars, espVars, threadVars, gwVars, hmiVars, dataVars, NotCrossedOK,
                CleanOK, Foreign, Awaits, Busy, Function, OneCity, ClockFromNtp, Among
  <1>2. CASE HistoryNext
    <2>1. /\ CleanOK /\ Next /\ \A t \in Threads : ~Foreign(t)'
          /\ \A t \in Threads : Awaits(t, Weather) => g_city' = g_city
      BY <1>2 DEF HistoryNext, CrossedNext, NotCrossedOK
    <2>2. RxFromAir /\ \A t \in Threads : BeginsClean(t)
      BY <2>1, RunClean, OthersClean, EmptyRx
         DEF Next, Alive, GetNTPSoftTimer_CallBack, WatchdogRestart, ESP8266_Init
    <2>3. OneCity' /\ ClockFromNtp'
      BY <2>1, NextData
    <2>4. ASSUME NEW t \in Threads, Awaits(t, Weather)', NEW a \in Among(rx)'
          PROVE  a.city \in {"", g_city'}
      <3>1. Awaits(t, Weather) /\ g_city' = g_city
        BY <2>1, <2>2, <2>4 DEF BeginsClean
      <3>2. CASE a \in Among(rx)
        BY <2>1, <3>1, <3>2 DEF CleanOK
      <3>3. CASE a \in Among(air)
        BY <2>1, <3>1, <3>3 DEF CleanOK, Foreign, Among
      <3> QED BY <2>2, <2>4, <3>2, <3>3 DEF RxFromAir
    <2>5. ASSUME NEW t \in Threads, Awaits(t, {"NTP"})', NEW a \in Among(rx)'
          PROVE  a = Answer("ntp")
      <3>1. Awaits(t, {"NTP"})
        BY <2>2, <2>5 DEF BeginsClean
      <3>2. CASE a \in Among(rx)
        BY <2>1, <3>1, <3>2 DEF CleanOK
      <3>3. CASE a \in Among(air)
        BY <2>1, <3>1, <3>3 DEF CleanOK, Foreign, Among
      <3> QED BY <2>2, <2>5, <3>2, <3>3 DEF RxFromAir
    <2>6. \A t \in Threads : /\ ~Foreign(t)'
                             /\ Awaits(t, Weather)' => \A a \in Among(rx)' : a.city \in {"", g_city'}
                             /\ Awaits(t, {"NTP"})' => \A a \in Among(rx)' : a = Answer("ntp")
      BY <2>1, <2>4, <2>5
    <2> QED BY <2>3, <2>6 DEF CleanOK
  <1> QED BY <1>1, <1>2

LEMMA InitMC ==
  MCInit => StationInv /\ FetchedAloneOK /\ NotCrossedOK
  <1>1. MCInit => FetchedAloneOK
    BY AmongNone
       DEF MCInit, Init, EspInit, FetchedAloneOK, AloneOK, OneCity, ClockFromNtp, Busy, Threads
  <1>2. MCInit => NotCrossedOK
    <2> SUFFICES ASSUME MCInit PROVE CleanOK
      BY DEF NotCrossedOK
    <2>1. \A t \in Threads : phase[t] /= "wait"
      BY DEF MCInit, Init
    <2>2. \A t \in Threads : \A F : ~Awaits(t, F)
      BY <2>1 DEF Awaits
    <2> QED BY <2>2 DEF MCInit, Init, CleanOK, Foreign, OneCity, ClockFromNtp
  <1> QED BY <1>1, <1>2, InitInv DEF MCInit

LEMMA MCInvariant ==
  HistorySpec => [](FetchedAloneOK /\ NotCrossedOK)
  <1>1. StationInv /\ [HistoryNext]_mcVars => StationInv'
    BY NextInv DEF HistoryNext, mcVars
  <1>2. StationInv /\ FetchedAloneOK /\ [HistoryNext]_mcVars => FetchedAloneOK'
    BY NextFetchedAlone
  <1>3. StationInv /\ NotCrossedOK /\ [HistoryNext]_mcVars => NotCrossedOK'
    BY NextNotCrossed
  <1> QED BY InitMC, <1>1, <1>2, <1>3, PTL DEF HistorySpec

\* However late answers come, whatever is lost and however the two threads
\* interleave, all parts of the data are about the city on the screen unless an
\* answer about another city was on its way to a thread that waited for its
\* own, or the city was changed while it waited, and both threads had fetched
\* at once or gone on before an answer had come.
THEOREM StationOneCityUnlessCrossed == HistorySpec => []OneCityUnlessCrossed
  <1>1. FetchedAloneOK /\ NotCrossedOK => OneCityUnlessCrossed
    BY DEF FetchedAloneOK, NotCrossedOK, CleanOK, OneCityUnlessCrossed
  <1> QED BY <1>1, MCInvariant, PTL

\* Under the same conditions the clock is set only from the packet of the time
\* server, although GetNtp takes whatever is in the frame buffer for it.
THEOREM StationClockFromNtpUnlessCrossed == HistorySpec => []ClockFromNtpUnlessCrossed
  <1>1. FetchedAloneOK /\ NotCrossedOK => ClockFromNtpUnlessCrossed
    BY DEF FetchedAloneOK, NotCrossedOK, CleanOK, ClockFromNtpUnlessCrossed
  <1> QED BY <1>1, MCInvariant, PTL
=============================================================================
