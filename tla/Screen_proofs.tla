---------------------------- MODULE Screen_proofs ----------------------------
(***************************************************************************)
(* The screen, for every number of commands, versions and seconds: what    *)
(* the threads still have to do is well formed, which bounds the counters  *)
(* and what the serial port holds; and after the draws each line of the    *)
(* page shows data there have been since they began, or was lost.          *)
(***************************************************************************)
EXTENDS MCScreen, FiniteSetTheorems, SequenceTheorems, TLAPS

\* A step without lines.
PlainStep(do, arg) == Step(do, arg, <<>>)
Bare(do) == PlainStep(do, "")
TextStep(l) == Step("text", "", <<l>>)

\* The lines and the steps there are.
Lines == {Line("DeskIcon", "now", 0), Line("DeskTem", "now", 0),
          Line("WindDirTxt", "daily", 0), Line("WifiIcon", "wifi", 0),
          Line("AfterTomorIcon", "daily", 2), Line("AfterTorTemp", "daily", 1),
          Line("AftorWind", "daily", 2), LoadIcon(0), LoadIcon(1)}

PageSteps == {Step("onPage", Desk, IconsOfDesk), Step("onPage", Desk, TextsOfDesk),
              Step("onPage", Desk, WifiIcon), Step("onPage", Daily, IconsOfDaily),
              Step("onPage", Daily, TextsOfDaily)}
CopySteps == {PlainStep("copy", p) : p \in Parts}
TextSteps == {TextStep(l) : l \in Lines}
StoreSteps == {PlainStep("store", p) : p \in {"now", "daily"}}
Plain == {"fetch", "clear", "join", "postGetWea", "postUpdate", "clearBuffer", "end"}
PlainSteps == {Bare(d) : d \in Plain}
Steps == PageSteps \union CopySteps \union TextSteps \union StoreSteps \union PlainSteps

LinesOf(x) == {x.lines[k] : k \in 1 .. Len(x.lines)}

LEMMA PlainIs ==
  ASSUME NEW do, NEW arg
  PROVE  PlainStep(do, arg).do = do /\ PlainStep(do, arg).arg = arg
         /\ PlainStep(do, arg).lines = <<>>
  BY DEF PlainStep, Step

LEMMA BareIs ==
  ASSUME NEW do
  PROVE  Bare(do).do = do /\ Bare(do).lines = <<>> /\ Bare(do) = PlainStep(do, Bare(do).arg)
  <1>1. ASSUME NEW e
        PROVE  /\ PlainStep(do, e).do = do /\ PlainStep(do, e).lines = <<>>
               /\ PlainStep(do, e) = PlainStep(do, PlainStep(do, e).arg)
    BY PlainIs
  <1> QED BY <1>1, Zenon DEF Bare

LEMMA TextIs ==
  ASSUME NEW l
  PROVE  TextStep(l).do = "text" /\ TextStep(l).lines = <<l>>
  BY Zenon DEF TextStep, Step

LEMMA StepIs ==
  ASSUME NEW do, NEW arg, NEW lines
  PROVE  /\ Step(do, arg, lines).do = do /\ Step(do, arg, lines).arg = arg
         /\ Step(do, arg, lines).lines = lines
  BY DEF Step

\* The lines of sequences of none, one and two.
LEMMA NoneOf == {<<>>[k] : k \in 1 .. Len(<<>>)} = {} /\ Len(<<>>) = 0
  OBVIOUS

LEMMA OneOf ==
  ASSUME NEW S, NEW l \in S
  PROVE  Len(<<l>>) = 1 /\ <<l>>[1] = l /\ <<l>> \in Seq(S)
  OBVIOUS

LEMMA TwoOf ==
  ASSUME NEW S, NEW l \in S, NEW m \in S
  PROVE  Len(<<l, m>>) = 2 /\ <<l, m>>[1] = l /\ <<l, m>>[2] = m /\ <<l, m>> \in Seq(S)
  OBVIOUS

LEMMA PlainFacts ==
  ASSUME NEW x \in PlainSteps \union StoreSteps \union CopySteps
  PROVE  /\ x.do \in Plain \union {"store", "copy"} /\ LinesOf(x) = {}
         /\ x.do = "copy" => x.arg \in Parts /\ x = PlainStep("copy", x.arg)
         /\ x.do = "store" => x.arg \in Parts
  <1>1. PICK d, p :
          /\ d \in Plain \union {"store", "copy"}
          /\ x = PlainStep(d, p)
          /\ d \in {"store", "copy"} => p \in Parts
    BY BareIs DEF PlainSteps, StoreSteps, CopySteps, Plain, Parts
  <1>2. x.do = d /\ x.arg = p /\ x.lines = <<>>
    BY <1>1, PlainIs
  <1>3. LinesOf(x) = {}
    BY <1>2, NoneOf DEF LinesOf
  <1> QED BY <1>1, <1>2, <1>3

LEMMA TextFacts ==
  ASSUME NEW x \in TextSteps
  PROVE  x.do = "text" /\ x.lines[1] \in Lines /\ LinesOf(x) = {x.lines[1]}
  <1>1. PICK l \in Lines : x = TextStep(l)
    BY DEF TextSteps
  <1>2. x.do = "text" /\ x.lines = <<l>>
    BY <1>1, TextIs
  <1>3. Len(x.lines) = 1 /\ x.lines[1] = l
    BY <1>2, OneOf
  <1>4. {x.lines[k] : k \in 1 .. 1} = {x.lines[1]}
    OBVIOUS
  <1> QED BY <1>2, <1>3, <1>4 DEF LinesOf

LEMMA LineIs ==
  ASSUME NEW name, NEW part, NEW day
  PROVE  /\ Line(name, part, day).name = name /\ Line(name, part, day).part = part
         /\ Line(name, part, day).day = day
  BY DEF Line

\* A step for a page has one or two lines, about parts of the data.
PageLines == {l \in Lines : l.part \in Parts}

LEMMA PageLinesAre ==
  /\ IconsOfDesk \in Seq(PageLines) /\ Len(IconsOfDesk) = 1
  /\ WifiIcon \in Seq(PageLines) /\ Len(WifiIcon) = 1
  /\ IconsOfDaily \in Seq(PageLines) /\ Len(IconsOfDaily) = 1
  /\ TextsOfDesk \in Seq(PageLines) /\ Len(TextsOfDesk) = 2
  /\ TextsOfDaily \in Seq(PageLines) /\ Len(TextsOfDaily) = 2
  <1>1. /\ Line("DeskIcon", "now", 0) \in PageLines /\ Line("WifiIcon", "wifi", 0) \in PageLines
        /\ Line("AfterTomorIcon", "daily", 2) \in PageLines
        /\ Line("DeskTem", "now", 0) \in PageLines /\ Line("WindDirTxt", "daily", 0) \in PageLines
        /\ Line("AfterTorTemp", "daily", 1) \in PageLines
        /\ Line("AftorWind", "daily", 2) \in PageLines
    BY LineIs DEF PageLines, Lines, Parts
  <1>2. IconsOfDesk \in Seq(PageLines) /\ Len(IconsOfDesk) = 1
    BY <1>1, OneOf DEF IconsOfDesk
  <1>3. WifiIcon \in Seq(PageLines) /\ Len(WifiIcon) = 1
    BY <1>1, OneOf DEF WifiIcon
  <1>4. IconsOfDaily \in Seq(PageLines) /\ Len(IconsOfDaily) = 1
    BY <1>1, OneOf DEF IconsOfDaily
  <1>5. TextsOfDesk \in Seq(PageLines) /\ Len(TextsOfDesk) = 2
    BY <1>1, TwoOf DEF TextsOfDesk
  <1>6. TextsOfDaily \in Seq(PageLines) /\ Len(TextsOfDaily) = 2
    BY <1>1, TwoOf DEF TextsOfDaily
  <1> QED BY <1>2, <1>3, <1>4, <1>5, <1>6

LEMMA PageFacts ==
  ASSUME NEW x \in PageSteps
  PROVE  /\ x.do = "onPage" /\ x.arg \in Pages
         /\ Len(x.lines) \in {1, 2} /\ x.lines \in Seq(PageLines)
         /\ LinesOf(x) \subseteq PageLines
  <1>1. x.do = "onPage" /\ x.arg \in Pages
    BY StepIs DEF PageSteps, Pages
  <1>2. x.lines \in {IconsOfDesk, TextsOfDesk, WifiIcon, IconsOfDaily, TextsOfDaily}
    BY StepIs DEF PageSteps
  <1>3. Len(x.lines) \in {1, 2} /\ x.lines \in Seq(PageLines)
    BY <1>2, PageLinesAre
  <1> QED BY <1>1, <1>3 DEF LinesOf

LEMMA StepKinds ==
  ASSUME NEW x \in Steps
  PROVE  /\ x.do = "text" => x \in TextSteps
         /\ x.do = "onPage" => x \in PageSteps
         /\ x.do \notin {"text", "onPage"} => x \in PlainSteps \union StoreSteps \union CopySteps
  BY PlainFacts, TextFacts, PageFacts DEF Steps, Plain

\* A step has lines only when it writes them or asks for the page of them.
LEMMA StepLines ==
  ASSUME NEW x \in Steps
  PROVE  /\ x.do \notin {"text", "onPage"} => LinesOf(x) = {}
         /\ LinesOf(x) \subseteq Lines
  <1>1. CASE x.do = "text"
    BY <1>1, StepKinds, TextFacts
  <1>2. CASE x.do = "onPage"
    BY <1>2, StepKinds, PageFacts DEF PageLines
  <1>3. CASE x.do \notin {"text", "onPage"}
    BY <1>3, StepKinds, PlainFacts
  <1> QED BY <1>1, <1>2, <1>3
-----------------------------------------------------------------------------
(***************************************************************************)
(* What a thread has still to do: the end of a line follows its text, what *)
(* is counted is done once, and each thread does its own.                  *)
(***************************************************************************)
Paired(s) ==
  \A i \in 1 .. Len(s) :
    /\ s[i].do = "text" => i < Len(s) /\ s[i + 1].do = "end"
    /\ s[i].do = "end" /\ i > 1 => s[i - 1].do = "text"

Counted == {"fetch", "postGetWea", "postUpdate"}
Once(s) ==
  \A i, j \in 1 .. Len(s) : s[i].do = s[j].do /\ s[i].do \in Counted => i = j

Drawing == {"copy", "onPage", "text", "end"}
Kind(t) == CASE t = "GetWeather"   -> {"fetch", "store", "postUpdate"}
             [] t = "UpdateHMI"    -> Drawing \union {"clearBuffer"}
             [] t = "HMIRePrecess" -> Drawing \union (Plain \ {"postUpdate"}) \union {"store"}

Shape(t, s) ==
  /\ \A i \in 1 .. Len(s) : s[i] \in Steps /\ s[i].do \in Kind(t)
  /\ Paired(s) /\ Once(s)

\* The data of a line are copied before, by one of the steps up to it.
Copies(s, i, part) == \E j \in 1 .. i - 1 : s[j] = PlainStep("copy", part)
CopiesFirst(s) ==
  \A i \in 1 .. Len(s) : \A l \in LinesOf(s[i]) :
    l.part \in Parts => Copies(s, i, l.part)

\* Every line of a page is asked for.
LinesOfPage(p) ==
  IF p = Desk THEN {Line("DeskIcon", "now", 0), Line("DeskTem", "now", 0),
                    Line("WindDirTxt", "daily", 0), Line("WifiIcon", "wifi", 0)}
  ELSE {Line("AfterTomorIcon", "daily", 2), Line("AfterTorTemp", "daily", 1),
        Line("AftorWind", "daily", 2)}
Asks(s, p, l) ==
  \E i \in 1 .. Len(s) : l \in LinesOf(s[i]) /\ (s[i].do = "onPage" => s[i].arg = p)
AsksForAll(s) == \A p \in Pages : \A l \in LinesOfPage(p) : Asks(s, p, l)

LEMMA StepsAre ==
  /\ \A p \in Parts : PlainStep("copy", p) \in Steps
  /\ \A p \in {"now", "daily"} : PlainStep("store", p) \in Steps
  /\ \A d \in Plain : Bare(d) \in Steps
  /\ \A l \in Lines : TextStep(l) \in Steps
  /\ Step("onPage", Desk, IconsOfDesk) \in Steps /\ Step("onPage", Desk, TextsOfDesk) \in Steps
  /\ Step("onPage", Desk, WifiIcon) \in Steps /\ Step("onPage", Daily, IconsOfDaily) \in Steps
  /\ Step("onPage", Daily, TextsOfDaily) \in Steps
  BY DEF Steps, PageSteps, CopySteps, TextSteps, StoreSteps, PlainSteps

(***************************************************************************)
(* The programs of the threads, one step after the other: first for steps  *)
(* of any kind, then for those of a program.                               *)
(***************************************************************************)
LEMMA ElevenOf ==
  ASSUME NEW S, NEW a \in S, NEW b \in S, NEW c \in S, NEW d \in S, NEW e \in S,
         NEW f \in S, NEW g \in S, NEW h \in S, NEW i \in S, NEW j \in S, NEW k \in S
  PROVE  LET s == (<<a>> \o <<b>> \o <<c>> \o <<d>>)
                    \o (<<e>> \o <<f>> \o <<g>> \o <<h>> \o <<i>>) \o (<<j>> \o <<k>>)
         IN  /\ s \in Seq(S) /\ Len(s) = 11
             /\ s[1] = a /\ s[2] = b /\ s[3] = c /\ s[4] = d /\ s[5] = e /\ s[6] = f
             /\ s[7] = g /\ s[8] = h /\ s[9] = i /\ s[10] = j /\ s[11] = k
  OBVIOUS

LEMMA TwelveOf ==
  ASSUME NEW S, NEW a \in S, NEW b \in S, NEW c \in S, NEW d \in S, NEW e \in S,
         NEW f \in S, NEW g \in S, NEW h \in S, NEW i \in S, NEW j \in S, NEW k \in S,
         NEW l \in S
  PROVE  LET s == ((<<a>> \o <<b>> \o <<c>> \o <<d>>)
                     \o (<<e>> \o <<f>> \o <<g>> \o <<h>> \o <<i>>) \o (<<j>> \o <<k>>)) \o <<l>>
         IN  /\ s \in Seq(S) /\ Len(s) = 12
             /\ s[1] = a /\ s[2] = b /\ s[3] = c /\ s[4] = d /\ s[5] = e /\ s[6] = f
             /\ s[7] = g /\ s[8] = h /\ s[9] = i /\ s[10] = j /\ s[11] = k /\ s[12] = l
  OBVIOUS

LEMMA EightOf ==
  ASSUME NEW S, NEW a \in S, NEW b \in S, NEW c \in S, NEW d \in S, NEW e \in S,
         NEW f \in S, NEW g \in S, NEW h \in S
  PROVE  LET s == (<<a, b>> \o (<<c>> \o <<d>> \o <<e>>) \o <<f, g>>) \o <<h>>
         IN  /\ s \in Seq(S) /\ Len(s) = 8
             /\ s[1] = a /\ s[2] = b /\ s[3] = c /\ s[4] = d /\ s[5] = e
             /\ s[6] = f /\ s[7] = g /\ s[8] = h
  OBVIOUS

LEMMA NineOf ==
  ASSUME NEW S, NEW z \in S, NEW a \in S, NEW b \in S, NEW c \in S, NEW d \in S, NEW e \in S,
         NEW f \in S, NEW g \in S, NEW h \in S
  PROVE  LET s == (<<z>> \o <<a, b>> \o (<<c>> \o <<d>> \o <<e>>) \o <<f, g>>) \o <<h>>
         IN  /\ s \in Seq(S) /\ Len(s) = 9
             /\ s[1] = z /\ s[2] = a /\ s[3] = b /\ s[4] = c /\ s[5] = d /\ s[6] = e
             /\ s[7] = f /\ s[8] = g /\ s[9] = h
  OBVIOUS

LEMMA WifiFiveOf ==
  ASSUME NEW S, NEW a \in S, NEW b \in S, NEW c \in S, NEW d \in S, NEW e \in S
  PROVE  LET s == (<<a>> \o (<<b>> \o <<c>>) \o <<d>>) \o <<e>>
         IN  /\ s \in Seq(S) /\ Len(s) = 5
             /\ s[1] = a /\ s[2] = b /\ s[3] = c /\ s[4] = d /\ s[5] = e
  OBVIOUS

LEMMA WeatherFourOf ==
  ASSUME NEW S, NEW a \in S, NEW b \in S, NEW c \in S, NEW d \in S
  PROVE  LET s == (<<a>> \o <<b>> \o <<c>>) \o <<d>>
         IN  /\ s \in Seq(S) /\ Len(s) = 4
             /\ s[1] = a /\ s[2] = b /\ s[3] = c /\ s[4] = d
  OBVIOUS

LEMMA TwiceTwo ==
  ASSUME NEW S, NEW a \in S, NEW b \in S, NEW c \in S, NEW d \in S
  PROVE  LET s == <<a, b>> \o <<c, d>>
         IN  /\ s \in Seq(S) /\ Len(s) = 4
             /\ s[1] = a /\ s[2] = b /\ s[3] = c /\ s[4] = d
  OBVIOUS

\* The first eleven steps of s are those of a draw.
BeginsDraw(s) ==
  /\ s[1] = PlainStep("copy", "now") /\ s[2] = PlainStep("copy", "daily")
  /\ s[3] = Step("onPage", Desk, IconsOfDesk) /\ s[4] = Step("onPage", Daily, IconsOfDaily)
  /\ s[5] = PlainStep("copy", "now") /\ s[6] = PlainStep("copy", "daily")
  /\ s[7] = Step("onPage", Desk, TextsOfDesk) /\ s[8] = Step("onPage", Daily, TextsOfDaily)
  /\ s[9] = Bare("clearBuffer") /\ s[10] = PlainStep("copy", "wifi")
  /\ s[11] = Step("onPage", Desk, WifiIcon)

LEMMA DrawIs ==
  /\ Draw \in Seq(Steps) /\ Len(Draw) = 11 /\ BeginsDraw(Draw)
  /\ LET s == Draw \o Do("clearBuffer")
     IN  /\ s \in Seq(Steps) /\ Len(s) = 12 /\ BeginsDraw(s)
         /\ s[12] = Bare("clearBuffer")
  <1> DEFINE n == PlainStep("copy", "now")
             d == PlainStep("copy", "daily")
             w == PlainStep("copy", "wifi")
             di == Step("onPage", Desk, IconsOfDesk)
             yi == Step("onPage", Daily, IconsOfDaily)
             dt == Step("onPage", Desk, TextsOfDesk)
             yt == Step("onPage", Daily, TextsOfDaily)
             wi == Step("onPage", Desk, WifiIcon)
             c == Bare("clearBuffer")
             s == (<<n>> \o <<d>> \o <<di>> \o <<yi>>)
                    \o (<<n>> \o <<d>> \o <<dt>> \o <<yt>> \o <<c>>) \o (<<w>> \o <<wi>>)
  <1>1. /\ n \in Steps /\ d \in Steps /\ w \in Steps /\ di \in Steps /\ yi \in Steps
        /\ dt \in Steps /\ yt \in Steps /\ wi \in Steps /\ c \in Steps
    BY StepsAre DEF Parts, Plain
  <1>2. Draw = s /\ Do("clearBuffer") = <<c>>
    BY DEF Draw, DisplayWeatherIcon, Task_SendHMI_WeaData, DisplayWifiIcon, Copy, On, Do, PlainStep, Bare
  <1>3. BeginsDraw(Draw) <=>
          /\ Draw[1] = n /\ Draw[2] = d /\ Draw[3] = di /\ Draw[4] = yi /\ Draw[5] = n
          /\ Draw[6] = d /\ Draw[7] = dt /\ Draw[8] = yt /\ Draw[9] = c /\ Draw[10] = w
          /\ Draw[11] = wi
    BY DEF BeginsDraw
  <1>4. LET r == Draw \o Do("clearBuffer")
        IN  BeginsDraw(r) <=>
              /\ r[1] = n /\ r[2] = d /\ r[3] = di /\ r[4] = yi /\ r[5] = n
              /\ r[6] = d /\ r[7] = dt /\ r[8] = yt /\ r[9] = c /\ r[10] = w
              /\ r[11] = wi
    BY DEF BeginsDraw
  <1> HIDE DEF n, d, w, di, yi, dt, yt, wi, c
  <1>5. /\ s \in Seq(Steps) /\ Len(s) = 11
        /\ s[1] = n /\ s[2] = d /\ s[3] = di /\ s[4] = yi /\ s[5] = n /\ s[6] = d
        /\ s[7] = dt /\ s[8] = yt /\ s[9] = c /\ s[10] = w /\ s[11] = wi
    BY <1>1, ElevenOf
  <1>6. LET r == s \o <<c>>
        IN  /\ r \in Seq(Steps) /\ Len(r) = 12
            /\ r[1] = n /\ r[2] = d /\ r[3] = di /\ r[4] = yi /\ r[5] = n /\ r[6] = d
            /\ r[7] = dt /\ r[8] = yt /\ r[9] = c /\ r[10] = w /\ r[11] = wi /\ r[12] = c
    BY <1>1, TwelveOf
  <1> HIDE DEF s
  <1>7. Draw \in Seq(Steps) /\ Len(Draw) = 11 /\ BeginsDraw(Draw)
    BY <1>2, <1>3, <1>5
  <1>8. LET r == Draw \o Do("clearBuffer")
        IN  r \in Seq(Steps) /\ Len(r) = 12 /\ BeginsDraw(r) /\ r[12] = c
    BY <1>2, <1>4, <1>6
  <1> QED BY <1>7, <1>8 DEF c

LEMMA LinesOfPages ==
  /\ LinesOf(Step("onPage", Desk, IconsOfDesk)) = {Line("DeskIcon", "now", 0)}
  /\ LinesOf(Step("onPage", Desk, TextsOfDesk)) =
       {Line("DeskTem", "now", 0), Line("WindDirTxt", "daily", 0)}
  /\ LinesOf(Step("onPage", Desk, WifiIcon)) = {Line("WifiIcon", "wifi", 0)}
  /\ LinesOf(Step("onPage", Daily, IconsOfDaily)) = {Line("AfterTomorIcon", "daily", 2)}
  /\ LinesOf(Step("onPage", Daily, TextsOfDaily)) =
       {Line("AfterTorTemp", "daily", 1), Line("AftorWind", "daily", 2)}
  <1>1. \A l : {<<l>>[k] : k \in 1 .. Len(<<l>>)} = {l}
    OBVIOUS
  <1>2. \A l, m : {<<l, m>>[k] : k \in 1 .. Len(<<l, m>>)} = {l, m}
    OBVIOUS
  <1>3. \A p, ls : LinesOf(Step("onPage", p, ls)) = {ls[k] : k \in 1 .. Len(ls)}
    BY StepIs DEF LinesOf
  <1>4. LinesOf(Step("onPage", Desk, IconsOfDesk)) = {Line("DeskIcon", "now", 0)}
    BY <1>1, <1>3 DEF IconsOfDesk
  <1>5. LinesOf(Step("onPage", Desk, TextsOfDesk)) =
          {Line("DeskTem", "now", 0), Line("WindDirTxt", "daily", 0)}
    BY <1>2, <1>3 DEF TextsOfDesk
  <1>6. LinesOf(Step("onPage", Desk, WifiIcon)) = {Line("WifiIcon", "wifi", 0)}
    BY <1>1, <1>3 DEF WifiIcon
  <1>7. LinesOf(Step("onPage", Daily, IconsOfDaily)) = {Line("AfterTomorIcon", "daily", 2)}
    BY <1>1, <1>3 DEF IconsOfDaily
  <1>8. LinesOf(Step("onPage", Daily, TextsOfDaily)) =
          {Line("AfterTorTemp", "daily", 1), Line("AftorWind", "daily", 2)}
    BY <1>2, <1>3 DEF TextsOfDaily
  <1> QED BY <1>4, <1>5, <1>6, <1>7, <1>8

\* A draw copies the data of every line before it, and asks for every line.
LEMMA DrawGood ==
  ASSUME NEW s, NEW n \in {11, 12}, n = Len(s), \A i \in 1 .. n : s[i] \in Steps,
         BeginsDraw(s), n = 12 => s[12] = Bare("clearBuffer"), NEW t \in Drawers
  PROVE  /\ Shape(t, s) /\ CopiesFirst(s) /\ AsksForAll(s) /\ s[1].do = "copy"
         /\ \A i \in 1 .. Len(s) : s[i].do \notin Counted
  <1>1. /\ s[1].do = "copy" /\ s[2].do = "copy" /\ s[3].do = "onPage" /\ s[4].do = "onPage"
        /\ s[5].do = "copy" /\ s[6].do = "copy" /\ s[7].do = "onPage" /\ s[8].do = "onPage"
        /\ s[9].do = "clearBuffer" /\ s[10].do = "copy" /\ s[11].do = "onPage"
        /\ n = 12 => s[12].do = "clearBuffer"
    BY StepIs, PlainIs, BareIs DEF BeginsDraw
  <1>0. \A i \in 1 .. Len(s) :
          i \in {1, 2, 3, 4, 5, 6, 7, 8, 9, 10, 11, 12} /\ (i = 12 => n = 12)
    OBVIOUS
  <1>2. \A i \in 1 .. Len(s) :
          /\ s[i].do \in {"copy", "onPage", "clearBuffer"}
          /\ s[i].do = "onPage" => i \in {3, 4, 7, 8, 11}
    BY <1>0, <1>1
  <1>3. Shape(t, s)
    <2>1. \A i \in 1 .. Len(s) : s[i] \in Steps /\ s[i].do \in Kind(t)
      BY <1>2 DEF Kind, Drawing, Plain, Drawers
    <2>2. Paired(s) /\ Once(s)
      BY <1>2 DEF Paired, Once, Counted
    <2> QED BY <2>1, <2>2 DEF Shape
  <1>4. /\ LinesOf(s[3]) = {Line("DeskIcon", "now", 0)}
        /\ LinesOf(s[4]) = {Line("AfterTomorIcon", "daily", 2)}
        /\ LinesOf(s[7]) = {Line("DeskTem", "now", 0), Line("WindDirTxt", "daily", 0)}
        /\ LinesOf(s[8]) = {Line("AfterTorTemp", "daily", 1), Line("AftorWind", "daily", 2)}
        /\ LinesOf(s[11]) = {Line("WifiIcon", "wifi", 0)}
    BY LinesOfPages DEF BeginsDraw
  <1>5. \A i \in 1 .. Len(s) : s[i].do /= "onPage" => LinesOf(s[i]) = {}
    BY <1>2, StepLines
  <1>6. CopiesFirst(s)
    <2> SUFFICES ASSUME NEW i \in 1 .. Len(s), NEW l \in LinesOf(s[i]), l.part \in Parts
                 PROVE  Copies(s, i, l.part)
      BY DEF CopiesFirst
    <2>1. i \in {3, 4, 7, 8, 11}
      BY <1>2, <1>5
    <2>2. l.part \in {"now", "daily", "wifi"} /\ (l.part = "wifi" => i = 11)
      <3>1. \A m \in LinesOf(s[3]) : m.part = "now"
        BY <1>4, LineIs
      <3>2. \A m \in LinesOf(s[4]) : m.part = "daily"
        BY <1>4, LineIs
      <3>3. \A m \in LinesOf(s[7]) : m.part \in {"now", "daily"}
        BY <1>4, LineIs
      <3>4. \A m \in LinesOf(s[8]) : m.part = "daily"
        BY <1>4, LineIs
      <3>5. \A m \in LinesOf(s[11]) : m.part = "wifi"
        BY <1>4, LineIs
      <3> QED BY <2>1, <3>1, <3>2, <3>3, <3>4, <3>5
    <2>3. 1 \in 1 .. i - 1 /\ 2 \in 1 .. i - 1 /\ (i = 11 => 10 \in 1 .. i - 1)
      BY <2>1
    <2>4. CASE l.part = "now"
      BY <2>3, <2>4 DEF BeginsDraw, Copies
    <2>5. CASE l.part = "daily"
      BY <2>3, <2>5 DEF BeginsDraw, Copies
    <2>6. CASE l.part = "wifi"
      BY <2>2, <2>3, <2>6 DEF BeginsDraw, Copies
    <2> QED BY <2>2, <2>4, <2>5, <2>6
  <1>7. AsksForAll(s)
    <2>1. /\ s[3].arg = Desk /\ s[4].arg = Daily /\ s[7].arg = Desk /\ s[8].arg = Daily
          /\ s[11].arg = Desk
      BY StepIs, PlainIs, BareIs DEF BeginsDraw
    <2>2. 3 \in 1 .. Len(s) /\ 4 \in 1 .. Len(s) /\ 7 \in 1 .. Len(s) /\ 8 \in 1 .. Len(s)
          /\ 11 \in 1 .. Len(s)
      OBVIOUS
    <2>3. ASSUME NEW l \in LinesOfPage(Desk) PROVE Asks(s, Desk, l)
      <3>1. l \in LinesOf(s[3]) \/ l \in LinesOf(s[7]) \/ l \in LinesOf(s[11])
        BY <1>4, <2>3 DEF LinesOfPage
      <3> QED BY <2>1, <2>2, <3>1 DEF Asks
    <2>4. ASSUME NEW l \in LinesOfPage(Daily) PROVE Asks(s, Daily, l)
      <3>1. l \in LinesOf(s[4]) \/ l \in LinesOf(s[8])
        BY <1>4, <2>4 DEF LinesOfPage, Desk, Daily
      <3> QED BY <2>1, <2>2, <3>1 DEF Asks
    <2> QED BY <2>3, <2>4 DEF AsksForAll, Pages
  <1>8. \A i \in 1 .. Len(s) : s[i].do \notin Counted
    BY <1>2 DEF Counted
  <1> QED BY <1>1, <1>3, <1>6, <1>7, <1>8

\* The other programs: shorter, and each line of them about what has been copied.
Short(t, s) == s \in Seq(Steps) /\ Len(s) < 11 /\ Shape(t, s) /\ CopiesFirst(s)

\* No line is about the data in a program that only writes the LoadIcon.
LEMMA NothingCopied ==
  ASSUME NEW s, \A i \in 1 .. Len(s) : s[i] \in Steps /\ s[i].do /= "onPage",
         \A i \in 1 .. Len(s) : s[i].do = "text" => s[i].lines[1].part \notin Parts
  PROVE  CopiesFirst(s)
  <1> SUFFICES ASSUME NEW i \in 1 .. Len(s), NEW l \in LinesOf(s[i]), l.part \in Parts
               PROVE  Copies(s, i, l.part)
    BY DEF CopiesFirst
  <1>1. s[i].do = "text"
    BY StepLines
  <1>2. l = s[i].lines[1]
    BY <1>1, StepKinds, TextFacts
  <1> QED BY <1>1, <1>2

LEMMA WeatherProgram ==
  LET s == Refresh \o Do("postUpdate")
  IN  Short("GetWeather", s) /\ s[1].do = "fetch"
  <1> DEFINE a == Bare("fetch")
             b == PlainStep("store", "now")
             c == PlainStep("store", "daily")
             d == Bare("postUpdate")
             s == (<<a>> \o <<b>> \o <<c>>) \o <<d>>
  <1>1. a \in Steps /\ b \in Steps /\ c \in Steps /\ d \in Steps
    BY StepsAre DEF Plain
  <1>2. a.do = "fetch" /\ b.do = "store" /\ c.do = "store" /\ d.do = "postUpdate"
    BY PlainIs, BareIs
  <1>3. Refresh \o Do("postUpdate") = s
    BY DEF Refresh, Do, Store, Bare, PlainStep
  <1> HIDE DEF a, b, c, d
  <1>4. s \in Seq(Steps) /\ Len(s) = 4 /\ s[1] = a /\ s[2] = b /\ s[3] = c /\ s[4] = d
    BY <1>1, WeatherFourOf
  <1> HIDE DEF s
  <1>5. \A i \in 1 .. Len(s) : i \in {1, 2, 3, 4}
    BY <1>4
  <1>6. \A i \in 1 .. Len(s) : s[i] \in Steps /\ s[i].do \in {"fetch", "store", "postUpdate"}
    BY <1>1, <1>2, <1>4, <1>5
  <1>7. Paired(s)
    BY <1>6 DEF Paired
  <1>8. Once(s)
    BY <1>2, <1>4, <1>5 DEF Once, Counted
  <1>9. CopiesFirst(s)
    BY <1>6, NothingCopied
  <1>10. Shape("GetWeather", s)
    BY <1>6, <1>7, <1>8 DEF Shape, Kind
  <1>11. Short("GetWeather", s) /\ s[1].do = "fetch"
    BY <1>2, <1>4, <1>9, <1>10 DEF Short
  <1> QED BY <1>3, <1>11

LEMMA LoadIconIs ==
  ASSUME NEW sign \in {0, 1}
  PROVE  /\ TextStep(LoadIcon(sign)) \in Steps
         /\ TextStep(LoadIcon(sign)).lines[1].part \notin Parts
         /\ DisplayLoadIcon(sign) = <<TextStep(LoadIcon(sign)), Bare("end")>>
  <1>1. LoadIcon(sign) \in Lines /\ LoadIcon(sign).part = "load"
    BY LineIs DEF Lines, LoadIcon
  <1>2. TextStep(LoadIcon(sign)).lines[1] = LoadIcon(sign)
    BY TextIs
  <1>3. TextStep(LoadIcon(sign)) \in Steps
    BY <1>1, StepsAre
  <1>4. DisplayLoadIcon(sign) = <<TextStep(LoadIcon(sign)), Bare("end")>>
    BY DEF DisplayLoadIcon, Write, TextStep, Bare, PlainStep
  <1> QED BY <1>1, <1>2, <1>3, <1>4 DEF Parts

LEMMA UpdateProgram ==
  LET s == DisplayLoadIcon(1) \o Refresh \o DisplayLoadIcon(0) \o Do("clearBuffer")
  IN  Short("HMIRePrecess", s) /\ s[1].do = "text"
  <1> DEFINE a == TextStep(LoadIcon(1))
             b == Bare("end")
             c == Bare("fetch")
             d == PlainStep("store", "now")
             e == PlainStep("store", "daily")
             f == TextStep(LoadIcon(0))
             h == Bare("clearBuffer")
             s == (<<a, b>> \o (<<c>> \o <<d>> \o <<e>>) \o <<f, b>>) \o <<h>>
  <1>1. /\ a \in Steps /\ b \in Steps /\ c \in Steps /\ d \in Steps /\ e \in Steps
        /\ f \in Steps /\ h \in Steps
    BY StepsAre, LoadIconIs DEF Plain
  <1>2. /\ a.do = "text" /\ b.do = "end" /\ c.do = "fetch" /\ d.do = "store" /\ e.do = "store"
        /\ f.do = "text" /\ h.do = "clearBuffer"
        /\ a.lines[1].part \notin Parts /\ f.lines[1].part \notin Parts
    BY PlainIs, BareIs, TextIs, LoadIconIs
  <1>3. DisplayLoadIcon(1) \o Refresh \o DisplayLoadIcon(0) \o Do("clearBuffer") = s
    <2>1. DisplayLoadIcon(1) = <<a, b>> /\ DisplayLoadIcon(0) = <<f, b>>
      BY LoadIconIs
    <2>2. Refresh = <<c>> \o <<d>> \o <<e>> /\ Do("clearBuffer") = <<h>>
      BY DEF Refresh, Do, Store, Bare, PlainStep
    <2> QED BY <2>1, <2>2
  <1> HIDE DEF a, b, c, d, e, f, h
  <1>4. /\ s \in Seq(Steps) /\ Len(s) = 8 /\ s[1] = a /\ s[2] = b /\ s[3] = c /\ s[4] = d
        /\ s[5] = e /\ s[6] = f /\ s[7] = b /\ s[8] = h
    BY <1>1, EightOf
  <1> HIDE DEF s
  <1>5. \A i \in 1 .. Len(s) : i \in {1, 2, 3, 4, 5, 6, 7, 8}
    BY <1>4
  <1>6. \A i \in 1 .. Len(s) :
          s[i] \in Steps /\ s[i].do \in {"text", "end", "fetch", "store", "clearBuffer"}
    BY <1>1, <1>2, <1>4, <1>5
  <1>7. Paired(s)
    <2> SUFFICES ASSUME NEW i \in 1 .. Len(s)
                 PROVE  /\ s[i].do = "text" => i < Len(s) /\ s[i + 1].do = "end"
                        /\ s[i].do = "end" /\ i > 1 => s[i - 1].do = "text"
      BY DEF Paired
    <2>1. s[i].do = "text" => i \in {1, 6}
      BY <1>2, <1>4, <1>5
    <2>2. s[i].do = "end" => i \in {2, 7}
      BY <1>2, <1>4, <1>5
    <2> QED BY <1>2, <1>4, <2>1, <2>2
  <1>8. Once(s)
    <2>1. \A i \in 1 .. Len(s) : s[i].do \in Counted => i = 3
      BY <1>2, <1>4, <1>5 DEF Counted
    <2> QED BY <2>1 DEF Once
  <1>9. CopiesFirst(s)
    <2>1. \A i \in 1 .. Len(s) : s[i].do = "text" => s[i].lines[1].part \notin Parts
      BY <1>2, <1>4, <1>5
    <2> QED BY <1>6, <2>1, NothingCopied
  <1>10. Shape("HMIRePrecess", s)
    BY <1>6, <1>7, <1>8 DEF Shape, Kind, Plain, Drawing
  <1>11. Short("HMIRePrecess", s) /\ s[1].do = "text"
    BY <1>2, <1>4, <1>9, <1>10 DEF Short
  <1> QED BY <1>3, <1>11

LEMMA PlaceProgram ==
  LET s == (Do("clear") \o DisplayLoadIcon(1) \o Refresh \o DisplayLoadIcon(0))
             \o Do("clearBuffer")
  IN  Short("HMIRePrecess", s) /\ s[1].do = "clear"
  <1> DEFINE z == Bare("clear")
             a == TextStep(LoadIcon(1))
             b == Bare("end")
             c == Bare("fetch")
             d == PlainStep("store", "now")
             e == PlainStep("store", "daily")
             f == TextStep(LoadIcon(0))
             h == Bare("clearBuffer")
             s == (<<z>> \o <<a, b>> \o (<<c>> \o <<d>> \o <<e>>) \o <<f, b>>) \o <<h>>
  <1>1. /\ z \in Steps /\ a \in Steps /\ b \in Steps /\ c \in Steps /\ d \in Steps /\ e \in Steps
        /\ f \in Steps /\ h \in Steps
    BY StepsAre, LoadIconIs DEF Plain
  <1>2. /\ z.do = "clear" /\ a.do = "text" /\ b.do = "end" /\ c.do = "fetch"
        /\ d.do = "store" /\ e.do = "store" /\ f.do = "text" /\ h.do = "clearBuffer"
        /\ a.lines[1].part \notin Parts /\ f.lines[1].part \notin Parts
    BY PlainIs, BareIs, TextIs, LoadIconIs
  <1>3. (Do("clear") \o DisplayLoadIcon(1) \o Refresh \o DisplayLoadIcon(0))
          \o Do("clearBuffer") = s
    <2>1. DisplayLoadIcon(1) = <<a, b>> /\ DisplayLoadIcon(0) = <<f, b>>
      BY LoadIconIs
    <2>2. /\ Refresh = <<c>> \o <<d>> \o <<e>>
          /\ Do("clearBuffer") = <<h>> /\ Do("clear") = <<z>>
      BY DEF Refresh, Do, Store, Bare, PlainStep
    <2> QED BY <2>1, <2>2
  <1> HIDE DEF z, a, b, c, d, e, f, h
  <1>4. /\ s \in Seq(Steps) /\ Len(s) = 9 /\ s[1] = z /\ s[2] = a /\ s[3] = b /\ s[4] = c
        /\ s[5] = d /\ s[6] = e /\ s[7] = f /\ s[8] = b /\ s[9] = h
    BY <1>1, NineOf
  <1> HIDE DEF s
  <1>5. \A i \in 1 .. Len(s) : i \in {1, 2, 3, 4, 5, 6, 7, 8, 9}
    BY <1>4
  <1>6. \A i \in 1 .. Len(s) :
          s[i] \in Steps /\ s[i].do \in {"clear", "text", "end", "fetch", "store", "clearBuffer"}
    BY <1>1, <1>2, <1>4, <1>5
  <1>7. Paired(s)
    <2> SUFFICES ASSUME NEW i \in 1 .. Len(s)
                 PROVE  /\ s[i].do = "text" => i < Len(s) /\ s[i + 1].do = "end"
                        /\ s[i].do = "end" /\ i > 1 => s[i - 1].do = "text"
      BY DEF Paired
    <2>1. s[i].do = "text" => i \in {2, 7}
      BY <1>2, <1>4, <1>5
    <2>2. s[i].do = "end" => i \in {3, 8}
      BY <1>2, <1>4, <1>5
    <2> QED BY <1>2, <1>4, <2>1, <2>2
  <1>8. Once(s)
    <2>1. \A i \in 1 .. Len(s) : s[i].do \in Counted => i = 4
      BY <1>2, <1>4, <1>5 DEF Counted
    <2> QED BY <2>1 DEF Once
  <1>9. CopiesFirst(s)
    <2>1. \A i \in 1 .. Len(s) : s[i].do = "text" => s[i].lines[1].part \notin Parts
      BY <1>2, <1>4, <1>5
    <2> QED BY <1>6, <2>1, NothingCopied
  <1>10. Shape("HMIRePrecess", s)
    BY <1>6, <1>7, <1>8 DEF Shape, Kind, Plain, Drawing
  <1>11. Short("HMIRePrecess", s) /\ s[1].do = "clear"
    BY <1>2, <1>4, <1>9, <1>10 DEF Short
  <1> QED BY <1>3, <1>11

LEMMA WifiProgram ==
  LET s == (Do("join") \o DisplayWifiIcon \o Do("postGetWea")) \o Do("clearBuffer")
  IN  /\ Short("HMIRePrecess", s) /\ s[1].do = "join"
      /\ \A i \in 1 .. Len(s) : s[i].do # "fetch"
  <1> DEFINE a == Bare("join")
             b == PlainStep("copy", "wifi")
             c == Step("onPage", Desk, WifiIcon)
             d == Bare("postGetWea")
             e == Bare("clearBuffer")
             s == (<<a>> \o (<<b>> \o <<c>>) \o <<d>>) \o <<e>>
  <1>1. a \in Steps /\ b \in Steps /\ c \in Steps /\ d \in Steps /\ e \in Steps
    BY StepsAre DEF Plain, Parts
  <1>2. /\ a.do = "join" /\ b.do = "copy" /\ c.do = "onPage" /\ d.do = "postGetWea"
        /\ e.do = "clearBuffer"
    BY PlainIs, BareIs, StepIs
  <1>3. LinesOf(c) = {Line("WifiIcon", "wifi", 0)} /\ b = PlainStep("copy", "wifi")
    BY LinesOfPages
  <1>4. (Do("join") \o DisplayWifiIcon \o Do("postGetWea")) \o Do("clearBuffer") = s
    BY DEF DisplayWifiIcon, Copy, On, Do, Bare, PlainStep
  <1> HIDE DEF a, b, c, d, e
  <1>5. /\ s \in Seq(Steps) /\ Len(s) = 5
        /\ s[1] = a /\ s[2] = b /\ s[3] = c /\ s[4] = d /\ s[5] = e
    BY <1>1, WifiFiveOf
  <1> HIDE DEF s
  <1>6. \A i \in 1 .. Len(s) : i \in {1, 2, 3, 4, 5}
    BY <1>5
  <1>7. \A i \in 1 .. Len(s) :
          s[i] \in Steps /\ s[i].do \in {"join", "copy", "onPage", "postGetWea", "clearBuffer"}
    BY <1>1, <1>2, <1>5, <1>6
  <1>8. Paired(s)
    BY <1>7 DEF Paired
  <1>9. Once(s)
    <2>1. \A i \in 1 .. Len(s) : s[i].do \in Counted => i = 4
      BY <1>2, <1>5, <1>6 DEF Counted
    <2> QED BY <2>1 DEF Once
  <1>10. CopiesFirst(s)
    <2> SUFFICES ASSUME NEW i \in 1 .. Len(s), NEW l \in LinesOf(s[i]), l.part \in Parts
                 PROVE  Copies(s, i, l.part)
      BY DEF CopiesFirst
    <2>1. s[i].do = "onPage"
      BY <1>7, StepLines
    <2>2. i = 3
      BY <1>2, <1>5, <1>6, <2>1
    <2>3. l.part = "wifi"
      BY <1>3, <1>5, <2>2, LineIs
    <2>4. 2 \in 1 .. i - 1 /\ s[2] = PlainStep("copy", l.part)
      BY <1>3, <1>5, <2>2, <2>3
    <2> QED BY <2>4 DEF Copies
  <1>11. Shape("HMIRePrecess", s)
    BY <1>7, <1>8, <1>9 DEF Shape, Kind, Plain, Drawing
  <1>12. /\ Short("HMIRePrecess", s) /\ s[1].do = "join"
         /\ \A i \in 1 .. Len(s) : s[i].do # "fetch"
    BY <1>2, <1>5, <1>7, <1>10, <1>11 DEF Short
  <1> QED BY <1>4, <1>12

\* The writes of the one or two lines of a page.
LEMMA FlattenOne ==
  ASSUME NEW s, Len(s) = 1
  PROVE  FlattenSeq(s) = s[1]
  <1> DEFINE F(f) == [i \in 1 .. 1 |-> IF i = 1 THEN s[i] ELSE f[i - 1] \o s[i]]
             f == CHOOSE g : g = F(g)
  <1>1. FlattenSeq(s) = f[1]
    BY DEF FlattenSeq
  <1>2. \E g : g = F(g)
    <2> DEFINE g == [i \in 1 .. 1 |-> s[1]]
    <2>1. g = F(g)
      OBVIOUS
    <2> QED BY <2>1
  <1>3. f = F(f)
    BY <1>2
  <1> HIDE DEF f
  <1>4. f[1] = s[1]
    BY <1>3
  <1> QED BY <1>1, <1>4

LEMMA FlattenTwo ==
  ASSUME NEW s, Len(s) = 2
  PROVE  FlattenSeq(s) = s[1] \o s[2]
  <1> DEFINE F(f) == [i \in 1 .. 2 |-> IF i = 1 THEN s[i] ELSE f[i - 1] \o s[i]]
             f == CHOOSE g : g = F(g)
  <1>1. FlattenSeq(s) = f[2]
    BY DEF FlattenSeq
  <1>2. \E g : g = F(g)
    <2> DEFINE g == [i \in 1 .. 2 |-> IF i = 1 THEN s[1] ELSE s[1] \o s[2]]
    <2>1. g = F(g)
      OBVIOUS
    <2> QED BY <2>1
  <1>3. f = F(f)
    BY <1>2
  <1> HIDE DEF f
  <1>4. f[1] = s[1] /\ f[2] = f[1] \o s[2]
    BY <1>3
  <1> QED BY <1>1, <1>4

LEMMA WriteAllIs ==
  ASSUME NEW lines \in Seq(PageLines), Len(lines) \in {1, 2}
  PROVE  LET w == WriteAll(lines)
         IN  /\ w \in Seq(Steps) /\ Len(w) = 2 * Len(lines)
             /\ w[1] = TextStep(lines[1]) /\ w[2] = Bare("end")
             /\ Len(w) = 4 => w[3] = TextStep(lines[2]) /\ w[4] = Bare("end")
  <1> DEFINE s == [i \in DOMAIN lines |-> Write(lines[i])]
             W(l) == <<TextStep(l), Bare("end")>>
  <1>1. WriteAll(lines) = FlattenSeq(s)
    BY DEF WriteAll
  <1>2. \A l : Write(l) = W(l)
    BY DEF Write, TextStep, Bare, PlainStep
  <1>3. Bare("end") \in Steps /\ \A l \in PageLines : TextStep(l) \in Steps
    BY StepsAre DEF Plain, PageLines
  <1>4. CASE Len(lines) = 1
    <2>1. Len(s) = 1 /\ s[1] = Write(lines[1]) /\ lines[1] \in PageLines
      BY <1>4
    <2> HIDE DEF s
    <2>2. WriteAll(lines) = <<TextStep(lines[1]), Bare("end")>>
      BY <1>1, <1>2, <2>1, FlattenOne
    <2>3. TextStep(lines[1]) \in Steps
      BY <1>3, <2>1
    <2> QED BY <1>3, <1>4, <2>2, <2>3, TwoOf
  <1>5. CASE Len(lines) = 2
    <2>1. /\ Len(s) = 2 /\ s[1] = Write(lines[1]) /\ s[2] = Write(lines[2])
          /\ lines[1] \in PageLines /\ lines[2] \in PageLines
      BY <1>5
    <2> HIDE DEF s
    <2>2. WriteAll(lines) = <<TextStep(lines[1]), Bare("end")>> \o <<TextStep(lines[2]), Bare("end")>>
      BY <1>1, <1>2, <2>1, FlattenTwo
    <2>3. TextStep(lines[1]) \in Steps /\ TextStep(lines[2]) \in Steps
      BY <1>3, <2>1
    <2> QED BY <1>3, <1>5, <2>2, <2>3, TwiceTwo
  <1> QED BY <1>4, <1>5
-----------------------------------------------------------------------------
(***************************************************************************)
(* A step of a thread: it drops the first of the steps it had to do, or    *)
(* puts the writes of a page in its place.                                 *)
(***************************************************************************)
Dropped(s, r) ==
  /\ Len(s) \in Nat /\ Len(s) >= 1 /\ Len(r) = Len(s) - 1
  /\ \A i \in 1 .. Len(r) : r[i] = s[i + 1]

\* r begins with the texts and the ends of the lines of the first step of s.
Written(s, r) ==
  LET n == Len(s[1].lines)
  IN  /\ Len(s) \in Nat /\ Len(s) >= 1 /\ n \in {1, 2}
      /\ Len(r) = 2 * n + Len(s) - 1
      /\ r[1] = TextStep(s[1].lines[1]) /\ r[2] = Bare("end")
      /\ n = 2 => r[3] = TextStep(s[1].lines[2]) /\ r[4] = Bare("end")
      /\ \A i \in 2 * n + 1 .. Len(r) : r[i] = s[i + 1 - 2 * n]

LEMMA TailDropped ==
  ASSUME NEW S, NEW s \in Seq(S), s # <<>>
  PROVE  /\ <<>> \o Tail(s) = Tail(s) /\ Tail(s) \in Seq(S) /\ Dropped(s, Tail(s))
         /\ Head(s) = s[1] /\ s[1] \in S
  <1>1. Tail(s) \in Seq(S) /\ <<>> \o Tail(s) = Tail(s)
    BY ConcatEmptySeq
  <1>2. /\ Len(s) \in Nat /\ Len(s) >= 1 /\ Len(Tail(s)) = Len(s) - 1
        /\ \A i \in 1 .. Len(Tail(s)) : Tail(s)[i] = s[i + 1]
    OBVIOUS
  <1> QED BY <1>1, <1>2 DEF Dropped

LEMMA DroppedShape ==
  ASSUME NEW t, NEW s, NEW r, Dropped(s, r), Shape(t, s)
  PROVE  /\ Shape(t, r)
         /\ Len(r) > 0 /\ r[1].do = "end" <=> s[1].do = "text"
         /\ \A i \in 1 .. Len(r) : r[i].do \in Counted => r[i].do # s[1].do
  <1>1. \A i \in 1 .. Len(r) : i + 1 \in 1 .. Len(s) /\ r[i] = s[i + 1]
    BY DEF Dropped
  <1>2. 1 \in 1 .. Len(s) /\ Len(s) \in Nat /\ Len(r) = Len(s) - 1
    BY DEF Dropped
  <1>3. Paired(r)
    <2> SUFFICES ASSUME NEW i \in 1 .. Len(r)
                 PROVE  /\ r[i].do = "text" => i < Len(r) /\ r[i + 1].do = "end"
                        /\ r[i].do = "end" /\ i > 1 => r[i - 1].do = "text"
      BY DEF Paired
    <2>1. ASSUME r[i].do = "text" PROVE i < Len(r) /\ r[i + 1].do = "end"
      <3>1. i + 1 < Len(s) /\ s[i + 2].do = "end"
        BY <1>1, <2>1 DEF Shape, Paired
      <3>2. i + 1 \in 1 .. Len(r)
        BY <1>2, <3>1
      <3> QED BY <1>1, <3>1, <3>2
    <2>2. ASSUME r[i].do = "end", i > 1 PROVE r[i - 1].do = "text"
      <3>1. s[i].do = "text"
        BY <1>1, <2>2 DEF Shape, Paired
      <3>2. i - 1 \in 1 .. Len(r)
        BY <1>2, <2>2
      <3> QED BY <1>1, <3>1, <3>2
    <2> QED BY <2>1, <2>2
  <1>4. Once(r)
    <2> SUFFICES ASSUME NEW i \in 1 .. Len(r), NEW j \in 1 .. Len(r),
                        r[i].do = r[j].do, r[i].do \in Counted
                 PROVE  i = j
      BY DEF Once
    <2>1. i + 1 = j + 1
      BY <1>1 DEF Shape, Once
    <2> QED BY <1>2, <2>1
  <1>5. Shape(t, r)
    BY <1>1, <1>3, <1>4 DEF Shape
  <1>6. Len(r) > 0 /\ r[1].do = "end" <=> s[1].do = "text"
    <2>1. ASSUME s[1].do = "text" PROVE Len(r) > 0 /\ r[1].do = "end"
      <3>1. 1 < Len(s) /\ s[2].do = "end"
        BY <1>2, <2>1 DEF Shape, Paired
      <3> QED BY <1>1, <1>2, <3>1
    <2>2. ASSUME Len(r) > 0, r[1].do = "end" PROVE s[1].do = "text"
      <3>1. 2 \in 1 .. Len(s) /\ s[2].do = "end"
        BY <1>1, <1>2, <2>2
      <3> QED BY <3>1 DEF Shape, Paired
    <2> QED BY <2>1, <2>2
  <1>7. ASSUME NEW i \in 1 .. Len(r), r[i].do \in Counted PROVE r[i].do # s[1].do
    <2>1. s[i + 1].do \in Counted /\ i + 1 \in 1 .. Len(s) /\ i + 1 # 1
      BY <1>1, <1>2, <1>7
    <2> QED BY <1>1, <1>2, <2>1 DEF Shape, Once
  <1> QED BY <1>5, <1>6, <1>7

LEMMA WrittenIs ==
  ASSUME NEW s, NEW r, Written(s, r), s[1] \in PageSteps
  PROVE  LET n == Len(s[1].lines)
         IN  /\ n \in {1, 2} /\ Len(s) \in Nat /\ Len(s) >= 1 /\ Len(r) = 2 * n + Len(s) - 1
             /\ \A k \in 1 .. n : /\ s[1].lines[k] \in PageLines
                                  /\ r[2 * k - 1] = TextStep(s[1].lines[k])
                                  /\ r[2 * k] = Bare("end")
             /\ \A i \in 1 .. Len(r) :
                  \/ \E k \in 1 .. n : i \in {2 * k - 1, 2 * k}
                  \/ i > 2 * n /\ i + 1 - 2 * n \in 2 .. Len(s) /\ r[i] = s[i + 1 - 2 * n]
  <1> DEFINE n == Len(s[1].lines)
  <1>1. n \in {1, 2} /\ \A k \in 1 .. n : s[1].lines[k] \in PageLines
    <2>1. n \in {1, 2} /\ s[1].lines \in Seq(PageLines)
      BY PageFacts
    <2> QED BY <2>1, ElementOfSeq
  <1>2. /\ Len(s) \in Nat /\ Len(s) >= 1 /\ Len(r) = 2 * n + Len(s) - 1
        /\ r[1] = TextStep(s[1].lines[1]) /\ r[2] = Bare("end")
        /\ n = 2 => r[3] = TextStep(s[1].lines[2]) /\ r[4] = Bare("end")
        /\ \A i \in 2 * n + 1 .. Len(r) : r[i] = s[i + 1 - 2 * n]
    BY DEF Written
  <1> HIDE DEF n
  <1>3. ASSUME NEW k \in 1 .. n
        PROVE  r[2 * k - 1] = TextStep(s[1].lines[k]) /\ r[2 * k] = Bare("end")
    <2>1. k = 1 \/ (k = 2 /\ n = 2)
      BY <1>1
    <2> QED BY <1>2, <2>1
  <1>4. ASSUME NEW i \in 1 .. Len(r)
        PROVE  \/ \E k \in 1 .. n : i \in {2 * k - 1, 2 * k}
               \/ i > 2 * n /\ i + 1 - 2 * n \in 2 .. Len(s) /\ r[i] = s[i + 1 - 2 * n]
    <2>1. CASE i > 2 * n
      <3>1. i \in 2 * n + 1 .. Len(r) /\ i + 1 - 2 * n \in 2 .. Len(s)
        BY <1>1, <1>2, <2>1
      <3> QED BY <1>2, <2>1, <3>1
    <2>2. CASE ~(i > 2 * n)
      <3>1. i \in {1, 2} \/ (i \in {3, 4} /\ n = 2)
        BY <1>1, <2>2
      <3>2. 1 \in 1 .. n /\ (n = 2 => 2 \in 1 .. n)
        BY <1>1
      <3>3. i \in {2 * 1 - 1, 2 * 1} \/ (i \in {2 * 2 - 1, 2 * 2} /\ n = 2)
        BY <3>1
      <3> QED BY <3>2, <3>3
    <2> QED BY <2>1, <2>2
  <1> QED BY <1>1, <1>2, <1>3, <1>4 DEF n

LEMMA WrittenShape ==
  ASSUME NEW t, t \in Drawers, NEW s, NEW r, Written(s, r), Shape(t, s), s[1] \in PageSteps
  PROVE  /\ Shape(t, r)
         /\ ~(Len(r) > 0 /\ r[1].do = "end")
         /\ \A i \in 1 .. Len(r) : r[i].do \in Counted => \E j \in 2 .. Len(s) : r[i] = s[j]
  <1> DEFINE n == Len(s[1].lines)
             Early(i) == \E k \in 1 .. n : i \in {2 * k - 1, 2 * k}
             Late(i) == i > 2 * n /\ i + 1 - 2 * n \in 2 .. Len(s) /\ r[i] = s[i + 1 - 2 * n]
  <1>1. /\ n \in {1, 2} /\ Len(s) \in Nat /\ Len(s) >= 1 /\ Len(r) = 2 * n + Len(s) - 1
        /\ \A k \in 1 .. n : /\ s[1].lines[k] \in PageLines
                             /\ r[2 * k - 1] = TextStep(s[1].lines[k])
                             /\ r[2 * k] = Bare("end")
        /\ \A i \in 1 .. Len(r) : Early(i) \/ Late(i)
    BY WrittenIs
  <1> HIDE DEF n
  <1>2. ASSUME NEW k \in 1 .. n
        PROVE  /\ r[2 * k - 1].do = "text" /\ r[2 * k].do = "end"
               /\ r[2 * k - 1] \in Steps /\ r[2 * k] \in Steps
    <2>1. s[1].lines[k] \in Lines
      BY <1>1 DEF PageLines
    <2>2. TextStep(s[1].lines[k]) \in Steps /\ Bare("end") \in Steps
      BY <2>1, StepsAre DEF Plain
    <2> QED BY <1>1, <2>2, TextIs, BareIs
  <1>3. ASSUME NEW i \in 1 .. Len(r), Early(i)
        PROVE  /\ r[i] \in Steps /\ r[i].do \in {"text", "end"}
               /\ i < Len(r) /\ r[i].do = "text" => i + 1 <= 2 * n /\ r[i + 1].do = "end"
               /\ r[i].do = "text" => i < Len(r)
               /\ r[i].do = "end" => i > 1 /\ r[i - 1].do = "text"
    <2>1. PICK k \in 1 .. n : i \in {2 * k - 1, 2 * k}
      BY <1>3
    <2>2. k \in {1, 2} /\ k <= n
      BY <1>1
    <2>3. CASE i = 2 * k - 1
      <3>1. i + 1 = 2 * k /\ i + 1 <= 2 * n /\ i < Len(r)
        BY <1>1, <2>2, <2>3
      <3> QED BY <1>2, <2>3, <3>1
    <2>4. CASE i = 2 * k
      <3>1. i - 1 = 2 * k - 1 /\ i > 1
        BY <2>2, <2>4
      <3> QED BY <1>2, <2>4, <3>1
    <2> QED BY <2>1, <2>3, <2>4
  <1>4. ASSUME NEW i \in 1 .. Len(r), ~Early(i)
        PROVE  /\ r[i] = s[i + 1 - 2 * n] /\ i + 1 - 2 * n \in 2 .. Len(s)
               /\ i + 1 - 2 * n \in 1 .. Len(s) /\ i > 2 * n
    <2> HIDE DEF Early, Late
    <2>1. Late(i)
      BY <1>1, <1>4
    <2>2. i > 2 * n /\ i + 1 - 2 * n \in 2 .. Len(s) /\ r[i] = s[i + 1 - 2 * n]
      BY <2>1 DEF Late
    <2>3. i + 1 - 2 * n \in 1 .. Len(s)
      BY <1>1, <2>2
    <2> QED BY <2>2, <2>3
  <1>5. ASSUME NEW i \in 1 .. Len(r) PROVE i > 2 * n => ~Early(i)
    BY <1>1
  <1> HIDE DEF Early, Late
  <1>6. s[1].do = "onPage"
    BY PageFacts
  <1>7. \A i \in 1 .. Len(r) : r[i] \in Steps /\ r[i].do \in Kind(t)
    <2> SUFFICES ASSUME NEW i \in 1 .. Len(r) PROVE r[i] \in Steps /\ r[i].do \in Kind(t)
      OBVIOUS
    <2>1. {"text", "end"} \subseteq Kind(t)
      BY DEF Drawers, Kind, Drawing
    <2>2. CASE Early(i)
      BY <1>3, <2>1, <2>2
    <2>3. CASE ~Early(i)
      BY <1>4, <2>3 DEF Shape
    <2> QED BY <2>2, <2>3
  <1>8. Paired(r)
    <2> SUFFICES ASSUME NEW i \in 1 .. Len(r)
                 PROVE  /\ r[i].do = "text" => i < Len(r) /\ r[i + 1].do = "end"
                        /\ r[i].do = "end" /\ i > 1 => r[i - 1].do = "text"
      BY DEF Paired
    <2>1. CASE Early(i)
      BY <1>3, <2>1
    <2>2. CASE ~Early(i)
      <3> DEFINE j == i + 1 - 2 * n
      <3>1. r[i] = s[j] /\ j \in 2 .. Len(s) /\ j \in 1 .. Len(s) /\ i > 2 * n
        BY <1>4, <2>2
      <3>2. ASSUME r[i].do = "text" PROVE i < Len(r) /\ r[i + 1].do = "end"
        <4>1. j < Len(s) /\ s[j + 1].do = "end"
          BY <3>1, <3>2 DEF Shape, Paired
        <4>2. i + 1 \in 1 .. Len(r) /\ i + 1 > 2 * n /\ (i + 1) + 1 - 2 * n = j + 1
          BY <1>1, <3>1, <4>1
        <4> QED BY <1>4, <1>5, <4>1, <4>2
      <3>3. ASSUME r[i].do = "end" PROVE r[i - 1].do = "text"
        <4>1. s[j - 1].do = "text"
          BY <3>1, <3>3 DEF Shape, Paired
        <4>2. j # 2
          BY <1>6, <4>1
        <4>3. i - 1 \in 1 .. Len(r) /\ i - 1 > 2 * n /\ (i - 1) + 1 - 2 * n = j - 1
          BY <1>1, <3>1, <4>2
        <4> QED BY <1>4, <1>5, <4>1, <4>3
      <3> QED BY <3>2, <3>3
    <2> QED BY <2>1, <2>2
  <1>9. \A i \in 1 .. Len(r) : r[i].do \in Counted => ~Early(i)
    BY <1>3 DEF Counted
  <1>10. Once(r)
    <2> SUFFICES ASSUME NEW i \in 1 .. Len(r), NEW j \in 1 .. Len(r),
                        r[i].do = r[j].do, r[i].do \in Counted
                 PROVE  i = j
      BY DEF Once
    <2>1. i + 1 - 2 * n = j + 1 - 2 * n
      BY <1>4, <1>9 DEF Shape, Once
    <2> QED BY <1>1, <2>1
  <1>11. ~(Len(r) > 0 /\ r[1].do = "end")
    <2>1. 1 \in 1 .. n /\ 2 * 1 - 1 = 1
      BY <1>1
    <2> QED BY <1>2, <2>1
  <1>12. \A i \in 1 .. Len(r) : r[i].do \in Counted => \E j \in 2 .. Len(s) : r[i] = s[j]
    BY <1>4, <1>9
  <1> QED BY <1>7, <1>8, <1>10, <1>11, <1>12 DEF Shape
-----------------------------------------------------------------------------
(***************************************************************************)
(* The inductive invariant of TypeOK.  A version is counted when the fetch *)
(* of a thread begins, a semaphore is posted only for a command, and the   *)
(* line holds no more texts than there are threads about to end one.       *)
(***************************************************************************)
Has(t, do) == \E i \in 1 .. Len(todo[t]) : todo[t][i].do = do
Ends(t) == Len(todo[t]) > 0 /\ todo[t][1].do = "end"
N(b) == IF b THEN 1 ELSE 0

TodoOK ==
  /\ todo \in [Threads -> Seq(Steps)]
  /\ \A t \in Threads : Shape(t, todo[t])

CountsOK ==
  /\ version \in Nat /\ GetWea_sem \in Nat /\ espwifi_getweath \in Nat
  /\ commands \in 0 .. MaxCommands /\ seconds \in Nat
  /\ version + N(Has("GetWeather", "fetch")) + N(Has("HMIRePrecess", "fetch"))
       <= MaxVersion + 1
  /\ GetWea_sem + espwifi_getweath + N(Has("HMIRePrecess", "postGetWea"))
       + N(Has("GetWeather", "postUpdate")) <= commands

LineOK ==
  /\ line \in Seq(Texts)
  /\ Len(line) <= N(Ends("UpdateHMI")) + N(Ends("HMIRePrecess"))

DataOK ==
  /\ weather_data \in [Parts -> 0 .. MaxVersion + 1]
  /\ copy \in [Threads -> [Parts -> 0 .. MaxVersion + 1]]
  /\ g_page \in Pages \union {NoPage} /\ page \in Pages /\ asked \in {NoPage, page}
  /\ shown \subseteq Texts

TypeInv == TodoOK /\ CountsOK /\ LineOK /\ DataOK

\* What a step of t does to what the threads have to do.
Moves(t) ==
  /\ TodoOK' /\ \A u \in Threads \ {t} : todo'[u] = todo[u]
  /\ Len(todo[t]) >= 1 /\ Len(todo[t]) \in Nat
  /\ \A do \in Counted : Has(t, do)' => Has(t, do) /\ todo[t][1].do # do
  /\ Ends(t)' <=> todo[t][1].do = "text"

LEMMA DoesIs ==
  ASSUME TodoOK, NEW t \in Threads, ~Idle(t)
  PROVE  /\ todo[t] # <<>> /\ todo[t] \in Seq(Steps)
         /\ Now(t) = todo[t][1] /\ todo[t][1] \in Steps /\ Len(todo[t]) >= 1
         /\ Len(todo[t]) \in Nat /\ todo[t][1].do \in Kind(t)
         /\ \A do : Does(t, do) <=> todo[t][1].do = do
  <1>1. todo[t] # <<>> /\ todo[t] \in Seq(Steps)
    BY DEF TodoOK, Idle
  <1>2. Dropped(todo[t], Tail(todo[t])) /\ Head(todo[t]) = todo[t][1] /\ todo[t][1] \in Steps
    BY <1>1, TailDropped
  <1>3. Len(todo[t]) >= 1 /\ Len(todo[t]) \in Nat
    BY <1>2 DEF Dropped
  <1>4. todo[t][1].do \in Kind(t)
    BY <1>3 DEF TodoOK, Shape
  <1> QED BY <1>1, <1>2, <1>3, <1>4 DEF Now, Does

LEMMA GoesOn ==
  ASSUME TodoOK, NEW t \in Threads, ~Idle(t), Goes(t, <<>>)
  PROVE  Moves(t) /\ Dropped(todo[t], todo'[t])
  <1> DEFINE s == todo[t]
             r == todo'[t]
  <1>1. s # <<>> /\ s \in Seq(Steps) /\ Len(s) >= 1 /\ Len(s) \in Nat
    BY DoesIs
  <1>2. /\ <<>> \o Tail(s) = Tail(s) /\ Tail(s) \in Seq(Steps) /\ Dropped(s, Tail(s))
    BY <1>1, TailDropped
  <1>3. todo' = [todo EXCEPT ![t] = Tail(s)]
    BY <1>2 DEF Goes
  <1>4. r = Tail(s) /\ \A u \in Threads \ {t} : todo'[u] = todo[u]
    BY <1>3 DEF TodoOK
  <1>5. todo' \in [Threads -> Seq(Steps)]
    BY <1>2, <1>3 DEF TodoOK
  <1>6. Dropped(s, r) /\ Shape(t, s)
    BY <1>2, <1>4 DEF TodoOK
  <1>7. /\ Shape(t, r)
        /\ Len(r) > 0 /\ r[1].do = "end" <=> s[1].do = "text"
        /\ \A i \in 1 .. Len(r) : r[i].do \in Counted => r[i].do # s[1].do
    BY <1>6, DroppedShape
  <1>8. TodoOK'
    BY <1>4, <1>5, <1>7 DEF TodoOK
  <1>9. ASSUME NEW do \in Counted, Has(t, do)' PROVE Has(t, do) /\ s[1].do # do
    <2>1. PICK i \in 1 .. Len(r) : r[i].do = do
      BY <1>9 DEF Has
    <2>2. i + 1 \in 1 .. Len(s) /\ r[i] = s[i + 1]
      BY <1>6 DEF Dropped
    <2> QED BY <1>7, <2>1, <2>2 DEF Has
  <1> QED BY <1>1, <1>4, <1>6, <1>7, <1>8, <1>9 DEF Moves, Ends

LEMMA ChecksPage ==
  ASSUME TodoOK, NEW t \in Threads, CheckPage(t)
  PROVE  /\ Moves(t) /\ todo[t][1] \in PageSteps /\ t \in Drawers
         /\ g_page = todo[t][1].arg => Written(todo[t], todo'[t])
         /\ g_page # todo[t][1].arg => Dropped(todo[t], todo'[t])
  <1> DEFINE s == todo[t]
             r == todo'[t]
             w == WriteAll(s[1].lines)
  <1>1. ~Idle(t)
    BY DEF CheckPage, Does
  <1>2. /\ s # <<>> /\ s \in Seq(Steps) /\ Len(s) >= 1 /\ Len(s) \in Nat
        /\ s[1].do = "onPage" /\ Now(t) = s[1] /\ s[1] \in Steps /\ s[1].do \in Kind(t)
    BY <1>1, DoesIs DEF CheckPage
  <1>3. s[1] \in PageSteps /\ t \in Drawers
    <2>1. s[1] \in PageSteps
      BY <1>2, StepKinds
    <2>2. "onPage" \notin {"fetch", "store", "postUpdate"}
      OBVIOUS
    <2>3. t \in Drawers
      BY <1>2, <2>2 DEF Kind, Threads, Drawers
    <2> QED BY <2>1, <2>3
  <1>4. CASE g_page # s[1].arg
    <2>1. Goes(t, <<>>)
      BY <1>2, <1>4 DEF CheckPage
    <2> QED BY <1>1, <1>3, <1>4, <2>1, GoesOn
  <1>5. CASE g_page = s[1].arg
    <2>1. Goes(t, w)
      BY <1>2, <1>5 DEF CheckPage
    <2>2. s[1].lines \in Seq(PageLines) /\ Len(s[1].lines) \in {1, 2}
      BY <1>3, PageFacts
    <2>3. /\ w \in Seq(Steps) /\ Len(w) = 2 * Len(s[1].lines)
          /\ w[1] = TextStep(s[1].lines[1]) /\ w[2] = Bare("end")
          /\ Len(w) = 4 => w[3] = TextStep(s[1].lines[2]) /\ w[4] = Bare("end")
      BY <2>2, WriteAllIs
    <2>4. Tail(s) \in Seq(Steps) /\ Dropped(s, Tail(s))
      BY <1>2, TailDropped
    <2> HIDE DEF w, s
    <2>5. w \in Seq(Steps) /\ Tail(s) \in Seq(Steps)
      BY <2>3, <2>4
    <2>6. /\ w \o Tail(s) \in Seq(Steps) /\ Len(w \o Tail(s)) = Len(w) + Len(Tail(s))
          /\ \A i \in 1 .. Len(w) + Len(Tail(s)) :
               (w \o Tail(s))[i] = IF i <= Len(w) THEN w[i] ELSE Tail(s)[i - Len(w)]
      BY <2>5, ConcatProperties
    <2>7. todo' = [todo EXCEPT ![t] = w \o Tail(s)]
      BY <2>1 DEF Goes, s
    <2>8. r = w \o Tail(s) /\ \A u \in Threads \ {t} : todo'[u] = todo[u]
      BY <2>7 DEF TodoOK
    <2>9. todo' \in [Threads -> Seq(Steps)]
      BY <2>6, <2>7 DEF TodoOK
    <2> HIDE DEF r
    <2>10. Written(s, r)
      <3> DEFINE n == Len(s[1].lines)
      <3>1. n \in {1, 2} /\ Len(w) = 2 * n /\ Len(s) \in Nat /\ Len(s) >= 1
            /\ Len(Tail(s)) = Len(s) - 1
        BY <1>2, <2>2, <2>3, <2>4 DEF Dropped, s
      <3>2. Len(r) = 2 * n + Len(s) - 1
        BY <2>6, <2>8, <3>1
      <3>3. \A i \in 1 .. Len(r) : r[i] = IF i <= 2 * n THEN w[i] ELSE Tail(s)[i - 2 * n]
        BY <2>6, <2>8, <3>1
      <3> HIDE DEF n
      <3>4. r[1] = w[1] /\ r[2] = w[2] /\ (n = 2 => r[3] = w[3] /\ r[4] = w[4])
        BY <3>1, <3>2, <3>3
      <3>5. ASSUME NEW i \in 2 * n + 1 .. Len(r) PROVE r[i] = s[i + 1 - 2 * n]
        <4> DEFINE m == Len(s)
                   k == Len(Tail(s))
                   q == Len(r)
        <4>0. n \in {1, 2} /\ m \in Nat /\ m >= 1 /\ k = m - 1 /\ q = 2 * n + m - 1
          BY <3>1, <3>2
        <4> HIDE DEF m, k, q
        <4>4. i \in 1 .. q /\ ~(i <= 2 * n) /\ i - 2 * n \in 1 .. k
          BY <4>0 DEF q
        <4>1. i \in 1 .. Len(r) /\ ~(i <= 2 * n) /\ i - 2 * n \in 1 .. Len(Tail(s))
          BY <4>4 DEF q, k
        <4>2. Tail(s)[i - 2 * n] = s[(i - 2 * n) + 1]
          BY <2>4, <4>1 DEF Dropped
        <4>3. (i - 2 * n) + 1 = i + 1 - 2 * n
          BY <3>1
        <4> QED BY <3>3, <4>1, <4>2, <4>3
      <3>6. n = 2 => Len(w) = 4
        BY <3>1
      <3> QED BY <2>3, <3>1, <3>2, <3>4, <3>5, <3>6 DEF Written, n
    <2>11. Shape(t, s)
      BY DEF TodoOK, s
    <2>12. /\ Shape(t, r)
           /\ ~(Len(r) > 0 /\ r[1].do = "end")
           /\ \A i \in 1 .. Len(r) : r[i].do \in Counted => \E j \in 2 .. Len(s) : r[i] = s[j]
      BY <1>3, <2>10, <2>11, WrittenShape DEF s
    <2>13. TodoOK'
      BY <2>8, <2>9, <2>12 DEF TodoOK, r
    <2>14. ASSUME NEW do \in Counted, Has(t, do)' PROVE Has(t, do) /\ s[1].do # do
      <3>1. PICK i \in 1 .. Len(r) : r[i].do = do
        BY <2>14 DEF Has, r
      <3>2. PICK j \in 2 .. Len(s) : s[j].do = do
        BY <2>12, <3>1
      <3>3. j \in 1 .. Len(s) /\ s[1].do = "onPage"
        BY <1>2, <3>2 DEF s
      <3>4. "onPage" # do
        BY DEF Counted
      <3> QED BY <3>2, <3>3, <3>4 DEF Has, s
    <2>15. Moves(t)
      <3>1. s[1].do = "onPage"
        BY <1>2 DEF s
      <3>2. ~Ends(t)'
        BY <2>12 DEF Ends, r
      <3> QED BY <1>2, <2>8, <2>13, <2>14, <3>1, <3>2 DEF Moves, s
    <2> QED BY <1>3, <1>5, <2>10, <2>15 DEF s, r
  <1> QED BY <1>4, <1>5

\* Every step of a thread is of this kind.
LEMMA ThreadMoves ==
  ASSUME TodoOK, NEW t \in Threads, Thread(t)
  PROVE  Moves(t) /\ (~CheckPage(t) => Dropped(todo[t], todo'[t]))
  <1>1. CASE CheckPage(t)
    BY <1>1, ChecksPage
  <1>2. CASE ~CheckPage(t)
    <2>1. ~Idle(t) /\ Goes(t, <<>>)
      BY <1>2 DEF Thread, CopyPart, WriteText, WriteEnd, StorePart, Fetch, ClearData, Join,
                  PostGetWea, PostUpdate, ClearBuffer, Does
    <2> QED BY <1>2, <2>1, GoesOn
  <1> QED BY <1>1, <1>2
-----------------------------------------------------------------------------
LEMMA MovesCount ==
  ASSUME NEW t \in Threads, Moves(t)
  PROVE  /\ \A u \in Threads, do \in Counted : Has(u, do)' => Has(u, do)
         /\ \A do \in Counted : todo[t][1].do = do => Has(t, do) /\ ~Has(t, do)'
         /\ \A u \in Threads \ {t} : Ends(u)' <=> Ends(u)
         /\ ~Ends(t) \/ todo[t][1].do = "end"
         /\ \A u \in Threads \ {t}, do \in Counted : Has(u, do)' <=> Has(u, do)
  <1>1. 1 \in 1 .. Len(todo[t])
    BY DEF Moves
  <1> QED BY <1>1 DEF Moves, Has, Ends

LEMMA SumStays ==
  ASSUME NEW a \in Nat, NEW b \in Nat, NEW c \in {0, 1}, NEW d \in {0, 1}, NEW n \in Nat,
         a + b + c + d <= n,
         NEW a1 \in Nat, NEW b1 \in Nat, NEW c1 \in {0, 1}, NEW d1 \in {0, 1},
         a1 + b1 <= a + b + 1, c1 + d1 <= c + d - 1
  PROVE  a1 + b1 + c1 + d1 <= n
  OBVIOUS

LEMMA OneMore ==
  ASSUME NEW a \in Nat, NEW b \in Nat, NEW a1 \in Nat, a1 <= a + 1
  PROVE  a1 + b <= a + b + 1 /\ b + a1 <= b + a + 1
  OBVIOUS

\* The counters after a step of a thread.
LEMMA CountsThread ==
  ASSUME TodoOK, CountsOK, NEW t \in Threads, Thread(t)
  PROVE  CountsOK'
  <1>1. Moves(t)
    BY ThreadMoves
  <1>2. /\ \A u \in Threads, do \in Counted : Has(u, do)' => Has(u, do)
        /\ \A do \in Counted : todo[t][1].do = do => Has(t, do) /\ ~Has(t, do)'
    BY <1>1, MovesCount
  <1>3. PICK fg \in {0, 1}, fh \in {0, 1}, wh \in {0, 1}, ug \in {0, 1} :
          /\ fg = N(Has("GetWeather", "fetch")) /\ fh = N(Has("HMIRePrecess", "fetch"))
          /\ wh = N(Has("HMIRePrecess", "postGetWea")) /\ ug = N(Has("GetWeather", "postUpdate"))
    BY DEF N
  <1>4. PICK fg1 \in 0 .. fg, fh1 \in 0 .. fh, wh1 \in 0 .. wh, ug1 \in 0 .. ug :
          /\ fg1 = N(Has("GetWeather", "fetch"))' /\ fh1 = N(Has("HMIRePrecess", "fetch"))'
          /\ wh1 = N(Has("HMIRePrecess", "postGetWea"))'
          /\ ug1 = N(Has("GetWeather", "postUpdate"))'
    <2>1. /\ Has("GetWeather", "fetch")' => Has("GetWeather", "fetch")
          /\ Has("HMIRePrecess", "fetch")' => Has("HMIRePrecess", "fetch")
          /\ Has("HMIRePrecess", "postGetWea")' => Has("HMIRePrecess", "postGetWea")
          /\ Has("GetWeather", "postUpdate")' => Has("GetWeather", "postUpdate")
      BY <1>2 DEF Threads, Counted
    <2>2. /\ N(Has("GetWeather", "fetch"))' \in 0 .. fg
          /\ N(Has("HMIRePrecess", "fetch"))' \in 0 .. fh
          /\ N(Has("HMIRePrecess", "postGetWea"))' \in 0 .. wh
          /\ N(Has("GetWeather", "postUpdate"))' \in 0 .. ug
      BY <1>3, <2>1 DEF N
    <2> QED BY <2>2
  <1>5. \A do : Does(t, do) => todo[t][1].do = do /\ do \in Kind(t)
    BY DoesIs DEF Does
  <1>6. /\ version \in Nat /\ GetWea_sem \in Nat /\ espwifi_getweath \in Nat
        /\ commands \in 0 .. MaxCommands /\ seconds \in Nat
        /\ version + fg + fh <= MaxVersion + 1
        /\ GetWea_sem + espwifi_getweath + wh + ug <= commands
    BY <1>3 DEF CountsOK
  <1>7. /\ MaxVersion \in Nat /\ MaxCommands \in Nat
        /\ UNCHANGED bounds
    BY ScreenAssumption DEF ScreenAssumption, Thread, CopyPart, CheckPage, WriteText, WriteEnd,
                            StorePart, Fetch, ClearData, Join, PostGetWea, PostUpdate, ClearBuffer
  <1> SUFFICES /\ version' \in Nat /\ GetWea_sem' \in Nat /\ espwifi_getweath' \in Nat
               /\ version' + fg1 + fh1 <= MaxVersion + 1
               /\ GetWea_sem' + espwifi_getweath' + wh1 + ug1 <= commands
    BY <1>4, <1>6, <1>7 DEF CountsOK, bounds
  <1>8. CASE Fetch(t)
    <2>1. todo[t][1].do = "fetch" /\ "fetch" \in Kind(t)
      BY <1>5, <1>8 DEF Fetch
    <2>2. Has(t, "fetch") /\ ~Has(t, "fetch")'
      BY <1>2, <2>1 DEF Counted
    <2>3. t \in {"GetWeather", "HMIRePrecess"}
      BY <2>1 DEF Kind, Threads, Drawing
    <2>4. \/ fg = 1 /\ fg1 = 0
          \/ fh = 1 /\ fh1 = 0
      BY <1>3, <1>4, <2>2, <2>3 DEF N
    <2>5. version' = version + 1 /\ UNCHANGED <<GetWea_sem, espwifi_getweath>>
      BY <1>8 DEF Fetch
    <2> QED BY <1>6, <1>7, <2>4, <2>5
  <1>9. CASE PostGetWea(t)
    <2>1. todo[t][1].do = "postGetWea" /\ "postGetWea" \in Kind(t)
      BY <1>5, <1>9 DEF PostGetWea
    <2>2. Has(t, "postGetWea") /\ ~Has(t, "postGetWea")'
      BY <1>2, <2>1 DEF Counted
    <2>3. t = "HMIRePrecess"
      BY <2>1 DEF Kind, Threads, Drawing
    <2>4. wh = 1 /\ wh1 = 0
      BY <1>3, <1>4, <2>2, <2>3 DEF N
    <2>5. /\ GetWea_sem' = GetWea_sem \/ GetWea_sem' = GetWea_sem + 1
          /\ UNCHANGED <<version, espwifi_getweath>>
      BY <1>9 DEF PostGetWea, dataVars
    <2>6. GetWea_sem' \in Nat /\ GetWea_sem' <= GetWea_sem + 1
      BY <1>6, <2>5
    <2>7. version' = version /\ espwifi_getweath' = espwifi_getweath
      BY <2>5
    <2>8. version' + fg1 + fh1 <= MaxVersion + 1 /\ version' \in Nat
      BY <1>6, <1>7, <2>7
    <2>13. GetWea_sem \in Nat /\ espwifi_getweath \in Nat
      BY <1>6
    <2>9. GetWea_sem' + espwifi_getweath' <= GetWea_sem + espwifi_getweath + 1
      <3>1. GetWea_sem' + espwifi_getweath <= GetWea_sem + espwifi_getweath + 1
        BY <2>6, <2>13, OneMore
      <3> QED BY <2>7, <3>1, Zenon
    <2>10. wh1 + ug1 <= wh + ug - 1
      BY <2>4
    <2>11. wh1 \in {0, 1} /\ ug1 \in {0, 1} /\ commands \in Nat /\ espwifi_getweath' \in Nat
      BY <1>6, <1>7, <2>7
    <2>12. GetWea_sem' + espwifi_getweath' + wh1 + ug1 <= commands
      BY <1>6, <2>6, <2>9, <2>10, <2>11, SumStays
    <2> QED BY <2>6, <2>8, <2>11, <2>12
  <1>10. CASE PostUpdate(t)
    <2>1. todo[t][1].do = "postUpdate" /\ "postUpdate" \in Kind(t)
      BY <1>5, <1>10 DEF PostUpdate
    <2>2. Has(t, "postUpdate") /\ ~Has(t, "postUpdate")'
      BY <1>2, <2>1 DEF Counted
    <2>3. t = "GetWeather"
      BY <2>1 DEF Kind, Threads, Drawing, Plain
    <2>4. ug = 1 /\ ug1 = 0
      BY <1>3, <1>4, <2>2, <2>3 DEF N
    <2>5. /\ espwifi_getweath' = espwifi_getweath \/ espwifi_getweath' = espwifi_getweath + 1
          /\ UNCHANGED <<version, GetWea_sem>>
      BY <1>10 DEF PostUpdate, dataVars
    <2>6. espwifi_getweath' \in Nat /\ espwifi_getweath' <= espwifi_getweath + 1
      BY <1>6, <2>5
    <2>7. version' = version /\ GetWea_sem' = GetWea_sem
      BY <2>5
    <2>8. version' + fg1 + fh1 <= MaxVersion + 1 /\ version' \in Nat
      BY <1>6, <1>7, <2>7
    <2>13. GetWea_sem \in Nat /\ espwifi_getweath \in Nat
      BY <1>6
    <2>9. GetWea_sem' + espwifi_getweath' <= GetWea_sem + espwifi_getweath + 1
      <3>1. GetWea_sem + espwifi_getweath' <= GetWea_sem + espwifi_getweath + 1
        BY <2>6, <2>13, OneMore
      <3> QED BY <2>7, <3>1, Zenon
    <2>10. wh1 + ug1 <= wh + ug - 1
      BY <2>4
    <2>11. wh1 \in {0, 1} /\ ug1 \in {0, 1} /\ commands \in Nat /\ GetWea_sem' \in Nat
      BY <1>6, <1>7, <2>7
    <2>12. GetWea_sem' + espwifi_getweath' + wh1 + ug1 <= commands
      BY <1>6, <2>6, <2>9, <2>10, <2>11, SumStays
    <2> QED BY <2>6, <2>8, <2>11, <2>12
  <1>11. CASE ~(Fetch(t) \/ PostGetWea(t) \/ PostUpdate(t))
    <2>1. UNCHANGED <<version, GetWea_sem, espwifi_getweath>>
      BY <1>11 DEF Thread, CopyPart, CheckPage, WriteText, WriteEnd, StorePart, ClearData, Join,
                   ClearBuffer, dataVars
    <2> QED BY <1>6, <1>7, <2>1
  <1> QED BY <1>8, <1>9, <1>10, <1>11

\* The line and the screen after a step of a thread.
LEMMA TextType ==
  ASSUME DataOK, NEW t \in Threads, NEW l \in Lines
  PROVE  Text(t, l) \in Texts
  <1>1. l.name \in Names /\ l.day \in 0 .. 2
    BY LineIs DEF Lines, LoadIcon, Names
  <1>2. (IF l.part \in Parts THEN copy[t][l.part] ELSE 0) \in 0 .. MaxVersion + 1
    BY ScreenAssumption DEF ScreenAssumption, DataOK
  <1> QED BY <1>1, <1>2 DEF Text, Texts

LEMMA LineThread ==
  ASSUME TodoOK, LineOK, DataOK, NEW t \in Threads, Thread(t)
  PROVE  LineOK'
  <1>1. Moves(t)
    BY ThreadMoves
  <1>2. \A do : Does(t, do) => todo[t][1].do = do /\ do \in Kind(t) /\ todo[t][1] \in Steps
    BY DoesIs DEF Does
  <1>3. PICK eu \in {0, 1}, eh \in {0, 1} :
          /\ eu = N(Ends("UpdateHMI")) /\ eh = N(Ends("HMIRePrecess"))
    BY DEF N
  <1>4. PICK eu1 \in {0, 1}, eh1 \in {0, 1} :
          /\ eu1 = N(Ends("UpdateHMI"))' /\ eh1 = N(Ends("HMIRePrecess"))'
    BY DEF N
  <1>5. line \in Seq(Texts) /\ Len(line) <= eu + eh /\ Len(line) \in Nat
    BY <1>3 DEF LineOK
  <1> SUFFICES line' \in Seq(Texts) /\ Len(line') <= eu1 + eh1
    BY <1>4 DEF LineOK
  <1>6. CASE WriteText(t)
    <2>1. todo[t][1].do = "text" /\ "text" \in Kind(t) /\ todo[t][1] \in TextSteps
      BY <1>2, <1>6, StepKinds DEF WriteText
    <2>2. t \in Drawers
      BY <2>1 DEF Kind, Threads, Drawers
    <2>3. Ends(t)' /\ ~Ends(t)
      BY <1>1, <2>1 DEF Moves, Ends
    <2>4. \A u \in Threads \ {t} : Ends(u)' <=> Ends(u)
      BY <1>1, MovesCount
    <2>5. eu1 + eh1 = eu + eh + 1
      <3>1. CASE t = "UpdateHMI"
        <4>1. eu = 0 /\ eu1 = 1 /\ eh1 = eh
          BY <1>3, <1>4, <2>3, <2>4, <3>1 DEF N, Threads
        <4> QED BY <4>1
      <3>2. CASE t = "HMIRePrecess"
        <4>1. eh = 0 /\ eh1 = 1 /\ eu1 = eu
          BY <1>3, <1>4, <2>3, <2>4, <3>2 DEF N, Threads
        <4> QED BY <4>1
      <3> QED BY <2>2, <3>1, <3>2 DEF Drawers
    <2>6. Now(t).lines[1] \in Lines
      <3>1. Now(t) = todo[t][1]
        BY <1>6, DoesIs DEF WriteText, Does
      <3> QED BY <2>1, <3>1, TextFacts
    <2>7. line' = Append(line, Text(t, Now(t).lines[1]))
      BY <1>6 DEF WriteText
    <2>8. Text(t, Now(t).lines[1]) \in Texts
      BY <2>6, TextType
    <2>9. line' \in Seq(Texts) /\ Len(line') = Len(line) + 1
      BY <1>5, <2>7, <2>8, AppendProperties
    <2> QED BY <1>5, <2>5, <2>9
  <1>7. CASE WriteEnd(t)
    <2>1. line' = <<>>
      BY <1>7 DEF WriteEnd
    <2>2. line' \in Seq(Texts) /\ Len(line') = 0
      BY <2>1
    <2> QED BY <2>2
  <1>8. CASE ~(WriteText(t) \/ WriteEnd(t))
    <2>1. line' = line /\ \E do \in Drawing \union Plain \union {"store"} :
                            Does(t, do) /\ do \notin {"text", "end"}
      BY <1>8 DEF Thread, CopyPart, CheckPage, StorePart, Fetch, ClearData, Join,
                  PostGetWea, PostUpdate, ClearBuffer, screenVars, Drawing, Plain
    <2>2. todo[t][1].do \notin {"text", "end"}
      BY <1>2, <2>1
    <2>3. ~Ends(t)' /\ ~Ends(t)
      BY <1>1, <2>2 DEF Moves, Ends
    <2>4. \A u \in Threads \ {t} : Ends(u)' <=> Ends(u)
      BY <1>1, MovesCount
    <2>5. eu1 = eu /\ eh1 = eh
      BY <1>3, <1>4, <2>3, <2>4 DEF N, Threads
    <2> QED BY <1>5, <2>1, <2>5
  <1> QED BY <1>6, <1>7, <1>8

LEMMA ShowsTexts ==
  ASSUME NEW text \in Texts, shown \subseteq Texts
  PROVE  Shows(text) \subseteq Texts
  BY DEF Shows

\* A step of a thread leaves the data and the screen of their types.
LEMMA DataThread ==
  ASSUME TodoOK, CountsOK, LineOK, DataOK, NEW t \in Threads, Thread(t)
  PROVE  DataOK'
  <1>1. \A do : Does(t, do) => /\ todo[t][1].do = do /\ todo[t][1] \in Steps
                               /\ Now(t) = todo[t][1]
    BY DoesIs DEF Does
  <1>2. MaxVersion \in Nat /\ version \in 0 .. MaxVersion + 1
    BY ScreenAssumption DEF ScreenAssumption, CountsOK, N
  <1>3. /\ weather_data \in [Parts -> 0 .. MaxVersion + 1]
        /\ copy \in [Threads -> [Parts -> 0 .. MaxVersion + 1]]
        /\ g_page \in Pages \union {NoPage} /\ page \in Pages /\ asked \in {NoPage, page}
        /\ shown \subseteq Texts
    BY DEF DataOK
  <1> DEFINE arg == Now(t).arg
  <1>4. CASE CopyPart(t)
    <2>1. todo[t][1] \in PlainSteps \union StoreSteps \union CopySteps
      BY <1>1, <1>4, StepKinds DEF CopyPart
    <2>2. arg \in Parts
      BY <1>1, <1>4, <2>1, PlainFacts DEF CopyPart
    <2>3. /\ copy' = [copy EXCEPT ![t][arg] = weather_data[arg]]
          /\ UNCHANGED <<weather_data, g_page, page, asked, shown>>
      BY <1>4 DEF CopyPart, screenVars
    <2> HIDE DEF arg
    <2>4. copy' \in [Threads -> [Parts -> 0 .. MaxVersion + 1]]
      BY <1>3, <2>2, <2>3
    <2> QED BY <1>3, <2>3, <2>4 DEF DataOK
  <1>5. CASE StorePart(t)
    <2>1. todo[t][1] \in PlainSteps \union StoreSteps \union CopySteps
      BY <1>1, <1>5, StepKinds DEF StorePart
    <2>2. arg \in Parts
      BY <1>1, <1>5, <2>1, PlainFacts DEF StorePart
    <2>3. /\ \E v \in {version, weather_data[arg]} :
               weather_data' = [weather_data EXCEPT ![arg] = v]
          /\ UNCHANGED <<copy, g_page, page, asked, shown>>
      BY <1>5 DEF StorePart, screenVars
    <2> HIDE DEF arg
    <2>4. weather_data' \in [Parts -> 0 .. MaxVersion + 1]
      BY <1>2, <1>3, <2>2, <2>3
    <2> QED BY <1>3, <2>3, <2>4 DEF DataOK
  <1>6. CASE ClearData(t)
    <2>1. /\ weather_data' = [p \in Parts |-> IF p = "wifi" THEN weather_data[p] ELSE 0]
          /\ UNCHANGED <<copy, g_page, page, asked, shown>>
      BY <1>6 DEF ClearData, screenVars
    <2>2. 0 \in 0 .. MaxVersion + 1
      BY <1>2
    <2>3. weather_data' \in [Parts -> 0 .. MaxVersion + 1]
      BY <1>3, <2>1, <2>2
    <2> QED BY <1>3, <2>1, <2>3 DEF DataOK
  <1>7. CASE Join(t)
    <2>1. /\ \E sign \in {0, 1} : weather_data' = [weather_data EXCEPT !["wifi"] = sign]
          /\ UNCHANGED <<copy, g_page, page, asked, shown>>
      BY <1>7 DEF Join, screenVars
    <2>2. 0 \in 0 .. MaxVersion + 1 /\ 1 \in 0 .. MaxVersion + 1
      BY <1>2
    <2>3. weather_data' \in [Parts -> 0 .. MaxVersion + 1]
      BY <1>3, <2>1, <2>2
    <2> QED BY <1>3, <2>1, <2>3 DEF DataOK
  <1>8. CASE WriteEnd(t)
    <2>1. /\ shown' = IF Len(line) = 1 THEN Shows(line[1]) ELSE shown
          /\ UNCHANGED <<weather_data, copy, g_page, page, asked>>
      BY <1>8 DEF WriteEnd, dataVars
    <2>2. Len(line) = 1 => line[1] \in Texts
      BY DEF LineOK
    <2>3. shown' \subseteq Texts
      BY <1>3, <2>1, <2>2, ShowsTexts
    <2> QED BY <1>3, <2>1, <2>3 DEF DataOK
  <1>9. CASE ClearBuffer(t)
    <2>1. /\ asked' \in {asked, NoPage}
          /\ UNCHANGED <<weather_data, copy, g_page, page, shown>>
      BY <1>9 DEF ClearBuffer, dataVars
    <2> QED BY <1>3, <2>1 DEF DataOK
  <1>10. CASE CheckPage(t) \/ WriteText(t) \/ Fetch(t) \/ PostGetWea(t) \/ PostUpdate(t)
    <2>1. UNCHANGED <<weather_data, copy, g_page, page, asked, shown>>
      BY <1>10 DEF CheckPage, WriteText, Fetch, PostGetWea, PostUpdate, dataVars, screenVars
    <2> QED BY <1>3, <2>1 DEF DataOK
  <1> QED BY <1>4, <1>5, <1>6, <1>7, <1>8, <1>9, <1>10 DEF Thread
-----------------------------------------------------------------------------
(***************************************************************************)
(* What the threads begin.                                                 *)
(***************************************************************************)
LEMMA Begun ==
  ASSUME TodoOK, NEW t \in Threads, NEW s \in Seq(Steps), Begins(t, s), Shape(t, s),
         s[1].do # "end"
  PROVE  /\ TodoOK' /\ Idle(t) /\ todo'[t] = s
         /\ \A u \in Threads \ {t} : todo'[u] = todo[u]
         /\ \A u \in Threads : Ends(u)' <=> Ends(u)
         /\ \A u \in Threads \ {t}, do \in Counted : Has(u, do)' <=> Has(u, do)
         /\ \A do \in Counted : Has(t, do)' <=> \E i \in 1 .. Len(s) : s[i].do = do
         /\ \A do \in Counted : ~Has(t, do)
  <1>1. todo[t] = <<>> /\ todo' = [todo EXCEPT ![t] = s]
    BY DEF Begins, Idle
  <1>2. todo'[t] = s /\ \A u \in Threads \ {t} : todo'[u] = todo[u]
    BY <1>1 DEF TodoOK
  <1>3. todo' \in [Threads -> Seq(Steps)]
    BY <1>1 DEF TodoOK
  <1>4. TodoOK'
    BY <1>2, <1>3 DEF TodoOK
  <1>5. Len(todo[t]) = 0
    BY <1>1
  <1>6. ~Ends(t) /\ ~Ends(t)'
    BY <1>2, <1>5 DEF Ends
  <1>7. \A u \in Threads \ {t} : Ends(u)' <=> Ends(u)
    BY <1>2 DEF Ends
  <1>8. \A u \in Threads \ {t}, do \in Counted : Has(u, do)' <=> Has(u, do)
    BY <1>2 DEF Has
  <1>9. \A do \in Counted : Has(t, do)' <=> \E i \in 1 .. Len(s) : s[i].do = do
    BY <1>2 DEF Has
  <1>10. \A do \in Counted : ~Has(t, do)
    BY <1>5 DEF Has
  <1> QED BY <1>1, <1>2, <1>4, <1>6, <1>7, <1>8, <1>9, <1>10 DEF Idle

\* The counters where a program begins: what they are before and after.
LEMMA Numbers ==
  ASSUME CountsOK
  PROVE  \E fg, fh, wh, ug, fg1, fh1, wh1, ug1 \in {0, 1} :
           /\ fg = N(Has("GetWeather", "fetch")) /\ fh = N(Has("HMIRePrecess", "fetch"))
           /\ wh = N(Has("HMIRePrecess", "postGetWea")) /\ ug = N(Has("GetWeather", "postUpdate"))
           /\ fg1 = N(Has("GetWeather", "fetch"))' /\ fh1 = N(Has("HMIRePrecess", "fetch"))'
           /\ wh1 = N(Has("HMIRePrecess", "postGetWea"))'
           /\ ug1 = N(Has("GetWeather", "postUpdate"))'
           /\ version + fg + fh <= MaxVersion + 1
           /\ GetWea_sem + espwifi_getweath + wh + ug <= commands
  <1> DEFINE a == N(Has("GetWeather", "fetch"))
             b == N(Has("HMIRePrecess", "fetch"))
             c == N(Has("HMIRePrecess", "postGetWea"))
             d == N(Has("GetWeather", "postUpdate"))
  <1>1. a \in {0, 1} /\ b \in {0, 1} /\ c \in {0, 1} /\ d \in {0, 1}
    BY DEF N
  <1>2. a' \in {0, 1} /\ b' \in {0, 1} /\ c' \in {0, 1} /\ d' \in {0, 1}
    BY DEF N
  <1>3. /\ version + a + b <= MaxVersion + 1
        /\ GetWea_sem + espwifi_getweath + c + d <= commands
    BY DEF CountsOK
  <1> HIDE DEF a, b, c, d
  <1> USE <1>1, <1>2
  <1> WITNESS a \in {0, 1}, b \in {0, 1}, c \in {0, 1}, d \in {0, 1},
              a' \in {0, 1}, b' \in {0, 1}, c' \in {0, 1}, d' \in {0, 1}
  <1> QED BY <1>3 DEF a, b, c, d

LEMMA TypeGetWeather ==
  ASSUME TypeInv, GetWeather
  PROVE  TypeInv'
  <1> DEFINE s == Refresh \o Do("postUpdate")
  <1>1. Short("GetWeather", s) /\ s[1].do = "fetch"
    BY WeatherProgram
  <1>2. Begins("GetWeather", s) /\ TodoOK /\ CountsOK /\ LineOK /\ DataOK
    BY DEF GetWeather, TypeInv
  <1> HIDE DEF s
  <1>3. /\ TodoOK' /\ \A u \in Threads : Ends(u)' <=> Ends(u)
        /\ \A u \in Threads \ {"GetWeather"}, do \in Counted : Has(u, do)' <=> Has(u, do)
        /\ \A do \in Counted : ~Has("GetWeather", do)
    <2>1. "GetWeather" \in Threads /\ s \in Seq(Steps) /\ Shape("GetWeather", s) /\ s[1].do # "end"
      BY <1>1 DEF Threads, Short
    <2> QED BY <1>2, <2>1, Begun
  <1>4. /\ GetWea_sem > 0 /\ version < MaxVersion /\ GetWea_sem' = GetWea_sem - 1
        /\ UNCHANGED <<weather_data, version, copy, g_page, espwifi_getweath, page, asked, line,
                       shown, commands, seconds>>
    BY DEF GetWeather, dataVars, screenVars, bounds
  <1>5. CountsOK'
    <2>1. PICK fg, fh, wh, ug, fg1, fh1, wh1, ug1 \in {0, 1} :
            /\ fg = N(Has("GetWeather", "fetch")) /\ fh = N(Has("HMIRePrecess", "fetch"))
            /\ wh = N(Has("HMIRePrecess", "postGetWea")) /\ ug = N(Has("GetWeather", "postUpdate"))
            /\ fg1 = N(Has("GetWeather", "fetch"))' /\ fh1 = N(Has("HMIRePrecess", "fetch"))'
            /\ wh1 = N(Has("HMIRePrecess", "postGetWea"))'
            /\ ug1 = N(Has("GetWeather", "postUpdate"))'
            /\ version + fg + fh <= MaxVersion + 1
            /\ GetWea_sem + espwifi_getweath + wh + ug <= commands
      BY <1>2, Numbers, Zenon
    <2>2. ug = 0 /\ wh1 = wh
      BY <1>3, <2>1 DEF N, Counted, Threads
    <2>3. /\ version \in Nat /\ GetWea_sem \in Nat /\ espwifi_getweath \in Nat
          /\ commands \in 0 .. MaxCommands /\ seconds \in Nat
          /\ MaxVersion \in Nat /\ MaxCommands \in Nat
      BY <1>2, ScreenAssumption DEF CountsOK, ScreenAssumption
    <2>4. /\ version' + fg1 + fh1 <= MaxVersion + 1
          /\ GetWea_sem' + espwifi_getweath' + wh1 + ug1 <= commands'
          /\ GetWea_sem' \in Nat
      BY <1>4, <2>1, <2>2, <2>3
    <2> QED BY <1>4, <2>1, <2>3, <2>4 DEF CountsOK
  <1>6. LineOK'
    BY <1>2, <1>3, <1>4 DEF LineOK, N, Threads
  <1>7. DataOK'
    BY <1>2, <1>4 DEF DataOK
  <1> QED BY <1>3, <1>5, <1>6, <1>7 DEF TypeInv

\* The two programs that draw.
LEMMA DrawProgram ==
  /\ LET s == Draw
     IN  /\ s \in Seq(Steps) /\ Len(s) = 11 /\ Shape("UpdateHMI", s) /\ CopiesFirst(s)
         /\ AsksForAll(s) /\ s[1].do = "copy"
         /\ \A i \in 1 .. Len(s) : s[i].do \notin Counted
  /\ LET s == Draw \o Do("clearBuffer")
     IN  /\ s \in Seq(Steps) /\ Len(s) = 12 /\ Shape("HMIRePrecess", s) /\ CopiesFirst(s)
         /\ AsksForAll(s) /\ s[1].do = "copy"
         /\ \A i \in 1 .. Len(s) : s[i].do \notin Counted
  <1> DEFINE a == Draw
             b == Draw \o Do("clearBuffer")
  <1>1. /\ a \in Seq(Steps) /\ Len(a) = 11 /\ BeginsDraw(a)
        /\ b \in Seq(Steps) /\ Len(b) = 12 /\ BeginsDraw(b) /\ b[12] = Bare("clearBuffer")
    BY DrawIs
  <1> HIDE DEF a, b
  <1>2. /\ \A i \in 1 .. 11 : a[i] \in Steps
        /\ \A i \in 1 .. 12 : b[i] \in Steps
    BY <1>1, ElementOfSeq
  <1>3. /\ Shape("UpdateHMI", a) /\ CopiesFirst(a) /\ AsksForAll(a) /\ a[1].do = "copy"
        /\ \A i \in 1 .. Len(a) : a[i].do \notin Counted
    <2>1. 11 \in {11, 12} /\ 11 # 12 /\ "UpdateHMI" \in Drawers
      BY DEF Drawers
    <2> QED BY <1>1, <1>2, <2>1, DrawGood
  <1>4. /\ Shape("HMIRePrecess", b) /\ CopiesFirst(b) /\ AsksForAll(b) /\ b[1].do = "copy"
        /\ \A i \in 1 .. Len(b) : b[i].do \notin Counted
    <2>1. 12 \in {11, 12} /\ "HMIRePrecess" \in Drawers
      BY DEF Drawers
    <2> QED BY <1>1, <1>2, <2>1, DrawGood
  <1> QED BY <1>1, <1>3, <1>4 DEF a, b

LEMMA TypeUpdateHMI ==
  ASSUME TypeInv, UpdateHMI
  PROVE  TypeInv'
  <1> DEFINE s == Draw
  <1>1. /\ s \in Seq(Steps) /\ Shape("UpdateHMI", s) /\ s[1].do # "end"
        /\ \A i \in 1 .. Len(s) : s[i].do \notin Counted
    BY DrawProgram
  <1>2. Begins("UpdateHMI", s) /\ TodoOK /\ CountsOK /\ LineOK /\ DataOK
    BY DEF UpdateHMI, TypeInv
  <1> HIDE DEF s
  <1>3. /\ TodoOK' /\ \A u \in Threads : Ends(u)' <=> Ends(u)
        /\ \A u \in Threads \ {"UpdateHMI"}, do \in Counted : Has(u, do)' <=> Has(u, do)
    <2>1. "UpdateHMI" \in Threads
      BY DEF Threads
    <2> QED BY <1>1, <1>2, <2>1, Begun
  <1>4. /\ espwifi_getweath > 0 /\ espwifi_getweath' = espwifi_getweath - 1
        /\ UNCHANGED <<weather_data, version, copy, g_page, GetWea_sem, page, asked, line,
                       shown, commands, seconds>>
    BY DEF UpdateHMI, dataVars, screenVars, bounds
  <1>5. CountsOK'
    <2>1. PICK fg, fh, wh, ug, fg1, fh1, wh1, ug1 \in {0, 1} :
            /\ fg = N(Has("GetWeather", "fetch")) /\ fh = N(Has("HMIRePrecess", "fetch"))
            /\ wh = N(Has("HMIRePrecess", "postGetWea")) /\ ug = N(Has("GetWeather", "postUpdate"))
            /\ fg1 = N(Has("GetWeather", "fetch"))' /\ fh1 = N(Has("HMIRePrecess", "fetch"))'
            /\ wh1 = N(Has("HMIRePrecess", "postGetWea"))'
            /\ ug1 = N(Has("GetWeather", "postUpdate"))'
            /\ version + fg + fh <= MaxVersion + 1
            /\ GetWea_sem + espwifi_getweath + wh + ug <= commands
      BY <1>2, Numbers, Zenon
    <2>2. fg1 = fg /\ fh1 = fh /\ wh1 = wh /\ ug1 = ug
      BY <1>3, <2>1 DEF N, Counted, Threads
    <2>3. /\ version \in Nat /\ GetWea_sem \in Nat /\ espwifi_getweath \in Nat
          /\ commands \in 0 .. MaxCommands /\ seconds \in Nat
          /\ MaxVersion \in Nat /\ MaxCommands \in Nat
      BY <1>2, ScreenAssumption DEF CountsOK, ScreenAssumption
    <2>4. /\ version' + fg1 + fh1 <= MaxVersion + 1
          /\ GetWea_sem' + espwifi_getweath' + wh1 + ug1 <= commands'
          /\ espwifi_getweath' \in Nat
      BY <1>4, <2>1, <2>2, <2>3
    <2> QED BY <1>4, <2>1, <2>3, <2>4 DEF CountsOK
  <1>6. LineOK'
    BY <1>2, <1>3, <1>4 DEF LineOK, N, Threads
  <1>7. DataOK'
    BY <1>2, <1>4 DEF DataOK
  <1> QED BY <1>3, <1>5, <1>6, <1>7 DEF TypeInv

\* What HMIRePrecess begins for a command.
LEMMA TypeHMIRePrecess ==
  ASSUME TypeInv, NEW s \in Seq(Steps), Shape("HMIRePrecess", s), s[1].do # "end",
         Begins("HMIRePrecess", s),
         UNCHANGED <<weather_data, version, copy, GetWea_sem, espwifi_getweath, page, line, shown,
                     seconds>>,
         \/ /\ \A i \in 1 .. Len(s) : s[i].do \notin Counted
            /\ g_page' \in Pages \union {NoPage} /\ asked' = NoPage /\ commands' = commands
         \/ /\ \/ version < MaxVersion
               \/ \A i \in 1 .. Len(s) : s[i].do # "fetch"
            /\ commands < MaxCommands /\ commands' = commands + 1
            /\ UNCHANGED <<g_page, asked>>
  PROVE  TypeInv'
  <1>1. TodoOK /\ CountsOK /\ LineOK /\ DataOK
    BY DEF TypeInv
  <1>2. /\ TodoOK' /\ \A u \in Threads : Ends(u)' <=> Ends(u)
        /\ \A do \in Counted : Has("GetWeather", do)' <=> Has("GetWeather", do)
        /\ \A do \in Counted : ~Has("HMIRePrecess", do)
        /\ \A do \in Counted :
             Has("HMIRePrecess", do)' <=> \E i \in 1 .. Len(s) : s[i].do = do
    <2>1. "HMIRePrecess" \in Threads /\ "GetWeather" \in Threads \ {"HMIRePrecess"}
      BY DEF Threads
    <2> QED BY <1>1, <2>1, Begun
  <1>3. CountsOK'
    <2>1. PICK fg, fh, wh, ug, fg1, fh1, wh1, ug1 \in {0, 1} :
            /\ fg = N(Has("GetWeather", "fetch")) /\ fh = N(Has("HMIRePrecess", "fetch"))
            /\ wh = N(Has("HMIRePrecess", "postGetWea")) /\ ug = N(Has("GetWeather", "postUpdate"))
            /\ fg1 = N(Has("GetWeather", "fetch"))' /\ fh1 = N(Has("HMIRePrecess", "fetch"))'
            /\ wh1 = N(Has("HMIRePrecess", "postGetWea"))'
            /\ ug1 = N(Has("GetWeather", "postUpdate"))'
            /\ version + fg + fh <= MaxVersion + 1
            /\ GetWea_sem + espwifi_getweath + wh + ug <= commands
      BY <1>1, Numbers, Zenon
    <2>2. fg1 = fg /\ ug1 = ug /\ fh = 0 /\ wh = 0
      BY <1>2, <2>1 DEF N, Counted
    <2>3. /\ version \in Nat /\ GetWea_sem \in Nat /\ espwifi_getweath \in Nat
          /\ commands \in 0 .. MaxCommands /\ seconds \in Nat
          /\ MaxVersion \in Nat /\ MaxCommands \in Nat
      BY <1>1, ScreenAssumption DEF CountsOK, ScreenAssumption
    <2>4. \/ fh1 = 0
          \/ version < MaxVersion
      BY <1>2, <2>1 DEF N, Counted
    <2>5. \/ wh1 = 0 /\ commands' = commands
          \/ commands' = commands + 1 /\ commands < MaxCommands
      BY <1>2, <2>1 DEF N, Counted
    <2>7. version' = version /\ GetWea_sem' = GetWea_sem /\ espwifi_getweath' = espwifi_getweath
      OBVIOUS
    <2>8. version + fg1 + fh1 <= MaxVersion + 1
      <3>1. fg \in {0, 1} /\ fh1 \in {0, 1} /\ version + fg <= MaxVersion + 1
        BY <2>1, <2>2, <2>3
      <3> QED BY <2>2, <2>3, <2>4, <3>1
    <2>9. GetWea_sem + espwifi_getweath + wh1 + ug1 <= commands' /\ commands' \in 0 .. MaxCommands
      <3>1. GetWea_sem + espwifi_getweath + ug1 <= commands /\ ug1 \in {0, 1} /\ wh1 \in {0, 1}
        BY <2>1, <2>2, <2>3
      <3> QED BY <2>3, <2>5, <3>1
    <2>6. /\ version' + fg1 + fh1 <= MaxVersion + 1
          /\ GetWea_sem' + espwifi_getweath' + wh1 + ug1 <= commands'
          /\ commands' \in 0 .. MaxCommands
      BY <2>7, <2>8, <2>9
    <2> QED BY <2>1, <2>3, <2>6 DEF CountsOK
  <1>4. LineOK'
    BY <1>1, <1>2 DEF LineOK, N, Threads
  <1>5. DataOK'
    BY <1>1 DEF DataOK
  <1> QED BY <1>2, <1>3, <1>4, <1>5 DEF TypeInv

LEMMA TypePageCommand ==
  ASSUME TypeInv, PageCommand
  PROVE  TypeInv'
  <1> DEFINE s == Draw \o Do("clearBuffer")
  <1>1. /\ s \in Seq(Steps) /\ Shape("HMIRePrecess", s) /\ s[1].do # "end"
        /\ \A i \in 1 .. Len(s) : s[i].do \notin Counted
    BY DrawProgram
  <1>2. Begins("HMIRePrecess", s) /\ g_page' = asked /\ asked' = NoPage
    BY DEF PageCommand
  <1>3. UNCHANGED <<weather_data, version, copy, GetWea_sem, espwifi_getweath, page, line, shown,
                    seconds, commands>>
    BY DEF PageCommand, dataVars, bounds
  <1>4. g_page' \in Pages \union {NoPage}
    BY <1>2 DEF TypeInv, DataOK
  <1> HIDE DEF s
  <1> QED BY <1>1, <1>2, <1>3, <1>4, TypeHMIRePrecess

LEMMA TypeCommand ==
  ASSUME TypeInv, NEW s, Command(s), NEW r \in Seq(Steps), r = s \o Do("clearBuffer"),
         Short("HMIRePrecess", r), r[1].do # "end",
         \/ version < MaxVersion
         \/ \A i \in 1 .. Len(r) : r[i].do # "fetch"
  PROVE  TypeInv'
  <1>1. Begins("HMIRePrecess", r) /\ commands < MaxCommands /\ commands' = commands + 1
    BY DEF Command
  <1>2. UNCHANGED <<weather_data, version, copy, GetWea_sem, espwifi_getweath, page, line, shown,
                    seconds, g_page, asked>>
    BY DEF Command, dataVars, screenVars
  <1>3. Shape("HMIRePrecess", r)
    BY DEF Short
  <1> QED BY <1>1, <1>2, <1>3, TypeHMIRePrecess

LEMMA TypeCommands ==
  ASSUME TypeInv, UpdateCommand \/ PlaceCommand \/ WifiCommand
  PROVE  TypeInv'
  <1>1. CASE UpdateCommand
    <2> DEFINE s == DisplayLoadIcon(1) \o Refresh \o DisplayLoadIcon(0)
               r == s \o Do("clearBuffer")
    <2>1. Command(s) /\ version < MaxVersion
      BY <1>1 DEF UpdateCommand
    <2>2. Short("HMIRePrecess", r) /\ r[1].do # "end"
      BY UpdateProgram
    <2> HIDE DEF s
    <2>3. r \in Seq(Steps)
      BY <2>2 DEF Short
    <2> QED BY <2>1, <2>2, <2>3, TypeCommand
  <1>2. CASE PlaceCommand
    <2> DEFINE s == Do("clear") \o DisplayLoadIcon(1) \o Refresh \o DisplayLoadIcon(0)
               r == s \o Do("clearBuffer")
    <2>1. Command(s) /\ version < MaxVersion
      BY <1>2 DEF PlaceCommand
    <2>2. Short("HMIRePrecess", r) /\ r[1].do # "end"
      BY PlaceProgram
    <2> HIDE DEF s
    <2>3. r \in Seq(Steps)
      BY <2>2 DEF Short
    <2> QED BY <2>1, <2>2, <2>3, TypeCommand
  <1>3. CASE WifiCommand
    <2> DEFINE s == Do("join") \o DisplayWifiIcon \o Do("postGetWea")
               r == s \o Do("clearBuffer")
    <2>1. Command(s)
      BY <1>3 DEF WifiCommand
    <2>2. Short("HMIRePrecess", r) /\ r[1].do # "end" /\ \A i \in 1 .. Len(r) : r[i].do # "fetch"
      BY WifiProgram
    <2> HIDE DEF s
    <2>3. r \in Seq(Steps)
      BY <2>2 DEF Short
    <2> QED BY <2>1, <2>2, <2>3, TypeCommand
  <1> QED BY <1>1, <1>2, <1>3

LEMMA InitIsTyped == Init => TypeInv
  <1> SUFFICES ASSUME Init PROVE TypeInv
    OBVIOUS
  <1>1. MaxVersion \in Nat /\ MaxCommands \in Nat
    BY ScreenAssumption DEF ScreenAssumption
  <1>2. \A t \in Threads : todo[t] = <<>> /\ Len(todo[t]) = 0
    BY DEF Init
  <1>3. TodoOK
    <2>1. todo \in [Threads -> Seq(Steps)]
      BY DEF Init
    <2>2. \A t \in Threads : Shape(t, todo[t])
      BY <1>2 DEF Shape, Paired, Once
    <2> QED BY <2>1, <2>2 DEF TodoOK
  <1>4. \A t \in Threads : ~Ends(t) /\ \A do : ~Has(t, do)
    BY <1>2 DEF Has, Ends
  <1>5. /\ ~Has("GetWeather", "fetch") /\ ~Has("HMIRePrecess", "fetch")
        /\ ~Has("HMIRePrecess", "postGetWea") /\ ~Has("GetWeather", "postUpdate")
        /\ ~Ends("UpdateHMI") /\ ~Ends("HMIRePrecess")
    BY <1>4 DEF Threads
  <1>6. CountsOK
    BY <1>1, <1>5 DEF CountsOK, N, Init
  <1>7. LineOK
    BY <1>5 DEF LineOK, N, Init
  <1>8. DataOK
    <2>1. 0 \in 0 .. MaxVersion + 1
      BY <1>1
    <2> QED BY <2>1 DEF DataOK, Init, Pages
  <1> QED BY <1>3, <1>6, <1>7, <1>8 DEF TypeInv

LEMMA TypeStep ==
  ASSUME TypeInv, [Next]_vars
  PROVE  TypeInv'
  <1>1. TodoOK /\ CountsOK /\ LineOK /\ DataOK
    BY DEF TypeInv
  <1>2. CASE TurnPage
    <2>1. /\ commands < MaxCommands /\ commands' = commands + 1
          /\ page' \in Pages /\ asked' = page' /\ shown' = {}
          /\ UNCHANGED <<weather_data, version, copy, todo, g_page, GetWea_sem, espwifi_getweath,
                         line, seconds>>
      BY <1>2 DEF TurnPage, dataVars, progVars
    <2>2. TodoOK' /\ LineOK'
      BY <1>1, <2>1 DEF TodoOK, LineOK, Ends
    <2>3. CountsOK'
      <3>1. \A t, do : Has(t, do)' <=> Has(t, do)
        BY <2>1 DEF Has
      <3>2. PICK fg, fh, wh, ug, fg1, fh1, wh1, ug1 \in {0, 1} :
              /\ fg = N(Has("GetWeather", "fetch")) /\ fh = N(Has("HMIRePrecess", "fetch"))
              /\ wh = N(Has("HMIRePrecess", "postGetWea")) /\ ug = N(Has("GetWeather", "postUpdate"))
              /\ fg1 = N(Has("GetWeather", "fetch"))' /\ fh1 = N(Has("HMIRePrecess", "fetch"))'
              /\ wh1 = N(Has("HMIRePrecess", "postGetWea"))'
              /\ ug1 = N(Has("GetWeather", "postUpdate"))'
              /\ version + fg + fh <= MaxVersion + 1
              /\ GetWea_sem + espwifi_getweath + wh + ug <= commands
        BY <1>1, Numbers, Zenon
      <3>3. fg1 = fg /\ fh1 = fh /\ wh1 = wh /\ ug1 = ug
        BY <3>1, <3>2 DEF N
      <3>4. /\ version \in Nat /\ GetWea_sem \in Nat /\ espwifi_getweath \in Nat
            /\ commands \in 0 .. MaxCommands /\ seconds \in Nat /\ MaxCommands \in Nat
        BY <1>1, ScreenAssumption DEF CountsOK, ScreenAssumption
      <3>5. /\ version + fg1 + fh1 <= MaxVersion + 1 /\ commands' \in 0 .. MaxCommands
            /\ GetWea_sem + espwifi_getweath + wh1 + ug1 <= commands'
        BY <2>1, <3>2, <3>3, <3>4
      <3> QED BY <2>1, <3>2, <3>4, <3>5 DEF CountsOK
    <2>4. DataOK'
      BY <1>1, <2>1 DEF DataOK
    <2> QED BY <2>2, <2>3, <2>4 DEF TypeInv
  <1>3. CASE RTC_IRQHandler
    <2>1. /\ seconds' = seconds + 1 /\ line' = <<>>
          /\ UNCHANGED <<weather_data, version, copy, todo, g_page, GetWea_sem, espwifi_getweath,
                         page, asked, shown, commands>>
      BY <1>3 DEF RTC_IRQHandler, dataVars, progVars
    <2>2. TodoOK' /\ DataOK'
      BY <1>1, <2>1 DEF TodoOK, DataOK
    <2>3. LineOK'
      BY <2>1 DEF LineOK, N
    <2>4. CountsOK'
      <3>1. \A t, do : Has(t, do)' <=> Has(t, do)
        BY <2>1 DEF Has
      <3> QED BY <1>1, <2>1, <3>1 DEF CountsOK, N
    <2> QED BY <2>2, <2>3, <2>4 DEF TypeInv
  <1>4. CASE UNCHANGED vars
    BY <1>1, <1>4 DEF vars, dataVars, progVars, screenVars, bounds, TypeInv, TodoOK, CountsOK, LineOK,
                      DataOK, Has, Ends
  <1>5. CASE \E t \in Threads : Thread(t)
    <2>1. PICK t \in Threads : Thread(t)
      BY <1>5
    <2>2. TodoOK'
      BY <1>1, <2>1, ThreadMoves DEF Moves
    <2> QED BY <1>1, <2>1, <2>2, CountsThread, LineThread, DataThread DEF TypeInv
  <1> QED BY <1>2, <1>3, <1>4, <1>5, TypeGetWeather, TypeUpdateHMI, TypePageCommand, TypeCommands
       DEF Next

LEMMA AlwaysTyped == Spec => []TypeInv
  BY InitIsTyped, TypeStep, PTL DEF Spec

LEMMA TypedIsOK == TypeInv => TypeOK
  <1> SUFFICES ASSUME TypeInv PROVE TypeOK
    OBVIOUS
  <1>1. /\ weather_data \in [Parts -> 0 .. MaxVersion + 1]
        /\ copy \in [Threads -> [Parts -> 0 .. MaxVersion + 1]]
        /\ g_page \in Pages \union {NoPage} /\ page \in Pages
        /\ asked \in Pages \union {NoPage}
        /\ shown \subseteq Texts
    BY DEF TypeInv, DataOK
  <1>2. GetWea_sem \in 0 .. MaxCommands /\ espwifi_getweath \in 0 .. MaxCommands
    <2>1. PICK fg, fh, wh, ug, fg1, fh1, wh1, ug1 \in {0, 1} :
            GetWea_sem + espwifi_getweath + wh + ug <= commands
      BY Numbers, Zenon DEF TypeInv
    <2>2. GetWea_sem \in Nat /\ espwifi_getweath \in Nat /\ commands \in 0 .. MaxCommands
      BY DEF TypeInv, CountsOK
    <2>3. MaxCommands \in Nat
      BY ScreenAssumption DEF ScreenAssumption
    <2> QED BY <2>1, <2>2, <2>3
  <1>3. line \in Seq(Texts) /\ Len(line) <= Cardinality(Threads)
    <2>1. line \in Seq(Texts) /\ Len(line) <= 2 /\ Len(line) \in Nat
      BY DEF TypeInv, LineOK, N
    <2>2. Cardinality(Threads) = 3
      <3>1. Cardinality({"GetWeather"}) = 1 /\ IsFiniteSet({"GetWeather"})
        BY FS_Singleton
      <3>2. /\ Cardinality({"GetWeather"} \union {"UpdateHMI"}) = 2
            /\ IsFiniteSet({"GetWeather"} \union {"UpdateHMI"})
        BY <3>1, FS_AddElement
      <3>3. Cardinality(({"GetWeather"} \union {"UpdateHMI"}) \union {"HMIRePrecess"}) = 3
        BY <3>2, FS_AddElement
      <3>4. Threads = ({"GetWeather"} \union {"UpdateHMI"}) \union {"HMIRePrecess"}
        BY DEF Threads
      <3> QED BY <3>3, <3>4
    <2> QED BY <2>1, <2>2
  <1> QED BY <1>1, <1>2, <1>3 DEF TypeOK

\* In every run the semaphores are posted no more often than there are
\* commands, no version is stored that was not fetched, and the serial port
\* holds the texts of two threads at most.
THEOREM ScreenTypeOK == Spec => []TypeOK
  BY AlwaysTyped, TypedIsOK, PTL
-----------------------------------------------------------------------------
(***************************************************************************)
(* The inductive invariant of ShowsTheData.  A line that is still to be    *)
(* written is made from a copy of data there have been since the draws     *)
(* began; so is what the serial port holds; and each line of the page is   *)
(* shown, or lost, or in the serial port, or still asked for.              *)
(***************************************************************************)
VersionsOf(l) == IF l.part \in Parts THEN held[l.part] ELSE {0}
TextsOf(l) == {[name |-> l.name, day |-> l.day, version |-> v] : v \in VersionsOf(l)}

HeldOK == \A part \in Parts : weather_data[part] \in held[part]

CopiedIn(c, versions, s) ==
  \A i \in 1 .. Len(s) : \A l \in LinesOf(s[i]) :
    l.part \in Parts => c[l.part] \in versions[l.part] \/ Copies(s, i, l.part)
Copied == \A t \in Drawers : CopiedIn(copy[t], held, todo[t])

LineFrom == \A i \in 1 .. Len(line) : \E l \in Lines : line[i] \in TextsOf(l)

Kept(l) == l.name \in lost \/ \E x \in TextsOf(l) : x \in shown
InLine(l) == \E i \in 1 .. Len(line) : line[i].name = l.name
Asked(l) == \E t \in Drawers : Asks(todo[t], page, l)
Pending ==
  g_page = page /\ drawn => \A l \in LinesOfPage(page) : Kept(l) \/ InLine(l) \/ Asked(l)

Accounted == HeldOK /\ Copied /\ LineFrom /\ Pending
ShowsInv == TypeInv /\ Accounted

\* What a step of a thread does to the lines it has still to write.
\* What a step of a thread does to the lines it has still to write.
LEMMA DroppedAsks ==
  ASSUME NEW s, NEW r, Dropped(s, r), NEW p, NEW l, Asks(s, p, l)
  PROVE  \/ Asks(r, p, l)
         \/ l \in LinesOf(s[1]) /\ (s[1].do = "onPage" => s[1].arg = p)
  <1>1. PICK i \in 1 .. Len(s) : l \in LinesOf(s[i]) /\ (s[i].do = "onPage" => s[i].arg = p)
    BY DEF Asks
  <1>2. CASE i = 1
    BY <1>1, <1>2
  <1>3. CASE i # 1
    <2>1. i - 1 \in 1 .. Len(r) /\ (i - 1) + 1 = i
      BY <1>3 DEF Dropped
    <2>2. r[i - 1] = s[i]
      BY <2>1 DEF Dropped
    <2> QED BY <1>1, <2>1, <2>2 DEF Asks
  <1> QED BY <1>2, <1>3

LEMMA DroppedCopied ==
  ASSUME NEW s, NEW r, Dropped(s, r), NEW c, NEW c1, NEW held0, NEW held1,
         CopiedIn(c, held0, s),
         \A part \in Parts : held0[part] \subseteq held1[part],
         \A part \in Parts : \/ c1[part] \in held1[part]
                             \/ c1[part] = c[part] /\ s[1] # PlainStep("copy", part)
  PROVE  CopiedIn(c1, held1, r)
  <1> SUFFICES ASSUME NEW i \in 1 .. Len(r), NEW l \in LinesOf(r[i]), l.part \in Parts,
                      c1[l.part] \notin held1[l.part]
               PROVE  Copies(r, i, l.part)
    BY DEF CopiedIn
  <1>1. c1[l.part] = c[l.part] /\ s[1] # PlainStep("copy", l.part)
    OBVIOUS
  <1>2. i + 1 \in 1 .. Len(s) /\ r[i] = s[i + 1] /\ Len(r) \in Nat
    BY DEF Dropped
  <1>3. Copies(s, i + 1, l.part)
    BY <1>1, <1>2 DEF CopiedIn
  <1>4. PICK j \in 1 .. (i + 1) - 1 : s[j] = PlainStep("copy", l.part)
    BY <1>3 DEF Copies
  <1>5. j # 1
    BY <1>1, <1>4
  <1>6. j - 1 \in 1 .. i - 1 /\ j - 1 \in 1 .. Len(r) /\ (j - 1) + 1 = j
    BY <1>2, <1>4, <1>5
  <1>7. r[j - 1] = PlainStep("copy", l.part)
    BY <1>4, <1>6 DEF Dropped
  <1> QED BY <1>6, <1>7 DEF Copies

LEMMA WrittenAsks ==
  ASSUME NEW s, NEW r, Written(s, r), s[1] \in PageSteps, NEW p, NEW l, Asks(s, p, l)
  PROVE  Asks(r, p, l)
  <1> DEFINE n == Len(s[1].lines)
  <1>1. PICK i \in 1 .. Len(s) : l \in LinesOf(s[i]) /\ (s[i].do = "onPage" => s[i].arg = p)
    BY DEF Asks
  <1>2. /\ n \in {1, 2} /\ Len(s) \in Nat /\ Len(s) >= 1 /\ Len(r) = 2 * n + Len(s) - 1
        /\ \A k \in 1 .. n : r[2 * k - 1] = TextStep(s[1].lines[k])
    BY WrittenIs
  <1>3. CASE i = 1
    <2>1. PICK k \in 1 .. n : l = s[1].lines[k]
      BY <1>1, <1>3 DEF LinesOf
    <2> HIDE DEF n
    <2>2. r[2 * k - 1] = TextStep(l)
      BY <1>2, <2>1
    <2>3. LinesOf(r[2 * k - 1]) = {l} /\ r[2 * k - 1].do = "text"
      <3>1. TextStep(l).do = "text" /\ TextStep(l).lines = <<l>>
        BY TextIs
      <3>2. {<<l>>[j] : j \in 1 .. Len(<<l>>)} = {l}
        OBVIOUS
      <3> QED BY <2>2, <3>1, <3>2 DEF LinesOf
    <2>4. k \in {1, 2} /\ k <= n
      BY <1>2
    <2>5. 2 * k - 1 \in 1 .. Len(r)
      BY <1>2, <2>4
    <2> QED BY <2>3, <2>5 DEF Asks
  <1>4. CASE i # 1
    <2> HIDE DEF n
    <2>1. i - 1 + 2 * n \in 2 * n + 1 .. Len(r) /\ i - 1 + 2 * n \in 1 .. Len(r)
          /\ (i - 1 + 2 * n) + 1 - 2 * n = i
      BY <1>2, <1>4
    <2>2. \A j \in 2 * n + 1 .. Len(r) : r[j] = s[j + 1 - 2 * n]
      BY DEF Written, n
    <2>3. r[i - 1 + 2 * n] = s[i]
      BY <2>1, <2>2
    <2> QED BY <1>1, <2>1, <2>3 DEF Asks
  <1> QED BY <1>3, <1>4

LEMMA WrittenCopied ==
  ASSUME NEW s, NEW r, Written(s, r), s[1] \in PageSteps, NEW c, NEW held0, NEW held1,
         CopiedIn(c, held0, s), \A part \in Parts : held0[part] \subseteq held1[part]
  PROVE  CopiedIn(c, held1, r)
  <1> DEFINE n == Len(s[1].lines)
  <1>0. /\ n \in {1, 2} /\ Len(s) \in Nat /\ Len(s) >= 1 /\ Len(r) = 2 * n + Len(s) - 1
        /\ \A k \in 1 .. n : /\ s[1].lines[k] \in PageLines
                             /\ r[2 * k - 1] = TextStep(s[1].lines[k])
                             /\ r[2 * k] = Bare("end")
        /\ \A i \in 1 .. Len(r) :
             \/ \E k \in 1 .. n : i \in {2 * k - 1, 2 * k}
             \/ i > 2 * n /\ i + 1 - 2 * n \in 2 .. Len(s) /\ r[i] = s[i + 1 - 2 * n]
    BY WrittenIs
  <1> SUFFICES ASSUME NEW i \in 1 .. Len(r), NEW l \in LinesOf(r[i]), l.part \in Parts,
                      c[l.part] \notin held1[l.part]
               PROVE  Copies(r, i, l.part)
    BY DEF CopiedIn
  <1>1. /\ n \in {1, 2} /\ Len(s) \in Nat /\ Len(s) >= 1 /\ Len(r) = 2 * n + Len(s) - 1
        /\ \A k \in 1 .. n : /\ r[2 * k - 1] = TextStep(s[1].lines[k])
                             /\ r[2 * k] = Bare("end")
        /\ \/ \E k \in 1 .. n : i \in {2 * k - 1, 2 * k}
           \/ i > 2 * n /\ i + 1 - 2 * n \in 2 .. Len(s) /\ r[i] = s[i + 1 - 2 * n]
    <2> HIDE DEF n
    <2> QED BY <1>0
  <1>2. c[l.part] \notin held0[l.part]
    OBVIOUS
  <1>3. CASE \E k \in 1 .. n : i \in {2 * k - 1, 2 * k}
    <2>1. PICK k \in 1 .. n : i \in {2 * k - 1, 2 * k}
      BY <1>3
    <2>2. r[i] = TextStep(s[1].lines[k]) \/ r[i] = Bare("end")
      BY <1>1, <2>1
    <2>3. r[i].lines = <<s[1].lines[k]>> \/ r[i].lines = <<>>
      BY <2>2, TextIs, BareIs
    <2>4. /\ {<<s[1].lines[k]>>[j] : j \in 1 .. Len(<<s[1].lines[k]>>)} = {s[1].lines[k]}
          /\ {<<>>[j] : j \in 1 .. Len(<<>>)} = {}
      BY NoneOf
    <2>5. l = s[1].lines[k]
      BY <2>3, <2>4 DEF LinesOf
    <2>6. 1 \in 1 .. Len(s) /\ l \in LinesOf(s[1])
      BY <1>1, <2>5 DEF LinesOf
    <2>7. Copies(s, 1, l.part)
      BY <1>2, <2>6 DEF CopiedIn
    <2> QED BY <2>7 DEF Copies
  <1>4. CASE i > 2 * n /\ i + 1 - 2 * n \in 2 .. Len(s) /\ r[i] = s[i + 1 - 2 * n]
    <2>1. i + 1 - 2 * n \in 1 .. Len(s)
      BY <1>1, <1>4
    <2>2. Copies(s, i + 1 - 2 * n, l.part)
      BY <1>4, <1>2, <2>1 DEF CopiedIn
    <2>3. PICK j \in 1 .. (i + 1 - 2 * n) - 1 : s[j] = PlainStep("copy", l.part)
      BY <2>2 DEF Copies
    <2>4. j # 1
      <3>1. s[1].do = "onPage" /\ PlainStep("copy", l.part).do = "copy"
        BY PageFacts, PlainIs
      <3> QED BY <2>3, <3>1
    <2>5. \A k \in 2 * n + 1 .. Len(r) : r[k] = s[k + 1 - 2 * n]
      BY DEF Written
    <2> HIDE DEF n
    <2>6. /\ j - 1 + 2 * n \in 1 .. i - 1 /\ j - 1 + 2 * n \in 2 * n + 1 .. Len(r)
          /\ (j - 1 + 2 * n) + 1 - 2 * n = j
      BY <1>1, <1>4, <2>3, <2>4
    <2>7. r[j - 1 + 2 * n] = PlainStep("copy", l.part)
      BY <2>3, <2>5, <2>6
    <2> QED BY <2>6, <2>7 DEF Copies
  <1> QED BY <1>1, <1>3, <1>4
-----------------------------------------------------------------------------
(***************************************************************************)
(* The history variables, in a step that begins no draw alone.             *)
(***************************************************************************)
Grows ==
  /\ \A part \in Parts : held[part] \subseteq held'[part]
  /\ \A part \in Parts : weather_data'[part] \in held'[part]

LEMMA HeldGrows ==
  ASSUME HeldNext, ~BeginsAlone
  PROVE  Grows
  <1>1. held' = [p \in Parts |-> held[p] \union {weather_data'[p]}]
    BY DEF HeldNext
  <1> QED BY <1>1 DEF Grows

LEMMA TextsGrow ==
  ASSUME Grows
  PROVE  \A l : TextsOf(l) \subseteq TextsOf(l)'
  BY DEF Grows, TextsOf, VersionsOf

\* What is lost when a line does not end, when it ends as one, and when not.
LEMMA LostIs ==
  ASSUME LostNext, ~BeginsAlone
  PROVE  /\ ~Ended => lost' = lost
         /\ Ended /\ Len(line) = 1 /\ seconds' = seconds => lost' = lost \ {line[1].name}
         /\ Ended /\ ~(Len(line) = 1 /\ seconds' = seconds)
              => lost' = lost \union {line[i].name : i \in 1 .. Len(line)}
  <1>1. CASE ~Ended
    BY <1>1 DEF LostNext
  <1>2. CASE Ended /\ Len(line) = 1 /\ seconds' = seconds
    BY <1>2 DEF LostNext
  <1>3. CASE Ended /\ ~(Len(line) = 1 /\ seconds' = seconds)
    BY <1>3 DEF LostNext
  <1> QED BY <1>1, <1>2, <1>3

LEMMA LineStays ==
  ASSUME LineFrom, Grows, line' = line \/ line' = <<>>
  PROVE  LineFrom'
  <1>1. CASE line' = line
    BY <1>1, TextsGrow DEF LineFrom
  <1>2. CASE line' = <<>>
    <2>1. Len(line') = 0
      BY <1>2
    <2> QED BY <2>1 DEF LineFrom
  <1> QED BY <1>1, <1>2

LEMMA KeptStays ==
  ASSUME Grows, lost' = lost, shown' = shown
  PROVE  \A l : Kept(l) => Kept(l)'
  BY TextsGrow DEF Kept
-----------------------------------------------------------------------------
(***************************************************************************)
(* A step of a thread.                                                     *)
(***************************************************************************)
LEMMA NamesOfLines ==
  ASSUME NEW p \in Pages, NEW l \in LinesOfPage(p)
  PROVE  /\ l \in Lines /\ PageOf(l.name) = p
         /\ \A m \in Lines : m.name = l.name => m = l
  <1>1. CASE p = Desk
    <2>1. l \in {Line("DeskIcon", "now", 0), Line("DeskTem", "now", 0),
                 Line("WindDirTxt", "daily", 0), Line("WifiIcon", "wifi", 0)}
      BY <1>1 DEF LinesOfPage
    <2>2. l \in Lines /\ PageOf(l.name) = Desk
      BY <2>1, LineIs DEF Lines, PageOf
    <2>3. \A m \in Lines : m.name = l.name => m = l
      BY <2>1, LineIs DEF Lines, LoadIcon
    <2> QED BY <1>1, <2>2, <2>3
  <1>2. CASE p = Daily /\ p # Desk
    <2>1. l \in {Line("AfterTomorIcon", "daily", 2), Line("AfterTorTemp", "daily", 1),
                 Line("AftorWind", "daily", 2)}
      BY <1>2 DEF LinesOfPage
    <2>2. l \in Lines /\ PageOf(l.name) = Daily
      BY <2>1, LineIs DEF Lines, PageOf
    <2>3. \A m \in Lines : m.name = l.name => m = l
      BY <2>1, LineIs DEF Lines, LoadIcon
    <2> QED BY <1>2, <2>2, <2>3
  <1> QED BY <1>1, <1>2 DEF Pages

LEMMA CopiedThread ==
  ASSUME TodoOK, DataOK, HeldOK, Copied, Grows, NEW t \in Threads, Thread(t)
  PROVE  Copied'
  <1> SUFFICES ASSUME NEW u \in Drawers
               PROVE  CopiedIn(copy'[u], held', todo'[u])
    BY DEF Copied
  <1>1. Moves(t) /\ (~CheckPage(t) => Dropped(todo[t], todo'[t]))
    BY ThreadMoves
  <1>2. CopiedIn(copy[u], held, todo[u])
    BY DEF Copied
  <1>3. \A do : Does(t, do) => todo[t][1].do = do /\ todo[t][1] \in Steps /\ Now(t) = todo[t][1]
    BY DoesIs DEF Does
  <1>4. ~CopyPart(t) => copy' = copy
    BY DEF Thread, CheckPage, WriteText, WriteEnd, StorePart, Fetch, ClearData, Join,
           PostGetWea, PostUpdate, ClearBuffer, dataVars
  <1>5. CASE u # t
    <2>1. todo'[u] = todo[u]
      BY <1>1, <1>5 DEF Moves, Threads, Drawers
    <2>2. copy'[u] = copy[u]
      BY <1>4, <1>5 DEF CopyPart, DataOK, Threads, Drawers
    <2> QED BY <1>2, <2>1, <2>2 DEF CopiedIn, Grows
  <1>6. CASE u = t /\ CopyPart(t)
    <2> DEFINE arg == Now(t).arg
    <2>1. todo[t][1] \in PlainSteps \union StoreSteps \union CopySteps
      BY <1>3, <1>6, StepKinds DEF CopyPart
    <2>2. arg \in Parts /\ todo[t][1] = PlainStep("copy", arg)
      BY <1>3, <1>6, <2>1, PlainFacts DEF CopyPart
    <2>3. copy' = [copy EXCEPT ![t][arg] = weather_data[arg]]
      BY <1>6 DEF CopyPart
    <2> HIDE DEF arg
    <2>4. ASSUME NEW part \in Parts
          PROVE  \/ copy'[t][part] \in held'[part]
                 \/ copy'[t][part] = copy[t][part] /\ todo[t][1] # PlainStep("copy", part)
      <3>1. CASE part = arg
        <4>1. copy'[t][part] = weather_data[part]
          BY <2>2, <2>3, <3>1 DEF DataOK
        <4> QED BY <4>1 DEF HeldOK, Grows
      <3>2. CASE part # arg
        <4>1. copy'[t][part] = copy[t][part]
          BY <2>2, <2>3, <3>2 DEF DataOK
        <4>2. PlainStep("copy", part) # PlainStep("copy", arg)
          BY <3>2, PlainIs
        <4> QED BY <2>2, <4>1, <4>2
      <3> QED BY <3>1, <3>2
    <2>5. Dropped(todo[t], todo'[t])
      <3>1. ~CheckPage(t)
        BY <1>3, <1>6 DEF CopyPart, CheckPage
      <3> QED BY <1>1, <3>1
    <2>6. \A part \in Parts : held[part] \subseteq held'[part]
      BY DEF Grows
    <2> QED BY <1>2, <1>6, <2>4, <2>5, <2>6, DroppedCopied
  <1>7. CASE u = t /\ ~CopyPart(t) /\ Dropped(todo[t], todo'[t])
    <2>1. todo[t][1].do # "copy"
      <3>1. \E do \in (Drawing \union Plain \union {"store"}) \ {"copy"} : Does(t, do)
        BY <1>7 DEF Thread, CheckPage, WriteText, WriteEnd, StorePart, Fetch, ClearData, Join,
                    PostGetWea, PostUpdate, ClearBuffer, Drawing, Plain
      <3> QED BY <1>3, <3>1
    <2>2. \A part \in Parts : todo[t][1] # PlainStep("copy", part)
      BY <2>1, PlainIs
    <2>3. copy'[t] = copy[t]
      BY <1>4, <1>7
    <2>4. \A part \in Parts : held[part] \subseteq held'[part]
      BY DEF Grows
    <2> QED BY <1>2, <1>7, <2>2, <2>3, <2>4, DroppedCopied
  <1>8. CASE u = t /\ ~CopyPart(t) /\ ~Dropped(todo[t], todo'[t])
    <2>1. Written(todo[t], todo'[t]) /\ todo[t][1] \in PageSteps
      BY <1>1, <1>8, ChecksPage
    <2>2. copy'[t] = copy[t]
      BY <1>4, <1>8
    <2>3. \A part \in Parts : held[part] \subseteq held'[part]
      BY DEF Grows
    <2> QED BY <1>2, <1>8, <2>1, <2>2, <2>3, WrittenCopied
  <1> QED BY <1>5, <1>6, <1>7, <1>8

\* A thread that keeps what it asks for, or puts it into the line, or drops
\* it because it is not about this page.
LEMMA AskedStays ==
  ASSUME TodoOK, NEW t \in Threads, Thread(t), page' = page, NEW l, Asked(l),
         g_page = page
  PROVE  Asked(l)' \/ (todo[t][1].do # "onPage" /\ l \in LinesOf(todo[t][1]))
  <1>1. PICK u \in Drawers : Asks(todo[u], page, l)
    BY DEF Asked
  <1>2. Moves(t) /\ (~CheckPage(t) => Dropped(todo[t], todo'[t]))
    BY ThreadMoves
  <1>3. CASE u # t
    <2>1. todo'[u] = todo[u]
      BY <1>2, <1>3 DEF Moves, Drawers, Threads
    <2> QED BY <1>1, <2>1 DEF Asked
  <1>4. CASE u = t /\ CheckPage(t)
    <2>1. /\ todo[t][1] \in PageSteps /\ t \in Drawers
          /\ g_page = todo[t][1].arg => Written(todo[t], todo'[t])
          /\ g_page # todo[t][1].arg => Dropped(todo[t], todo'[t])
      BY <1>4, ChecksPage
    <2>2. todo[t][1].do = "onPage"
      BY <2>1, PageFacts
    <2>3. CASE g_page = todo[t][1].arg
      <3>1. Asks(todo'[t], page, l)
        BY <1>1, <1>4, <2>1, <2>3, WrittenAsks
      <3> QED BY <2>1, <3>1 DEF Asked
    <2>4. CASE g_page # todo[t][1].arg
      <3>1. Asks(todo'[t], page, l)
        BY <1>1, <1>4, <2>1, <2>2, <2>4, DroppedAsks
      <3> QED BY <2>1, <3>1 DEF Asked
    <2> QED BY <2>3, <2>4
  <1>5. CASE u = t /\ ~CheckPage(t)
    <2>1. todo[t][1].do # "onPage"
      <3>1. \E do \in (Drawing \union Plain \union {"store"}) \ {"onPage"} : Does(t, do)
        BY <1>5 DEF Thread, CopyPart, WriteText, WriteEnd, StorePart, Fetch, ClearData, Join,
                    PostGetWea, PostUpdate, ClearBuffer, Drawing, Plain
      <3>2. \A do : Does(t, do) => todo[t][1].do = do
        BY DoesIs DEF Does
      <3> QED BY <3>1, <3>2
    <2>2. Asks(todo'[t], page, l) \/ l \in LinesOf(todo[t][1])
      BY <1>1, <1>2, <1>5, DroppedAsks
    <2> QED BY <1>5, <2>1, <2>2 DEF Asked
  <1> QED BY <1>3, <1>4, <1>5

\* A step that writes nothing
LEMMA QuietThread ==
  ASSUME TypeInv, LineFrom, Pending, Grows, LostNext, ~BeginsAlone, drawn' => drawn,
         NEW t \in Threads, Thread(t), ~WriteText(t), ~WriteEnd(t)
  PROVE  LineFrom' /\ Pending'
  <1>0. TodoOK
    BY DEF TypeInv
  <1>1. /\ UNCHANGED <<line, shown, g_page, page>>
        /\ \E do \in (Drawing \union Plain \union {"store"}) \ {"text", "end"} : Does(t, do)
    BY DEF Thread, CopyPart, CheckPage, StorePart, Fetch, ClearData, Join, PostGetWea,
           PostUpdate, ClearBuffer, screenVars, Drawing, Plain
  <1>2. \A do : Does(t, do) => todo[t][1].do = do /\ todo[t][1] \in Steps
    BY <1>0, DoesIs DEF Does
  <1>3. todo[t][1].do # "onPage" => LinesOf(todo[t][1]) = {}
    BY <1>1, <1>2, StepLines
  <1>4. lost' = lost
    <2>1. ~Ended
      BY <1>1 DEF Ended
    <2> QED BY <2>1, LostIs
  <1>5. LineFrom'
    BY <1>1, LineStays
  <1>6. Pending'
    <2> SUFFICES ASSUME g_page = page, drawn, NEW l \in LinesOfPage(page)
                 PROVE  Kept(l)' \/ InLine(l)' \/ Asked(l)'
      BY <1>1 DEF Pending
    <2>1. Kept(l) \/ InLine(l) \/ Asked(l)
      BY DEF Pending
    <2>2. InLine(l) => InLine(l)'
      BY <1>1 DEF InLine
    <2>3. Asked(l) => Asked(l)'
      BY <1>0, <1>1, <1>3, AskedStays
    <2> QED BY <1>1, <1>4, <2>1, <2>2, <2>3, KeptStays
  <1> QED BY <1>5, <1>6

LEMMA TextThread ==
  ASSUME TypeInv, Copied, LineFrom, Pending, Grows, LostNext, ~BeginsAlone, drawn' => drawn,
         NEW t \in Threads, WriteText(t)
  PROVE  LineFrom' /\ Pending'
  <1>0. TodoOK /\ Thread(t) /\ line \in Seq(Texts)
    BY DEF TypeInv, Thread, LineOK
  <1> DEFINE s == todo[t]
             n == Len(line)
  <1>1. /\ ~Idle(t) /\ s[1].do = "text" /\ s[1] \in TextSteps /\ "text" \in Kind(t)
        /\ Now(t) = s[1] /\ Len(s) >= 1 /\ Len(s) \in Nat
    BY <1>0, DoesIs, StepKinds DEF WriteText, Does
  <1>2. t \in Drawers
    BY <1>1 DEF Kind, Threads, Drawers
  <1>3. PICK m \in Lines : m = s[1].lines[1] /\ LinesOf(s[1]) = {m}
    BY <1>1, TextFacts
  <1>4. PICK x \in Texts : x = Text(t, m)
    BY TextType DEF TypeInv
  <1>5. /\ line' = Append(line, x)
        /\ UNCHANGED <<shown, g_page, page>>
    BY <1>1, <1>3, <1>4 DEF WriteText
  <1>6. x \in TextsOf(m)' /\ x.name = m.name
    <2>1. 1 \in 1 .. Len(s) /\ m \in LinesOf(s[1])
      BY <1>1, <1>3
    <2>2. m.part \in Parts => copy[t][m.part] \in held[m.part] \/ Copies(s, 1, m.part)
      BY <1>2, <2>1 DEF Copied, CopiedIn
    <2>3. ~Copies(s, 1, m.part)
      BY DEF Copies
    <2>4. x \in TextsOf(m)
      <3> DEFINE v == IF m.part \in Parts THEN copy[t][m.part] ELSE 0
      <3>1. v \in VersionsOf(m)
        BY <2>2, <2>3 DEF VersionsOf
      <3>2. x = [name |-> m.name, day |-> m.day, version |-> v]
        BY <1>4 DEF Text
      <3> HIDE DEF v
      <3> QED BY <3>1, <3>2 DEF TextsOf
    <2>5. x.name = m.name
      BY <1>4 DEF Text
    <2> QED BY <2>4, <2>5, TextsGrow
  <1>7. /\ n \in Nat /\ Len(line') = n + 1 /\ line'[n + 1] = x
        /\ \A i \in 1 .. n : line'[i] = line[i]
    BY <1>0, <1>5
  <1> HIDE DEF n
  <1>8. lost' = lost
    <2>1. line' # <<>>
      <3>1. Len(line') # 0
        BY <1>7
      <3> QED BY <3>1
    <2> QED BY <2>1, LostIs DEF Ended
  <1>9. LineFrom'
    <2> SUFFICES ASSUME NEW i \in 1 .. Len(line')
                 PROVE  \E l \in Lines : line'[i] \in TextsOf(l)'
      BY DEF LineFrom
    <2>1. CASE i = n + 1
      BY <1>3, <1>6, <1>7, <2>1
    <2>2. CASE i # n + 1
      <3>1. i \in 1 .. n
        BY <1>7, <2>2
      <3>2. PICK l \in Lines : line[i] \in TextsOf(l)
        BY <3>1 DEF LineFrom, n
      <3> QED BY <1>7, <3>1, <3>2, TextsGrow
    <2> QED BY <2>1, <2>2
  <1>10. Pending'
    <2> SUFFICES ASSUME g_page = page, drawn, NEW l \in LinesOfPage(page)
                 PROVE  Kept(l)' \/ InLine(l)' \/ Asked(l)'
      BY <1>5 DEF Pending
    <2>1. Kept(l) \/ InLine(l) \/ Asked(l)
      BY DEF Pending
    <2>2. InLine(l) => InLine(l)'
      <3> SUFFICES ASSUME InLine(l) PROVE InLine(l)'
        OBVIOUS
      <3>1. PICK i \in 1 .. n : line[i].name = l.name
        BY DEF InLine, n
      <3>2. i \in 1 .. Len(line') /\ line'[i].name = l.name
        BY <1>7, <3>1
      <3> QED BY <3>2 DEF InLine
    <2>3. Asked(l) => Asked(l)' \/ l = m
      BY <1>0, <1>3, <1>5, AskedStays
    <2>4. l = m => InLine(l)'
      <3>1. n + 1 \in 1 .. Len(line')
        BY <1>7
      <3> QED BY <1>6, <1>7, <3>1 DEF InLine
    <2> QED BY <1>5, <1>8, <2>1, <2>2, <2>3, <2>4, KeptStays
  <1> QED BY <1>9, <1>10

\* The end of a line: its one text is shown, and more than one are lost.
LEMMA EndThread ==
  ASSUME TypeInv, LineFrom, Pending, Grows, LostNext, ~BeginsAlone, drawn' => drawn,
         NEW t \in Threads, WriteEnd(t)
  PROVE  LineFrom' /\ Pending'
  <1>0. TodoOK /\ Thread(t) /\ page \in Pages /\ line \in Seq(Texts)
    BY DEF TypeInv, Thread, DataOK, LineOK
  <1>1. todo[t][1].do = "end" /\ todo[t][1] \in Steps
    BY <1>0, DoesIs DEF WriteEnd, Does
  <1>2. LinesOf(todo[t][1]) = {}
    BY <1>1, StepLines
  <1>3. /\ line' = <<>> /\ seconds' = seconds
        /\ shown' = IF Len(line) = 1 THEN Shows(line[1]) ELSE shown
        /\ UNCHANGED <<g_page, page>>
    BY DEF WriteEnd, bounds
  <1>4. LineFrom'
    BY <1>3, LineStays
  <1>5. /\ line = <<>> => Len(line) = 0 /\ ~Ended
        /\ line # <<>> => Ended
        /\ Len(line) \in Nat
    BY <1>0, <1>3 DEF Ended
  <1>6. Pending'
    <2>0. ASSUME g_page = page, NEW l, Asked(l) PROVE Asked(l)'
      BY <1>0, <1>2, <1>3, <2>0, AskedStays
    <2> SUFFICES ASSUME g_page = page, drawn, NEW l \in LinesOfPage(page),
                        Kept(l) \/ InLine(l)
                 PROVE  Kept(l)'
      BY <1>3, <2>0 DEF Pending
    <2>1. CASE line = <<>>
      <3>1. ~InLine(l)
        BY <1>5, <2>1 DEF InLine
      <3>2. shown' = shown /\ lost' = lost
        BY <1>3, <1>5, <2>1, LostIs
      <3> QED BY <3>1, <3>2, KeptStays
    <2>2. CASE line # <<>> /\ Len(line) = 1
      <3>1. PICK m \in Lines : line[1] \in TextsOf(m)
        BY <2>2 DEF LineFrom
      <3>2. line[1].name = m.name /\ line[1] \in TextsOf(m)'
        BY <3>1, TextsGrow DEF TextsOf
      <3>3. lost' = lost \ {line[1].name} /\ shown' = Shows(line[1])
        BY <1>3, <1>5, <2>2, LostIs
      <3>4. l \in Lines /\ PageOf(l.name) = page /\ (m.name = l.name => m = l)
        BY <1>0, <3>1, NamesOfLines
      <3>5. CASE l.name = line[1].name
        <4>1. line[1] \in shown' /\ line[1] \in TextsOf(l)'
          BY <3>2, <3>3, <3>4, <3>5 DEF Shows
        <4> QED BY <4>1 DEF Kept
      <3>6. CASE l.name # line[1].name
        <4>1. ~InLine(l)
          BY <2>2, <3>6 DEF InLine
        <4>2. CASE l.name \in lost
          BY <3>3, <3>6, <4>2 DEF Kept
        <4>3. CASE \E x \in TextsOf(l) : x \in shown
          <5>1. PICK x \in TextsOf(l) : x \in shown
            BY <4>3
          <5>2. x.name = l.name /\ x \in TextsOf(l)'
            BY <5>1, TextsGrow DEF TextsOf
          <5>3. x \in shown'
            BY <3>3, <3>6, <5>1, <5>2 DEF Shows
          <5> QED BY <5>2, <5>3 DEF Kept
        <4> QED BY <4>1, <4>2, <4>3 DEF Kept
      <3> QED BY <3>5, <3>6
    <2>3. CASE line # <<>> /\ Len(line) # 1
      <3>1. shown' = shown /\ lost' = lost \union {line[i].name : i \in 1 .. Len(line)}
        BY <1>3, <1>5, <2>3, LostIs
      <3>2. InLine(l) => l.name \in lost'
        BY <3>1 DEF InLine
      <3> QED BY <3>1, <3>2, TextsGrow DEF Kept
    <2> QED BY <2>1, <2>2, <2>3
  <1> QED BY <1>4, <1>6

LEMMA ThreadAccounted ==
  ASSUME TypeInv, Accounted, Grows, LostNext, ~BeginsAlone, drawn' => drawn,
         NEW t \in Threads, Thread(t)
  PROVE  Accounted'
  <1>1. HeldOK'
    BY DEF HeldOK, Grows
  <1>2. Copied'
    BY CopiedThread DEF TypeInv, Accounted
  <1>3. LineFrom' /\ Pending'
    BY QuietThread, TextThread, EndThread DEF Accounted
  <1> QED BY <1>1, <1>2, <1>3 DEF Accounted
-----------------------------------------------------------------------------
(***************************************************************************)
(* What begins a program: a draw asks for every line of the page, and any  *)
(* other program leaves them as they are.                                  *)
(***************************************************************************)
LEMMA BeginsAccounted ==
  ASSUME TypeInv, Accounted, Grows, LostNext, ~BeginsAlone,
         NEW t \in Threads, NEW s \in Seq(Steps), Begins(t, s),
         Shape(t, s), s[1].do # "end", t \in Drawers => CopiesFirst(s),
         UNCHANGED <<copy, page, line, shown>>,
         (g_page' = g_page /\ (drawn' => drawn)) \/ (t \in Drawers /\ AsksForAll(s))
  PROVE  Accounted'
  <1>1. Idle(t) /\ todo'[t] = s /\ \A u \in Threads \ {t} : todo'[u] = todo[u]
    BY Begun DEF TypeInv
  <1>2. Drawers \subseteq Threads /\ page \in Pages /\ todo[t] = <<>>
    BY <1>1 DEF Drawers, Threads, TypeInv, DataOK, Idle
  <1>3. Copied'
    <2> SUFFICES ASSUME NEW u \in Drawers
                 PROVE  CopiedIn(copy[u], held', todo'[u])
      BY DEF Copied
    <2>1. CASE u = t
      BY <1>1, <2>1 DEF CopiesFirst, CopiedIn
    <2>2. CASE u # t
      <3>1. CopiedIn(copy[u], held, todo[u]) /\ todo'[u] = todo[u]
        BY <1>1, <1>2, <2>2 DEF Accounted, Copied
      <3> QED BY <3>1 DEF CopiedIn, Grows
    <2> QED BY <2>1, <2>2
  <1>4. HeldOK' /\ LineFrom'
    BY LineStays DEF HeldOK, Grows, Accounted
  <1>5. lost' = lost
    <2>1. ~Ended
      BY DEF Ended
    <2> QED BY <2>1, LostIs
  <1>6. Pending'
    <2> SUFFICES ASSUME g_page' = page, drawn', NEW l \in LinesOfPage(page)
                 PROVE  Kept(l)' \/ InLine(l)' \/ Asked(l)'
      BY DEF Pending
    <2>1. CASE t \in Drawers /\ AsksForAll(s)
      BY <1>1, <1>2, <2>1 DEF AsksForAll, Asked
    <2>2. CASE g_page' = g_page /\ (drawn' => drawn)
      <3>1. Kept(l) \/ InLine(l) \/ Asked(l)
        BY <2>2 DEF Accounted, Pending
      <3>2. Asked(l) => Asked(l)'
        <4> SUFFICES ASSUME NEW u \in Drawers, Asks(todo[u], page, l) PROVE Asked(l)'
          BY DEF Asked
        <4>1. u # t
          BY <1>2 DEF Asks
        <4> QED BY <1>1, <1>2, <4>1 DEF Asked
      <3>3. InLine(l) => InLine(l)'
        BY DEF InLine
      <3> QED BY <1>5, <3>1, <3>2, <3>3, KeptStays
    <2> QED BY <2>1, <2>2
  <1> QED BY <1>3, <1>4, <1>6 DEF Accounted

LEMMA AloneAccounted ==
  ASSUME TypeInv, HeldNext, LostNext, BeginsAlone,
         NEW t \in Drawers, NEW s \in Seq(Steps), Begins(t, s),
         Shape(t, s), s[1].do # "end", CopiesFirst(s), AsksForAll(s),
         \A u \in Drawers \ {t} : Idle(u),
         UNCHANGED <<weather_data, copy, page, line, shown>>
  PROVE  Accounted'
  <1>0. t \in Threads
    BY DEF Drawers, Threads
  <1>1. Idle(t) /\ todo'[t] = s /\ \A u \in Threads \ {t} : todo'[u] = todo[u]
    BY <1>0, Begun DEF TypeInv
  <1>2. Drawers \subseteq Threads /\ page \in Pages
    BY DEF Drawers, Threads, TypeInv, DataOK
  <1>3. \A u \in Drawers : ~Ends(u) /\ todo[u] = <<>>
    BY <1>1 DEF Idle, Ends
  <1>4. Copied'
    <2> SUFFICES ASSUME NEW u \in Drawers
                 PROVE  CopiedIn(copy[u], held', todo'[u])
      BY DEF Copied
    <2>1. CASE u = t
      BY <1>1, <2>1 DEF CopiesFirst, CopiedIn
    <2>2. CASE u # t
      <3>1. Len(todo'[u]) = 0
        BY <1>1, <1>2, <1>3, <2>2
      <3> QED BY <3>1 DEF CopiedIn
    <2> QED BY <2>1, <2>2
  <1>5. HeldOK'
    <2>1. held' = [p \in Parts |-> {weather_data[p]}]
      BY DEF HeldNext
    <2> QED BY <2>1 DEF HeldOK
  <1>6. LineFrom'
    <2>1. ~Ends("UpdateHMI") /\ ~Ends("HMIRePrecess")
      BY <1>3 DEF Drawers
    <2>2. line \in Seq(Texts) /\ Len(line) <= 0
      BY <2>1 DEF TypeInv, LineOK, N
    <2>3. Len(line') = 0
      BY <2>2
    <2> QED BY <2>3 DEF LineFrom
  <1>7. Pending'
    BY <1>1, <1>2 DEF Pending, AsksForAll, Asked
  <1> QED BY <1>4, <1>5, <1>6, <1>7 DEF Accounted

\* What a command begins, which is not a draw
LEMMA CommandBegins ==
  ASSUME UpdateCommand \/ PlaceCommand \/ WifiCommand
  PROVE  \E r \in Seq(Steps) :
           /\ Begins("HMIRePrecess", r) /\ Short("HMIRePrecess", r) /\ r[1].do # "end"
           /\ UNCHANGED <<weather_data, copy, page, g_page, line, shown>>
  <1>1. ASSUME NEW s, Command(s)
        PROVE  /\ Begins("HMIRePrecess", s \o Do("clearBuffer"))
               /\ UNCHANGED <<weather_data, copy, page, g_page, line, shown>>
    BY <1>1 DEF Command, dataVars, screenVars
  <1>2. CASE UpdateCommand
    <2> DEFINE s == DisplayLoadIcon(1) \o Refresh \o DisplayLoadIcon(0)
               r == s \o Do("clearBuffer")
    <2>1. Command(s) /\ Short("HMIRePrecess", r) /\ r[1].do # "end"
      BY <1>2, UpdateProgram DEF UpdateCommand
    <2> HIDE DEF s
    <2>2. r \in Seq(Steps)
      BY <2>1 DEF Short
    <2> QED BY <1>1, <2>1, <2>2
  <1>3. CASE PlaceCommand
    <2> DEFINE s == Do("clear") \o DisplayLoadIcon(1) \o Refresh \o DisplayLoadIcon(0)
               r == s \o Do("clearBuffer")
    <2>1. Command(s) /\ Short("HMIRePrecess", r) /\ r[1].do # "end"
      BY <1>3, PlaceProgram DEF PlaceCommand
    <2> HIDE DEF s
    <2>2. r \in Seq(Steps)
      BY <2>1 DEF Short
    <2> QED BY <1>1, <2>1, <2>2
  <1>4. CASE WifiCommand
    <2> DEFINE s == Do("join") \o DisplayWifiIcon \o Do("postGetWea")
               r == s \o Do("clearBuffer")
    <2>1. Command(s) /\ Short("HMIRePrecess", r) /\ r[1].do # "end"
      BY <1>4, WifiProgram DEF WifiCommand
    <2> HIDE DEF s
    <2>2. r \in Seq(Steps)
      BY <2>1 DEF Short
    <2> QED BY <1>1, <2>1, <2>2
  <1> QED BY <1>2, <1>3, <1>4

\* A program that is not a draw does not begin one.
LEMMA NoneBegan ==
  ASSUME TypeInv, NEW t \in Threads, NEW s \in Seq(Steps), Begins(t, s), Shape(t, s),
         s[1].do # "end", t \in Drawers => Len(s) < 11
  PROVE  \A u \in Drawers : ~Began(u)
  <1>1. Idle(t) /\ todo'[t] = s /\ \A u \in Threads \ {t} : todo'[u] = todo[u]
    BY Begun DEF TypeInv
  <1>2. Len(Draw) = 11
    BY DrawIs
  <1> SUFFICES ASSUME NEW u \in Drawers, Began(u) PROVE FALSE
    OBVIOUS
  <1>3. todo[u] = <<>> /\ todo'[u] # <<>> /\ Len(todo'[u]) >= 11
    BY <1>2 DEF Began, Idle
  <1>4. u = t
    BY <1>1, <1>3 DEF Drawers, Threads
  <1>5. Len(s) \in Nat
    OBVIOUS
  <1> QED BY <1>1, <1>3, <1>4, <1>5

\* Nor does a step of a thread.
LEMMA IdleStays ==
  ASSUME TodoOK, \E t \in Threads : Thread(t)
  PROVE  \A v \in Drawers : Idle(v) => todo'[v] = todo[v]
  <1>1. PICK u \in Threads : Thread(u)
    OBVIOUS
  <1>2. Moves(u)
    BY <1>1, ThreadMoves
  <1>3. ~Idle(u)
    BY <1>1 DEF Thread, CopyPart, CheckPage, WriteText, WriteEnd, StorePart, Fetch, ClearData,
                Join, PostGetWea, PostUpdate, ClearBuffer, Does
  <1> QED BY <1>2, <1>3 DEF Moves, Drawers, Threads

\* drawn is not set by what begins no draw.
LEMMA NotDrawn ==
  ASSUME DrawnNext, \A t \in Drawers : ~Began(t)
  PROVE  drawn' => drawn /\ page' = page
  BY DEF DrawnNext

LEMMA InterruptAccounted ==
  ASSUME TypeInv, Accounted, Grows, LostNext, ~BeginsAlone, drawn' => drawn, RTC_IRQHandler
  PROVE  Accounted'
  <1>1. seconds' # seconds
    <2>1. seconds \in Nat /\ seconds' = seconds + 1
      BY DEF TypeInv, CountsOK, RTC_IRQHandler
    <2> QED BY <2>1
  <1>2. line' = <<>> /\ UNCHANGED <<weather_data, copy, page, g_page, shown, todo>>
    BY DEF RTC_IRQHandler, dataVars, progVars
  <1>3. HeldOK' /\ Copied' /\ LineFrom'
    BY <1>2, LineStays DEF HeldOK, Copied, CopiedIn, Grows, Accounted
  <1>4. ASSUME NEW l, Kept(l) \/ InLine(l) PROVE Kept(l)'
    <2>1. CASE line = <<>>
      <3>1. ~Ended /\ Len(line) = 0
        BY <2>1 DEF Ended
      <3>2. lost' = lost /\ ~InLine(l)
        BY <3>1, LostIs DEF InLine
      <3> QED BY <1>2, <1>4, <3>2, KeptStays
    <2>2. CASE line # <<>>
      <3>1. Ended
        BY <1>2, <2>2 DEF Ended
      <3>2. lost' = lost \union {line[i].name : i \in 1 .. Len(line)}
        BY <1>1, <3>1, LostIs
      <3>3. InLine(l) => l.name \in lost'
        BY <3>2 DEF InLine
      <3> QED BY <1>2, <1>4, <3>2, <3>3, TextsGrow DEF Kept
    <2> QED BY <2>1, <2>2
  <1>5. Pending'
    <2>1. \A l : Asked(l) => Asked(l)'
      BY <1>2 DEF Asked
    <2> QED BY <1>2, <1>4, <2>1 DEF Accounted, Pending
  <1> QED BY <1>3, <1>5 DEF Accounted

LEMMA ShowsStep ==
  ASSUME ShowsInv, [MCNext]_mcVars
  PROVE  ShowsInv'
  <1>1. TypeInv /\ TypeInv' /\ Accounted
    <2>1. [Next]_vars
      BY DEF MCNext, mcVars
    <2> QED BY <2>1, TypeStep DEF ShowsInv
  <1> SUFFICES Accounted'
    BY <1>1 DEF ShowsInv
  <1>2. CASE UNCHANGED mcVars
    <2>1. UNCHANGED <<weather_data, copy, page, g_page, line, shown, todo, held, lost, drawn>>
      BY <1>2 DEF mcVars, vars, dataVars, progVars, screenVars
    <2> QED BY <1>1, <2>1 DEF Accounted, HeldOK, Copied, LineFrom, Pending, Kept, InLine, Asked,
                              TextsOf, VersionsOf
  <1>3. CASE MCNext /\ ~BeginsAlone
    <2>1. Grows /\ LostNext /\ DrawnNext /\ Next
      BY <1>3, HeldGrows DEF MCNext
    <2>2. CASE TurnPage
      <3>1. UNCHANGED <<copy, line, todo>> /\ page' # page
        BY <2>2 DEF TurnPage, dataVars, progVars
      <3>2. ~drawn'
        <4>1. \A t \in Drawers : ~Began(t)
          BY <3>1 DEF Began, Idle
        <4> QED BY <2>1, <3>1, <4>1, NotDrawn
      <3>3. HeldOK' /\ Copied' /\ LineFrom'
        BY <1>1, <2>1, <3>1, LineStays DEF HeldOK, Copied, CopiedIn, Grows, Accounted
      <3> QED BY <3>2, <3>3 DEF Accounted, Pending
    <2>3. CASE RTC_IRQHandler
      <3>1. todo' = todo
        BY <2>3 DEF RTC_IRQHandler, progVars
      <3>2. \A t \in Drawers : ~Began(t)
        BY <3>1 DEF Began, Idle
      <3> QED BY <1>1, <1>3, <2>1, <2>3, <3>2, NotDrawn, InterruptAccounted
    <2>4. CASE GetWeather
      <3> DEFINE s == Refresh \o Do("postUpdate")
      <3>1. Begins("GetWeather", s) /\ UNCHANGED <<copy, page, g_page, line, shown>>
        BY <2>4 DEF GetWeather, dataVars, screenVars
      <3>2. s \in Seq(Steps) /\ Shape("GetWeather", s) /\ s[1].do # "end"
        BY WeatherProgram DEF Short
      <3> HIDE DEF s
      <3>3. "GetWeather" \in Threads /\ "GetWeather" \notin Drawers
        BY DEF Threads, Drawers
      <3>4. drawn' => drawn
        BY <1>1, <2>1, <3>1, <3>2, <3>3, NoneBegan, NotDrawn
      <3> QED BY <1>1, <1>3, <2>1, <3>1, <3>2, <3>3, <3>4, BeginsAccounted
    <2>5. CASE UpdateHMI
      <3>1. Begins("UpdateHMI", Draw) /\ UNCHANGED <<copy, page, line, shown>>
        BY <2>5 DEF UpdateHMI, dataVars, screenVars
      <3>2. "UpdateHMI" \in Threads /\ "UpdateHMI" \in Drawers
        BY DEF Threads, Drawers
      <3>3. /\ Draw \in Seq(Steps) /\ Shape("UpdateHMI", Draw) /\ Draw[1].do # "end"
            /\ CopiesFirst(Draw) /\ AsksForAll(Draw)
        BY DrawProgram
      <3> QED BY <1>1, <1>3, <2>1, <3>1, <3>2, <3>3, BeginsAccounted
    <2>6. CASE PageCommand
      <3> DEFINE s == Draw \o Do("clearBuffer")
      <3>1. Begins("HMIRePrecess", s) /\ UNCHANGED <<copy, page, line, shown>>
        BY <2>6 DEF PageCommand, dataVars
      <3>2. /\ s \in Seq(Steps) /\ Shape("HMIRePrecess", s) /\ s[1].do # "end"
            /\ CopiesFirst(s) /\ AsksForAll(s)
        BY DrawProgram
      <3> HIDE DEF s
      <3>3. "HMIRePrecess" \in Threads /\ "HMIRePrecess" \in Drawers
        BY DEF Threads, Drawers
      <3> QED BY <1>1, <1>3, <2>1, <3>1, <3>2, <3>3, BeginsAccounted
    <2>7. CASE UpdateCommand \/ PlaceCommand \/ WifiCommand
      <3>1. PICK r \in Seq(Steps) :
              /\ Begins("HMIRePrecess", r) /\ Short("HMIRePrecess", r) /\ r[1].do # "end"
              /\ UNCHANGED <<weather_data, copy, page, g_page, line, shown>>
        BY <2>7, CommandBegins
      <3>2. "HMIRePrecess" \in Threads
        BY DEF Threads
      <3>3. drawn' => drawn
        BY <1>1, <2>1, <3>1, <3>2, NoneBegan, NotDrawn DEF Short
      <3> QED BY <1>1, <1>3, <2>1, <3>1, <3>2, <3>3, BeginsAccounted DEF Short
    <2>8. CASE \E t \in Threads : Thread(t)
      <3>1. PICK t \in Threads : Thread(t)
        BY <2>8
      <3>2. \A v \in Drawers : Idle(v) => todo'[v] = todo[v]
        BY <1>1, <3>1, IdleStays DEF TypeInv
      <3>3. \A v \in Drawers : ~Began(v)
        BY <3>2 DEF Began, Idle
      <3> QED BY <1>1, <1>3, <2>1, <3>1, <3>3, NotDrawn, ThreadAccounted
    <2> QED BY <2>1, <2>2, <2>3, <2>4, <2>5, <2>6, <2>7, <2>8 DEF Next
  <1>4. CASE MCNext /\ BeginsAlone
    <2>1. Next /\ HeldNext /\ LostNext
      BY <1>4 DEF MCNext
    <2>2. PICK t \in Drawers : Began(t) /\ \A u \in Drawers \ {t} : Idle(u)
      BY <1>4 DEF BeginsAlone
    <2>3. CASE UpdateHMI
      <3>1. /\ Begins("UpdateHMI", Draw)
            /\ UNCHANGED <<weather_data, copy, page, line, shown>>
        BY <2>3 DEF UpdateHMI, dataVars, screenVars
      <3>2. /\ Draw \in Seq(Steps) /\ Shape("UpdateHMI", Draw) /\ Draw[1].do # "end"
            /\ CopiesFirst(Draw) /\ AsksForAll(Draw)
        BY DrawProgram
      <3>3. "UpdateHMI" \in Threads /\ "UpdateHMI" \in Drawers
        BY DEF Threads, Drawers
      <3>4. t = "UpdateHMI"
        <4>1. \A u \in Threads \ {"UpdateHMI"} : todo'[u] = todo[u]
          BY <1>1, <3>1, <3>2, <3>3, Begun DEF TypeInv
        <4> QED BY <2>2, <4>1 DEF Began, Idle, Drawers, Threads
      <3> QED BY <1>1, <1>4, <2>1, <2>2, <3>1, <3>2, <3>3, <3>4, AloneAccounted
    <2>4. CASE PageCommand
      <3> DEFINE s == Draw \o Do("clearBuffer")
      <3>1. /\ Begins("HMIRePrecess", s)
            /\ UNCHANGED <<weather_data, copy, page, line, shown>>
        BY <2>4 DEF PageCommand, dataVars
      <3>2. /\ s \in Seq(Steps) /\ Shape("HMIRePrecess", s) /\ s[1].do # "end"
            /\ CopiesFirst(s) /\ AsksForAll(s)
        BY DrawProgram
      <3> HIDE DEF s
      <3>3. "HMIRePrecess" \in Threads /\ "HMIRePrecess" \in Drawers
        BY DEF Threads, Drawers
      <3>4. t = "HMIRePrecess"
        <4>1. \A u \in Threads \ {"HMIRePrecess"} : todo'[u] = todo[u]
          BY <1>1, <3>1, <3>2, <3>3, Begun DEF TypeInv
        <4> QED BY <2>2, <4>1 DEF Began, Idle, Drawers, Threads
      <3> QED BY <1>1, <1>4, <2>1, <2>2, <3>1, <3>2, <3>3, <3>4, AloneAccounted
    <2>5. CASE GetWeather
      <3> DEFINE s == Refresh \o Do("postUpdate")
      <3>1. Begins("GetWeather", s)
        BY <2>5 DEF GetWeather
      <3>2. s \in Seq(Steps) /\ Shape("GetWeather", s) /\ s[1].do # "end"
        BY WeatherProgram DEF Short
      <3> HIDE DEF s
      <3>3. "GetWeather" \in Threads /\ "GetWeather" \notin Drawers
        BY DEF Threads, Drawers
      <3> QED BY <1>1, <2>2, <3>1, <3>2, <3>3, NoneBegan
    <2>6. CASE UpdateCommand \/ PlaceCommand \/ WifiCommand
      <3>1. PICK r \in Seq(Steps) :
              Begins("HMIRePrecess", r) /\ Short("HMIRePrecess", r) /\ r[1].do # "end"
        BY <2>6, CommandBegins
      <3>2. "HMIRePrecess" \in Threads
        BY DEF Threads
      <3> QED BY <1>1, <2>2, <3>1, <3>2, NoneBegan DEF Short
    <2>7. CASE \E u \in Threads : Thread(u)
      <3>1. \A v \in Drawers : Idle(v) => todo'[v] = todo[v]
        BY <1>1, <2>7, IdleStays DEF TypeInv
      <3> QED BY <2>2, <3>1 DEF Began, Idle
    <2>8. CASE TurnPage \/ RTC_IRQHandler
      <3>1. todo' = todo
        BY <2>8 DEF TurnPage, RTC_IRQHandler, progVars
      <3> QED BY <2>2, <3>1 DEF Began, Idle
    <2> QED BY <2>1, <2>3, <2>4, <2>5, <2>6, <2>7, <2>8 DEF Next
  <1> QED BY <1>2, <1>3, <1>4

LEMMA ShowsIt == ShowsInv => ShowsTheData
  <1> SUFFICES ASSUME TypeInv, Accounted, \A t \in Drawers : Idle(t), page = g_page, drawn,
                      NEW w \in Wanted(page), w.name # "AfterTorTemp", w.name \notin lost
               PROVE  \E x \in HeldTexts(w) : x \in shown
    BY DEF ShowsInv, ShowsTheData
  <1>1. \A t \in Drawers : Len(todo[t]) = 0
    BY DEF Idle
  <1>2. \A t \in Drawers : ~Ends(t) /\ \A l : ~Asks(todo[t], page, l)
    BY <1>1 DEF Ends, Asks
  <1>3. Len(line) = 0
    <2>1. ~Ends("UpdateHMI") /\ ~Ends("HMIRePrecess")
      BY <1>2 DEF Drawers
    <2>2. line \in Seq(Texts) /\ Len(line) <= 0
      BY <2>1 DEF TypeInv, LineOK, N
    <2> QED BY <2>2
  <1>4. w \in LinesOfPage(page) /\ w.part \in Parts
    <2>1. CASE page = Desk
      BY <2>1, LineIs DEF Wanted, LinesOfPage, Parts
    <2>2. CASE page # Desk
      BY <2>2, LineIs DEF Wanted, LinesOfPage, Parts
    <2> QED BY <2>1, <2>2
  <1>5. ~InLine(w) /\ ~Asked(w)
    BY <1>2, <1>3 DEF InLine, Asked
  <1>6. Kept(w)
    BY <1>4, <1>5 DEF Accounted, Pending
  <1>7. HeldTexts(w) = TextsOf(w)
    BY <1>4 DEF HeldTexts, TextsOf, VersionsOf
  <1> QED BY <1>6, <1>7 DEF Kept

\* When the draws are over, every line of the page whose texts were not lost
\* in the serial port shows its day and data there have been since the draws
\* began, but for the temperature of the day after tomorrow: whatever the
\* threads stored, drew, turned to or tore meanwhile.
THEOREM ScreenShowsTheData == MCSpec => []ShowsTheData
  <1>1. MCInit => ShowsInv
    <2> SUFFICES ASSUME MCInit PROVE ShowsInv
      OBVIOUS
    <2>1. TypeInv
      BY InitIsTyped DEF MCInit
    <2>2. /\ \A t \in Drawers : Len(todo[t]) = 0
          /\ Len(line) = 0 /\ ~drawn
      BY DEF MCInit, Init, Drawers, Threads
    <2>3. HeldOK
      BY DEF MCInit, Init, HeldOK
    <2>4. Copied /\ LineFrom /\ Pending
      BY <2>2 DEF Copied, CopiedIn, LineFrom, Pending
    <2> QED BY <2>1, <2>3, <2>4 DEF ShowsInv, Accounted
  <1> QED BY <1>1, ShowsStep, ShowsIt, PTL DEF MCSpec
=============================================================================
