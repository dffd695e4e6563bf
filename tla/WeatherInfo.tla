---------------------------- MODULE WeatherInfo ----------------------------
(***************************************************************************)
(* The three parsers of WeatherInfo.c: the memory they take from the pool  *)
(* of malloc.c and what they store into weather_data.  A parser takes two  *)
(* text blocks, utf8str and gbkstr; cJSON takes the blocks of the tree     *)
(* from the same pool; utf8str is then made to point at texts in the tree, *)
(* each is copied over the field it is for, and at the end some of all     *)
(* this is freed.                                                          *)
(*                                                                         *)
(* The pool gives out its highest free blocks, as malloc.c does; a call of *)
(* it is one step.  All fields of one part of the data are treated alike   *)
(* by the code and stand as one text; of a text only its length and the    *)
(* answer it came with are kept, and nothing of what is in the blocks.     *)
(***************************************************************************)
EXTENDS Naturals, FiniteSets

CONSTANTS
  Threads,    \* the threads that fetch the weather
  NBlocks,    \* how many blocks the pool has
  TextSize,   \* how many of them a text block takes, in a row
  TreeSize,   \* how many the tree of an answer takes, one by one
  Version,    \* the answers with data differ in their version
  Length,     \* how long the texts of each version are
  FieldSize,  \* the size of a field of weather_data
  MaxCalls    \* bound: how many answers are parsed

ASSUME WeatherInfoAssumption ==
  /\ NBlocks \in Nat
  /\ TextSize \in Nat \ {0} /\ TreeSize \in Nat \ {0}
  /\ Length \in [Version -> 1 .. FieldSize]
  /\ MaxCalls \in Nat

Block == 0 .. NBlocks - 1
Kinds == {"Now", "Daily", "Life"}

\* The parts each of them stores.
Parts(kind) == CASE kind = "Now"   -> {"now"}
                 [] kind = "Daily" -> {"today", "tomorrow", "afterTomorrow"}
                 [] kind = "Life"  -> {"life"}
Part == UNION {Parts(kind) : kind \in Kinds}

NUL == "nul"

\* What the frame buffer holds: data in JSON, with the parts it has, an
\* object that says what went wrong, or no JSON at all.
Answer(what, v, parts) == [what |-> what, version |-> v, parts |-> parts]
Answers(kind) ==
  {Answer("data", v, parts) : v \in Version, parts \in SUBSET Parts(kind)}
    \union {Answer("error", NUL, {}), Answer("noJson", NUL, {})}

FREE == [as |-> "free", call |-> 0, kind |-> "none"]

VARIABLES
  mem,               \* what each block is used as, by which call
  pc,                \* where each thread is in its parser
  kind, call,        \* which parser it runs, and the number of the call
  answer,            \* what it parses
  utf8str, gbkstr,   \* the blocks these pointers point at, {} for NULL
  json,              \* the blocks of the tree
  weather_data,      \* each part: its characters, the rest NUL
  calls

memVars == <<mem, utf8str, gbkstr, json>>
vars == <<memVars, pc, kind, call, answer, weather_data, calls>>

Empty == [i \in 1 .. FieldSize |-> NUL]

Init ==
  /\ mem = [b \in Block |-> FREE]
  /\ pc = [t \in Threads |-> "idle"]
  /\ kind = [t \in Threads |-> "Now"] /\ call = [t \in Threads |-> 0]
  /\ answer = [t \in Threads |-> Answer("noJson", NUL, {})]
  /\ utf8str = [t \in Threads |-> {}] /\ gbkstr = [t \in Threads |-> {}]
  /\ json = [t \in Threads |-> {}]
  /\ weather_data = [p \in Part |-> Empty]
  /\ calls = 0

Goto(t, where) == pc' = [pc EXCEPT ![t] = where]

FreeBlocks == {b \in Block : mem[b] = FREE}

\* The highest run of n free blocks, {} when there is none.
Run(n) ==
  LET starts == {s \in Block : s .. s + n - 1 \subseteq FreeBlocks}
  IN  IF starts = {} THEN {}
      ELSE LET s == CHOOSE s \in starts : \A r \in starts : r <= s
           IN  s .. s + n - 1

\* The highest n free blocks, {} when there are not so many.
Singles(n) ==
  LET above(b) == {c \in FreeBlocks : c >= b}
  IN  IF Cardinality(FreeBlocks) < n THEN {}
      ELSE {b \in FreeBlocks : Cardinality(above(b)) <= n}

Taken(t, bs, use) ==
  [b \in Block |-> IF b \in bs THEN [as |-> use, call |-> call[t], kind |-> kind[t]]
                   ELSE mem[b]]

Freed(bs) == [b \in Block |-> IF b \in bs THEN FREE ELSE mem[b]]

\* A write through NULL, or a read: the fault handler does not return, and
\* the watchdog starts the system anew.
Restart ==
  /\ mem' = [b \in Block |-> FREE]
  /\ pc' = [t \in Threads |-> "idle"]
  /\ utf8str' = [t \in Threads |-> {}] /\ gbkstr' = [t \in Threads |-> {}]
  /\ json' = [t \in Threads |-> {}]
  /\ weather_data' = [p \in Part |-> Empty]
  /\ UNCHANGED <<kind, call, answer, calls>>
-----------------------------------------------------------------------------
(***************************************************************************)
(* A call, up to the tree.                                                 *)
(***************************************************************************)

\* A thread calls one of the parsers on what has come.
Call(t) ==
  /\ pc[t] = "idle" /\ calls < MaxCalls
  /\ calls' = calls + 1
  /\ call' = [call EXCEPT ![t] = calls + 1]
  /\ \E k \in Kinds : /\ kind' = [kind EXCEPT ![t] = k]
                      /\ \E a \in Answers(k) : answer' = [answer EXCEPT ![t] = a]
  /\ Goto(t, "utf8")
  /\ UNCHANGED <<memVars, weather_data>>

TakeUtf8(t) ==
  /\ pc[t] = "utf8"
  /\ utf8str' = [utf8str EXCEPT ![t] = Run(TextSize)]
  /\ mem' = Taken(t, Run(TextSize), "utf8str")
  /\ Goto(t, "gbk")
  /\ UNCHANGED <<gbkstr, json, kind, call, answer, weather_data, calls>>

TakeGbk(t) ==
  /\ pc[t] = "gbk"
  /\ gbkstr' = [gbkstr EXCEPT ![t] = Run(TextSize)]
  /\ mem' = Taken(t, Run(TextSize), "gbkstr")
  /\ Goto(t, "wipe")
  /\ UNCHANGED <<utf8str, json, kind, call, answer, weather_data, calls>>

\* Both blocks are filled with 0, whether there are blocks or not.
Wipe(t) ==
  /\ pc[t] = "wipe"
  /\ \/ /\ Goto(t, "parse")
        /\ UNCHANGED <<memVars, kind, call, answer, weather_data, calls>>
     \/ {} \in {utf8str[t], gbkstr[t]} /\ Restart

Tree(t) == IF answer[t].what = "noJson" THEN {} ELSE Singles(TreeSize)

\* Mutant of Parse: the tree is deleted before its texts are copied.
ParseAndDelete(t) ==
  /\ pc[t] = "parse"
  /\ json' = [json EXCEPT ![t] = Tree(t)]
  /\ Goto(t, IF Tree(t) = {} THEN "idle" ELSE "store")
  /\ UNCHANGED <<mem, utf8str, gbkstr, kind, call, answer, weather_data, calls>>

\* cJSON_Parse gives back what it took when the text is no JSON or when the
\* pool has too few blocks; the parser then returns 0, freeing nothing.
Parse(t) ==
  /\ pc[t] = "parse"
  /\ json' = [json EXCEPT ![t] = Tree(t)]
  /\ mem' = Taken(t, Tree(t), "json")
  /\ Goto(t, IF Tree(t) = {} THEN "idle" ELSE "store")
  /\ UNCHANGED <<utf8str, gbkstr, kind, call, answer, weather_data, calls>>
-----------------------------------------------------------------------------
(***************************************************************************)
(* Storing.                                                                *)
(***************************************************************************)

\* Mutant of Copied: the 0 at the end of the text is copied too.
CopiedWithEnd(field, v) ==
  [i \in DOMAIN field \union {Length[v] + 1} |->
     IF i <= Length[v] THEN v ELSE IF i = Length[v] + 1 THEN NUL ELSE field[i]]

\* memcpy(field, gbkstr, strlen(gbkstr)): what a longer text left behind
\* stays behind.
Copied(field, v) ==
  [i \in 1 .. FieldSize |-> IF i <= Length[v] THEN v ELSE field[i]]

\* The parts of the answer are stored; utf8str is left pointing at a text in
\* the tree when there was one.  Without gbkstr there is nothing to copy.
Copy(t) ==
  /\ weather_data' = [p \in Part |->
       IF p \in answer[t].parts /\ gbkstr[t] /= {}
         THEN Copied(weather_data[p], answer[t].version) ELSE weather_data[p]]
  /\ IF answer[t].parts = {} THEN UNCHANGED utf8str
     ELSE \E b \in json[t] : utf8str' = [utf8str EXCEPT ![t] = {b}]
  /\ UNCHANGED <<mem, gbkstr, json, kind, call, answer, calls>>

StoreNow(t) == kind[t] = "Now" /\ Copy(t) /\ Goto(t, "delete")

StoreDaily(t) == kind[t] = "Daily" /\ Copy(t) /\ Goto(t, "delete")

\* A stray semicolon makes the parser go on without "results"; it never
\* deletes the tree.
StoreLife(t) ==
  /\ kind[t] = "Life"
  /\ \/ Copy(t) /\ Goto(t, "freeUtf8")
     \/ answer[t].what = "error" /\ Restart

Store(t) ==
  /\ pc[t] = "store"
  /\ \/ StoreNow(t) \/ StoreDaily(t) \/ StoreLife(t)
     \/ gbkstr[t] = {} /\ answer[t].parts /= {} /\ Restart
-----------------------------------------------------------------------------
(***************************************************************************)
(* Freeing.                                                                *)
(***************************************************************************)
cJSON_Delete(t) ==
  /\ pc[t] = "delete"
  /\ mem' = Freed(json[t])
  /\ json' = [json EXCEPT ![t] = {}]
  /\ Goto(t, "freeUtf8")
  /\ UNCHANGED <<utf8str, gbkstr, kind, call, answer, weather_data, calls>>

\* Whatever utf8str points at by now; myfree of a free block does nothing.
FreeUtf8(t) ==
  /\ pc[t] = "freeUtf8"
  /\ mem' = Freed(utf8str[t])
  /\ Goto(t, "freeGbk")
  /\ UNCHANGED <<utf8str, gbkstr, json, kind, call, answer, weather_data, calls>>

\* Mutant of FreeGbk: only a call that stored something frees the block.
FreeGbkIfStored(t) ==
  /\ pc[t] = "freeGbk"
  /\ mem' = IF answer[t].parts = {} THEN mem ELSE Freed(gbkstr[t])
  /\ json' = [json EXCEPT ![t] = {}]
  /\ Goto(t, "idle")
  /\ UNCHANGED <<utf8str, gbkstr, kind, call, answer, weather_data, calls>>

\* The parser returns 1; whatever it has not freed it forgets.
FreeGbk(t) ==
  /\ pc[t] = "freeGbk"
  /\ mem' = Freed(gbkstr[t])
  /\ json' = [json EXCEPT ![t] = {}]
  /\ Goto(t, "idle")
  /\ UNCHANGED <<utf8str, gbkstr, kind, call, answer, weather_data, calls>>

\* A change of the city clears the data (HMI_RePrecess).
Place ==
  /\ weather_data' = [p \in Part |-> Empty]
  /\ UNCHANGED <<memVars, pc, kind, call, answer, calls>>

Parser(t) == \/ Call(t) \/ TakeUtf8(t) \/ TakeGbk(t) \/ Wipe(t)
             \/ Parse(t) \/ Store(t)
             \/ cJSON_Delete(t) \/ FreeUtf8(t) \/ FreeGbk(t)

Next == (\E t \in Threads : Parser(t)) \/ Place

Spec == Init /\ [][Next]_vars
-----------------------------------------------------------------------------
Uses == {FREE} \union [as : {"utf8str", "gbkstr", "json"},
                       call : 1 .. MaxCalls, kind : Kinds]

TypeOK ==
  /\ mem \in [Block -> Uses]
  /\ pc \in [Threads -> {"idle", "utf8", "gbk", "wipe", "parse", "store",
                         "delete", "freeUtf8", "freeGbk"}]
  /\ kind \in [Threads -> Kinds] /\ call \in [Threads -> 0 .. MaxCalls]
  /\ \A t \in Threads : utf8str[t] \union gbkstr[t] \union json[t] \subseteq Block
  /\ weather_data \in [Part -> [1 .. FieldSize -> Version \union {NUL}]]
  /\ calls \in 0 .. MaxCalls

\* b is used by the call t is in, as one of uses.
UsedBy(t, b, uses) == mem[b].as \in uses /\ mem[b].call = call[t]

\* While a parser works with its blocks and its tree they are its own: the
\* frees through utf8str, which no longer points where it did, and of texts
\* that went with the tree, hit nothing that is in use (WeatherInfo.c:148-151).
KeepsWhatItUses ==
  \A t \in Threads :
    /\ pc[t] \in {"wipe", "parse", "store", "delete", "freeUtf8", "freeGbk"}
         => \A b \in gbkstr[t] : UsedBy(t, b, {"gbkstr"})
    /\ pc[t] \in {"store", "delete"}
         => /\ \A b \in json[t] : UsedBy(t, b, {"json"})
            /\ \A b \in utf8str[t] : UsedBy(t, b, {"utf8str", "json"})

\* Blocks no thread can reach any more.
Lost == {b \in Block : /\ mem[b] /= FREE
                       /\ \A t \in Threads : pc[t] = "idle" \/ mem[b].call /= call[t]}

\* The calls that have lost a block used as use.
Losers(use) == {mem[b].call : b \in {c \in Lost : mem[c].as = use}}

\* What a call can lose: its first text block, because utf8str has come to
\* point elsewhere; the second one only together with the first, when there
\* was nothing to parse; the tree only in cJSON_LifeSuggestionParse.
LostIsAccounted ==
  /\ Losers("gbkstr") \subseteq Losers("utf8str")
  /\ \A b \in Lost : mem[b].as = "json" => mem[b].kind = "Life"

\* A text is stored as it came ("save the data", WeatherInfo.c:80): what is
\* in the field afterwards is this text and nothing else.
StoresTheAnswer ==
  [][\A t \in Threads :
       Store(t) /\ gbkstr[t] /= {} /\ pc'[t] /= "idle" =>
         \A p \in answer[t].parts :
           weather_data'[p] = Copied(Empty, answer[t].version)]_vars
=============================================================================
