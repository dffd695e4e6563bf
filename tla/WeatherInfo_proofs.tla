------------------------- MODULE WeatherInfo_proofs -------------------------
(***************************************************************************)
(* The parsers and the pool, for every number of threads, blocks, answers  *)
(* and calls: what a parser works with stays its own until one of them     *)
(* frees a block of another through utf8str, and what is lost when only    *)
(* one thread parses is what LostIsAccounted says.                         *)
(***************************************************************************)
EXTENDS MCWeatherInfo, WellFoundedInduction, TLAPS

USE WeatherInfoAssumption DEF WeatherInfoAssumption

AnswerType == [what : {"data", "error", "noJson"}, version : Version \union {NUL},
               parts : SUBSET Part]

PoolType ==
  /\ mem \in [Block -> Uses]
  /\ utf8str \in [Threads -> SUBSET Block] /\ gbkstr \in [Threads -> SUBSET Block]
  /\ json \in [Threads -> SUBSET Block]

CallType ==
  /\ pc \in [Threads -> {"idle", "utf8", "gbk", "wipe", "parse", "store",
                         "delete", "freeUtf8", "freeGbk"}]
  /\ kind \in [Threads -> Kinds] /\ call \in [Threads -> 0 .. MaxCalls]
  /\ answer \in [Threads -> AnswerType]
  /\ calls \in 0 .. MaxCalls

DataType == weather_data \in [Part -> [1 .. FieldSize -> Version \union {NUL}]]

(***************************************************************************)
(* Each call has a number of its own.                                      *)
(***************************************************************************)
Active(t) == pc[t] /= "idle"

CallsOK ==
  /\ \A t \in Threads : Active(t) => call[t] \in 1 .. calls
  /\ \A t, u \in Threads : Active(t) /\ Active(u) /\ t /= u => call[t] /= call[u]
  /\ \A b \in Block : mem[b].call <= calls

(***************************************************************************)
(* What a call works with is its own.                                      *)
(***************************************************************************)
OwnsOK(t) ==
  /\ pc[t] \in {"gbk", "wipe", "parse"} => \A b \in utf8str[t] : UsedBy(t, b, {"utf8str"})
  /\ pc[t] \in {"store", "delete"} =>
       /\ \A b \in utf8str[t] : UsedBy(t, b, {"utf8str", "json"})
       /\ \A b \in json[t] : UsedBy(t, b, {"json"}) /\ mem[b].kind = kind[t]
  /\ pc[t] \in {"wipe", "parse", "store", "delete", "freeUtf8", "freeGbk"} =>
       \A b \in gbkstr[t] : UsedBy(t, b, {"gbkstr"})
  /\ pc[t] = "freeUtf8" =>
       \A b \in utf8str[t] : mem[b].call = call[t] => mem[b].as \in {"utf8str", "json"}

TypeInv == PoolType /\ CallType /\ DataType /\ CallsOK
KeepsInv == ~foreign => \A t \in Threads : OwnsOK(t)

(***************************************************************************)
(* One thread alone: everything in the pool is in use, or lost as allowed. *)
(***************************************************************************)
Single == \A t, u \in Threads : Active(t) /\ Active(u) => t = u

\* A second text block is in use, or its call has lost the first one too.
GbkOK ==
  \A b \in Block : mem[b].as = "gbkstr" =>
    \/ \E t \in Threads : Active(t) /\ mem[b].call = call[t] /\ b \in gbkstr[t]
                          /\ pc[t] \in {"wipe", "parse", "store", "delete", "freeUtf8", "freeGbk"}
    \/ \E c \in Block : mem[c].as = "utf8str" /\ mem[c].call = mem[b].call
                        /\ \A t \in Threads : Active(t) => mem[c].call /= call[t]

\* The blocks of a tree are in use, or of a parser that never deletes it.
JsonOK ==
  \A b \in Block : mem[b].as = "json" =>
    \/ mem[b].kind = "Life"
    \/ \E t \in Threads : /\ pc[t] \in {"store", "delete"}
                          /\ b \in json[t]

\* Without a first text block there is none for the second either.
NoRun(n) == \A s \in Block : ~(s .. s + n - 1 \subseteq FreeBlocks)
TextOK ==
  \A t \in Threads :
    /\ pc[t] = "gbk" /\ utf8str[t] = {} => NoRun(TextSize)
    /\ pc[t] \in {"wipe", "parse"} /\ utf8str[t] = {} => gbkstr[t] = {}
    /\ pc[t] = "freeUtf8" => \A b \in utf8str[t] : mem[b] = FREE \/ mem[b].call = call[t]

AloneInv ==
  ~together => Single /\ ~foreign /\ GbkOK /\ JsonOK /\ TextOK

-----------------------------------------------------------------------------
(***************************************************************************)
(* The blocks the pool gives out are free.                                 *)
(***************************************************************************)
LEMMA NatMin ==
  ASSUME NEW S \in SUBSET Nat, S /= {}
  PROVE  \E m \in S : \A n \in S : m <= n
  <1>1. IsWellFoundedOn(OpToRel(<, Nat), Nat)
    BY NatLessThanWellFounded
  <1>2. PICK m \in S : \A n \in S : <<n, m>> \notin OpToRel(<, Nat)
    BY <1>1, WFMin
  <1>3. \A n \in S : ~(n < m)
    BY <1>2 DEF OpToRel
  <1> QED BY <1>3

LEMMA NatMax ==
  ASSUME NEW N \in Nat, NEW S \in SUBSET (0 .. N), S /= {}
  PROVE  \E m \in S : \A n \in S : n <= m
  <1> DEFINE T == {k \in 0 .. N : N - k \in S}
  <1>1. T \in SUBSET Nat /\ T /= {}
    <2>1. PICK n \in S : TRUE
      OBVIOUS
    <2>2. N - n \in 0 .. N /\ N - (N - n) = n
      OBVIOUS
    <2>3. N - n \in T
      BY <2>2
    <2>4. T \subseteq 0 .. N
      OBVIOUS
    <2> HIDE DEF T
    <2>5. T \subseteq Nat
      BY <2>4
    <2> QED BY <2>3, <2>5
  <1> HIDE DEF T
  <1>2. PICK k \in T : \A l \in T : k <= l
    BY <1>1, NatMin
  <1>3. k \in 0 .. N /\ N - k \in S
    BY <1>2 DEF T
  <1>4. ASSUME NEW n \in S PROVE n <= N - k
    <2>1. n \in 0 .. N /\ N - n \in 0 .. N /\ N - (N - n) = n
      OBVIOUS
    <2>2. N - n \in T
      BY <2>1 DEF T
    <2>3. k <= N - n
      BY <1>2, <2>2
    <2> QED BY <2>1, <2>3, <1>3
  <1> QED BY <1>3, <1>4

LEMMA FreeBlocksType == FreeBlocks \subseteq Block
  BY DEF FreeBlocks

LEMMA RunIsFree ==
  ASSUME NEW n \in Nat \ {0}
  PROVE  /\ Run(n) \subseteq FreeBlocks
         /\ Run(n) = {} <=> NoRun(n)
  <1> DEFINE starts == {s \in Block : s .. s + n - 1 \subseteq FreeBlocks}
             top == CHOOSE s \in starts : \A r \in starts : r <= s
  <1>1. CASE starts = {}
    <2>1. Run(n) = {}
      BY <1>1 DEF Run
    <2> QED BY <2>1, <1>1 DEF NoRun
  <1>2. CASE starts /= {}
    <2>1. starts \in SUBSET (0 .. NBlocks)
      BY DEF Block
    <2>2. \E s \in starts : \A r \in starts : r <= s
      <3> HIDE DEF starts
      <3> QED BY <1>2, <2>1, NatMax
    <2>3. top \in starts
      <3> HIDE DEF starts
      <3> QED BY <2>2
    <2>4. top \in Block /\ top .. top + n - 1 \subseteq FreeBlocks
      <3> HIDE DEF top
      <3> QED BY <2>3
    <2>5. Run(n) = top .. top + n - 1
      BY <1>2 DEF Run
    <2>6. top \in top .. top + n - 1
      <3> HIDE DEF top
      <3> QED BY <2>4 DEF Block
    <2>7. ~NoRun(n)
      <3> HIDE DEF top
      <3> QED BY <2>4 DEF NoRun
    <2> QED BY <2>4, <2>5, <2>6, <2>7
  <1> QED BY <1>1, <1>2

LEMMA SinglesAreFree ==
  ASSUME NEW n
  PROVE  Singles(n) \subseteq FreeBlocks
  BY DEF Singles

-----------------------------------------------------------------------------
(***************************************************************************)
(* What a step does to the pool.                                           *)
(***************************************************************************)

\* The blocks bs were free and are now used as use by the call of t.
IsTaken(t, bs, use) ==
  /\ mem' \in [Block -> Uses]
  /\ \A b \in bs : /\ b \in Block /\ mem[b] = FREE
                  /\ mem'[b] = [as |-> use, call |-> call[t], kind |-> kind[t]]
  /\ \A b \in Block \ bs : mem'[b] = mem[b]

LEMMA TakenWhat ==
  ASSUME TypeInv, NEW t \in Threads, Active(t), NEW bs \in SUBSET FreeBlocks,
         NEW use \in {"utf8str", "gbkstr", "json"}, mem' = Taken(t, bs, use)
  PROVE  IsTaken(t, bs, use)
  <1>1. [as |-> use, call |-> call[t], kind |-> kind[t]] \in Uses
    <2>1. call[t] \in 1 .. MaxCalls /\ kind[t] \in Kinds
      <3>1. call[t] \in 1 .. calls /\ calls \in 0 .. MaxCalls
        BY DEF TypeInv, CallsOK, CallType
      <3> QED BY <3>1 DEF TypeInv, CallType
    <2> QED BY <2>1 DEF Uses
  <1>2. bs \subseteq Block /\ \A b \in bs : mem[b] = FREE
    BY DEF FreeBlocks
  <1> QED BY <1>1, <1>2 DEF IsTaken, Taken, TypeInv, PoolType

LEMMA FreedWhat ==
  ASSUME TypeInv, NEW bs, mem' = Freed(bs)
  PROVE  /\ mem' \in [Block -> Uses]
         /\ \A b \in Block : mem'[b] = IF b \in bs THEN FREE ELSE mem[b]
  BY DEF Freed, TypeInv, PoolType, Uses

LEMMA FreeFacts == FREE.call = 0 /\ FREE.as = "free"
  BY DEF FREE

\* A call has a number, which is not that of a free block.
LEMMA ActiveCall ==
  ASSUME TypeInv, NEW t \in Threads, Active(t)
  PROVE  call[t] \in 1 .. calls /\ call[t] \in Nat /\ call[t] /= 0 /\ call[t] <= calls
  <1>1. call[t] \in 1 .. calls /\ calls \in Nat
    BY DEF TypeInv, CallsOK, CallType
  <1> QED BY <1>1

\* A step of t turns free blocks into blocks of its call and those into free
\* ones; what belongs to another call stays.
OnlyOwn(t) ==
  \A b \in Block : \/ mem'[b] = mem[b]
                   \/ mem[b] = FREE /\ mem'[b].call = call[t]
                   \/ mem[b].call = call[t] /\ mem'[b] = FREE

\* A step of a call that is going on, by t; where it goes is still to be said.
LEMMA GoingCalls ==
  ASSUME TypeInv, NEW t \in Threads, Active(t), UNCHANGED <<kind, call, calls>>,
         NEW where \in {"idle", "gbk", "wipe", "parse", "store", "delete", "freeUtf8",
                        "freeGbk"},
         Goto(t, where), OnlyOwn(t)
  PROVE  CallsOK'
  <1>1. \A u \in Threads : Active(u)' => Active(u)
    BY DEF Goto, Active, TypeInv, CallType
  <1>2. ASSUME NEW b \in Block PROVE mem'[b].call <= calls
    <2>1. mem[b].call <= calls
      BY DEF TypeInv, CallsOK
    <2>2. call[t] <= calls /\ 0 <= calls
      BY ActiveCall DEF TypeInv, CallType
    <2> QED BY <2>1, <2>2, FreeFacts DEF OnlyOwn
  <1> QED BY <1>1, <1>2 DEF TypeInv, CallsOK

LEMMA GoingType ==
  ASSUME TypeInv, NEW t \in Threads, Active(t), UNCHANGED <<kind, call, answer, calls>>,
         NEW where \in {"idle", "gbk", "wipe", "parse", "store", "delete", "freeUtf8",
                        "freeGbk"},
         Goto(t, where)
  PROVE  CallType'
  BY DEF TypeInv, CallType, Goto

LEMMA RestartWhat ==
  ASSUME TypeInv, Restart
  PROVE  TypeInv' /\ \A t \in Threads : ~Active(t)'
  <1>1. PoolType'
    BY DEF Restart, PoolType, Uses
  <1>2. CallType'
    BY DEF Restart, TypeInv, CallType
  <1>3. DataType'
    BY DEF Restart, DataType, Empty
  <1>4. \A t \in Threads : ~Active(t)'
    BY DEF Restart, Active
  <1>5. CallsOK'
    <2>1. \A b \in Block : mem'[b].call = 0
      BY FreeFacts DEF Restart
    <2>2. calls' \in Nat
      BY DEF Restart, TypeInv, CallType
    <2> QED BY <1>4, <2>1, <2>2 DEF CallsOK
  <1> QED BY <1>1, <1>2, <1>3, <1>4, <1>5 DEF TypeInv

\* Each step of the parsers, seen from the pool.
TakeStep(t) == TakeUtf8(t) \/ TakeGbk(t) \/ Parse(t)
FreeStep(t) == cJSON_Delete(t) \/ FreeUtf8(t) \/ FreeGbk(t)

LEMMA TreeIsFree ==
  ASSUME NEW t
  PROVE  Tree(t) \subseteq FreeBlocks
  BY SinglesAreFree DEF Tree

LEMMA TakeType ==
  ASSUME TypeInv, NEW t \in Threads, TakeStep(t)
  PROVE  TypeInv' /\ OnlyOwn(t)
  <1>1. Active(t)
    BY DEF TakeStep, TakeUtf8, TakeGbk, Parse, Active
  <1>2. PICK bs \in SUBSET FreeBlocks, use \in {"utf8str", "gbkstr", "json"} :
          mem' = Taken(t, bs, use)
    BY RunIsFree, TreeIsFree DEF TakeStep, TakeUtf8, TakeGbk, Parse
  <1>3. mem' \in [Block -> Uses] /\ OnlyOwn(t)
    <2>1. IsTaken(t, bs, use)
      BY <1>1, <1>2, TakenWhat
    <2>2. \A b \in bs : mem'[b].call = call[t]
      BY <2>1 DEF IsTaken
    <2> QED BY <2>1, <2>2 DEF IsTaken, OnlyOwn
  <1>4. PoolType'
    <2>1. Run(TextSize) \subseteq Block /\ Tree(t) \subseteq Block
      BY RunIsFree, TreeIsFree, FreeBlocksType
    <2> QED BY <2>1, <1>3 DEF TakeStep, TakeUtf8, TakeGbk, Parse, TypeInv, PoolType
  <1>5. CallType' /\ CallsOK'
    BY <1>1, <1>3, GoingType, GoingCalls DEF TakeStep, TakeUtf8, TakeGbk, Parse
  <1>6. DataType'
    BY DEF TakeStep, TakeUtf8, TakeGbk, Parse, TypeInv, DataType
  <1> QED BY <1>3, <1>4, <1>5, <1>6 DEF TypeInv

LEMMA FreeType ==
  ASSUME TypeInv, NEW t \in Threads, FreeStep(t)
  PROVE  TypeInv'
  <1>1. Active(t)
    BY DEF FreeStep, cJSON_Delete, FreeUtf8, FreeGbk, Active
  <1>2. PICK bs : mem' = Freed(bs)
    BY DEF FreeStep, cJSON_Delete, FreeUtf8, FreeGbk
  <1>3. mem' \in [Block -> Uses] /\ \A b \in Block : mem'[b] \in {mem[b], FREE}
    BY <1>2, FreedWhat
  <1>4. PoolType'
    BY <1>3 DEF FreeStep, cJSON_Delete, FreeUtf8, FreeGbk, TypeInv, PoolType
  <1>5. CallType'
    BY <1>1, GoingType DEF FreeStep, cJSON_Delete, FreeUtf8, FreeGbk
  <1>6. CallsOK'
    <2>1. calls' = calls /\ call' = call /\ calls \in Nat
      BY DEF FreeStep, cJSON_Delete, FreeUtf8, FreeGbk, TypeInv, CallType
    <2>2. \A u \in Threads : Active(u)' => Active(u)
      BY <1>1 DEF FreeStep, cJSON_Delete, FreeUtf8, FreeGbk, Goto, Active, TypeInv, CallType
    <2>3. \A b \in Block : mem'[b].call <= calls
      BY <1>3, <2>1, FreeFacts DEF TypeInv, CallsOK
    <2> QED BY <2>1, <2>2, <2>3 DEF TypeInv, CallsOK
  <1>7. DataType'
    BY DEF FreeStep, cJSON_Delete, FreeUtf8, FreeGbk, TypeInv, DataType
  <1> QED BY <1>4, <1>5, <1>6, <1>7 DEF TypeInv

LEMMA CallTypeInv ==
  ASSUME TypeInv, NEW t \in Threads, Call(t)
  PROVE  TypeInv'
  <1>1. calls' = calls + 1 /\ calls \in Nat /\ calls' \in 0 .. MaxCalls
    BY DEF Call, TypeInv, CallType
  <1>2. CallType'
    <2>1. \A k \in Kinds : Answers(k) \subseteq AnswerType
      <3>1. \A k \in Kinds : Parts(k) \subseteq Part
        BY DEF Part
      <3> QED BY <3>1 DEF Answers, Answer, AnswerType
    <2>2. /\ kind' \in [Threads -> Kinds] /\ answer' \in [Threads -> AnswerType]
      BY <2>1 DEF Call, TypeInv, CallType
    <2>3. call' \in [Threads -> 0 .. MaxCalls]
      BY <1>1 DEF Call, TypeInv, CallType
    <2>4. pc' \in [Threads -> {"idle", "utf8", "gbk", "wipe", "parse", "store",
                              "delete", "freeUtf8", "freeGbk"}]
      BY DEF Call, Goto, TypeInv, CallType
    <2> QED BY <1>1, <2>2, <2>3, <2>4 DEF CallType
  <1>3. CallsOK'
    <2>1. /\ call'[t] = calls + 1
          /\ \A u \in Threads \ {t} : /\ call'[u] = call[u]
                                      /\ (Active(u)' => Active(u))
      BY DEF Call, Goto, TypeInv, CallType, Active
    <2>2. \A u \in Threads \ {t} : Active(u)' => call'[u] \in 1 .. calls
      BY <2>1 DEF TypeInv, CallsOK
    <2>3. \A u \in Threads : Active(u)' => call'[u] \in 1 .. calls'
      BY <1>1, <2>1, <2>2
    <2>4. \A u, v \in Threads : Active(u)' /\ Active(v)' /\ u /= v => call'[u] /= call'[v]
      BY <1>1, <2>1, <2>2 DEF TypeInv, CallsOK
    <2>5. \A b \in Block : mem'[b].call <= calls'
      <3>1. ASSUME NEW b \in Block PROVE mem[b].call <= calls /\ mem[b].call \in Nat
        BY FreeFacts DEF TypeInv, CallsOK, PoolType, Uses
      <3> QED BY <1>1, <3>1 DEF Call, memVars
    <2> QED BY <2>3, <2>4, <2>5 DEF CallsOK
  <1> QED BY <1>2, <1>3 DEF Call, memVars, TypeInv, PoolType, DataType

LEMMA CopyType ==
  ASSUME TypeInv, NEW t \in Threads, Copy(t)
  PROVE  PoolType' /\ DataType'
  <1>1. PoolType'
    BY DEF Copy, TypeInv, PoolType
  <1>2. answer[t].version \in Version \union {NUL}
    BY DEF TypeInv, CallType, AnswerType
  <1>3. ASSUME NEW p \in Part
        PROVE  Copied(weather_data[p], answer[t].version)
                 \in [1 .. FieldSize -> Version \union {NUL}]
    BY <1>2 DEF Copied, TypeInv, DataType
  <1>4. DataType'
    BY <1>3 DEF Copy, TypeInv, DataType
  <1> QED BY <1>1, <1>4

LEMMA NextTypeInv ==
  ASSUME TypeInv, [Next]_vars
  PROVE  TypeInv'
  <1>1. CASE UNCHANGED vars
    BY <1>1 DEF vars, memVars, TypeInv, PoolType, CallType, DataType, CallsOK, Active
  <1>2. CASE Place
    BY <1>2 DEF Place, Empty, memVars, TypeInv, PoolType, CallType, DataType, CallsOK, Active
  <1>3. ASSUME NEW t \in Threads, Parser(t)
        PROVE  TypeInv'
    <2>1. CASE Restart
      BY <2>1, RestartWhat
    <2>2. CASE Call(t)
      BY <2>2, CallTypeInv
    <2>3. CASE TakeStep(t)
      BY <2>3, TakeType
    <2>4. CASE FreeStep(t)
      BY <2>4, FreeType
    <2>5. CASE Wipe(t) /\ ~Restart
      <3>1. /\ Goto(t, "parse") /\ Active(t)
            /\ UNCHANGED <<memVars, kind, call, answer, weather_data, calls>>
        BY <2>5 DEF Wipe, Active
      <3>2. OnlyOwn(t) /\ UNCHANGED <<kind, call, answer, calls>>
        BY <3>1 DEF OnlyOwn, memVars
      <3>3. CallType' /\ CallsOK'
        BY <3>1, <3>2, GoingType, GoingCalls
      <3> QED BY <3>1, <3>3 DEF memVars, TypeInv, PoolType, DataType
    <2>6. CASE Store(t) /\ ~Restart
      <3>1. /\ Goto(t, "delete") \/ Goto(t, "freeUtf8")
            /\ Active(t) /\ Copy(t)
        BY <2>6 DEF Store, StoreNow, StoreDaily, StoreLife, Active
      <3>2. OnlyOwn(t) /\ UNCHANGED <<kind, call, answer, calls>>
        BY <3>1 DEF Copy, OnlyOwn
      <3>3. CallType' /\ CallsOK'
        BY <3>1, <3>2, GoingType, GoingCalls
      <3> QED BY <3>1, <3>3, CopyType DEF TypeInv
    <2> QED BY <1>3, <2>1, <2>2, <2>3, <2>4, <2>5, <2>6 DEF Parser, TakeStep, FreeStep
  <1> QED BY <1>1, <1>2, <1>3 DEF Next

LEMMA InitTypeInv ==
  ASSUME Init
  PROVE  TypeInv
  <1>1. PoolType
    BY DEF Init, PoolType, Uses
  <1>2. CallType
    BY DEF Init, CallType, Answer, AnswerType, Kinds
  <1>3. DataType
    BY DEF Init, DataType, Empty
  <1>4. CallsOK
    BY FreeFacts DEF Init, CallsOK, Active
  <1> QED BY <1>1, <1>2, <1>3, <1>4 DEF TypeInv

\* Every variable of the parsers keeps to its range: what their pointers point
\* at are blocks of the pool, also when an allocation has failed.
THEOREM WeatherInfoTyped == Spec => []TypeOK
  <1>1. TypeInv => TypeOK
    <2> SUFFICES ASSUME TypeInv PROVE TypeOK
      OBVIOUS
    <2>1. \A t \in Threads : utf8str[t] \union gbkstr[t] \union json[t] \subseteq Block
      BY DEF TypeInv, PoolType
    <2> QED BY <2>1 DEF TypeInv, PoolType, CallType, DataType, TypeOK
  <1>2. Init => TypeInv
    BY InitTypeInv
  <1>3. TypeInv /\ [Next]_vars => TypeInv'
    BY NextTypeInv
  <1> QED BY <1>1, <1>2, <1>3, PTL DEF Spec

-----------------------------------------------------------------------------
(***************************************************************************)
(* A call keeps what it uses.                                              *)
(***************************************************************************)

\* The step of another call leaves this one what it has.
LEMMA OthersKeep ==
  ASSUME TypeInv, NEW t \in Threads, NEW u \in Threads \ {t}, Active(t), OwnsOK(u),
         OnlyOwn(t), UNCHANGED <<kind, call>>,
         pc'[u] = pc[u], utf8str'[u] = utf8str[u], gbkstr'[u] = gbkstr[u],
         json'[u] = json[u]
  PROVE  OwnsOK(u)'
  <1>1. CASE ~Active(u)
    BY <1>1 DEF OwnsOK, Active
  <1>2. CASE Active(u)
    <2>1. /\ call[u] /= call[t] /\ call[u] /= 0
      BY <1>2, ActiveCall DEF TypeInv, CallsOK
    <2>2. ASSUME NEW b \in Block
          PROVE  /\ mem[b].call = call[u] => mem'[b] = mem[b]
                 /\ mem'[b].call = call[u] => mem'[b] = mem[b]
      BY <2>1, FreeFacts DEF OnlyOwn
    <2>3. utf8str[u] \subseteq Block /\ gbkstr[u] \subseteq Block /\ json[u] \subseteq Block
      BY DEF TypeInv, PoolType
    <2> QED BY <2>2, <2>3 DEF OwnsOK, UsedBy
  <1> QED BY <1>1, <1>2

LEMMA TakeKeeps ==
  ASSUME TypeInv, NEW t \in Threads, TakeStep(t), OwnsOK(t)
  PROVE  OwnsOK(t)'
  <1>1. Active(t) /\ t \in Threads
    BY DEF TakeStep, TakeUtf8, TakeGbk, Parse, Active
  <1>2. call[t] /= 0 /\ call' = call /\ kind' = kind
    BY <1>1, ActiveCall DEF TakeStep, TakeUtf8, TakeGbk, Parse
  <1>3. ASSUME NEW bs \in SUBSET FreeBlocks, NEW use \in {"utf8str", "gbkstr", "json"},
               mem' = Taken(t, bs, use)
        PROVE  /\ \A b \in bs : /\ UsedBy(t, b, {use})' /\ mem'[b].kind = kind[t]
               /\ \A b \in Block, uses \in SUBSET {"utf8str", "gbkstr", "json"} :
                    UsedBy(t, b, uses) => UsedBy(t, b, uses)'
    <2>1. IsTaken(t, bs, use)
      BY <1>1, <1>3, TakenWhat
    <2> QED BY <2>1, <1>2, FreeFacts DEF IsTaken, UsedBy
  <1>4. /\ utf8str[t] \subseteq Block /\ gbkstr[t] \subseteq Block /\ json[t] \subseteq Block
    BY DEF TypeInv, PoolType
  <1>5. CASE TakeUtf8(t)
    <2>1. /\ pc'[t] = "gbk" /\ utf8str'[t] = Run(TextSize)
      BY <1>5 DEF TakeUtf8, Goto, TypeInv, PoolType, CallType
    <2>2. \A b \in Run(TextSize) : UsedBy(t, b, {"utf8str"})'
      BY <1>3, <1>5, RunIsFree DEF TakeUtf8
    <2> QED BY <2>1, <2>2 DEF OwnsOK, UsedBy
  <1>6. CASE TakeGbk(t)
    <2>1. /\ pc'[t] = "wipe" /\ gbkstr'[t] = Run(TextSize) /\ utf8str'[t] = utf8str[t]
          /\ pc[t] = "gbk"
      BY <1>6 DEF TakeGbk, Goto, TypeInv, PoolType, CallType
    <2>2. \A b \in Run(TextSize) : UsedBy(t, b, {"gbkstr"})'
      BY <1>3, <1>6, RunIsFree DEF TakeGbk
    <2>3. \A b \in utf8str[t] : UsedBy(t, b, {"utf8str"})'
      BY <1>3, <1>4, <1>6, <2>1, RunIsFree DEF TakeGbk, OwnsOK
    <2> QED BY <2>1, <2>2, <2>3 DEF OwnsOK, UsedBy
  <1>7. CASE Parse(t)
    <2>1. /\ pc'[t] \in {"idle", "store"} /\ json'[t] = Tree(t) /\ utf8str'[t] = utf8str[t]
          /\ gbkstr'[t] = gbkstr[t] /\ pc[t] = "parse"
      BY <1>7 DEF Parse, Goto, TypeInv, PoolType, CallType
    <2>2. \A b \in Tree(t) : UsedBy(t, b, {"json"})' /\ mem'[b].kind = kind[t]
      BY <1>3, <1>7, TreeIsFree DEF Parse
    <2>3. /\ \A b \in utf8str[t] : UsedBy(t, b, {"utf8str"})'
          /\ \A b \in gbkstr[t] : UsedBy(t, b, {"gbkstr"})'
      BY <1>3, <1>4, <1>7, <2>1, TreeIsFree DEF Parse, OwnsOK
    <2>4. \A b \in utf8str[t] : UsedBy(t, b, {"utf8str", "json"})'
      BY <2>3 DEF UsedBy
    <2> QED BY <2>1, <2>2, <2>3, <2>4, <1>2 DEF OwnsOK, UsedBy
  <1> QED BY <1>5, <1>6, <1>7 DEF TakeStep

\* What a call frees is its own, but for what FreesForeign says.
LEMMA FreeOnlyOwn ==
  ASSUME TypeInv, NEW t \in Threads, FreeStep(t), OwnsOK(t), ~FreesForeign(t)
  PROVE  OnlyOwn(t)
  <1>1. CASE cJSON_Delete(t)
    <2>1. \A b \in json[t] : mem[b].call = call[t]
      BY <1>1 DEF cJSON_Delete, OwnsOK, UsedBy
    <2> QED BY <2>1, <1>1, FreedWhat DEF cJSON_Delete, OnlyOwn
  <1>2. CASE FreeUtf8(t)
    <2>1. \A b \in utf8str[t] : mem[b] = FREE \/ mem[b].call = call[t]
      BY <1>2 DEF FreesForeign
    <2> QED BY <2>1, <1>2, FreedWhat DEF FreeUtf8, OnlyOwn
  <1>3. CASE FreeGbk(t)
    <2>1. \A b \in gbkstr[t] : mem[b].call = call[t]
      BY <1>3 DEF FreeGbk, OwnsOK, UsedBy
    <2> QED BY <2>1, <1>3, FreedWhat DEF FreeGbk, OnlyOwn
  <1> QED BY <1>1, <1>2, <1>3 DEF FreeStep

LEMMA FreeKeeps ==
  ASSUME TypeInv, NEW t \in Threads, FreeStep(t), OwnsOK(t)
  PROVE  OwnsOK(t)'
  <1>1. /\ utf8str[t] \subseteq Block /\ gbkstr[t] \subseteq Block /\ json[t] \subseteq Block
        /\ call' = call /\ kind' = kind
    BY DEF FreeStep, cJSON_Delete, FreeUtf8, FreeGbk, TypeInv, PoolType
  <1>2. call[t] /= 0
    BY ActiveCall DEF FreeStep, cJSON_Delete, FreeUtf8, FreeGbk, Active
  <1>3. CASE cJSON_Delete(t)
    <2>1. /\ pc[t] = "delete" /\ pc'[t] = "freeUtf8"
          /\ utf8str'[t] = utf8str[t] /\ gbkstr'[t] = gbkstr[t]
          /\ \A b \in Block : mem'[b] = IF b \in json[t] THEN FREE ELSE mem[b]
      BY <1>3, FreedWhat DEF cJSON_Delete, Goto, TypeInv, CallType
    <2>2. \A b \in json[t] : mem[b].as = "json"
      BY <2>1 DEF OwnsOK, UsedBy
    <2>3. \A b \in gbkstr[t] : UsedBy(t, b, {"gbkstr"})'
      BY <1>1, <2>1, <2>2 DEF OwnsOK, UsedBy
    <2>4. \A b \in utf8str[t] : mem'[b].call = call[t] => mem'[b].as \in {"utf8str", "json"}
      BY <1>1, <1>2, <2>1, FreeFacts DEF OwnsOK, UsedBy
    <2> QED BY <1>1, <2>1, <2>3, <2>4 DEF OwnsOK
  <1>4. CASE FreeUtf8(t)
    <2>1. /\ pc[t] = "freeUtf8" /\ pc'[t] = "freeGbk"
          /\ utf8str'[t] = utf8str[t] /\ gbkstr'[t] = gbkstr[t]
          /\ \A b \in Block : mem'[b] = IF b \in utf8str[t] THEN FREE ELSE mem[b]
      BY <1>4, FreedWhat DEF FreeUtf8, Goto, TypeInv, CallType
    <2>2. \A b \in gbkstr[t] : UsedBy(t, b, {"gbkstr"})'
      BY <1>1, <2>1 DEF OwnsOK, UsedBy
    <2> QED BY <1>1, <2>1, <2>2 DEF OwnsOK
  <1>5. CASE FreeGbk(t)
    <2>1. pc'[t] = "idle"
      BY <1>5 DEF FreeGbk, Goto, TypeInv, CallType
    <2> QED BY <2>1 DEF OwnsOK
  <1> QED BY <1>3, <1>4, <1>5 DEF FreeStep

LEMMA StoreKeeps ==
  ASSUME TypeInv, NEW t \in Threads, pc[t] = "store", Copy(t), OwnsOK(t),
         Goto(t, "delete") \/ Goto(t, "freeUtf8")
  PROVE  OwnsOK(t)'
  <1>1. pc'[t] \in {"delete", "freeUtf8"}
    BY DEF Goto, TypeInv, CallType
  <1>2. utf8str'[t] = utf8str[t] \/ \E b \in json[t] : utf8str'[t] = {b}
    BY DEF Copy, TypeInv, PoolType
  <1>3. UNCHANGED <<mem, gbkstr, json, kind, call>>
    BY DEF Copy
  <1> QED BY <1>1, <1>2, <1>3 DEF OwnsOK, UsedBy

\* Every step of a parser that does not restart the program is the step of one
\* call: the others stay where they are.
LEMMA OnlyOne ==
  ASSUME TypeInv, NEW t \in Threads, Parser(t), ~Restart, NEW u \in Threads \ {t}
  PROVE  /\ pc'[u] = pc[u] /\ utf8str'[u] = utf8str[u] /\ gbkstr'[u] = gbkstr[u]
         /\ json'[u] = json[u] /\ kind'[u] = kind[u] /\ call'[u] = call[u]
  <1> USE DEF TypeInv, PoolType, CallType, Goto, memVars
  <1>1. CASE Call(t)
    BY <1>1 DEF Call
  <1>2. CASE TakeUtf8(t) \/ TakeGbk(t) \/ Wipe(t) \/ Parse(t)
    BY <1>2 DEF TakeUtf8, TakeGbk, Wipe, Parse
  <1>3. CASE Store(t)
    BY <1>3 DEF Store, StoreNow, StoreDaily, StoreLife, Copy
  <1>4. CASE cJSON_Delete(t) \/ FreeUtf8(t) \/ FreeGbk(t)
    BY <1>4 DEF cJSON_Delete, FreeUtf8, FreeGbk
  <1> QED BY <1>1, <1>2, <1>3, <1>4 DEF Parser

LEMMA ParserKeeps ==
  ASSUME TypeInv, \A u \in Threads : OwnsOK(u), NEW t \in Threads, Parser(t),
         ~FreesForeign(t)
  PROVE  \A u \in Threads : OwnsOK(u)'
  <1>1. CASE Restart
    BY <1>1, RestartWhat DEF OwnsOK, Active
  <1>2. CASE ~Restart
    <2>1. ASSUME Active(t), OnlyOwn(t), UNCHANGED <<kind, call>>, OwnsOK(t)'
          PROVE  \A u \in Threads : OwnsOK(u)'
      BY <1>2, <2>1, OnlyOne, OthersKeep
    <2>2. CASE Call(t)
      <3>1. pc'[t] = "utf8" /\ UNCHANGED memVars
        BY <2>2 DEF Call, Goto, TypeInv, CallType
      <3>2. OwnsOK(t)'
        BY <3>1 DEF OwnsOK
      <3>3. ASSUME NEW u \in Threads \ {t} PROVE OwnsOK(u)'
        BY <1>2, <3>1, OnlyOne DEF OwnsOK, UsedBy, memVars
      <3> QED BY <3>2, <3>3
    <2>3. CASE TakeStep(t)
      <3>1. Active(t) /\ UNCHANGED <<kind, call>>
        BY <2>3 DEF TakeStep, TakeUtf8, TakeGbk, Parse, Active
      <3> QED BY <2>1, <2>3, <3>1, TakeType, TakeKeeps
    <2>4. CASE FreeStep(t)
      <3>1. Active(t) /\ UNCHANGED <<kind, call>>
        BY <2>4 DEF FreeStep, cJSON_Delete, FreeUtf8, FreeGbk, Active
      <3> QED BY <2>1, <2>4, <3>1, FreeOnlyOwn, FreeKeeps
    <2>5. CASE Wipe(t)
      <3>1. /\ Active(t) /\ UNCHANGED <<memVars, kind, call>>
            /\ pc[t] = "wipe" /\ pc'[t] = "parse"
        BY <1>2, <2>5 DEF Wipe, Active, Goto, TypeInv, CallType
      <3>2. OnlyOwn(t) /\ OwnsOK(t)'
        BY <3>1 DEF OnlyOwn, memVars, OwnsOK, UsedBy
      <3> QED BY <2>1, <3>1, <3>2
    <2>6. CASE Store(t)
      <3>1. /\ pc[t] = "store" /\ Active(t) /\ Copy(t)
            /\ Goto(t, "delete") \/ Goto(t, "freeUtf8")
        BY <1>2, <2>6 DEF Store, StoreNow, StoreDaily, StoreLife, Active
      <3>2. OnlyOwn(t) /\ UNCHANGED <<kind, call>>
        BY <3>1 DEF Copy, OnlyOwn
      <3> QED BY <2>1, <3>1, <3>2, StoreKeeps
    <2> QED BY <2>2, <2>3, <2>4, <2>5, <2>6 DEF Parser, TakeStep, FreeStep
  <1> QED BY <1>1, <1>2

LEMMA NextKeeps ==
  ASSUME TypeInv, KeepsInv, [MCNext]_mcVars
  PROVE  KeepsInv'
  <1>1. CASE UNCHANGED mcVars
    BY <1>1 DEF mcVars, vars, memVars, KeepsInv, OwnsOK, UsedBy
  <1>2. CASE MCNext
    <2> SUFFICES ASSUME ~foreign' PROVE \A u \in Threads : OwnsOK(u)'
      BY DEF KeepsInv
    <2>1. ~foreign /\ \A t \in Threads : ~FreesForeign(t)
      BY <1>2 DEF MCNext
    <2>2. CASE Place
      BY <2>1, <2>2 DEF Place, memVars, KeepsInv, OwnsOK, UsedBy
    <2>3. ASSUME NEW t \in Threads, Parser(t)
          PROVE  \A u \in Threads : OwnsOK(u)'
      BY <2>1, <2>3, ParserKeeps DEF KeepsInv
    <2> QED BY <1>2, <2>2, <2>3 DEF MCNext, Next
  <1> QED BY <1>1, <1>2

\* The blocks and the tree a parser works with stay its own, with any number
\* of threads in the parsers, until one frees, through utf8str, what another
\* has taken since its own tree was deleted: no other free can hit them.
THEOREM WeatherInfoKeeps == MCSpec => []KeepsWhatItUsesTillThen
  <1>1. MCInit => TypeInv /\ KeepsInv
    <2>1. MCInit => KeepsInv
      BY DEF MCInit, Init, KeepsInv, OwnsOK
    <2> QED BY <2>1, InitTypeInv DEF MCInit
  <1>2. TypeInv /\ [MCNext]_mcVars => TypeInv'
    BY NextTypeInv DEF MCNext, mcVars
  <1>3. TypeInv /\ KeepsInv /\ [MCNext]_mcVars => KeepsInv'
    BY NextKeeps
  <1>4. TypeInv /\ KeepsInv => KeepsWhatItUsesTillThen
    BY DEF KeepsInv, OwnsOK, KeepsWhatItUsesTillThen, KeepsWhatItUses
  <1> QED BY <1>1, <1>2, <1>3, <1>4, PTL DEF MCSpec

-----------------------------------------------------------------------------
(***************************************************************************)
(* One thread alone.                                                       *)
(***************************************************************************)

\* While t takes a step no other thread is in a parser.
OthersIdle(t) == \A u \in Threads \ {t} : ~Active(u) /\ ~Active(u)'

\* What AloneInv and the invariants before it say of a pool with one thread.
AllInv == /\ TypeInv /\ \A t \in Threads : OwnsOK(t)
          /\ GbkOK /\ JsonOK /\ TextOK

LEMMA AloneNotForeign ==
  ASSUME TextOK, NEW t \in Threads
  PROVE  ~FreesForeign(t)
  BY DEF TextOK, FreesForeign, FreeUtf8

\* What the call of t does leaves the loss of the calls before it alone.
LEMMA LostStays ==
  ASSUME TypeInv, NEW t \in Threads, Active(t), OnlyOwn(t), OthersIdle(t),
         UNCHANGED call,
         NEW b \in Block, mem'[b] = mem[b],
         \E c \in Block : /\ mem[c].as = "utf8str" /\ mem[c].call = mem[b].call
                          /\ \A u \in Threads : Active(u) => mem[c].call /= call[u]
  PROVE  \E c \in Block : /\ mem'[c].as = "utf8str" /\ mem'[c].call = mem'[b].call
                          /\ \A u \in Threads : Active(u)' => mem'[c].call /= call'[u]
  <1>1. PICK c \in Block : /\ mem[c].as = "utf8str" /\ mem[c].call = mem[b].call
                           /\ \A u \in Threads : Active(u) => mem[c].call /= call[u]
    OBVIOUS
  <1>2. mem'[c] = mem[c]
    BY <1>1, FreeFacts DEF OnlyOwn
  <1>3. \A u \in Threads : Active(u)' => mem[c].call /= call[u]
    BY <1>1 DEF OthersIdle
  <1> QED BY <1>1, <1>2, <1>3

LEMMA TakeAlone ==
  ASSUME AllInv, NEW t \in Threads, TakeStep(t), OthersIdle(t)
  PROVE  GbkOK' /\ JsonOK' /\ TextOK'
  <1>1. /\ Active(t) /\ OnlyOwn(t) /\ UNCHANGED call
    BY TakeType DEF TakeStep, TakeUtf8, TakeGbk, Parse, Active, AllInv
  <1>2. TypeInv /\ OwnsOK(t)
    BY DEF AllInv
  <1>3. ASSUME NEW bs \in SUBSET FreeBlocks, NEW use \in {"utf8str", "gbkstr", "json"},
               mem' = Taken(t, bs, use)
        PROVE  IsTaken(t, bs, use)
    BY <1>1, <1>2, <1>3, TakenWhat
  <1>4. CASE TakeUtf8(t)
    <2>1. /\ pc[t] = "utf8" /\ pc'[t] = "gbk" /\ utf8str'[t] = Run(TextSize)
          /\ UNCHANGED <<gbkstr, json>>
      BY <1>2, <1>4 DEF TakeUtf8, Goto, TypeInv, PoolType, CallType
    <2>2. IsTaken(t, Run(TextSize), "utf8str")
      BY <1>3, <1>4, RunIsFree DEF TakeUtf8
    <2>3. \A b \in Block : mem'[b].as \in {"gbkstr", "json"} => mem'[b] = mem[b]
      BY <2>2 DEF IsTaken
    <2>4. GbkOK'
      <3> SUFFICES ASSUME NEW b \in Block, mem'[b].as = "gbkstr"
                   PROVE  \E c \in Block :
                            /\ mem'[c].as = "utf8str" /\ mem'[c].call = mem'[b].call
                            /\ \A u \in Threads : Active(u)' => mem'[c].call /= call'[u]
        BY DEF GbkOK
      <3>1. mem'[b] = mem[b]
        BY <2>3
      <3>2. \E c \in Block : /\ mem[c].as = "utf8str" /\ mem[c].call = mem[b].call
                             /\ \A u \in Threads : Active(u) => mem[c].call /= call[u]
        BY <2>1, <3>1 DEF AllInv, GbkOK, OthersIdle
      <3> QED BY <1>1, <1>2, <3>1, <3>2, LostStays
    <2>5. JsonOK'
      BY <2>1, <2>3 DEF AllInv, JsonOK, OthersIdle, Active
    <2>6. TextOK'
      <3>1. ASSUME utf8str'[t] = {} PROVE NoRun(TextSize)'
        <4>1. NoRun(TextSize)
          BY <2>1, <3>1, RunIsFree
        <4>2. FreeBlocks' = FreeBlocks
          BY <2>1, <2>2, <3>1 DEF IsTaken, FreeBlocks
        <4> QED BY <4>1, <4>2 DEF NoRun
      <3> QED BY <2>1, <3>1 DEF TextOK, OthersIdle, Active
    <2> QED BY <2>4, <2>5, <2>6
  <1>5. CASE TakeGbk(t)
    <2>1. /\ pc[t] = "gbk" /\ pc'[t] = "wipe" /\ gbkstr'[t] = Run(TextSize)
          /\ UNCHANGED <<utf8str, json>>
      BY <1>2, <1>5 DEF TakeGbk, Goto, TypeInv, PoolType, CallType
    <2>2. IsTaken(t, Run(TextSize), "gbkstr")
      BY <1>3, <1>5, RunIsFree DEF TakeGbk
    <2>3. \A b \in Block \ Run(TextSize) : mem'[b] = mem[b]
      BY <2>2 DEF IsTaken
    <2>4. GbkOK'
      <3>1. ASSUME NEW b \in Run(TextSize)
            PROVE  mem'[b].call = call'[t] /\ b \in gbkstr'[t] /\ Active(t)'
        BY <1>1, <2>1, <2>2 DEF IsTaken, Active
      <3>2. ASSUME NEW b \in Block \ Run(TextSize), mem'[b].as = "gbkstr"
            PROVE  \E c \in Block :
                     /\ mem'[c].as = "utf8str" /\ mem'[c].call = mem'[b].call
                     /\ \A u \in Threads : Active(u)' => mem'[c].call /= call'[u]
        <4>1. mem'[b] = mem[b]
          BY <2>3
        <4>2. \E c \in Block : /\ mem[c].as = "utf8str" /\ mem[c].call = mem[b].call
                               /\ \A u \in Threads : Active(u) => mem[c].call /= call[u]
          BY <2>1, <3>2, <4>1 DEF AllInv, GbkOK, OthersIdle
        <4> QED BY <1>1, <1>2, <4>1, <4>2, LostStays
      <3> QED BY <2>1, <3>1, <3>2 DEF GbkOK
    <2>5. JsonOK'
      <3>1. \A b \in Block : mem'[b].as = "json" => mem'[b] = mem[b]
        BY <2>2 DEF IsTaken
      <3> QED BY <2>1, <3>1 DEF AllInv, JsonOK, OthersIdle, Active
    <2>6. TextOK'
      <3>1. utf8str[t] = {} => gbkstr'[t] = {}
        BY <2>1, RunIsFree DEF AllInv, TextOK
      <3> QED BY <2>1, <3>1 DEF TextOK, OthersIdle, Active
    <2> QED BY <2>4, <2>5, <2>6
  <1>6. CASE Parse(t)
    <2>1. /\ pc[t] = "parse" /\ pc'[t] = IF Tree(t) = {} THEN "idle" ELSE "store"
          /\ json'[t] = Tree(t) /\ UNCHANGED <<utf8str, gbkstr>>
      BY <1>2, <1>6 DEF Parse, Goto, TypeInv, PoolType, CallType
    <2>2. IsTaken(t, Tree(t), "json")
      BY <1>3, <1>6, TreeIsFree DEF Parse
    <2>3. \A b \in Block : mem'[b].as \in {"utf8str", "gbkstr"} => mem'[b] = mem[b]
      BY <2>2 DEF IsTaken
    <2>4. GbkOK'
      <3> SUFFICES ASSUME NEW b \in Block, mem'[b].as = "gbkstr",
                          ~(b \in gbkstr'[t] /\ mem'[b].call = call'[t] /\ pc'[t] = "store")
                   PROVE  \E c \in Block :
                            /\ mem'[c].as = "utf8str" /\ mem'[c].call = mem'[b].call
                            /\ \A u \in Threads : Active(u)' => mem'[c].call /= call'[u]
        <4>1. pc'[t] = "store" => Active(t)'
          BY DEF Active
        <4> QED BY <4>1 DEF GbkOK
      <3>1. mem'[b] = mem[b]
        BY <2>3
      <3>2. CASE b \in gbkstr[t] /\ mem[b].call = call[t]
        <4>1. pc'[t] = "idle"
          BY <1>1, <2>1, <3>1, <3>2
        <4>2. PICK c \in utf8str[t] : TRUE
          BY <2>1, <3>2 DEF AllInv, TextOK
        <4>3. c \in Block /\ mem[c].as = "utf8str" /\ mem[c].call = call[t]
          BY <1>2, <2>1, <4>2 DEF OwnsOK, UsedBy, TypeInv, PoolType
        <4>4. mem'[c] = mem[c]
          BY <2>2, <4>3, FreeFacts DEF IsTaken
        <4>5. \A u \in Threads : ~Active(u)'
          BY <4>1 DEF OthersIdle, Active
        <4> QED BY <3>1, <3>2, <4>3, <4>4, <4>5
      <3>3. CASE ~(b \in gbkstr[t] /\ mem[b].call = call[t])
        <4>1. \E c \in Block : /\ mem[c].as = "utf8str" /\ mem[c].call = mem[b].call
                               /\ \A u \in Threads : Active(u) => mem[c].call /= call[u]
          BY <3>1, <3>3 DEF AllInv, GbkOK, OthersIdle
        <4> QED BY <1>1, <1>2, <3>1, <4>1, LostStays
      <3> QED BY <3>2, <3>3
    <2>5. JsonOK'
      <3>1. ASSUME NEW b \in Tree(t) PROVE pc'[t] = "store" /\ b \in json'[t]
        BY <2>1
      <3>2. ASSUME NEW b \in Block \ Tree(t), mem'[b].as = "json"
            PROVE  mem'[b].kind = "Life"
        <4>1. mem'[b] = mem[b]
          BY <2>2 DEF IsTaken
        <4> QED BY <2>1, <3>2, <4>1 DEF AllInv, JsonOK, OthersIdle, Active
      <3> QED BY <3>1, <3>2 DEF JsonOK
    <2>6. TextOK'
      BY <2>1 DEF TextOK, OthersIdle, Active
    <2> QED BY <2>4, <2>5, <2>6
  <1> QED BY <1>4, <1>5, <1>6 DEF TakeStep

LEMMA FreeAlone ==
  ASSUME AllInv, NEW t \in Threads, FreeStep(t), OthersIdle(t)
  PROVE  GbkOK' /\ JsonOK' /\ TextOK'
  <1>1. /\ Active(t) /\ OnlyOwn(t) /\ UNCHANGED <<call, kind, utf8str, gbkstr>>
    BY FreeOnlyOwn, AloneNotForeign
    DEF FreeStep, cJSON_Delete, FreeUtf8, FreeGbk, Active, AllInv
  <1>2. TypeInv /\ OwnsOK(t)
    BY DEF AllInv
  <1>3. \A b \in Block : mem'[b].as /= "free" => mem'[b] = mem[b]
    BY <1>2, FreedWhat, FreeFacts DEF FreeStep, cJSON_Delete, FreeUtf8, FreeGbk
  <1>4. GbkOK'
    <2> SUFFICES ASSUME NEW b \in Block, mem'[b].as = "gbkstr",
                        ~(b \in gbkstr'[t] /\ mem'[b].call = call'[t]
                          /\ pc'[t] \in {"freeUtf8", "freeGbk"})
                 PROVE  \E c \in Block :
                          /\ mem'[c].as = "utf8str" /\ mem'[c].call = mem'[b].call
                          /\ \A u \in Threads : Active(u)' => mem'[c].call /= call'[u]
      <3>1. pc'[t] \in {"freeUtf8", "freeGbk"} => Active(t)'
        BY DEF Active
      <3> QED BY <3>1 DEF GbkOK
    <2>1. mem'[b] = mem[b]
      BY <1>3
    <2>2. ~(b \in gbkstr[t] /\ mem[b].call = call[t])
      <3>1. CASE FreeGbk(t)
        <4>1. \A c \in gbkstr[t] : c \in Block => mem'[c] = FREE
          BY <1>2, <3>1, FreedWhat DEF FreeGbk
        <4> QED BY <4>1, FreeFacts
      <3>2. CASE cJSON_Delete(t) \/ FreeUtf8(t)
        <4>1. pc'[t] \in {"freeUtf8", "freeGbk"}
          BY <1>2, <3>2 DEF cJSON_Delete, FreeUtf8, Goto, TypeInv, CallType
        <4> QED BY <1>1, <2>1, <4>1
      <3> QED BY <3>1, <3>2 DEF FreeStep
    <2>3. \E c \in Block : /\ mem[c].as = "utf8str" /\ mem[c].call = mem[b].call
                           /\ \A u \in Threads : Active(u) => mem[c].call /= call[u]
      BY <2>1, <2>2 DEF AllInv, GbkOK, OthersIdle
    <2> QED BY <1>1, <1>2, <2>1, <2>3, LostStays
  <1>5. JsonOK'
    <2> SUFFICES ASSUME NEW b \in Block, mem'[b].as = "json"
                 PROVE  mem'[b].kind = "Life"
      BY DEF JsonOK
    <2>1. mem'[b] = mem[b]
      BY <1>3
    <2>2. ~(pc[t] \in {"store", "delete"} /\ b \in json[t])
      <3>1. CASE cJSON_Delete(t)
        <4>1. \A c \in json[t] : c \in Block => mem'[c] = FREE
          BY <1>2, <3>1, FreedWhat DEF cJSON_Delete
        <4> QED BY <4>1, FreeFacts
      <3>2. CASE FreeUtf8(t) \/ FreeGbk(t)
        BY <3>2 DEF FreeUtf8, FreeGbk
      <3> QED BY <3>1, <3>2 DEF FreeStep
    <2> QED BY <2>1, <2>2 DEF AllInv, JsonOK, OthersIdle, Active
  <1>6. TextOK'
    <2>1. pc'[t] \in {"freeUtf8", "freeGbk", "idle"}
      BY <1>2 DEF FreeStep, cJSON_Delete, FreeUtf8, FreeGbk, Goto, TypeInv, CallType
    <2>2. ASSUME pc'[t] = "freeUtf8", NEW b \in utf8str'[t]
          PROVE  mem'[b] = FREE \/ mem'[b].call = call'[t]
      <3>1. pc[t] = "delete"
        BY <1>2, <2>2
        DEF FreeStep, cJSON_Delete, FreeUtf8, FreeGbk, Goto, TypeInv, CallType
      <3>2. b \in Block /\ mem[b].call = call[t]
        BY <1>1, <1>2, <3>1 DEF OwnsOK, UsedBy, TypeInv, PoolType
      <3>3. call[t] /= 0
        BY <1>1, <1>2, ActiveCall
      <3> QED BY <1>1, <3>2, <3>3, FreeFacts DEF OnlyOwn
    <2> QED BY <2>1, <2>2 DEF TextOK, OthersIdle, Active
  <1> QED BY <1>4, <1>5, <1>6

LEMMA StayAlone ==
  ASSUME AllInv, NEW t \in Threads, Wipe(t) \/ Store(t), ~Restart, OthersIdle(t)
  PROVE  GbkOK' /\ JsonOK' /\ TextOK'
  <1>1. /\ Active(t) /\ UNCHANGED <<call, kind, mem, gbkstr, json>>
    BY DEF Wipe, Store, StoreNow, StoreDaily, StoreLife, Copy, Active, memVars
  <1>2. TypeInv /\ OwnsOK(t)
    BY DEF AllInv
  <1>3. \/ pc[t] = "wipe" /\ pc'[t] = "parse" /\ utf8str' = utf8str
        \/ /\ pc[t] = "store" /\ pc'[t] \in {"delete", "freeUtf8"}
           /\ pc'[t] = "freeUtf8" => kind[t] = "Life"
           /\ utf8str'[t] = utf8str[t] \/ \E b \in json[t] : utf8str'[t] = {b}
    <2>1. CASE Wipe(t)
      BY <1>2, <2>1 DEF Wipe, Goto, TypeInv, CallType, memVars
    <2>2. CASE Store(t)
      <3>1. /\ pc[t] = "store" /\ Copy(t)
            /\ Goto(t, "delete") \/ (Goto(t, "freeUtf8") /\ kind[t] = "Life")
        BY <2>2 DEF Store, StoreNow, StoreDaily, StoreLife
      <3>2. utf8str'[t] = utf8str[t] \/ \E b \in json[t] : utf8str'[t] = {b}
        BY <1>2, <3>1 DEF Copy, TypeInv, PoolType
      <3> QED BY <1>2, <3>1, <3>2 DEF Goto, TypeInv, CallType
    <2> QED BY <2>1, <2>2
  <1>4. Active(t)' /\ \A u \in Threads : Active(u)' <=> Active(u)
    BY <1>1, <1>3 DEF OthersIdle, Active
  <1>5. GbkOK'
    <2> SUFFICES ASSUME NEW b \in Block, mem[b].as = "gbkstr",
                        ~(b \in gbkstr[t] /\ mem[b].call = call[t])
                 PROVE  \E c \in Block :
                          /\ mem[c].as = "utf8str" /\ mem[c].call = mem[b].call
                          /\ \A u \in Threads : Active(u)' => mem[c].call /= call[u]
      BY <1>1, <1>3, <1>4 DEF GbkOK
    <2> QED BY <1>4 DEF AllInv, GbkOK, OthersIdle
  <1>6. JsonOK'
    <2> SUFFICES ASSUME NEW b \in Block, mem[b].as = "json", mem[b].kind /= "Life"
                 PROVE  pc'[t] \in {"store", "delete"} /\ b \in json[t]
      BY <1>1 DEF JsonOK
    <2>1. pc[t] \in {"store", "delete"} /\ b \in json[t]
      BY DEF AllInv, JsonOK, OthersIdle, Active
    <2> QED BY <1>2, <1>3, <2>1 DEF OwnsOK
  <1>7. TextOK'
    <2>1. CASE pc[t] = "wipe"
      BY <1>1, <1>3, <2>1 DEF AllInv, TextOK, OthersIdle, Active
    <2>2. CASE pc[t] = "store"
      <3>1. \A b \in utf8str'[t] : mem[b].call = call[t]
        BY <1>2, <1>3, <2>2 DEF OwnsOK, UsedBy
      <3> QED BY <1>1, <1>3, <2>2, <3>1 DEF TextOK, OthersIdle, Active
    <2> QED BY <1>3, <2>1, <2>2
  <1> QED BY <1>5, <1>6, <1>7

LEMMA CallAlone ==
  ASSUME AllInv, NEW t \in Threads, Call(t), OthersIdle(t)
  PROVE  GbkOK' /\ JsonOK' /\ TextOK'
  <1>1. /\ pc[t] = "idle" /\ pc'[t] = "utf8" /\ UNCHANGED memVars
        /\ call'[t] = calls + 1 /\ calls \in Nat
    BY DEF AllInv, Call, Goto, TypeInv, CallType
  <1>2. GbkOK'
    <2> SUFFICES ASSUME NEW b \in Block, mem[b].as = "gbkstr"
                 PROVE  \E c \in Block :
                          /\ mem[c].as = "utf8str" /\ mem[c].call = mem[b].call
                          /\ \A u \in Threads : Active(u)' => mem[c].call /= call'[u]
      BY <1>1 DEF GbkOK, memVars
    <2>1. PICK c \in Block : mem[c].as = "utf8str" /\ mem[c].call = mem[b].call
      BY <1>1 DEF AllInv, GbkOK, OthersIdle, Active
    <2>2. mem[c].call /= call'[t]
      <3>1. mem[c].call <= calls /\ mem[c].call \in Nat
        BY <2>1, FreeFacts DEF AllInv, TypeInv, CallsOK, PoolType, Uses
      <3> QED BY <1>1, <3>1
    <2> QED BY <2>1, <2>2 DEF OthersIdle
  <1>3. JsonOK'
    BY <1>1 DEF AllInv, JsonOK, OthersIdle, Active, memVars
  <1>4. TextOK'
    BY <1>1 DEF TextOK, OthersIdle, Active
  <1> QED BY <1>2, <1>3, <1>4

LEMMA NextAlone ==
  ASSUME TypeInv, KeepsInv, AloneInv, [MCNext]_mcVars
  PROVE  AloneInv'
  <1>1. CASE UNCHANGED mcVars
    BY <1>1 DEF mcVars, vars, memVars, AloneInv, Single, GbkOK, JsonOK, TextOK, NoRun,
                FreeBlocks, Active
  <1>2. CASE MCNext
    <2> SUFFICES ASSUME ~together' PROVE Single' /\ ~foreign' /\ GbkOK' /\ JsonOK' /\ TextOK'
      BY DEF AloneInv
    <2>1. ~together /\ Single /\ ~foreign /\ AllInv
      BY <1>2 DEF MCNext, AloneInv, AllInv, KeepsInv
    <2>2. ~foreign'
      BY <1>2, <2>1, AloneNotForeign DEF MCNext, AllInv
    <2>3. Single'
      BY <1>2, <2>1 DEF MCNext, Bounded, Single, Active
    <2>4. ASSUME Place PROVE GbkOK' /\ JsonOK' /\ TextOK'
      <3>1. UNCHANGED <<mem, utf8str, gbkstr, json, pc, call>>
        BY <2>4 DEF Place, memVars
      <3>2. GbkOK'
        BY <2>1, <3>1 DEF AllInv, GbkOK, Active
      <3>3. JsonOK'
        BY <2>1, <3>1 DEF AllInv, JsonOK
      <3>4. TextOK'
        BY <2>1, <3>1 DEF AllInv, TextOK, NoRun, FreeBlocks
      <3> QED BY <3>2, <3>3, <3>4
    <2>5. ASSUME Restart PROVE GbkOK' /\ JsonOK' /\ TextOK'
      <3>1. /\ \A b \in Block : mem'[b].as = "free"
            /\ \A t \in Threads : pc'[t] = "idle"
        BY <2>5, FreeFacts DEF Restart
      <3>2. GbkOK' /\ JsonOK'
        BY <3>1 DEF GbkOK, JsonOK
      <3>3. TextOK'
        BY <3>1 DEF TextOK
      <3> QED BY <3>2, <3>3
    <2>6. ASSUME NEW t \in Threads, Parser(t), ~Restart
          PROVE  GbkOK' /\ JsonOK' /\ TextOK'
      <3>1. \A u \in Threads \ {t} : Active(u)' <=> Active(u)
        BY <2>1, <2>6, OnlyOne DEF AllInv, Active
      <3>2. Active(t) \/ Active(t)'
        <4>1. pc'[t] = "utf8" => Active(t)'
          BY DEF Active
        <4> QED BY <2>1, <2>6, <4>1
            DEF Parser, Call, TakeUtf8, TakeGbk, Wipe, Parse, Store, cJSON_Delete, FreeUtf8,
                FreeGbk, Goto, Active, AllInv, TypeInv, CallType
      <3>3. OthersIdle(t)
        BY <2>1, <2>3, <3>1, <3>2 DEF Single, OthersIdle
      <3> QED BY <2>1, <2>6, <3>3, CallAlone, TakeAlone, FreeAlone, StayAlone
          DEF Parser, TakeStep, FreeStep
    <2>7. GbkOK' /\ JsonOK' /\ TextOK'
      BY <1>2, <2>4, <2>5, <2>6 DEF MCNext, Next
    <2> QED BY <2>2, <2>3, <2>7
  <1> QED BY <1>1, <1>2

\* When one thread parses, what the calls lose is what LostIsAccounted says:
\* the first text block by utf8str having moved, the second only with it, the
\* tree only in the parser that never deletes it, and nothing else.
THEOREM WeatherInfoLosesAlone == MCSpec => []LostIsAccountedAlone
  <1>1. MCInit => TypeInv /\ KeepsInv /\ AloneInv
    <2>1. MCInit => KeepsInv
      BY DEF MCInit, Init, KeepsInv, OwnsOK
    <2>2. MCInit => AloneInv
      BY FreeFacts DEF MCInit, Init, AloneInv, Single, GbkOK, JsonOK, TextOK, Active
    <2> QED BY <2>1, <2>2, InitTypeInv DEF MCInit
  <1>2. TypeInv /\ [MCNext]_mcVars => TypeInv'
    BY NextTypeInv DEF MCNext, mcVars
  <1>3. TypeInv /\ KeepsInv /\ [MCNext]_mcVars => KeepsInv'
    BY NextKeeps
  <1>4. TypeInv /\ KeepsInv /\ AloneInv /\ [MCNext]_mcVars => AloneInv'
    BY NextAlone
  <1>5. TypeInv /\ KeepsInv /\ AloneInv => LostIsAccountedAlone
    <2> SUFFICES ASSUME TypeInv, KeepsInv, AloneInv, ~together PROVE LostIsAccounted
      BY DEF LostIsAccountedAlone
    <2>1. GbkOK /\ JsonOK /\ \A t \in Threads : OwnsOK(t)
      BY DEF AloneInv, KeepsInv
    <2>2. ASSUME NEW b \in Lost, mem[b].as = "gbkstr"
          PROVE  \E c \in Lost : mem[c].as = "utf8str" /\ mem[c].call = mem[b].call
      <3>1. PICK c \in Block : /\ mem[c].as = "utf8str" /\ mem[c].call = mem[b].call
                               /\ \A t \in Threads : Active(t) => mem[c].call /= call[t]
        BY <2>1, <2>2 DEF GbkOK, Lost, Active
      <3>2. c \in Lost
        BY <3>1, FreeFacts DEF Lost, Active
      <3> QED BY <3>1, <3>2
    <2>3. Losers("gbkstr") \subseteq Losers("utf8str")
      BY <2>2 DEF Losers
    <2>4. ASSUME NEW b \in Lost, mem[b].as = "json" PROVE mem[b].kind = "Life"
      BY <2>1, <2>4 DEF JsonOK, Lost, OwnsOK, UsedBy
    <2> QED BY <2>3, <2>4 DEF LostIsAccounted
  <1> QED BY <1>1, <1>2, <1>3, <1>4, <1>5, PTL DEF MCSpec
=============================================================================
