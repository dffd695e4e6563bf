---------------------------- MODULE CountingSem ----------------------------
(***************************************************************************)
(* What a semaphore promises its threads: a take ends with a token that a  *)
(* release has given, or with a time-out; releases serve the threads in    *)
(* the order in which they came; and no token is kept while one waits.     *)
(***************************************************************************)
EXTENDS Naturals, Sequences

CONSTANT Threads

VARIABLES value,    \* tokens nobody has taken
          queue,    \* the threads that wait
          granted,  \* those that were given a token and have not returned
          expired   \* those whose time ran out and that have not returned

absVars == <<value, queue, granted, expired>>

\* The threads that wait
Waiting == {queue[i] : i \in 1 .. Len(queue)}

AbsInit == value = 0 /\ queue = <<>> /\ granted = {} /\ expired = {}

Take == value > 0 /\ value' = value - 1 /\ UNCHANGED <<queue, granted, expired>>

Wait(t) ==
  /\ value = 0
  /\ t \notin Waiting \union granted \union expired
  /\ queue' = Append(queue, t)
  /\ UNCHANGED <<value, granted, expired>>

Release ==
  IF queue = <<>>
  THEN value' = value + 1 /\ UNCHANGED <<queue, granted, expired>>
  ELSE /\ granted' = granted \union {Head(queue)}
       /\ queue' = Tail(queue)
       /\ UNCHANGED <<value, expired>>

\* The elements of r are in the order in which they are in q.
InOrder(q, r) ==
  \A i, j \in 1 .. Len(r) :
    i < j => \E a, b \in 1 .. Len(q) : a < b /\ q[a] = r[i] /\ q[b] = r[j]

\* The time of one or more threads runs out; the others keep their places.
Expire(late) ==
  /\ late # {}
  /\ Waiting' = Waiting \ late /\ InOrder(queue, queue')
  /\ expired' = expired \union late
  /\ UNCHANGED <<value, granted>>

ReturnWithToken(t) ==
  /\ granted' = granted \ {t}
  /\ UNCHANGED <<value, queue, expired>>

ReturnWithout(t) ==
  /\ expired' = expired \ {t}
  /\ UNCHANGED <<value, queue, granted>>

AbsNext ==
  \/ Take \/ Release
  \/ \E t \in Threads : Wait(t)
  \/ \E late \in SUBSET Waiting : Expire(late)
  \/ \E t \in granted : ReturnWithToken(t)
  \/ \E t \in expired : ReturnWithout(t)

AbsStep == [AbsNext]_absVars
AbsSpec == AbsInit /\ [][AbsNext]_absVars
=============================================================================
