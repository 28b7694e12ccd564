--------------------------- MODULE NetworkToolCalls ---------------------------
(***************************************************************************)
(* What the network tools of a worker share: the calls of one message run  *)
(* in threads, each goes to the network for a while and leaves its files   *)
(* in a directory whose name starts with the second of a clock.            *)
(***************************************************************************)
EXTENDS Integers, Sequences, FiniteSets

CONSTANTS
  Calls,      \* the tool calls of a run (bound)
  PerSecond,  \* ticks of the clock in a second
  TimeBound,  \* last tick of the clock (bound)
  NoCall,     \* no call has written a file
  None

ASSUME ClockAssumption ==
  /\ PerSecond \in Nat \ {0} /\ TimeBound \in Nat
  /\ NoCall \notin Calls /\ None \notin Int \cup {"ok", "error", "raised"}

VARIABLES
  now,     \* the clock
  pc,      \* where each call is
  answer,  \* what it returned: "ok", "error" or "raised"; None before
  before   \* history: the calls that were over when it started its wait or crawl

callVars == <<now, pc, answer, before>>

Answered == {c \in Calls : answer[c] # None}

(* The stamp in a directory's name has no fraction of a second.             *)
Second == now \div PerSecond

CallsInit ==
  /\ now = 0 /\ pc = [c \in Calls |-> "idle"]
  /\ answer = [c \in Calls |-> None] /\ before = [c \in Calls |-> {}]

Goes(c, from, to) == pc[c] = from /\ pc' = [pc EXCEPT ![c] = to]

Returns(c, from, result) ==
  Goes(c, from, "over") /\ answer' = [answer EXCEPT ![c] = result]

Tick == now < TimeBound /\ now' = now + 1 /\ UNCHANGED <<pc, answer, before>>
===============================================================================
