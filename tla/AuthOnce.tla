------------------------------ MODULE AuthOnce ------------------------------
(***************************************************************************)
(* What the conntrack table promises to the goroutines that use it, apart  *)
(* from how it is organised: conntracks come into being one at a time;     *)
(* one that waits collects packets at the end of what it holds; it is      *)
(* answered at most once, and then holds nothing and changes no more.      *)
(* Conntrack implements this (AnswersOnce).                                *)
(***************************************************************************)
EXTENDS Integers, Sequences

CONSTANTS
  Packets,  \* packet contents
  Answers   \* answers a conntrack can have, "waiting" among them

VARIABLES
  born,    \* conntracks created so far
  answer,  \* answer[i]: the answer of conntrack i, "waiting" until it has one
  held     \* held[i]: the packets that wait in conntrack i

vars == <<born, answer, held>>

Init ==
  /\ born = 0
  /\ answer = [i \in 1 .. 0 |-> "waiting"]
  /\ held = [i \in 1 .. 0 |-> <<>>]

Rests(i) == answer'[i] = answer[i] /\ held'[i] = held[i]

Collects(i) ==
  /\ answer[i] = "waiting" /\ answer'[i] = "waiting"
  /\ \E p \in Packets : held'[i] = Append(held[i], p)

Settles(i) ==
  /\ answer[i] = "waiting" /\ answer'[i] # "waiting"
  /\ held'[i] = <<>>

\* One operation of the table may settle many conntracks and create one.
Next ==
  /\ born' \in {born, born + 1}
  /\ answer' \in [1 .. born' -> Answers]
  /\ held' \in [1 .. born' -> Seq(Packets)]
  /\ \A i \in 1 .. born : Rests(i) \/ Collects(i) \/ Settles(i)
  /\ \A i \in born + 1 .. born' : held'[i] = <<>>

Spec == Init /\ [][Next]_vars

=============================================================================
