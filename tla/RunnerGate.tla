------------------------------ MODULE RunnerGate ------------------------------
(***************************************************************************)
(* What the runner gate promises, without the counter it is built on: the  *)
(* starts inside the gate are a set, the others stand in line, and every   *)
(* step leaves the gate as full as the cap and the line allow.             *)
(***************************************************************************)
EXTENDS Integers, Sequences, FiniteSets

CONSTANTS Starts, Limits

VARIABLES
    inside, \* starts that hold a slot
    line,   \* starts that wait for one, first come first
    cap     \* the limit in force

gateVars == <<inside, line, cap>>

GateInit == inside = {} /\ line = <<>> /\ cap \in Limits

\* The first of the line go in after `left` has gone out: nobody is kept waiting
\* beside a free slot, and nobody is let in beyond the cap.
LetIn(left) ==
    \E n \in 0 .. Len(line) :
        /\ inside' = (inside \ left) \cup {line[i] : i \in 1 .. n}
        /\ line' = SubSeq(line, n + 1, Len(line))
        /\ n < Len(line) => Cardinality(inside') >= cap'
        /\ n > 0 => Cardinality(inside') <= cap'

\* A start goes in at once when there is room, overtaking nobody, and gets in
\* line when the gate is full.
Enter(s) ==
    /\ s \notin inside /\ line = <<>>
    /\ Cardinality(inside) < cap
    /\ inside' = inside \cup {s}
    /\ UNCHANGED <<line, cap>>

GetInLine(s) ==
    /\ s \notin inside
    /\ Cardinality(inside) >= cap
    /\ line' = Append(line, s)
    /\ UNCHANGED <<inside, cap>>

Leave(s) == s \in inside /\ LetIn({s}) /\ UNCHANGED cap

Resize(l) == cap' = l /\ LetIn({})

\* The process is started again, with an empty gate.
Reopen == inside' = {} /\ line' = <<>> /\ cap' \in Limits

GateNext ==
    \/ \E s \in Starts : Enter(s) \/ GetInLine(s) \/ Leave(s)
    \/ \E l \in Limits : Resize(l)
    \/ Reopen

GateSpec == GateInit /\ [][GateNext]_gateVars
=============================================================================
