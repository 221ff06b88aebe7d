---------------------------- MODULE EditTimeline ----------------------------
(***************************************************************************)
(* What an undo history promises: a line of documents and the place one is *)
(* at.  An edit cuts what lies ahead and appends; undo and redo only move; *)
(* the line never grows beyond what the limit allows, and what falls off   *)
(* is the oldest.                                                          *)
(***************************************************************************)
EXTENDS Naturals, Sequences

CONSTANT Limit        \* documents kept behind the present one

VARIABLES line, at
timeline == <<line, at>>

Init == Len(line) = 1 /\ at = 1

\* A document unlike the present one is appended; the oldest may fall off.
Edit ==
    /\ at' = Len(line')
    /\ line'[at'] # line[at]
    /\ \/ /\ at <= Limit
          /\ line' = Append(SubSeq(line, 1, at), line'[at'])
       \/ /\ at > Limit
          /\ line' = Append(SubSeq(line, 2, at), line'[at'])

Move == at' \in {at - 1, at + 1} /\ at' \in DOMAIN line /\ line' = line

Restart == Len(line') = 1 /\ at' = 1

Next == Edit \/ Move \/ Restart

Spec == Init /\ [][Next]_timeline

Bounded == Len(line) <= Limit + 1 /\ at \in DOMAIN line
=============================================================================
