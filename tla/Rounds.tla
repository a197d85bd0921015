------------------------------- MODULE Rounds -------------------------------
(***************************************************************************)
(* What a program that computes in rounds promises, whatever messages or   *)
(* windows it uses: each process holds its part of some generation, and    *)
(* moves on to the next generation only when those it depends on have      *)
(* reached its own.  The life programs implement it with blocks of cells,  *)
(* pNeo with one cell of a network per process.                            *)
(***************************************************************************)
EXTENDS Naturals

CONSTANTS Rank, Iter, Starts, \* the processes, the generations, the starts
          Neighbours(_),      \* the processes a process depends on
          BlockAt(_, _, _)    \* the part of p in generation k from start s

VARIABLES start,              \* what the run started from
          gen,                \* the generation each process has computed
          block               \* the part of each process

vars == <<start, gen, block>>

Init == /\ start \in Starts
        /\ gen = [p \in Rank |-> 0]
        /\ block = [p \in Rank |-> BlockAt(start, 0, p)]

Advance(p) ==
  /\ gen[p] < Iter
  /\ \A q \in Neighbours(p) : gen[q] >= gen[p]
  /\ gen' = [gen EXCEPT ![p] = @ + 1]
  /\ block' = [block EXCEPT ![p] = BlockAt(start, gen'[p], p)]
  /\ UNCHANGED start

Next == \E p \in Rank : Advance(p)

Spec == Init /\ [][Next]_vars
=============================================================================
