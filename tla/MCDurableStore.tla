---------------------------- MODULE MCDurableStore ----------------------------
(* Two stores in one run, `part' says which: two processes that command one    *)
(* game of PostgreSQL, or two games and two tables of the in-memory store that *)
(* compete for three players.                                                  *)
EXTENDS DurableStore, TLC

CONSTANT SeatGames

VARIABLE part

Symmetry == Permutations(Instances) \cup Permutations(Slots)

Seats == INSTANCE DurableStore WITH
    Games <- SeatGames, Actors <- {}, CommandIds <- {},
    Bodies <- {}, Slots <- {}, Store <- "memory", MaxSequence <- 0, MaxRevision <- 0, MaxEpoch <- 0

Processes == INSTANCE DurableStore WITH Tables <- {}, Players <- {}

MCInit == \/ part = "commands" /\ Init
          \/ part = "seats" /\ Seats!Init
MCNext ==
    /\ \/ part = "commands" /\ UNCHANGED <<activePlayers, tablePlayers>> /\ Processes!Next
       \/ part = "seats" /\ Seats!Next
    /\ UNCHANGED part
MCSpec == MCInit /\ [][MCNext]_<<vars, part>>
================================================================================
