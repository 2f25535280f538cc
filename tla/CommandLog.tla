------------------------------ MODULE CommandLog ------------------------------
(***************************************************************************)
(* What the durable command store promises its callers, with leases,       *)
(* fencing tokens, revisions, transactions and processes left out: every   *)
(* command of a game is decided at most once, an accepted command appends  *)
(* its effects to the game's log in one step, decisions are final, and a   *)
(* client is only ever told a decision that was taken.                     *)
(***************************************************************************)
EXTENDS Naturals, Sequences

CONSTANTS Games, Actors, CommandIds

VARIABLES
    log,      \* log[g]: the keys whose effects make up game g, in order
    decided,  \* decisions taken: [game, key, status]
    told      \* decisions some client was told: [game, key, status]

logVars == <<log, decided, told>>

Keys == Actors \X CommandIds

Undecided(g, key) == \A d \in decided : d.game # g \/ d.key # key

Init ==
    /\ log = [g \in Games |-> << >>]
    /\ decided = {}
    /\ told = {}

\* Only the games' effects may differ, and only by n copies of key at the end.
Extends(old, new, key) ==
    /\ Len(new) >= Len(old)
    /\ \A n \in 1..Len(old) : new[n] = old[n]
    /\ \A n \in (Len(old) + 1)..Len(new) : new[n] = key

Accept(g, key) ==
    /\ Undecided(g, key)
    /\ decided' = decided \cup {[game |-> g, key |-> key, status |-> "accepted"]}
    /\ Extends(log[g], log'[g], key)
    /\ \A h \in Games \ {g} : log'[h] = log[h]
    /\ UNCHANGED told

Reject(g, key) ==
    /\ Undecided(g, key)
    /\ decided' = decided \cup {[game |-> g, key |-> key, status |-> "rejected"]}
    /\ UNCHANGED <<log, told>>

Tell(d) ==
    /\ told' = told \cup {d}
    /\ UNCHANGED <<log, decided>>

Next ==
    \/ \E g \in Games, key \in Keys : Accept(g, key) \/ Reject(g, key)
    \/ \E d \in decided : Tell(d)

Spec == Init /\ [][Next]_logVars
================================================================================
