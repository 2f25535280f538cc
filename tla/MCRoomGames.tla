------------------------------ MODULE MCRoomGames ------------------------------
(***************************************************************************)
(* Two parts of a room that share no state, in one run; `part' says        *)
(* which: the rules proposed at a table, and the rounds of a Flush table.  *)
(***************************************************************************)
EXTENDS RuleProposals, FlushRound, TLC

CONSTANT Seats   \* the largest roster of the table with proposals

(* Rules: everybody sits once; users and players are interchangeable. *)

Injective(n) == {s \in [1..n -> Users] : \A i, j \in 1..n : s[i] = s[j] => i = j}
AllRosters == UNION {Injective(n) : n \in 1..Seats}
Symmetry == Permutations(Users \cup PlayerIds)

-------------------------------------------------------------------------------
(* Rounds: rules under which hands tie. *)

\* Stakes whose seen minimum is no multiple of the blind one once a seen
\* player has raised by one, side-shows, and ties that the requester loses.
SideShowRules ==
    [boot |-> 1, initialBlind |-> 1, multiplier |-> 2, minSideShow |-> 0, minBlindShow |-> 1,
     allowBlindShow |-> TRUE, allowSeenShow |-> TRUE, allowSideShow |-> TRUE,
     showCost |-> 1, tie |-> "REQUESTER_LOSES"]

\* No boot, split ties, odd pots and shows of seen players only.
SplitRules ==
    [boot |-> 0, initialBlind |-> 1, multiplier |-> 3, minSideShow |-> 1, minBlindShow |-> 0,
     allowBlindShow |-> FALSE, allowSeenShow |-> TRUE, allowSideShow |-> TRUE,
     showCost |-> 2, tie |-> "SPLIT"]

MCRuleSets == {SideShowRules, SplitRules}

-------------------------------------------------------------------------------
VARIABLE part

\* A part that is not looked at: a table and a round of nobody.
Unruled ==
    /\ kind = "flush" /\ roster = << >> /\ phase = "OPEN" /\ started = FALSE
    /\ rules = DefaultRules /\ revision = 0 /\ proposal = NoProposal /\ said = {}
    /\ shown = [u \in Users |-> [rules |-> DefaultRules, revision |-> 0]]
Undealt == state = NewState(SideShowRules, << >>, None, "WAITING", None)

MCInit ==
    \/ part = "rules" /\ RulesInit /\ Undealt
    \/ part = "rounds" /\ Unruled /\ RoundInit
MCNext ==
    /\ \/ part = "rules" /\ RulesNext /\ UNCHANGED state
       \/ part = "rounds" /\ RoundNext /\ UNCHANGED ruleVars
    /\ UNCHANGED part
MCSpec == MCInit /\ [][MCNext]_<<ruleVars, state, part>>
================================================================================
