---------------------------- MODULE RuleProposals ----------------------------
(***************************************************************************)
(* Changes to a table's rules before its match begins: the creator         *)
(* proposes them, and they take effect when everybody seated has agreed.   *)
(*                                                                         *)
(* Every handler holds the match's lock from its checks to its effects, so *)
(* each is one action; a request that is refused or repeated changes       *)
(* nothing. What races is between requests: a vote or a start was sent by  *)
(* a client that saw an earlier proposal, roster or set of rules. Rosters  *)
(* change here as TableSeating's actions change them.                      *)
(***************************************************************************)
EXTENDS Integers, Sequences

CONSTANTS
    Users,
    Rules,          \* settings, scoring rules or Flush rules that pass validation
    DefaultRules,
    Rosters,        \* the sequences of users that may be seated
    MaxProposals    \* bound of the model

ASSUME ProposalAssumption ==
    /\ DefaultRules \in Rules
    /\ Rosters \subseteq Seq(Users) \ {<< >>}
    /\ MaxProposals \in Nat

VARIABLES
    kind,       \* game_type
    roster,     \* game.users
    phase,      \* table.phase: COMPLETED is left to TableSeating
    started,    \* game.started: a match has been created; a Flush table stays so
    rules,      \* the rules in force
    revision,   \* flush_rules_revision
    proposal,   \* rule_proposal, the latest
    shown,      \* what each user's client shows of the rules
    said        \* history: the votes that were taken

ruleVars == <<kind, roster, phase, started, rules, revision, proposal, shown, said>>

Kinds == {"callbreak", "marriage", "flush"}
Statuses == {"PENDING", "ACCEPTED", "REJECTED", "CANCELLED"}
NoProposal == [id |-> 0, status |-> "CANCELLED", voters |-> << >>, accepted |-> {},
               proposed |-> DefaultRules]

Seated == {roster[i] : i \in 1..Len(roster)}
Creator == roster[1]
Pending == proposal.status = "PENDING"

RulesTypeOK ==
    /\ kind \in Kinds
    /\ roster \in Rosters
    /\ phase \in {"OPEN", "LOCKED", "STARTED", "ENDED"}
    /\ started \in BOOLEAN
    /\ rules \in Rules /\ revision \in Nat
    /\ proposal \in [id : Nat, status : Statuses, voters : Seq(Users),
                     accepted : SUBSET Users, proposed : Rules]
    /\ shown \in [Users -> [rules : Rules, revision : Nat]]
    /\ said \subseteq Users \X Nat \X BOOLEAN

RulesInit ==
    /\ kind \in Kinds
    /\ roster \in Rosters /\ Len(roster) = 1
    /\ phase = "OPEN" /\ started = FALSE
    /\ rules = DefaultRules /\ revision = 0
    /\ proposal = NoProposal
    /\ shown = [u \in Users |-> [rules |-> DefaultRules, revision |-> 0]]
    /\ said = {}

-------------------------------------------------------------------------------

\* Mutant of Synced: a proposal survives a change of the roster.
SyncedAtEnd(p, r, ph) == IF ph = "ENDED" /\ p.status = "PENDING"
                         THEN [p EXCEPT !.status = "CANCELLED"] ELSE p

\* _sync_proposal, which every handler that changes the roster or the phase ends with.
Synced(p, r, ph) ==
    IF p.status = "PENDING" /\ (ph = "ENDED" \/ p.voters # r)
    THEN [p EXCEPT !.status = "CANCELLED"] ELSE p

\* Mutant of Effect: the revision stays.
EffectUnrevised(p) ==
    /\ rules' = p.proposed
    /\ proposal' = [p EXCEPT !.status = "ACCEPTED"]
    /\ UNCHANGED revision

\* _apply_proposal
Effect(p) ==
    /\ rules' = p.proposed
    /\ proposal' = [p EXCEPT !.status = "ACCEPTED"]
    /\ revision' = IF kind = "flush" THEN revision + 1 ELSE revision

\* _creator: may u still change the rules.
Editable(u) == u = Creator /\ ~started /\ phase # "ENDED"

\* configure, configure_marriage and configure_flush. A Flush client names the revision
\* of the rules it has edited. Alone at the table the creator needs nobody's agreement.
Propose(u, r) ==
    /\ Editable(u) /\ ~Pending
    /\ kind = "flush" => shown[u].revision = revision
    /\ proposal.id < MaxProposals
    /\ LET p == [id |-> proposal.id + 1, status |-> "PENDING", voters |-> roster,
                 accepted |-> {u}, proposed |-> r] IN
       IF Len(roster) = 1 THEN Effect(p)
       ELSE proposal' = p /\ UNCHANGED <<rules, revision>>
    /\ said' = said \cup {<<u, proposal.id + 1, TRUE>>}
    /\ UNCHANGED <<kind, roster, phase, started, shown>>

\* Mutant of Vote: the vote counts for whatever is proposed now.
VoteForLatest(u, id, accept) ==
    /\ id \in 1..proposal.id
    /\ u \in Seated /\ Pending /\ u \notin proposal.accepted
    /\ said' = said \cup {<<u, id, accept>>}
    /\ IF ~accept THEN /\ proposal' = [proposal EXCEPT !.status = "REJECTED"]
                       /\ UNCHANGED <<rules, revision>>
       ELSE LET p == [proposal EXCEPT !.accepted = @ \cup {u}] IN
            IF Seated \subseteq p.accepted THEN Effect(p)
            ELSE proposal' = p /\ UNCHANGED <<rules, revision>>
    /\ UNCHANGED <<kind, roster, phase, started, shown>>

\* vote_rules, for a proposal that was current when the request was sent. Only a first
\* vote on the pending one is taken.
Vote(u, id, accept) ==
    /\ id = proposal.id /\ Pending
    /\ \E i \in 1..Len(proposal.voters) : proposal.voters[i] = u
    /\ u \in Seated /\ u \notin proposal.accepted
    /\ said' = said \cup {<<u, id, accept>>}
    /\ IF ~accept THEN /\ proposal' = [proposal EXCEPT !.status = "REJECTED"]
                       /\ UNCHANGED <<rules, revision>>
       ELSE LET p == [proposal EXCEPT !.accepted = @ \cup {u}] IN
            IF \A i \in 1..Len(p.voters) : p.voters[i] \in p.accepted THEN Effect(p)
            ELSE proposal' = p /\ UNCHANGED <<rules, revision>>
    /\ UNCHANGED <<kind, roster, phase, started, shown>>

-------------------------------------------------------------------------------

\* Somebody joins, leaves or is promoted, one or more at once. A table is left while it is
\* locked by a request that waited for a start that failed.
Reseat(new) ==
    /\ phase \in {"OPEN", "LOCKED"} /\ new # roster
    /\ phase = "LOCKED" => Len(new) < Len(roster)
    /\ started => kind = "flush" /\ phase = "OPEN"
    /\ roster' = new
    /\ phase' \in {"OPEN", phase}
    /\ proposal' = Synced(proposal, new, phase')
    /\ UNCHANGED <<kind, started, rules, revision, shown, said>>

\* lock
Lock(u) ==
    /\ kind # "callbreak"
    /\ u = Creator /\ phase = "OPEN" /\ ~Pending
    /\ phase' = "LOCKED"
    /\ UNCHANGED <<kind, roster, started, rules, revision, proposal, shown, said>>

\* start, which a Flush client asks for with the revision it shows. One that the store
\* refuses is taken back and leaves all of this as it was.
Start(u) ==
    /\ u = Creator /\ phase = (IF kind = "callbreak" THEN "OPEN" ELSE "LOCKED") /\ ~Pending
    /\ kind = "flush" => shown[u].revision = revision
    /\ started' = TRUE /\ phase' = "STARTED"
    /\ UNCHANGED <<kind, roster, rules, revision, proposal, shown, said>>

RoundOver ==
    /\ kind = "flush" /\ phase = "STARTED"
    /\ phase' = "OPEN"
    /\ UNCHANGED <<kind, roster, started, rules, revision, proposal, shown, said>>

\* next-match takes the rules over and no proposal.
NextMatch(new) ==
    /\ kind # "flush" /\ phase = "STARTED"
    /\ roster' = new /\ phase' = "OPEN" /\ started' = FALSE
    /\ proposal' = [proposal EXCEPT !.status = IF Pending THEN "CANCELLED" ELSE @]
    /\ UNCHANGED <<kind, rules, revision, shown, said>>

End ==
    /\ phase # "ENDED"
    /\ phase' = "ENDED"
    /\ proposal' = Synced(proposal, roster, "ENDED")
    /\ UNCHANGED <<kind, roster, started, rules, revision, shown, said>>

\* A client gets a snapshot.
Show(u) ==
    /\ shown' = [shown EXCEPT ![u] = [rules |-> rules, revision |-> revision]]
    /\ UNCHANGED <<kind, roster, phase, started, rules, revision, proposal, said>>

RulesNext ==
    \/ \E u \in Users :
         \/ \E r \in Rules : Propose(u, r)
         \/ \E id \in 1..MaxProposals, accept \in BOOLEAN : Vote(u, id, accept)
         \/ Lock(u) \/ Start(u) \/ Show(u)
    \/ \E new \in Rosters : Reseat(new) \/ NextMatch(new)
    \/ RoundOver \/ End

RulesSpec == RulesInit /\ [][RulesNext]_ruleVars

-------------------------------------------------------------------------------
(* Properties *)

\* No rule changes unless everybody who sits at the table then has said yes to this very
\* change, and nobody no. (docs/chat-and-rule-approval.md: every other currently seated
\* player must accept; votes do not transfer to a new seat owner)
AgreedByAll ==
    [][rules' # rules =>
         /\ proposal'.proposed = rules'
         /\ \A u \in Seated : <<u, proposal'.id, TRUE>> \in said'
         /\ \A u \in Users : <<u, proposal'.id, FALSE>> \notin said']_ruleVars

\* A match is played with the rules it began with, and no proposal is left open for it.
\* (docs/chat-and-rule-approval.md: lock and start reject pending proposals; this does not
\* permit changing rules in the middle of a match)
FixedOnceStarted == [][started => rules' = rules]_ruleVars
NoneOpenWhenStarted == started => ~Pending

\* A pending proposal is one that the players now seated can decide.
PendingForRoster == Pending => phase # "ENDED" /\ proposal.voters = roster

\* A resolved proposal stays resolved as it was.
ResolvedIsFinal ==
    [][proposal.id > 0 /\ ~Pending /\ proposal'.id = proposal.id => proposal' = proposal]_ruleVars

\* A Flush round starts with the rules that the client of whoever starts it shows.
\* (docs/chat-and-rule-approval.md: stale-rule start validation)
StartsAsShown ==
    [][kind = "flush" /\ phase # "STARTED" /\ phase' = "STARTED" =>
         shown[Creator].rules = rules]_ruleVars
================================================================================
