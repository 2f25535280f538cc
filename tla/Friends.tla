------------------------------- MODULE Friends -------------------------------
(***************************************************************************)
(* The player's friends and private messages                               *)
(* (client/src/components/FriendsPanel.tsx): chains of requests, none of   *)
(* which waits for another.  `people' is the server.  The chain that reads *)
(* the friends belongs to the first render and so never knows whom a chat  *)
(* is open with; a change of friendship goes on with the chat that was     *)
(* open when it was made.                                                  *)
(***************************************************************************)
EXTENDS Naturals, FiniteSets

CONSTANTS
    Players, Nobody,
    Lines, NoLine,  \* what the player may type, and nothing
    MaxLines,       \* bound of the model: messages with each friend
    MaxChanges      \* bound of the model: changes of friendship

ASSUME FriendAssumption == Nobody \notin Players /\ NoLine \notin Lines /\ {MaxLines, MaxChanges} \subseteq Nat

VARIABLES people, messenger, requests, changed
friendVars == <<people, messenger, requests, changed>>

Relations == {"none", "incoming", "outgoing", "friend"}
Nothing == [phase |-> "none"]

\* One request of each kind at a time; `reads' is the chain of a private chat.
RequestKinds == {"friends", "mutate", "reads", "says"}
UnderWay(kind) == requests[kind] # Nothing
AskFor(kind, request) == ~UnderWay(kind) /\ requests' = [requests EXCEPT ![kind] = request]
Told(kind, answer) == requests' = [requests EXCEPT ![kind] = answer]
Ended(kind) == [requests EXCEPT ![kind] = Nothing]
Lost(kind) == UnderWay(kind) /\ requests' = Ended(kind) /\ UNCHANGED <<people, messenger, changed>>

\* ---- The list of friends and changes of friendship
ReadFriends == AskFor("friends", [phase |-> "sent", chat |-> Nobody]) /\ UNCHANGED <<people, messenger, changed>>
\* mutate: a request, an answer or a removal; after it the list is read.
Mutate(p, relation) ==
    /\ messenger.relations[p] # relation
    /\ CASE relation = "outgoing" -> messenger.relations[p] = "none"
         [] relation = "friend" -> messenger.relations[p] = "incoming"
         [] relation = "none" -> TRUE
         [] OTHER -> FALSE
    /\ ~UnderWay("says")                       \* both set busy
    /\ AskFor("mutate", [phase |-> "sent", player |-> p, relation |-> relation, chat |-> messenger.selected])
    /\ UNCHANGED <<people, messenger, changed>>
MutateServed ==
    LET r == requests["mutate"] IN
    /\ r.phase = "sent" /\ changed < MaxChanges /\ changed' = changed + 1
    /\ people' = [people EXCEPT !.relations[r.player] =
                     IF r.relation = "friend" /\ @ # "incoming" THEN @ ELSE r.relation]
    /\ requests' = [requests EXCEPT !["mutate"].phase = "read"]
    /\ UNCHANGED messenger
ListServed(kind) ==
    /\ requests[kind].phase = IF kind = "mutate" THEN "read" ELSE "sent"
    /\ Told(kind, [phase |-> "told", chat |-> requests[kind].chat, relations |-> people.relations])
    /\ UNCHANGED <<people, messenger, changed>>

\* refresh closes the chat with somebody who is no friend any more: with the one it knows of.
Selected(s, p) == IF s.selected = p THEN s ELSE [s EXCEPT !.selected = p, !.messages = {}]
ListTaken(kind) ==
    LET r == requests[kind]
        closes == r.chat # Nobody /\ r.relations[r.chat] # "friend"
    IN /\ r.phase = "told"
       /\ messenger' = Selected([messenger EXCEPT !.relations = r.relations], IF closes THEN Nobody ELSE messenger.selected)
       /\ requests' = [Ended(kind) EXCEPT !["reads"] = IF closes THEN Nothing ELSE @]
       /\ UNCHANGED <<people, changed>>

\* ---- A private chat: its chain is aborted when another one is opened.
OpenPrivate(p) ==
    /\ messenger.relations[p] = "friend" /\ messenger.selected = Nobody
    /\ messenger' = Selected(messenger, p)
    /\ requests' = Ended("reads")
    /\ UNCHANGED <<people, changed>>
ClosePrivate ==
    /\ messenger.selected # Nobody
    /\ messenger' = Selected(messenger, Nobody)
    /\ requests' = Ended("reads")
    /\ UNCHANGED <<people, changed>>
ReadPrivate ==
    /\ messenger.selected # Nobody
    /\ AskFor("reads", [phase |-> "sent", player |-> messenger.selected])
    /\ UNCHANGED <<people, messenger, changed>>
SaidBy(p) == {p} \X (1 .. people.lines[p])
ReadServed ==
    LET r == requests["reads"] IN
    /\ r.phase = "sent"
    /\ IF people.relations[r.player] = "friend"
       THEN Told("reads", [phase |-> "told", player |-> r.player, lines |-> SaidBy(r.player)])
       ELSE requests' = Ended("reads")
    /\ UNCHANGED <<people, messenger, changed>>
ReadTaken ==
    LET r == requests["reads"] IN
    /\ r.phase = "told"
    /\ messenger' = [messenger EXCEPT !.messages = r.lines]
    /\ requests' = Ended("reads")
    /\ UNCHANGED <<people, changed>>
Write(line) ==
    /\ messenger.selected # Nobody /\ messenger.drafts[messenger.selected] # line
    /\ messenger' = [messenger EXCEPT !.drafts[messenger.selected] = line]
    /\ UNCHANGED <<people, requests, changed>>
SayPrivately ==
    /\ messenger.selected # Nobody /\ messenger.drafts[messenger.selected] # NoLine /\ ~UnderWay("mutate")
    /\ AskFor("says", [phase |-> "sent", player |-> messenger.selected, line |-> messenger.drafts[messenger.selected]])
    /\ UNCHANGED <<people, messenger, changed>>
SayServed ==
    LET r == requests["says"] IN
    /\ r.phase = "sent" /\ people.relations[r.player] = "friend" /\ people.lines[r.player] < MaxLines
    /\ people' = [people EXCEPT !.lines[r.player] = @ + 1]
    /\ Told("says", [phase |-> "told", player |-> r.player, line |-> r.line, added |-> <<r.player, people'.lines[r.player]>>])
    /\ UNCHANGED <<messenger, changed>>
\* Mutant of SayTaken: the message goes to whatever chat is open.
SayTakenAnywhere ==
    LET r == requests["says"] IN
    /\ r.phase = "told"
    /\ messenger' = [messenger EXCEPT !.messages = @ \cup {r.added}]
    /\ requests' = Ended("says")
    /\ UNCHANGED <<people, changed>>

\* The message is shown if its chat still is; its text is dropped unless it has been changed.
SayTaken ==
    LET r == requests["says"] IN
    /\ r.phase = "told"
    /\ messenger' = [messenger EXCEPT !.messages = IF messenger.selected = r.player THEN @ \cup {r.added} ELSE @,
                              !.drafts[r.player] = IF @ = r.line THEN NoLine ELSE @]
    /\ requests' = Ended("says")
    /\ UNCHANGED <<people, changed>>

\* The other players.
OtherPlayers ==
    /\ changed < MaxChanges /\ changed' = changed + 1
    /\ \E p \in Players : \/ \E relation \in Relations \ {"outgoing"} :
                               people' = [people EXCEPT !.relations[p] = relation]
                          \/ people.lines[p] < MaxLines /\ people' = [people EXCEPT !.lines[p] = @ + 1]
    /\ people' # people
    /\ UNCHANGED <<messenger, requests>>

FriendInit ==
    /\ people \in [relations : [Players -> {"incoming", "friend"}], lines : {[p \in Players |-> 0]}]
    /\ messenger = [relations |-> [p \in Players |-> "none"], selected |-> Nobody, messages |-> {},
                drafts |-> [p \in Players |-> NoLine]]
    /\ requests = [kind \in RequestKinds |-> Nothing] /\ changed = 0
FriendNext ==
    \/ ReadFriends \/ MutateServed \/ ClosePrivate \/ ReadPrivate \/ ReadServed \/ ReadTaken
    \/ SayPrivately \/ SayServed \/ SayTaken \/ OtherPlayers
    \/ \E kind \in {"friends", "mutate"} : ListServed(kind) \/ ListTaken(kind)
    \/ \E kind \in RequestKinds : Lost(kind)
    \/ \E p \in Players : OpenPrivate(p)
    \/ \E p \in Players, relation \in Relations : Mutate(p, relation)
    \/ \E line \in Lines \cup {NoLine} : Write(line)
FriendSpec == FriendInit /\ [][FriendNext]_friendVars

\* Nothing of one conversation is shown in another, whichever answer comes when.
PrivateToFriend == \A m \in messenger.messages : m[1] = messenger.selected
===============================================================================
