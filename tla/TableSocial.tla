----------------------------- MODULE TableSocial -----------------------------
(***************************************************************************)
(* Chat and reactions at an open table, as one player's client shows them  *)
(* (client/src/components/TableSocial.tsx with TableSocialChannel.ts): a   *)
(* command is sent up to three times under one identity until its          *)
(* acknowledgment comes, messages are pushed over the socket of the room   *)
(* and the history is read again after every interruption.  `table' is the *)
(* server (app/multiplayer/table_social.py) as this client meets it, whose *)
(* receipts answer a repeated command; a message is its place in the talk. *)
(***************************************************************************)
EXTENDS Naturals, Sequences, FiniteSets

CONSTANTS
    Attempts,       \* of a command of each kind, three in the code
    MaxTalk,        \* bound of the model: messages and reactions
    MaxCommands,    \* bound of the model: messages and reactions that this client sends
    MaxBreaks       \* bound of the model: lost connections, closed tables and seats that change

CommandKinds == {"history", "chat", "poke"}
ASSUME SocialAssumption ==
    Attempts \in [CommandKinds -> Nat \ {0}] /\ {MaxTalk, MaxCommands} \subseteq Nat \ {0} /\ MaxBreaks \in Nat

VARIABLES table, net, social, breaks
socialVars == <<table, net, social, breaks>>

Break == breaks < MaxBreaks /\ breaks' = breaks + 1
Roles == {"seated", "queued", "away"}
NoCommand == [kind |-> "none"]
Talk == 1 .. Len(table.talk)
Theirs(ids) == {i \in ids : table.talk[i].by = "other"}

\* canRead and enabled, by the last snapshot.
CanRead(s) == s.role # "away" /\ ~s.over
Enabled(s) == s.role = "seated" /\ ~s.over /\ s.connected
Reading(s) == s.shown /\ s.connected /\ CanRead(s)

\* What a closed table, or one that has never been opened, remembers.
Unmounted(role, over, connected) ==
    [role |-> role, over |-> over, connected |-> connected,
     shown |-> FALSE, open |-> FALSE, messages |-> {}, unread |-> 0, seen |-> {}, loaded |-> FALSE,
     aiming |-> FALSE, flights |-> {}, flown |-> {},
     history |-> NoCommand, chat |-> NoCommand, poke |-> NoCommand,
     read |-> {}, whole |-> FALSE]

\* request: the first attempt is made at once; a socket that is not ready loses it.
Request(kind) ==
    [kind |-> kind, cmd |-> IF kind = "history" THEN MaxCommands + net.reads ELSE net.sends, left |-> Attempts[kind] - 1]
Attempted(up, c, connected) ==
    IF connected THEN up \cup {[kind |-> c.kind, cmd |-> c.cmd, heard |-> TRUE]} ELSE up

(***************************************************************************)
(* The effects that follow a change of the connection, of the snapshot or  *)
(* of whether the table is shown.  Reading starts with a new request for   *)
(* the history, or stops; without permission nothing is kept on show.      *)
(***************************************************************************)
Effects(s) ==
    LET closed == IF s.connected /\ CanRead(s) THEN s ELSE [s EXCEPT !.open = FALSE, !.aiming = FALSE]
        barred == IF Enabled(s) THEN closed ELSE [closed EXCEPT !.aiming = FALSE]
        emptied == IF CanRead(s) THEN barred ELSE [barred EXCEPT !.messages = {}, !.unread = 0, !.read = s.seen]
        grounded == IF s.connected /\ ~s.over THEN emptied ELSE [emptied EXCEPT !.flights = {}]
        starts == Reading(s) /\ ~Reading(social)
        stops == Reading(social) /\ ~Reading(s)
    IN /\ social' = IF starts THEN [grounded EXCEPT !.history = Request("history"), !.whole = FALSE]
                    ELSE IF stops THEN [grounded EXCEPT !.history = NoCommand, !.whole = FALSE] ELSE grounded
       /\ net' = [net EXCEPT !.reads = IF starts THEN @ + 1 ELSE @,
                             !.up = IF starts THEN Attempted(@, Request("history"), TRUE)
                                    ELSE IF s.connected THEN @ ELSE {[c EXCEPT !.heard = FALSE] : c \in @},
                             !.down = IF s.connected THEN @ ELSE <<>>]

Show == ~social.shown /\ Effects([social EXCEPT !.shown = TRUE]) /\ UNCHANGED <<table, breaks>>
\* Collapsing the table cancels what is under way; the server may carry it out all the same.
Collapse ==
    /\ social.shown /\ Break
    /\ Effects(Unmounted(social.role, social.over, social.connected))
    /\ UNCHANGED table
Drop == social.connected /\ Break /\ Effects([social EXCEPT !.connected = FALSE]) /\ UNCHANGED table
Resume == ~social.connected /\ Effects([social EXCEPT !.connected = TRUE]) /\ UNCHANGED <<table, breaks>>
SnapshotRead ==
    /\ <<social.role, social.over>> # <<table.role, table.over>>
    /\ Effects([social EXCEPT !.role = table.role, !.over = table.over])
    /\ UNCHANGED <<table, breaks>>

\* ---- The panel and the poke tools
ShowsSocial(s) == social' = s /\ UNCHANGED <<table, net, breaks>>
OpenChat ==
    /\ social.shown /\ CanRead(social) /\ ~social.open
    /\ ShowsSocial([social EXCEPT !.open = TRUE, !.aiming = FALSE, !.unread = 0, !.read = social.seen])
CloseChat == social.open /\ ShowsSocial([social EXCEPT !.open = FALSE])
\* poke: a player is chosen from the table, or from the list of those who can be poked.
Aim ==
    /\ social.shown /\ Enabled(social) /\ ~social.aiming
    /\ ShowsSocial([social EXCEPT !.open = FALSE, !.aiming = TRUE])
ClosePokes == social.aiming /\ ShowsSocial([social EXCEPT !.aiming = FALSE])

\* send and sendReaction: one of each at a time.
Issue(kind) ==
    /\ social[kind] = NoCommand /\ Enabled(social) /\ net.sends <= MaxCommands
    /\ social' = [social EXCEPT ![kind] = Request(kind)]
    /\ net' = [net EXCEPT !.sends = @ + 1, !.up = Attempted(@, Request(kind), social.connected)]
    /\ UNCHANGED <<table, breaks>>
SendMessage == social.open /\ Issue("chat")
SendReaction == social.aiming /\ Issue("poke")

\* Mutant of Resend: under a new identity.
ResendAnew(kind) ==
    LET c == social[kind]
        anew == [c EXCEPT !.cmd = MaxCommands + net.reads + c.left, !.left = @ - 1]
    IN /\ c # NoCommand
       /\ IF c.left > 0
          THEN social' = [social EXCEPT ![kind] = anew] /\ net' = [net EXCEPT !.up = Attempted(@, anew, social.connected)]
          ELSE social' = [social EXCEPT ![kind] = NoCommand] /\ UNCHANGED net
       /\ UNCHANGED <<table, breaks>>
\* Four seconds without an acknowledgment: again, under the same identity, or given up.
Resend(kind) ==
    LET c == social[kind] IN
    /\ c # NoCommand
    /\ IF c.left > 0
       THEN /\ social' = [social EXCEPT ![kind].left = @ - 1]
            /\ net' = [net EXCEPT !.up = Attempted(@, c, social.connected)]
       ELSE social' = [social EXCEPT ![kind] = NoCommand] /\ UNCHANGED net
    /\ UNCHANGED <<table, breaks>>

\* Mutant of AddMessages: in place of the conversation, not in addition to it.
AddMessagesAlone(s, ids, historical) ==
    LET fresh == Theirs(ids \ s.seen)
    IN [s EXCEPT !.messages = ids, !.seen = @ \cup ids,
                 !.unread = IF historical \/ s.open THEN @ ELSE @ + Cardinality(fresh),
                 !.read = IF historical \/ s.open THEN @ \cup (ids \ s.seen) ELSE @]
\* addMessages: those that are new and somebody else's count while the chat is closed.
AddMessages(s, ids, historical) ==
    LET fresh == Theirs(ids \ s.seen)
    IN [s EXCEPT !.messages = @ \cup ids, !.seen = @ \cup ids,
                 !.unread = IF historical \/ s.open THEN @ ELSE @ + Cardinality(fresh),
                 !.read = IF historical \/ s.open THEN @ \cup (ids \ s.seen) ELSE @]

\* An acknowledgment ends the command it belongs to.
Acked(s, e) ==
    IF s.history # NoCommand /\ s.history.cmd = e.cmd
    THEN IF e.ok THEN [AddMessages(s, e.ids, ~s.loaded) EXCEPT !.history = NoCommand, !.loaded = TRUE, !.whole = e.whole]
                 ELSE [s EXCEPT !.history = NoCommand]
    ELSE IF s.chat # NoCommand /\ s.chat.cmd = e.cmd
    THEN IF e.ok THEN [AddMessages(s, e.ids, FALSE) EXCEPT !.chat = NoCommand] ELSE [s EXCEPT !.chat = NoCommand]
    ELSE IF s.poke # NoCommand /\ s.poke.cmd = e.cmd
    THEN IF e.ok THEN [s EXCEPT !.poke = NoCommand, !.aiming = FALSE] ELSE [s EXCEPT !.poke = NoCommand]
    ELSE s
Flown(s, r) ==
    IF s.shown /\ s.connected /\ ~s.over /\ r \notin s.flown
    THEN [s EXCEPT !.flights = @ \cup {r}, !.flown = @ \cup {r}] ELSE s
Receive ==
    /\ net.down # <<>>
    /\ LET e == Head(net.down) IN
       social' = IF e.kind = "ack" THEN Acked(social, e)
                 ELSE IF e.kind = "reaction" THEN Flown(social, e.id)
                 ELSE IF Reading(social) THEN AddMessages(social, {e.id}, FALSE) ELSE social
    /\ net' = [net EXCEPT !.down = Tail(@)]
    /\ UNCHANGED <<table, breaks>>
ReactionLanded(r) == r \in social.flights /\ ShowsSocial([social EXCEPT !.flights = @ \ {r}])

\* ---- The server
Push(down, events) == IF social.connected THEN down \o events ELSE down
Reads(t) == t.role # "away" /\ ~t.over
Message(t) == [kind |-> "message", id |-> Len(t.talk)]
Ack(c, ok, ids, whole) == [kind |-> "ack", cmd |-> c.cmd, ok |-> ok, ids |-> ids, whole |-> whole]
Receipt(c) == {i \in Talk : table.talk[i].cmd = c.cmd}
MayTalk == Len(table.talk) + Len(table.pokes) < MaxTalk

OtherSays ==
    /\ MayTalk /\ ~table.over
    /\ table' = [table EXCEPT !.talk = Append(@, [by |-> "other", cmd |-> 0])]
    /\ net' = [net EXCEPT !.down = IF Reads(table) THEN Push(@, <<Message(table')>>) ELSE @]
    /\ UNCHANGED <<social, breaks>>

\* Accepted once and answered from its receipt from then on, if it is let in at all; or
\* rejected (too early, no seat, an empty seat); the acknowledgment goes to the socket the command came from.
ServeCommand(c) ==
    /\ c \in net.up
    /\ LET Answer(events, ack) ==
               net' = [net EXCEPT !.up = @ \ {c}, !.down = Push(@, events \o (IF c.heard THEN <<ack>> ELSE <<>>))]
       IN \/ /\ c.kind = "history" /\ Reads(table)
             /\ Answer(<<>>, Ack(c, TRUE, Talk, TRUE)) /\ UNCHANGED table
          \/ /\ c.kind # "history" /\ c.cmd \in table.receipts /\ table.role = "seated" /\ ~table.over
             /\ Answer(<<>>, Ack(c, TRUE, Receipt(c), FALSE)) /\ UNCHANGED table
          \/ /\ c.kind # "history" /\ c.cmd \notin table.receipts /\ table.role = "seated" /\ ~table.over /\ MayTalk
             /\ \/ /\ c.kind = "chat"
                   /\ table' = [table EXCEPT !.talk = Append(@, [by |-> "me", cmd |-> c.cmd]),
                                             !.receipts = @ \cup {c.cmd}]
                   /\ Answer(<<Message(table')>>, Ack(c, TRUE, {Len(table'.talk)}, FALSE))
                \/ /\ c.kind = "poke"
                   /\ table' = [table EXCEPT !.pokes = Append(@, c.cmd), !.receipts = @ \cup {c.cmd}]
                   /\ Answer(<<[kind |-> "reaction", id |-> Len(table'.pokes)]>>, Ack(c, TRUE, {}, FALSE))
          \/ /\ c.kind = "history" => ~Reads(table)
             /\ c.cmd \in table.receipts => table.role # "seated" \/ table.over
             /\ Answer(<<>>, Ack(c, FALSE, {}, FALSE)) /\ UNCHANGED table
    /\ UNCHANGED <<social, breaks>>

\* A seat is taken or left, a queue joined, the table ended; the snapshot follows later.
SeatChanges ==
    /\ ~table.over /\ Break
    /\ \E role \in Roles \ {table.role} :
         table' \in {[table EXCEPT !.role = role], [table EXCEPT !.over = TRUE]}
    /\ social' = [social EXCEPT !.whole = @ /\ Reads(table')]
    /\ net' = [net EXCEPT !.down = [i \in DOMAIN net.down |->
           LET e == net.down[i] IN IF e.kind = "ack" THEN [e EXCEPT !.whole = e.whole /\ Reads(table')] ELSE e]]

SocialInit ==
    /\ breaks = 0
    /\ table = [talk |-> <<>>, pokes |-> <<>>, receipts |-> {}, role |-> "seated", over |-> FALSE]
    /\ net = [up |-> {}, down |-> <<>>, sends |-> 1, reads |-> 1]
    /\ social = Unmounted("seated", FALSE, TRUE)

SocialNext ==
    \/ Show \/ Collapse \/ Drop \/ Resume \/ SnapshotRead
    \/ OpenChat \/ CloseChat \/ Aim \/ ClosePokes \/ SendMessage \/ SendReaction
    \/ \E kind \in CommandKinds : Resend(kind)
    \/ \E r \in social.flights : ReactionLanded(r)
    \/ Receive \/ OtherSays \/ SeatChanges
    \/ \E c \in net.up : ServeCommand(c)

SocialSpec == SocialInit /\ [][SocialNext]_socialVars

-------------------------------------------------------------------------------
\* Whatever is lost, retried or reconnected, a message or reaction is delivered once for each
\* time the player sends it.  (TableSocialChannel.ts:29: retry the same ID; the server
\* deduplicates across reconnects and tabs)
SentOnce == Cardinality({i \in Talk : table.talk[i].by = "me"}) + Len(table.pokes) < net.sends

\* Once the history has come, and until reading is interrupted, no message is missing from
\* the conversation but those still on their way.
TalkComplete ==
    social.whole =>
        Talk = social.messages \cup {e.id : e \in {net.down[i] : i \in DOMAIN net.down} \cap [kind : {"message"}, id : Talk]}

\* The badge counts every message that came while the chat was closed, once.
UnreadIsMissed == social.unread = Cardinality(Theirs(social.seen \ social.read))
=============================================================================
