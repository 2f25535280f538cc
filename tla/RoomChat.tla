------------------------------- MODULE RoomChat -------------------------------
(***************************************************************************)
(* The chat of a room (client/src/components/RoomChat.tsx): the history is *)
(* read every second while the room is connected, and paused while the     *)
(* player sits at a game.  A message is its place in the room's talk; the  *)
(* hook lives as long as the room is shown.                                *)
(***************************************************************************)
EXTENDS Naturals, Sequences, FiniteSets

CONSTANTS
    Drafts, Empty,  \* what the player may type, and nothing
    MaxMessages     \* bound of the model

ASSUME ChatAssumption == Empty \notin Drafts /\ MaxMessages \in Nat

VARIABLES
    talk,           \* the server: who wrote each message, and whether this player's chat is paused
    chat,           \* the hook; previous is <<>> for the null of previousIds
    poll, post,     \* requests under way
    read            \* messages that were on the screen, or in the first history
chatVars == <<talk, chat, poll, post, read>>

NoRequest == [phase |-> "none"]
TalkIds == 1 .. Len(talk.by)
OthersIn(ids) == {i \in ids : talk.by[i] = "other"}
Previous == IF chat.previous = <<>> THEN {} ELSE chat.previous[1]

\* The effect on room and connection: a request of an earlier one is aborted.
Connection(on) ==
    /\ chat.connected # on
    /\ chat' = [chat EXCEPT !.connected = on]
    /\ poll' = NoRequest
    /\ post' = IF post = NoRequest THEN NoRequest ELSE [post EXCEPT !.aborted = TRUE]
    /\ UNCHANGED <<talk, read>>

Refresh == /\ chat.connected /\ poll = NoRequest
           /\ poll' = [phase |-> "sent"]
           /\ UNCHANGED <<talk, chat, post, read>>
History == /\ poll.phase = "sent"
           /\ poll' = IF talk.paused THEN [phase |-> "paused"] ELSE [phase |-> "told", ids |-> TalkIds]
           /\ UNCHANGED <<talk, chat, post, read>>

\* Messages that were not in the history before count while the chat is closed; the first
\* history, and the first after a pause, counts for nothing.
HistoryTaken ==
    /\ poll.phase = "told"
    /\ LET fresh == IF chat.previous = <<>> THEN {} ELSE OthersIn(poll.ids \ Previous)
       IN /\ chat' = [chat EXCEPT !.previous = <<poll.ids>>, !.messages = poll.ids, !.blocked = FALSE,
                                  !.unread = IF chat.open THEN @ ELSE @ + Cardinality(fresh)]
          /\ read' = IF chat.open \/ chat.previous = <<>> THEN poll.ids ELSE read
    /\ poll' = NoRequest
    /\ UNCHANGED <<talk, post>>
Paused ==
    /\ poll.phase = "paused"
    /\ chat' = [chat EXCEPT !.blocked = TRUE, !.open = FALSE, !.messages = {}, !.unread = 0, !.previous = <<>>]
    /\ poll' = NoRequest /\ read' = {}
    /\ UNCHANGED <<talk, post>>
RefreshFails == /\ poll # NoRequest
                /\ chat' = [chat EXCEPT !.blocked = FALSE] /\ poll' = NoRequest
                /\ UNCHANGED <<talk, post, read>>

ToggleChat ==
    /\ chat.open \/ ~chat.blocked
    /\ chat' = [chat EXCEPT !.open = ~@, !.unread = IF chat.open THEN @ ELSE 0]
    /\ read' = chat.messages
    /\ UNCHANGED <<talk, poll, post>>
TypeLine(text) == /\ chat.open /\ chat.draft # text /\ chat' = [chat EXCEPT !.draft = text]
              /\ UNCHANGED <<talk, poll, post, read>>

SendLine ==
    /\ chat.open /\ post = NoRequest /\ ~chat.blocked /\ chat.connected /\ chat.draft # Empty
    /\ post' = [phase |-> "sent", text |-> chat.draft, aborted |-> FALSE]
    /\ UNCHANGED <<talk, chat, poll, read>>
Posted ==
    /\ post.phase = "sent" /\ Len(talk.by) < MaxMessages /\ ~talk.paused
    /\ talk' = [talk EXCEPT !.by = Append(@, "me")]
    /\ post' = [post EXCEPT !.phase = "ok"]
    /\ UNCHANGED <<chat, poll, read>>
\* An answer, or none: the text stays unless it was sent and has not been changed since.
PostAnswered ==
    /\ post # NoRequest
    /\ chat' = IF post.phase = "ok" /\ ~post.aborted /\ chat.draft = post.text THEN [chat EXCEPT !.draft = Empty] ELSE chat
    /\ post' = NoRequest
    /\ UNCHANGED <<talk, poll, read>>

ChatElsewhere ==
    /\ \/ Len(talk.by) < MaxMessages /\ talk' = [talk EXCEPT !.by = Append(@, "other")]
       \/ talk' = [talk EXCEPT !.paused = ~@]
    /\ UNCHANGED <<chat, poll, post, read>>

ChatInit ==
    /\ talk \in [by : {<<>>, <<"other">>}, paused : BOOLEAN]
    /\ chat = [open |-> FALSE, blocked |-> FALSE, unread |-> 0, messages |-> {}, previous |-> <<>>, draft |-> Empty,
               connected |-> TRUE]
    /\ poll = NoRequest /\ post = NoRequest /\ read = {}
ChatNext ==
    \/ Refresh \/ History \/ HistoryTaken \/ Paused \/ RefreshFails \/ ToggleChat \/ SendLine \/ Posted \/ PostAnswered \/ ChatElsewhere
    \/ \E on \in BOOLEAN : Connection(on)
    \/ \E text \in Drafts \cup {Empty} : TypeLine(text)
ChatSpec == ChatInit /\ [][ChatNext]_chatVars

\* The badge counts each message that somebody else wrote while the chat was closed, once,
\* through lost answers and interruptions.
RoomUnreadIsMissed == chat.unread = Cardinality(OthersIn(chat.messages \ read))
===============================================================================
