------------------------------- MODULE Notices -------------------------------
(***************************************************************************)
(* The notices of a player (client/src/components/NotificationBell.tsx):   *)
(* four lists read together every five seconds, and answers to them.  A    *)
(* list that was read before an answer may be shown after it.  `waiting'   *)
(* is what the server would tell: requests of friendship and invitations   *)
(* to rooms and tables, and news that is read or unread.                   *)
(***************************************************************************)
EXTENDS Naturals, FiniteSets

CONSTANTS
    Offers,         \* requests and invitations, each with its identity
    News,           \* notifications, which are only read
    MaxOffered      \* bound of the model: how often an offer is made

ASSUME NoticeAssumption == Offers \cap News = {} /\ MaxOffered \in Nat

VARIABLES waiting, bell, reading, answers, offered
noticeVars == <<waiting, bell, reading, answers, offered>>

Items == Offers \cup News
Idle == [phase |-> "idle"]

\* refresh: Promise.all of the four lists, each of them served at a moment of its own.
ReadNotices ==
    /\ reading = Idle
    /\ reading' = [phase |-> "sent", left |-> Items, items |-> {}]
    /\ UNCHANGED <<waiting, bell, answers, offered>>
ListServed ==
    /\ reading.phase = "sent" /\ reading.left # {}
    /\ \E list \in {Offers, News} :
         /\ list \subseteq reading.left
         /\ reading' = [reading EXCEPT !.left = @ \ list, !.items = @ \cup (list \cap waiting)]
    /\ UNCHANGED <<waiting, bell, answers, offered>>
NoticesTaken ==
    /\ reading.phase = "sent" /\ reading.left = {}
    /\ bell' = [bell EXCEPT !.items = reading.items]
    /\ reading' = Idle
    /\ UNCHANGED <<waiting, answers, offered>>
NoticesLost == reading # Idle /\ reading' = Idle /\ UNCHANGED <<waiting, bell, answers, offered>>

OpenBell == ~bell.open /\ bell' = [bell EXCEPT !.open = TRUE] /\ UNCHANGED <<waiting, reading, answers, offered>>
CloseBell == bell.open /\ bell' = [bell EXCEPT !.open = FALSE] /\ UNCHANGED <<waiting, reading, answers, offered>>

\* answerRequest, answerTable, answerRoom and markAllRead: any number under way.
Answer(items, accept) ==
    /\ bell.open /\ items # {} /\ items \subseteq bell.items
    /\ answers' = answers \cup {[items |-> items, accept |-> accept, phase |-> "sent"]}
    /\ UNCHANGED <<waiting, bell, reading, offered>>
AnswerOffer(i, accept) == i \in Offers /\ Answer({i}, accept)
MarkAllRead == Answer(bell.items \cap News, FALSE)

\* An offer that is no longer made is refused.
AnswerServed(a) ==
    /\ a.phase = "sent"
    /\ IF a.items \subseteq waiting \/ a.items \subseteq News
       THEN waiting' = waiting \ a.items /\ answers' = (answers \ {a}) \cup {[a EXCEPT !.phase = "told"]}
       ELSE UNCHANGED waiting /\ answers' = answers \ {a}
    /\ UNCHANGED <<bell, reading, offered>>
\* What was accepted opens its table or room, and the bell closes.
AnswerTaken(a) ==
    /\ a.phase = "told"
    /\ bell' = [bell EXCEPT !.items = @ \ a.items, !.open = @ /\ ~a.accept]
    /\ answers' = answers \ {a}
    /\ UNCHANGED <<waiting, reading, offered>>
AnswerLost(a) == answers' = answers \ {a} /\ UNCHANGED <<waiting, bell, reading, offered>>

NoticesElsewhere ==
    /\ offered < MaxOffered /\ offered' = offered + 1
    /\ \E i \in Items : waiting' = (IF i \in waiting THEN waiting \ {i} ELSE waiting \cup {i})
    /\ UNCHANGED <<bell, reading, answers>>

NoticeInit ==
    /\ waiting \in SUBSET Items /\ bell = [items |-> {}, open |-> FALSE]
    /\ reading = Idle /\ answers = {} /\ offered = 0
NoticeNext ==
    \/ ReadNotices \/ ListServed \/ NoticesTaken \/ NoticesLost \/ OpenBell \/ CloseBell \/ MarkAllRead \/ NoticesElsewhere
    \/ \E i \in Items, accept \in BOOLEAN : AnswerOffer(i, accept)
    \/ \E a \in answers : AnswerServed(a) \/ AnswerTaken(a) \/ AnswerLost(a)
NoticeSpec == NoticeInit /\ [][NoticeNext]_noticeVars

\* The lists are read again and again, and in the end every answer comes through.
NoticeFairness ==
    /\ WF_noticeVars(ReadNotices) /\ SF_noticeVars(ListServed)
    /\ SF_noticeVars(ListServed /\ reading'.left = {}) /\ SF_noticeVars(NoticesTaken)
FairNoticeSpec == NoticeSpec /\ NoticeFairness

\* A notice that has been dealt with, here or elsewhere, may be brought back by an older list,
\* but does not stay.
NoticesSettle == \A i \in Items : (i \in bell.items /\ i \notin waiting) ~> (i \notin bell.items \/ i \in waiting)
===============================================================================
