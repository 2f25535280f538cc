---------------------------- MODULE MCTableSeating ----------------------------
(* Rooms of tables for TLC: one table of any game through two matches, and two   *)
(* Flush tables that compete for the users.                                      *)
EXTENDS TableSeating

\* Users are interchangeable.
Symmetry == Permutations(Users)

Tables == {g \in Hosted : tables[g].previous = 0}

\* Bounds of two tables: Flush, everybody in the room, one round each, the second one while
\* it is played, and one user who waits at one of them.
OneOrTwoTables ==
    \/ Cardinality(Tables) <= 1
    \/ /\ members = Users
       /\ \A g \in Hosted : tables[g].kind = "flush" /\ tables[g].starts <= 1
       /\ Cardinality({g \in Hosted : tables[g].queue # << >>}) <= 1
       /\ \A g \in Hosted : Len(tables[g].queue) <= 1
       /\ Cardinality({g \in Hosted : tables[g].engine = "finished"}) <= 1

\* Bound of failing calls: no seat is offered after one.
NoOfferAfterFailure ==
    failures = 0 \/ \A g \in Hosted : tables[g].offers = {}

\* Who sat, waited or left at a table that has ended changes nothing any more: no action
\* or property distinguishes tables that differ only there.
Present ==
    [g \in Games |-> IF tables[g] # NoTable /\ tables[g].ended
                     THEN [tables[g] EXCEPT !.users = << >>, !.departed = {}, !.queue = << >>,
                                            !.next = << >>, !.releases = << >>, !.offers = {},
                                            !.phase = "ENDED"]
                     ELSE tables[g]]
PresentState ==
    <<members, Present, lock, {l \in leaving : ~tables[l[2]].ended}, ticking, db, failures>>
================================================================================
