-------------------------- MODULE MCOutcomeSummary -------------------------
(* An instance of OutcomeSummary for TLC.                                     *)
EXTENDS OutcomeSummary

\* The week, the order of exchange and symbol, the 13-week mean and deviation, the returns.
Outcome(week, exchange, order, mean, sd, r4, r13, r40) ==
    [week |-> week, exchange |-> exchange, order |-> order, price |-> 200, volume |-> 1001,
     bound |-> [h \in Horizon |-> Base[h] + 1], mean |-> mean, sd |-> sd,
     realised |-> [h \in Horizon |-> CASE h = "4w" -> r4 [] h = "13w" -> r13 [] h = "40w" -> r40]]

First ==
    {Outcome(1, "N", 1, 400, 100, 10, 300, -5), Outcome(1, "Q", 2, 500, 100, -10, -1, None),
     Outcome(1, "Q", 3, 900, None, 1, 219, 700), Outcome(2, "N", 1, 300, 50, 0, 220, None),
     Outcome(2, "Q", 2, 400, 0, None, 5, None),
     [Outcome(2, "A", 4, 800, 10, 1, 1, 1) EXCEPT !.volume = 1000],
     [Outcome(2, "A", 5, 800, 10, 1, 1, 1) EXCEPT !.bound["40w"] = Base["40w"]]}

\* The third week's outcome becomes mature, and the first week leaves the window.
Second == First \cup {Outcome(3, "Q", 2, 400, 100, 7, 8, None),
                      Outcome(4, "N", 1, 400, 100, 9, None, None)}

Loaded == <<{o \in First : o.week > 2}, First, Second>>
MCLoads == Loaded
MCArguments == {<<<<None, None>>, <<None, 1>>>>, <<<<None, 1>>, <<None, None>>>>, <<<<"Q", 1>>, <<None, 1>>>>}
MCRequests ==
    {[start |-> None, end |-> None, exchange |-> e, limit |-> l] : e \in {None, "Q"}, l \in {None, 1}}
    \cup {[start |-> 2, end |-> 1, exchange |-> None, limit |-> None],
          [start |-> 1, end |-> None, exchange |-> "X", limit |-> None]}
=============================================================================
