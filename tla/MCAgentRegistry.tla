--------------------------- MODULE MCAgentRegistry --------------------------
(* An instance of AgentRegistry for TLC: two customers, one of them with an   *)
(* agent registered before.                                                   *)
EXTENDS AgentRegistry, TLC
CONSTANTS Ann, Bob, bot, acme, old

Details == {[type |-> bot, vendor |-> None], [type |-> None, vendor |-> acme]}
Anonymous == [type |-> None, vendor |-> None]

Ask(owner, named, details, op) ==
    [owner |-> owner, named |-> named, details |-> details, op |-> op, agent |-> None,
     status |-> None, offset |-> 0]
Manage(owner, op, agent) ==
    [Ask(owner, None, Anonymous, op) EXCEPT !.agent = agent]

MCRequests ==
    {Ask(Ann, bot, d, "use") : d \in Details}
    \cup {Ask(owner, None, [type |-> None, vendor |-> acme], "use") : owner \in {Ann, External}}
    \cup {Manage(Ann, op, old) : op \in {"disable", "enable", "detail", "ledger"}}
    \cup {Manage(Bob, "disable", old), [Manage(Ann, "enable", old) EXCEPT !.named = bot]}
    \cup {Ask(External, None, Anonymous, "list"), [Ask(Ann, None, Anonymous, "list") EXCEPT !.offset = 1],
          [Ask(Ann, None, Anonymous, "list") EXCEPT !.status = "disabled"]}

OldRow(status) == [id |-> old, details |-> Anonymous, status |-> status]
MCRegistered ==
    {[a \in Agent |-> IF a = <<Ann, bot>> THEN row ELSE None] :
        row \in {None, OldRow("active"), OldRow("disabled")}}

\* Calls, and the uuids they draw, are interchangeable.
Calls == Permutations(Call)
=============================================================================
