------------------------ MODULE OutcomeSummary_proofs ------------------------
(***************************************************************************)
(* Theorems about OutcomeSummary, for any runs with any keys in any order,  *)
(* any loads of the data, and any failures.                                 *)
(***************************************************************************)
EXTENDS OutcomeSummary, FiniteSetTheorems, WellFoundedInduction, TLAPS

\* Between its start and its end a run has a position in its arguments.
Active == {"compute", "delete", "insert", "commit"}
Stamped == Active \cup {"abort", "done"}

\* The key of the i-th argument of run r.
KeyAt(r, i) == Key(args[r][i][1], args[r][i][2])

TypeInv ==
    /\ TypeOK
    /\ \A r \in Run :
          /\ pc[r] # "idle" => created /\ args[r] \in Arguments
          /\ pc[r] \in {"idle", "stamp"} => next[r] = 1 /\ view[r] = None
          /\ pc[r] \in Active => next[r] \in 1 .. Len(args[r])
          /\ pc[r] \in {"commit", "done"} => next[r] = Len(args[r])

\* An argument and its key.
LEMMA ArgumentsAreGiven ==
    ASSUME TypeInv, NEW r \in Run, args[r] \in Arguments, NEW i \in 1 .. Len(args[r])
    PROVE  args[r][i] \in Given /\ args[r][i] \in Argument /\ KeyAt(r, i) \in Keys
<1>1. args[r] \in Seq(Argument) /\ DOMAIN args[r] = 1 .. Len(args[r])
    BY OutcomeAssumption
<1>2. args[r][i] \in Given
    BY <1>1 DEF Given
<1> QED BY <1>1, <1>2 DEF KeyAt, Keys

\* A summary carries what it was asked for.
LEMMA SummaryFields ==
    ASSUME NEW v \in DOMAIN Loads, HasMature[v], NEW a \in Given
    PROVE  /\ Summary[v][a].exchange = a[1] /\ Summary[v][a].limit = a[2]
           /\ Summary[v][a].key = Key(a[1], a[2])
<1>1. Summary[v][a] = compute_summary_record(Loads[v], a[1], a[2])
    BY DEF Summary
<1> QED BY <1>1 DEF compute_summary_record

\* What Insert writes is a row of the table.
LEMMA RowsAreRecords ==
    ASSUME NEW summary \in Summaries, NEW g \in DOMAIN Loads, NEW r \in Run
    PROVE  [summary |-> summary, generated |-> g, run |-> r] \in Row
BY DEF Row

\* What a run has computed, written and committed: summaries of its one view, which is no
\* older than its stamp, under locks it keeps until it ends.
RunOK(r) ==
    /\ pc[r] \in Stamped => generated[r] \in DOMAIN Loads /\ generated[r] <= loaded
    /\ view[r] # None => generated[r] \in 1 .. view[r] /\ view[r] \in 1 .. loaded
    /\ pc[r] \in {"delete", "insert"} =>
          /\ view[r] # None /\ HasMature[view[r]]
          /\ record[r] = Summary[view[r]][args[r][next[r]]]
    /\ pc[r] = "insert" => lock[KeyAt(r, next[r])] = r
    /\ pc[r] \in Active => \A i \in 1 .. Len(args[r]) :
          i < next[r] \/ pc[r] = "commit" => lock[KeyAt(r, i)] = r
    /\ \A k \in Keys : lock[k] = r =>
          /\ pc[r] \in Active \cup {"abort"}
          /\ pending[r][k] = None => pc[r] = "insert" /\ k = KeyAt(r, next[r])

RunInv == \A r \in Run : RunOK(r)

\* A row is a summary of the view of the run that wrote it.
Written(k, row) ==
    /\ row.summary.key = k
    /\ <<row.summary.exchange, row.summary.limit>> \in Given
    /\ view[row.run] # None /\ HasMature[view[row.run]]
    /\ row.generated = generated[row.run]
    /\ row.summary = SummaryLike(row, view[row.run])

TableInv ==
    /\ \A k \in Keys : table[k] # None => Written(k, table[k]) /\ pc[table[k].run] = "done"
    /\ \A r \in Run : \A k \in Keys : pending[r][k] # None =>
          Written(k, pending[r][k]) /\ pending[r][k].run = r
    /\ \A r \in Run : pc[r] = "done" => \A i \in 1 .. Len(args[r]) : table[KeyAt(r, i)] # None

Inv == TypeInv /\ RunInv /\ TableInv

\* The initial states satisfy the invariant.
LEMMA InitInv == Init => Inv
<1> SUFFICES ASSUME Init PROVE Inv
    OBVIOUS
<1>1. TypeInv
    <2>1. loaded \in DOMAIN Loads
        BY OutcomeAssumption DEF Init
    <2>2. /\ table \in [Keys -> Row \cup {None}] /\ created \in BOOLEAN
          /\ \A k \in Keys : table[k] = None
        BY DEF Init
    <2>3. pending \in [Run -> [Keys -> Row \cup {None}]] /\ lock \in [Keys -> Run \cup {None}]
        BY DEF Init
    <2>4. /\ pc \in [Run -> {"idle"}] /\ args \in [Run -> Arguments \cup {<<>>}]
          /\ next \in [Run -> Nat \ {0}] /\ generated \in [Run -> DOMAIN Loads \cup {0}]
          /\ view \in [Run -> DOMAIN Loads \cup {None}] /\ record \in [Run -> Summaries \cup {None}]
        BY DEF Init
    <2>5. TypeOK
        BY <2>1, <2>2, <2>3, <2>4 DEF TypeOK
    <2>6. \A r \in Run : pc[r] = "idle" /\ next[r] = 1 /\ view[r] = None
        BY DEF Init
    <2> QED BY <2>5, <2>6 DEF TypeInv, Active
<1>2. RunInv /\ TableInv
    BY OutcomeAssumption DEF Init, RunInv, RunOK, TableInv, Active, Stamped
<1> QED BY <1>1, <1>2 DEF Inv

\* Every step keeps the types.
LEMMA NextTypes == TypeInv /\ RunInv /\ TableInv /\ [Next]_vars => TypeInv'
<1> SUFFICES ASSUME TypeInv, RunInv, TableInv, [Next]_vars PROVE TypeInv'
    OBVIOUS
<1> USE OutcomeAssumption DEF TypeInv, Active
<1>1. CASE Load
    BY <1>1 DEF Load, TypeOK, runVars
<1>2. ASSUME NEW r \in Run, Step(r) \/ Fail(r) PROVE TypeInv'
    <2>1. CASE Create(r)
        <3>1. PICK arguments \in Arguments : args' = [args EXCEPT ![r] = arguments]
            BY <2>1 DEF Create
        <3> QED BY <2>1, <3>1 DEF Create, At, GoTo, TypeOK
    <2>2. CASE Stamp(r)
        <3>1. args[r] \in Arguments /\ next[r] = 1 /\ Len(args[r]) \in Nat /\ Len(args[r]) >= 1
            <4>0. pc[r] = "stamp" /\ args[r] \in Arguments /\ next[r] = 1
                BY <2>2 DEF Stamp, At
            <4>1. args[r] \in Seq(Argument) /\ args[r] # <<>>
                BY <4>0
            <4>2. Len(args[r]) \in Nat /\ Len(args[r]) # 0
                BY <4>1
            <4> QED BY <4>0, <4>2
        <3> QED BY <2>2, <3>1 DEF Stamp, At, GoTo, TypeOK
    <2>3. CASE Compute(r)
        <3>0. pc[r] = "compute" /\ args[r] \in Arguments /\ next[r] \in 1 .. Len(args[r])
            BY <2>3 DEF Compute, At
        <3>1. ViewOf(r) \in DOMAIN Loads
            BY DEF ViewOf, TypeOK
        <3>2. args[r][next[r]] \in Given
            BY <3>0, ArgumentsAreGiven
        <3>3. Summary[ViewOf(r)][args[r][next[r]]] \in Summaries
            BY <3>1, <3>2 DEF Summaries
        <3>4. /\ record' \in [Run -> Summaries \cup {None}]
              /\ view' = [view EXCEPT ![r] = ViewOf(r)]
              /\ \E step \in {"abort", "delete"} : pc' = [pc EXCEPT ![r] = step]
              /\ UNCHANGED <<loaded, table, created, args, next, generated, pending, lock>>
            BY <2>3, <3>3 DEF Compute, GoTo, TypeOK
        <3> QED BY <3>0, <3>1, <3>4 DEF TypeOK
    <2>4. CASE Delete(r)
        <3>0. pc[r] = "delete" /\ KeyOf(r) \in Keys
            BY <2>4, ArgumentsAreGiven DEF Delete, At, KeyOf, KeyAt
        <3>1. pending' \in [Run -> [Keys -> Row \cup {None}]]
            <4>1. pending' = [pending EXCEPT ![r] = [pending[r] EXCEPT ![KeyOf(r)] = None]]
                BY <2>4 DEF Delete, TypeOK
            <4> QED BY <3>0, <4>1 DEF TypeOK
        <3> QED BY <2>4, <3>0, <3>1 DEF Delete, GoTo, TableAfterDelete, TypeOK
    <2>5. CASE Insert(r)
        <3>0. /\ pc[r] = "insert" /\ KeyOf(r) \in Keys /\ KeyOf(r) = KeyAt(r, next[r])
              /\ next[r] \in 1 .. Len(args[r]) /\ Len(args[r]) \in Nat
            <4>1. args[r] \in Seq(Argument)
                BY <2>5 DEF Insert, At
            <4> QED BY <2>5, <4>1, ArgumentsAreGiven DEF Insert, At, KeyOf, KeyAt
        <3>1. [summary |-> record[r], generated |-> StampOf(r), run |-> r] \in Row
            <4>1. generated[r] \in DOMAIN Loads
                BY <3>0 DEF RunInv, RunOK, Stamped
            <4>2. record[r] \in Summaries
                <5>1. args[r][next[r]] \in Given
                    BY <3>0, ArgumentsAreGiven
                <5>2. view[r] # None /\ record[r] = Summary[view[r]][args[r][next[r]]]
                    BY <3>0 DEF RunInv, RunOK
                <5>3. view[r] \in DOMAIN Loads
                    BY <5>2 DEF TypeOK
                <5> QED BY <5>1, <5>2, <5>3 DEF Summaries
            <4>3. \A g \in DOMAIN Loads : [summary |-> record[r], generated |-> g, run |-> r] \in Row
                BY <4>2, RowsAreRecords
            <4> QED BY <4>1, <4>3 DEF StampOf
        <3> DEFINE row == [summary |-> record[r], generated |-> StampOf(r), run |-> r]
        <3>2. pending' = [pending EXCEPT ![r] = [pending[r] EXCEPT ![KeyOf(r)] = row]]
            BY <2>5 DEF Insert, TypeOK
        <3> HIDE DEF row
        <3>3. pending' \in [Run -> [Keys -> Row \cup {None}]]
            BY <3>0, <3>1, <3>2 DEF TypeOK, row
        <3>4. CASE next[r] = Len(args[r])
            <4>1. pc' = [pc EXCEPT ![r] = "commit"] /\ next' = next
                BY <2>5, <3>4 DEF Insert, GoTo
            <4> QED BY <2>5, <3>0, <3>3, <3>4, <4>1 DEF Insert, TypeOK
        <3>5. CASE next[r] # Len(args[r])
            <4>1. pc' = [pc EXCEPT ![r] = "compute"] /\ next' = [next EXCEPT ![r] = next[r] + 1]
                BY <2>5, <3>5 DEF Insert, GoTo, TypeOK
            <4>2. next[r] + 1 \in 1 .. Len(args[r]) /\ next[r] + 1 \in Nat \ {0}
                BY <3>0, <3>5
            <4>3. next' \in [Run -> Nat \ {0}]
                BY <4>1, <4>2 DEF TypeOK
            <4>4. UNCHANGED <<loaded, table, created, args, generated, view, record, lock>>
                BY <2>5 DEF Insert
            <4>5. TypeOK'
                BY <3>3, <4>1, <4>3, <4>4 DEF TypeOK
            <4>6. ASSUME NEW s \in Run
                  PROVE  /\ pc'[s] # "idle" => created' /\ args'[s] \in Arguments
                         /\ pc'[s] \in {"idle", "stamp"} => next'[s] = 1 /\ view'[s] = None
                         /\ pc'[s] \in Active => next'[s] \in 1 .. Len(args'[s])
                         /\ pc'[s] \in {"commit", "done"} => next'[s] = Len(args'[s])
                BY <3>0, <4>1, <4>2, <4>4 DEF TypeOK
            <4> QED BY <4>5, <4>6
        <3> QED BY <3>4, <3>5
    <2>6. CASE Commit(r)
        <3>1. table' \in [Keys -> Row \cup {None}] /\ lock' \in [Keys -> Run \cup {None}]
            BY <2>6 DEF Commit, Unlocked, TypeOK
        <3>2. pc[r] = "commit" /\ created
            BY <2>6 DEF Commit, At
        <3>3. \A k \in Keys : table'[k] # None => created /\ table'[k].summary.key = k
            <4>1. \A k \in Keys : \A row : Written(k, row) => row.summary.key = k
                BY DEF Written
            <4>2. \A k \in Keys : pending[r][k] # None => pending[r][k].summary.key = k
                BY <4>1 DEF TableInv
            <4> QED BY <2>6, <3>2, <4>2 DEF Commit, TypeOK
        <3> QED BY <2>6, <3>1, <3>2, <3>3 DEF Commit, GoTo, TypeOK, runVars
    <2>7. CASE Rollback(r) /\ pc[r] \in Active \cup {"abort"}
        <3>1. lock' \in [Keys -> Run \cup {None}]
            BY <2>7 DEF Rollback, Unlocked, TypeOK
        <3> QED BY <2>7, <3>1 DEF Rollback, GoTo, TypeOK, runVars
    <2> QED BY <1>2, <2>1, <2>2, <2>3, <2>4, <2>5, <2>6, <2>7 DEF Step, Fail, Abort, Victim, At
<1>3. CASE UNCHANGED vars
    BY <1>3 DEF vars, runVars, TypeOK
<1> QED BY <1>1, <1>2, <1>3 DEF Next

\* What a step of run r does to the others: nothing.
LEMMA StepsOfOne ==
    ASSUME TypeInv, NEW r \in Run, Step(r) \/ Fail(r), NEW s \in Run, s # r
    PROVE  /\ pc'[s] = pc[s] /\ args'[s] = args[s] /\ next'[s] = next[s]
           /\ generated'[s] = generated[s] /\ view'[s] = view[s]
           /\ record'[s] = record[s] /\ pending'[s] = pending[s]
           /\ \A k \in Keys : lock[k] = s <=> lock'[k] = s
<1> USE OutcomeAssumption DEF TypeInv, TypeOK
<1>1. CASE Create(r)
    BY <1>1 DEF Create, GoTo
<1>2. CASE Stamp(r)
    BY <1>2 DEF Stamp, GoTo
<1>3. CASE Compute(r)
    BY <1>3 DEF Compute, GoTo
<1>4. CASE Delete(r)
    BY <1>4 DEF Delete, GoTo, Free
<1>5. CASE Insert(r)
    <2>1. /\ \/ pc' = [pc EXCEPT ![r] = "commit"] /\ next' = next
             \/ pc' = [pc EXCEPT ![r] = "compute"] /\ next' = [next EXCEPT ![r] = next[r] + 1]
          /\ \E p : pending' = [pending EXCEPT ![r] = p]
          /\ UNCHANGED <<args, generated, view, record, lock>>
        BY <1>5 DEF Insert, GoTo
    <2> QED BY <2>1
<1>6. CASE Commit(r)
    BY <1>6 DEF Commit, GoTo, Unlocked, runVars
<1>7. CASE Rollback(r)
    BY <1>7 DEF Rollback, GoTo, Unlocked, runVars
<1> QED BY <1>1, <1>2, <1>3, <1>4, <1>5, <1>6, <1>7 DEF Step, Fail, Abort, Victim

\* Every step keeps what a run has computed, written and locked.
LEMMA NextRun == TypeInv /\ TypeInv' /\ RunInv /\ [Next]_vars => RunInv'
<1> SUFFICES ASSUME TypeInv, TypeInv', RunInv, [Next]_vars PROVE RunInv'
    OBVIOUS
<1> USE OutcomeAssumption
<1>0. loaded \in Nat /\ loaded >= 1 /\ loaded' \in Nat /\ loaded <= loaded'
    <2>1. loaded \in 1 .. Len(Loads) /\ loaded' \in 1 .. Len(Loads)
        BY DEF TypeInv, TypeOK
    <2>2. loaded' \in {loaded, loaded + 1}
        BY DEF Next, Load, Step, Fail, Create, Stamp, Compute, Delete, Insert, Commit, Abort,
               Victim, Rollback, vars
    <2> QED BY <2>1, <2>2
<1>1. CASE Load \/ UNCHANGED vars
    <2>1. UNCHANGED <<pc, runVars, lock>>
        BY <1>1 DEF Load, vars
    <2> QED BY <1>0, <2>1 DEF RunInv, RunOK, runVars, KeyAt, TypeInv, TypeOK
<1>2. ASSUME NEW r \in Run, Step(r) \/ Fail(r), NEW s \in Run, s # r PROVE RunOK(s)'
    <2>1. /\ pc'[s] = pc[s] /\ args'[s] = args[s] /\ next'[s] = next[s]
          /\ generated'[s] = generated[s] /\ view'[s] = view[s]
          /\ record'[s] = record[s] /\ pending'[s] = pending[s]
          /\ \A k \in Keys : lock[k] = s <=> lock'[k] = s
        BY <1>2, StepsOfOne
    <2>2. RunOK(s)
        BY DEF RunInv
    <2>3. pc[s] \in Active => args[s] \in Arguments /\ next[s] \in 1 .. Len(args[s])
        BY DEF TypeInv, Active
    <2>4. ASSUME pc[s] \in Active, NEW i \in 1 .. Len(args[s])
          PROVE  KeyAt(s, i)' = KeyAt(s, i) /\ KeyAt(s, i) \in Keys
        BY <2>1, <2>3, <2>4, ArgumentsAreGiven DEF KeyAt
    <2>5. view[s] # None => generated'[s] \in 1 .. view'[s] /\ view'[s] \in 1 .. loaded'
        BY <1>0, <2>1, <2>2 DEF RunOK, TypeInv, TypeOK
    <2>6. pc[s] \in Stamped => generated'[s] \in DOMAIN Loads /\ generated'[s] <= loaded'
        BY <1>0, <2>1, <2>2 DEF RunOK
    <2>7. pc[s] = "insert" => lock'[KeyAt(s, next[s])'] = s
        BY <2>1, <2>2, <2>3, <2>4 DEF RunOK, Active
    <2>8. pc[s] \in Active => \A i \in 1 .. Len(args[s]) :
              i < next[s] \/ pc[s] = "commit" => lock'[KeyAt(s, i)'] = s
        BY <2>1, <2>2, <2>4 DEF RunOK
    <2>9. \A k \in Keys : lock'[k] = s =>
              /\ pc[s] \in Active \cup {"abort"}
              /\ pending'[s][k] = None => pc[s] = "insert" /\ k = KeyAt(s, next[s])'
        BY <2>1, <2>2, <2>3, <2>4 DEF RunOK, Active
    <2> QED BY <2>1, <2>2, <2>5, <2>6, <2>7, <2>8, <2>9 DEF RunOK, KeyAt
<1>3. ASSUME NEW r \in Run, Step(r) \/ Fail(r) PROVE RunOK(r)'
    <2>2. RunOK(r)
        BY DEF RunInv
    <2>a. /\ pc[r] # "idle" => args[r] \in Arguments
          /\ pc[r] \in Active => next[r] \in 1 .. Len(args[r])
          /\ pc[r] \in {"commit", "done"} => next[r] = Len(args[r])
        BY DEF TypeInv
    <2>b. ASSUME pc[r] \in Active, NEW i \in 1 .. Len(args[r])
          PROVE  KeyAt(r, i) \in Keys /\ args[r][i] \in Given
        BY <2>a, <2>b, ArgumentsAreGiven DEF Active
    <2>c. /\ pc[r] \in {"idle", "stamp"} => view[r] = None
          /\ \A k \in Keys : pc[r] \notin Active \cup {"abort"} => lock[k] # r
        BY <2>2 DEF RunOK, TypeInv
    <2>d. None \notin Run /\ None \notin Nat
        OBVIOUS
    <2>3. CASE Create(r) \/ Stamp(r)
        <3>1. /\ UNCHANGED <<loaded, next, view, record, pending, lock>>
              /\ pc[r] \in {"idle", "stamp"} /\ pc'[r] \in {"stamp", "compute"}
              /\ pc'[r] = "compute" => generated'[r] = loaded /\ args' = args
            BY <2>3 DEF Create, Stamp, At, GoTo, TypeInv, TypeOK
        <3>2. view'[r] = None /\ next'[r] = 1 /\ \A k \in Keys : lock'[k] # r
            BY <2>c, <3>1 DEF TypeInv, Active
        <3>3. pc'[r] \in Stamped => generated'[r] \in DOMAIN Loads /\ generated'[r] <= loaded'
            BY <1>0, <3>1 DEF Stamped, Active, TypeInv, TypeOK
        <3>4. pc'[r] \in Active => \A i \in 1 .. Len(args'[r]) : ~(i < next'[r] \/ pc'[r] = "commit")
            BY <3>1, <3>2
        <3> QED BY <3>1, <3>2, <3>3, <3>4 DEF RunOK
    <2>4. CASE Compute(r)
        <3>1. /\ pc[r] = "compute" /\ view'[r] = ViewOf(r)
              /\ UNCHANGED <<loaded, args, next, generated, pending, lock>>
              /\ \/ pc'[r] = "abort"
                 \/ /\ pc'[r] = "delete" /\ HasMature[ViewOf(r)]
                    /\ record'[r] = Summary[ViewOf(r)][args[r][next[r]]]
            BY <2>4 DEF Compute, At, GoTo, TypeInv, TypeOK
        <3>2. generated[r] \in 1 .. loaded
            BY <1>0, <2>2, <3>1 DEF RunOK, Stamped, Active
        <3>3. view'[r] # None /\ generated'[r] \in 1 .. view'[r] /\ view'[r] \in 1 .. loaded'
            BY <1>0, <2>2, <2>d, <3>1, <3>2 DEF ViewOf, RunOK
        <3>4. pc'[r] \in Active => \A i \in 1 .. Len(args'[r]) :
                  i < next'[r] \/ pc'[r] = "commit" => lock'[KeyAt(r, i)'] = r
            BY <2>2, <3>1 DEF RunOK, KeyAt, Active
        <3>5. \A k \in Keys : lock'[k] = r =>
                  pc'[r] \in Active \cup {"abort"} /\ pending'[r][k] # None
            BY <2>2, <3>1 DEF RunOK, Active
        <3>6. /\ pc'[r] \in {"abort", "delete"}
              /\ pc'[r] = "delete" => /\ HasMature[view'[r]]
                                      /\ record'[r] = Summary[view'[r]][args'[r][next'[r]]]
            BY <3>1
        <3>7. generated'[r] \in DOMAIN Loads /\ generated'[r] <= loaded'
            BY <2>2, <3>1 DEF RunOK, Stamped, Active
        <3> QED BY <3>3, <3>4, <3>5, <3>6, <3>7 DEF RunOK
    <2>5. CASE Delete(r)
        <3>1. /\ pc[r] = "delete" /\ pc'[r] = "insert" /\ KeyOf(r) = KeyAt(r, next[r])
              /\ UNCHANGED <<loaded, args, next, generated, view, record>>
              /\ lock' = [lock EXCEPT ![KeyOf(r)] = r]
              /\ pending' = [pending EXCEPT ![r] = [pending[r] EXCEPT ![KeyOf(r)] = None]]
            BY <2>5 DEF Delete, At, GoTo, KeyOf, KeyAt, TypeInv, TypeOK
        <3>2. KeyAt(r, next[r]) \in Keys /\ \A i : KeyAt(r, i)' = KeyAt(r, i)
            BY <2>a, <2>b, <3>1 DEF Active, KeyAt
        <3>3. lock'[KeyAt(r, next[r])] = r /\ \A k \in Keys : lock[k] = r => lock'[k] = r
            BY <3>1, <3>2 DEF TypeInv, TypeOK
        <3>4. \A i \in 1 .. Len(args[r]) : i < next[r] => lock'[KeyAt(r, i)] = r
            BY <2>2, <2>b, <3>1, <3>3 DEF RunOK, Active
        <3>5. \A k \in Keys : k # KeyAt(r, next[r]) /\ lock'[k] = r => pending'[r][k] # None
            BY <2>2, <3>1 DEF RunOK, TypeInv, TypeOK
        <3>6. pc'[r] \in Stamped => generated'[r] \in DOMAIN Loads /\ generated'[r] <= loaded'
            BY <2>2, <3>1 DEF RunOK, Stamped, Active
        <3>7. /\ view'[r] # None /\ generated'[r] \in 1 .. view'[r] /\ view'[r] \in 1 .. loaded'
              /\ HasMature[view'[r]] /\ record'[r] = Summary[view'[r]][args'[r][next'[r]]]
            BY <2>2, <3>1 DEF RunOK
        <3>8. KeyAt(r, next[r])' = KeyAt(r, next[r]) /\ pc'[r] = "insert" /\ args'[r] = args[r]
              /\ next'[r] = next[r]
            BY <3>1 DEF KeyAt
        <3>9. /\ lock'[KeyAt(r, next[r])'] = r
              /\ \A k \in Keys : lock'[k] = r /\ pending'[r][k] = None => k = KeyAt(r, next[r])'
              /\ \A i \in 1 .. Len(args'[r]) : i < next'[r] => lock'[KeyAt(r, i)'] = r
            BY <3>2, <3>3, <3>4, <3>5, <3>8
        <3> QED BY <3>6, <3>7, <3>8, <3>9 DEF RunOK, Active
    <2>6. CASE Insert(r)
        <3>1. /\ pc[r] = "insert" /\ KeyOf(r) = KeyAt(r, next[r])
              /\ UNCHANGED <<loaded, args, generated, view, record, lock>>
              /\ pending' = [pending EXCEPT ![r] = [pending[r] EXCEPT ![KeyOf(r)] =
                     [summary |-> record[r], generated |-> StampOf(r), run |-> r]]]
            BY <2>6 DEF Insert, At, KeyOf, KeyAt, TypeInv, TypeOK
        <3>2. KeyAt(r, next[r]) \in Keys /\ \A i : KeyAt(r, i)' = KeyAt(r, i)
            BY <2>a, <2>b, <3>1 DEF Active, KeyAt
        <3>3. \/ pc'[r] = "commit" /\ next'[r] = next[r] /\ next[r] = Len(args[r])
              \/ pc'[r] = "compute" /\ next'[r] = next[r] + 1
            BY <2>6 DEF Insert, GoTo, TypeInv, TypeOK
        <3>4. [summary |-> record[r], generated |-> StampOf(r), run |-> r] # None
            <4>1. record[r] \in Summaries /\ generated[r] \in DOMAIN Loads
                <5>1. view[r] \in DOMAIN Loads /\ args[r][next[r]] \in Given
                    BY <2>2, <2>a, <2>b, <3>1 DEF RunOK, Active, TypeInv, TypeOK
                <5> QED BY <2>2, <3>1, <5>1 DEF RunOK, Stamped, Active, Summaries
            <4> QED BY <4>1, RowsAreRecords, RowAssumption DEF StampOf
        <3> DEFINE row == [summary |-> record[r], generated |-> StampOf(r), run |-> r]
        <3>5. pending' = [pending EXCEPT ![r] = [pending[r] EXCEPT ![KeyOf(r)] = row]] /\ row # None
            BY <3>1, <3>4
        <3> HIDE DEF row
        <3>6. \A k \in Keys : lock'[k] = r => pending'[r][k] # None
            BY <2>2, <3>1, <3>2, <3>5 DEF RunOK, TypeInv, TypeOK
        <3>7. next[r] \in Nat /\ next[r] <= Len(args[r]) /\ Len(args[r]) \in Nat
            <4>1. args[r] \in Seq(Argument) /\ next[r] \in 1 .. Len(args[r])
                BY <2>a, <3>1 DEF Active
            <4> QED BY <4>1
        <3>8. \A i \in 1 .. Len(args[r]) :
                  i < next'[r] \/ pc'[r] = "commit" => lock'[KeyAt(r, i)] = r
            <4>1. \A i \in 1 .. Len(args[r]) : i < next'[r] \/ pc'[r] = "commit" => i <= next[r]
                BY <3>3, <3>7
            <4>2. \A i \in 1 .. Len(args[r]) : i <= next[r] => i < next[r] \/ i = next[r]
                BY <3>7
            <4> QED BY <2>2, <3>1, <4>1, <4>2 DEF RunOK, Active
        <3>9. /\ pc'[r] \in Stamped => generated'[r] \in DOMAIN Loads /\ generated'[r] <= loaded'
              /\ view'[r] # None => generated'[r] \in 1 .. view'[r] /\ view'[r] \in 1 .. loaded'
            BY <2>2, <3>1 DEF RunOK, Stamped, Active
        <3>10. pc'[r] \in {"compute", "commit"} /\ args'[r] = args[r]
            BY <3>1, <3>3
        <3> QED BY <3>2, <3>6, <3>8, <3>9, <3>10 DEF RunOK, Active
    <2>7. CASE Commit(r) \/ Rollback(r)
        <3>1. /\ UNCHANGED <<loaded, runVars>> /\ pc'[r] \in {"done", "failed"}
              /\ \A k \in Keys : lock'[k] # r
              /\ pc'[r] = "done" => pc[r] = "commit"
            <4>1. None # r /\ pc \in [Run -> {"idle", "stamp", "compute", "delete", "insert",
                                           "commit", "abort", "done", "failed"}]
                BY OutcomeAssumption DEF TypeInv, TypeOK
            <4> QED BY <2>7, <2>d, <4>1 DEF Commit, Rollback, At, GoTo, Unlocked
        <3>2. pc'[r] \in Stamped => generated'[r] \in DOMAIN Loads /\ generated'[r] <= loaded'
            BY <2>2, <3>1 DEF RunOK, Stamped, Active, runVars
        <3>3. view'[r] # None => generated'[r] \in 1 .. view'[r] /\ view'[r] \in 1 .. loaded'
            BY <2>2, <3>1 DEF RunOK, runVars
        <3> QED BY <3>1, <3>2, <3>3 DEF RunOK, Active
    <2> QED BY <1>3, <2>3, <2>4, <2>5, <2>6, <2>7 DEF Step, Fail, Abort, Victim
<1> QED BY <1>1, <1>2, <1>3 DEF Next, RunInv

\* Every step keeps what is written and committed.
LEMMA NextTable == TypeInv /\ TypeInv' /\ RunInv /\ TableInv /\ [Next]_vars => TableInv'
<1> SUFFICES ASSUME TypeInv, TypeInv', RunInv, TableInv, [Next]_vars PROVE TableInv'
    OBVIOUS
<1> USE OutcomeAssumption
<1>1. CASE Load \/ UNCHANGED vars
    <2>1. UNCHANGED <<table, pc, runVars>>
        BY <1>1 DEF Load, vars
    <2> QED BY <2>1 DEF TableInv, Written, runVars, KeyAt
<1>2. ASSUME NEW r \in Run, Step(r) \/ Fail(r) PROVE TableInv'
    <2>1. \A s \in Run \ {r} :
              /\ pc'[s] = pc[s] /\ args'[s] = args[s] /\ next'[s] = next[s]
              /\ generated'[s] = generated[s] /\ view'[s] = view[s]
              /\ record'[s] = record[s] /\ pending'[s] = pending[s]
        BY <1>2, StepsOfOne
    <2>2. RunOK(r) /\ TypeInv
        BY DEF RunInv
    <2>a. pc[r] # "done" /\ (Commit(r) \/ (table' = table /\ pc'[r] # "done"))
        <3>1. CASE Create(r) \/ Stamp(r) \/ Compute(r)
            BY <3>1 DEF Create, Stamp, Compute, At, GoTo, TypeInv, TypeOK
        <3>2. CASE Delete(r) \/ Insert(r)
            BY <3>2 DEF Delete, Insert, TableAfterDelete, At, GoTo, TypeInv, TypeOK
        <3>3. CASE Commit(r)
            BY <3>3 DEF Commit, At
        <3>4. CASE pc[r] \in Active \cup {"abort"} /\ Rollback(r)
            BY <3>4 DEF Rollback, Active, GoTo, TypeInv, TypeOK
        <3> QED BY <1>2, <3>1, <3>2, <3>3, <3>4 DEF Step, Fail, Abort, Victim, At, Active
    <2>b. ASSUME pc[r] \in Active, NEW i \in 1 .. Len(args[r])
          PROVE  KeyAt(r, i) \in Keys /\ args[r][i] \in Given /\ args[r][i] \in Argument
        BY <2>b, ArgumentsAreGiven DEF Active, TypeInv
    <2>3. view[r] # None => view'[r] = view[r] /\ generated'[r] = generated[r]
        <3>1. CASE Stamp(r)
            BY <3>1 DEF Stamp, At, TypeInv
        <3>2. CASE Compute(r)
            BY <3>2 DEF Compute, ViewOf, TypeInv, TypeOK
        <3>3. CASE UNCHANGED <<view, generated>>
            BY <3>3
        <3> QED BY <1>2, <3>1, <3>2, <3>3 DEF Step, Fail, Create, Delete, Insert, Commit, Abort,
                    Victim, Rollback, runVars
    <2>4. \A k \in Keys : \A row : row.run \in Run /\ Written(k, row) => Written(k, row)'
        BY <2>1, <2>3 DEF Written
    <2>5. \A s \in Run, k \in Keys : pending'[s][k] # None =>
              (Written(k, pending[s][k]))' /\ pending'[s][k].run = s
        <3>2. ASSUME NEW s \in Run, NEW k \in Keys, pending'[s][k] = pending[s][k], pending[s][k] # None
              PROVE  (Written(k, pending[s][k]))' /\ pending'[s][k].run = s
            <4>1. Written(k, pending[s][k]) /\ pending[s][k].run = s
                BY <3>2 DEF TableInv
            <4> QED BY <2>1, <2>3, <3>2, <4>1 DEF Written
        <3>3. ASSUME Insert(r), NEW k \in Keys
              PROVE  \/ pending'[r][k] = pending[r][k]
                     \/ (Written(k, pending[r][k]))' /\ pending'[r][k].run = r
            <4> DEFINE row == [summary |-> record[r], generated |-> StampOf(r), run |-> r]
            <4>1. /\ pc[r] = "insert" /\ pending' = [pending EXCEPT ![r] = [pending[r] EXCEPT ![KeyOf(r)] = row]]
                  /\ UNCHANGED <<args, generated, view>>
                BY <3>3 DEF Insert, At, TypeInv, TypeOK
            <4>2. CASE k # KeyOf(r)
                BY <4>1, <4>2 DEF TypeInv, TypeOK
            <4>3. CASE k = KeyOf(r)
                <5>1. pending'[r][k] = row
                    BY <4>1, <4>3 DEF TypeInv, TypeOK
                <5>2. next[r] \in 1 .. Len(args[r]) /\ KeyOf(r) = KeyAt(r, next[r])
                    BY <4>1 DEF TypeInv, Active, KeyOf, KeyAt
                <5> DEFINE a == args[r][next[r]]
                <5>3. a \in Given /\ a = <<a[1], a[2]>>
                    BY <2>b, <4>1, <5>2 DEF Active, Argument
                <5>4. /\ view[r] # None /\ HasMature[view[r]] /\ view[r] \in DOMAIN Loads
                      /\ record[r] = Summary[view[r]][a]
                    BY <2>2, <4>1 DEF RunOK, TypeInv, TypeOK
                <5>5. record[r].key = k /\ record[r].exchange = a[1] /\ record[r].limit = a[2]
                    BY <4>3, <5>3, <5>4, SummaryFields DEF KeyOf
                <5>6. row.summary = record[r] /\ row.generated = generated[r] /\ row.run = r
                    BY DEF StampOf
                <5> HIDE DEF row, a
                <5>7. /\ SummaryLike(row, view[r]) = record[r]
                      /\ <<row.summary.exchange, row.summary.limit>> \in Given
                    BY <5>3, <5>4, <5>5, <5>6 DEF SummaryLike
                <5>8. view'[r] = view[r] /\ generated'[r] = generated[r]
                    BY <4>1
                <5> QED BY <5>1, <5>4, <5>5, <5>6, <5>7, <5>8 DEF Written, SummaryLike
            <4> QED BY <4>2, <4>3
        <3>4. ASSUME Delete(r), NEW k \in Keys
              PROVE  pending'[r][k] \in {pending[r][k], None}
            BY <3>4 DEF Delete, TypeInv, TypeOK
        <3>5. Insert(r) \/ Delete(r) \/ UNCHANGED pending
            BY <1>2 DEF Step, Fail, Create, Stamp, Compute, Commit, Abort, Victim, Rollback, runVars
        <3> QED BY <2>1, <3>2, <3>3, <3>4, <3>5
    <2>6. \A k \in Keys : \A row : row = table[k] /\ row # None =>
              Written(k, row)' /\ pc'[row.run] = "done"
        <3>1. ASSUME NEW k \in Keys, table[k] # None
              PROVE  table[k].run \in Run \ {r} /\ Written(k, table[k])
            BY <2>a, <3>1 DEF TableInv, TypeInv, TypeOK, Row
        <3>2. ASSUME NEW k \in Keys, table[k] # None PROVE pc'[table[k].run] = "done"
            BY <2>1, <3>1, <3>2 DEF TableInv
        <3> QED BY <2>4, <3>1, <3>2
    <2>7. CASE table' = table /\ pc'[r] # "done"
        <3>1. ASSUME NEW s \in Run, pc'[s] = "done", NEW i \in 1 .. Len(args'[s])
              PROVE  table'[KeyAt(s, i)'] # None
            BY <2>1, <2>7, <3>1 DEF TableInv, KeyAt
        <3> QED BY <2>5, <2>6, <2>7, <3>1 DEF TableInv, Written
    <2>8. CASE Commit(r)
        <3>1. /\ pc[r] = "commit" /\ pc'[r] = "done" /\ UNCHANGED runVars
              /\ table' = [k \in Keys |-> IF lock[k] = r THEN pending[r][k] ELSE table[k]]
            BY <2>8 DEF Commit, At, GoTo, TypeInv, TypeOK
        <3>2. \A k \in Keys : lock[k] = r => pending[r][k] # None
            BY <2>2, <3>1 DEF RunOK
        <3>3. ASSUME NEW k \in Keys, table'[k] # None
              PROVE  (Written(k, table[k]))' /\ pc'[table'[k].run] = "done"
            <4>1. CASE lock[k] = r
                <5>1. table'[k] = pending[r][k] /\ Written(k, pending[r][k]) /\ pending[r][k].run = r
                    BY <3>1, <3>3, <4>1 DEF TableInv
                <5> QED BY <3>1, <5>1 DEF Written, runVars
            <4>2. CASE lock[k] # r
                <5>1. table'[k] = table[k] /\ table[k] # None
                    BY <3>1, <3>3, <4>2
                <5> QED BY <2>6, <5>1 DEF Written
            <4> QED BY <4>1, <4>2
        <3>4. ASSUME NEW s \in Run, pc'[s] = "done", NEW i \in 1 .. Len(args'[s])
              PROVE  table'[KeyAt(s, i)'] # None
            <4>1. KeyAt(s, i)' = KeyAt(s, i) /\ args' = args
                BY <3>1 DEF KeyAt, runVars
            <4>2. CASE s = r
                <5>1. KeyAt(r, i) \in Keys /\ lock[KeyAt(r, i)] = r
                    BY <2>2, <2>b, <3>1, <3>4, <4>1, <4>2 DEF RunOK, Active
                <5> QED BY <3>1, <3>2, <4>1, <4>2, <5>1
            <4>3. CASE s # r
                <5>1. pc[s] = "done" /\ table[KeyAt(s, i)] # None
                    BY <2>1, <3>4, <4>1, <4>3 DEF TableInv
                <5>2. KeyAt(s, i) \in Keys
                    BY <3>4, <4>1, <5>1, ArgumentsAreGiven DEF TypeInv
                <5> QED BY <3>1, <3>2, <4>1, <5>1, <5>2
            <4> QED BY <4>2, <4>3
        <3> QED BY <2>5, <3>3, <3>4 DEF TableInv, Written
    <2> QED BY <2>a, <2>7, <2>8
<1> QED BY <1>1, <1>2 DEF Next

\* The invariant holds throughout.
LEMMA Invariance == Spec => []Inv
<1>1. Inv /\ [Next]_vars => Inv'
    BY NextTypes, NextRun, NextTable DEF Inv
<1> QED BY <1>1, InitInv, PTL DEF Spec

\* The rows a run writes are stored under the keys it was asked for, of the types the endpoint
\* reads, and only in a table that exists.
THEOREM TypeCorrect == Spec => []TypeOK
BY Invariance, PTL DEF Inv, TypeInv

\* The invariant has each row told by the view of the run that wrote it.
LEMMA ViewTellsRows == Inv => RowsAreOfOneView
<1> SUFFICES ASSUME Inv PROVE RowsAreOfOneView
    OBVIOUS
<1> USE DEF Inv
<1>1. ASSUME NEW row \in Rows
      PROVE  /\ row.run \in Run /\ view[row.run] \in row.generated .. loaded
             /\ view[row.run] \in 1 .. loaded
             /\ row.summary = SummaryLike(row, view[row.run])
    <2>1. PICK k \in Keys : table[k] = row /\ row # None
        BY DEF Rows
    <2>2. row \in Row /\ row.run \in Run
        BY <2>1 DEF TypeInv, TypeOK, Row
    <2>3. Written(k, row)
        BY <2>1 DEF TableInv
    <2>4. view[row.run] # None /\ row.generated = generated[row.run]
        BY <2>3 DEF Written
    <2>5. generated[row.run] \in 1 .. view[row.run] /\ view[row.run] \in 1 .. loaded
        BY <2>2, <2>4 DEF RunInv, RunOK
    <2>6. loaded \in Nat
        BY OutcomeAssumption DEF TypeInv, TypeOK
    <2> QED BY <2>2, <2>3, <2>4, <2>5, <2>6 DEF Written
<1>2. StampIsHonest
    BY <1>1 DEF StampIsHonest
<1>3. RunIsOneSnapshot
    BY <1>1 DEF RunIsOneSnapshot
<1> QED BY <1>2, <1>3 DEF RowsAreOfOneView

\* A row has everything that was loaded before its generated_at, and the rows of one run are of
\* the same data, whatever is loaded and whatever other runs do meanwhile.
THEOREM RowsOfOneView == Spec => []RowsAreOfOneView
BY Invariance, ViewTellsRows, PTL

\* The invariant has what a run refreshed in the table.
LEMMA TableHasRefreshed == Inv => RefreshedIsServed
<1> SUFFICES ASSUME Inv, NEW r \in Run, pc[r] = "done", NEW i \in DOMAIN args[r]
             PROVE  stim_select_outcomes_summary(
                        [start |-> None, end |-> None, exchange |-> args[r][i][1],
                         limit |-> args[r][i][2]]).status = 200
    BY DEF RefreshedIsServed
<1> DEFINE q == [start |-> None, end |-> None, exchange |-> args[r][i][1], limit |-> args[r][i][2]]
<1> USE DEF Inv
<1>1. created /\ args[r] \in Arguments
    BY DEF TypeInv
<1>2. i \in 1 .. Len(args[r])
    BY <1>1, OutcomeAssumption
<1>3. KeyAt(r, i) \in Keys /\ args[r][i] \in Argument /\ table[KeyAt(r, i)] # None
    BY <1>1, <1>2, ArgumentsAreGiven DEF TableInv
<1>4. q.exchange \in Exchange \cup {None}
    BY <1>3 DEF Argument
<1>5. /\ q.start = None /\ q.end = None
      /\ Key(q.exchange, q.limit) = KeyAt(r, i)
    BY DEF KeyAt
<1> HIDE DEF q
<1>6. Stored(q) # None
    BY <1>1, <1>3, <1>5 DEF Stored
<1>7. ~InvertedDates(q)
    BY <1>5 DEF InvertedDates
<1>8. stim_select_outcomes_summary(q).status = 200
    BY <1>4, <1>5, <1>6, <1>7 DEF stim_select_outcomes_summary
<1> QED BY <1>8 DEF q

\* Once a run ended well, a default request for any of its keys is served for good: no later run
\* takes a row away before the row that replaces it is committed.
THEOREM RefreshedServed == Spec => []RefreshedIsServed
BY Invariance, TableHasRefreshed, PTL

----------------------------------------------------------------------------
(* What the endpoint answers.                                                *)

\* A set of integers that is finite has a greatest member, which Max tells: remove one member of
\* a smallest set that has none.
LEMMA GreatestOfFinite ==
    ASSUME NEW S, IsFiniteSet(S), S # {}, S \subseteq Int
    PROVE  Max(S) \in S
<1> DEFINE Greatest(T) == \E x \in T : \A y \in T : x >= y
           Bad == {T \in FiniteSubsetsOf(S) : T # {} /\ ~Greatest(T)}
<1>1. Bad = {}
    <2>1. SUFFICES ASSUME Bad # {} PROVE FALSE
        OBVIOUS
    <2>2. IsWellFoundedOn(StrictSubsetOrdering(S), FiniteSubsetsOf(S))
        BY FS_StrictSubsetOrderingWellFounded
    <2>3. PICK T \in Bad : \A U \in Bad : <<U, T>> \notin StrictSubsetOrdering(S)
        <3>1. Bad \subseteq FiniteSubsetsOf(S)
            OBVIOUS
        <3> HIDE DEF Bad
        <3> QED BY <2>1, <2>2, <3>1, WFMin
    <2>4. T \subseteq S /\ IsFiniteSet(T) /\ T # {} /\ ~Greatest(T)
        BY <2>3 DEF FiniteSubsetsOf
    <2>5. PICK x \in T : TRUE
        BY <2>4
    <2>6. IsFiniteSet(T \ {x}) /\ T \ {x} \subseteq S
        BY <2>4, FS_RemoveElement
    <2>7. T \ {x} \notin Bad
        BY <2>3, <2>4, <2>5 DEF StrictSubsetOrdering
    <2>8. CASE T \ {x} = {}
        <3>1. Greatest(T)
            BY <2>4, <2>5, <2>8
        <3> QED BY <2>4, <3>1
    <2>9. CASE T \ {x} # {}
        <3>1. PICK z \in T \ {x} : \A y \in T \ {x} : z >= y
            BY <2>6, <2>7, <2>9 DEF FiniteSubsetsOf
        <3>2. Greatest(T)
            BY <2>4, <2>5, <3>1
        <3> QED BY <2>4, <3>2
    <2> QED BY <2>8, <2>9
<1>2. Greatest(S)
    BY <1>1 DEF FiniteSubsetsOf
<1> QED BY <1>2 DEF Max

\* What the queries select is part of a finite load.
LEMMA OutcomesAreFinite ==
    ASSUME NEW v \in DOMAIN Loads, NEW exchange, NEW start, NEW end, NEW limit
    PROVE  LET rows == WithinRank(base_where(Loads[v], exchange, start, end), limit) IN
           /\ rows \subseteq Loads[v] /\ IsFiniteSet(rows)
           /\ With(rows, "13w") = rows
<1> DEFINE base == base_where(Loads[v], exchange, start, end)
           rows == WithinRank(base, limit)
<1>1. base \subseteq Loads[v] /\ \A o \in base : o.realised["13w"] # None
    BY DEF base_where
<1> HIDE DEF base
<1>2. rows \subseteq base
    BY DEF WithinRank
<1> HIDE DEF rows
<1>3. IsFiniteSet(rows)
    BY <1>1, <1>2, FS_Subset, DataAssumption
<1> QED BY <1>1, <1>2, <1>3 DEF With, rows, base

\* The latest mature outcome has a date, and a window ends no earlier than it starts.
LEMMA WindowIsADate ==
    ASSUME NEW v \in DOMAIN Loads, HasMature[v]
    PROVE  LET latest == latest_mature_outcome_date(Loads[v]) IN
           latest \in Nat /\ latest - Window \in Int /\ latest - Window <= latest
<1> DEFINE rows == base_where(Loads[v], None, None, None)
           latest == latest_mature_outcome_date(Loads[v])
<1>1. rows \subseteq Loads[v] /\ IsFiniteSet(rows)
    BY FS_Subset, DataAssumption DEF base_where
<1>2. \A o \in rows : o.week \in Nat
    BY <1>1, DataAssumption
<1>3. latest = LastWeek(rows) /\ latest # None
    BY DEF latest_mature_outcome_date, HasMature
<1> HIDE DEF rows, latest
<1>4. rows # {} /\ latest = Max({o.week : o \in rows})
    BY <1>3 DEF LastWeek
<1>5. IsFiniteSet({o.week : o \in rows})
    <2>1. [o \in rows |-> o.week] \in Surjection(rows, {o.week : o \in rows})
        BY DEF Surjection
    <2> QED BY <1>1, <2>1, FS_Surjection
<1>6. latest \in Nat
    BY <1>2, <1>4, <1>5, GreatestOfFinite
<1> QED BY <1>6, OutcomeAssumption DEF latest

\* A default answer is a row of the table, the summary of a load for the request's own key.
LEMMA StoredAnswers ==
    ASSUME Inv, NEW q \in Requests,
           stim_select_outcomes_summary(q).status = 200,
           stim_select_outcomes_summary(q).horizons # None
    PROVE  LET a == stim_select_outcomes_summary(q) IN
           \E v \in Stored(q).generated .. loaded :
              /\ v \in DOMAIN Loads /\ HasMature[v]
              /\ q.exchange \in Exchange \cup {None}
              /\ Stored(q).generated \in Nat
              /\ LET summary == compute_summary_record(Loads[v], q.exchange, q.limit) IN
                 /\ a.start = summary.start /\ a.end = summary.end
                 /\ a.outcomes = StoredOutcomes(summary) /\ a.horizons = summary.horizons
<1> DEFINE a == stim_select_outcomes_summary(q)
           row == Stored(q)
           given == <<row.summary.exchange, row.summary.limit>>
<1>1. /\ row # None /\ q.exchange \in Exchange \cup {None}
      /\ a = [status |-> 200, start |-> row.summary.start, end |-> row.summary.end,
              outcomes |-> StoredOutcomes(row.summary), horizons |-> row.summary.horizons]
    <2>1. a.status = 200 /\ a.horizons # None
        OBVIOUS
    <2>2. ~InvertedDates(q) /\ q.exchange \in Exchange \cup {None}
        BY <2>1 DEF stim_select_outcomes_summary, Refused
    <2>3. q.start = None /\ q.end = None
        BY <2>1, <2>2 DEF stim_select_outcomes_summary
    <2>4. row # None
        BY <2>1, <2>2, <2>3 DEF stim_select_outcomes_summary, Refused
    <2> QED BY <2>2, <2>3, <2>4 DEF stim_select_outcomes_summary
<1>2. Key(q.exchange, q.limit) \in Keys /\ row = table[Key(q.exchange, q.limit)]
    BY <1>1 DEF Stored
<1>3. Written(Key(q.exchange, q.limit), row) /\ row.run \in Run
    BY <1>1, <1>2 DEF Inv, TableInv, TypeInv, TypeOK, Row
<1> DEFINE v == view[row.run]
<1>4. v \in 1 .. loaded /\ row.generated \in 1 .. v /\ loaded \in DOMAIN Loads
    BY <1>3 DEF Written, Inv, RunInv, RunOK, TypeInv, TypeOK
<1>5. v \in DOMAIN Loads /\ v \in row.generated .. loaded /\ row.generated \in Nat
    BY <1>4, OutcomeAssumption
<1>6. HasMature[v] /\ given \in Given /\ row.summary = Summary[v][given]
    BY <1>3 DEF Written, SummaryLike
<1>7. given \in Argument
    BY <1>6, OutcomeAssumption DEF Given
<1>8. row.summary = compute_summary_record(Loads[v], given[1], given[2])
    BY <1>5, <1>6 DEF Summary
<1>9. Key(q.exchange, q.limit) = Key(given[1], given[2])
    BY <1>3, <1>5, <1>6, SummaryFields DEF Written
<1>10. q.exchange = given[1] /\ q.limit = given[2]
    <2>1. q.limit \in Nat \cup {None}
        BY DataAssumption
    <2>2. /\ given[1] \in Exchange \cup {None} /\ given[2] \in Nat \cup {None}
        BY <1>7 DEF Argument
    <2> QED BY <1>1, <1>9, <2>1, <2>2, OutcomeAssumption DEF Key
<1> HIDE DEF given, v, row, a
<1> QED BY <1>1, <1>5, <1>6, <1>8, <1>10 DEF a, row

\* The figures of a horizon are over the outcomes that have its return.
LEMMA RatesAgree == Inv => RatesAreOfTheirHorizon
<1> SUFFICES ASSUME Inv, NEW q \in Requests,
                    stim_select_outcomes_summary(q).status = 200,
                    stim_select_outcomes_summary(q).horizons # None,
                    NEW h \in Horizon
             PROVE  LET a == stim_select_outcomes_summary(q) m == a.horizons[h] IN
                    /\ m.count <= a.outcomes.count /\ m.positive <= m.count
                    /\ m.average # None => m.average[2] = m.count
                    /\ \A rate \in {m.positive_rate, m.outperform_rate} :
                           m.count = 0 \/ rate[2] = m.count
    BY DEF RatesAreOfTheirHorizon
<1> DEFINE a == stim_select_outcomes_summary(q)
<1>1. PICK v \in DOMAIN Loads :
         LET summary == compute_summary_record(Loads[v], q.exchange, q.limit) IN
         a.outcomes = StoredOutcomes(summary) /\ a.horizons = summary.horizons
    BY StoredAnswers
<1> DEFINE latest == latest_mature_outcome_date(Loads[v])
           rows == WithinRank(base_where(Loads[v], q.exchange, latest - Window, latest), q.limit)
           m == a.horizons[h]
<1>2. a.outcomes.count = Cardinality(rows) /\ m = HorizonOf(rows, h)
    BY <1>1 DEF compute_summary_record, StoredOutcomes
<1>3. IsFiniteSet(rows)
    BY OutcomesAreFinite
<1> HIDE DEF rows, m, a
<1> DEFINE whole == With(rows, h)
           positive == {o \in whole : o.realised[h] > 0}
<1>4. /\ IsFiniteSet(whole) /\ Cardinality(whole) <= Cardinality(rows)
      /\ Cardinality(whole) \in Nat
    BY <1>3, FS_Subset, FS_CardinalityType DEF With
<1>5. Cardinality(positive) <= Cardinality(whole)
    BY <1>4, FS_Subset
<1>6. /\ m.count = Cardinality(whole) /\ m.positive = Cardinality(positive)
      /\ m.average = Average(rows, h)
      /\ \A rate \in {m.positive_rate, m.outperform_rate} :
             \E part : rate = Rate(part, Cardinality(whole))
    BY <1>2 DEF HorizonOf, HorizonCount
<1> HIDE DEF positive
<1>7. m.average # None => m.average[2] = m.count
    BY <1>6 DEF Average
<1>8. \A rate \in {m.positive_rate, m.outperform_rate} : m.count = 0 \/ rate[2] = m.count
    <2> SUFFICES ASSUME NEW rate \in {m.positive_rate, m.outperform_rate}, Cardinality(whole) # 0
                 PROVE  rate[2] = Cardinality(whole)
        BY <1>6
    <2>1. PICK part : rate = Rate(part, Cardinality(whole))
        BY <1>6
    <2>2. ~(Cardinality(whole) <= 0)
        BY <1>4
    <2> QED BY <2>1, <2>2 DEF Rate
<1> HIDE DEF whole
<1> QED BY <1>2, <1>4, <1>5, <1>6, <1>7, <1>8 DEF a, m

\* The live aggregate over a row's window counts the outcomes the row was made of.
LEMMA ImplementationsAgree == Inv => LiveAgreesWithTheRow
<1> SUFFICES ASSUME Inv, NEW q \in Requests,
                    stim_select_outcomes_summary(q).status = 200,
                    stim_select_outcomes_summary(q).horizons # None,
                    Stored(q).generated = loaded
             PROVE  LET stored == stim_select_outcomes_summary(q) IN
                    stim_select_outcomes_summary(
                        [q EXCEPT !.start = stored.start, !.end = stored.end]).outcomes
                    = stored.outcomes
    BY DEF LiveAgreesWithTheRow
<1> DEFINE stored == stim_select_outcomes_summary(q)
           latest == latest_mature_outcome_date(Loads[loaded])
           summary == compute_summary_record(Loads[loaded], q.exchange, q.limit)
<1>1. /\ loaded \in DOMAIN Loads /\ HasMature[loaded] /\ q.exchange \in Exchange \cup {None}
      /\ stored.start = summary.start /\ stored.end = summary.end
      /\ stored.outcomes = StoredOutcomes(summary)
    <2>1. loaded \in Nat
        BY OutcomeAssumption DEF Inv, TypeInv, TypeOK
    <2>2. \A v \in loaded .. loaded : v = loaded
        BY <2>1
    <2> QED BY <2>2, StoredAnswers
<1> DEFINE live == [q EXCEPT !.start = stored.start, !.end = stored.end]
           rows == WithinRank(base_where(Loads[loaded], q.exchange, latest - Window, latest), q.limit)
<1>2. stored.start = latest - Window /\ stored.end = latest
    BY <1>1 DEF compute_summary_record
<1>3. latest \in Nat /\ latest - Window \in Int /\ latest - Window <= latest
    BY <1>1, WindowIsADate
<1> HIDE DEF latest, stored
<1>4. /\ live.start = latest - Window /\ live.end = latest
      /\ live.exchange = q.exchange /\ live.limit = q.limit
    <2>1. q \in [start: Nat \cup {None}, end: Nat \cup {None},
                 exchange: STRING \cup {None}, limit: Nat \cup {None}]
        BY DataAssumption
    <2> QED BY <1>2, <2>1
<1> HIDE DEF live
<1>5. live.start # None /\ live.end # None /\ ~InvertedDates(live)
    BY <1>3, <1>4, OutcomeAssumption DEF InvertedDates
<1>6. stim_select_outcomes_summary(live).outcomes = LiveOutcomes(Loads[loaded], live)
    BY <1>1, <1>4, <1>5 DEF stim_select_outcomes_summary
<1>7. With(rows, "13w") = rows
    BY <1>1, OutcomesAreFinite
<1>8. summary.count = Cardinality(rows) /\ summary.first = FirstWeek(rows)
      /\ summary.last = LastWeek(rows) /\ summary.horizons["13w"] = HorizonOf(rows, "13w")
    BY DEF compute_summary_record, Horizon, latest
<1> HIDE DEF rows, summary
<1>9. StoredOutcomes(summary) =
        LET h == HorizonOf(rows, "13w") IN
        [count |-> Cardinality(rows), first |-> FirstWeek(rows), last |-> LastWeek(rows),
         average |-> h.average, median |-> h.median,
         positive |-> h.positive, positive_rate |-> h.positive_rate,
         outperform |-> h.outperform, outperform_rate |-> h.outperform_rate]
    BY <1>8 DEF StoredOutcomes
<1> DEFINE positive == Cardinality({o \in rows : o.realised["13w"] > 0})
           outperform == Cardinality({o \in rows : o.realised["13w"] > Base["13w"]})
           n == Cardinality(rows)
<1>10. HorizonOf(rows, "13w") =
         [count |-> n, average |-> Average(rows, "13w"), median |-> Median(rows, "13w"),
          positive |-> positive, positive_rate |-> Rate(positive, n),
          outperform |-> outperform, outperform_rate |-> Rate(outperform, n)]
    BY <1>7 DEF HorizonOf, HorizonCount
<1>11. LiveOutcomes(Loads[loaded], live) =
         [count |-> n, first |-> FirstWeek(rows), last |-> LastWeek(rows),
          average |-> Average(rows, "13w"), median |-> Median(rows, "13w"),
          positive |-> positive, positive_rate |-> Rate(positive, n),
          outperform |-> outperform, outperform_rate |-> Rate(outperform, n)]
    BY <1>4 DEF LiveOutcomes, LiveRank, rows
<1> HIDE DEF positive, outperform, n
<1>12. StoredOutcomes(summary) = LiveOutcomes(Loads[loaded], live)
    BY <1>9, <1>10, <1>11 DEF n
<1> QED BY <1>1, <1>6, <1>12 DEF live, stored

\* Whatever is asked, each rate of an answer is over the outcomes of its horizon, and the stored
\* row and the live query tell the same of the same window as long as nothing was loaded since.
THEOREM AnswersAgreeAlways == Spec => []AnswersAgree
<1>1. Inv => AnswersAgree
    BY RatesAgree, ImplementationsAgree DEF AnswersAgree
<1> QED BY <1>1, Invariance, PTL
=============================================================================
