---------------------------- MODULE NodeKeysProofs ----------------------------
(***************************************************************************)
(* Theorems about NodeKeys for every community of nodes, every set of keys *)
(* and any number of starts, rotations, crashes and envelopes.             *)
(***************************************************************************)
EXTENDS NodeKeys, TLAPS

USE NoKeyAssumption, NodesAssumption, BootsAssumption

\* A call that writes files has a node and a key; one that does not has neither.
TaskBusy(t) == task[t].at \in Nodes /\ task[t].key \in Keys /\ task[t].step # "idle"

\* A process that runs has been started, and a partner's key comes with the start it
\* was published in.
Lives ==
    /\ \A t \in Tasks : task[t] = IdleTask \/ TaskBusy(t)
    /\ \A n \in Nodes : Up(n) => boots[n] \in 1 .. MaxBoots
    /\ \A n, m \in Nodes : trusted[n][m] # NoKey <=> learned[n][m] \in 1 .. MaxBoots

Typed == TypeOK /\ Lives

\* The part of Typed that speaks of trading_partners.
Rows ==
    /\ trusted \in [Nodes -> [Nodes -> Keys \cup {NoKey}]]
    /\ learned \in [Nodes -> [Nodes -> 0 .. MaxBoots]]
    /\ \A n, m \in Nodes : trusted[n][m] # NoKey <=> learned[n][m] \in 1 .. MaxBoots

LEMMA TypedInit == Init => Typed
  BY DEF Init, Typed, TypeOK, Lives, Up, IdleTask, Steps, Content

\* Every step of a call keeps the tasks in order.
LEMMA TaskStep ==
    ASSUME Typed, NEW t \in Tasks, TaskBusy(t), NEW step \in Steps \ {"idle"}, Goto(t, step)
    PROVE  /\ task' \in [Tasks -> [at : Nodes \cup {"nowhere"}, key : Keys \cup {NoKey},
                                   step : Steps]]
           /\ \A u \in Tasks : task'[u] = IdleTask \/ TaskBusy(u)'
           /\ task'[t].at = task[t].at /\ task'[t].key = task[t].key /\ task'[t].step = step
           /\ \A u \in Tasks : u # t => task'[u] = task[u]
  <1> DEFINE new == [task[t] EXCEPT !.step = step]
  <1>0. task[t] \in [at : Nodes \cup {"nowhere"}, key : Keys \cup {NoKey}, step : Steps]
    BY DEF Typed, TypeOK
  <1>1. /\ new \in [at : Nodes \cup {"nowhere"}, key : Keys \cup {NoKey}, step : Steps]
        /\ new.at = task[t].at /\ new.key = task[t].key /\ new.step = step
    BY <1>0
  <1>2. task' = [task EXCEPT ![t] = new]
    BY DEF Goto, Typed, TypeOK
  <1> HIDE DEF new
  <1>3. task'[t] = new /\ \A u \in Tasks : u # t => task'[u] = task[u]
    BY <1>2 DEF Typed, TypeOK
  <1> QED
    BY <1>1, <1>2, <1>3 DEF Typed, TypeOK, Lives, TaskBusy

LEMMA TaskEnd ==
    ASSUME Typed, NEW t \in Tasks, task' = [task EXCEPT ![t] = IdleTask]
    PROVE  /\ task' \in [Tasks -> [at : Nodes \cup {"nowhere"}, key : Keys \cup {NoKey},
                                   step : Steps]]
           /\ \A u \in Tasks : task'[u] = IdleTask \/ TaskBusy(u)'
           /\ task'[t] = IdleTask /\ \A u \in Tasks : u # t => task'[u] = task[u]
  <1>1. IdleTask \in [at : Nodes \cup {"nowhere"}, key : Keys \cup {NoKey}, step : Steps]
    BY DEF IdleTask, Steps
  <1> QED
    BY <1>1 DEF Typed, TypeOK, Lives, TaskBusy

LEMMA Busy ==
    ASSUME Typed, NEW t \in Tasks, task[t].step # "idle"
    PROVE  TaskBusy(t)
  BY DEF Typed, Lives, IdleTask

\* Setting one entry of a table of tables.
Table(S) == [Nodes -> [Nodes -> S]]
Put(t, n, m, v) == [t EXCEPT ![n][m] = v]

LEMMA EntrySet ==
    ASSUME NEW S, NEW t \in Table(S), NEW n \in Nodes, NEW m \in Nodes, NEW v \in S
    PROVE  /\ Put(t, n, m, v) \in Table(S)
           /\ Put(t, n, m, v)[n][m] = v
           /\ \A x, y \in Nodes : x # n \/ y # m => Put(t, n, m, v)[x][y] = t[x][y]
  <1> DEFINE u == Put(t, n, m, v)
  <1>1. u = [t EXCEPT ![n] = [t[n] EXCEPT ![m] = v]]
    BY DEF Put, Table
  <1>2. [t[n] EXCEPT ![m] = v] \in [Nodes -> S]
    BY DEF Table
  <1> HIDE DEF u
  <1>3. u[n] = [t[n] EXCEPT ![m] = v] /\ \A x \in Nodes : x # n => u[x] = t[x]
    BY <1>1 DEF Table
  <1>4. /\ u \in Table(S) /\ u[n][m] = v
        /\ \A x, y \in Nodes : x # n \/ y # m => u[x][y] = t[x][y]
    BY <1>1, <1>2, <1>3 DEF Table
  <1> QED
    BY <1>4 DEF u

\* What SavePartner and RemovePartner do to the rows of the partners.
PutRow(n, m, k, b) == trusted' = Put(trusted, n, m, k) /\ learned' = Put(learned, n, m, b)

LEMMA RowSet ==
    ASSUME Typed, NEW n \in Nodes, NEW m \in Nodes, NEW k \in Keys \cup {NoKey},
           NEW b \in 0 .. MaxBoots, PutRow(n, m, k, b)
    PROVE  /\ trusted' \in [Nodes -> [Nodes -> Keys \cup {NoKey}]]
           /\ learned' \in [Nodes -> [Nodes -> 0 .. MaxBoots]]
           /\ trusted'[n][m] = k /\ learned'[n][m] = b
           /\ \A x, y \in Nodes : x # n \/ y # m =>
                 trusted'[x][y] = trusted[x][y] /\ learned'[x][y] = learned[x][y]
  <1>1. trusted' = Put(trusted, n, m, k) /\ learned' = Put(learned, n, m, b)
    BY DEF PutRow
  <1>2. trusted \in Table(Keys \cup {NoKey}) /\ learned \in Table(0 .. MaxBoots)
    BY DEF Typed, TypeOK, Table
  <1>3. /\ Put(trusted, n, m, k) \in Table(Keys \cup {NoKey})
        /\ Put(trusted, n, m, k)[n][m] = k
        /\ \A x, y \in Nodes : x # n \/ y # m => Put(trusted, n, m, k)[x][y] = trusted[x][y]
    BY <1>2, EntrySet
  <1>4. /\ Put(learned, n, m, b) \in Table(0 .. MaxBoots)
        /\ Put(learned, n, m, b)[n][m] = b
        /\ \A x, y \in Nodes : x # n \/ y # m => Put(learned, n, m, b)[x][y] = learned[x][y]
    BY <1>2, EntrySet
  <1> QED
    BY <1>1, <1>3, <1>4 DEF Table

\* Keys and starts set together leave Rows true.
LEMMA RowsKept ==
    ASSUME Typed, NEW n \in Nodes, NEW m \in Nodes, NEW k \in Keys \cup {NoKey},
           NEW b \in 0 .. MaxBoots, k # NoKey <=> b \in 1 .. MaxBoots, PutRow(n, m, k, b)
    PROVE  Rows'
  <1>1. /\ trusted' \in [Nodes -> [Nodes -> Keys \cup {NoKey}]]
        /\ learned' \in [Nodes -> [Nodes -> 0 .. MaxBoots]]
        /\ trusted'[n][m] = k /\ learned'[n][m] = b
        /\ \A x, y \in Nodes : x # n \/ y # m =>
              trusted'[x][y] = trusted[x][y] /\ learned'[x][y] = learned[x][y]
    BY RowSet
  <1>2. \A x, y \in Nodes : trusted[x][y] # NoKey <=> learned[x][y] \in 1 .. MaxBoots
    BY DEF Typed, Lives
  <1>3. ASSUME NEW x \in Nodes, NEW y \in Nodes
        PROVE  trusted'[x][y] # NoKey <=> learned'[x][y] \in 1 .. MaxBoots
    <2>1. CASE x = n /\ y = m
      BY <1>1, <2>1
    <2>2. CASE x # n \/ y # m
      <3>1. trusted'[x][y] = trusted[x][y] /\ learned'[x][y] = learned[x][y]
        BY <1>1, <2>2
      <3> QED
        BY <1>2, <3>1
    <2> QED
      BY <2>1, <2>2
  <1> QED
    BY <1>1, <1>3 DEF Rows

LEMMA TypedNext == Typed /\ [Next]_vars => Typed'
  <1> SUFFICES ASSUME Typed, [Next]_vars PROVE Typed'
    OBVIOUS
  <1>1. ASSUME NEW t \in Tasks, NEW n \in Nodes, Generate(t, n)
        PROVE  Typed'
    <2>1. PICK k \in Keys : /\ used' = used \cup {k}
                            /\ task' = [task EXCEPT ![t] = [at |-> n, key |-> k,
                                                            step |-> "openPrivate"]]
      BY <1>1 DEF Generate
    <2>2. task' \in [Tasks -> [at : Nodes \cup {"nowhere"}, key : Keys \cup {NoKey}, step : Steps]]
      BY <2>1 DEF Typed, TypeOK, Steps
    <2>3. \A u \in Tasks : task'[u] = IdleTask \/ TaskBusy(u)'
      BY <2>1 DEF Typed, TypeOK, Lives, TaskBusy
    <2>4. used' \subseteq Keys /\ spoilt' \subseteq Nodes
      BY <1>1, <2>1 DEF Generate, Typed, TypeOK
    <2> QED
      BY <1>1, <2>2, <2>3, <2>4 DEF Generate, Typed, TypeOK, Lives, Up, trustVars
  <1>2. ASSUME NEW t \in Tasks, WritePrivate(t)
        PROVE  Typed'
    <2>1. TaskBusy(t)
      BY <1>2, Busy DEF WritePrivate
    <2>2. /\ task' \in [Tasks -> [at : Nodes \cup {"nowhere"}, key : Keys \cup {NoKey}, step : Steps]]
          /\ \A u \in Tasks : task'[u] = IdleTask \/ TaskBusy(u)'
      BY <1>2, <2>1, TaskStep DEF WritePrivate, Steps
    <2>3. private' \in [Nodes -> Content]
      BY <1>2, <2>1 DEF WritePrivate, TaskBusy, Typed, TypeOK, Content
    <2> QED
      BY <1>2, <2>2, <2>3 DEF WritePrivate, Typed, TypeOK, Lives, Up, trustVars
  <1>3. ASSUME NEW t \in Tasks, WritePublic(t)
        PROVE  Typed'
    <2>1. TaskBusy(t)
      BY <1>3, Busy DEF WritePublic
    <2>2. /\ task' \in [Tasks -> [at : Nodes \cup {"nowhere"}, key : Keys \cup {NoKey}, step : Steps]]
          /\ \A u \in Tasks : task'[u] = IdleTask \/ TaskBusy(u)'
      <3>1. CASE Goto(t, "writePublic")
        BY <2>1, <3>1, TaskStep DEF Steps
      <3>2. CASE task' = [task EXCEPT ![t] = IdleTask]
        BY <3>2, TaskEnd
      <3> QED
        BY <1>3, <3>1, <3>2 DEF WritePublic
    <2>3. public' \in [Nodes -> Content]
      BY <1>3, <2>1 DEF WritePublic, TaskBusy, Typed, TypeOK, Content
    <2> QED
      BY <1>3, <2>2, <2>3 DEF WritePublic, Typed, TypeOK, Lives, Up, trustVars
  <1>4. ASSUME NEW t \in Tasks, WriteFails(t)
        PROVE  Typed'
    <2>1. TaskBusy(t)
      BY <1>4, Busy DEF WriteFails
    <2>2. /\ task' \in [Tasks -> [at : Nodes \cup {"nowhere"}, key : Keys \cup {NoKey}, step : Steps]]
          /\ \A u \in Tasks : task'[u] = IdleTask \/ TaskBusy(u)'
      BY <1>4, TaskEnd DEF WriteFails
    <2>3. spoilt' \subseteq Nodes /\ faults' \in 0 .. MaxFaults
      BY <1>4, <2>1 DEF WriteFails, TaskBusy, Typed, TypeOK
    <2> QED
      BY <1>4, <2>2, <2>3 DEF WriteFails, Typed, TypeOK, Lives, Up, trustVars
  <1>5. ASSUME NEW n \in Nodes, Boot(n)
        PROVE  Typed'
    <2>1. /\ boots' = [boots EXCEPT ![n] = boots[n] + 1] /\ boots[n] \in 0 .. MaxBoots
          /\ boots[n] < MaxBoots /\ engine' = [engine EXCEPT ![n] = private[n]]
          /\ private[n] \in Keys
      BY <1>5 DEF Boot, Loadable, Typed, TypeOK
    <2>2. boots' \in [Nodes -> 0 .. MaxBoots] /\ engine' \in [Nodes -> Keys \cup {NoKey}]
      BY <2>1 DEF Typed, TypeOK
    <2>3. \A m \in Nodes : Up(m)' => boots'[m] \in 1 .. MaxBoots
      BY <2>1 DEF Typed, TypeOK, Lives, Up
    <2> QED
      BY <1>5, <2>2, <2>3 DEF Boot, Typed, TypeOK, Lives, TaskBusy, fileVars, trustVars
  <1>6. ASSUME NEW n \in Nodes, Stop(n)
        PROVE  Typed'
    <2>1. /\ engine' = [engine EXCEPT ![n] = NoKey]
          /\ task' = [t \in Tasks |-> IF t \in Writing(n) THEN IdleTask ELSE task[t]]
          /\ fetched' \subseteq fetched
      BY <1>6 DEF Stop
    <2>2. /\ task' \in [Tasks -> [at : Nodes \cup {"nowhere"}, key : Keys \cup {NoKey}, step : Steps]]
          /\ \A u \in Tasks : task'[u] = IdleTask \/ TaskBusy(u)'
      BY <2>1 DEF Typed, TypeOK, Lives, TaskBusy, IdleTask, Steps
    <2>3. spoilt' \subseteq Nodes /\ faults' \in 0 .. MaxFaults
      BY <1>6 DEF Stop, Typed, TypeOK
    <2>4. engine' \in [Nodes -> Keys \cup {NoKey}] /\ \A m \in Nodes : Up(m)' => Up(m)
      BY <2>1 DEF Typed, TypeOK, Up
    <2> QED
      BY <1>6, <2>1, <2>2, <2>3, <2>4 DEF Stop, Typed, TypeOK, Lives
  <1>7. ASSUME NEW n \in Nodes, NEW m \in Nodes, FetchKeys(n, m)
        PROVE  Typed'
    <2>1. engine[m] \in Keys /\ boots[m] \in 1 .. MaxBoots
      BY <1>7 DEF FetchKeys, Discoverable, Up, Typed, TypeOK, Lives
    <2>2. fetched' \subseteq (Nodes \X Nodes \X Keys \X (1 .. MaxBoots))
      BY <1>7, <2>1 DEF FetchKeys, FetchAndCachePartnerKeys, ExportJWKS, Typed, TypeOK
    <2> QED
      BY <1>7, <2>2 DEF FetchKeys, Typed, TypeOK, Lives, Up, TaskBusy, fileVars
  <1>8. ASSUME NEW f \in fetched, SavePartner(f)
        PROVE  Typed'
    <2>1. f[1] \in Nodes /\ f[2] \in Nodes /\ f[3] \in Keys /\ f[4] \in 1 .. MaxBoots
      BY DEF Typed, TypeOK
    <2>2. ASSUME PutRow(f[1], f[2], f[3], f[4])
          PROVE  Rows'
      <3>1. /\ f[3] \in Keys \cup {NoKey} /\ f[4] \in 0 .. MaxBoots
            /\ f[3] # NoKey <=> f[4] \in 1 .. MaxBoots
        BY <2>1
      <3> QED
        BY <2>1, <2>2, <3>1, RowsKept
    <2>3. CASE UNCHANGED <<trusted, learned>>
      BY <2>3, <1>8, <2>1 DEF SavePartner, Typed, TypeOK, Lives, Up, TaskBusy, fileVars
    <2>4. \/ Rows'
          \/ UNCHANGED <<trusted, learned>>
      BY <1>8, <2>2 DEF SavePartner, PutRow, Put
    <2> QED
      BY <1>8, <2>3, <2>4 DEF Rows, SavePartner, Typed, TypeOK, Lives, Up, TaskBusy, fileVars
  <1>9. ASSUME NEW n \in Nodes, NEW m \in Nodes, RemovePartner(n, m)
        PROVE  Typed'
    <2>1. PutRow(n, m, NoKey, 0)
      BY <1>9 DEF RemovePartner, PutRow, Put
    <2>2. 0 \in 0 .. MaxBoots /\ 0 \notin 1 .. MaxBoots
      OBVIOUS
    <2>3. Rows'
      BY <2>1, <2>2, RowsKept
    <2> QED
      BY <1>9, <2>3 DEF Rows, RemovePartner, Typed, TypeOK, Lives, Up, TaskBusy, fileVars
  <1>10. ASSUME NEW n \in Nodes, NEW m \in Nodes, Send(n, m)
         PROVE  Typed'
    <2>1. /\ trusted[n][m] \in Keys /\ engine[n] \in Keys
          /\ boots[n] \in 1 .. MaxBoots /\ learned[n][m] \in 1 .. MaxBoots
      BY <1>10 DEF Send, KeyOf, Up, Typed, TypeOK, Lives
    <2>2. SignAndEncrypt(n, m) \in [from : Nodes, to : Nodes, lock : Keys, seal : Keys,
                                    made : 1 .. MaxBoots, aimed : 1 .. MaxBoots]
      BY <2>1 DEF SignAndEncrypt, KeyOf
    <2> QED
      BY <1>10, <2>2 DEF Send, Typed, TypeOK, Lives, Up, TaskBusy, fileVars, trustVars
  <1>11. ASSUME NEW e \in mail, Arrive(e)
         PROVE  Typed'
    BY <1>11 DEF Arrive, Typed, TypeOK, Lives, Up, TaskBusy, fileVars, trustVars
  <1>12. CASE UNCHANGED vars
    BY <1>12 DEF vars, Typed, TypeOK, Lives, Up, TaskBusy, fileVars, trustVars
  <1> QED
    BY <1>1, <1>2, <1>3, <1>4, <1>5, <1>6, <1>7, <1>8, <1>9, <1>10, <1>11, <1>12
    DEF Next, Operators, Files

\* Files, engines, rows, envelopes and history keep their types.
THEOREM TypeCorrect == Spec => []TypeOK
  <1>1. Typed => TypeOK
    BY DEF Typed
  <1> QED
    BY <1>1, TypedInit, TypedNext, PTL DEF Spec
-----------------------------------------------------------------------------
(***************************************************************************)
(* The files.  FilesMatchUnlessSpoilt speaks of nodes nothing writes at;   *)
(* while something does, the one call that may be writing has to have got  *)
(* the private file right before it turns to the public one.               *)
(***************************************************************************)
InOrder(n) ==
    /\ \A t, u \in Tasks : task[t].at = n /\ task[u].at = n => t = u
    /\ (\A t \in Tasks : task[t].at # n) => private[n] = public[n]
    /\ \A t \in Tasks :
          task[t].at = n /\ task[t].step \in {"openPublic", "writePublic"}
          => private[n] = task[t].key

Ordered == \A n \in Nodes : n \notin spoilt => InOrder(n)

LEMMA OrderedInit == Init => Ordered
  BY DEF Init, Ordered, InOrder, IdleTask

LEMMA OrderedNext == Typed /\ Ordered /\ [Next]_vars => Ordered'
  <1> SUFFICES ASSUME Typed, Ordered, [Next]_vars, NEW x \in Nodes, x \notin spoilt'
               PROVE  InOrder(x)'
    BY DEF Ordered
  <1>1. ASSUME NEW t \in Tasks, NEW n \in Nodes, Generate(t, n)
        PROVE  InOrder(x)'
    <2>1. PICK k \in Keys : task' = [task EXCEPT ![t] = [at |-> n, key |-> k,
                                                        step |-> "openPrivate"]]
      BY <1>1 DEF Generate
    <2>2. /\ task'[t] = [at |-> n, key |-> k, step |-> "openPrivate"]
          /\ \A u \in Tasks : u # t => task'[u] = task[u]
      BY <2>1 DEF Typed, TypeOK
    <2>3. /\ task[t].at = "nowhere" /\ x \notin spoilt
          /\ private' = private /\ public' = public
          /\ x = n => \A u \in Tasks : task[u].at # n
      BY <1>1 DEF Generate, IdleTask, Writing
    <2>4. InOrder(x)
      BY <2>3 DEF Ordered
    <2>5. CASE x = n
      BY <2>2, <2>3, <2>5 DEF InOrder
    <2>6. CASE x # n
      <3>1. \A u \in Tasks : task'[u].at = x <=> task[u].at = x
        BY <2>2, <2>3, <2>6
      <3>2. \A u \in Tasks : task[u].at = x => task'[u] = task[u]
        BY <2>2, <2>3
      <3> QED
        BY <2>3, <2>4, <3>1, <3>2 DEF InOrder
    <2> QED
      BY <2>5, <2>6
  <1>2. ASSUME NEW t \in Tasks, WritePrivate(t)
        PROVE  InOrder(x)'
    <2>1. TaskBusy(t) /\ x \notin spoilt /\ public' = public
      BY <1>2, Busy DEF WritePrivate
    <2>2. InOrder(x)
      BY <2>1 DEF Ordered
    <2>3. PICK step \in {"writePrivate", "openPublic"} :
             /\ Goto(t, step)
             /\ step = "openPublic" => private' = [private EXCEPT ![task[t].at] = task[t].key]
             /\ step = "writePrivate" => private' = [private EXCEPT ![task[t].at] = "torn"]
      BY <1>2 DEF WritePrivate
    <2>4. /\ task'[t].at = task[t].at /\ task'[t].key = task[t].key /\ task'[t].step = step
          /\ \A u \in Tasks : u # t => task'[u] = task[u]
      BY <2>1, <2>3, TaskStep DEF Steps
    <2>5. CASE task[t].at = x
      <3>1. \A u \in Tasks : task'[u].at = x <=> u = t
        BY <2>2, <2>4, <2>5 DEF InOrder
      <3>2. step = "openPublic" => private'[x] = task'[t].key
        BY <2>3, <2>4, <2>5 DEF Typed, TypeOK
      <3> QED
        BY <2>3, <2>4, <3>1, <3>2 DEF InOrder
    <2>6. CASE task[t].at # x
      <3>1. \A u \in Tasks : task'[u].at = x <=> task[u].at = x
        BY <2>4, <2>6
      <3>2. \A u \in Tasks : task[u].at = x => task'[u] = task[u]
        BY <2>4, <2>6
      <3>3. private'[x] = private[x]
        BY <2>3, <2>6 DEF Typed, TypeOK
      <3> QED
        BY <2>1, <2>2, <3>1, <3>2, <3>3 DEF InOrder
    <2> QED
      BY <2>5, <2>6
  <1>3. ASSUME NEW t \in Tasks, WritePublic(t)
        PROVE  InOrder(x)'
    <2>1. /\ TaskBusy(t) /\ x \notin spoilt /\ private' = private
          /\ task[t].step \in {"openPublic", "writePublic"}
      BY <1>3, Busy DEF WritePublic
    <2>2. InOrder(x)
      BY <2>1 DEF Ordered
    <2>3. /\ \A u \in Tasks : u # t => task'[u] = task[u]
          /\ \/ /\ task'[t].at = task[t].at /\ task'[t].key = task[t].key
                /\ public' = [public EXCEPT ![task[t].at] = "torn"]
             \/ /\ task'[t].at = "nowhere"
                /\ public' = [public EXCEPT ![task[t].at] = task[t].key]
      <3>1. CASE Goto(t, "writePublic") /\ public' = [public EXCEPT ![task[t].at] = "torn"]
        BY <2>1, <3>1, TaskStep DEF Steps
      <3>2. CASE /\ task' = [task EXCEPT ![t] = IdleTask]
                 /\ public' = [public EXCEPT ![task[t].at] = task[t].key]
        BY <3>2, TaskEnd DEF IdleTask
      <3> QED
        BY <1>3, <3>1, <3>2 DEF WritePublic
    <2>4. CASE task[t].at = x
      <3>1. private[x] = task[t].key /\ \A u \in Tasks : u # t => task'[u].at # x
        BY <2>1, <2>2, <2>3, <2>4 DEF InOrder
      <3>2. task'[t].at # x => public'[x] = private'[x]
        BY <2>1, <2>3, <2>4, <3>1 DEF Typed, TypeOK
      <3>3. task'[t].at = x => task'[t].key = private'[x]
        BY <2>1, <2>3, <2>4, <3>1
      <3> QED
        BY <3>1, <3>2, <3>3 DEF InOrder
    <2>5. CASE task[t].at # x
      <3>1. \A u \in Tasks : task'[u].at = x <=> task[u].at = x
        BY <2>3, <2>5
      <3>2. \A u \in Tasks : task[u].at = x => task'[u] = task[u]
        BY <2>3, <2>5
      <3>3. public'[x] = public[x]
        BY <2>3, <2>5 DEF Typed, TypeOK
      <3> QED
        BY <2>1, <2>2, <3>1, <3>2, <3>3 DEF InOrder
    <2> QED
      BY <2>4, <2>5
  <1>4. ASSUME NEW t \in Tasks, WriteFails(t)
        PROVE  InOrder(x)'
    <2>1. /\ x \notin spoilt /\ x # task[t].at /\ private' = private /\ public' = public
          /\ task'[t].at = "nowhere" /\ \A u \in Tasks : u # t => task'[u] = task[u]
      BY <1>4, TaskEnd DEF WriteFails, IdleTask
    <2>2. InOrder(x)
      BY <2>1 DEF Ordered
    <2>3. /\ \A u \in Tasks : task'[u].at = x <=> task[u].at = x
          /\ \A u \in Tasks : task[u].at = x => task'[u] = task[u]
      BY <2>1
    <2> QED
      BY <2>1, <2>2, <2>3 DEF InOrder
  <1>5. ASSUME NEW n \in Nodes, Stop(n)
        PROVE  InOrder(x)'
    <2>1. /\ x \notin spoilt /\ private' = private /\ public' = public
          /\ \A u \in Tasks : task'[u] = IF task[u].at = n THEN IdleTask ELSE task[u]
          /\ x = n => \A u \in Tasks : task[u].at # n
      BY <1>5 DEF Stop, Writing
    <2>2. InOrder(x)
      BY <2>1 DEF Ordered
    <2>3. /\ \A u \in Tasks : task'[u].at = x <=> task[u].at = x
          /\ \A u \in Tasks : task[u].at = x => task'[u] = task[u]
      BY <2>1 DEF IdleTask
    <2> QED
      BY <2>1, <2>2, <2>3 DEF InOrder
  <1>6. CASE UNCHANGED fileVars
    BY <1>6 DEF fileVars, Ordered, InOrder
  <1> QED
    BY <1>1, <1>2, <1>3, <1>4, <1>5, <1>6
    DEF Next, Operators, Files, Boot, FetchKeys, SavePartner, RemovePartner, Send, Arrive, vars

\* After any number of rotations the two files of a node are a pair once no call is
\* writing, unless a write was cut off or two calls overlapped there.
THEOREM FilesArePairs == Spec => []FilesMatchUnlessSpoilt
  <1>1. Typed /\ Ordered => FilesMatchUnlessSpoilt
    BY DEF Ordered, InOrder, FilesMatchUnlessSpoilt, Writing, Pair
  <1> QED
    BY <1>1, TypedInit, TypedNext, OrderedInit, OrderedNext, PTL DEF Spec
-----------------------------------------------------------------------------
(***************************************************************************)
(* The engines.  Whoever has a key of m has it from one of m's starts.     *)
(* Since only a start gives an engine a key, everybody who has a key of m  *)
(* from the same start has the same key, wherever it travelled meanwhile.  *)
(***************************************************************************)
Runs(m, k, b)    == Up(m) /\ engine[m] = k /\ boots[m] = b
Fetched(m, k, b) == \E f \in fetched : f[2] = m /\ f[3] = k /\ f[4] = b
Saved(m, k, b)   == \E n \in Nodes : trusted[n][m] = k /\ learned[n][m] = b
Aimed(m, k, b)   == \E e \in mail : e.to = m /\ e.lock = k /\ e.aimed = b
Signed(m, k, b)  == \E e \in mail : e.from = m /\ e.seal = k /\ e.made = b

Holds(m, k, b) ==
    Runs(m, k, b) \/ Fetched(m, k, b) \/ Saved(m, k, b) \/ Aimed(m, k, b) \/ Signed(m, k, b)

OneKeyPerLife ==
    \A m \in Nodes, k, l \in Keys, b \in 1 .. MaxBoots :
        /\ Holds(m, k, b) => b <= boots[m]
        /\ Holds(m, k, b) /\ Holds(m, l, b) => k = l

LEMMA OneKeyInit == Init => OneKeyPerLife
  BY DEF Init, OneKeyPerLife, Holds, Runs, Fetched, Saved, Aimed, Signed, Up

\* But for Boot no step brings a key to anybody who could not have had it before.
LEMMA NoNewHolders ==
    ASSUME Typed, [Next]_vars, \A n \in Nodes : ~Boot(n),
           NEW m \in Nodes, NEW k \in Keys, NEW b \in 1 .. MaxBoots, Holds(m, k, b)'
    PROVE  Holds(m, k, b) /\ boots' = boots
  <1>1. ASSUME NEW n \in Nodes, NEW p \in Nodes, FetchKeys(n, p)
        PROVE  Holds(m, k, b) /\ boots' = boots
    <2>1. /\ fetched' = fetched \cup {<<n, p, engine[p], boots[p]>>} /\ Up(p)
          /\ UNCHANGED <<trusted, learned, engine, mail, boots>>
      BY <1>1 DEF FetchKeys, FetchAndCachePartnerKeys, ExportJWKS, Discoverable
    <2>2. Fetched(m, k, b)' => Fetched(m, k, b) \/ Runs(m, k, b)
      BY <2>1 DEF Fetched, Runs
    <2>3. /\ Runs(m, k, b)' => Runs(m, k, b)
          /\ Saved(m, k, b)' => Saved(m, k, b)
          /\ Aimed(m, k, b)' => Aimed(m, k, b)
          /\ Signed(m, k, b)' => Signed(m, k, b)
      BY <2>1 DEF Runs, Saved, Aimed, Signed, Up
    <2> QED
      BY <2>1, <2>2, <2>3 DEF Holds
  <1>2. ASSUME NEW f \in fetched, SavePartner(f)
        PROVE  Holds(m, k, b) /\ boots' = boots
    <2>1. f[1] \in Nodes /\ f[2] \in Nodes /\ f[3] \in Keys /\ f[4] \in 1 .. MaxBoots
      BY DEF Typed, TypeOK
    <2>2. UNCHANGED <<engine, mail, boots>> /\ fetched' \subseteq fetched
      BY <1>2 DEF SavePartner
    <2>3. ASSUME PutRow(f[1], f[2], f[3], f[4]),
                 NEW n \in Nodes, trusted'[n][m] = k, learned'[n][m] = b
          PROVE  Saved(m, k, b) \/ Fetched(m, k, b)
      <3>1. f[3] \in Keys \cup {NoKey} /\ f[4] \in 0 .. MaxBoots
        BY <2>1
      <3>2. /\ trusted'[f[1]][f[2]] = f[3] /\ learned'[f[1]][f[2]] = f[4]
            /\ \A x, y \in Nodes : x # f[1] \/ y # f[2] =>
                  trusted'[x][y] = trusted[x][y] /\ learned'[x][y] = learned[x][y]
        BY <2>1, <2>3, <3>1, RowSet
      <3>3. CASE n = f[1] /\ m = f[2]
        BY <2>3, <3>2, <3>3 DEF Fetched
      <3>4. CASE n # f[1] \/ m # f[2]
        BY <2>3, <3>2, <3>4 DEF Saved
      <3> QED
        BY <3>3, <3>4
    <2>4. Saved(m, k, b)' => Saved(m, k, b) \/ Fetched(m, k, b)
      BY <1>2, <2>3 DEF SavePartner, Saved, PutRow, Put
    <2>5. /\ Runs(m, k, b)' => Runs(m, k, b)
          /\ Fetched(m, k, b)' => Fetched(m, k, b)
          /\ Aimed(m, k, b)' => Aimed(m, k, b)
          /\ Signed(m, k, b)' => Signed(m, k, b)
      BY <2>2 DEF Runs, Fetched, Aimed, Signed, Up
    <2> QED
      BY <2>2, <2>4, <2>5 DEF Holds
  <1>3. ASSUME NEW n \in Nodes, NEW p \in Nodes, RemovePartner(n, p)
        PROVE  Holds(m, k, b) /\ boots' = boots
    <2>1. UNCHANGED <<fetched, engine, mail, boots>>
      BY <1>3 DEF RemovePartner
    <2>2. PutRow(n, p, NoKey, 0)
      BY <1>3 DEF RemovePartner, PutRow, Put
    <2>3. 0 \in 0 .. MaxBoots
      OBVIOUS
    <2>4. /\ trusted'[n][p] = NoKey
          /\ \A x, y \in Nodes : x # n \/ y # p =>
                trusted'[x][y] = trusted[x][y] /\ learned'[x][y] = learned[x][y]
      BY <2>2, <2>3, RowSet
    <2>5. Saved(m, k, b)' => Saved(m, k, b)
      BY <2>4 DEF Saved
    <2>6. /\ Runs(m, k, b)' => Runs(m, k, b)
          /\ Fetched(m, k, b)' => Fetched(m, k, b)
          /\ Aimed(m, k, b)' => Aimed(m, k, b)
          /\ Signed(m, k, b)' => Signed(m, k, b)
      BY <2>1 DEF Runs, Fetched, Aimed, Signed, Up
    <2> QED
      BY <2>1, <2>5, <2>6 DEF Holds
  <1>4. ASSUME NEW n \in Nodes, NEW p \in Nodes, Send(n, p)
        PROVE  Holds(m, k, b) /\ boots' = boots
    <2> DEFINE new == SignAndEncrypt(n, p)
    <2>1. /\ mail' = mail \cup {new} /\ Up(n)
          /\ UNCHANGED <<fetched, trusted, learned, engine, boots>>
      BY <1>4 DEF Send, trustVars
    <2>2. /\ new.from = n /\ new.seal = engine[n] /\ new.made = boots[n]
          /\ new.to = p /\ new.lock = trusted[n][p] /\ new.aimed = learned[n][p]
      BY DEF SignAndEncrypt, KeyOf
    <2> HIDE DEF new
    <2>3. Aimed(m, k, b)' => Aimed(m, k, b) \/ Saved(m, k, b)
      BY <2>1, <2>2 DEF Aimed, Saved
    <2>4. Signed(m, k, b)' => Signed(m, k, b) \/ Runs(m, k, b)
      BY <2>1, <2>2 DEF Signed, Runs
    <2>5. /\ Runs(m, k, b)' => Runs(m, k, b)
          /\ Fetched(m, k, b)' => Fetched(m, k, b)
          /\ Saved(m, k, b)' => Saved(m, k, b)
      BY <2>1 DEF Runs, Fetched, Saved, Up
    <2> QED
      BY <2>1, <2>3, <2>4, <2>5 DEF Holds
  <1>5. ASSUME NEW n \in Nodes, Stop(n)
        PROVE  Holds(m, k, b) /\ boots' = boots
    <2>1. /\ engine' = [engine EXCEPT ![n] = NoKey] /\ fetched' \subseteq fetched
          /\ UNCHANGED <<trusted, learned, mail, boots>>
      BY <1>5 DEF Stop
    <2>2. Runs(m, k, b)' => Runs(m, k, b)
      BY <2>1 DEF Runs, Up, Typed, TypeOK
    <2>3. /\ Fetched(m, k, b)' => Fetched(m, k, b)
          /\ Saved(m, k, b)' => Saved(m, k, b)
          /\ Aimed(m, k, b)' => Aimed(m, k, b)
          /\ Signed(m, k, b)' => Signed(m, k, b)
      BY <2>1 DEF Fetched, Saved, Aimed, Signed
    <2> QED
      BY <2>1, <2>2, <2>3 DEF Holds
  <1>6. CASE UNCHANGED <<trustVars, engine, boots>> /\ mail' \subseteq mail
    <2>1. /\ Runs(m, k, b)' => Runs(m, k, b)
          /\ Fetched(m, k, b)' => Fetched(m, k, b)
          /\ Saved(m, k, b)' => Saved(m, k, b)
          /\ Aimed(m, k, b)' => Aimed(m, k, b)
          /\ Signed(m, k, b)' => Signed(m, k, b)
      BY <1>6 DEF Runs, Fetched, Saved, Aimed, Signed, Up, trustVars
    <2> QED
      BY <1>6, <2>1 DEF Holds
  <1> QED
    BY <1>1, <1>2, <1>3, <1>4, <1>5, <1>6
    DEF Next, Operators, Files, Generate, WritePrivate, WritePublic, WriteFails, Arrive,
        vars, trustVars

LEMMA OneKeyNext == Typed /\ OneKeyPerLife /\ [Next]_vars => OneKeyPerLife'
  <1> SUFFICES ASSUME Typed, OneKeyPerLife, [Next]_vars,
                      NEW m \in Nodes, NEW k \in Keys, NEW l \in Keys, NEW b \in 1 .. MaxBoots,
                      Holds(m, k, b)'
               PROVE  b <= boots'[m] /\ (Holds(m, l, b)' => k = l)
    BY DEF OneKeyPerLife
  <1>1. CASE \A n \in Nodes : ~Boot(n)
    BY <1>1, NoNewHolders DEF OneKeyPerLife
  <1>2. ASSUME NEW n \in Nodes, Boot(n)
        PROVE  b <= boots'[m] /\ (Holds(m, l, b)' => k = l)
    <2>1. /\ boots' = [boots EXCEPT ![n] = boots[n] + 1] /\ engine' = [engine EXCEPT ![n] = private[n]]
          /\ UNCHANGED <<trusted, learned, fetched, mail>> /\ boots[n] \in Nat
      BY <1>2 DEF Boot, trustVars, Typed, TypeOK
    <2>2. ASSUME NEW j \in Keys, Holds(m, j, b)'
          PROVE  \/ Holds(m, j, b) /\ (m # n \/ b # boots'[n])
                 \/ m = n /\ j = engine'[n] /\ b = boots'[n]
      <3>1. /\ Fetched(m, j, b)' => Fetched(m, j, b)
            /\ Saved(m, j, b)' => Saved(m, j, b)
            /\ Aimed(m, j, b)' => Aimed(m, j, b)
            /\ Signed(m, j, b)' => Signed(m, j, b)
        BY <2>1 DEF Fetched, Saved, Aimed, Signed
      <3>2. Runs(m, j, b)' => \/ Runs(m, j, b) /\ m # n
                              \/ m = n /\ j = engine'[n] /\ b = boots'[n]
        BY <2>1 DEF Runs, Up, Typed, TypeOK
      <3>3. Holds(m, j, b) => b <= boots[m]
        BY DEF OneKeyPerLife
      <3>4. m = n /\ Holds(m, j, b) => b # boots'[n]
        BY <2>1, <3>3 DEF Typed, TypeOK
      <3> QED
        BY <2>2, <3>1, <3>2, <3>4 DEF Holds
    <2>3. boots[m] <= boots'[m] /\ boots[m] \in Nat /\ boots'[m] \in Nat
      BY <2>1 DEF Typed, TypeOK
    <2>4. Holds(m, k, b) => b <= boots[m]
      BY DEF OneKeyPerLife
    <2>5. b <= boots'[m]
      BY <2>2, <2>3, <2>4
    <2>6. Holds(m, k, b) /\ Holds(m, l, b) => k = l
      BY DEF OneKeyPerLife
    <2> QED
      BY <2>2, <2>5, <2>6
  <1> QED
    BY <1>1, <1>2

\* An envelope under way can be opened as long as the receiver runs on since its keys
\* were fetched and its row of the sender is from the process that signed.
THEOREM EnvelopesOpen == Spec => []OpensWithinALife
  <1>1. ASSUME Typed, OneKeyPerLife, NEW e \in mail, Up(e.to), e.aimed = boots[e.to],
               e.made = learned[e.to][e.from]
        PROVE  DecryptAndVerify(e)
    <2>1. /\ e.to \in Nodes /\ e.from \in Nodes /\ e.lock \in Keys /\ e.seal \in Keys
          /\ e.made \in 1 .. MaxBoots /\ e.aimed \in 1 .. MaxBoots
      BY <1>1 DEF Typed, TypeOK
    <2>2. engine[e.to] \in Keys /\ trusted[e.to][e.from] \in Keys
      BY <1>1, <2>1 DEF Typed, TypeOK, Lives, Up
    <2>3. Holds(e.to, e.lock, e.aimed) /\ Holds(e.to, engine[e.to], e.aimed)
      BY <1>1 DEF Holds, Aimed, Runs
    <2>4. Holds(e.from, e.seal, e.made) /\ Holds(e.from, trusted[e.to][e.from], e.made)
      BY <1>1, <2>1 DEF Holds, Signed, Saved
    <2> QED
      BY <1>1, <2>1, <2>2, <2>3, <2>4 DEF OneKeyPerLife, DecryptAndVerify, KeyOf
  <1>2. Typed /\ OneKeyPerLife => OpensWithinALife
    BY <1>1 DEF OpensWithinALife
  <1> QED
    BY <1>2, TypedInit, TypedNext, OneKeyInit, OneKeyNext, PTL DEF Spec
=============================================================================
