----------------------------- MODULE StorageProofs -----------------------------
(***************************************************************************)
(* What holds of a file and the processes that share it, for any number of *)
(* processes, names and requests, and however many of them fail or die.    *)
(***************************************************************************)
EXTENDS Storage, SequenceTheorems, TLAPS

-----------------------------------------------------------------------------
(* Types. *)

Places == {"down", "exists", "info", "drop", "create",
           "ready", "prepare", "execute"}

Relating == {"find_related", "insert_related", "insert_relation"}
Creating == {"find_node", "insert_node", "insert_attribute"} \cup Relating
Reading == {"read_attributes", "read_relations"}

Holders == [references : Int, failed : BOOLEAN]

Contents == [TableNames -> [form : Forms, rows : Seq(Rows)]]

Jobs == [request : Requests, k : Nat, error : BOOLEAN,
         stage : Creating \cup Reading \cup {"finished"}]

\* A handler under way: its stage is one of its request's, and so is k.
InPlace(j) ==
  /\ j \in Jobs
  /\ j.stage # "finished"
  /\ j.stage \in Creating => j.request.type = "C"
  /\ j.stage \in Reading => j.request.type = "R"
  /\ j.stage = "insert_attribute" => j.k \in 1..Len(j.request.attributes)
  /\ j.stage \in Relating => j.k \in 1..Len(j.request.relations)

\* What a statement leaves: a handler under way, or one that is finished.
Ran(j) == j \in Jobs /\ (j.stage # "finished" => InPlace(j))

Working(p) == at[p] \in {"prepare", "execute"}

Typed ==
  /\ file \in Contents
  /\ found \in Contents
  /\ at \in [Processes -> Places]
  /\ table \in [Processes -> 1..3]
  /\ job \in [Processes -> Jobs \cup {NoJob}]
  /\ holder \in [Processes -> Holders]
  /\ \A p \in Processes : Working(p) => InPlace(job[p])

-----------------------------------------------------------------------------
(* Where a handler goes. *)

\* The fields of a create.
LEMMA CreateFields ==
  ASSUME NEW r \in Requests, r.type = "C"
  PROVE  /\ r.name \in Names
         /\ r.attributes \in Seq(Texts)
         /\ r.relations \in Seq(Names)
BY RequestsAssumption

\* Every request has a name.
LEMMA RequestNames == ASSUME NEW r \in Requests PROVE r.name \in Names
BY RequestsAssumption

\* The next relation, or the end.
LEMMA RelationPlaces ==
  ASSUME NEW j \in Jobs, j.request.type = "C", NEW k \in Nat \ {0}
  PROVE  /\ Ran(FromRelation(j, k))
         /\ FromRelation(j, k).request = j.request
         /\ FromRelation(j, k).error = j.error
         /\ \/ /\ k > Len(j.request.relations)
               /\ FromRelation(j, k).stage = "finished"
            \/ /\ k \in 1..Len(j.request.relations)
               /\ FromRelation(j, k).stage = "find_related"
               /\ FromRelation(j, k).k = k
<1>1. j.request.relations \in Seq(Names)
  BY CreateFields DEF Jobs
<1>2. CASE k > Len(j.request.relations)
  <2>1. FromRelation(j, k) = [j EXCEPT !.stage = "finished"]
    BY <1>2 DEF FromRelation, Finished
  <2>2. [j EXCEPT !.stage = "finished"] \in Jobs
    BY DEF Jobs
  <2>3. /\ FromRelation(j, k).request = j.request
        /\ FromRelation(j, k).error = j.error
        /\ FromRelation(j, k).stage = "finished"
    BY <2>1 DEF Jobs
  <2> QED
    BY <1>2, <2>1, <2>2, <2>3 DEF Ran
<1>3. CASE ~(k > Len(j.request.relations))
  <2> DEFINE n == [j EXCEPT !.stage = "find_related", !.k = k]
  <2>1. FromRelation(j, k) = n
    BY <1>3 DEF FromRelation
  <2>2. n.request = j.request /\ n.error = j.error
    BY DEF Jobs
  <2>3. n.stage = "find_related" /\ n.k = k
    BY DEF Jobs
  <2>4. n \in Jobs
    BY DEF Jobs, Creating, Relating
  <2>5. k \in 1..Len(j.request.relations)
    BY <1>1, <1>3
  <2> HIDE DEF n
  <2>6. InPlace(n)
    BY <2>2, <2>3, <2>4, <2>5 DEF InPlace, Relating, Reading
  <2> QED
    BY <2>1, <2>2, <2>3, <2>5, <2>6 DEF Ran, InPlace
<1> QED
  BY <1>2, <1>3

\* The next attribute, or the first relation, or the end.
LEMMA AttributePlaces ==
  ASSUME NEW j \in Jobs, j.request.type = "C", NEW k \in Nat \ {0}
  PROVE  /\ Ran(FromAttribute(j, k))
         /\ FromAttribute(j, k).request = j.request
         /\ FromAttribute(j, k).error = j.error
         /\ \/ /\ k > Len(j.request.attributes)
               /\ FromAttribute(j, k) = FromRelation(j, 1)
            \/ /\ k \in 1..Len(j.request.attributes)
               /\ FromAttribute(j, k).stage = "insert_attribute"
               /\ FromAttribute(j, k).k = k
<1>1. j.request.attributes \in Seq(Texts)
  BY CreateFields DEF Jobs
<1>2. CASE k > Len(j.request.attributes)
  <2>1. FromAttribute(j, k) = FromRelation(j, 1)
    BY <1>2 DEF FromAttribute
  <2>2. /\ Ran(FromRelation(j, 1))
        /\ FromRelation(j, 1).request = j.request
        /\ FromRelation(j, 1).error = j.error
    <3>1. 1 \in Nat \ {0}
      OBVIOUS
    <3> QED
      BY <3>1, RelationPlaces
  <2> QED
    BY <1>2, <2>1, <2>2
<1>3. CASE ~(k > Len(j.request.attributes))
  <2> DEFINE n == [j EXCEPT !.stage = "insert_attribute", !.k = k]
  <2>1. FromAttribute(j, k) = n
    BY <1>3 DEF FromAttribute
  <2>2. n.request = j.request /\ n.error = j.error
    BY DEF Jobs
  <2>3. n.stage = "insert_attribute" /\ n.k = k
    BY DEF Jobs
  <2>4. n \in Jobs
    BY DEF Jobs, Creating, Relating
  <2>5. k \in 1..Len(j.request.attributes)
    BY <1>1, <1>3
  <2> HIDE DEF n
  <2>6. InPlace(n)
    BY <2>2, <2>3, <2>4, <2>5 DEF InPlace, Relating, Reading
  <2> QED
    BY <2>1, <2>2, <2>3, <2>5, <2>6 DEF Ran, InPlace
<1> QED
  BY <1>2, <1>3

\* After a statement the handler is at one of its own stages, or finished.
LEMMA FollowPlaces ==
  ASSUME NEW j, InPlace(j), NEW exists \in BOOLEAN
  PROVE  /\ Ran(Follow(j, exists))
         /\ Follow(j, exists).request = j.request
         /\ Follow(j, exists).error = j.error
<1> j \in Jobs
  BY DEF InPlace
<1>1. CASE j.stage \in {"find_node", "insert_node", "insert_attribute"}
  <2>1. j.request.type = "C" /\ 1 \in Nat \ {0}
    BY <1>1 DEF InPlace, Creating
  <2>2. CASE j.stage = "find_node"
    <3>1. CASE exists
      BY <2>1, <2>2, <3>1, AttributePlaces DEF Follow
    <3>2. CASE ~exists
      BY <2>1, <2>2, <3>2
      DEF Follow, Ran, InPlace, Jobs, Creating, Relating, Reading
    <3> QED
      BY <3>1, <3>2
  <2>3. CASE j.stage = "insert_node"
    BY <2>1, <2>3, AttributePlaces DEF Follow
  <2>4. CASE j.stage = "insert_attribute"
    <3>1. j.k + 1 \in Nat \ {0}
      BY DEF Jobs
    <3> QED
      BY <2>1, <2>4, <3>1, AttributePlaces DEF Follow
  <2> QED
    BY <1>1, <2>2, <2>3, <2>4
<1>2. CASE j.stage \in {"find_related", "insert_related"}
  BY <1>2 DEF Follow, Ran, InPlace, Jobs, Creating, Relating, Reading
<1>3. CASE j.stage = "insert_relation"
  <2>1. j.request.type = "C" /\ j.k + 1 \in Nat \ {0}
    BY <1>3 DEF InPlace, Creating, Relating, Jobs
  <2> QED
    BY <1>3, <2>1, RelationPlaces DEF Follow
<1>4. CASE j.stage \in Reading
  BY <1>4 DEF Follow, Finished, Ran, InPlace, Jobs, Creating, Relating,
              Reading
<1> QED
  BY <1>1, <1>2, <1>3, <1>4 DEF InPlace, Jobs, Creating, Relating

\* So it is after an exception that is caught.
LEMMA AfterErrorPlaces ==
  ASSUME NEW j, InPlace(j), j.stage \in Caught
  PROVE  /\ Ran(AfterError(j))
         /\ AfterError(j).request = j.request
         /\ AfterError(j).error
<1> j \in Jobs
  BY DEF InPlace
<1>1. CASE j.stage \in {"find_node", "insert_node"}
  BY <1>1 DEF AfterError, Ran, InPlace, Jobs, Creating, Relating, Reading
<1>2. CASE j.stage \in {"find_related", "insert_related"}
  <2>1. j.request.type = "C" /\ j.k + 1 \in Nat \ {0}
    BY <1>2 DEF InPlace, Creating, Relating, Jobs
  <2> DEFINE n == FromRelation(j, j.k + 1)
  <2>2. Ran(n) /\ n.request = j.request
    BY <2>1, RelationPlaces
  <2>3. AfterError(j) = [n EXCEPT !.error = TRUE]
    BY <1>2 DEF AfterError
  <2> HIDE DEF n
  <2> QED
    BY <2>2, <2>3 DEF Ran, InPlace, Jobs
<1> QED
  BY <1>1, <1>2 DEF Caught

\* A statement is on one of the tables, and what it inserts is a row.
LEMMA Statements ==
  ASSUME NEW j, InPlace(j)
  PROVE  /\ Statement(j).table \in TableNames
         /\ j.stage \in Inserts => Statement(j).row \in Rows
<1>1. j \in Jobs
  BY DEF InPlace
<1>2. CASE j.stage \in Reading
  BY <1>2 DEF Statement, Reading, TableNames, Inserts
<1>3. CASE j.stage \in Creating
  <2>1. /\ j.request.name \in Names
        /\ j.request.attributes \in Seq(Texts)
        /\ j.request.relations \in Seq(Names)
    BY <1>1, <1>3, CreateFields DEF InPlace, Jobs
  <2>2. CASE j.stage \in {"find_node", "insert_node"}
    BY <2>1, <2>2 DEF Statement, NodeRow, TableNames, Rows
  <2>3. CASE j.stage = "insert_attribute"
    <3>1. j.request.attributes[j.k] \in Texts
      BY <2>1, <2>3 DEF InPlace
    <3> QED
      BY <2>1, <2>3, <3>1 DEF Statement, AttributeRow, TableNames, Rows
  <2>4. CASE j.stage \in Relating
    <3>1. j.request.relations[j.k] \in Names
      BY <2>1, <2>4 DEF InPlace
    <3>2. CASE j.stage \in {"find_related", "insert_related"}
      BY <3>1, <3>2 DEF Statement, NodeRow, TableNames, Rows
    <3>3. CASE j.stage = "insert_relation"
      BY <2>1, <3>1, <3>3 DEF Statement, RelationRow, TableNames, Rows
    <3> QED
      BY <2>4, <3>2, <3>3 DEF Relating
  <2> QED
    BY <1>3, <2>2, <2>3, <2>4 DEF Creating
<1> QED
  BY <1>1, <1>2, <1>3 DEF InPlace, Jobs

-----------------------------------------------------------------------------
(* The types hold. *)

LEMMA TypedInit == Init => Typed
<1> SUFFICES ASSUME Init PROVE Typed
  OBVIOUS
<1>1. file \in Contents
  BY FilesAssumption DEF Init, Contents
<1> QED
  BY <1>1 DEF Init, Typed, Places, NoJob, Closed, Working, Holders

\* References come and go, failures stay.
LEMMA References ==
  ASSUME NEW h \in Holders
  PROVE  /\ Retained(h) \in Holders
         /\ Retained(h).references = h.references + 1
         /\ Retained(h).failed = h.failed
         /\ Released(h) \in Holders
         /\ Released(h).references = h.references - 1
         /\ Released(h).failed = h.failed
BY DEF Retained, Released, Holders

\* What ends a process leaves the types alone.
LEMMA EndTyped ==
  ASSUME Typed, NEW p \in Processes, End(p), file' \in Contents,
         UNCHANGED found
  PROVE  Typed'
<1>1. /\ at' \in [Processes -> Places]
      /\ table' \in [Processes -> 1..3]
      /\ job' \in [Processes -> Jobs \cup {NoJob}]
  BY DEF Typed, End, Places
<1>2. holder' \in [Processes -> Holders]
  BY DEF Typed, End, Closed, Holders
<1>3. ASSUME NEW q \in Processes, Working(q)' PROVE InPlace(job[q])'
  <2>1. q # p /\ Working(q)
    BY <1>3 DEF Working, End, Typed
  <2>2. job'[q] = job[q]
    BY <2>1 DEF End, Typed
  <2> QED
    BY <2>1, <2>2 DEF Typed
<1> QED
  BY <1>1, <1>2, <1>3 DEF Typed

\* So does a handler that goes on or is finished.
LEMMA GoesTyped ==
  ASSUME Typed, NEW p \in Processes, NEW n, Ran(n), Goes(p, n),
         file' \in Contents,
         holder' \in [Processes -> Holders],
         UNCHANGED <<found, table>>
  PROVE  Typed'
<1>1. at' \in [Processes -> Places]
  BY DEF Typed, Goes, Places
<1>2. job' \in [Processes -> Jobs \cup {NoJob}]
  BY DEF Typed, Goes, Ran
<1>3. ASSUME NEW q \in Processes, Working(q)' PROVE InPlace(job[q])'
  <2>1. CASE q = p
    <3>1. CASE n.stage = "finished"
      BY <1>3, <2>1, <3>1 DEF Goes, Typed, Working
    <3>2. CASE n.stage # "finished"
      BY <2>1, <3>2 DEF Goes, Typed, Ran
    <3> QED
      BY <3>1, <3>2
  <2>2. CASE q # p
    BY <1>3, <2>2 DEF Goes, Typed, Working
  <2> QED
    BY <2>1, <2>2
<1> QED
  BY <1>1, <1>2, <1>3 DEF Typed

\* And an exception, caught or not.
LEMMA ThrowTyped ==
  ASSUME Typed, NEW p \in Processes, Working(p), NEW h, Throw(p, h),
         h \in Holders,
         UNCHANGED <<file, found>>
  PROVE  Typed'
<1>1. file' \in Contents
  BY DEF Typed
<1>2. CASE job[p].stage \in Caught
  <2>1. Ran(AfterError(job[p]))
    BY <1>2, AfterErrorPlaces DEF Typed
  <2>2. /\ Goes(p, AfterError(job[p]))
        /\ holder' = [holder EXCEPT ![p] = h]
        /\ UNCHANGED table
    BY <1>2 DEF Throw
  <2>3. holder' \in [Processes -> Holders]
    BY <2>2 DEF Typed
  <2> QED
    BY <1>1, <2>1, <2>2, <2>3, GoesTyped
<1>3. CASE job[p].stage \notin Caught
  BY <1>1, <1>3, EndTyped DEF Throw
<1> QED
  BY <1>2, <1>3

\* And a table that is done.
LEMMA DoneTyped ==
  ASSUME Typed, NEW p \in Processes, Done(p), file' \in Contents,
         UNCHANGED found
  PROVE  Typed'
<1>1. UNCHANGED job /\ at' \in [Processes -> Places]
  BY DEF Typed, Done, Places
<1>2. table' \in [Processes -> 1..3]
  BY DEF Typed, Done, Tables
<1>3. holder' \in [Processes -> Holders]
  <2>1. Released(holder[p]) \in Holders
    BY References DEF Typed
  <2> QED
    BY <2>1 DEF Typed, Done
<1>4. ASSUME NEW q \in Processes, Working(q)' PROVE Working(q)
  BY <1>4 DEF Typed, Done, Working
<1> QED
  BY <1>1, <1>2, <1>3, <1>4 DEF Typed

\* Steps of sync_schema that only say what is next.
LEMMA SteppedTyped ==
  ASSUME Typed, NEW p \in Processes, NEW place \in Places,
         at' = [at EXCEPT ![p] = place], place \notin {"prepare", "execute"},
         file' \in Contents, holder' \in [Processes -> Holders],
         UNCHANGED <<found, table, job>>
  PROVE  Typed'
<1>1. at' \in [Processes -> Places]
  BY DEF Typed
<1>2. ASSUME NEW q \in Processes, Working(q)' PROVE Working(q)
  BY <1>2 DEF Typed, Working
<1> QED
  BY <1>1, <1>2 DEF Typed

\* A statement leaves tables with rows.
LEMMA ExecuteContents ==
  ASSUME Typed, NEW p \in Processes, Execute(p)
  PROVE  /\ InPlace(job[p])
         /\ file' \in Contents
<1> DEFINE j == job[p]
           s == Statement(j)
<1>1. InPlace(j)
  BY DEF Typed, Execute, Working
<1>2. CASE j.stage \in Inserts
  <2>1. s.table \in TableNames /\ s.row \in Rows
    BY <1>1, <1>2, Statements
  <2>2. file' = [file EXCEPT ![s.table].rows = Append(@, s.row)]
    BY <1>2 DEF Execute
  <2> HIDE DEF s
  <2>3. file[s.table] \in [form : Forms, rows : Seq(Rows)]
    BY <2>1 DEF Typed, Contents
  <2>4. Append(file[s.table].rows, s.row) \in Seq(Rows)
    BY <2>1, <2>3, AppendProperties
  <2> QED
    BY <1>1, <2>1, <2>2, <2>3, <2>4 DEF Typed, Contents
<1>3. CASE j.stage \notin Inserts
  BY <1>1, <1>3 DEF Execute, Typed
<1> QED
  BY <1>2, <1>3

\* So do the statements of sync_schema.
LEMMA TableContents ==
  ASSUME Typed, NEW p \in Processes
  PROVE  /\ DropTable(p) => file' \in Contents
         /\ CreateTable(p) => file' \in Contents
<1>1. Name(p) \in TableNames
  BY DEF Typed, Name, Tables, TableNames
<1>2. file[Name(p)] \in [form : Forms, rows : Seq(Rows)]
  BY <1>1 DEF Typed, Contents
<1>3. NoTable \in [form : Forms, rows : Seq(Rows)]
  BY DEF NoTable, Forms
<1>4. [file EXCEPT ![Name(p)] = NoTable] \in Contents
  BY <1>3 DEF Typed, Contents
<1>5. [file EXCEPT ![Name(p)].form = "current"] \in Contents
  BY <1>1, <1>2 DEF Typed, Contents, Forms
<1> QED
  BY <1>4, <1>5 DEF DropTable, CreateTable, Typed

\* Every step keeps the types.
LEMMA TypedNext == Typed /\ [Next]_vars => Typed'
<1> SUFFICES ASSUME Typed, [Next]_vars PROVE Typed'
  OBVIOUS
<1>1. file \in Contents
  BY DEF Typed
<1>2. ASSUME NEW p \in Processes
      PROVE  /\ holder[p] \in Holders
             /\ Retained(holder[p]) \in Holders
             /\ Released(holder[p]) \in Holders
             /\ Released(Retained(holder[p])) \in Holders
             /\ [Retained(holder[p]) EXCEPT !.failed = TRUE] \in Holders
  <2>1. holder[p] \in Holders
    BY DEF Typed
  <2>2. Retained(holder[p]) \in Holders /\ Released(holder[p]) \in Holders
    BY <2>1, References
  <2>3. Released(Retained(holder[p])) \in Holders
    BY <2>2, References
  <2>4. [Retained(holder[p]) EXCEPT !.failed = TRUE] \in Holders
    BY <2>2 DEF Holders
  <2> QED
    BY <2>1, <2>2, <2>3, <2>4
<1>3. ASSUME NEW p \in Processes, Start(p) PROVE Typed'
  <2>1. holder' \in [Processes -> Holders]
    BY <1>2, <1>3 DEF Start, Typed
  <2> QED
    BY <1>1, <1>3, <2>1, SteppedTyped DEF Start, Places
<1>4. ASSUME NEW p \in Processes, TableExists(p) PROVE Typed'
  <2>1. holder' \in [Processes -> Holders]
    BY <1>4 DEF TableExists, Typed
  <2>2. \E place \in {"create", "info"} : at' = [at EXCEPT ![p] = place]
    BY <1>4 DEF TableExists
  <2> QED
    BY <1>1, <1>4, <2>1, <2>2, SteppedTyped DEF TableExists, Places
<1>5. ASSUME NEW p \in Processes, TableInfo(p) PROVE Typed'
  <2>1. CASE Done(p)
    BY <1>1, <1>5, <2>1, DoneTyped DEF TableInfo
  <2>2. CASE at' = [at EXCEPT ![p] = "drop"] /\ UNCHANGED <<table, job, holder>>
    <3>1. holder' \in [Processes -> Holders]
      BY <2>2 DEF Typed
    <3> QED
      BY <1>1, <1>5, <2>2, <3>1, SteppedTyped DEF TableInfo, Places
  <2> QED
    BY <1>5, <2>1, <2>2 DEF TableInfo
<1>6. ASSUME NEW p \in Processes, DropTable(p) PROVE Typed'
  <2>1. file' \in Contents /\ UNCHANGED found
    BY <1>6, TableContents DEF DropTable
  <2>2. CASE End(p)
    BY <2>1, <2>2, EndTyped
  <2>3. CASE at' = [at EXCEPT ![p] = "create"] /\ UNCHANGED <<table, job, holder>>
    <3>1. holder' \in [Processes -> Holders]
      BY <2>3 DEF Typed
    <3> QED
      BY <2>1, <2>3, <3>1, SteppedTyped DEF Places
  <2> QED
    BY <1>6, <2>2, <2>3 DEF DropTable
<1>7. ASSUME NEW p \in Processes, CreateTable(p) PROVE Typed'
  <2>1. file' \in Contents /\ UNCHANGED found
    BY <1>7, TableContents DEF CreateTable
  <2> QED
    BY <1>7, <2>1, EndTyped, DoneTyped DEF CreateTable
<1>8. ASSUME NEW p \in Processes, SyncLocked(p) \/ Die(p) PROVE Typed'
  BY <1>1, <1>8, EndTyped DEF SyncLocked, Die
<1>9. ASSUME NEW p \in Processes, Receive(p) PROVE Typed'
  <2>1. PICK r \in Requests :
          job' = [job EXCEPT ![p] =
                    [request |-> r, k |-> 1, error |-> FALSE,
                     stage |-> IF r.type = "C" THEN "find_node"
                                               ELSE "read_attributes"]]
    BY <1>9 DEF Receive
  <2> DEFINE j == [request |-> r, k |-> 1, error |-> FALSE,
                   stage |-> IF r.type = "C" THEN "find_node"
                                             ELSE "read_attributes"]
  <2>2. r.type \in {"C", "R"}
    BY RequestsAssumption
  <2>3. InPlace(j)
    BY <2>2 DEF InPlace, Jobs, Creating, Reading, Relating
  <2>4. job' \in [Processes -> Jobs \cup {NoJob}]
    BY <2>1, <2>3 DEF Typed, InPlace
  <2>5. at' \in [Processes -> Places]
    BY <1>9 DEF Receive, Typed, Places
  <2>6. ASSUME NEW q \in Processes, Working(q)' PROVE InPlace(job[q])'
    <3> HIDE DEF j
    <3>1. CASE q = p
      BY <2>1, <2>3, <3>1 DEF Typed, j
    <3>2. CASE q # p
      BY <1>9, <2>1, <2>6, <3>2 DEF Typed, Receive, Working
    <3> QED
      BY <3>1, <3>2
  <2> QED
    BY <1>9, <2>4, <2>5, <2>6 DEF Typed, Receive
<1>10. ASSUME NEW p \in Processes, Prepare(p) PROVE Typed'
  <2>1. at' \in [Processes -> Places] /\ holder' \in [Processes -> Holders]
    BY <1>2, <1>10 DEF Prepare, Typed, Places
  <2>2. ASSUME NEW q \in Processes, Working(q)' PROVE Working(q)
    BY <1>10, <2>2 DEF Prepare, Typed, Working
  <2> QED
    BY <1>10, <2>1, <2>2 DEF Prepare, Typed
<1>11. ASSUME NEW p \in Processes, PrepareThrows(p) \/ Misuse(p) PROVE Typed'
  BY <1>2, <1>11, ThrowTyped DEF PrepareThrows, Misuse, Working
<1>12. ASSUME NEW p \in Processes, OpenFails(p) PROVE Typed'
  BY <1>2, <1>12, ThrowTyped DEF OpenFails, Working
<1>13. ASSUME NEW p \in Processes, Execute(p) PROVE Typed'
  <2>1. PICK exists \in BOOLEAN : Goes(p, Follow(job[p], exists))
    BY <1>13 DEF Execute
  <2>2. Ran(Follow(job[p], exists)) /\ file' \in Contents
    BY <1>13, ExecuteContents, FollowPlaces
  <2>3. holder' \in [Processes -> Holders]
    BY <1>2, <1>13 DEF Execute, Typed
  <2> QED
    BY <1>13, <2>1, <2>2, <2>3, GoesTyped DEF Execute
<1>14. ASSUME NEW p \in Processes, ExecuteThrows(p) PROVE Typed'
  BY <1>2, <1>14, ThrowTyped DEF ExecuteThrows, Working
<1>15. CASE UNCHANGED vars
  BY <1>15 DEF vars, Typed, Working
<1> QED
  BY <1>3, <1>4, <1>5, <1>6, <1>7, <1>8, <1>9, <1>10, <1>11, <1>12, <1>13,
     <1>14, <1>15 DEF Next

\* In every file, and whatever its processes do, the state is well typed.
LEMMA TypedAlways == Spec => []Typed
<1> QED
  BY TypedInit, TypedNext, PTL DEF Spec

-----------------------------------------------------------------------------
(***************************************************************************)
(* The program's own tables.  RowsStay alone is not inductive: a process   *)
(* about to drop a table has read its columns before.  What a process saw  *)
(* of an own table is still so, and what it has been through is current.   *)
(***************************************************************************)

Current(t) == Own(t) => file[t].form = "current"

Saw(p) ==
  /\ at[p] = "down" => table[p] = 1
  /\ at[p] = "info" => Current(Name(p))
  /\ at[p] = "drop" => ~Own(Name(p))
  /\ Syncing(p) => \A i \in 1..(table[p] - 1) : Current(Tables[i])
  /\ at[p] \in {"ready", "prepare", "execute"} =>
       \A t \in TableNames : Current(t)

Formed ==
  /\ \A t \in TableNames : Own(t) => file[t].form # "other"
  /\ \A p \in Processes : Saw(p)

\* Rows are only added, in the tables of g that the program had made in f.
Grows(f, g) ==
  \A t \in TableNames : Own(t) =>
    \A i \in DOMAIN f[t].rows :
      i \in DOMAIN g[t].rows /\ g[t].rows[i] = f[t].rows[i]

\* What a step does to the file.
OwnKept ==
  /\ UNCHANGED found
  /\ Grows(file, file')
  /\ \A t \in TableNames : Own(t) =>
       /\ file'[t].form # "other"
       /\ file[t].form = "current" => file'[t].form = "current"

LEMMA FormedInit == Init => Formed
BY DEF Init, Formed, Saw, Syncing, Own

\* The table a process is at is one of the three.
LEMMA NameOfTable ==
  ASSUME Typed, NEW p \in Processes PROVE Name(p) \in TableNames
BY DEF Typed, Name, Tables, TableNames

\* No step takes anything from a table the program has made.
LEMMA OwnKeptNext ==
  ASSUME Typed, Formed, [Next]_vars PROVE OwnKept
<1>1. ASSUME UNCHANGED <<file, found>> PROVE OwnKept
  BY <1>1 DEF OwnKept, Grows, Formed
<1>2. ASSUME NEW p \in Processes, DropTable(p) PROVE OwnKept
  <2>1. CASE file[Name(p)].form = "none"
    BY <1>1, <1>2, <2>1 DEF DropTable
  <2>2. CASE file[Name(p)].form # "none"
    <3>1. ~Own(Name(p)) /\ file' = [file EXCEPT ![Name(p)] = NoTable]
      BY <1>2, <2>2 DEF DropTable, Formed, Saw
    <3>2. ASSUME NEW t \in TableNames, Own(t) PROVE file'[t] = file[t]
      BY <3>1, <3>2 DEF Typed, Contents
    <3> QED
      BY <1>2, <3>2 DEF OwnKept, Grows, Formed, DropTable
  <2> QED
    BY <2>1, <2>2
<1>3. ASSUME NEW p \in Processes, CreateTable(p) PROVE OwnKept
  <2>1. CASE file[Name(p)].form # "none"
    BY <1>1, <1>3, <2>1 DEF CreateTable
  <2>2. CASE file[Name(p)].form = "none"
    <3>1. file' = [file EXCEPT ![Name(p)].form = "current"]
      BY <1>3, <2>2 DEF CreateTable
    <3>2. ASSUME NEW t \in TableNames
          PROVE  /\ file'[t].rows = file[t].rows
                 /\ file'[t].form \in {file[t].form, "current"}
      <4>1. file[t] \in [form : Forms, rows : Seq(Rows)]
        BY DEF Typed, Contents
      <4>2. CASE t = Name(p)
        BY <3>1, <4>1, <4>2 DEF Typed, Contents
      <4>3. CASE t # Name(p)
        BY <3>1, <4>3 DEF Typed, Contents
      <4> QED
        BY <4>2, <4>3
    <3> QED
      BY <1>3, <3>2 DEF OwnKept, Grows, Formed, CreateTable
  <2> QED
    BY <2>1, <2>2
<1>4. ASSUME NEW p \in Processes, Execute(p) PROVE OwnKept
  <2> DEFINE j == job[p]
             s == Statement(j)
  <2>1. InPlace(j)
    BY <1>4 DEF Typed, Execute, Working
  <2>2. CASE j.stage \notin Inserts
    BY <1>1, <1>4, <2>2 DEF Execute
  <2>3. CASE j.stage \in Inserts
    <3>1. s.table \in TableNames /\ s.row \in Rows
      BY <2>1, <2>3, Statements
    <3>2. file' = [file EXCEPT ![s.table].rows = Append(@, s.row)]
      BY <1>4, <2>3 DEF Execute
    <3> HIDE DEF s
    <3>3. ASSUME NEW t \in TableNames
          PROVE  /\ file'[t].form = file[t].form
                 /\ \A i \in DOMAIN file[t].rows :
                      /\ i \in DOMAIN file'[t].rows
                      /\ file'[t].rows[i] = file[t].rows[i]
      <4>1. file[t] \in [form : Forms, rows : Seq(Rows)]
        BY DEF Typed, Contents
      <4>2. CASE t = s.table
        <5>1. /\ file'[t].form = file[t].form
              /\ file'[t].rows = Append(file[t].rows, s.row)
          BY <3>2, <4>1, <4>2 DEF Typed, Contents
        <5> QED
          BY <3>1, <4>1, <5>1, AppendProperties
      <4>3. CASE t # s.table
        BY <3>2, <4>3 DEF Typed, Contents
      <4> QED
        BY <4>2, <4>3
    <3> QED
      BY <1>4, <3>3 DEF OwnKept, Grows, Formed, Execute
  <2> QED
    BY <2>2, <2>3
<1>5. ASSUME NEW p \in Processes,
             \/ Start(p) \/ TableExists(p) \/ TableInfo(p) \/ SyncLocked(p)
             \/ Receive(p) \/ Prepare(p) \/ PrepareThrows(p) \/ OpenFails(p)
             \/ Misuse(p) \/ ExecuteThrows(p) \/ Die(p)
      PROVE  OwnKept
  BY <1>1, <1>5 DEF Start, TableExists, TableInfo, SyncLocked, Receive,
     Prepare, PrepareThrows, OpenFails, Misuse, ExecuteThrows, Die
<1>6. CASE UNCHANGED vars
  BY <1>1, <1>6 DEF vars
<1> QED
  BY <1>2, <1>3, <1>4, <1>5, <1>6 DEF Next

\* What was current is current.
LEMMA CurrentKept ==
  ASSUME OwnKept, NEW t \in TableNames
  PROVE  /\ Own(t)' = Own(t)
         /\ Current(t) => Current(t)'
BY DEF OwnKept, Own, Current

\* Whoever does nothing finds what it saw.
LEMMA SawKept ==
  ASSUME Typed, OwnKept, NEW p \in Processes, Saw(p),
         at'[p] = at[p], table'[p] = table[p]
  PROVE  Saw(p)'
<1>1. Name(p) \in TableNames /\ Name(p)' = Name(p)
  BY NameOfTable DEF Name
<1>2. \A i \in 1..(table[p] - 1) : Tables[i] \in TableNames
  BY DEF Typed, Tables, TableNames
<1> QED
  BY <1>1, <1>2, CurrentKept DEF Saw, Syncing

\* Only one process moves.
LEMMA FormedStep ==
  ASSUME Typed, Formed, OwnKept, NEW p \in Processes, Saw(p)',
         \A q \in Processes \ {p} : at'[q] = at[q] /\ table'[q] = table[q]
  PROVE  Formed'
<1>1. \A t \in TableNames : Own(t)' => file'[t].form # "other"
  BY CurrentKept DEF OwnKept
<1>2. \A q \in Processes : Saw(q)'
  BY SawKept DEF Formed
<1> QED
  BY <1>1, <1>2 DEF Formed

\* A process that ends.
LEMMA FormedEnd ==
  ASSUME Typed, Formed, OwnKept, NEW p \in Processes, End(p) PROVE Formed'
<1>1. /\ at'[p] = "down" /\ table'[p] = 1
      /\ \A q \in Processes \ {p} : at'[q] = at[q] /\ table'[q] = table[q]
  BY DEF Typed, End
<1>2. Saw(p)'
  BY <1>1 DEF Saw, Syncing
<1> QED
  BY <1>1, <1>2, FormedStep

\* A process that works goes on or is finished.
LEMMA FormedWork ==
  ASSUME Typed, Formed, OwnKept, NEW p \in Processes,
         at[p] \in {"ready", "prepare", "execute"},
         at'[p] \in {"ready", "prepare", "execute"},
         \A q \in Processes \ {p} : at'[q] = at[q], UNCHANGED table
  PROVE  Formed'
<1>1. Saw(p)'
  BY CurrentKept DEF Saw, Syncing, Formed
<1> QED
  BY <1>1, FormedStep

\* An exception, caught or not.
LEMMA FormedThrow ==
  ASSUME Typed, Formed, OwnKept, NEW p \in Processes, NEW h, Working(p),
         Throw(p, h)
  PROVE  Formed'
<1>1. CASE job[p].stage \in Caught
  <2>1. Goes(p, AfterError(job[p])) /\ UNCHANGED table
    BY <1>1 DEF Throw
  <2>2. at'[p] \in {"ready", "prepare"}
    BY <2>1 DEF Goes, Typed
  <2>3. \A q \in Processes \ {p} : at'[q] = at[q]
    BY <2>1 DEF Goes, Typed
  <2> QED
    BY <2>1, <2>2, <2>3, FormedWork DEF Working
<1>2. CASE job[p].stage \notin Caught
  BY <1>2, FormedEnd DEF Throw
<1> QED
  BY <1>1, <1>2

\* A table that is current and done.
LEMMA FormedDone ==
  ASSUME Typed, Formed, OwnKept, NEW p \in Processes, Syncing(p), Done(p),
         NEW t \in TableNames, t = Name(p), Current(t)'
  PROVE  Formed'
<1>1. /\ table[p] \in 1..3 /\ t = Tables[table[p]]
      /\ \A i \in 1..3 : Tables[i] \in TableNames
      /\ TableNames = {Tables[i] : i \in 1..3} /\ Len(Tables) = 3
  BY DEF Typed, Tables, TableNames, Name
<1>2. \A i \in 1..table[p] : Current(Tables[i])'
  <2>1. \A i \in 1..(table[p] - 1) : Current(Tables[i])'
    BY <1>1, CurrentKept DEF Formed, Saw
  <2> QED
    BY <1>1, <2>1
<1>3. CASE table[p] < Len(Tables)
  <2>1. /\ at'[p] = "exists" /\ table'[p] = table[p] + 1
        /\ \A q \in Processes \ {p} : at'[q] = at[q] /\ table'[q] = table[q]
    BY <1>3 DEF Done, Typed
  <2>2. Saw(p)'
    BY <1>1, <1>2, <2>1 DEF Saw
  <2> QED
    BY <2>1, <2>2, FormedStep
<1>4. CASE ~(table[p] < Len(Tables))
  <2>1. /\ at'[p] = "ready" /\ table'[p] = 1
        /\ \A q \in Processes \ {p} : at'[q] = at[q] /\ table'[q] = table[q]
    BY <1>4 DEF Done, Typed
  <2>2. \A u \in TableNames : Current(u)'
    BY <1>1, <1>2, <1>4
  <2>3. Saw(p)'
    BY <2>1, <2>2 DEF Saw, Syncing
  <2> QED
    BY <2>1, <2>3, FormedStep
<1> QED
  BY <1>3, <1>4

\* Every step keeps what processes saw.
LEMMA FormedNext == Typed /\ Formed /\ [Next]_vars => Formed'
<1> SUFFICES ASSUME Typed, Formed, [Next]_vars PROVE Formed'
  OBVIOUS
<1>1. OwnKept
  BY OwnKeptNext
<1>2. ASSUME NEW p \in Processes, Start(p) PROVE Formed'
  <2>1. /\ at'[p] = "exists" /\ table'[p] = 1
        /\ \A q \in Processes \ {p} : at'[q] = at[q] /\ table'[q] = table[q]
    BY <1>2 DEF Start, Typed, Formed, Saw
  <2>2. Saw(p)'
    BY <2>1 DEF Saw
  <2> QED
    BY <1>1, <2>1, <2>2, FormedStep
<1>3. ASSUME NEW p \in Processes, TableExists(p) PROVE Formed'
  <2>1. /\ at'[p] = (IF file[Name(p)].form = "none" THEN "create" ELSE "info")
        /\ \A q \in Processes \ {p} : at'[q] = at[q]
    BY <1>3 DEF TableExists, Typed
  <2>2. UNCHANGED <<file, found, table>> /\ at[p] = "exists"
    BY <1>3 DEF TableExists
  <2>3. file[Name(p)].form # "none" => Current(Name(p))
    <3>1. file[Name(p)].form \in Forms
      BY NameOfTable DEF Typed, Contents
    <3> QED
      BY <3>1, NameOfTable DEF Formed, Current, Forms
  <2>4. Saw(p)'
    BY <2>1, <2>2, <2>3 DEF Formed, Saw, Syncing, Current, Own, Name
  <2> QED
    BY <1>1, <2>1, <2>2, <2>4, FormedStep
<1>4. ASSUME NEW p \in Processes, TableInfo(p) PROVE Formed'
  <2>1. Syncing(p) /\ UNCHANGED <<file, found>>
    BY <1>4 DEF TableInfo, Syncing
  <2>2. CASE file[Name(p)].form = "current"
    <3>1. PICK t \in TableNames : t = Name(p)
      BY NameOfTable
    <3>2. Current(t)'
      BY <2>1, <2>2, <3>1 DEF Current
    <3>3. Done(p)
      BY <1>4, <2>2 DEF TableInfo
    <3> QED
      BY <1>1, <2>1, <3>1, <3>2, <3>3, FormedDone
  <2>3. CASE file[Name(p)].form # "current"
    <3>1. at' = [at EXCEPT ![p] = "drop"] /\ UNCHANGED table /\ at[p] = "info"
      BY <1>4, <2>3 DEF TableInfo
    <3>2. /\ at'[p] = "drop"
          /\ \A q \in Processes \ {p} : at'[q] = at[q]
      BY <3>1 DEF Typed
    <3>3. ~Own(Name(p))
      BY <2>3, <3>1 DEF Formed, Saw, Current
    <3>4. Saw(p)'
      BY <2>1, <3>1, <3>2, <3>3 DEF Formed, Saw, Syncing, Current, Own, Name
    <3> QED
      BY <1>1, <3>1, <3>2, <3>4, FormedStep
  <2> QED
    BY <2>2, <2>3
<1>5. ASSUME NEW p \in Processes, DropTable(p) PROVE Formed'
  <2>1. CASE End(p)
    BY <1>1, <2>1, FormedEnd
  <2>2. CASE at' = [at EXCEPT ![p] = "create"] /\ UNCHANGED <<table, job, holder>>
    <3>1. /\ at'[p] = "create" /\ at[p] = "drop" /\ UNCHANGED table
          /\ \A q \in Processes \ {p} : at'[q] = at[q]
      BY <1>5, <2>2 DEF DropTable, Typed
    <3>2. \A i \in 1..(table[p] - 1) :
            Tables[i] \in TableNames /\ Current(Tables[i])
      BY <3>1 DEF Formed, Saw, Syncing, Typed, Tables, TableNames
    <3>3. Saw(p)'
      BY <1>1, <3>1, <3>2, CurrentKept DEF Saw
    <3> QED
      BY <1>1, <3>1, <3>3, FormedStep
  <2> QED
    BY <1>5, <2>1, <2>2 DEF DropTable
<1>6. ASSUME NEW p \in Processes, CreateTable(p) PROVE Formed'
  <2>1. CASE End(p)
    BY <1>1, <2>1, FormedEnd
  <2>2. CASE file[Name(p)].form = "none"
    <3>1. PICK t \in TableNames : t = Name(p)
      BY NameOfTable
    <3>2. Done(p) /\ file' = [file EXCEPT ![t].form = "current"]
      BY <1>6, <2>2, <3>1 DEF CreateTable
    <3>3. Current(t)'
      BY <3>2 DEF Current, Typed, Contents
    <3>4. Syncing(p)
      BY <1>6 DEF CreateTable, Syncing
    <3> QED
      BY <1>1, <3>1, <3>2, <3>3, <3>4, FormedDone
  <2> QED
    BY <1>6, <2>1, <2>2 DEF CreateTable
<1>7. ASSUME NEW p \in Processes, SyncLocked(p) \/ Die(p) PROVE Formed'
  BY <1>1, <1>7, FormedEnd DEF SyncLocked, Die
<1>8. ASSUME NEW p \in Processes, Receive(p) \/ Prepare(p) PROVE Formed'
  <2>1. /\ at[p] \in {"ready", "prepare", "execute"}
        /\ at'[p] \in {"ready", "prepare", "execute"}
        /\ \A q \in Processes \ {p} : at'[q] = at[q]
        /\ UNCHANGED table
    BY <1>8 DEF Receive, Prepare, Typed
  <2> QED
    BY <1>1, <2>1, FormedWork
<1>9. ASSUME NEW p \in Processes,
             \/ PrepareThrows(p) \/ OpenFails(p) \/ Misuse(p)
             \/ ExecuteThrows(p)
      PROVE  Formed'
  <2>1. Working(p) /\ \E h : Throw(p, h)
    BY <1>9 DEF PrepareThrows, OpenFails, Misuse, ExecuteThrows, Working
  <2> QED
    BY <1>1, <2>1, FormedThrow
<1>10. ASSUME NEW p \in Processes, Execute(p) PROVE Formed'
  <2>1. PICK n : Goes(p, n)
    BY <1>10 DEF Execute
  <2>2. /\ at'[p] \in {"ready", "prepare"} /\ at[p] = "execute"
        /\ \A q \in Processes \ {p} : at'[q] = at[q]
        /\ UNCHANGED table
    BY <1>10, <2>1 DEF Goes, Typed, Execute
  <2> QED
    BY <1>1, <2>2, FormedWork
<1>11. CASE UNCHANGED vars
  BY <1>11 DEF vars, Formed, Saw, Syncing, Current, Own, Name
<1> QED
  BY <1>2, <1>3, <1>4, <1>5, <1>6, <1>7, <1>8, <1>9, <1>10, <1>11 DEF Next

LEMMA FormedAlways == Spec => []Formed
<1>1. Typed /\ Formed /\ [Next]_vars => Formed'
  BY FormedNext
<1> QED
  BY FormedInit, <1>1, TypedAlways, PTL DEF Spec

\* Who has come out of the constructor finds the program's own tables.
THEOREM TablesReady == Spec => []ReadyFindsTables
<1>1. Typed /\ Formed => ReadyFindsTables
  BY DEF Typed, Contents, Formed, Saw, Current, ReadyFindsTables
<1> QED
  BY <1>1, TypedAlways, FormedAlways, PTL

\* No table the program has made is dropped, and none of its rows lost.
THEOREM NothingLost == Spec => RowsStay
<1>1. /\ Typed /\ Formed /\ [Next]_vars
      => [\A t \in DOMAIN file : Own(t) =>
            \A i \in DOMAIN file[t].rows :
              i \in DOMAIN file'[t].rows
                /\ file'[t].rows[i] = file[t].rows[i]]_vars
  BY OwnKeptNext DEF OwnKept, Grows, Typed, Contents
<1> QED
  BY <1>1, TypedAlways, FormedAlways, PTL DEF Spec, RowsStay

-----------------------------------------------------------------------------
(* The connection. *)

Balanced(p) ==
  holder[p].references = (IF Syncing(p) \/ at[p] = "execute" THEN 1 ELSE 0)
                           + (IF holder[p].failed THEN 1 ELSE 0)

\* Whoever does nothing keeps its references.
LEMMA BalancedStep ==
  ASSUME HolderBalanced, NEW p \in Processes, Balanced(p)',
         \A q \in Processes \ {p} : at'[q] = at[q] /\ holder'[q] = holder[q]
  PROVE  HolderBalanced'
BY DEF HolderBalanced, Balanced, Syncing

\* Who ends has none.
LEMMA BalancedEnd ==
  ASSUME Typed, HolderBalanced, NEW p \in Processes, End(p)
  PROVE  HolderBalanced'
<1>1. /\ at'[p] = "down" /\ holder'[p] = Closed
      /\ \A q \in Processes \ {p} : at'[q] = at[q] /\ holder'[q] = holder[q]
  BY DEF Typed, End
<1>2. Balanced(p)'
  BY <1>1 DEF Balanced, Syncing, Closed
<1> QED
  BY <1>1, <1>2, BalancedStep

\* Between two statements only a failed open leaves one.
LEMMA BalancedGoes ==
  ASSUME Typed, HolderBalanced, NEW p \in Processes, NEW n, Goes(p, n),
         NEW h, h.references = (IF h.failed THEN 1 ELSE 0),
         holder' = [holder EXCEPT ![p] = h]
  PROVE  HolderBalanced'
<1>1. /\ at'[p] \in {"ready", "prepare"} /\ holder'[p] = h
      /\ \A q \in Processes \ {p} : at'[q] = at[q] /\ holder'[q] = holder[q]
  BY DEF Typed, Goes
<1>2. Balanced(p)'
  BY <1>1 DEF Balanced, Syncing
<1> QED
  BY <1>1, <1>2, BalancedStep

LEMMA BalancedThrow ==
  ASSUME Typed, HolderBalanced, NEW p \in Processes,
         NEW h, h.references = (IF h.failed THEN 1 ELSE 0), Throw(p, h)
  PROVE  HolderBalanced'
BY BalancedEnd, BalancedGoes DEF Throw

\* sync_schema gives its reference back when it returns.
LEMMA BalancedDone ==
  ASSUME Typed, HolderBalanced, NEW p \in Processes, Syncing(p), Done(p)
  PROVE  HolderBalanced'
<1>1. Balanced(p) /\ holder[p] \in Holders
  BY DEF HolderBalanced, Balanced, Typed
<1>2. CASE table[p] < Len(Tables)
  <2>1. /\ at'[p] = "exists" /\ holder'[p] = holder[p]
        /\ \A q \in Processes \ {p} : at'[q] = at[q] /\ holder'[q] = holder[q]
    BY <1>2 DEF Done, Typed
  <2>2. Balanced(p)'
    BY <1>1, <2>1 DEF Balanced, Syncing
  <2> QED
    BY <2>1, <2>2, BalancedStep
<1>3. CASE ~(table[p] < Len(Tables))
  <2>1. /\ at'[p] = "ready" /\ holder'[p] = Released(holder[p])
        /\ \A q \in Processes \ {p} : at'[q] = at[q] /\ holder'[q] = holder[q]
    BY <1>3 DEF Done, Typed
  <2>2. /\ Released(holder[p]).references = holder[p].references - 1
        /\ Released(holder[p]).failed = holder[p].failed
        /\ holder[p].references \in Int
    BY <1>1, References DEF Holders
  <2>3. Balanced(p)'
    BY <1>1, <2>1, <2>2 DEF Balanced, Syncing
  <2> QED
    BY <2>1, <2>3, BalancedStep
<1> QED
  BY <1>2, <1>3

LEMMA BalancedNext == Typed /\ HolderBalanced /\ [Next]_vars => HolderBalanced'
<1> SUFFICES ASSUME Typed, HolderBalanced, [Next]_vars PROVE HolderBalanced'
  OBVIOUS
<1>1. ASSUME NEW p \in Processes
      PROVE  /\ holder[p] \in Holders /\ holder[p].references \in Int
             /\ Balanced(p)
             /\ Retained(holder[p]).references = holder[p].references + 1
             /\ Retained(holder[p]).failed = holder[p].failed
             /\ Released(holder[p]).references = holder[p].references - 1
             /\ Released(holder[p]).failed = holder[p].failed
             /\ Retained(holder[p]) \in Holders
  BY References DEF HolderBalanced, Balanced, Typed, Holders
<1>2. ASSUME NEW p \in Processes
      PROVE  LET h == Released(Retained(holder[p])) IN
             h.references = holder[p].references /\ h.failed = holder[p].failed
  BY <1>1, References
<1>3. ASSUME NEW p \in Processes, Start(p) PROVE HolderBalanced'
  <2>1. /\ at'[p] = "exists" /\ holder'[p] = Retained(holder[p])
        /\ at[p] = "down"
        /\ \A q \in Processes \ {p} : at'[q] = at[q] /\ holder'[q] = holder[q]
    BY <1>3 DEF Start, Typed
  <2>2. Balanced(p)'
    BY <1>1, <2>1 DEF Balanced, Syncing
  <2> QED
    BY <2>1, <2>2, BalancedStep
<1>4. ASSUME NEW p \in Processes, Syncing(p), at'[p] \in {"info", "create", "drop"},
             \A q \in Processes \ {p} : at'[q] = at[q], UNCHANGED holder
      PROVE  HolderBalanced'
  <2>1. Balanced(p)'
    BY <1>1, <1>4 DEF Balanced, Syncing
  <2> QED
    BY <1>4, <2>1, BalancedStep
<1>5. ASSUME NEW p \in Processes,
             TableExists(p) \/ TableInfo(p) \/ DropTable(p) \/ CreateTable(p)
      PROVE  HolderBalanced'
  <2>1. Syncing(p)
    BY <1>5 DEF TableExists, TableInfo, DropTable, CreateTable, Syncing
  <2>2. \/ End(p) \/ Done(p)
        \/ /\ at'[p] \in {"info", "create", "drop"} /\ UNCHANGED holder
           /\ \A q \in Processes \ {p} : at'[q] = at[q]
    BY <1>5 DEF TableExists, TableInfo, DropTable, CreateTable, Typed
  <2> QED
    BY <1>4, <2>1, <2>2, BalancedEnd, BalancedDone
<1>6. ASSUME NEW p \in Processes, SyncLocked(p) \/ Die(p) PROVE HolderBalanced'
  BY <1>6, BalancedEnd DEF SyncLocked, Die
<1>7. ASSUME NEW p \in Processes, Receive(p) PROVE HolderBalanced'
  <2>1. /\ at'[p] = "prepare" /\ at[p] = "ready" /\ UNCHANGED holder
        /\ \A q \in Processes \ {p} : at'[q] = at[q]
    BY <1>7 DEF Receive, Typed
  <2>2. Balanced(p)'
    BY <1>1, <2>1 DEF Balanced, Syncing
  <2> QED
    BY <2>1, <2>2, BalancedStep
<1>8. ASSUME NEW p \in Processes, Prepare(p) PROVE HolderBalanced'
  <2>1. /\ at'[p] = "execute" /\ holder'[p] = Retained(holder[p])
        /\ at[p] = "prepare"
        /\ \A q \in Processes \ {p} : at'[q] = at[q] /\ holder'[q] = holder[q]
    BY <1>8 DEF Prepare, Typed
  <2>2. Balanced(p)'
    BY <1>1, <2>1 DEF Balanced, Syncing
  <2> QED
    BY <2>1, <2>2, BalancedStep
<1>9. ASSUME NEW p \in Processes, PrepareThrows(p) \/ Misuse(p)
      PROVE  HolderBalanced'
  <2>1. at[p] = "prepare" /\ Throw(p, Released(Retained(holder[p])))
    BY <1>9 DEF PrepareThrows, Misuse
  <2>2. holder[p].references = (IF holder[p].failed THEN 1 ELSE 0)
    BY <1>1, <2>1 DEF Balanced, Syncing
  <2> QED
    BY <1>2, <2>1, <2>2, BalancedThrow
<1>10. ASSUME NEW p \in Processes, OpenFails(p) PROVE HolderBalanced'
  <2> DEFINE h == [Retained(holder[p]) EXCEPT !.failed = TRUE]
  <2>1. Throw(p, h) /\ holder[p].references = 0
    BY <1>10 DEF OpenFails, Opens
  <2>2. h.references = 1 /\ h.failed = TRUE
    BY <1>1, <2>1 DEF Holders
  <2> HIDE DEF h
  <2> QED
    BY <2>1, <2>2, BalancedThrow
<1>11. ASSUME NEW p \in Processes, at[p] = "execute"
       PROVE  LET h == Released(holder[p]) IN
              h.references = (IF h.failed THEN 1 ELSE 0)
  BY <1>1, <1>11 DEF Balanced
<1>12. ASSUME NEW p \in Processes, ExecuteThrows(p) PROVE HolderBalanced'
  BY <1>11, <1>12, BalancedThrow DEF ExecuteThrows
<1>13. ASSUME NEW p \in Processes, Execute(p) PROVE HolderBalanced'
  <2>1. PICK n : Goes(p, n)
    BY <1>13 DEF Execute
  <2>2. holder' = [holder EXCEPT ![p] = Released(holder[p])] /\ at[p] = "execute"
    BY <1>13 DEF Execute
  <2> QED
    BY <1>11, <2>1, <2>2, BalancedGoes
<1>14. CASE UNCHANGED vars
  BY <1>14 DEF vars, HolderBalanced, Syncing
<1> QED
  BY <1>3, <1>5, <1>6, <1>7, <1>8, <1>9, <1>10, <1>12, <1>13, <1>14 DEF Next

\* However its statements end, a process holds the file open exactly while
\* it is in one, or in sync_schema; only a failed open leaves a reference.
THEOREM ConnectionsBalanced == Spec => []HolderBalanced
<1>1. Init => HolderBalanced
  BY DEF Init, HolderBalanced, Syncing, Closed
<1>2. Typed /\ HolderBalanced /\ [Next]_vars => HolderBalanced'
  BY BalancedNext
<1> QED
  BY <1>1, <1>2, TypedAlways, PTL DEF Spec

-----------------------------------------------------------------------------
(***************************************************************************)
(* What a create has written.  RowsRooted and ConfirmedStored are not      *)
(* inductive: that a row refers to a node that is there, and a reply to    *)
(* rows that are, rests on what the handler did before.  Progress says it. *)
(***************************************************************************)

StoredIn(f, t, row) ==
  Own(t) => \E i \in DOMAIN f[t].rows : f[t].rows[i] = row

NodeIn(f, name) == StoredIn(f, "Nodes", NodeRow(name))

AttributesIn(f, r, n) ==
  \A i \in DOMAIN r.attributes :
    i < n => StoredIn(f, "Attributes", AttributeRow(r, i))

RelationsIn(f, r, n) ==
  \A i \in DOMAIN r.relations :
    i < n => StoredIn(f, "Relations", RelationRow(r, i))

Written(f, r) ==
  /\ NodeIn(f, r.name)
  /\ \A k \in DOMAIN r.attributes :
       StoredIn(f, "Attributes", AttributeRow(r, k))
  /\ \A k \in DOMAIN r.relations :
       StoredIn(f, "Relations", RelationRow(r, k))

Progress(f, j) ==
  LET r == j.request IN
  r.type = "C" =>
    /\ j.stage \notin {"find_node", "insert_node", "finished"} =>
         NodeIn(f, r.name)
    /\ j.stage = "insert_attribute" => AttributesIn(f, r, j.k)
    /\ j.stage \in Relating =>
         /\ AttributesIn(f, r, Len(r.attributes) + 1)
         /\ ~j.error => RelationsIn(f, r, j.k)
    /\ j.stage = "insert_relation" => NodeIn(f, r.relations[j.k])
    /\ j.stage = "finished" /\ ~j.error => Written(f, r)

\* Rows stay stored, and so what handlers have done.
LEMMA GrowStored ==
  ASSUME NEW f, NEW g, Grows(f, g), NEW t \in TableNames, NEW row,
         StoredIn(f, t, row)
  PROVE  StoredIn(g, t, row)
BY DEF Grows, StoredIn

LEMMA GrowParts ==
  ASSUME NEW f, NEW g, Grows(f, g)
  PROVE  /\ \A name : NodeIn(f, name) => NodeIn(g, name)
         /\ \A r, n : AttributesIn(f, r, n) => AttributesIn(g, r, n)
         /\ \A r, n : RelationsIn(f, r, n) => RelationsIn(g, r, n)
<1>1. {"Nodes", "Attributes", "Relations"} = TableNames
  BY DEF TableNames
<1> QED
  BY <1>1, GrowStored DEF NodeIn, AttributesIn, RelationsIn

LEMMA GrowProgress ==
  ASSUME NEW f, NEW g, Grows(f, g)
  PROVE  /\ \A r : Written(f, r) => Written(g, r)
         /\ \A j : Progress(f, j) => Progress(g, j)
<1>1. {"Nodes", "Attributes", "Relations"} = TableNames
  BY DEF TableNames
<1>2. \A r : Written(f, r) => Written(g, r)
  BY <1>1, GrowParts, GrowStored DEF Written
<1> QED
  BY <1>2, GrowParts DEF Progress

\* The first relation to be written, or all are.
LEMMA RelationProgress ==
  ASSUME NEW f, NEW j \in Jobs, j.request.type = "C", NEW k \in Nat \ {0},
         NodeIn(f, j.request.name),
         AttributesIn(f, j.request, Len(j.request.attributes) + 1),
         ~j.error => RelationsIn(f, j.request, k)
  PROVE  Progress(f, FromRelation(j, k))
<1> DEFINE n == FromRelation(j, k)
<1> SUFFICES Progress(f, n)
  OBVIOUS
<1>1. n.request = j.request /\ n.error = j.error
  BY RelationPlaces
<1>2. j.request.relations \in Seq(Names) /\ j.request.attributes \in Seq(Texts)
  BY CreateFields DEF Jobs
<1>3. CASE n.stage = "finished" /\ k > Len(j.request.relations)
  <2>1. RelationsIn(f, j.request, k) => Written(f, j.request)
    BY <1>2, <1>3 DEF AttributesIn, RelationsIn, Written
  <2> HIDE DEF n
  <2> QED
    BY <1>1, <1>3, <2>1 DEF Progress, Relating
<1>4. CASE n.stage = "find_related" /\ n.k = k
  <2> HIDE DEF n
  <2> QED
    BY <1>1, <1>4 DEF Progress
<1> QED
  BY <1>3, <1>4, RelationPlaces

\* So for attributes.
LEMMA AttributeProgress ==
  ASSUME NEW f, NEW j \in Jobs, j.request.type = "C", NEW k \in Nat \ {0},
         NodeIn(f, j.request.name), AttributesIn(f, j.request, k)
  PROVE  Progress(f, FromAttribute(j, k))
<1> DEFINE n == FromAttribute(j, k)
<1> SUFFICES Progress(f, n)
  OBVIOUS
<1>1. n.request = j.request /\ n.error = j.error
  BY AttributePlaces
<1>2. /\ j.request.attributes \in Seq(Texts)
      /\ j.request.relations \in Seq(Names)
  BY CreateFields DEF Jobs
<1>3. CASE n = FromRelation(j, 1) /\ k > Len(j.request.attributes)
  <2>1. AttributesIn(f, j.request, Len(j.request.attributes) + 1)
    BY <1>2, <1>3 DEF AttributesIn
  <2>2. RelationsIn(f, j.request, 1) /\ 1 \in Nat \ {0}
    BY <1>2 DEF RelationsIn
  <2> QED
    BY <1>3, <2>1, <2>2, RelationProgress
<1>4. CASE n.stage = "insert_attribute" /\ n.k = k
  <2> HIDE DEF n
  <2> QED
    BY <1>1, <1>4 DEF Progress, Relating
<1> QED
  BY <1>3, <1>4, AttributePlaces

\* A statement that was executed takes its handler on.
LEMMA FollowProgress ==
  ASSUME NEW f, NEW j, InPlace(j), Progress(f, j), NEW exists \in BOOLEAN,
         \/ j.stage \in Reading
         \/ j.stage \in {"find_node", "find_related"} /\ ~exists
         \/ StoredIn(f, Statement(j).table, Statement(j).row)
  PROVE  Progress(f, Follow(j, exists))
<1> DEFINE n == Follow(j, exists)
           r == j.request
<1> SUFFICES Progress(f, n)
  OBVIOUS
<1>1. j \in Jobs /\ n.request = r /\ n.error = j.error
  BY FollowPlaces DEF InPlace
<1>2. CASE j.stage \in Reading
  BY <1>1, <1>2 DEF InPlace, Progress
<1>3. ASSUME j.stage \in Creating PROVE r.type = "C"
  BY <1>3 DEF InPlace
<1>4. CASE j.stage \in {"find_node", "find_related"} /\ ~exists
  <2>1. CASE j.stage = "find_node"
    <3>1. n.stage = "insert_node"
      BY <1>1, <1>4, <2>1 DEF Follow, Jobs
    <3> HIDE DEF n
    <3> QED
      BY <1>1, <3>1 DEF Progress, Relating
  <2>2. CASE j.stage = "find_related"
    <3>1. n.stage = "insert_related" /\ n.k = j.k
      BY <1>1, <1>4, <2>2 DEF Follow, Jobs
    <3> HIDE DEF n
    <3> QED
      BY <1>1, <2>2, <3>1 DEF Progress, Relating
  <2> QED
    BY <1>4, <2>1, <2>2
<1>5. CASE /\ j.stage \in Creating
           /\ j.stage \in {"find_node", "find_related"} => exists
           /\ StoredIn(f, Statement(j).table, Statement(j).row)
  <2>1. CASE j.stage \in {"find_node", "insert_node"}
    <3>1. NodeIn(f, r.name)
      BY <1>5, <2>1 DEF Statement, NodeIn
    <3>2. n = FromAttribute(j, 1)
      BY <1>5, <2>1 DEF Follow
    <3>3. AttributesIn(f, r, 1) /\ 1 \in Nat \ {0}
      BY <1>1, <1>3, <1>5, CreateFields DEF AttributesIn, Jobs
    <3> QED
      BY <1>1, <1>3, <1>5, <3>1, <3>2, <3>3, AttributeProgress
  <2>2. CASE j.stage = "insert_attribute"
    <3>1. n = FromAttribute(j, j.k + 1) /\ j.k + 1 \in Nat \ {0}
      BY <1>1, <2>2 DEF Follow, Jobs
    <3>2. NodeIn(f, r.name) /\ AttributesIn(f, r, j.k)
      BY <1>3, <1>5, <2>2 DEF Progress
    <3>3. StoredIn(f, "Attributes", AttributeRow(r, j.k))
      BY <1>5, <2>2 DEF Statement
    <3>4. AttributesIn(f, r, j.k + 1)
      BY <1>1, <1>3, <1>5, <3>2, <3>3, CreateFields DEF AttributesIn, Jobs
    <3> QED
      BY <1>1, <1>3, <1>5, <3>1, <3>2, <3>4, AttributeProgress
  <2>3. CASE j.stage \in {"find_related", "insert_related"}
    <3>1. n.stage = "insert_relation" /\ n.k = j.k
      BY <1>1, <1>5, <2>3 DEF Follow, Jobs
    <3>2. NodeIn(f, r.relations[j.k])
      BY <1>5, <2>3 DEF Statement, NodeIn
    <3> HIDE DEF n
    <3> QED
      BY <1>1, <2>3, <3>1, <3>2 DEF Progress, Relating
  <2>4. CASE j.stage = "insert_relation"
    <3>1. n = FromRelation(j, j.k + 1) /\ j.k + 1 \in Nat \ {0}
      BY <1>1, <2>4 DEF Follow, Jobs
    <3>2. /\ NodeIn(f, r.name)
          /\ AttributesIn(f, r, Len(r.attributes) + 1)
          /\ ~j.error => RelationsIn(f, r, j.k)
      BY <1>3, <1>5, <2>4 DEF Progress, Relating
    <3>3. StoredIn(f, "Relations", RelationRow(r, j.k))
      BY <1>5, <2>4 DEF Statement
    <3>4. ~j.error => RelationsIn(f, r, j.k + 1)
      BY <1>1, <1>3, <1>5, <3>2, <3>3, CreateFields DEF RelationsIn, Jobs
    <3> QED
      BY <1>1, <1>3, <1>5, <3>1, <3>2, <3>4, RelationProgress
  <2> QED
    BY <1>5, <2>1, <2>2, <2>3, <2>4 DEF Creating, Relating
<1>6. j.stage \in Reading \/ j.stage \in Creating
  BY <1>1 DEF InPlace, Jobs
<1> QED
  BY <1>2, <1>4, <1>5, <1>6

\* One that threw leaves what was done.
LEMMA AfterErrorProgress ==
  ASSUME NEW f, NEW j, InPlace(j), Progress(f, j), j.stage \in Caught
  PROVE  Progress(f, AfterError(j))
<1> DEFINE n == AfterError(j)
<1> SUFFICES Progress(f, n)
  OBVIOUS
<1>1. /\ j \in Jobs /\ j.request.type = "C"
      /\ n.request = j.request /\ n.error
  BY AfterErrorPlaces DEF InPlace, Caught, Creating, Relating
<1>2. CASE j.stage \in {"find_node", "insert_node"}
  <2>1. n.stage = "finished"
    BY <1>1, <1>2 DEF AfterError, Jobs
  <2> HIDE DEF n
  <2> QED
    BY <1>1, <2>1 DEF Progress, Relating
<1>3. CASE j.stage \in {"find_related", "insert_related"}
  <2> DEFINE m == FromRelation(j, j.k + 1)
  <2>1. m \in Jobs /\ m.stage \in {"finished", "find_related"}
    <3>1. j.k + 1 \in Nat \ {0}
      BY <1>1 DEF Jobs
    <3> QED
      BY <1>1, <3>1, RelationPlaces DEF Ran
  <2>2. n = [m EXCEPT !.error = TRUE]
    BY <1>3 DEF AfterError
  <2> HIDE DEF m
  <2>3. n.stage \in {"finished", "find_related"}
    BY <2>1, <2>2 DEF Jobs
  <2>4. /\ NodeIn(f, j.request.name)
        /\ AttributesIn(f, j.request, Len(j.request.attributes) + 1)
    BY <1>1, <1>3 DEF Progress, Relating
  <2> HIDE DEF n
  <2> QED
    BY <1>1, <2>3, <2>4 DEF Progress, Relating
<1> QED
  BY <1>2, <1>3 DEF Caught

-----------------------------------------------------------------------------
(* What the rows of a file say together. *)

RootedIn(f) ==
  /\ \A i \in DOMAIN f["Attributes"].rows :
       NodeIn(f, f["Attributes"].rows[i][1])
  /\ \A i \in DOMAIN f["Relations"].rows : \A side \in {1, 2} :
       NodeIn(f, f["Relations"].rows[i][side])

\* The files processes find were written by this program, or by none.
SoundFiles ==
  \A f \in Files :
    f["Nodes"].form # "other" =>
      \A name :
        \/ \E i \in DOMAIN f["Attributes"].rows :
             f["Attributes"].rows[i][1] = name
        \/ \E i \in DOMAIN f["Relations"].rows : \E side \in {1, 2} :
             f["Relations"].rows[i][side] = name
        => \E i \in DOMAIN f["Nodes"].rows :
             f["Nodes"].rows[i] = NodeRow(name)

Sound ==
  /\ RootedIn(file)
  /\ \A r \in confirmed : Written(file, r)
  /\ \A p \in Processes : Working(p) => Progress(file, job[p])

LEMMA SoundInit == ASSUME SoundFiles, Init PROVE Sound
<1>1. file \in Files /\ found = file
  BY DEF Init
<1>2. RootedIn(file)
  BY <1>1 DEF SoundFiles, RootedIn, NodeIn, StoredIn, Own
<1> QED
  BY <1>1, <1>2 DEF Init, Sound, SoundFiles, Working

\* What an insert does to the rows.
LEMMA ExecuteRows ==
  ASSUME Typed, NEW p \in Processes, Execute(p), job[p].stage \in Inserts
  PROVE  LET s == Statement(job[p]) IN
         /\ \A t \in TableNames \ {s.table} : file'[t].rows = file[t].rows
         /\ file'[s.table].rows = Append(file[s.table].rows, s.row)
         /\ file[s.table].rows \in Seq(Rows)
         /\ s.table \in TableNames /\ s.row \in Rows
<1> DEFINE s == Statement(job[p])
<1>1. s.table \in TableNames /\ s.row \in Rows
  BY Statements, ExecuteContents
<1>2. file' = [file EXCEPT ![s.table].rows = Append(@, s.row)]
  BY DEF Execute
<1> SUFFICES /\ \A t \in TableNames \ {s.table} : file'[t].rows = file[t].rows
             /\ file'[s.table].rows = Append(file[s.table].rows, s.row)
             /\ file[s.table].rows \in Seq(Rows)
  BY <1>1
<1> HIDE DEF s
<1>3. file[s.table] \in [form : Forms, rows : Seq(Rows)]
  BY <1>1 DEF Typed, Contents
<1> QED
  BY <1>1, <1>2, <1>3 DEF Typed, Contents

\* What an insert adds is stored.
LEMMA ExecuteStores ==
  ASSUME Typed, NEW p \in Processes, Execute(p), job[p].stage \in Inserts
  PROVE  StoredIn(file', Statement(job[p]).table, Statement(job[p]).row)
<1> DEFINE t == Statement(job[p]).table
           row == Statement(job[p]).row
<1>1. /\ file'[t].rows = Append(file[t].rows, row)
      /\ file[t].rows \in Seq(Rows) /\ row \in Rows
  BY ExecuteRows
<1> SUFFICES StoredIn(file', t, row)
  OBVIOUS
<1> HIDE DEF t, row
<1>2. /\ Len(file[t].rows) + 1 \in DOMAIN file'[t].rows
      /\ file'[t].rows[Len(file[t].rows) + 1] = row
  BY <1>1, AppendProperties
<1> QED
  BY <1>2 DEF StoredIn

\* A row is added after the rows of the nodes it refers to.
LEMMA RootedExecute ==
  ASSUME Typed, RootedIn(file), OwnKept, NEW p \in Processes, Execute(p),
         Progress(file, job[p])
  PROVE  RootedIn(file')
<1> DEFINE j == job[p]
           s == Statement(j)
           r == j.request
<1>1. Grows(file, file') /\ InPlace(j)
  BY ExecuteContents DEF OwnKept
<1>2. \A name : NodeIn(file, name) => NodeIn(file', name)
  BY <1>1, GrowParts
<1>3. CASE j.stage \notin Inserts
  BY <1>3 DEF Execute
<1>4. CASE j.stage \in {"insert_node", "insert_related"}
  <2>1. s.table = "Nodes" /\ j.stage \in Inserts
    BY <1>4 DEF Statement, Inserts
  <2>2. /\ file'["Attributes"].rows = file["Attributes"].rows
        /\ file'["Relations"].rows = file["Relations"].rows
    BY <2>1, ExecuteRows DEF TableNames
  <2> QED
    BY <1>2, <2>2 DEF RootedIn
<1>5. CASE j.stage = "insert_attribute"
  <2>1. /\ s.table = "Attributes" /\ s.row = AttributeRow(r, j.k)
        /\ j.stage \in Inserts
    BY <1>5 DEF Statement, Inserts
  <2>2. NodeIn(file, s.row[1])
    BY <1>1, <1>5, <2>1 DEF Progress, InPlace, Creating, AttributeRow
  <2>3. /\ file'["Relations"].rows = file["Relations"].rows
        /\ file'["Attributes"].rows = Append(file["Attributes"].rows, s.row)
        /\ file["Attributes"].rows \in Seq(Rows) /\ s.row \in Rows
    BY <2>1, ExecuteRows DEF TableNames
  <2> HIDE DEF s
  <2>4. ASSUME NEW i \in DOMAIN file'["Attributes"].rows
        PROVE  NodeIn(file', file'["Attributes"].rows[i][1])
    <3>1. CASE i \in DOMAIN file["Attributes"].rows
      BY <1>2, <2>3, <3>1, AppendProperties DEF RootedIn
    <3>2. CASE i \notin DOMAIN file["Attributes"].rows
      <4>1. file'["Attributes"].rows[i] = s.row
        BY <2>3, <2>4, <3>2, AppendProperties
      <4> QED
        BY <1>2, <2>2, <4>1
    <3> QED
      BY <3>1, <3>2
  <2> QED
    BY <1>2, <2>3, <2>4 DEF RootedIn
<1>6. CASE j.stage = "insert_relation"
  <2>1. /\ s.table = "Relations" /\ s.row = RelationRow(r, j.k)
        /\ j.stage \in Inserts
    BY <1>6 DEF Statement, Inserts
  <2>2. \A side \in {1, 2} : NodeIn(file, s.row[side])
    BY <1>1, <1>6, <2>1 DEF Progress, InPlace, Creating, Relating, RelationRow
  <2>3. /\ file'["Attributes"].rows = file["Attributes"].rows
        /\ file'["Relations"].rows = Append(file["Relations"].rows, s.row)
        /\ file["Relations"].rows \in Seq(Rows) /\ s.row \in Rows
    BY <2>1, ExecuteRows DEF TableNames
  <2> HIDE DEF s
  <2>4. ASSUME NEW i \in DOMAIN file'["Relations"].rows, NEW side \in {1, 2}
        PROVE  NodeIn(file', file'["Relations"].rows[i][side])
    <3>1. CASE i \in DOMAIN file["Relations"].rows
      BY <1>2, <2>3, <3>1, AppendProperties DEF RootedIn
    <3>2. CASE i \notin DOMAIN file["Relations"].rows
      <4>1. file'["Relations"].rows[i] = s.row
        BY <2>3, <2>4, <3>2, AppendProperties
      <4> QED
        BY <1>2, <2>2, <4>1
    <3> QED
      BY <3>1, <3>2
  <2> QED
    BY <1>2, <2>3, <2>4 DEF RootedIn
<1> QED
  BY <1>3, <1>4, <1>5, <1>6 DEF Inserts

\* Making and dropping tables leaves rows, or takes all of one table.
LEMMA TablesSound ==
  ASSUME Typed, Formed, RootedIn(file), OwnKept,
         NEW p \in Processes, DropTable(p) \/ CreateTable(p)
  PROVE  RootedIn(file')
<1>1. \A t \in TableNames :
        file'[t].rows = file[t].rows \/ file'[t].rows = <<>>
  <2>1. ASSUME NEW t \in TableNames
        PROVE  file'[t].rows = file[t].rows \/ file'[t].rows = <<>>
    <3>1. file[t] \in [form : Forms, rows : Seq(Rows)]
      BY DEF Typed, Contents
    <3>2. \/ file' = file
          \/ file' = [file EXCEPT ![Name(p)] = NoTable]
          \/ file' = [file EXCEPT ![Name(p)].form = "current"]
      BY DEF DropTable, CreateTable
    <3>3. CASE t = Name(p)
      BY <3>1, <3>2, <3>3 DEF NoTable, Typed, Contents
    <3>4. CASE t # Name(p)
      BY <3>2, <3>4 DEF Typed, Contents
    <3> QED
      BY <3>3, <3>4
  <2> QED
    BY <2>1
<1>2. \A name : NodeIn(file, name) => NodeIn(file', name)
  BY GrowParts DEF OwnKept
<1>3. {"Nodes", "Attributes", "Relations"} = TableNames
  BY DEF TableNames
<1> QED
  BY <1>1, <1>2, <1>3 DEF RootedIn

\* What is sound after a step, in the words of the state before.
After ==
  /\ RootedIn(file')
  /\ \A r \in confirmed' : Written(file', r)
  /\ \A q \in Processes : Working(q)' => Progress(file', job'[q])

LEMMA AfterSound == ASSUME After, UNCHANGED found PROVE Sound'
<1>1. \A t : Own(t)' = Own(t)
  BY DEF Own
<1>2. RootedIn(file)'
  BY <1>1 DEF After, RootedIn, NodeIn, StoredIn
<1>3. (\A r \in confirmed : Written(file, r))'
  BY <1>1 DEF After, Written, NodeIn, AttributesIn, RelationsIn, StoredIn
<1>4. ASSUME NEW q \in Processes, Working(q)' PROVE Progress(file, job[q])'
  <2>1. Progress(file', job'[q])
    BY <1>4 DEF After
  <2> QED
    BY <1>1, <2>1
    DEF Progress, Written, NodeIn, AttributesIn, RelationsIn, StoredIn
<1> QED
  BY <1>2, <1>3, <1>4 DEF Sound

\* Nobody begins or finishes anything, and at most one process stops.
LEMMA SoundIdle ==
  ASSUME Typed, Sound, OwnKept, RootedIn(file'),
         UNCHANGED confirmed,
         \A q \in Processes : Working(q)' => Working(q) /\ job'[q] = job[q]
  PROVE  After
BY GrowProgress DEF Sound, After, OwnKept

LEMMA SoundEnd ==
  ASSUME Typed, Sound, OwnKept, UNCHANGED <<file, confirmed>>,
         NEW p \in Processes, End(p)
  PROVE  After
<1>1. \A q \in Processes : Working(q)' => Working(q) /\ job'[q] = job[q]
  BY DEF End, Typed, Working
<1>2. RootedIn(file')
  BY DEF Sound
<1> QED
  BY <1>1, <1>2, SoundIdle

\* A handler goes on, or is finished and confirms what it has written.
LEMMA SoundGoes ==
  ASSUME Typed, Sound, OwnKept, RootedIn(file'),
         NEW p \in Processes, NEW n, Goes(p, n), Ran(n), Progress(file', n)
  PROVE  After
<1>1. \A r : Written(file, r) => Written(file', r)
  BY GrowProgress DEF OwnKept
<1>2. \A q \in Processes \ {p} : Working(q) => Progress(file', job[q])
  BY GrowProgress DEF OwnKept, Sound
<1>3. \A q \in Processes \ {p} :
        (Working(q)' <=> Working(q)) /\ job'[q] = job[q]
  BY DEF Goes, Typed, Working
<1>4. CASE n.stage = "finished"
  <2>1. ~Working(p)'
    BY <1>4 DEF Goes, Typed, Working
  <2>2. ASSUME NEW r \in confirmed' PROVE Written(file', r)
    <3>1. CASE r \in confirmed
      BY <1>1, <3>1 DEF Sound
    <3>2. CASE r \notin confirmed
      <4>1. n.request.type = "C" /\ ~n.error /\ r = n.request
        BY <1>4, <2>2, <3>2 DEF Goes
      <4> QED
        BY <1>4, <4>1 DEF Progress
    <3> QED
      BY <3>1, <3>2
  <2> QED
    BY <1>2, <1>3, <2>1, <2>2 DEF After
<1>5. CASE n.stage # "finished"
  <2>1. job'[p] = n /\ UNCHANGED confirmed
    BY <1>5 DEF Goes, Typed, Ran
  <2>2. \A r \in confirmed' : Written(file', r)
    BY <1>1, <2>1 DEF Sound
  <2> QED
    BY <1>2, <1>3, <2>1, <2>2 DEF After
<1> QED
  BY <1>4, <1>5

LEMMA SoundThrow ==
  ASSUME Typed, Sound, OwnKept, UNCHANGED file,
         NEW p \in Processes, NEW h, Working(p), Throw(p, h)
  PROVE  After
<1>1. InPlace(job[p]) /\ Progress(file, job[p])
  BY DEF Typed, Sound
<1>2. RootedIn(file')
  BY DEF Sound
<1>3. CASE job[p].stage \in Caught
  <2>1. Ran(AfterError(job[p])) /\ Progress(file', AfterError(job[p]))
    BY <1>1, <1>3, AfterErrorPlaces, AfterErrorProgress
  <2> QED
    BY <1>2, <1>3, <2>1, SoundGoes DEF Throw
<1>4. CASE job[p].stage \notin Caught
  BY <1>4, SoundEnd DEF Throw
<1> QED
  BY <1>3, <1>4

\* Every step leaves the file sound.
LEMMA SoundNext == Typed /\ Formed /\ Sound /\ [Next]_vars => Sound'
<1> SUFFICES ASSUME Typed, Formed, Sound, [Next]_vars PROVE After
  BY OwnKeptNext, AfterSound DEF OwnKept
<1>1. OwnKept /\ RootedIn(file)
  BY OwnKeptNext DEF Sound
<1>2. ASSUME NEW p \in Processes, Start(p) \/ TableExists(p) \/ TableInfo(p)
      PROVE  After
  <2>1. UNCHANGED <<file, confirmed, job>>
    BY <1>2 DEF Start, TableExists, TableInfo, Done
  <2>2. \A q \in Processes : Working(q)' => Working(q)
    BY <1>2 DEF Start, TableExists, TableInfo, Done, Typed, Working
  <2> QED
    BY <1>1, <2>1, <2>2, SoundIdle
<1>3. ASSUME NEW p \in Processes, DropTable(p) \/ CreateTable(p) PROVE After
  <2>1. UNCHANGED confirmed
    BY <1>3 DEF DropTable, CreateTable
  <2>2. \A q \in Processes : Working(q)' => Working(q) /\ job'[q] = job[q]
    BY <1>3 DEF DropTable, CreateTable, Done, End, Typed, Working
  <2> QED
    BY <1>1, <1>3, <2>1, <2>2, TablesSound, SoundIdle
<1>4. ASSUME NEW p \in Processes, SyncLocked(p) \/ Die(p) PROVE After
  BY <1>1, <1>4, SoundEnd DEF SyncLocked, Die
<1>5. ASSUME NEW p \in Processes, Receive(p) PROVE After
  <2>1. PICK r \in Requests :
          job' = [job EXCEPT ![p] =
                    [request |-> r, k |-> 1, error |-> FALSE,
                     stage |-> IF r.type = "C" THEN "find_node"
                                               ELSE "read_attributes"]]
    BY <1>5 DEF Receive
  <2>2. /\ job'[p].request = r
        /\ r.type = "C" => job'[p].stage = "find_node"
    BY <2>1 DEF Typed
  <2>3. Progress(file', job'[p])
    BY <2>2 DEF Progress, Relating
  <2>4. \A q \in Processes \ {p} :
          job'[q] = job[q] /\ (Working(q)' => Working(q))
    BY <1>5, <2>1 DEF Receive, Typed, Working
  <2>5. UNCHANGED <<file, confirmed>>
    BY <1>5 DEF Receive
  <2>6. \A q \in Processes \ {p} : Working(q)' => Progress(file', job'[q])
    BY <2>4, <2>5 DEF Sound
  <2> QED
    BY <1>1, <2>3, <2>5, <2>6 DEF After, Sound
<1>6. ASSUME NEW p \in Processes, Prepare(p) PROVE After
  <2>1. UNCHANGED <<file, confirmed, job>>
    BY <1>6 DEF Prepare
  <2>2. \A q \in Processes : Working(q)' => Working(q)
    BY <1>6 DEF Prepare, Typed, Working
  <2> QED
    BY <1>1, <2>1, <2>2, SoundIdle
<1>7. ASSUME NEW p \in Processes,
             \/ PrepareThrows(p) \/ OpenFails(p) \/ Misuse(p)
             \/ ExecuteThrows(p)
      PROVE  After
  <2>1. Working(p) /\ UNCHANGED file /\ \E h : Throw(p, h)
    BY <1>7 DEF PrepareThrows, OpenFails, Misuse, ExecuteThrows, Working
  <2> QED
    BY <1>1, <2>1, SoundThrow
<1>8. ASSUME NEW p \in Processes, Execute(p) PROVE After
  <2> DEFINE j == job[p]
             s == Statement(j)
  <2>1. /\ InPlace(j) /\ Progress(file, j)
    BY <1>8 DEF Execute, Typed, Sound, Working
  <2>2. Progress(file', j)
    BY <1>1, <2>1, GrowProgress DEF OwnKept
  <2>3. PICK exists \in BOOLEAN :
          /\ Goes(p, Follow(j, exists))
          /\ exists <=> j.stage \in Caught /\ Exists(s.table, s.row)
    BY <1>8 DEF Execute
  <2>4. \/ j.stage \in Reading
        \/ j.stage \in {"find_node", "find_related"} /\ ~exists
        \/ StoredIn(file', s.table, s.row)
    <3>1. CASE j.stage \in Inserts
      BY <1>8, <3>1, ExecuteStores
    <3>2. CASE j.stage \in {"find_node", "find_related"} /\ exists
      <4>1. Exists(s.table, s.row) /\ file' = file
        BY <1>8, <2>3, <3>2 DEF Execute, Inserts
      <4> QED
        BY <4>1 DEF StoredIn, Exists
    <3> QED
      BY <2>1, <3>1, <3>2
      DEF InPlace, Jobs, Creating, Relating, Inserts
  <2>5. Ran(Follow(j, exists)) /\ Progress(file', Follow(j, exists))
    BY <2>1, <2>2, <2>4, FollowPlaces, FollowProgress
  <2>6. RootedIn(file')
    BY <1>1, <1>8, <2>1, RootedExecute
  <2> QED
    BY <1>1, <2>3, <2>5, <2>6, SoundGoes
<1>9. CASE UNCHANGED vars
  <2>1. \A q \in Processes : Working(q)' => Working(q) /\ job'[q] = job[q]
    BY <1>9 DEF vars, Working
  <2> QED
    BY <1>1, <1>9, <2>1, SoundIdle DEF vars
<1> QED
  BY <1>2, <1>3, <1>4, <1>5, <1>6, <1>7, <1>8, <1>9 DEF Next

LEMMA SoundAlways == ASSUME SoundFiles PROVE Spec => []Sound
<1>1. Init => Sound
  BY SoundInit
<1>2. Typed /\ Formed /\ Sound /\ [Next]_vars => Sound'
  BY SoundNext
<1> QED
  BY <1>1, <1>2, TypedAlways, FormedAlways, PTL DEF Spec

\* No row refers to a node that is not there, whatever failed or died.
THEOREM RowsAreRooted ==
  ASSUME SoundFiles
  PROVE  Spec => []RowsRooted
<1>1. Sound => RowsRooted
  BY DEF Sound, RootedIn, NodeIn, StoredIn, RowsRooted, Exists
<1> QED
  BY <1>1, SoundAlways, PTL

\* A create that was confirmed without an error is in the file.
THEOREM ConfirmedIsStored ==
  ASSUME SoundFiles
  PROVE  Spec => []ConfirmedStored
<1>1. Sound => ConfirmedStored
  BY DEF Sound, Written, NodeIn, StoredIn, ConfirmedStored, Exists
<1> QED
  BY <1>1, SoundAlways, PTL

=============================================================================
