------------------------------- MODULE Storage -------------------------------
(***************************************************************************)
(* The file dgdb_data.sqlite3 and the processes that use it.  Every DGDB   *)
(* object opens the file in its working directory and brings its tables    *)
(* into the form of InitStorage (DBSchema.h), whatever its mode; the       *)
(* repositories then read and write it, statement by statement, each       *)
(* statement opening the file anew (sqlite_orm.h).  Nothing is done in a   *)
(* transaction, and there is no busy handler: what finds the file locked   *)
(* throws at once.                                                         *)
(*                                                                         *)
(* SQLite itself is external: a statement is atomic, a name is unique in   *)
(* a table that says so, and a file in use by another may be locked.       *)
(***************************************************************************)
EXTENDS Integers, Sequences, FiniteSets

CONSTANTS
  Names,       \* of nodes
  Texts,       \* what is stored of an attribute: its key and value
  Processes,   \* those that were started in the same directory
  Requests,    \* what repositories may have to carry out
  Files,       \* the files they may find
  MaxRequests, \* bound: how many requests are carried out
  MaxFailures  \* bound: how many opens fail and processes die

TableNames == {"Nodes", "Attributes", "Relations"}

\* none: no such table.  other: a column is missing, is too many, or differs.
Forms == {"none", "current", "other"}

Rows == {<<name>> : name \in Names} \cup (Names \X Texts) \cup (Names \X Names)

\* A create, and a query.
ASSUME RequestsAssumption ==
  Requests \subseteq
    [type : {"C"}, name : Names, attributes : Seq(Texts), relations : Seq(Names)]
    \cup [type : {"R"}, name : Names]

ASSUME FilesAssumption ==
  Files \subseteq [TableNames -> [form : Forms, rows : Seq(Rows)]]

VARIABLES
  file,      \* its tables: their form, and their rows in order
  found,     \* history: the file as it was when the first process started
  at,        \* what each process does next
  table,     \* the table that is brought into form, as a place in Tables
  job,       \* the request that is carried out, and how far
  holder,    \* connection_holder: references, and whether the open failed
  carried,   \* history: how many requests were begun
  failures,  \* history: how many opens failed and processes died
  confirmed  \* history: the creates that were confirmed without an error

vars == <<file, found, at, table, job, holder, carried, failures, confirmed>>

\* Faulty: a table is forgotten.
FaultyTables == <<"Relations", "Attributes">>

\* storage_impl::for_each begins with the last table of make_storage.
Tables == <<"Relations", "Attributes", "Nodes">>

UniqueTables == {"Nodes"}

NoTable == [form |-> "none", rows |-> <<>>]

NoJob == [stage |-> "none"]
Closed == [references |-> 0, failed |-> FALSE]

Init ==
  /\ file \in Files
  /\ found = file
  /\ at = [p \in Processes |-> "down"]
  /\ table = [p \in Processes |-> 1]
  /\ job = [p \in Processes |-> NoJob]
  /\ holder = [p \in Processes |-> Closed]
  /\ carried = 0
  /\ failures = 0
  /\ confirmed = {}

-----------------------------------------------------------------------------
(* connection_holder and connection_ref *)

\* retain: the first reference opens the file.
Opens(p) == holder[p].references = 0

Retained(h) == [h EXCEPT !.references = @ + 1]
Released(h) == [h EXCEPT !.references = @ - 1]

\* What is not caught ends the process, and so does its death.
End(p) ==
  /\ at' = [at EXCEPT ![p] = "down"]
  /\ table' = [table EXCEPT ![p] = 1]
  /\ job' = [job EXCEPT ![p] = NoJob]
  /\ holder' = [holder EXCEPT ![p] = Closed]

Syncing(p) == at[p] \in {"exists", "info", "drop", "create"}

\* Another process is in a statement, or in sync_schema.
InUse(p) == \E q \in Processes \ {p} : Syncing(q) \/ at[q] = "execute"

Fails == failures < MaxFailures /\ failures' = failures + 1

-----------------------------------------------------------------------------
(* sync_schema, from the constructor of DGDB: preserve is FALSE. *)

Name(p) == Tables[table[p]]

Done(p) ==
  IF table[p] < Len(Tables)
    THEN /\ at' = [at EXCEPT ![p] = "exists"]
         /\ table' = [table EXCEPT ![p] = @ + 1]
         /\ UNCHANGED <<job, holder>>
    ELSE /\ at' = [at EXCEPT ![p] = "ready"]
         /\ table' = [table EXCEPT ![p] = 1]
         /\ holder' = [holder EXCEPT ![p] = Released(@)]
         /\ UNCHANGED job

\* A process whose open fails here has ended before it began.
Start(p) ==
  /\ at[p] = "down"
  /\ at' = [at EXCEPT ![p] = "exists"]
  /\ holder' = [holder EXCEPT ![p] = Retained(@)]
  /\ UNCHANGED <<file, found, table, job, carried, failures, confirmed>>

TableExists(p) ==
  /\ at[p] = "exists"
  /\ at' = [at EXCEPT ![p] = IF file[Name(p)].form = "none"
                               THEN "create" ELSE "info"]
  /\ UNCHANGED <<file, found, table, job, holder, carried, failures,
                 confirmed>>

\* All columns are NOT NULL and have no default: one that is missing means
\* to drop the table, as one too many does, and as all of them do if the
\* table has gone in the meantime.
TableInfo(p) ==
  /\ at[p] = "info"
  /\ IF file[Name(p)].form = "current"
       THEN Done(p)
       ELSE at' = [at EXCEPT ![p] = "drop"] /\ UNCHANGED <<table, job, holder>>
  /\ UNCHANGED <<file, found, carried, failures, confirmed>>

\* "no such table" is not caught.
DropTable(p) ==
  /\ at[p] = "drop"
  /\ IF file[Name(p)].form = "none"
       THEN End(p) /\ UNCHANGED file
       ELSE /\ file' = [file EXCEPT ![Name(p)] = NoTable]
            /\ at' = [at EXCEPT ![p] = "create"]
            /\ UNCHANGED <<table, job, holder>>
  /\ UNCHANGED <<found, carried, failures, confirmed>>

\* Faulty: a table that is there is replaced.
FaultyCreateTable(p) ==
  /\ at[p] = "create"
  /\ file' = [file EXCEPT ![Name(p)] = [form |-> "current", rows |-> <<>>]]
  /\ Done(p)
  /\ UNCHANGED <<found, carried, failures, confirmed>>

\* Nor is "table already exists".
CreateTable(p) ==
  /\ at[p] = "create"
  /\ IF file[Name(p)].form = "none"
       THEN /\ file' = [file EXCEPT ![Name(p)].form = "current"]
            /\ Done(p)
       ELSE End(p) /\ UNCHANGED file
  /\ UNCHANGED <<found, carried, failures, confirmed>>

\* Nor that the file is locked.
SyncLocked(p) ==
  /\ Syncing(p)
  /\ InUse(p)
  /\ End(p)
  /\ UNCHANGED <<file, found, carried, failures, confirmed>>

-----------------------------------------------------------------------------
(***************************************************************************)
(* What a repository does with the file: a create looks its node up and    *)
(* adds it if it is not there, adds the attributes, and for each relation  *)
(* looks up, and maybe adds, the related node, and adds the relation.  A   *)
(* query reads the attributes and the relations.                           *)
(***************************************************************************)
NodeRow(name) == <<name>>
AttributeRow(r, k) == <<r.name, r.attributes[k]>>
RelationRow(r, k) == <<r.name, r.relations[k]>>

Statement(j) ==
  LET r == j.request IN
  CASE j.stage \in {"find_node", "insert_node"} ->
         [table |-> "Nodes", row |-> NodeRow(r.name)]
    [] j.stage \in {"find_related", "insert_related"} ->
         [table |-> "Nodes", row |-> NodeRow(r.relations[j.k])]
    [] j.stage = "insert_attribute" ->
         [table |-> "Attributes", row |-> AttributeRow(r, j.k)]
    [] j.stage = "insert_relation" ->
         [table |-> "Relations", row |-> RelationRow(r, j.k)]
    [] j.stage = "read_attributes" -> [table |-> "Attributes"]
    [] j.stage = "read_relations"  -> [table |-> "Relations"]

Inserts == {"insert_node", "insert_attribute", "insert_related",
            "insert_relation"}

Finished(j) == [j EXCEPT !.stage = "finished"]

FromRelation(j, k) ==
  IF k > Len(j.request.relations) THEN Finished(j)
  ELSE [j EXCEPT !.stage = "find_related", !.k = k]

FromAttribute(j, k) ==
  IF k > Len(j.request.attributes) THEN FromRelation(j, 1)
  ELSE [j EXCEPT !.stage = "insert_attribute", !.k = k]

\* Where the handler goes when a statement has been executed.
Follow(j, exists) ==
  CASE j.stage = "find_node" ->
         IF exists THEN FromAttribute(j, 1)
                   ELSE [j EXCEPT !.stage = "insert_node"]
    [] j.stage = "insert_node" -> FromAttribute(j, 1)
    [] j.stage = "insert_attribute" -> FromAttribute(j, j.k + 1)
    [] j.stage = "find_related" ->
         [j EXCEPT !.stage = IF exists THEN "insert_relation"
                                       ELSE "insert_related"]
    [] j.stage = "insert_related" -> [j EXCEPT !.stage = "insert_relation"]
    [] j.stage = "insert_relation" -> FromRelation(j, j.k + 1)
    [] j.stage = "read_attributes" -> [j EXCEPT !.stage = "read_relations"]
    [] j.stage = "read_relations" -> Finished(j)

\* Faulty: the relation is written all the same.
FaultyAfterError(j) ==
  IF j.stage \in {"find_node", "insert_node"}
    THEN [j EXCEPT !.stage = "finished", !.error = TRUE]
    ELSE [j EXCEPT !.stage = "insert_relation", !.error = TRUE]

\* Faulty: the reply says nothing of the error.
FaultyForgetsError(j) ==
  IF j.stage \in {"find_node", "insert_node"}
    THEN [j EXCEPT !.stage = "finished", !.error = TRUE]
    ELSE FromRelation(j, j.k + 1)

\* Where it goes when one has thrown, at the two places that are in a try.
AfterError(j) ==
  IF j.stage \in {"find_node", "insert_node"}
    THEN [j EXCEPT !.stage = "finished", !.error = TRUE]
    ELSE [FromRelation(j, j.k + 1) EXCEPT !.error = TRUE]

Caught == {"find_node", "insert_node", "find_related", "insert_related"}

Goes(p, next) ==
  IF next.stage = "finished"
    THEN /\ at' = [at EXCEPT ![p] = "ready"]
         /\ job' = [job EXCEPT ![p] = NoJob]
         /\ confirmed' = IF next.request.type = "C" /\ ~next.error
                           THEN confirmed \cup {next.request} ELSE confirmed
    ELSE /\ at' = [at EXCEPT ![p] = "prepare"]
         /\ job' = [job EXCEPT ![p] = next]
         /\ UNCHANGED confirmed

\* A statement throws; h is what is left of the holder then.
Throw(p, h) ==
  IF job[p].stage \in Caught
    THEN /\ Goes(p, AfterError(job[p]))
         /\ holder' = [holder EXCEPT ![p] = h]
         /\ UNCHANGED table
    ELSE End(p) /\ UNCHANGED confirmed

Receive(p) ==
  /\ at[p] = "ready"
  /\ carried < MaxRequests
  /\ carried' = carried + 1
  /\ \E r \in Requests :
       job' = [job EXCEPT ![p] =
                 [request |-> r, k |-> 1, error |-> FALSE,
                  stage |-> IF r.type = "C" THEN "find_node"
                                            ELSE "read_attributes"]]
  /\ at' = [at EXCEPT ![p] = "prepare"]
  /\ UNCHANGED <<file, found, table, holder, failures, confirmed>>

Missing(p) == file[Statement(job[p]).table].form = "none"

\* Faulty: what throws in prepare leaves a reference behind.
FaultyPrepareThrows(p) ==
  /\ at[p] = "prepare"
  /\ ~holder[p].failed
  /\ Missing(p) \/ InUse(p)
  /\ Throw(p, Retained(holder[p]))
  /\ UNCHANGED <<file, found, carried, failures>>

\* get_connection opens the file; the statement keeps the connection.
Prepare(p) ==
  /\ at[p] = "prepare"
  /\ ~holder[p].failed
  /\ ~Missing(p)
  /\ holder' = [holder EXCEPT ![p] = Retained(@)]
  /\ at' = [at EXCEPT ![p] = "execute"]
  /\ UNCHANGED <<file, found, table, job, carried, failures, confirmed>>

\* The table is missing or the file locked.
PrepareThrows(p) ==
  /\ at[p] = "prepare"
  /\ ~holder[p].failed
  /\ Missing(p) \/ InUse(p)
  /\ Throw(p, Released(Retained(holder[p])))
  /\ UNCHANGED <<file, found, carried, failures>>

\* retain throws, and nothing takes the reference back.
OpenFails(p) ==
  /\ at[p] = "prepare"
  /\ Opens(p)
  /\ Fails
  /\ Throw(p, [Retained(holder[p]) EXCEPT !.failed = TRUE])
  /\ UNCHANGED <<file, found, carried>>

\* So the file is never opened again: every statement is a misuse.
Misuse(p) ==
  /\ at[p] = "prepare"
  /\ holder[p].failed
  /\ Throw(p, Released(Retained(holder[p])))
  /\ UNCHANGED <<file, found, carried, failures>>

Exists(t, row) == \E i \in DOMAIN file[t].rows : file[t].rows[i] = row

Violates(j) ==
  LET s == Statement(j) IN
  j.stage \in Inserts /\ s.table \in UniqueTables /\ Exists(s.table, s.row)

Execute(p) ==
  LET j == job[p]
      s == Statement(j)
  IN
  /\ at[p] = "execute"
  /\ ~Missing(p)
  /\ ~Violates(j)
  /\ file' = IF j.stage \in Inserts
               THEN [file EXCEPT ![s.table].rows = Append(@, s.row)]
               ELSE file
  /\ Goes(p, Follow(j, j.stage \in Caught /\ Exists(s.table, s.row)))
  /\ holder' = [holder EXCEPT ![p] = Released(@)]
  /\ UNCHANGED <<found, table, carried, failures>>

ExecuteThrows(p) ==
  /\ at[p] = "execute"
  /\ Missing(p) \/ Violates(job[p]) \/ InUse(p)
  /\ Throw(p, Released(holder[p]))
  /\ UNCHANGED <<file, found, carried, failures>>

Die(p) ==
  /\ at[p] # "down"
  /\ Fails
  /\ End(p)
  /\ UNCHANGED <<file, found, carried, confirmed>>

Next ==
  \E p \in Processes :
    \/ Start(p) \/ TableExists(p) \/ TableInfo(p) \/ DropTable(p)
    \/ CreateTable(p) \/ SyncLocked(p)
    \/ Receive(p) \/ Prepare(p) \/ PrepareThrows(p) \/ OpenFails(p)
    \/ Misuse(p) \/ Execute(p) \/ ExecuteThrows(p) \/ Die(p)

Spec == Init /\ [][Next]_vars

-----------------------------------------------------------------------------
(* Properties. *)

Own(t) == found[t].form # "other"

(***************************************************************************)
(* RowsStay: a table this program has made is never dropped, and its rows  *)
(* stay, whatever processes look for it, make it and die at the same time: *)
(* schema_status is read some statements before it is acted on.            *)
(***************************************************************************)
RowsStay ==
  [][\A t \in DOMAIN file : Own(t) =>
       \A i \in DOMAIN file[t].rows :
         i \in DOMAIN file'[t].rows /\ file'[t].rows[i] = file[t].rows[i]]_vars

(***************************************************************************)
(* ReadyFindsTables: who has come out of the constructor finds all three   *)
(* tables whenever it uses them, unless the file was made by another       *)
(* version: then a process that looked at it before may drop them again.   *)
(***************************************************************************)
ReadyFindsTables ==
  \A p \in Processes : at[p] \in {"ready", "prepare", "execute"} =>
    \A t \in DOMAIN file : Own(t) => file[t].form = "current"

(***************************************************************************)
(* HolderBalanced: the file is open exactly during a statement and during  *)
(* sync_schema, however they end; only a failed open leaves a reference.   *)
(***************************************************************************)
HolderBalanced ==
  \A p \in Processes :
    holder[p].references = (IF Syncing(p) \/ at[p] = "execute" THEN 1 ELSE 0)
                             + (IF holder[p].failed THEN 1 ELSE 0)

(***************************************************************************)
(* RowsRooted: in tables this program has made an attribute has its node,  *)
(* and a relation both its nodes, whichever statements failed.             *)
(***************************************************************************)
RowsRooted ==
  Own("Nodes") =>
    /\ \A i \in DOMAIN file["Attributes"].rows :
         Exists("Nodes", NodeRow(file["Attributes"].rows[i][1]))
    /\ \A i \in DOMAIN file["Relations"].rows : \A side \in {1, 2} :
         Exists("Nodes", NodeRow(file["Relations"].rows[i][side]))

(***************************************************************************)
(* ConfirmedStored: a create that was confirmed without an error has its   *)
(* node, all its attributes and all its relations in the file, whatever    *)
(* other processes wrote, failed at or died of in the meantime.            *)
(***************************************************************************)
ConfirmedStored ==
  \A r \in confirmed :
    /\ Own("Nodes") => Exists("Nodes", NodeRow(r.name))
    /\ Own("Attributes") => \A k \in DOMAIN r.attributes :
         Exists("Attributes", AttributeRow(r, k))
    /\ Own("Relations") => \A k \in DOMAIN r.relations :
         Exists("Relations", RelationRow(r, k))

=============================================================================
