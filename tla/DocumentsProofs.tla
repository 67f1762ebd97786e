--------------------------- MODULE DocumentsProofs ---------------------------
(***************************************************************************)
(* Proofs about Documents, for every finite set of projects, every number  *)
(* of requests in flight and every limit of the plan.                      *)
(***************************************************************************)
EXTENDS Documents, FiniteSetTheorems, FunctionTheorems, Integers, TLAPS

Task == [op : {"none", "create", "upload", "contract", "delete"},
         at : {"none", "create", "read", "put", "insert", "write", "remove"},
         project : Projects \cup {Nothing}, rows : 0..MaxRows, doc : Docs \cup {Nothing},
         size : 0..MaxText, old : 0..MaxText, keys : SUBSET Docs, stale : BOOLEAN]

-----------------------------------------------------------------------------
(* The inductive invariant                                                 *)

OnLoop == {"put", "insert", "write"}

\* What a request does is one of its operation's steps, about a project there is or, for
\* a creation, is not; the uploads and texts past the limits are on the loop.
TaskShape ==
  \A h \in Requests :
    /\ <<task[h].op, task[h].at>> \in
         {<<"none", "none">>, <<"create", "create">>, <<"upload", "read">>, <<"upload", "put">>,
          <<"upload", "insert">>, <<"contract", "read">>, <<"contract", "write">>,
          <<"delete", "remove">>}
    /\ task[h].op # "none" => task[h].project \in Projects
    /\ loop = h <=> task[h].at \in OnLoop
    /\ task[h].doc # Nothing <=> task[h].at = "insert"
    /\ task[h].keys # {} => task[h].op = "delete"
    /\ task[h].op = "upload" => task[h].rows > 0

\* A project that is created is there for nobody yet.
NewProjects ==
  /\ \A h \in Requests :
       task[h].op # "none" => (task[h].op = "create" <=> project[task[h].project] = "none")
  /\ \A h, g \in Requests :
       task[h].op = "create" /\ task[g].op = "create" /\ task[h].project = task[g].project => h = g

Rows == Cardinality(Registered)
Measured == Projects \ history.unmeasured
Counted == Active \ history.uncounted

\* A creation that nobody has outdated has room for its project.
CountInv ==
  /\ Cardinality(Counted) <= MaxActive
  /\ \A h \in Requests :
       task[h].at = "create" /\ ~task[h].stale => Cardinality(Counted) + 1 <= MaxActive

\* A contract that nobody has outdated knows the text stored.
TextReading ==
  \A h \in Requests :
    task[h].op = "contract" /\ ~task[h].stale => task[h].old = text[task[h].project]

\* Whoever is on the loop has room for what it is about to add.
UploadRoom ==
  \A h \in Requests :
    task[h].at \in {"put", "insert"} =>
      Rows + task[h].rows <= MaxDocs /\ Rows + Units(Measured) + task[h].rows <= MaxStorage
TextRoom ==
  \A h \in Requests :
    task[h].at = "write" /\ ~task[h].stale =>
      Rows + Units(Measured \ {task[h].project}) + task[h].size <= MaxStorage
SpaceInv ==
  /\ Rows <= MaxDocs /\ Rows + Units(Measured) <= MaxStorage
  /\ UploadRoom /\ TextRoom

\* The content of a row to come is stored and in nobody's way; a deletion's are its
\* project's.
KeysKnown ==
  \A h \in Requests :
    /\ task[h].at = "insert" =>
         /\ task[h].doc \in blob /\ doc[task[h].doc] = Nothing
         /\ \A g \in Requests : task[h].doc \notin task[g].keys
    /\ task[h].op = "delete" =>
         /\ task[h].project \in history.doomed
         /\ \A d \in task[h].keys : doc[d] \in {task[h].project, Nothing}

\* Without failures and overlaps, an upload has its project and a deletion every content
\* of its project.
CalmWork ==
  history.calm =>
    /\ \A h \in Requests : task[h].op = "upload" =>
         /\ Stored(task[h].project)
         /\ \A g \in Requests : task[g].op = "delete" => task[g].project # task[h].project
    /\ \A h \in Requests, d \in Docs :
         task[h].op = "delete" /\ doc[d] = task[h].project /\ d \in blob => d \in task[h].keys

\* ContentFollowsRows, document by document.
RowsBacked == \A d \in Docs : doc[d] # Nothing => d \in blob \/ doc[d] \in history.doomed
CalmContents ==
  history.calm =>
    \A d \in Docs :
      /\ d \in blob => doc[d] # Nothing \/ \E h \in Requests : task[h].doc = d
      /\ doc[d] # Nothing => d \in blob \/ \E h \in Requests : task[h].op = "delete" /\ task[h].project = doc[d]

ContentInv == KeysKnown /\ CalmWork /\ RowsBacked /\ CalmContents

DocumentsInv ==
  /\ DocumentsTypeOK /\ TaskShape /\ NewProjects
  /\ CountInv /\ TextReading /\ SpaceInv
  /\ ContentInv

-----------------------------------------------------------------------------
(* Counting                                                                *)

\* The units of the texts of the projects S.
Cells(table, S) == {u \in S \X (1..MaxText) : u[2] <= table[u[1]]}

\* They can be counted.
LEMMA CellsFinite ==
  ASSUME NEW S \in SUBSET Projects, NEW table
  PROVE  IsFiniteSet(Cells(table, S)) /\ Cardinality(Cells(table, S)) \in Nat
<1>1. IsFiniteSet(S) /\ IsFiniteSet(1..MaxText)
  <2>1. IsFiniteSet(S)
    BY DocumentsConstants, FS_Subset
  <2>2. 1 \in Int /\ MaxText \in Int
    BY DocumentsConstants
  <2> QED BY <2>1, <2>2, FS_Interval
<1>2. IsFiniteSet(S \X (1..MaxText))
  BY <1>1, FS_Product
<1>3. Cells(table, S) \in SUBSET (S \X (1..MaxText))
  BY DEF Cells
<1> QED BY <1>2, <1>3, FS_Subset, FS_CardinalityType

\* Texts that are no longer than before, or empty, have no more units.
LEMMA FewerUnits ==
  ASSUME NEW S \in SUBSET Projects, NEW T \in SUBSET Projects,
         NEW table \in [Projects -> 0..MaxText], NEW now \in [Projects -> 0..MaxText],
         \A p \in T : now[p] = 0 \/ (p \in S /\ now[p] = table[p])
  PROVE  Cardinality(Cells(now, T)) <= Cardinality(Cells(table, S))
<1>1. Cells(now, T) \in SUBSET Cells(table, S)
  <2> SUFFICES ASSUME NEW u \in T \X (1..MaxText), u[2] <= now[u[1]]
               PROVE  u[1] \in S /\ u[2] <= table[u[1]]
    BY DEF Cells
  <2>1. u[1] \in T /\ u[2] \in 1..MaxText
    OBVIOUS
  <2>2. now[u[1]] # 0
    BY <2>1, DocumentsConstants
  <2> QED BY <2>1, <2>2
<1> QED BY <1>1, CellsFinite, FS_Subset

\* One text more.
LEMMA OneText ==
  ASSUME NEW S \in SUBSET Projects, NEW p \in Projects \ S, NEW table \in [Projects -> 0..MaxText]
  PROVE  Cardinality(Cells(table, S \cup {p})) = Cardinality(Cells(table, S)) + table[p]
<1> DEFINE own == {<<p, k>> : k \in 1..table[p]}
<1>1. table[p] \in 0..MaxText /\ table[p] \in Nat
  BY DocumentsConstants
<1>2. IsFiniteSet(own) /\ Cardinality(own) = table[p]
  <2> DEFINE f == [k \in 1..table[p] |-> <<p, k>>]
  <2>1. f \in Bijection(1..table[p], own)
    <3>1. f \in [1..table[p] -> own]
      OBVIOUS
    <3>2. \A a, b \in 1..table[p] : f[a] = f[b] => a = b
      OBVIOUS
    <3>3. \A y \in own : \E a \in 1..table[p] : f[a] = y
      OBVIOUS
    <3> QED BY <3>1, <3>2, <3>3, Fun_IsBij
  <2>2. ExistsBijection(1..table[p], own)
    BY <2>1 DEF ExistsBijection
  <2>3. IsFiniteSet(1..table[p]) /\ Cardinality(1..table[p]) = table[p]
    BY <1>1, FS_Interval
  <2> QED BY <2>2, <2>3, FS_Bijection
<1>3. Cells(table, S \cup {p}) = Cells(table, S) \cup own
  <2>1. ASSUME NEW u \in Cells(table, S \cup {p}), u \notin Cells(table, S) PROVE u \in own
    <3>1. u \in (S \cup {p}) \X (1..MaxText) /\ u[2] <= table[u[1]] /\ u[1] = p
      BY <2>1 DEF Cells
    <3>2. u = <<p, u[2]>> /\ u[2] \in 1..table[p]
      BY <1>1, <3>1
    <3> QED BY <3>2
  <2>2. ASSUME NEW k \in 1..table[p] PROVE <<p, k>> \in Cells(table, S \cup {p})
    BY <1>1, <2>2, DocumentsConstants DEF Cells
  <2>3. Cells(table, S) \subseteq Cells(table, S \cup {p})
    BY DEF Cells
  <2> QED BY <2>1, <2>2, <2>3
<1>4. Cells(table, S) \cap own = {}
  BY DEF Cells
<1> HIDE DEF own
<1>5. IsFiniteSet(Cells(table, S)) /\ Cardinality(Cells(table, S)) \in Nat
  BY CellsFinite
<1>6. Cardinality(Cells(table, S) \cup own)
        = Cardinality(Cells(table, S)) + Cardinality(own) - Cardinality(Cells(table, S) \cap own)
  BY <1>2, <1>5, FS_Union
<1>7. Cardinality(Cells(table, S) \cap own) = 0
  BY <1>4, FS_EmptySet
<1>8. Cardinality(Cells(table, S \cup {p})) = Cardinality(Cells(table, S) \cup own)
  BY <1>3
<1> QED BY <1>1, <1>2, <1>5, <1>6, <1>7, <1>8

\* Rows, projects and units can be counted.
LEMMA Counts ==
  ASSUME DocumentsTypeOK
  PROVE  /\ IsFiniteSet(Registered) /\ Cardinality(Registered) \in Nat
         /\ \A S \in SUBSET Projects : IsFiniteSet(S) /\ Cardinality(S) \in Nat
         /\ \A S \in SUBSET Projects : Units(S) \in Nat
<1>1. IsFiniteSet(Docs)
  BY DocumentsConstants, FS_Interval DEF Docs
<1>2. Registered \in SUBSET Docs
  BY DEF Registered
<1>3. IsFiniteSet(Projects)
  BY DocumentsConstants
<1>4. \A S \in SUBSET Projects : Units(S) \in Nat
  BY CellsFinite DEF Units, Cells
<1> QED BY <1>1, <1>2, <1>3, <1>4, FS_Subset, FS_CardinalityType

\* The same in the next state.
LEMMA CountsNext ==
  ASSUME DocumentsTypeOK'
  PROVE  /\ IsFiniteSet(Registered') /\ Cardinality(Registered') \in Nat
         /\ \A S \in SUBSET Projects : Cardinality(Cells(text', S)) \in Nat
<1>1. IsFiniteSet(Docs)
  BY DocumentsConstants, FS_Interval DEF Docs
<1>2. Registered' \in SUBSET Docs
  BY DEF Registered
<1> QED BY <1>1, <1>2, CellsFinite, FS_Subset, FS_CardinalityType

-----------------------------------------------------------------------------
(* The steps keep the types                                                *)

\* What a request is of, in one name.
LEMMA TaskTypes ==
  ASSUME DocumentsTypeOK
  PROVE  /\ NoTask \in Task
         /\ \A h \in Requests : task[h] \in Task
         /\ task \in [Requests -> Task]
BY DocumentsConstants DEF DocumentsTypeOK, Task, NoTask

\* A request that ends leaves requests.
LEMMA DoneTypes ==
  ASSUME DocumentsTypeOK, NEW h \in Requests, NEW S, Done(h, S)
  PROVE  task' \in [Requests -> Task] /\ loop' \in Requests \cup {Nothing}
<1>1. \A g \in Requests : [task[g] EXCEPT !.stale = @ \/ g \in S] \in Task
  <2> TAKE g \in Requests
  <2>1. task[g] \in Task
    BY TaskTypes
  <2>2. (task[g].stale \/ g \in S) \in BOOLEAN
    OBVIOUS
  <2> HIDE DEF Done
  <2> QED BY <2>1, <2>2 DEF Task
<1>2. task' \in [Requests -> Task]
  BY <1>1, TaskTypes DEF Done
<1> QED BY <1>2 DEF Done, DocumentsTypeOK

\* A register goes on with its next row.
LEMMA NextRow ==
  ASSUME DocumentsTypeOK, NEW h \in Requests, InsertRow(h), Stored(task[h].project),
         task[h].rows > 1
  PROVE  /\ task' \in [Requests -> Task] /\ \A g \in Requests : g # h => task'[g] = task[g]
         /\ task'[h].op = task[h].op /\ task'[h].at = "put" /\ task'[h].project = task[h].project
         /\ task'[h].rows = task[h].rows - 1 /\ task'[h].rows > 0 /\ task'[h].doc = Nothing
         /\ task'[h].size = task[h].size /\ task'[h].old = task[h].old
         /\ task'[h].keys = task[h].keys /\ task'[h].stale = task[h].stale
<1>1. task[h] \in Task /\ task \in [Requests -> Task]
  BY TaskTypes
<1>2. task' = [task EXCEPT ![h] = [@ EXCEPT !.at = "put", !.doc = Nothing, !.rows = task[h].rows - 1]]
  BY DEF InsertRow
<1>3. task[h].rows - 1 \in 0..MaxRows /\ task[h].rows - 1 > 0
  BY <1>1, DocumentsConstants DEF Task
<1>4. /\ task'[h] \in Task
      /\ task'[h].op = task[h].op /\ task'[h].at = "put" /\ task'[h].project = task[h].project
      /\ task'[h].rows = task[h].rows - 1 /\ task'[h].doc = Nothing
      /\ task'[h].size = task[h].size /\ task'[h].old = task[h].old
      /\ task'[h].keys = task[h].keys /\ task'[h].stale = task[h].stale
  BY <1>1, <1>2, <1>3 DEF Task
<1>5. task' \in [Requests -> Task] /\ \A g \in Requests : g # h => task'[g] = task[g]
  BY <1>1, <1>2, <1>4
<1> QED BY <1>3, <1>4, <1>5

\* Every step keeps the columns' types.
LEMMA TypeStep ==
  ASSUME DocumentsTypeOK, TaskShape, [DocumentsNext]_documentVars
  PROVE  DocumentsTypeOK'
<1> DEFINE History == [uncounted : SUBSET Projects, unmeasured : SUBSET Projects,
                       doomed : SUBSET Projects, calm : BOOLEAN]
<1>t. /\ task \in [Requests -> Task] /\ NoTask \in Task
      /\ project \in [Projects -> {"none", "active", "archived", "deleted"}]
      /\ text \in [Projects -> 0..MaxText]
      /\ doc \in [Docs -> Projects \cup {Nothing}]
      /\ blob \in SUBSET Docs
      /\ loop \in Requests \cup {Nothing}
      /\ failures \in 0..MaxFailures
      /\ history \in History
  BY TaskTypes DEF DocumentsTypeOK
<1>n. MaxRows \in Nat \ {0} /\ MaxText \in Nat /\ MaxFailures \in Nat
  BY DocumentsConstants
<1>q. ASSUME /\ task' \in [Requests -> Task]
             /\ project' \in [Projects -> {"none", "active", "archived", "deleted"}]
             /\ text' \in [Projects -> 0..MaxText]
             /\ doc' \in [Docs -> Projects \cup {Nothing}]
             /\ blob' \in SUBSET Docs
             /\ loop' \in Requests \cup {Nothing}
             /\ failures' \in 0..MaxFailures
             /\ history' \in History
      PROVE  DocumentsTypeOK'
  BY <1>q DEF DocumentsTypeOK, Task
<1>1. ASSUME NEW p \in Projects, Archive(p) \/ Unarchive(p) PROVE DocumentsTypeOK'
  BY <1>t, <1>q, <1>1 DEF Archive, Unarchive
<1>2. ASSUME NEW h \in Requests, NEW p \in Projects, NEW size \in 0..MaxText,
             BeginCreateProject(h, p, size)
      PROVE  DocumentsTypeOK'
  BY <1>t, <1>n, <1>q, <1>2 DEF BeginCreateProject, Begin, Task, NoTask
<1>3. ASSUME NEW h \in Requests, NEW p \in Projects, NEW size \in 0..MaxText,
             BeginContract(h, p, size)
      PROVE  DocumentsTypeOK'
  BY <1>t, <1>n, <1>q, <1>3 DEF BeginContract, Begin, Task, NoTask
<1>4. ASSUME NEW h \in Requests, NEW p \in Projects, NEW rows \in 1..MaxRows,
             BeginUpload(h, p, rows)
      PROVE  DocumentsTypeOK'
  <2>1. task' \in [Requests -> Task]
    <3>1. [NoTask EXCEPT !.op = "upload", !.at = "read", !.project = p, !.rows = rows] \in Task
      <4>1. rows \in 0..MaxRows
        BY <1>n
      <4> QED BY <1>t, <4>1 DEF Task, NoTask
    <3>2. task' = [task EXCEPT ![h] = [NoTask EXCEPT !.op = "upload", !.at = "read",
                                                    !.project = p, !.rows = rows]]
      BY <1>4 DEF BeginUpload, Begin
    <3> QED BY <1>t, <3>1, <3>2
  <2>2. history' \in History
    BY <1>t, <1>4 DEF BeginUpload
  <2> QED BY <1>t, <1>q, <1>4, <2>1, <2>2 DEF BeginUpload
<1>5. ASSUME NEW h \in Requests, NEW p \in Projects, BeginDeleteProject(h, p)
      PROVE  DocumentsTypeOK'
  BY <1>t, <1>n, <1>q, <1>5 DEF BeginDeleteProject, Begin, Task, NoTask, RowsOf
<1>6. ASSUME NEW h \in Requests, NEW d \in Docs, PutBlob(h, d) \/ RemoveBlob(h, d) \/ KeepBlob(h, d)
      PROVE  DocumentsTypeOK'
  <2>1. blob' \in SUBSET Docs /\ failures' \in 0..MaxFailures /\ history' \in History
    <3>1. blob' \in SUBSET Docs
      BY <1>t, <1>6 DEF PutBlob, RemoveBlob, KeepBlob
    <3>2. failures' \in 0..MaxFailures
      BY <1>t, <1>n, <1>6 DEF PutBlob, RemoveBlob, KeepBlob
    <3>3. history' \in History
      BY <1>t, <1>6 DEF PutBlob, RemoveBlob, KeepBlob
    <3> QED BY <3>1, <3>2, <3>3
  <2>2. task' \in [Requests -> Task]
    <3>1. CASE PutBlob(h, d)
      <4>1. task' = [task EXCEPT ![h] = [task[h] EXCEPT !.at = "insert", !.doc = d]]
        BY <1>t, <3>1 DEF PutBlob
      <4>2. [task[h] EXCEPT !.at = "insert", !.doc = d] \in Task
        BY <1>t DEF Task
      <4> QED BY <1>t, <4>1, <4>2
    <3>2. CASE RemoveBlob(h, d) \/ KeepBlob(h, d)
      BY <1>t, <3>2 DEF RemoveBlob, KeepBlob, Task
    <3> QED BY <1>6, <3>1, <3>2
  <2>3. UNCHANGED <<project, text, doc, loop>>
    BY <1>6 DEF PutBlob, RemoveBlob, KeepBlob
  <2> QED BY <1>t, <1>q, <2>1, <2>2, <2>3
<1>7. ASSUME NEW h \in Requests, CommitCreate(h) PROVE DocumentsTypeOK'
  BY <1>t, <1>q, <1>7, DoneTypes DEF CommitCreate, Task, Mark, TaskShape
<1>8. ASSUME NEW h \in Requests, Admit(h) PROVE DocumentsTypeOK'
  BY <1>t, <1>q, <1>8 DEF Admit, Task
<1>9. ASSUME NEW h \in Requests, Refuse(h) PROVE DocumentsTypeOK'
  BY <1>t, <1>q, <1>9, DoneTypes DEF Refuse
<1>10. ASSUME NEW h \in Requests, InsertRow(h) PROVE DocumentsTypeOK'
  <2>1. doc' \in [Docs -> Projects \cup {Nothing}]
    BY <1>t, <1>10 DEF InsertRow, TaskShape, Task
  <2>2. task' \in [Requests -> Task] /\ loop' \in Requests \cup {Nothing}
    <3>1. CASE Stored(task[h].project) /\ task[h].rows > 1
      BY <1>t, <1>10, <3>1, NextRow DEF InsertRow
    <3>2. CASE ~(Stored(task[h].project) /\ task[h].rows > 1)
      BY <1>10, <3>2, DoneTypes DEF InsertRow
    <3> QED BY <3>1, <3>2
  <2> QED BY <1>t, <1>q, <1>10, <2>1, <2>2 DEF InsertRow
<1>11. ASSUME NEW h \in Requests, WriteText(h) PROVE DocumentsTypeOK'
  <2>1. task' \in [Requests -> Task] /\ loop' \in Requests \cup {Nothing}
    BY <1>11, DoneTypes DEF WriteText
  <2> QED BY <1>t, <1>q, <1>11, <2>1 DEF WriteText, Task, Mark, TaskShape
<1>12. ASSUME NEW h \in Requests, DeleteProject(h) PROVE DocumentsTypeOK'
  <2>1. task' \in [Requests -> Task] /\ loop' \in Requests \cup {Nothing}
    BY <1>12, DoneTypes DEF DeleteProject
  <2>2. task[h].project \in Projects
    BY <1>12 DEF DeleteProject, TaskShape
  <2>3. history' \in History /\ blob' \in SUBSET Docs /\ failures' \in 0..MaxFailures
    BY <1>t, <1>12 DEF DeleteProject
  <2>4. doc' \in [Docs -> Projects \cup {Nothing}]
    BY <1>t, <1>12 DEF DeleteProject
  <2>5. project' \in [Projects -> {"none", "active", "archived", "deleted"}]
    BY <1>t, <1>12 DEF DeleteProject
  <2>6. text' \in [Projects -> 0..MaxText]
    BY <1>t, <1>n, <1>12, <2>2 DEF DeleteProject
  <2> QED BY <1>q, <2>1, <2>3, <2>4, <2>5, <2>6
<1>13. ASSUME NEW h \in Requests, FailTask(h) PROVE DocumentsTypeOK'
  <2>1. task' \in [Requests -> Task] /\ loop' \in Requests \cup {Nothing}
    BY <1>13, DoneTypes DEF FailTask
  <2>2. failures' \in 0..MaxFailures
    BY <1>t, <1>n, <1>13 DEF FailTask
  <2>3. history' \in History
    BY <1>t, <1>13 DEF FailTask
  <2> QED BY <1>t, <1>q, <1>13, <2>1, <2>2, <2>3 DEF FailTask
<1>14. CASE UNCHANGED documentVars
  BY <1>14 DEF documentVars, DocumentsTypeOK
<1> QED BY <1>1, <1>2, <1>3, <1>4, <1>5, <1>6, <1>7, <1>8, <1>9, <1>10, <1>11, <1>12, <1>13, <1>14
        DEF DocumentsNext

\* Every step goes on with an operation as it began.
LEMMA ShapeStep ==
  ASSUME DocumentsTypeOK, TaskShape, NewProjects, [DocumentsNext]_documentVars
  PROVE  TaskShape' /\ NewProjects'
<1>t. /\ task \in [Requests -> Task] /\ NoTask \in Task
      /\ project \in [Projects -> {"none", "active", "archived", "deleted"}]
      /\ loop \in Requests \cup {Nothing}
      /\ Nothing \notin Projects \cup Requests \cup Docs
  BY TaskTypes, DocumentsConstants DEF DocumentsTypeOK, Docs
<1>d. ASSUME NEW h \in Requests, NEW S, Done(h, S), UNCHANGED project
      PROVE  TaskShape' /\ NewProjects'
  BY <1>t, <1>d DEF Done, TaskShape, NewProjects, NoTask, OnLoop, Task
<1>1. ASSUME NEW p \in Projects, Archive(p) \/ Unarchive(p) PROVE TaskShape' /\ NewProjects'
  BY <1>t, <1>1 DEF Archive, Unarchive, TaskShape, NewProjects
<1>2. ASSUME NEW h \in Requests, NEW p \in Projects, NEW size \in 0..MaxText,
             BeginCreateProject(h, p, size)
      PROVE  TaskShape' /\ NewProjects'
  BY <1>t, <1>2 DEF BeginCreateProject, Begin, Task, NoTask, Doing, TaskShape, NewProjects, OnLoop
<1>3. ASSUME NEW h \in Requests, NEW p \in Projects, NEW size \in 0..MaxText,
             BeginContract(h, p, size)
      PROVE  TaskShape' /\ NewProjects'
  BY <1>t, <1>3 DEF BeginContract, Begin, Task, NoTask, TaskShape, NewProjects, OnLoop, Stored
<1>4. ASSUME NEW h \in Requests, NEW p \in Projects, NEW rows \in 1..MaxRows,
             BeginUpload(h, p, rows)
      PROVE  TaskShape' /\ NewProjects'
  BY <1>t, <1>4 DEF BeginUpload, Begin, Task, NoTask, TaskShape, NewProjects, OnLoop, Stored
<1>5. ASSUME NEW h \in Requests, NEW p \in Projects, BeginDeleteProject(h, p)
      PROVE  TaskShape' /\ NewProjects'
  BY <1>t, <1>5 DEF BeginDeleteProject, Begin, Task, NoTask, TaskShape, NewProjects, OnLoop
<1>6. ASSUME NEW h \in Requests, NEW d \in Docs, PutBlob(h, d) PROVE TaskShape' /\ NewProjects'
  BY <1>t, <1>6 DEF PutBlob, Task, TaskShape, NewProjects, OnLoop
<1>7. ASSUME NEW h \in Requests, NEW d \in Docs, RemoveBlob(h, d) \/ KeepBlob(h, d)
      PROVE  TaskShape' /\ NewProjects'
  BY <1>t, <1>7 DEF RemoveBlob, KeepBlob, Task, TaskShape, NewProjects, OnLoop
<1>8. ASSUME NEW h \in Requests, CommitCreate(h) PROVE TaskShape' /\ NewProjects'
  BY <1>t, <1>8 DEF CommitCreate, Done, Task, NoTask, TaskShape, NewProjects, OnLoop
<1>9. ASSUME NEW h \in Requests, Admit(h) PROVE TaskShape' /\ NewProjects'
  BY <1>t, <1>9 DEF Admit, Task, TaskShape, NewProjects, OnLoop
<1>10. ASSUME NEW h \in Requests, Refuse(h) \/ FailTask(h) PROVE TaskShape' /\ NewProjects'
  BY <1>d, <1>10 DEF Refuse, FailTask
<1>11. ASSUME NEW h \in Requests, InsertRow(h) PROVE TaskShape' /\ NewProjects'
  <2>1. CASE Stored(task[h].project) /\ task[h].rows > 1
    <3>1. loop' = loop /\ project' = project
      BY <1>11, <2>1 DEF InsertRow
    <3>2. task[h].at = "insert" /\ task[h].op = "upload" /\ task[h].keys = {}
      BY <1>11 DEF InsertRow, TaskShape
    <3>3. TaskShape'
      BY <1>11, <2>1, <3>1, <3>2, NextRow DEF TaskShape, OnLoop
    <3>4. NewProjects'
      BY <1>11, <2>1, <3>1, <3>2, NextRow DEF NewProjects
    <3> QED BY <3>3, <3>4
  <2>2. CASE ~(Stored(task[h].project) /\ task[h].rows > 1)
    BY <1>d, <1>11, <2>2 DEF InsertRow
  <2> QED BY <2>1, <2>2
<1>12. ASSUME NEW h \in Requests, WriteText(h) PROVE TaskShape' /\ NewProjects'
  BY <1>d, <1>12 DEF WriteText
<1>13. ASSUME NEW h \in Requests, DeleteProject(h) PROVE TaskShape' /\ NewProjects'
  BY <1>t, <1>13 DEF DeleteProject, Done, Task, NoTask, TaskShape, NewProjects, OnLoop
<1>14. CASE UNCHANGED documentVars
  BY <1>14 DEF documentVars, TaskShape, NewProjects
<1> QED BY <1>1, <1>2, <1>3, <1>4, <1>5, <1>6, <1>7, <1>8, <1>9, <1>10, <1>11, <1>12, <1>13, <1>14
        DEF DocumentsNext

-----------------------------------------------------------------------------
(* The steps keep the limits                                               *)

\* What changes nothing that is counted against the active projects.
LEMMA CountKept ==
  ASSUME DocumentsTypeOK, DocumentsTypeOK', CountInv, Counted' \subseteq Counted,
         \A h \in Requests : task'[h].at = "create" /\ ~task'[h].stale =>
                              task[h].at = "create" /\ ~task[h].stale
  PROVE  CountInv'
<1>1. IsFiniteSet(Counted) /\ Cardinality(Counted) \in Nat
  BY Counts DEF Counted, Active
<1>2. Cardinality(Counted') <= Cardinality(Counted) /\ Cardinality(Counted') \in Nat
  BY <1>1, FS_Subset, FS_CardinalityType
<1> QED BY <1>1, <1>2, DocumentsConstants DEF CountInv

\* Every step keeps to the active projects.
LEMMA CountStep ==
  ASSUME DocumentsTypeOK, DocumentsTypeOK', TaskShape, CountInv, [DocumentsNext]_documentVars
  PROVE  CountInv'
<1>t. /\ task \in [Requests -> Task] /\ NoTask \in Task
      /\ project \in [Projects -> {"none", "active", "archived", "deleted"}]
      /\ history \in [uncounted : SUBSET Projects, unmeasured : SUBSET Projects,
                      doomed : SUBSET Projects, calm : BOOLEAN]
  BY TaskTypes DEF DocumentsTypeOK
<1>f. IsFiniteSet(Counted) /\ Cardinality(Counted) \in Nat
      /\ IsFiniteSet(Active) /\ Cardinality(Active) \in Nat
  BY Counts DEF Counted, Active
<1>d. ASSUME NEW h \in Requests, NEW S, Done(h, S)
      PROVE  \A g \in Requests : task'[g].at = "create" /\ ~task'[g].stale =>
                                  task[g].at = "create" /\ ~task[g].stale
  BY <1>t, <1>d DEF Done, Task, NoTask
<1>1. ASSUME NEW p \in Projects, Archive(p) \/ Unarchive(p) PROVE CountInv'
  BY <1>t, <1>1, CountKept DEF Archive, Unarchive, Counted, Active
<1>2. ASSUME NEW h \in Requests, NEW p \in Projects, NEW size \in 0..MaxText,
             BeginCreateProject(h, p, size)
      PROVE  CountInv'
  <2>1. Cardinality(Counted) <= Cardinality(Active)
    BY <1>f, FS_Subset DEF Counted
  <2>2. Counted' = Counted
    BY <1>2 DEF BeginCreateProject, Counted, Active
  <2>3. Cardinality(Counted) + 1 <= MaxActive
    BY <1>2, <1>f, <2>1, DocumentsConstants DEF BeginCreateProject
  <2> QED BY <1>f, <2>2, <2>3, DocumentsConstants DEF CountInv
<1>3. ASSUME NEW h \in Requests, NEW p \in Projects, NEW size \in 0..MaxText,
             BeginContract(h, p, size)
      PROVE  CountInv'
  BY <1>t, <1>3, CountKept DEF BeginContract, Begin, NoTask, Counted, Active
<1>4. ASSUME NEW h \in Requests, NEW p \in Projects, NEW rows \in 1..MaxRows,
             BeginUpload(h, p, rows)
      PROVE  CountInv'
  BY <1>t, <1>4, CountKept DEF BeginUpload, Begin, NoTask, Counted, Active
<1>5. ASSUME NEW h \in Requests, NEW p \in Projects, BeginDeleteProject(h, p)
      PROVE  CountInv'
  BY <1>t, <1>5, CountKept DEF BeginDeleteProject, Begin, NoTask, Counted, Active
<1>6. ASSUME NEW h \in Requests, NEW d \in Docs, PutBlob(h, d) PROVE CountInv'
  BY <1>t, <1>6, CountKept DEF PutBlob, Task, Counted, Active
<1>7. ASSUME NEW h \in Requests, NEW d \in Docs, RemoveBlob(h, d) \/ KeepBlob(h, d)
      PROVE  CountInv'
  BY <1>t, <1>7, CountKept DEF RemoveBlob, KeepBlob, Task, Counted, Active
<1>8. ASSUME NEW h \in Requests, CommitCreate(h) PROVE CountInv'
  <2> DEFINE p == task[h].project
  <2>1. ASSUME NEW g \in Requests PROVE ~(task'[g].at = "create" /\ ~task'[g].stale)
    BY <1>t, <1>8, <2>1 DEF CommitCreate, Done, TaskShape, Task, NoTask
  <2>2. Counted' \subseteq Counted \cup {p}
    BY <1>t, <1>8 DEF CommitCreate, Counted, Active, Mark
  <2>3. task[h].stale => Counted' \subseteq Counted
    BY <1>t, <1>8 DEF CommitCreate, Counted, Active, Mark
  <2>4. CASE task[h].stale
    BY <2>1, <2>3, <2>4, CountKept
  <2>5. CASE ~task[h].stale
    <3>1. Cardinality(Counted) + 1 <= MaxActive
      BY <1>8, <2>5 DEF CommitCreate, CountInv
    <3>2. /\ IsFiniteSet(Counted \cup {p}) /\ Cardinality(Counted \cup {p}) \in Nat
          /\ Cardinality(Counted \cup {p}) <= Cardinality(Counted) + 1
      <4>1. /\ IsFiniteSet(Counted \cup {p})
            /\ Cardinality(Counted \cup {p})
                 = IF p \in Counted THEN Cardinality(Counted) ELSE Cardinality(Counted) + 1
        BY <1>f, FS_AddElement
      <4> QED BY <1>f, <4>1
    <3>3. Cardinality(Counted') <= Cardinality(Counted \cup {p}) /\ Cardinality(Counted') \in Nat
      BY <2>2, <3>2, FS_Subset, FS_CardinalityType
    <3> QED BY <1>f, <2>1, <3>1, <3>2, <3>3, DocumentsConstants DEF CountInv
  <2> QED BY <2>4, <2>5
<1>9. ASSUME NEW h \in Requests, Admit(h) PROVE CountInv'
  BY <1>t, <1>9, CountKept DEF Admit, Task, Counted, Active
<1>10. ASSUME NEW h \in Requests, Refuse(h) PROVE CountInv'
  BY <1>d, <1>10, CountKept DEF Refuse, Counted, Active
<1>11. ASSUME NEW h \in Requests, InsertRow(h) PROVE CountInv'
  <2>1. UNCHANGED <<project, history>> /\ Counted' = Counted
    BY <1>11 DEF InsertRow, Counted, Active
  <2>2. CASE Stored(task[h].project) /\ task[h].rows > 1
    BY <1>11, <2>1, <2>2, NextRow, CountKept
  <2>3. CASE ~(Stored(task[h].project) /\ task[h].rows > 1)
    BY <1>d, <1>11, <2>1, <2>3, CountKept DEF InsertRow
  <2> QED BY <2>2, <2>3
<1>12. ASSUME NEW h \in Requests, WriteText(h) PROVE CountInv'
  <2>1. Counted' = Counted
    BY <1>t, <1>12 DEF WriteText, Counted, Active
  <2> QED BY <1>d, <1>12, <2>1, CountKept DEF WriteText
<1>13. ASSUME NEW h \in Requests, DeleteProject(h) PROVE CountInv'
  <2>1. Counted' \subseteq Counted
    BY <1>t, <1>13 DEF DeleteProject, Counted, Active
  <2> QED BY <1>d, <1>13, <2>1, CountKept DEF DeleteProject
<1>14. ASSUME NEW h \in Requests, FailTask(h) PROVE CountInv'
  <2>1. Counted' = Counted
    BY <1>t, <1>14 DEF FailTask, Counted, Active
  <2> QED BY <1>d, <1>14, <2>1, CountKept DEF FailTask
<1>15. CASE UNCHANGED documentVars
  BY <1>15 DEF documentVars, CountInv, Counted, Active
<1> QED BY <1>1, <1>2, <1>3, <1>4, <1>5, <1>6, <1>7, <1>8, <1>9, <1>10, <1>11, <1>12, <1>13, <1>14,
           <1>15 DEF DocumentsNext

\* Rows and texts that are not more, under requests that ask for the same.
LEMMA SpaceKept ==
  ASSUME DocumentsTypeOK, DocumentsTypeOK', SpaceInv, Registered' \subseteq Registered,
         \A p \in Measured' : text'[p] = 0 \/ (p \in Measured /\ text'[p] = text[p]),
         \A h \in Requests : task'[h].at \in {"put", "insert"} =>
           task[h].at \in {"put", "insert"} /\ task'[h].rows = task[h].rows,
         \A h \in Requests : task'[h].at = "write" /\ ~task'[h].stale =>
           /\ task[h].at = "write" /\ ~task[h].stale
           /\ task'[h].project = task[h].project /\ task'[h].size = task[h].size
  PROVE  SpaceInv'
<1>n. /\ Rows \in Nat /\ Rows' \in Nat
      /\ \A S \in SUBSET Projects : Units(S) \in Nat
      /\ \A S \in SUBSET Projects : Cardinality(Cells(text', S)) \in Nat
  BY Counts, CountsNext DEF Rows
<1>m. MaxDocs \in Nat /\ MaxStorage \in Nat /\ MaxText \in Nat /\ MaxRows \in Nat
  BY DocumentsConstants
<1>t. /\ text \in [Projects -> 0..MaxText] /\ text' \in [Projects -> 0..MaxText]
      /\ \A h \in Requests : task[h] \in Task
      /\ Measured \in SUBSET Projects /\ Measured' \in SUBSET Projects
  BY TaskTypes DEF Measured, DocumentsTypeOK
<1>u. Units(Measured) \in Nat /\ Units(Measured)' \in Nat
  BY <1>n, <1>t DEF Units, Cells
<1>1. Rows' <= Rows
  <2>1. IsFiniteSet(Registered)
    BY Counts
  <2> QED BY <2>1, FS_Subset DEF Rows
<1>2. Units(Measured)' <= Units(Measured)
  <2>1. Cardinality(Cells(text', Measured')) <= Cardinality(Cells(text, Measured))
    BY <1>t, FewerUnits
  <2> QED BY <2>1 DEF Units, Cells
<1>3. ASSUME NEW p PROVE Cardinality(Cells(text', Measured' \ {p})) <= Units(Measured \ {p})
  <2>1. Cardinality(Cells(text', Measured' \ {p})) <= Cardinality(Cells(text, Measured \ {p}))
    BY <1>t, FewerUnits
  <2> QED BY <2>1 DEF Units, Cells
<1>4. UploadRoom'
  <2> SUFFICES ASSUME NEW h \in Requests, task'[h].at \in {"put", "insert"}
               PROVE  /\ Rows' + task'[h].rows <= MaxDocs
                      /\ Rows' + Units(Measured)' + task'[h].rows <= MaxStorage
    BY DEF UploadRoom
  <2>1. task'[h].rows = task[h].rows /\ task[h].rows \in Nat
    BY <1>m, <1>t DEF Task
  <2>2. Rows + task[h].rows <= MaxDocs /\ Rows + Units(Measured) + task[h].rows <= MaxStorage
    BY DEF SpaceInv, UploadRoom
  <2> QED BY <1>n, <1>m, <1>u, <1>1, <1>2, <2>1, <2>2
<1>5. TextRoom'
  <2> SUFFICES ASSUME NEW h \in Requests, task'[h].at = "write", ~task'[h].stale
               PROVE  Rows' + Units(Measured \ {task[h].project})' + task'[h].size <= MaxStorage
    BY DEF TextRoom
  <2>1. task'[h].size = task[h].size /\ task[h].size \in Nat /\ task'[h].project = task[h].project
    BY <1>m, <1>t DEF Task
  <2>2. Rows + Units(Measured \ {task[h].project}) + task[h].size <= MaxStorage
    BY DEF SpaceInv, TextRoom
  <2>3. /\ Units(Measured \ {task[h].project})' = Cardinality(Cells(text', Measured' \ {task[h].project}))
        /\ Cardinality(Cells(text', Measured' \ {task[h].project})) \in Nat
    BY <1>n, <1>t, <2>1 DEF Units, Cells
  <2>4. Units(Measured \ {task[h].project}) \in Nat
    BY <1>n, <1>t
  <2>5. /\ Units(Measured \ {task[h].project})' <= Units(Measured \ {task[h].project})
        /\ Units(Measured \ {task[h].project})' \in Nat
    BY <1>3, <2>3
  <2>6. task[h].size \in Nat
    BY <2>1
  <2> QED BY <1>n, <1>m, <1>1, <2>1, <2>2, <2>4, <2>5, <2>6
<1>6. Rows' <= MaxDocs /\ Rows' + Units(Measured)' <= MaxStorage
  BY <1>n, <1>m, <1>u, <1>1, <1>2 DEF SpaceInv
<1> QED BY <1>4, <1>5, <1>6 DEF SpaceInv

\* Who changes a text outdates the contracts that loaded it.
LEMMA TextStep ==
  ASSUME DocumentsTypeOK, TaskShape, NewProjects, TextReading, [DocumentsNext]_documentVars
  PROVE  TextReading'
<1>t. /\ task \in [Requests -> Task] /\ NoTask \in Task
      /\ text \in [Projects -> 0..MaxText]
  BY TaskTypes DEF DocumentsTypeOK
<1>d. ASSUME NEW h \in Requests, NEW S, Done(h, S), NEW p,
             \A q \in Projects \ {p} : text'[q] = text[q],
             \A g \in Requests \ {h} : task[g].op = "contract" /\ task[g].project = p => g \in S
      PROVE  TextReading'
  BY <1>t, <1>d DEF Done, TextReading, TaskShape, Task, NoTask
<1>k. ASSUME NEW h \in Requests, NEW S, Done(h, S), UNCHANGED text PROVE TextReading'
  BY <1>t, <1>k DEF Done, TextReading, Task, NoTask
<1>1. ASSUME NEW p \in Projects, Archive(p) \/ Unarchive(p) PROVE TextReading'
  BY <1>1 DEF Archive, Unarchive, TextReading
<1>2. ASSUME NEW h \in Requests, NEW p \in Projects, NEW size \in 0..MaxText,
             BeginCreateProject(h, p, size)
      PROVE  TextReading'
  BY <1>t, <1>2 DEF BeginCreateProject, Begin, NoTask, TextReading
<1>3. ASSUME NEW h \in Requests, NEW p \in Projects, NEW size \in 0..MaxText,
             BeginContract(h, p, size)
      PROVE  TextReading'
  BY <1>t, <1>3 DEF BeginContract, Begin, NoTask, TextReading
<1>4. ASSUME NEW h \in Requests, NEW p \in Projects, NEW rows \in 1..MaxRows,
             BeginUpload(h, p, rows)
      PROVE  TextReading'
  BY <1>t, <1>4 DEF BeginUpload, Begin, NoTask, TextReading
<1>5. ASSUME NEW h \in Requests, NEW p \in Projects, BeginDeleteProject(h, p)
      PROVE  TextReading'
  BY <1>t, <1>5 DEF BeginDeleteProject, Begin, NoTask, TextReading
<1>6. ASSUME NEW h \in Requests, NEW d \in Docs, PutBlob(h, d) PROVE TextReading'
  BY <1>t, <1>6 DEF PutBlob, Task, TextReading
<1>7. ASSUME NEW h \in Requests, NEW d \in Docs, RemoveBlob(h, d) \/ KeepBlob(h, d)
      PROVE  TextReading'
  BY <1>t, <1>7 DEF RemoveBlob, KeepBlob, Task, TextReading
<1>8. ASSUME NEW h \in Requests, CommitCreate(h) PROVE TextReading'
  <2>1. \A q \in Projects \ {task[h].project} : text'[q] = text[q]
    BY <1>t, <1>8 DEF CommitCreate
  <2>2. \A g \in Requests : task[g].op = "contract" => task[g].project # task[h].project
    BY <1>8 DEF CommitCreate, TaskShape, NewProjects
  <2> DEFINE S == {g \in Requests : task[g].op = "create"}
  <2>3. Done(h, S)
    BY <1>8 DEF CommitCreate
  <2> HIDE DEF S
  <2> QED BY <1>d, <2>1, <2>2, <2>3
<1>9. ASSUME NEW h \in Requests, Admit(h) PROVE TextReading'
  BY <1>t, <1>9 DEF Admit, Task, TextReading
<1>10. ASSUME NEW h \in Requests, Refuse(h) \/ FailTask(h) PROVE TextReading'
  BY <1>k, <1>10 DEF Refuse, FailTask
<1>11. ASSUME NEW h \in Requests, InsertRow(h) PROVE TextReading'
  <2>1. CASE Stored(task[h].project) /\ task[h].rows > 1
    BY <1>11, <2>1, NextRow DEF InsertRow, TextReading
  <2>2. CASE ~(Stored(task[h].project) /\ task[h].rows > 1)
    BY <1>k, <1>11, <2>2 DEF InsertRow
  <2> QED BY <2>1, <2>2
<1>12. ASSUME NEW h \in Requests, WriteText(h) PROVE TextReading'
  <2>1. CASE UNCHANGED text /\ Done(h, {})
    BY <1>k, <2>1
  <2>2. CASE Done(h, Doing("contract", task[h].project))
             /\ text' = [text EXCEPT ![task[h].project] = task[h].size]
    <3>1. \A q \in Projects \ {task[h].project} : text'[q] = text[q]
      BY <1>t, <2>2
    <3>2. \A g \in Requests \ {h} : task[g].op = "contract" /\ task[g].project = task[h].project
                                     => g \in Doing("contract", task[h].project)
      BY DEF Doing
    <3> QED BY <1>d, <2>2, <3>1, <3>2
  <2> QED BY <1>12, <2>1, <2>2 DEF WriteText
<1>13. ASSUME NEW h \in Requests, DeleteProject(h) PROVE TextReading'
  <2>1. \A q \in Projects \ {task[h].project} : text'[q] = text[q]
    BY <1>t, <1>13 DEF DeleteProject
  <2>2. \A g \in Requests \ {h} : task[g].op = "contract" /\ task[g].project = task[h].project
                                   => g \in Doing("contract", task[h].project)
    BY DEF Doing
  <2>3. Done(h, Doing("contract", task[h].project))
    BY <1>13 DEF DeleteProject
  <2> QED BY <1>d, <2>1, <2>2, <2>3
<1>14. CASE UNCHANGED documentVars
  BY <1>14 DEF documentVars, TextReading
<1> QED BY <1>1, <1>2, <1>3, <1>4, <1>5, <1>6, <1>7, <1>8, <1>9, <1>10, <1>11, <1>12, <1>13, <1>14
        DEF DocumentsNext

\* Every step keeps to the documents and the storage.
LEMMA SpaceStep ==
  ASSUME DocumentsTypeOK, DocumentsTypeOK', TaskShape, TextReading, SpaceInv,
         [DocumentsNext]_documentVars
  PROVE  SpaceInv'
<1>t. /\ task \in [Requests -> Task] /\ NoTask \in Task
      /\ text \in [Projects -> 0..MaxText]
      /\ history \in [uncounted : SUBSET Projects, unmeasured : SUBSET Projects,
                      doomed : SUBSET Projects, calm : BOOLEAN]
  BY TaskTypes DEF DocumentsTypeOK
<1>n. /\ Rows \in Nat /\ \A S \in SUBSET Projects : Units(S) \in Nat
      /\ Measured \in SUBSET Projects
      /\ MaxDocs \in Nat /\ MaxStorage \in Nat /\ MaxText \in Nat /\ MaxRows \in Nat
  BY Counts, DocumentsConstants DEF Rows, Measured
<1>f. ASSUME NEW S \in SUBSET Projects, NEW T \in SUBSET S PROVE Units(T) <= Units(S)
  <2>1. Cardinality(Cells(text, T)) <= Cardinality(Cells(text, S))
    BY <1>t, FewerUnits
  <2> QED BY <2>1 DEF Units, Cells
<1>s. UNCHANGED <<text, history>> =>
        \A p \in Measured' : text'[p] = 0 \/ (p \in Measured /\ text'[p] = text[p])
  BY DEF Measured
<1>r. UNCHANGED doc => Registered' \subseteq Registered
  BY DEF Registered
<1>d. ASSUME NEW h \in Requests, NEW S, Done(h, S)
      PROVE  /\ \A g \in Requests : task'[g].at \in {"put", "insert"} =>
                  task[g].at \in {"put", "insert"} /\ task'[g].rows = task[g].rows
             /\ \A g \in Requests : task'[g].at = "write" /\ ~task'[g].stale =>
                  /\ task[g].at = "write" /\ ~task[g].stale
                  /\ task'[g].project = task[g].project /\ task'[g].size = task[g].size
  BY <1>t, <1>d DEF Done, Task, NoTask
<1>1. ASSUME NEW p \in Projects, Archive(p) \/ Unarchive(p) PROVE SpaceInv'
  <2>1. UNCHANGED <<text, doc, task>> /\ Measured' = Measured
    BY <1>t, <1>1 DEF Archive, Unarchive, Measured
  <2> QED BY <1>r, <2>1, SpaceKept
<1>2. ASSUME NEW h \in Requests, NEW p \in Projects, NEW size \in 0..MaxText,
             BeginCreateProject(h, p, size)
      PROVE  SpaceInv'
  BY <1>t, <1>r, <1>s, <1>2, SpaceKept DEF BeginCreateProject, Begin, NoTask
<1>3. ASSUME NEW h \in Requests, NEW p \in Projects, NEW size \in 0..MaxText,
             BeginContract(h, p, size)
      PROVE  SpaceInv'
  BY <1>t, <1>r, <1>s, <1>3, SpaceKept DEF BeginContract, Begin, NoTask
<1>4. ASSUME NEW h \in Requests, NEW p \in Projects, NEW rows \in 1..MaxRows,
             BeginUpload(h, p, rows)
      PROVE  SpaceInv'
  <2>1. UNCHANGED <<text, doc>> /\ Measured' = Measured
    BY <1>t, <1>4 DEF BeginUpload, Measured
  <2> QED BY <1>t, <1>r, <1>4, <2>1, SpaceKept DEF BeginUpload, Begin, NoTask
<1>5. ASSUME NEW h \in Requests, NEW p \in Projects, BeginDeleteProject(h, p)
      PROVE  SpaceInv'
  <2>1. UNCHANGED <<text, doc>> /\ Measured' = Measured
    BY <1>t, <1>5 DEF BeginDeleteProject, Measured
  <2> QED BY <1>t, <1>r, <1>5, <2>1, SpaceKept DEF BeginDeleteProject, Begin, NoTask
<1>6. ASSUME NEW h \in Requests, NEW d \in Docs, PutBlob(h, d) PROVE SpaceInv'
  BY <1>t, <1>r, <1>s, <1>6, SpaceKept DEF PutBlob, Task
<1>7. ASSUME NEW h \in Requests, NEW d \in Docs, RemoveBlob(h, d) \/ KeepBlob(h, d)
      PROVE  SpaceInv'
  <2>1. UNCHANGED <<text, doc>> /\ Measured' = Measured
    BY <1>t, <1>7 DEF RemoveBlob, KeepBlob, Measured
  <2> QED BY <1>t, <1>r, <1>7, <2>1, SpaceKept DEF RemoveBlob, KeepBlob, Task
<1>8. ASSUME NEW h \in Requests, CommitCreate(h) PROVE SpaceInv'
  <2>1. \A p \in Measured' : text'[p] = 0 \/ (p \in Measured /\ text'[p] = text[p])
    BY <1>t, <1>8 DEF CommitCreate, Measured, Mark, Task
  <2> QED BY <1>r, <1>d, <1>8, <2>1, SpaceKept DEF CommitCreate
<1>9. ASSUME NEW h \in Requests, Admit(h) PROVE SpaceInv'
  <2>1. /\ UNCHANGED <<text, doc, history>> /\ loop = Nothing
        /\ \A g \in Requests : task[g].at \notin OnLoop
        /\ task[h] \in Task /\ task[h].project \in Projects
    BY <1>t, <1>9, DocumentsConstants DEF Admit, TaskShape
  <2>2. Rows' = Rows /\ Units(Measured)' = Units(Measured)
        /\ \A p \in Projects : Units(Measured \ {p})' = Units(Measured \ {p})
    BY <2>1 DEF Rows, Registered, Units, Measured
  <2>3. Used = Rows + Units(Projects) /\ Used \in Nat
    BY <1>n DEF Used, Rows
  <2>4. Units(Measured) <= Units(Projects)
    BY <1>n, <1>f
  <2>5. Rows <= MaxDocs /\ Rows + Units(Measured) <= MaxStorage
    BY DEF SpaceInv
  <2>6. CASE task[h].op = "upload"
    <3>1. task' = [task EXCEPT ![h].at = "put"]
      BY <1>9, <2>6 DEF Admit
    <3>2. Rows + task[h].rows <= MaxDocs /\ Used + task[h].rows <= MaxStorage
      BY <1>9, <2>6 DEF Admit, Rows
    <3>3. task[h].rows \in Nat
      BY <1>n, <2>1 DEF Task
    <3>4. Rows + Units(Measured) + task[h].rows <= MaxStorage
      BY <1>n, <2>3, <2>4, <3>2, <3>3
    <3>5. /\ task'[h].at = "put" /\ task'[h].rows = task[h].rows
          /\ \A g \in Requests : g # h => task'[g] = task[g]
      BY <1>t, <3>1 DEF Task
    <3> QED BY <2>1, <2>2, <2>5, <3>2, <3>4, <3>5 DEF SpaceInv, UploadRoom, TextRoom, OnLoop
  <2>7. CASE task[h].op # "upload"
    <3> DEFINE p == task[h].project
    <3>1. task' = [task EXCEPT ![h].at = "write"]
      BY <1>9, <2>7 DEF Admit
    <3>2. Used + task[h].size <= MaxStorage + task[h].old
      BY <1>9, <2>7 DEF Admit
    <3>3. task[h].size \in Nat /\ task[h].old \in Nat
      BY <1>n, <2>1 DEF Task
    <3>4. Units(Projects) = Units(Projects \ {p}) + text[p]
      <4>1. (Projects \ {p}) \cup {p} = Projects
        BY <2>1
      <4>2. Cardinality(Cells(text, (Projects \ {p}) \cup {p}))
              = Cardinality(Cells(text, Projects \ {p})) + text[p]
        BY <1>t, <2>1, OneText
      <4>3. Cardinality(Cells(text, Projects)) = Cardinality(Cells(text, Projects \ {p})) + text[p]
        BY <4>1, <4>2
      <4> QED BY <4>3 DEF Units, Cells
    <3>5. Units(Measured \ {p}) <= Units(Projects \ {p})
      <4>1. Measured \ {p} \subseteq Projects \ {p} /\ Projects \ {p} \in SUBSET Projects
        BY <1>n
      <4> QED BY <1>f, <4>1
    <3>6. ~task[h].stale => task[h].old = text[p]
      BY <1>9, <2>1, <2>7 DEF Admit, TaskShape, TextReading
    <3>7. ~task[h].stale => Rows + Units(Measured \ {p}) + task[h].size <= MaxStorage
      BY <1>n, <1>t, <2>1, <2>3, <3>2, <3>3, <3>4, <3>5, <3>6
    <3>8. /\ task'[h].at = "write" /\ task'[h].size = task[h].size
          /\ task'[h].project = p /\ task'[h].stale = task[h].stale
          /\ \A g \in Requests : g # h => task'[g] = task[g]
      BY <1>t, <3>1 DEF Task
    <3> QED BY <2>1, <2>2, <2>5, <3>7, <3>8 DEF SpaceInv, UploadRoom, TextRoom, OnLoop
  <2> QED BY <2>6, <2>7
<1>10. ASSUME NEW h \in Requests, Refuse(h) PROVE SpaceInv'
  BY <1>r, <1>s, <1>d, <1>10, SpaceKept DEF Refuse
<1>11. ASSUME NEW h \in Requests, InsertRow(h) PROVE SpaceInv'
  <2>1. /\ UNCHANGED <<text, history>> /\ task[h] \in Task /\ task[h].rows \in Nat
        /\ task[h].at = "insert" /\ task[h].rows > 0 /\ task[h].doc \in Docs
        /\ \A g \in Requests : g # h => task[g].at \notin OnLoop
    BY <1>t, <1>n, <1>11 DEF InsertRow, TaskShape, Task, OnLoop
  <2>2. Units(Measured)' = Units(Measured) /\ Units(Measured) \in Nat
    BY <1>n, <2>1 DEF Units, Measured
  <2>3. Rows + task[h].rows <= MaxDocs /\ Rows + Units(Measured) + task[h].rows <= MaxStorage
    BY <2>1 DEF SpaceInv, UploadRoom
  <2>4. CASE ~Stored(task[h].project)
    <3>1. UNCHANGED doc /\ Done(h, {})
      BY <1>11, <2>4 DEF InsertRow
    <3> QED BY <1>r, <1>s, <1>d, <2>1, <3>1, SpaceKept
  <2>5. CASE Stored(task[h].project)
    <3>1. Rows' \in Nat /\ Rows' <= Rows + 1
      <4>1. Registered' \subseteq Registered \cup {task[h].doc}
        BY <1>11, <2>5 DEF InsertRow, Registered, DocumentsTypeOK
      <4>2. /\ IsFiniteSet(Registered \cup {task[h].doc})
            /\ Cardinality(Registered \cup {task[h].doc})
                 = IF task[h].doc \in Registered THEN Rows ELSE Rows + 1
        BY Counts, FS_AddElement DEF Rows
      <4>3. Rows' <= Cardinality(Registered \cup {task[h].doc})
        BY <4>1, <4>2, FS_Subset DEF Rows
      <4>4. Rows' \in Nat
        BY CountsNext DEF Rows
      <4> QED BY <1>n, <4>2, <4>3, <4>4
    <3>2. Rows' <= MaxDocs /\ Rows' + Units(Measured)' <= MaxStorage
      BY <1>n, <2>1, <2>2, <2>3, <3>1
    <3>3. CASE task[h].rows > 1
      <4>1. Rows' + task'[h].rows <= MaxDocs /\ Rows' + Units(Measured)' + task'[h].rows <= MaxStorage
        BY <1>n, <1>11, <2>1, <2>2, <2>3, <2>5, <3>1, <3>3, NextRow
      <4>2. \A g \in Requests : g # h => task'[g].at \notin OnLoop
        BY <1>11, <2>1, <2>5, <3>3, NextRow
      <4>3. task'[h].at = "put"
        BY <1>11, <2>5, <3>3, NextRow
      <4> QED BY <3>2, <4>1, <4>2, <4>3 DEF SpaceInv, UploadRoom, TextRoom, OnLoop
    <3>4. CASE ~(task[h].rows > 1)
      <4>1. Done(h, {})
        BY <1>11, <3>4 DEF InsertRow
      <4>2. \A g \in Requests : task'[g].at \notin OnLoop
        BY <1>t, <2>1, <4>1 DEF Done, Task, NoTask, OnLoop
      <4> QED BY <3>2, <4>2 DEF SpaceInv, UploadRoom, TextRoom, OnLoop
    <3> QED BY <3>3, <3>4
  <2> QED BY <2>4, <2>5
<1>12. ASSUME NEW h \in Requests, WriteText(h) PROVE SpaceInv'
  <2> DEFINE p == task[h].project
  <2>1. /\ UNCHANGED doc /\ Registered' = Registered /\ Rows' = Rows
        /\ task[h] \in Task /\ p \in Projects /\ task[h].size \in Nat /\ task[h].at = "write"
        /\ \A g \in Requests : g # h => task[g].at \notin OnLoop
    BY <1>t, <1>n, <1>12 DEF WriteText, TaskShape, Task, Registered, Rows, OnLoop
  <2>2. CASE UNCHANGED <<text, history>> /\ Done(h, {})
    BY <1>s, <1>d, <2>1, <2>2, SpaceKept
  <2>3. CASE /\ text' = [text EXCEPT ![p] = task[h].size]
             /\ history' = [history EXCEPT
                              !.unmeasured = Mark(@, p, task[h].stale /\ task[h].size > 0)]
             /\ Done(h, Doing("contract", p))
    <3>1. CASE task[h].stale \/ task[h].size = 0
      <4>1. \A q \in Measured' : text'[q] = 0 \/ (q \in Measured /\ text'[q] = text[q])
        BY <1>t, <2>1, <2>3, <3>1 DEF Measured, Mark
      <4> QED BY <1>d, <2>1, <2>3, <4>1, SpaceKept
    <3>2. CASE ~task[h].stale
      <4>1. Measured' = (Measured \ {p}) \cup {p} /\ text'[p] = task[h].size
            /\ text' \in [Projects -> 0..MaxText]
        BY <1>t, <2>1, <2>3, <3>2 DEF Measured, Mark, DocumentsTypeOK
      <4>2. Units(Measured)' = Cardinality(Cells(text', Measured \ {p})) + task[h].size
        <5>1. Cardinality(Cells(text', (Measured \ {p}) \cup {p}))
                = Cardinality(Cells(text', Measured \ {p})) + text'[p]
          BY <1>n, <2>1, <4>1, OneText
        <5>2. Cardinality(Cells(text', Measured'))
                = Cardinality(Cells(text', Measured \ {p})) + task[h].size
          BY <4>1, <5>1
        <5> QED BY <5>2 DEF Units, Cells
      <4>3. Cardinality(Cells(text', Measured \ {p})) <= Cardinality(Cells(text, Measured \ {p}))
        <5>1. \A q \in Measured \ {p} : text'[q] = text[q]
          BY <1>t, <1>n, <2>3
        <5> QED BY <1>n, <1>t, <4>1, <5>1, FewerUnits
      <4>4. Rows + Units(Measured \ {p}) + task[h].size <= MaxStorage
        BY <2>1, <3>2 DEF SpaceInv, TextRoom
      <4>5. Units(Measured \ {p}) = Cardinality(Cells(text, Measured \ {p}))
        BY DEF Units, Cells
      <4>6. Cardinality(Cells(text', Measured \ {p})) \in Nat /\ Units(Measured \ {p}) \in Nat
        BY <1>n, CellsFinite
      <4>7. Rows' + Units(Measured)' <= MaxStorage
        BY <1>n, <2>1, <4>2, <4>3, <4>4, <4>5, <4>6
      <4>8. \A g \in Requests : task'[g].at \notin OnLoop
        BY <1>t, <2>1, <2>3 DEF Done, Task, NoTask, OnLoop
      <4> QED BY <2>1, <4>7, <4>8 DEF SpaceInv, UploadRoom, TextRoom, OnLoop
    <3> QED BY <3>1, <3>2
  <2> QED BY <1>12, <2>2, <2>3 DEF WriteText
<1>13. ASSUME NEW h \in Requests, DeleteProject(h) PROVE SpaceInv'
  <2>1. Registered' \subseteq Registered
    BY <1>13 DEF DeleteProject, Registered
  <2>2. \A p \in Measured' : text'[p] = 0 \/ (p \in Measured /\ text'[p] = text[p])
    BY <1>t, <1>13 DEF DeleteProject, Measured
  <2> QED BY <1>d, <1>13, <2>1, <2>2, SpaceKept DEF DeleteProject
<1>14. ASSUME NEW h \in Requests, FailTask(h) PROVE SpaceInv'
  <2>1. UNCHANGED <<text, doc>> /\ Measured' = Measured
    BY <1>t, <1>14 DEF FailTask, Measured
  <2> QED BY <1>r, <1>d, <1>14, <2>1, SpaceKept DEF FailTask
<1>15. CASE UNCHANGED documentVars
  BY <1>r, <1>s, <1>15, SpaceKept DEF documentVars
<1> QED BY <1>1, <1>2, <1>3, <1>4, <1>5, <1>6, <1>7, <1>8, <1>9, <1>10, <1>11, <1>12, <1>13, <1>14,
           <1>15 DEF DocumentsNext

-----------------------------------------------------------------------------
(* The steps keep the contents                                             *)

\* The invariant, document by document, is the property.
LEMMA ByDocument ==
  DocumentsTypeOK /\ RowsBacked /\ CalmContents => ContentFollowsRows
BY DEF DocumentsTypeOK, RowsBacked, CalmContents, ContentFollowsRows, Registered, Doing

\* A request goes on with the same content, keys and project,
SameWork(g) ==
  /\ task'[g].op = task[g].op /\ task'[g].project = task[g].project
  /\ task'[g].doc = task[g].doc /\ task'[g].keys = task[g].keys
  /\ task'[g].at = "insert" <=> task[g].at = "insert"
\* or has nothing to do with contents, before and after.
NoWork(g) ==
  /\ task[g].op # "delete" /\ task[g].doc = Nothing
  /\ task'[g].op \notin {"upload", "delete"} /\ task'[g].at # "insert" /\ task'[g].keys = {}

\* A step that leaves rows and contents alone.
LEMMA ContentKept ==
  ASSUME DocumentsTypeOK, TaskShape, ContentInv, UNCHANGED <<doc, blob>>,
         history'.calm => history.calm, history'.doomed = history.doomed,
         \A q \in Projects : Stored(q) => Stored(q)',
         \A g \in Requests : SameWork(g) \/ NoWork(g)
  PROVE  ContentInv'
<1>t. /\ Nothing \notin Docs
      /\ \A h \in Requests : task[h].op \in {"upload", "delete"} => task[h].project \in Projects
  BY DocumentsConstants DEF Docs, TaskShape
<1>1. KeysKnown'
  BY DEF ContentInv, KeysKnown, SameWork, NoWork
<1>2. CalmWork'
  BY <1>t DEF ContentInv, CalmWork, SameWork, NoWork
<1>3. RowsBacked'
  BY DEF ContentInv, RowsBacked
<1>4. CalmContents'
  BY <1>t DEF ContentInv, CalmContents, SameWork, NoWork
<1> QED BY <1>1, <1>2, <1>3, <1>4 DEF ContentInv

\* Every step keeps rows and contents together.
LEMMA ContentStep ==
  ASSUME DocumentsTypeOK, DocumentsTypeOK', TaskShape, NewProjects, ContentInv,
         [DocumentsNext]_documentVars
  PROVE  ContentInv'
<1>t. /\ task \in [Requests -> Task] /\ NoTask \in Task
      /\ project \in [Projects -> {"none", "active", "archived", "deleted"}]
      /\ doc \in [Docs -> Projects \cup {Nothing}] /\ blob \in SUBSET Docs
      /\ history \in [uncounted : SUBSET Projects, unmeasured : SUBSET Projects,
                      doomed : SUBSET Projects, calm : BOOLEAN]
      /\ Nothing \notin Projects /\ Nothing \notin Docs
      /\ \A h \in Requests : task[h].op \in {"upload", "delete"} => task[h].project \in Projects
  BY TaskTypes, DocumentsConstants DEF DocumentsTypeOK, Docs, TaskShape
<1>1. ASSUME NEW p \in Projects, Archive(p) \/ Unarchive(p)
      PROVE  ContentInv'
  <2>1. /\ UNCHANGED <<doc, blob, task>> /\ history'.calm = history.calm
        /\ history'.doomed = history.doomed
    BY <1>t, <1>1 DEF Archive, Unarchive
  <2>2. \A q \in Projects : Stored(q) => Stored(q)'
    BY <1>t, <1>1 DEF Archive, Unarchive, Stored
  <2> QED BY <2>1, <2>2 DEF ContentInv, KeysKnown, CalmWork, RowsBacked, CalmContents, TaskShape
<1>2. ASSUME NEW h \in Requests, NEW p \in Projects, NEW size \in 0..MaxText,
             BeginCreateProject(h, p, size)
      PROVE  ContentInv'
  BY <1>t, <1>2 DEF BeginCreateProject, Begin, NoTask, ContentInv, KeysKnown, CalmWork,
     RowsBacked, CalmContents, Stored
<1>3. ASSUME NEW h \in Requests, NEW p \in Projects, NEW size \in 0..MaxText,
             BeginContract(h, p, size)
      PROVE  ContentInv'
  BY <1>t, <1>3 DEF BeginContract, Begin, NoTask, ContentInv, KeysKnown, CalmWork, RowsBacked,
     CalmContents, Stored
<1>4. ASSUME NEW h \in Requests, NEW p \in Projects, NEW rows \in 1..MaxRows,
             BeginUpload(h, p, rows)
      PROVE  ContentInv'
  <2> DEFINE r == [NoTask EXCEPT !.op = "upload", !.at = "read", !.project = p, !.rows = rows]
  <2>1. task' = [task EXCEPT ![h] = r] /\ task[h] = NoTask /\ UNCHANGED <<doc, blob, project>>
    BY <1>4 DEF BeginUpload, Begin
  <2>2. /\ r.op = "upload" /\ r.at = "read" /\ r.project = p /\ r.doc = Nothing /\ r.keys = {}
    BY DEF NoTask
  <2>3. /\ task'[h].op = "upload" /\ task'[h].at = "read" /\ task'[h].project = p
        /\ task'[h].doc = Nothing /\ task'[h].keys = {}
        /\ \A g \in Requests : g # h => task'[g] = task[g]
    BY <1>t, <2>1, <2>2
  <2> HIDE DEF r
  <2>4. task[h].op = "none" /\ task[h].at = "none" /\ task[h].doc = Nothing
    BY <2>1 DEF NoTask
  <2>5. /\ Stored(p) /\ Stored(p)' /\ history'.doomed = history.doomed
        /\ history'.calm => history.calm /\ \A g \in Requests : task[g].op = "delete" => task[g].project # p
    BY <1>t, <1>4 DEF BeginUpload, Overlap, Doing, Stored
  <2>6. KeysKnown' /\ RowsBacked' /\ CalmContents'
    BY <2>1, <2>3, <2>4, <2>5 DEF ContentInv, KeysKnown, RowsBacked, CalmContents
  <2>7. CalmWork'
    BY <2>1, <2>3, <2>4, <2>5 DEF ContentInv, CalmWork, Stored
  <2> QED BY <2>6, <2>7 DEF ContentInv
<1>5. ASSUME NEW h \in Requests, NEW p \in Projects, BeginDeleteProject(h, p)
      PROVE  ContentInv'
  <2> DEFINE r == [NoTask EXCEPT !.op = "delete", !.at = "remove", !.project = p, !.keys = RowsOf(p)]
  <2>1. task' = [task EXCEPT ![h] = r] /\ task[h] = NoTask /\ UNCHANGED <<doc, blob, project>>
    BY <1>5 DEF BeginDeleteProject, Begin
  <2>2. /\ r.op = "delete" /\ r.at = "remove" /\ r.project = p /\ r.doc = Nothing /\ r.keys = RowsOf(p)
    BY DEF NoTask
  <2>3. /\ task'[h].op = "delete" /\ task'[h].at = "remove" /\ task'[h].project = p
        /\ task'[h].doc = Nothing /\ task'[h].keys = RowsOf(p)
        /\ \A g \in Requests : g # h => task'[g] = task[g]
    BY <1>t, <2>1, <2>2
  <2> HIDE DEF r
  <2>4. task[h].op = "none" /\ task[h].at = "none" /\ task[h].doc = Nothing
    BY <2>1 DEF NoTask
  <2>5. /\ history'.doomed = history.doomed \cup {p}
        /\ history'.calm => history.calm /\ \A g \in Requests : task[g].op = "upload" => task[g].project # p
    BY <1>t, <1>5 DEF BeginDeleteProject, Overlap, Doing
  <2>6. \A d \in Docs : d \in RowsOf(p) <=> doc[d] = p
    BY DEF RowsOf
  <2>7. RowsOf(p) \subseteq Docs
    BY DEF RowsOf
  <2>8. KeysKnown'
    BY <1>t, <2>1, <2>3, <2>4, <2>5, <2>6, <2>7 DEF ContentInv, KeysKnown, TaskShape, Task
  <2>9. RowsBacked' /\ CalmContents'
    BY <2>1, <2>3, <2>4, <2>5 DEF ContentInv, RowsBacked, CalmContents
  <2>10. CalmWork'
    BY <2>1, <2>3, <2>4, <2>5, <2>6 DEF ContentInv, CalmWork, Stored
  <2> QED BY <2>8, <2>9, <2>10 DEF ContentInv
<1>6. ASSUME NEW h \in Requests, NEW d \in Docs, PutBlob(h, d)
      PROVE  ContentInv'
  <2>1. /\ task' = [task EXCEPT ![h] = [@ EXCEPT !.at = "insert", !.doc = d]]
        /\ blob' = blob \cup {d} /\ task[h].at = "put" /\ UNCHANGED <<doc, project, history>>
    BY <1>6 DEF PutBlob
  <2>2. /\ task'[h].op = task[h].op /\ task'[h].at = "insert" /\ task'[h].doc = d
        /\ task'[h].project = task[h].project /\ task'[h].keys = task[h].keys
        /\ \A g \in Requests : g # h => task'[g] = task[g]
    BY <1>t, <2>1 DEF Task
  <2>3. /\ task[h].op = "upload" /\ task[h].doc = Nothing
    BY <2>1 DEF TaskShape
  <2>4. /\ doc[d] = Nothing /\ d \notin blob /\ \A g \in Requests : d \notin task[g].keys
    BY <1>6 DEF PutBlob, FreeKeys, Registered
  <2>5. \A g \in Requests : task[g].at = "insert" => g # h
    BY <2>1
  <2>6. KeysKnown'
    BY <2>1, <2>2, <2>3, <2>4, <2>5 DEF ContentInv, KeysKnown
  <2>7. CalmWork'
    BY <1>t, <2>1, <2>2, <2>3, <2>4 DEF ContentInv, CalmWork, Stored
  <2>8. RowsBacked'
    BY <2>1 DEF ContentInv, RowsBacked
  <2>9. CalmContents'
    BY <1>t, <2>1, <2>2, <2>3, <2>4 DEF ContentInv, CalmContents
  <2> QED BY <2>6, <2>7, <2>8, <2>9 DEF ContentInv
<1>7. ASSUME NEW h \in Requests, NEW d \in Docs, RemoveBlob(h, d)
      PROVE  ContentInv'
  BY <1>t, <1>7 DEF RemoveBlob, Task, TaskShape, ContentInv, KeysKnown, CalmWork, RowsBacked,
     CalmContents, Stored
<1>8. ASSUME NEW h \in Requests, NEW d \in Docs, KeepBlob(h, d)
      PROVE  ContentInv'
  BY <1>t, <1>8 DEF KeepBlob, Task, TaskShape, ContentInv, KeysKnown, CalmWork, RowsBacked,
     CalmContents, Stored
<1>9. ASSUME NEW h \in Requests, CommitCreate(h)
      PROVE  ContentInv'
  <2>1. /\ UNCHANGED <<doc, blob>> /\ history'.calm = history.calm
        /\ history'.doomed = history.doomed
    BY <1>t, <1>9 DEF CommitCreate
  <2>2. \A q \in Projects : Stored(q) => Stored(q)'
    BY <1>t, <1>9 DEF CommitCreate, Stored
  <2>3. /\ task[h].op = "create" /\ task[h].at = "create" /\ task[h].doc = Nothing
        /\ task'[h] = NoTask
        /\ \A g \in Requests : g # h =>
             /\ task'[g].op = task[g].op /\ task'[g].at = task[g].at /\ task'[g].doc = task[g].doc
             /\ task'[g].project = task[g].project /\ task'[g].keys = task[g].keys
    BY <1>t, <1>9 DEF CommitCreate, Done, TaskShape, Task
  <2>4. task'[h].op = "none" /\ task'[h].at = "none" /\ task'[h].keys = {}
    BY <2>3 DEF NoTask
  <2> QED BY <2>1, <2>2, <2>3, <2>4, ContentKept DEF SameWork, NoWork
<1>10. ASSUME NEW h \in Requests, Admit(h)
      PROVE  ContentInv'
  <2>1. UNCHANGED <<project, doc, blob, history>>
    BY <1>10 DEF Admit
  <2>2. ASSUME NEW g \in Requests PROVE SameWork(g)
    <3>1. task[g].at # "insert" => task'[g].at # "insert"
      BY <1>t, <1>10 DEF Admit, Task
    <3>2. task[g].at = "insert" => g # h
      BY <1>10 DEF Admit
    <3> QED BY <1>t, <1>10, <3>1, <3>2 DEF Admit, Task, SameWork
  <2> QED BY <2>1, <2>2, ContentKept DEF Stored
<1>11. ASSUME NEW h \in Requests, Refuse(h)
      PROVE  ContentInv'
  <2>1. UNCHANGED <<doc, blob>> /\ history'.calm = history.calm
        /\ history'.doomed = history.doomed /\ UNCHANGED project
    BY <1>t, <1>11 DEF Refuse
  <2>2. /\ task[h].op \in {"upload", "contract"} /\ task[h].at # "insert" /\ task[h].doc = Nothing
    BY <1>11 DEF Refuse, TaskShape
  <2>3. /\ task'[h] = NoTask
        /\ \A g \in Requests : g # h => SameWork(g)
    BY <1>t, <1>11 DEF Refuse, Done, Task, SameWork
  <2>4. task'[h].op = "none" /\ task'[h].at = "none" /\ task'[h].keys = {}
    BY <2>3 DEF NoTask
  <2> QED BY <2>1, <2>2, <2>3, <2>4, ContentKept DEF NoWork, Stored
<1>12. ASSUME NEW h \in Requests, InsertRow(h)
      PROVE  ContentInv'
  <2> DEFINE p == task[h].project
             d == task[h].doc
  <2>1. /\ UNCHANGED <<project, blob, history>> /\ d \in Docs /\ p \in Projects
        /\ task[h].at = "insert" /\ task[h].op = "upload" /\ task[h].keys = {}
    BY <1>t, <1>12 DEF InsertRow, TaskShape, Task
  <2>2. /\ d \in blob /\ doc[d] = Nothing /\ \A g \in Requests : d \notin task[g].keys
    BY <2>1 DEF ContentInv, KeysKnown
  <2>3. \A g \in Requests : g # h =>
          /\ task'[g].op = task[g].op /\ task'[g].at = task[g].at /\ task'[g].doc = task[g].doc
          /\ task'[g].project = task[g].project /\ task'[g].keys = task[g].keys
    <3>1. CASE Stored(p) /\ task[h].rows > 1
      BY <1>12, <3>1, NextRow
    <3>2. CASE ~(Stored(p) /\ task[h].rows > 1)
      BY <1>t, <1>12, <3>2 DEF InsertRow, Done, Task
    <3> QED BY <3>1, <3>2
  <2>4. /\ task'[h].at # "insert" /\ task'[h].doc = Nothing /\ task'[h].keys = {}
        /\ task'[h].op = "upload" => Stored(p) /\ task'[h].project = p
        /\ task'[h].op \in {"none", "upload"}
    <3>1. CASE Stored(p) /\ task[h].rows > 1
      BY <1>12, <2>1, <3>1, NextRow
    <3>2. CASE ~(Stored(p) /\ task[h].rows > 1)
      BY <1>t, <1>12, <3>2 DEF InsertRow, Done, NoTask
    <3> QED BY <3>1, <3>2
  <2>5. \A g \in Requests : g # h => task[g].at # "insert"
    BY <1>12 DEF InsertRow, TaskShape, OnLoop
  <2>6. CASE Stored(p)
    <3>1. doc'[d] = p /\ \A e \in Docs : e # d => doc'[e] = doc[e]
      BY <1>t, <1>12, <2>1, <2>6 DEF InsertRow
    <3>2. KeysKnown'
      BY <1>t, <2>1, <2>2, <2>3, <2>4, <2>5, <3>1 DEF ContentInv, KeysKnown, Task
    <3>3. CalmWork'
      BY <2>1, <2>2, <2>3, <2>4, <3>1 DEF ContentInv, CalmWork, Stored
    <3>4. RowsBacked'
      BY <2>1, <2>2, <3>1 DEF ContentInv, RowsBacked
    <3>5. CalmContents'
      BY <1>t, <2>1, <2>2, <2>3, <2>4, <3>1 DEF ContentInv, CalmContents
    <3> QED BY <3>2, <3>3, <3>4, <3>5 DEF ContentInv
  <2>7. CASE ~Stored(p)
    <3>1. UNCHANGED doc
      BY <1>12, <2>7 DEF InsertRow
    <3>2. ~history.calm
      BY <2>1, <2>7 DEF ContentInv, CalmWork
    <3>3. KeysKnown'
      BY <2>1, <2>3, <2>4, <2>5, <3>1 DEF ContentInv, KeysKnown
    <3> QED BY <2>1, <3>1, <3>2, <3>3 DEF ContentInv, CalmWork, RowsBacked, CalmContents
  <2> QED BY <2>6, <2>7
<1>13. ASSUME NEW h \in Requests, WriteText(h)
      PROVE  ContentInv'
  <2>1. UNCHANGED <<doc, blob>> /\ history'.calm = history.calm
        /\ history'.doomed = history.doomed /\ UNCHANGED project
    BY <1>t, <1>13 DEF WriteText
  <2>2. /\ task[h].op \in {"upload", "contract"} /\ task[h].at # "insert" /\ task[h].doc = Nothing
    BY <1>13 DEF WriteText, TaskShape
  <2>3. /\ task'[h] = NoTask
        /\ \A g \in Requests : g # h => SameWork(g)
    BY <1>t, <1>13 DEF WriteText, Done, Task, SameWork
  <2>4. task'[h].op = "none" /\ task'[h].at = "none" /\ task'[h].keys = {}
    BY <2>3 DEF NoTask
  <2> QED BY <2>1, <2>2, <2>3, <2>4, ContentKept DEF NoWork, Stored
<1>14. ASSUME NEW h \in Requests, DeleteProject(h)
      PROVE  ContentInv'
  BY <1>t, <1>14 DEF DeleteProject, Done, NoTask, Task, TaskShape, ContentInv, KeysKnown,
     CalmWork, RowsBacked, CalmContents, Stored
<1>15. ASSUME NEW h \in Requests, FailTask(h)
      PROVE  ContentInv'
  BY <1>t, <1>15 DEF FailTask, Done, NoTask, Task, TaskShape, ContentInv, KeysKnown, CalmWork,
     RowsBacked, CalmContents, Stored
<1>16. CASE UNCHANGED documentVars
  BY <1>16 DEF documentVars, ContentInv, KeysKnown, CalmWork, RowsBacked, CalmContents, Stored
<1> QED BY <1>1, <1>2, <1>3, <1>4, <1>5, <1>6, <1>7, <1>8, <1>9, <1>10, <1>11, <1>12, <1>13,
     <1>14, <1>15, <1>16 DEF DocumentsNext

-----------------------------------------------------------------------------
(* The theorems                                                            *)

\* The invariant holds at first.
LEMMA DocumentsStart == DocumentsInit => DocumentsInv
<1> SUFFICES ASSUME DocumentsInit PROVE DocumentsInv
  OBVIOUS
<1>n. /\ MaxRows \in Nat /\ MaxText \in Nat /\ MaxFailures \in Nat
      /\ MaxActive \in Nat /\ MaxDocs \in Nat /\ MaxStorage \in Nat
      /\ Nothing \notin Requests
  BY DocumentsConstants
<1>1. NoTask \in Task
  BY <1>n DEF NoTask, Task
<1>2. DocumentsTypeOK
  <2>1. task \in [Requests -> Task]
    BY <1>1 DEF DocumentsInit
  <2>2. text \in [Projects -> 0..MaxText] /\ failures \in 0..MaxFailures
    BY <1>n DEF DocumentsInit
  <2> QED BY <2>1, <2>2 DEF DocumentsInit, DocumentsTypeOK, Task
<1>3. \A h \in Requests :
        /\ task[h].op = "none" /\ task[h].at = "none" /\ task[h].doc = Nothing /\ task[h].keys = {}
  BY DEF DocumentsInit, NoTask
<1>4. TaskShape /\ NewProjects /\ TextReading
  BY <1>n, <1>3 DEF DocumentsInit, TaskShape, NewProjects, TextReading, OnLoop
<1>5. CountInv
  <2>1. Counted = {}
    BY DEF DocumentsInit, Counted, Active
  <2> QED BY <1>n, <1>3, <2>1, FS_EmptySet DEF CountInv
<1>6. SpaceInv
  <2>1. Registered = {}
    BY DEF DocumentsInit, Registered
  <2>2. {u \in Measured \X (1..MaxText) : u[2] <= text[u[1]]} = {}
    BY <1>n DEF DocumentsInit, Measured
  <2>3. Rows = 0 /\ Units(Measured) = 0
    BY <2>1, <2>2, FS_EmptySet DEF Rows, Units
  <2> QED BY <1>n, <1>3, <2>3 DEF SpaceInv, UploadRoom, TextRoom
<1>7. ContentInv
  BY <1>3 DEF DocumentsInit, ContentInv, KeysKnown, CalmWork, RowsBacked, CalmContents
<1> QED BY <1>2, <1>4, <1>5, <1>6, <1>7 DEF DocumentsInv

\* The invariant of the documents is inductive.
THEOREM DocumentsInvariance == DocumentsSpec => []DocumentsInv
<1>1. DocumentsInv /\ [DocumentsNext]_documentVars => DocumentsInv'
  BY TypeStep, ShapeStep, CountStep, TextStep, SpaceStep, ContentStep DEF DocumentsInv
<1> QED BY DocumentsStart, <1>1, PTL DEF DocumentsSpec

\* Every request on projects and documents keeps the types of the rows.
THEOREM DocumentsTypes == DocumentsSpec => []DocumentsTypeOK
<1>1. DocumentsInv => DocumentsTypeOK
  BY DEF DocumentsInv
<1> QED BY DocumentsInvariance, <1>1, PTL

\* Projects, documents and storage stay within the plan (services/billing.py), but for
\* what nobody counted or measured.
THEOREM WithinThePlan == DocumentsSpec => []LimitsHold
<1>1. DocumentsInv => LimitsHold
  BY DEF DocumentsInv, CountInv, SpaceInv, LimitsHold, Rows, Measured, Counted
<1> QED BY DocumentsInvariance, <1>1, PTL

\* Rows and contents agree (services/projects.py, storage.py) unless a deletion, an error
\* or a crash came between.
THEOREM RowsAndContents == DocumentsSpec => []ContentFollowsRows
<1>1. DocumentsInv => ContentFollowsRows
  BY ByDocument DEF DocumentsInv, ContentInv
<1> QED BY DocumentsInvariance, <1>1, PTL
=============================================================================
