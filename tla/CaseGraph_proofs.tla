-------------------------- MODULE CaseGraph_proofs --------------------------
(***************************************************************************)
(* For any requests, nodes, values and bounds: what the interleaved        *)
(* transactions on a case keep.                                            *)
(***************************************************************************)
EXTENDS CaseGraph, TLAPS

USE CaseAssumption DEF CaseAssumption

(* The rows that are yet to be inserted are new, and no id is among them   *)
(* twice: an insertion never meets a node that was rated.  Without it the  *)
(* type invariant, which relates ratings to metadata, is not inductive.    *)
Fresh ==
    /\ \A n \in Id : n > used => status[n] = "gone"
    /\ \A n \in Id : status[n] = "gone" => rating[n] = 0
    /\ \A r \in Request : \A i \in DOMAIN todo[r] : \A row \in todo[r][i].nodes :
          row.id <= used /\ status[row.id] = "gone"
    /\ \A r, s \in Request : \A i \in DOMAIN todo[r], j \in DOMAIN todo[s] :
          \A a \in todo[r][i].nodes, b \in todo[s][j].nodes :
             a.id = b.id => r = s /\ i = j

IInv == TypeOK /\ Fresh

(* What the types say of the sets of numbers, and of the rows.             *)
LEMMA Numbers ==
    /\ Id \subseteq Nat /\ Values \subseteq Nat
    /\ \A n \in Nat : n \in Id <=> n >= 1 /\ n <= MaxNodes
BY DEF Id, Values

LEMMA RowTypes ==
    ASSUME NEW n \in Id, NEW s \in Statuses, NEW full \in BOOLEAN, NEW m \in Id
    PROVE  /\ OneNode(n, s, full) \in Rows
           /\ OneEdge(m, n) \in Rows
           /\ NodeRow(n, s, full) \in [id : Id, status : Statuses, filled : BOOLEAN]
           /\ NodeRow(n, s, full).id = n
BY DEF OneNode, OneEdge, NodeRow, Rows

LEMMA InitIInv == Init => IInv
BY Numbers DEF Init, IInv, TypeOK, Fresh

(* An inserting handler begins: it takes new ids, each for one row.        *)
LEMMA InsertingKeeps ==
    ASSUME IInv, NEW r \in Request, NEW rows \in Seq(Rows), NEW ids \in Nat,
           Inserting(r, rows, ids),
           case' \in {"none", "there", "deleted"},
           \A i \in DOMAIN rows : \A row \in rows[i].nodes :
              row.id > used /\ row.id <= used + ids,
           \A i, j \in DOMAIN rows : \A a \in rows[i].nodes, b \in rows[j].nodes :
              a.id = b.id => i = j
    PROVE  IInv'
<1>t. TypeOK
  BY DEF IInv
<1>a. used \in 0..MaxNodes /\ todo \in [Request -> Seq(Rows)]
  BY <1>t DEF TypeOK
<1>b. /\ used' = used + ids /\ used + ids <= MaxNodes
      /\ todo' = [todo EXCEPT ![r] = rows]
      /\ stage' = [stage EXCEPT ![r] = "inserting"]
      /\ UNCHANGED <<several, layout, laidOut, status, filled, rating, edges, marked, rated,
                     target, stoppable, copy, open, edits, crashes>>
  BY DEF Inserting, rowVars
<1>1. /\ used \in Nat /\ used' = used + ids /\ used' \in 0..MaxNodes
      /\ todo' = [todo EXCEPT ![r] = rows]
      /\ todo \in [Request -> Seq(Rows)]
      /\ UNCHANGED <<status, filled, rating>>
  BY <1>a, <1>b
<1>2. todo' \in [Request -> Seq(Rows)]
  BY <1>1
<1>3. TypeOK'
  BY <1>t, <1>b, <1>1, <1>2 DEF TypeOK
<1>4. \A n \in Id : n > used' => status'[n] = "gone"
  BY <1>1, Numbers DEF IInv, Fresh
<1>5. \A i \in DOMAIN rows : \A row \in rows[i].nodes : row.id \in Id
  <2>. SUFFICES ASSUME NEW i \in DOMAIN rows, NEW row \in rows[i].nodes PROVE row.id \in Id
    OBVIOUS
  <2>1. rows[i] \in Rows
    OBVIOUS
  <2>. QED
    BY <2>1 DEF Rows
<1>6. ASSUME NEW s \in Request, NEW i \in DOMAIN todo'[s], NEW row \in todo'[s][i].nodes
      PROVE  row.id <= used' /\ status'[row.id] = "gone"
  <2>1. CASE s = r
    <3>1. row.id > used /\ row.id <= used + ids /\ row.id \in Id
      BY <1>1, <1>5, <1>6, <2>1
    <3>. QED
      BY <1>1, <3>1 DEF IInv, Fresh
  <2>2. CASE s # r
    <3>1. row.id <= used /\ status[row.id] = "gone"
      BY <1>1, <1>6, <2>2 DEF IInv, Fresh
    <3>2. row.id \in Nat
      <4>1. todo[s][i] \in Rows
        BY <1>1, <1>6, <2>2
      <4>2. row \in todo[s][i].nodes
        BY <1>1, <1>6, <2>2
      <4>. QED
        BY <4>1, <4>2, Numbers DEF Rows
    <3>. QED
      BY <1>1, <3>1, <3>2
  <2>. QED
    BY <2>1, <2>2
<1>7. ASSUME NEW s \in Request, NEW t \in Request,
             NEW i \in DOMAIN todo'[s], NEW j \in DOMAIN todo'[t],
             NEW a \in todo'[s][i].nodes, NEW b \in todo'[t][j].nodes, a.id = b.id
      PROVE  s = t /\ i = j
  <2>1. CASE s = r /\ t = r
    BY <1>1, <1>7, <2>1
  <2>2. CASE s # r /\ t # r
    BY <1>1, <1>7, <2>2 DEF IInv, Fresh
  <2>3. CASE s = r /\ t # r
    <3>1. a.id > used /\ b.id <= used
      BY <1>1, <1>7, <2>3 DEF IInv, Fresh
    <3>2. a.id \in Nat
      BY <1>1, <1>5, <1>7, <2>3, Numbers
    <3>. QED
      BY <1>1, <1>7, <3>1, <3>2
  <2>4. CASE s # r /\ t = r
    <3>1. b.id > used /\ a.id <= used
      BY <1>1, <1>7, <2>4 DEF IInv, Fresh
    <3>2. b.id \in Nat
      BY <1>1, <1>5, <1>7, <2>4, Numbers
    <3>. QED
      BY <1>1, <1>7, <3>1, <3>2
  <2>. QED
    BY <2>1, <2>2, <2>3, <2>4
<1>8. \A n \in Id : status'[n] = "gone" => rating'[n] = 0
  BY <1>1 DEF IInv, Fresh
<1>9. Fresh'
  BY <1>4, <1>6, <1>7, <1>8 DEF Fresh
<1>. QED
  BY <1>3, <1>9 DEF IInv

(* The rows of each inserting handler are new ones.                        *)
LEMMA HandlersInsertNew ==
    ASSUME IInv, NEW r \in Request
    PROVE  /\ CreateCase(r) => IInv'
           /\ \A s \in Statuses, full \in BOOLEAN : CreateNode(r, s, full) => IInv'
           /\ \A m, n \in 1..used : CreateEdge(r, m, n) => IInv'
           /\ \A parent \in 1..used : CreateInteraction(r, parent) => IInv'
<1>t. used \in 0..MaxNodes /\ case \in {"none", "there", "deleted"}
  BY DEF IInv, TypeOK
<1>1. ASSUME CreateCase(r) PROVE IInv'
  <2> DEFINE row == [nodes |-> {NodeRow(used + 1, "COMPLETED", TRUE),
                                NodeRow(used + 2, "PROCESSING", TRUE)},
                     edges |-> {<<used + 1, used + 2>>}]
  <2>1. Inserting(r, <<row>>, 2) /\ case' = "there"
    BY <1>1 DEF CreateCase
  <2>2. used + 1 \in Id /\ used + 2 \in Id
    BY <1>t, <2>1, Numbers DEF Inserting
  <2>3. row \in Rows
    BY <2>2 DEF NodeRow, Rows, Statuses
  <2>4. \A a \in row.nodes : a.id > used /\ a.id <= used + 2
    BY <1>t DEF NodeRow
  <2> HIDE DEF row
  <2>5. <<row>> \in Seq(Rows) /\ DOMAIN <<row>> = {1} /\ <<row>>[1] = row
    BY <2>3
  <2>. QED
    BY <2>1, <2>4, <2>5, InsertingKeeps
<1>2. ASSUME NEW s \in Statuses, NEW full \in BOOLEAN, CreateNode(r, s, full) PROVE IInv'
  <2> DEFINE row == OneNode(used + 1, s, full)
  <2>1. Inserting(r, <<row>>, 1) /\ case' = case
    BY <1>2 DEF CreateNode
  <2>2. used + 1 \in Id
    BY <1>t, <2>1, Numbers DEF Inserting
  <2>3. row \in Rows
    BY <2>2, RowTypes
  <2>4. \A a \in row.nodes : a.id > used /\ a.id <= used + 1
    BY <1>t DEF NodeRow, OneNode
  <2> HIDE DEF row
  <2>5. <<row>> \in Seq(Rows) /\ DOMAIN <<row>> = {1} /\ <<row>>[1] = row
    BY <2>3
  <2>. QED
    BY <1>t, <2>1, <2>4, <2>5, InsertingKeeps
<1>3. ASSUME NEW m \in 1..used, NEW n \in 1..used, CreateEdge(r, m, n) PROVE IInv'
  <2> DEFINE row == OneEdge(m, n)
  <2>1. Inserting(r, <<row>>, 0) /\ case' = case
    BY <1>3 DEF CreateEdge
  <2>2. m \in Id /\ n \in Id
    BY <1>t, Numbers
  <2>3. row \in Rows
    BY <2>2 DEF OneEdge, Rows
  <2>4. row.nodes = {}
    BY DEF OneEdge
  <2> HIDE DEF row
  <2>5. <<row>> \in Seq(Rows) /\ DOMAIN <<row>> = {1} /\ <<row>>[1] = row
    BY <2>3
  <2>. QED
    BY <1>t, <2>1, <2>4, <2>5, InsertingKeeps
<1>4. ASSUME NEW parent \in 1..used, CreateInteraction(r, parent) PROVE IInv'
  <2> DEFINE answer   == OneNode(used + 1, "COMPLETED", TRUE)
             analysis == OneNode(used + 2, "PROCESSING", TRUE)
             follows  == OneEdge(parent, used + 1)
             links    == OneEdge(used + 1, used + 2)
             rows     == <<answer, analysis, follows, links>>
  <2>1. Inserting(r, rows, 2) /\ case' = case
    BY <1>4 DEF CreateInteraction
  <2>2. used + 1 \in Id /\ used + 2 \in Id /\ parent \in Id
    BY <1>t, <2>1, Numbers DEF Inserting
  <2>3. answer \in Rows /\ analysis \in Rows /\ follows \in Rows /\ links \in Rows
    BY <2>2, RowTypes DEF Statuses
  <2>4. /\ \A a \in answer.nodes : a.id = used + 1
        /\ \A a \in analysis.nodes : a.id = used + 2
        /\ follows.nodes = {} /\ links.nodes = {}
    BY DEF NodeRow, OneNode, OneEdge
  <2> HIDE DEF answer, analysis, follows, links
  <2>5. /\ rows \in Seq(Rows) /\ DOMAIN rows = 1..4
        /\ rows[1] = answer /\ rows[2] = analysis /\ rows[3] = follows /\ rows[4] = links
    BY <2>3
  <2> HIDE DEF rows
  <2>6. \A i \in DOMAIN rows : \A row \in rows[i].nodes :
            \/ i = 1 /\ row.id = used + 1
            \/ i = 2 /\ row.id = used + 2
    BY <2>4, <2>5
  <2>7. /\ \A i \in DOMAIN rows : \A row \in rows[i].nodes :
               row.id > used /\ row.id <= used + 2
        /\ \A i, j \in DOMAIN rows : \A a \in rows[i].nodes, b \in rows[j].nodes :
               a.id = b.id => i = j
    BY <1>t, <2>6
  <2>. QED
    BY <1>t, <2>1, <2>5, <2>7, InsertingKeeps
<1>. QED
  BY <1>1, <1>2, <1>3, <1>4

(* An insertion takes the next rows off, and they were new.                *)
LEMMA InsertKeeps ==
    ASSUME IInv, NEW r \in Request, Insert(r)
    PROVE  IInv'
<1> DEFINE rows  == Head(todo[r])
           added == {row.id : row \in rows.nodes}
           Row(n) == CHOOSE row \in rows.nodes : row.id = n
<1>t. TypeOK
  BY DEF IInv
<1>1. /\ todo[r] \in Seq(Rows) /\ todo[r] # <<>>
      /\ todo \in [Request -> Seq(Rows)]
      /\ todo' = [todo EXCEPT ![r] = Tail(todo[r])]
      /\ status' = [n \in Id |-> IF n \in added THEN Row(n).status ELSE status[n]]
      /\ filled' = [n \in Id |-> IF n \in added THEN Row(n).filled ELSE filled[n]]
      /\ edges' = edges \cup rows.edges
      /\ marked' = marked \ added
      /\ UNCHANGED <<several, case, layout, laidOut, rating, rated, used, stage, target,
                     stoppable, copy, open, edits, crashes>>
  BY <1>t DEF TypeOK, Insert, caseVars, taskVars
<1>2. /\ rows = todo[r][1] /\ 1 \in DOMAIN todo[r] /\ rows \in Rows
      /\ Tail(todo[r]) \in Seq(Rows)
      /\ \A i \in DOMAIN Tail(todo[r]) :
            i + 1 \in DOMAIN todo[r] /\ Tail(todo[r])[i] = todo[r][i + 1] /\ i \in Nat /\ i > 0
  BY <1>1
<1>3. added \subseteq Id /\ \A n \in added : Row(n) \in rows.nodes /\ Row(n).id = n
  BY <1>2 DEF Rows
<1>4. \A n \in added : Row(n).status \in Statuses /\ Row(n).filled \in BOOLEAN
  BY <1>2, <1>3 DEF Rows
<1>5. \A n \in added : n <= used /\ status[n] = "gone" /\ rating[n] = 0
  BY <1>2, <1>3 DEF IInv, Fresh
<1>6. rows.edges \subseteq Id \X Id
  BY <1>2 DEF Rows
<1> HIDE DEF rows, added, Row
<1>7. todo' \in [Request -> Seq(Rows)]
  BY <1>1, <1>2
<1>8. /\ status' \in [Id -> Statuses \cup {"gone"}]
      /\ filled' \in [Id -> BOOLEAN]
      /\ \A n \in Id : rating'[n] # 0 => filled'[n]
      /\ edges' \subseteq Id \X Id
      /\ marked' \subseteq Id
  BY <1>t, <1>1, <1>3, <1>4, <1>5, <1>6 DEF TypeOK
<1>9. TypeOK'
  BY <1>t, <1>1, <1>7, <1>8 DEF TypeOK
<1>10. "gone" \notin Statuses
  BY DEF Statuses
<1>11. ASSUME NEW n \in Id, n > used' PROVE status'[n] = "gone"
  <2>u. used \in 0..MaxNodes
    BY <1>t DEF TypeOK
  <2>1. n > used /\ n \in Nat /\ used \in Nat
    BY <1>1, <1>11, <2>u, Numbers
  <2>2. n \notin added
    BY <1>5, <2>1
  <2>. QED
    BY <1>1, <2>1, <2>2 DEF IInv, Fresh
<1>12. \A n \in Id : status'[n] = "gone" => rating'[n] = 0
  BY <1>1, <1>3, <1>4, <1>10 DEF IInv, Fresh
<1>13. ASSUME NEW s \in Request, NEW i \in DOMAIN todo'[s]
       PROVE  \E k \in DOMAIN todo[s] :
                 /\ todo'[s][i] = todo[s][k]
                 /\ s = r => k = i + 1 /\ k # 1
                 /\ s # r => k = i
  BY <1>1, <1>2, <1>13
<1>14. ASSUME NEW s \in Request, NEW i \in DOMAIN todo'[s], NEW row \in todo'[s][i].nodes
       PROVE  row.id <= used' /\ status'[row.id] = "gone"
  <2>1. PICK k \in DOMAIN todo[s] : todo'[s][i] = todo[s][k] /\ (s = r => k # 1)
    BY <1>13
  <2>2. row.id <= used /\ status[row.id] = "gone"
    BY <1>14, <2>1 DEF IInv, Fresh
  <2>3. row.id \notin added
    <3>1. SUFFICES ASSUME NEW b \in rows.nodes, b.id = row.id PROVE FALSE
      BY DEF added
    <3>2. b \in todo[r][1].nodes
      BY <1>2, <3>1
    <3>. QED
      BY <1>2, <1>14, <2>1, <3>1, <3>2 DEF IInv, Fresh
  <2>4. row.id \in Id
    <3>1. todo[s][k] \in Rows
      BY <1>1
    <3>. QED
      BY <2>1, <3>1 DEF Rows
  <2>. QED
    BY <1>1, <2>2, <2>3, <2>4
<1>15. ASSUME NEW s \in Request, NEW t \in Request,
              NEW i \in DOMAIN todo'[s], NEW j \in DOMAIN todo'[t],
              NEW a \in todo'[s][i].nodes, NEW b \in todo'[t][j].nodes, a.id = b.id
       PROVE  s = t /\ i = j
  <2>1. PICK k \in DOMAIN todo[s] : /\ todo'[s][i] = todo[s][k]
                                    /\ s = r => k = i + 1
                                    /\ s # r => k = i
    BY <1>13
  <2>2. PICK l \in DOMAIN todo[t] : /\ todo'[t][j] = todo[t][l]
                                    /\ t = r => l = j + 1
                                    /\ t # r => l = j
    BY <1>13
  <2>3. s = t /\ k = l
    BY <1>15, <2>1, <2>2 DEF IInv, Fresh
  <2>4. CASE s = r
    <3>1. i \in Nat /\ j \in Nat
      BY <1>1, <1>2, <2>3, <2>4
    <3>. QED
      BY <2>1, <2>2, <2>3, <2>4, <3>1
  <2>5. CASE s # r
    BY <2>1, <2>2, <2>3, <2>5
  <2>. QED
    BY <2>4, <2>5
<1>16. Fresh'
  BY <1>11, <1>12, <1>14, <1>15 DEF Fresh
<1>. QED
  BY <1>9, <1>16 DEF IInv

(* Every other step leaves the ids and the rows to come alone or drops     *)
(* them, and does not bring a node back.                                   *)
LEMMA FreshKept ==
    ASSUME IInv, used' = used,
           \A n \in Id : status[n] = "gone" => status'[n] = "gone",
           \A n \in Id : status'[n] = "gone" => rating'[n] = 0,
           \A r \in Request : todo'[r] = todo[r] \/ todo'[r] = <<>>
    PROVE  Fresh'
<1>1. \A r \in Request : todo[r] \in Seq(Rows)
  BY DEF IInv, TypeOK
<1>2. ASSUME NEW r \in Request, NEW i \in DOMAIN todo'[r]
      PROVE  i \in DOMAIN todo[r] /\ todo'[r][i] = todo[r][i] /\ todo[r][i] \in Rows
  BY <1>1, <1>2
<1>3. \A n \in Id : n > used' => status'[n] = "gone"
  BY DEF IInv, Fresh
<1>4. ASSUME NEW r \in Request, NEW i \in DOMAIN todo'[r], NEW row \in todo'[r][i].nodes
      PROVE  row.id <= used' /\ status'[row.id] = "gone"
  <2>1. row.id <= used /\ status[row.id] = "gone"
    BY <1>2, <1>4 DEF IInv, Fresh
  <2>2. row.id \in Id
    BY <1>2, <1>4 DEF Rows
  <2>. QED
    BY <2>1, <2>2
<1>5. ASSUME NEW r \in Request, NEW s \in Request,
             NEW i \in DOMAIN todo'[r], NEW j \in DOMAIN todo'[s],
             NEW a \in todo'[r][i].nodes, NEW b \in todo'[s][j].nodes, a.id = b.id
      PROVE  r = s /\ i = j
  BY <1>2, <1>5 DEF IInv, Fresh
<1>. QED
  BY <1>3, <1>4, <1>5 DEF Fresh

LEMMA HandlersKeep == IInv /\ HandlerStep => IInv'
<1>. SUFFICES ASSUME IInv, HandlerStep PROVE IInv'
  OBVIOUS
<1>t. TypeOK
  BY DEF IInv
<1>g. \A n \in Id : status[n] = "gone" => rating[n] = 0
  BY DEF IInv, Fresh
<1>n. "gone" \notin Statuses
  BY DEF Statuses
<1>f. /\ edits \in 0..MaxEdits
      /\ status \in [Id -> Statuses \cup {"gone"}] /\ filled \in [Id -> BOOLEAN]
      /\ rating \in [Id -> 0..MaxValue] /\ rated \in [Id -> 0..MaxValue]
      /\ marked \subseteq Id
      /\ \A n \in Id : rating[n] # 0 => filled[n]
  BY <1>t DEF TypeOK
<1>d. ASSUME NEW gone, Drop(gone)
      PROVE  /\ status' \in [Id -> Statuses \cup {"gone"}] /\ filled' \in [Id -> BOOLEAN]
             /\ rating' \in [Id -> 0..MaxValue] /\ rated' \in [Id -> 0..MaxValue]
             /\ marked' \subseteq Id
             /\ \A n \in Id : rating'[n] # 0 => filled'[n]
  BY <1>d, <1>f DEF Drop
<1>e. ASSUME Edit PROVE edits' \in 0..MaxEdits
  BY <1>e, <1>f DEF Edit
<1>1. CASE DeleteCase
  <2>d. Drop(Id) /\ edges' = {} /\ case' = "deleted" /\ layout' = 0 /\ laidOut' = 0
    BY <1>1 DEF DeleteCase
  <2>e. /\ status' \in [Id -> Statuses \cup {"gone"}] /\ filled' \in [Id -> BOOLEAN]
        /\ rating' \in [Id -> 0..MaxValue] /\ rated' \in [Id -> 0..MaxValue]
        /\ marked' \subseteq Id
        /\ \A n \in Id : rating'[n] # 0 => filled'[n]
    BY <1>d, <2>d
  <2>f. /\ UNCHANGED <<several, used, todo, stage, target, stoppable, copy, open, edits,
                       crashes>>
        /\ edges' \subseteq Id \X Id /\ layout' \in 0..MaxValue /\ laidOut' \in 0..MaxValue
    BY <1>1, <2>d DEF DeleteCase, taskVars
  <2>1. TypeOK'
    BY <1>t, <2>d, <2>e, <2>f DEF TypeOK
  <2>2. Fresh'
    BY <1>1, <1>t, FreshKept DEF DeleteCase, Drop, TypeOK
  <2>. QED
    BY <2>1, <2>2 DEF IInv
<1>2. ASSUME NEW n \in Id, DeleteNode(n) PROVE IInv'
  <2>1. TypeOK'
    BY <1>2, <1>t, <1>d, <1>e DEF DeleteNode, TypeOK, taskVars, caseVars
  <2>2. Fresh'
    BY <1>2, <1>t, <1>g, FreshKept DEF DeleteNode, Drop, TypeOK
  <2>. QED
    BY <2>1, <2>2 DEF IInv
<1>3. ASSUME NEW e \in edges, DeleteEdge(e) PROVE IInv'
  <2>1. TypeOK'
    BY <1>3, <1>t, <1>e DEF DeleteEdge, TypeOK, taskVars, caseVars
  <2>2. Fresh'
    BY <1>3, <1>g, FreshKept DEF DeleteEdge
  <2>. QED
    BY <2>1, <2>2 DEF IInv
(* An edit that is kept for later, or that is written now.                 *)
<1>r. ASSUME NEW edit \in EditOf, Edit, Reads(edit),
             UNCHANGED <<several, used, todo, taskVars, crashes>>
      PROVE  IInv'
  <2>1. TypeOK'
    BY <1>r, <1>t, <1>e DEF Reads, TypeOK, taskVars, caseVars, rowVars
  <2>2. Fresh'
    BY <1>r, <1>g, FreshKept DEF Reads, rowVars
  <2>. QED
    BY <2>1, <2>2 DEF IInv
<1>s. ASSUME NEW n \in Nodes, NEW s \in Statuses \cup {"same"}, SetStatus(n, s)
      PROVE  /\ status' \in [Id -> Statuses \cup {"gone"}] /\ marked' \subseteq Id
             /\ \A m \in Id : status'[m] = "gone" <=> status[m] = "gone"
  BY <1>s, <1>f, <1>n DEF SetStatus, Nodes
<1>m. ASSUME NEW n \in Nodes, NEW v \in 0..MaxValue, SetMetadata(n, v)
      PROVE  /\ filled' \in [Id -> BOOLEAN]
             /\ rating' \in [Id -> 0..MaxValue] /\ rated' \in [Id -> 0..MaxValue]
             /\ \A m \in Id : rating'[m] # 0 => filled'[m]
             /\ \A m \in Id : m # n => rating'[m] = rating[m]
  BY <1>m, <1>f DEF SetMetadata, Nodes
<1>4. ASSUME NEW n \in Id, NEW v \in Values, RateNode(n, v) PROVE IInv'
  <2>v. v \in 0..MaxValue /\ n \in 0..MaxNodes
    BY Numbers DEF Values
  <2>n. n \in Nodes /\ Edit /\ UNCHANGED <<several, used, todo, taskVars, crashes>>
    BY <1>4 DEF RateNode
  <2>1. CASE Reads([of |-> n, value |-> v, status |-> "same"])
    BY <1>r, <2>1, <2>v, <2>n DEF EditOf
  <2>2. CASE /\ SetMetadata(n, v)
             /\ UNCHANGED <<caseVars, status, edges, marked, open>>
    <3>1. TypeOK'
      BY <1>t, <1>e, <1>m, <2>v, <2>n, <2>2 DEF TypeOK, taskVars, caseVars
    <3>2. Fresh'
      BY <1>g, <1>m, <2>v, <2>n, <2>2, FreshKept DEF Nodes
    <3>. QED
      BY <3>1, <3>2 DEF IInv
  <2>3. CASE /\ rated' = [rated EXCEPT ![n] = v] /\ UNCHANGED <<filled, rating>>
             /\ UNCHANGED <<caseVars, status, edges, marked, open>>
    <3>1. TypeOK'
      BY <1>t, <1>e, <2>v, <2>n, <2>3 DEF TypeOK, taskVars, caseVars
    <3>2. Fresh'
      BY <1>g, <2>n, <2>3, FreshKept
    <3>. QED
      BY <3>1, <3>2 DEF IInv
  <2>. QED
    BY <1>4, <2>1, <2>2, <2>3 DEF RateNode
<1>5. ASSUME NEW n \in Id, NEW s \in Statuses \cup {"same"}, NEW patch \in BOOLEAN,
             UpdateNode(n, s, patch)
      PROVE  IInv'
  <2>n. n \in Nodes /\ Edit /\ UNCHANGED <<several, used, todo, taskVars, crashes>>
    BY <1>5 DEF UpdateNode
  <2>1. CASE Reads([of |-> n, value |-> 0, status |-> s])
    BY <1>r, <2>1, <2>n, Numbers DEF EditOf
  <2>2. CASE /\ SetStatus(n, s)
             /\ filled' = [filled EXCEPT ![n] = @ \/ patch]
             /\ UNCHANGED <<caseVars, rating, rated, edges, open>>
    <3>0. filled' \in [Id -> BOOLEAN] /\ \A m \in Id : rating'[m] # 0 => filled'[m]
      BY <1>f, <2>n, <2>2
    <3>1. TypeOK'
      BY <1>t, <1>e, <1>s, <2>n, <2>2, <3>0 DEF TypeOK, taskVars, caseVars
    <3>2. Fresh'
      BY <1>g, <1>s, <2>n, <2>2, FreshKept
    <3>. QED
      BY <3>1, <3>2 DEF IInv
  <2>. QED
    BY <1>5, <2>1, <2>2 DEF UpdateNode
<1>6. ASSUME NEW v \in Values, SaveLayout(v) PROVE IInv'
  <2>v. v \in 0..MaxValue /\ 0 \in 0..MaxNodes
    BY DEF Values
  <2>n. Edit /\ UNCHANGED <<several, used, todo, taskVars, crashes>>
    BY <1>6 DEF SaveLayout
  <2>1. CASE Reads([of |-> 0, value |-> v, status |-> "same"])
    BY <1>r, <2>1, <2>v, <2>n DEF EditOf
  <2>2. CASE /\ laidOut' = v
             /\ layout' = IF layout = 0 THEN v ELSE layout
             /\ UNCHANGED <<case, rowVars, open>>
    <3>1. TypeOK'
      BY <1>t, <1>e, <2>v, <2>n, <2>2 DEF TypeOK, taskVars, rowVars
    <3>2. Fresh'
      BY <1>g, <2>n, <2>2, FreshKept DEF rowVars
    <3>. QED
      BY <3>1, <3>2 DEF IInv
  <2>. QED
    BY <1>6, <2>1, <2>2 DEF SaveLayout
<1>7. ASSUME NEW edit \in open, WriteNode(edit) PROVE IInv'
  <2>1. /\ edit \in EditOf /\ open' \subseteq EditOf
        /\ edit.value \in 0..MaxValue /\ edit.status \in Statuses \cup {"same"}
        /\ UNCHANGED <<several, caseVars, edges, used, todo, taskVars, edits, crashes>>
    BY <1>7, <1>t DEF WriteNode, TypeOK, EditOf
  <2>2. CASE /\ edit.of \in Nodes
             /\ SetStatus(edit.of, edit.status) /\ SetMetadata(edit.of, edit.value)
    <3>1. TypeOK'
      BY <1>t, <1>s, <1>m, <2>1, <2>2 DEF TypeOK, taskVars, caseVars
    <3>2. Fresh'
      BY <1>g, <1>s, <1>m, <2>1, <2>2, FreshKept DEF Nodes
    <3>. QED
      BY <3>1, <3>2 DEF IInv
  <2>3. CASE UNCHANGED <<status, marked, filled, rating, rated>>
    <3>1. TypeOK'
      BY <1>t, <2>1, <2>3 DEF TypeOK, taskVars, caseVars
    <3>2. Fresh'
      BY <1>g, <2>1, <2>3, FreshKept
    <3>. QED
      BY <3>1, <3>2 DEF IInv
  <2>. QED
    BY <1>7, <2>2, <2>3 DEF WriteNode
<1>8. ASSUME NEW edit \in open, WriteLayout(edit) PROVE IInv'
  <2>1. /\ open' \subseteq EditOf
        /\ layout' \in 0..MaxValue /\ laidOut' \in 0..MaxValue
        /\ UNCHANGED <<several, case, rowVars, used, todo, taskVars, edits, crashes>>
    BY <1>8, <1>t DEF WriteLayout, TypeOK, EditOf
  <2>2. TypeOK'
    BY <1>t, <2>1 DEF TypeOK, taskVars, rowVars
  <2>3. Fresh'
    BY <1>g, <2>1, FreshKept DEF rowVars
  <2>. QED
    BY <2>2, <2>3 DEF IInv
<1>. QED
  BY <1>1, <1>2, <1>3, <1>4, <1>5, <1>6, <1>7, <1>8 DEF HandlerStep

LEMMA TasksKeep ==
    ASSUME IInv, NEW r \in Request,
           \/ \E n \in Id, background \in BOOLEAN : Regenerate(r, n, background)
           \/ TaskStep(r)
    PROVE  IInv'
<1>t. TypeOK
  BY DEF IInv
<1>g. \A n \in Id : status[n] = "gone" => rating[n] = 0
  BY DEF IInv, Fresh
<1>1. ASSUME NEW n \in Id, NEW background \in BOOLEAN, Regenerate(r, n, background)
      PROVE  IInv'
  <2>n. n \in 0..MaxNodes
    BY Numbers
  <2>1. TypeOK'
    BY <1>1, <1>t, <2>n DEF Regenerate, TypeOK, caseVars, Statuses, Running
  <2>2. Fresh'
    BY <1>1, <1>g, <1>t, FreshKept DEF Regenerate, TypeOK, Nodes
  <2>. QED
    BY <2>1, <2>2 DEF IInv
<1>f. UNCHANGED <<status, filled, rating>> /\ TaskFrame => Fresh'
  BY <1>g, FreshKept DEF TaskFrame
<1>2. ASSUME TaskRead(r) \/ TaskFail(r) \/ StopTask(r) PROVE IInv'
  <2>1. /\ UNCHANGED <<status, filled, rating, copy>> /\ TaskFrame
        /\ stage' \in [Request -> {"new", "inserting", "written", "found nothing"}
                                     \cup Running \cup Broken]
    BY <1>2, <1>t DEF TaskRead, TaskFail, StopTask, TypeOK, Running, Broken
  <2>2. TypeOK'
    BY <1>t, <2>1 DEF TaskFrame, TypeOK, caseVars
  <2>. QED
    BY <1>f, <2>1, <2>2 DEF IInv
<1>3. ASSUME TaskWrite(r) \/ TaskCommit(r) PROVE IInv'
  <2>1. /\ TaskFrame /\ copy' = copy
        /\ stage' \in [Request -> {"new", "inserting", "written", "found nothing"}
                                     \cup Running \cup Broken]
    BY <1>3, <1>t DEF TaskWrite, TaskCommit, TypeOK, Broken
  <2>2. CASE UNCHANGED <<status, filled, rating>>
    <3>1. TypeOK'
      BY <1>t, <2>1, <2>2 DEF TaskFrame, TypeOK, caseVars
    <3>. QED
      BY <1>f, <2>1, <2>2, <3>1 DEF IInv
  <2>3. CASE /\ target[r] \in Nodes
             /\ status' = [status EXCEPT ![target[r]] = "COMPLETED"]
             /\ filled' = [filled EXCEPT ![target[r]] = TRUE]
             /\ rating' = rating \/ rating' = [rating EXCEPT ![target[r]] = copy[r]]
    <3>1. /\ status' \in [Id -> Statuses \cup {"gone"}] /\ filled' \in [Id -> BOOLEAN]
          /\ rating' \in [Id -> 0..MaxValue]
          /\ \A n \in Id : rating'[n] # 0 => filled'[n]
          /\ \A n \in Id : n # target[r] => rating'[n] = rating[n] /\ status'[n] = status[n]
          /\ status'[target[r]] # "gone" /\ status[target[r]] # "gone"
      BY <1>t, <2>3 DEF TypeOK, Statuses, Nodes
    <3>2. TypeOK'
      BY <1>t, <2>1, <3>1 DEF TaskFrame, TypeOK, caseVars
    <3>3. /\ used' = used /\ todo' = todo
          /\ \A n \in Id : status[n] = "gone" => status'[n] = "gone"
          /\ \A n \in Id : status'[n] = "gone" => rating'[n] = 0
      BY <1>g, <2>1, <3>1 DEF TaskFrame
    <3>4. Fresh'
      BY <3>3, FreshKept
    <3>. QED
      BY <3>2, <3>4 DEF IInv
  <2>. QED
    BY <1>3, <2>2, <2>3 DEF TaskWrite, TaskCommit
<1>4. ASSUME TaskMerge(r) PROVE IInv'
  <2>1. /\ UNCHANGED <<status, filled, rating>> /\ TaskFrame
        /\ stage' \in [Request -> {"new", "inserting", "written", "found nothing"}
                                     \cup Running \cup Broken]
        /\ copy' \in [Request -> 0..MaxValue]
    BY <1>4, <1>t DEF TaskMerge, TypeOK, Running, Nodes
  <2>2. TypeOK'
    BY <1>t, <2>1 DEF TaskFrame, TypeOK, caseVars
  <2>. QED
    BY <1>f, <2>1, <2>2 DEF IInv
<1>. QED
  BY <1>1, <1>2, <1>3, <1>4 DEF TaskStep

LEMMA CrashKeeps ==
    ASSUME IInv, NEW dying \in SUBSET Request, NEW left \in SUBSET open, Crash(dying, left)
    PROVE  IInv'
<1>t. TypeOK
  BY DEF IInv
<1>f. /\ todo \in [Request -> Seq(Rows)] /\ crashes \in 0..MaxCrashes
      /\ todo' = [r \in Request |-> IF r \in dying THEN <<>> ELSE todo[r]]
      /\ crashes < MaxCrashes /\ crashes' = crashes + 1
  BY <1>t DEF TypeOK, Crash
<1>1. todo' \in [Request -> Seq(Rows)] /\ crashes' \in 0..MaxCrashes
  BY <1>f
<1>2. TypeOK'
  BY <1>t, <1>1 DEF Crash, TypeOK, caseVars, rowVars, Broken
<1>3. Fresh'
  BY FreshKept DEF IInv, Fresh, Crash, rowVars
<1>. QED
  BY <1>2, <1>3 DEF IInv

LEMMA Inductive == IInv /\ [Next]_vars => IInv'
<1>. SUFFICES ASSUME IInv, [Next]_vars PROVE IInv'
  OBVIOUS
<1>1. ASSUME NEW r \in Request, RequestStep(r) PROVE IInv'
  BY <1>1, HandlersInsertNew, InsertKeeps, TasksKeep DEF RequestStep
<1>2. CASE UNCHANGED vars
  <2>1. TypeOK'
    BY <1>2 DEF vars, IInv, TypeOK, caseVars, rowVars, taskVars
  <2>2. Fresh'
    BY <1>2 DEF vars, IInv, Fresh, rowVars
  <2>. QED
    BY <2>1, <2>2 DEF IInv
<1>. QED
  BY <1>1, <1>2, HandlersKeep, TasksKeep, CrashKeeps DEF Next

(* The variables keep their types, and only a node with metadata is rated: *)
(* what is said of a node goes with its row.                               *)
THEOREM TypeCorrect == Spec => []TypeOK
<1>1. IInv => TypeOK
  BY DEF IInv
<1>. QED
  BY <1>1, InitIInv, Inductive, PTL DEF Spec

-----------------------------------------------------------------------------
(* A deleted case of a process that works alone has no handler that is yet *)
(* to insert: that, and not only the empty graph, is what the steps keep.  *)
GoneInv ==
    case = "deleted" /\ ~several =>
        (\A n \in Id : status[n] = "gone") /\ edges = {} /\ Quiet

LEMMA GoneInductive == TypeOK /\ GoneInv /\ [Next]_vars => GoneInv'
<1>. SUFFICES ASSUME TypeOK, GoneInv, [Next]_vars PROVE GoneInv'
  OBVIOUS
<1>s. status \in [Id -> Statuses \cup {"gone"}]
  BY DEF TypeOK
<1>1. CASE DeleteCase
  BY <1>1 DEF DeleteCase, Drop, GoneInv, Free, Quiet
<1>2. ASSUME NEW n \in Id, DeleteNode(n) PROVE GoneInv'
  BY <1>2 DEF DeleteNode, Edit, GoneInv, caseVars
<1>3. ASSUME NEW e \in edges, DeleteEdge(e) PROVE GoneInv'
  BY <1>3 DEF DeleteEdge, Edit, GoneInv, caseVars
<1>4. ASSUME NEW n \in Id, NEW v \in Values, RateNode(n, v) PROVE GoneInv'
  BY <1>4 DEF RateNode, Edit, Reads, GoneInv, caseVars
<1>5. ASSUME NEW n \in Id, NEW s \in Statuses \cup {"same"}, NEW patch \in BOOLEAN,
             UpdateNode(n, s, patch)
      PROVE  GoneInv'
  BY <1>5 DEF UpdateNode, Edit, Reads, GoneInv, caseVars
<1>6. ASSUME NEW v \in Values, SaveLayout(v) PROVE GoneInv'
  BY <1>6 DEF SaveLayout, Edit, Reads, GoneInv, caseVars
<1>11. ASSUME NEW edit \in open, WriteNode(edit) \/ WriteLayout(edit) PROVE GoneInv'
  BY <1>11 DEF WriteNode, WriteLayout, GoneInv
<1>7. ASSUME NEW r \in Request, RequestStep(r) PROVE GoneInv'
  <2>1. CASE Insert(r)
    BY <2>1 DEF Insert, GoneInv, Quiet, caseVars
  <2>2. CASE ~Insert(r)
    <3>1. case' # "deleted" \/ UNCHANGED <<case, several, status, edges, todo>>
      BY <1>7, <2>2 DEF RequestStep, CreateCase, CreateNode, CreateEdge, CreateInteraction,
                        Regenerate, caseVars
    <3>. QED
      BY <3>1 DEF GoneInv, Quiet
  <2>. QED
    BY <2>1, <2>2
<1>8. ASSUME NEW r \in Request, TaskStep(r) PROVE GoneInv'
  <2>1. CASE TaskWrite(r)
    BY <1>s, <2>1 DEF TaskWrite, TaskFrame, GoneInv, Quiet, Nodes, caseVars
  <2>3. CASE TaskCommit(r)
    BY <2>3 DEF TaskCommit, TaskFrame, GoneInv
  <2>2. CASE ~TaskWrite(r) /\ ~TaskCommit(r)
    <3>1. UNCHANGED <<case, several, status, edges, todo>>
      BY <1>8, <2>2 DEF TaskStep, TaskRead, TaskMerge, TaskFail, StopTask, TaskFrame, caseVars
    <3>. QED
      BY <3>1 DEF GoneInv, Quiet
  <2>. QED
    BY <2>1, <2>2, <2>3
<1>9. ASSUME NEW dying \in SUBSET Request, NEW left \in SUBSET open,
             Crash(dying, left) PROVE GoneInv'
  BY <1>9 DEF Crash, GoneInv, Quiet, caseVars, rowVars
<1>10. CASE UNCHANGED vars
  BY <1>10 DEF vars, GoneInv, Quiet, caseVars, rowVars
<1>. QED
  BY <1>1, <1>2, <1>3, <1>4, <1>5, <1>6, <1>7, <1>8, <1>9, <1>10, <1>11 DEF Next, HandlerStep

(* delete_case of a process that works alone is final: what regenerations, *)
(* rows in the making and crashes leave is nothing.                        *)
THEOREM NothingIsLeft == Spec => []DeletedIsGone
<1>1. Init => GoneInv
  BY DEF Init, GoneInv
<1>2. GoneInv => DeletedIsGone
  BY DEF GoneInv, DeletedIsGone, Nodes
<1>. QED
  BY <1>1, <1>2, TypeCorrect, GoneInductive, PTL DEF Spec

-----------------------------------------------------------------------------
(* A regeneration stays with its node, and ends COMPLETED or in a way that *)
(* counts as broken: the invariant is inductive with the types.            *)
LEMMA ProcessingInductive == TypeOK /\ ProcessingIsWorkedOn /\ [Next]_vars => ProcessingIsWorkedOn'
<1>. SUFFICES ASSUME TypeOK, ProcessingIsWorkedOn, [Next]_vars,
                     NEW n \in Id, status'[n] = "PROCESSING", n \in marked'
              PROVE  \E r \in Request : target'[r] = n /\ stage'[r] \in Running \cup Broken
  BY DEF ProcessingIsWorkedOn, Nodes
<1>t. /\ status \in [Id -> Statuses \cup {"gone"}]
      /\ stage \in [Request -> {"new", "inserting", "written", "found nothing"}
                                   \cup Running \cup Broken]
      /\ target \in [Request -> 0..MaxNodes]
  BY DEF TypeOK
<1>w. ASSUME status[n] = "PROCESSING", n \in marked
      PROVE  \E r \in Request : target[r] = n /\ stage[r] \in Running \cup Broken
  BY <1>w DEF ProcessingIsWorkedOn, Nodes
<1>k. ASSUME status[n] = "PROCESSING", n \in marked, UNCHANGED <<stage, target>>
      PROVE  \E r \in Request : target'[r] = n /\ stage'[r] \in Running \cup Broken
  BY <1>w, <1>k
<1>1. ASSUME HandlerStep
      PROVE  \E r \in Request : target'[r] = n /\ stage'[r] \in Running \cup Broken
  <2>1. /\ UNCHANGED <<stage, target>>
        /\ status[n] = "PROCESSING" /\ n \in marked
    <3>1. CASE \/ DeleteCase
               \/ \E m \in Id : DeleteNode(m)
               \/ \E e \in edges : DeleteEdge(e)
      BY <1>t, <3>1 DEF DeleteCase, DeleteNode, DeleteEdge, Drop, taskVars
    <3>2. ASSUME NEW m \in Id, NEW v \in Values, RateNode(m, v)
          PROVE  UNCHANGED <<stage, target, status, marked>>
      BY <3>2 DEF RateNode, Reads, taskVars, rowVars
    <3>3. ASSUME NEW m \in Id, NEW s \in Statuses \cup {"same"}, NEW patch \in BOOLEAN,
                 UpdateNode(m, s, patch)
          PROVE  UNCHANGED <<stage, target>> /\ status[n] = "PROCESSING" /\ n \in marked
      BY <1>t, <3>3 DEF UpdateNode, Reads, SetStatus, taskVars, rowVars
    <3>4. ASSUME NEW v \in Values, SaveLayout(v)
          PROVE  UNCHANGED <<stage, target, status, marked>>
      BY <3>4 DEF SaveLayout, Reads, taskVars, rowVars
    <3>5. ASSUME NEW edit \in open, WriteNode(edit)
          PROVE  UNCHANGED <<stage, target>> /\ status[n] = "PROCESSING" /\ n \in marked
      BY <1>t, <3>5 DEF WriteNode, SetStatus, taskVars
    <3>6. ASSUME NEW edit \in open, WriteLayout(edit)
          PROVE  UNCHANGED <<stage, target, status, marked>>
      BY <3>6 DEF WriteLayout, taskVars, rowVars
    <3>. QED
      BY <1>1, <3>1, <3>2, <3>3, <3>4, <3>5, <3>6 DEF HandlerStep
  <2>. QED
    BY <1>k, <2>1
<1>2. ASSUME NEW r \in Request, RequestStep(r)
      PROVE  \E s \in Request : target'[s] = n /\ stage'[s] \in Running \cup Broken
  <2>1. ASSUME NEW m \in Id, NEW background \in BOOLEAN, Regenerate(r, m, background)
        PROVE  \E s \in Request : target'[s] = n /\ stage'[s] \in Running \cup Broken
    <3>1. /\ stage[r] = "new" /\ target'[r] = m /\ stage'[r] \in Running
          /\ \A s \in Request \ {r} : target'[s] = target[s] /\ stage'[s] = stage[s]
          /\ n # m => status[n] = "PROCESSING" /\ n \in marked
      BY <1>t, <2>1 DEF Regenerate, Running
    <3>. QED
      BY <1>w, <3>1 DEF Running, Broken
  <2>2. ASSUME Insert(r)
        PROVE  \E s \in Request : target'[s] = n /\ stage'[s] \in Running \cup Broken
    BY <1>k, <2>2 DEF Insert, taskVars
  <2>3. ASSUME NEW rows, NEW ids, Inserting(r, rows, ids)
        PROVE  \E s \in Request : target'[s] = n /\ stage'[s] \in Running \cup Broken
    <3>1. /\ stage[r] = "new" /\ target' = target
          /\ \A s \in Request \ {r} : stage'[s] = stage[s]
          /\ status[n] = "PROCESSING" /\ n \in marked
      BY <1>t, <2>3 DEF Inserting, rowVars
    <3>. QED
      BY <1>w, <3>1 DEF Running, Broken
  <2>. QED
    BY <1>2, <2>1, <2>2, <2>3 DEF RequestStep, CreateCase, CreateNode, CreateEdge,
                                  CreateInteraction
<1>3. ASSUME NEW r \in Request, TaskStep(r)
      PROVE  \E s \in Request : target'[s] = n /\ stage'[s] \in Running \cup Broken
  <2>1. /\ target' = target
        /\ \A s \in Request \ {r} : stage'[s] = stage[s]
        /\ status[n] = "PROCESSING" /\ n \in marked
        /\ target[r] = n => stage'[r] \in Running \cup Broken
    <3>1. CASE TaskWrite(r) \/ TaskCommit(r)
      BY <1>t, <3>1 DEF TaskWrite, TaskCommit, TaskFrame, Nodes, Broken
    <3>2. CASE TaskRead(r) \/ TaskMerge(r) \/ TaskFail(r) \/ StopTask(r)
      BY <1>t, <3>2 DEF TaskRead, TaskMerge, TaskFail, StopTask, TaskFrame, Nodes, Running,
                        Broken
    <3>. QED
      BY <1>3, <3>1, <3>2 DEF TaskStep
  <2>. QED
    BY <1>w, <2>1
<1>4. ASSUME NEW dying \in SUBSET Request, NEW left \in SUBSET open,
             Crash(dying, left)
      PROVE  \E s \in Request : target'[s] = n /\ stage'[s] \in Running \cup Broken
  <2>1. /\ target' = target
        /\ status[n] = "PROCESSING" /\ n \in marked
        /\ \A s \in Request : stage'[s] = stage[s] \/ stage'[s] = "lost"
    BY <1>4 DEF Crash, rowVars
  <2>. QED
    BY <1>w, <2>1 DEF Broken
<1>5. CASE UNCHANGED vars
  BY <1>5, <1>k DEF vars, rowVars, taskVars
<1>. QED
  BY <1>1, <1>2, <1>3, <1>4, <1>5 DEF Next

(* regenerate_node marks a node before the task exists: no interleaving of *)
(* regenerations and edits leaves the mark with nobody to answer for it.   *)
THEOREM NoSilentProcessing == Spec => []ProcessingIsWorkedOn
<1>1. Init => ProcessingIsWorkedOn
  BY DEF Init, ProcessingIsWorkedOn
<1>. QED
  BY <1>1, TypeCorrect, ProcessingInductive, PTL DEF Spec

-----------------------------------------------------------------------------
(* A rating that is in the database is there until its node is deleted, or *)
(* a transaction that read the node before writes it: one that found no    *)
(* metadata writes where there is some by now, or a task merges with what  *)
(* it read.  In one process there are no such transactions.                *)
Lost(n) ==
    /\ several
    /\ \/ \E edit \in open : edit.of = n
       \/ \E r \in Request : stage[r] = "merging" /\ target[r] = n

THEOREM RatingsSurvive == Spec => RatingSurvives
<1>1. ASSUME TypeOK, Next
      PROVE  \A n \in Nodes : n \in Nodes' /\ rating[n] # 0 /\ rating'[n] # rating[n] => Lost(n)
  <2>. SUFFICES ASSUME NEW n \in Nodes, n \in Nodes', rating[n] # 0, ~Lost(n)
                PROVE  rating'[n] = rating[n]
    OBVIOUS
  <2>t. n \in Id /\ status'[n] # "gone" /\ filled[n] /\ rating \in [Id -> 0..MaxValue]
    BY <1>1 DEF TypeOK, Nodes
  <2>1. CASE HandlerStep
    <3>1. CASE \/ DeleteCase
               \/ \E m \in Id : DeleteNode(m)
               \/ \E e \in edges : DeleteEdge(e)
      BY <2>t, <3>1 DEF DeleteCase, DeleteNode, DeleteEdge, Drop
    <3>2. ASSUME NEW m \in Id, NEW v \in Values, RateNode(m, v)
          PROVE  rating'[n] = rating[n]
      BY <2>t, <3>2 DEF RateNode, Reads, SetMetadata, rowVars
    <3>3. ASSUME NEW m \in Id, NEW s \in Statuses \cup {"same"}, NEW patch \in BOOLEAN,
                 UpdateNode(m, s, patch)
          PROVE  rating' = rating
      BY <3>3 DEF UpdateNode, Reads, rowVars
    <3>4. ASSUME NEW v \in Values, SaveLayout(v)
          PROVE  rating' = rating
      BY <3>4 DEF SaveLayout, Reads, rowVars
    <3>5. ASSUME NEW edit \in open, WriteNode(edit)
          PROVE  rating'[n] = rating[n]
      <4>1. several /\ edit.of # n
        BY <3>5 DEF WriteNode, Lost
      <4>. QED
        BY <2>t, <3>5, <4>1 DEF WriteNode, SetMetadata
    <3>6. ASSUME NEW edit \in open, WriteLayout(edit)
          PROVE  rating' = rating
      BY <3>6 DEF WriteLayout, rowVars
    <3>. QED
      BY <2>1, <3>1, <3>2, <3>3, <3>4, <3>5, <3>6 DEF HandlerStep
  <2>2. ASSUME NEW r \in Request, RequestStep(r) PROVE rating' = rating
    BY <2>2 DEF RequestStep, CreateCase, CreateNode, CreateEdge, CreateInteraction, Inserting,
                Insert, Regenerate, rowVars
  <2>3. ASSUME NEW r \in Request, TaskStep(r) PROVE rating'[n] = rating[n]
    <3>1. CASE TaskCommit(r)
      <4>1. target[r] # n
        BY <3>1 DEF TaskCommit, Lost
      <4>. QED
        BY <2>t, <3>1, <4>1 DEF TaskCommit
    <3>2. CASE TaskRead(r) \/ TaskWrite(r) \/ TaskMerge(r) \/ TaskFail(r) \/ StopTask(r)
      BY <3>2 DEF TaskRead, TaskWrite, TaskMerge, TaskFail, StopTask
    <3>. QED
      BY <2>3, <3>1, <3>2 DEF TaskStep
  <2>4. ASSUME NEW dying \in SUBSET Request, NEW left \in SUBSET open, Crash(dying, left)
        PROVE  rating' = rating
    BY <2>4 DEF Crash, rowVars
  <2>. QED
    BY <1>1, <2>1, <2>2, <2>3, <2>4 DEF Next
<1>2. TypeOK /\ [Next]_vars =>
        [\A n \in Nodes : n \in Nodes' /\ rating[n] # 0 /\ rating'[n] # rating[n] =>
            /\ several
            /\ \/ \E edit \in open : edit.of = n
               \/ \E r \in Request : stage[r] = "merging" /\ target[r] = n]_vars
  BY <1>1 DEF Lost
<1>. QED
  BY <1>2, TypeCorrect, PTL DEF Spec, RatingSurvives
=============================================================================
