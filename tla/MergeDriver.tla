----------------------------- MODULE MergeDriver -----------------------------
(***************************************************************************)
(* The merge driver git runs on graph.jsonl (src/core/merge-driver.ts):    *)
(* a three-way merge of files, node by node and field by field, the last   *)
(* writer by updated_at winning a field both sides changed.                *)
(*                                                                         *)
(* A file says of each node what its line is, NoLine when it has none; a   *)
(* line says of each field what its value is, Absent when it lacks it.     *)
(* The mark a provider's node gets for a later reconciliation is left out. *)
(***************************************************************************)
EXTENDS Naturals

CONSTANTS
  Ids,     \* nodes
  Fields,  \* fields of a node besides updated_at
  Values,  \* what a field may say
  Absent,  \* the field is not in the line
  NoLine   \* the node is not in the file

Line == [fields : [Fields -> Values \cup {Absent}], updated : Nat]
File == [Ids -> Line \cup {NoLine}]

ASSUME MergeAssumption == NoLine \notin Line

\* A value three ways: what both agree on, the change of the one side that made
\* one, or what the last writer says.
Resolve(b, o, t, oursIsNewer) ==
  IF b = o THEN t
  ELSE IF b = t \/ o = t \/ oursIsNewer THEN o
  ELSE t

PickByNewerTimestamp(o, t) == IF o.updated >= t.updated THEN o ELSE t

\* Mutation: the last writer's line is taken whole.
LineLevelMerge(b, o, t) == PickByNewerTimestamp(o, t)

\* fieldLevelMerge
FieldLevelMerge(b, o, t) ==
  [fields |-> [f \in Fields |-> Resolve(b.fields[f], o.fields[f], t.fields[f], o.updated >= t.updated)],
   updated |-> IF o.updated >= t.updated THEN o.updated ELSE t.updated]

\* One node of mergeJsonl: the change of the one side that made one, or the
\* merge of two; a deletion gives way to a change.
MergeLine(b, o, t) ==
  IF b = o THEN t
  ELSE IF b = t \/ o = t THEN o
  ELSE IF NoLine \notin {b, o, t} THEN FieldLevelMerge(b, o, t)
  ELSE IF NoLine \notin {o, t} THEN PickByNewerTimestamp(o, t)
  ELSE IF o = NoLine THEN t ELSE o

MergeJsonl(base, ours, theirs) ==
  [id \in Ids |-> MergeLine(base[id], ours[id], theirs[id])]
=============================================================================
