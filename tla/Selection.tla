----------------------------- MODULE Selection -----------------------------
(***************************************************************************)
(* From an open folder to the jobs to run: the checkbox picker over its    *)
(* listing (src/src/picker.rs), the handles given on the command line or   *)
(* kept by the TUI, and Resolved::plan (src/src/lib.rs).  A row of the     *)
(* picker is a place in `nodes'; a job is the handle of a file.            *)
(***************************************************************************)
EXTENDS Folder

CONSTANT MaxGiven  \* how many handles are named at most, the picker aside

ASSUME SelectionAssumption == MaxGiven \in Nat

Unknown == 0  \* a handle that is no node's, or no longer

VARIABLES
  stage,     \* "listed", "picking", "chosen", "planned" or "left"
  ticked,    \* chosen: the rows whose box is set
  cursor,
  selected,  \* the handles asked for; none stands for the whole link
  jobs

selVars == <<stage, ticked, cursor, selected, jobs>>
allVars == <<vars, selVars>>

Rows == DOMAIN nodes
IsDir(r) == raw[nodes[r]].dir
FileRows == {r \in Rows : ~IsDir(r)}

-----------------------------------------------------------------------------
(* The picker.                                                             *)
SlashesOf(p) == {k \in DOMAIN p : p[k] = Slash}
Depth(r) == Cardinality(SlashesOf(path[nodes[r]])) - 1

\* The run of following rows deeper than r.
Descendants(r) == {d \in Rows : d > r /\ \A e \in (r + 1)..d : Depth(e) > Depth(r)}

FilesOf(r) == IF IsDir(r) THEN Descendants(r) \cap FileRows ELSE {r}

MarkOf(r) == IF FilesOf(r) \cap ticked = {} THEN "off"
             ELSE IF FilesOf(r) \subseteq ticked THEN "on" ELSE "partial"

Toggled(r) == IF MarkOf(r) = "on" THEN ticked \ FilesOf(r) ELSE ticked \cup FilesOf(r)

\* "link has no files" is choose_files' answer when there is nothing to tick.
OpenPicker ==
  /\ pc = "open" /\ stage = "listed" /\ FileRows # {}
  /\ stage' = "picking" /\ ticked' = FileRows /\ cursor' = 1
  /\ UNCHANGED <<vars, selected, jobs>>

PickMove ==
  /\ stage = "picking"
  /\ cursor' \in {cursor - 1, cursor + 1, 1, Len(nodes)} \cap Rows
  /\ UNCHANGED <<vars, stage, ticked, selected, jobs>>

Toggle ==
  /\ stage = "picking" /\ ticked' = Toggled(cursor)
  /\ UNCHANGED <<vars, stage, cursor, selected, jobs>>

AllOrNone ==
  /\ stage = "picking" /\ ticked' \in {FileRows, {}}
  /\ UNCHANGED <<vars, stage, cursor, selected, jobs>>

\* Nothing ticked is "nothing selected", not the whole link.
Enter ==
  /\ stage = "picking"
  /\ LET rows == InOrder(ticked, {p \in Rows \X Rows : p[1] < p[2]})
     IN  selected' = [k \in DOMAIN rows |-> nodes[rows[k]]]
  /\ stage' = IF ticked = {} THEN "left" ELSE "chosen"
  /\ UNCHANGED <<vars, ticked, cursor, jobs>>

LeavePicker ==
  /\ stage = "picking" /\ stage' = "left"
  /\ UNCHANGED <<vars, ticked, cursor, selected, jobs>>

\* --files=H1,H2, the numbers typed at the plain prompt, or what an earlier
\* listing showed; none at all for the whole link.
GiveHandles ==
  /\ pc = "open" /\ stage = "listed"
  /\ selected' \in UNION {[1..k -> Handles \cup {Unknown}] : k \in 0..MaxGiven}
  /\ stage' = "chosen"
  /\ UNCHANGED <<vars, ticked, cursor, jobs>>

-----------------------------------------------------------------------------
(* plan.                                                                   *)

\* The handles that are known, where each is named first.
FirstNamed ==
  {k \in DOMAIN selected : /\ selected[k] \in ToSet(nodes)
                           /\ \A l \in 1..(k - 1) : selected[l] # selected[k]}
Named == {selected[k] : k \in FirstNamed}

\* prune_children climbs by the parents kept among what was reached.
Ancestors(n) == ToSet(nodes) \cap Above(parent[n])
Climbs(S) == \A h \in S : Ancestors(h) \cap S # {} \/ Ends(h)
Topmost == {k \in FirstNamed : Ancestors(selected[k]) \cap Named = {}}

ChosenIfAnyKnown == IF Named = {} THEN <<root>> ELSE Sorted(selected, Topmost)
Chosen == IF selected = <<>> THEN <<root>> ELSE Sorted(selected, Topmost)

\* The files of every node chosen, row by row, where each is met first.
Taken(chosen) ==
  {t \in (DOMAIN chosen) \X Rows :
     /\ t[2] \in FilesUnder(chosen[t[1]])
     /\ \A l \in 1..(t[1] - 1) : t[2] \notin FilesUnder(chosen[l])}
OneByOne(taken) == {p \in taken \X taken : LexLess(p[1], p[2])}
JobsOf(chosen) ==
  LET order == InOrder(Taken(chosen), OneByOne(Taken(chosen)))
  IN  [k \in DOMAIN order |-> nodes[order[k][2]]]

\* A climb that goes round for ever is a plan that never comes.
Plan ==
  /\ stage = "chosen" /\ Climbs(Named)
  /\ jobs' = JobsOf(Chosen)
  /\ stage' = "planned"
  /\ UNCHANGED <<vars, ticked, cursor, selected>>

-----------------------------------------------------------------------------
SelInit ==
  /\ Init
  /\ stage = "listed" /\ ticked = {} /\ cursor = 1 /\ selected = <<>> /\ jobs = <<>>

Open == Next /\ UNCHANGED selVars

SelNext == \/ Open
           \/ OpenPicker \/ PickMove \/ Toggle \/ AllOrNone \/ Enter \/ LeavePicker
           \/ GiveHandles \/ Plan

SelSpec == SelInit /\ [][SelNext]_allVars

-----------------------------------------------------------------------------
(* Properties                                                              *)
\* The space bar changes no box outside the subtree of the row it is on, and
\* leaves a folder with all of its files on or all of them off: it acts on the
\* run of deeper rows below ("a directory's subtree is contiguous",
\* picker.rs:77-78), which is the subtree only if the sort makes it so.
ToggleIsLocal ==
  [][Toggle /\ Orderly =>
       LET tree == Below(nodes[cursor])
           under == {r \in FileRows : nodes[r] \in tree}
       IN  /\ ticked' \ under = ticked \ under
           /\ IsDir(cursor) => under \subseteq ticked' \/ under \cap ticked' = {}]_allVars

\* What is asked for is what is downloaded, every file once: the subtree of
\* every node named, the whole link if none was named, and nothing if all that
\* was named is gone (lib.rs:112-115, 163-180), which a stale handle is.
JobsAreSelection ==
  stage = "planned" /\ Orderly =>
    /\ IsInjective(jobs)
    /\ ToSet(jobs) =
         IF selected = <<>> THEN Files(Below(root))
         ELSE UNION {Files(Below(n)) : n \in ToSet(selected) \cap ToSet(nodes)}

\* No two jobs have one local path, none needs another's file as a directory,
\* and none leaves the destination (lib.rs:145): a second job for a path would
\* be skipped as already there, and reported as downloaded.
OnePlacePerFile ==
  stage = "planned" /\ Orderly =>
    \A i, j \in DOMAIN jobs :
      /\ RelToRoot(jobs[i])[1] # Slash
      /\ i # j => /\ RelToRoot(jobs[i]) # RelToRoot(jobs[j])
                  /\ ~IsPrefix(Append(RelToRoot(jobs[i]), Slash), RelToRoot(jobs[j]))

=============================================================================
