------------------------------- MODULE Overlap -------------------------------
(***************************************************************************)
(* The search of the analysis scripts for accesses to the same bytes of a  *)
(* file (overlap.py, with accessTracking.py and utils.py), on the rows of  *)
(* one CIO set as set2csv writes them.                                     *)
(*                                                                         *)
(* A row is a record [pid, filename, kind, offset, response_size, vertex]; *)
(* the vertex stands for the place of the row in the file.  The interval   *)
(* trees are those of a library; a tree is the set of its intervals here.  *)
(***************************************************************************)
EXTENDS Integers

(***************************************************************************)
(* make_intervaltree.  The offset of a row is the one after the operation. *)
(***************************************************************************)
Interval(r) == [begin |-> r.offset - r.response_size, end |-> r.offset,
                pid |-> r.pid, vertex |-> r.vertex]

(* Faulty variant: the offset is taken for the one before the operation. *)
make_tree_from_start(rows) ==
  {[Interval(r) EXCEPT !.begin = r.offset, !.end = r.offset + r.response_size] :
     r \in {x \in rows : x.response_size # 0}}

make_intervaltree(rows) ==
  {iv \in {Interval(r) : r \in rows} : iv.begin # iv.end}

(* Faulty variant of Slice: intervals that touch count as overlapping. *)
SliceClosed(tree, iv) == {i \in tree : i.begin <= iv.end /\ iv.begin <= i.end}

(* tree[iv.begin:iv.end] *)
Slice(tree, iv) == {i \in tree : i.begin < iv.end /\ iv.begin < i.end}

(***************************************************************************)
(* get_set_access_mapping: what every process does to a file in the set.   *)
(* Its list of processes is in ascending order.                            *)
(***************************************************************************)
get_files_in_set(rows) == {r.filename : r \in rows}

get_processes(rows, file) == {r.pid : r \in {x \in rows : x.filename = file}}

Accesses(rows, file) ==
  LET tree(p, kind) ==
        make_intervaltree({r \in rows : r.filename = file /\ r.pid = p /\ r.kind = kind})
  IN [p \in get_processes(rows, file) |->
        [reads |-> tree(p, "read"), writes |-> tree(p, "write")]]

(***************************************************************************)
(* Pairs of intervals of two trees that overlap.                           *)
(***************************************************************************)
Hits(tree, other) ==
  UNION {{i} \X Slice(other, i) : i \in tree}

(* overlapping_writes: every process with those behind it in the list. *)
overlapping_writes(acc) ==
  UNION {Hits(acc[x[1]].writes, acc[x[2]].writes) :
           x \in {y \in (DOMAIN acc) \X (DOMAIN acc) : y[1] < y[2]}}

(* read_after_write: the writes of every process with the reads of others. *)
read_after_write(acc) ==
  UNION {Hits(acc[x[1]].writes, acc[x[2]].reads) :
           x \in {y \in (DOMAIN acc) \X (DOMAIN acc) : y[1] # y[2]}}

(* read_modify_write: the reads of every process with the writes of others. *)
read_modify_write(acc) ==
  UNION {Hits(acc[x[1]].reads, acc[x[2]].writes) :
           x \in {y \in (DOMAIN acc) \X (DOMAIN acc) : y[1] # y[2]}}

(***************************************************************************)
(* What run_analysis.py reports of a set when it is asked for everything.  *)
(***************************************************************************)
Reported(rows) ==
  UNION {LET acc == Accesses(rows, file)
         IN overlapping_writes(acc) \cup read_after_write(acc) \cup read_modify_write(acc) :
           file \in get_files_in_set(rows)}
=============================================================================
