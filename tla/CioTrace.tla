------------------------------ MODULE CioTrace ------------------------------
(***************************************************************************)
(* The input of the merge: the I/O sets of every process together with the *)
(* I/O graph they were read from, and what it means for parts of two       *)
(* processes to be concurrent.                                             *)
(***************************************************************************)
EXTENDS IoGraph, Integers, Sequences

CONSTANT Events   \* descriptors of I/O vertices

(***************************************************************************)
(* A CIO_Set as far as the merge reads it: its events, the synchronisation *)
(* that opened it and the one that closed it.  (Every set is closed, so    *)
(* the optional end event has a value.)                                    *)
(***************************************************************************)
CioSet(vs) == [events : SUBSET Events, start : vs, end : vs]

EndAt(tr, p, i) == tr.pio[p][i].end
Indices(tr, p) == 1 .. Len(tr.pio[p])
Group(tr, e) == pg_group(tr.graph[e])

(***************************************************************************)
(* An input: the graph (descriptor -> vertex), the sets of every process   *)
(* in chronological order, and a rank for every vertex, its position in    *)
(* the order in which the traced program passed the synchronisations.  The *)
(* rank is knowledge about the traced program; the algorithm never reads   *)
(* it.  Descriptors are indices of the graph's vertex list.  The last set  *)
(* of every process is ended by the synthetic end vertex, all others by    *)
(* synchronisations.  An I/O vertex is in one set only.                    *)
(***************************************************************************)
IsTrace(tr) ==
  LET vs == DOMAIN tr.graph IN
  /\ \E last \in vs : last \in Nat /\ vs = 0 .. last
  /\ tr.graph \in [vs -> Vertex]
  /\ tr.rank \in [vs -> Nat]
  /\ tr.pio \in [Procs -> Seq(CioSet(vs))]
  /\ \A p \in Procs : Len(tr.pio[p]) > 0
  /\ \A p \in Procs : \A i \in Indices(tr, p) :
       tr.graph[EndAt(tr, p, i)].type =
         IF i = Len(tr.pio[p]) THEN "synthetic" ELSE "sync_event"
  /\ \A p, q \in Procs :
       EndAt(tr, p, Len(tr.pio[p])) = EndAt(tr, q, Len(tr.pio[q]))
  /\ \A p, q \in Procs : \A i \in Indices(tr, p), j \in Indices(tr, q) :
       tr.pio[p][i].events \cap tr.pio[q][j].events # {} => p = q /\ i = j

(***************************************************************************)
(* The traced program synchronised in a common order: every process passes *)
(* its synchronisations by increasing rank, and a synchronisation ends one *)
(* set of each of the processes that take part in it.  It holds when a     *)
(* synchronisation completes for all its members before one of them enters *)
(* another one; a message sent eagerly and received after a later barrier  *)
(* breaks it.                                                              *)
(***************************************************************************)
Ordered(tr) ==
  /\ \A p \in Procs : \A i, j \in Indices(tr, p) :
       i < j => tr.rank[EndAt(tr, p, i)] < tr.rank[EndAt(tr, p, j)]
  /\ \A p \in Procs : \A i \in Indices(tr, p) :
       LET e == EndAt(tr, p, i) IN
       /\ p \in Group(tr, e)
       /\ \A q \in Group(tr, e) : \E j \in Indices(tr, q) : EndAt(tr, q, j) = e

-----------------------------------------------------------------------------
(***************************************************************************)
(* A cut of the traced program: a position in the sets of every process.   *)
(* A process has passed a synchronisation when the set it ends lies before *)
(* the position.  A cut is consistent when every synchronisation has been  *)
(* passed by all who take part in it or by none of them: the program could *)
(* have been observed there.                                               *)
(***************************************************************************)
Cuts(tr) == {v \in [Procs -> Nat] :
               \A p \in Procs : v[p] \in 1 .. Len(tr.pio[p]) + 1}

Passed(tr, v, p, e) == \E i \in Indices(tr, p) : i < v[p] /\ EndAt(tr, p, i) = e

Consistent(tr, v) ==
  \A e \in DOMAIN tr.graph : \A p, q \in Group(tr, e) :
    Passed(tr, v, p, e) => Passed(tr, v, q, e)

(***************************************************************************)
(* Happens-before between two sets, told apart by process and position:    *)
(* (p,i) precedes (q,j) when the synchronisation that ends (p,i) lies in   *)
(* every downward closed set of synchronisations that contains the one     *)
(* (q,j) starts with, that is, when a chain of synchronisations leads from *)
(* the end of the first set to the start of the second.                    *)
(***************************************************************************)
Syncs(tr) == {e \in DOMAIN tr.graph : tr.graph[e].type = "sync_event"}

DownClosed(tr, D) ==
  \A p \in Procs : \A i \in Indices(tr, p) :
    EndAt(tr, p, i) \in D => \A j \in 1 .. i : EndAt(tr, p, j) \in D

Precedes(tr, p, i, q, j) ==
  /\ j > 1
  /\ \A D \in SUBSET Syncs(tr) :
       EndAt(tr, q, j - 1) \in D /\ EndAt(tr, p, i) \notin D => ~DownClosed(tr, D)

Concurrent(tr, p, i, q, j) ==
  ~Precedes(tr, p, i, q, j) /\ ~Precedes(tr, q, j, p, i)
=============================================================================
