----------------------------- MODULE BuilderIoMC -----------------------------
(***************************************************************************)
(* Traces of programs that do I/O: every process computes, opens a file    *)
(* and then makes some calls, each of which is a region of its own.        *)
(***************************************************************************)
EXTENDS BuilderProperties

CONSTANT MaxCalls   \* calls of a process after it has opened its file, at most

Handle(file, paradigm, parent, id) ==
  [file |-> file, paradigm |-> paradigm, parent |-> parent, id |-> id]

A == Handle("f", "POSIX", FALSE, 1)
B == Handle("f", "POSIX", FALSE, 2)    \* the same file once more
C == Handle("g", "POSIX", FALSE, 3)
M == Handle("f", "MPI-IO", FALSE, 4)
L == Handle("f", "POSIX", TRUE, 5)     \* a library's handle with a parent

Region(role, s) == <<EnterEvent>> \o s \o <<LeaveEvent(role)>>

Open(h) == Region("file_io_metadata", <<CreateEvent(h)>>)
Close(h) == Region("file_io_metadata", <<DestroyEvent(h)>>)
Move(h, to) == Region("file_io_metadata", <<SeekEvent(h, to)>>)
Duplicate(h) == Region("file_io_metadata", <<DuplicateEvent(h)>>)
Unlink(file) == Region("file_io_metadata", <<DeleteEvent(file)>>)
Transfer(h, mode, bytes) ==
  Region("file_io", <<BeginEvent(h, mode, 1), CompleteEvent(h, bytes, 1)>>)
Compute == Region("other", <<OtherEvent>>)
CommSelf == Region("other", <<CollectiveEvent(1, <<>>, NoRoot)>>)

(* Two operations under way at once, which complete in the other order. *)
Overlapped(h) ==
  Region("file_io", <<BeginEvent(h, "read", 1), BeginEvent(h, "write", 2),
                        CompleteEvent(h, 1, 2), CompleteEvent(h, 1, 1)>>)

Calls ==
  {Open(h) : h \in {B, C, M, L}} \cup {Close(h) : h \in {A, B, M}}
    \cup {Transfer(A, mode, 2) : mode \in {"read", "write", "flush"}}
    \cup {Transfer(B, "read", 1), Transfer(M, "write", 1), Move(A, 3), Move(M, 1)}
    \cup {Duplicate(A), Unlink("f"), Overlapped(A), CommSelf}

(* No handle is used that is not open, and no file deleted that is gone. *)
Possible(s) ==
  \A i \in DOMAIN s :
    /\ s[i].kind \in IoKinds \ {"io_create_handle", "io_delete_file"} =>
         s[i].handle \in OpenAt(s, i)
    /\ s[i].kind = "io_delete_file" =>
         \E j \in 1 .. i - 1 :
           /\ s[j].kind = "io_create_handle" /\ s[j].handle.file = s[i].file
           /\ \A k \in j + 1 .. i - 1 : s[k] # s[i]

Traces ==
  {Compute \o Open(A) \o FlattenSeq(c) :
     c \in UNION {[1 .. k -> Calls] : k \in 0 .. MaxCalls}}
    \cup {Open(A) \o c : c \in Calls}   \* no time is spent outside of I/O

Usable == {s \in Traces : Possible(s)}

(* Everything happens in the region of main, as in a trace that is not     *)
(* filtered, or nothing does.                                              *)
IoPrograms ==
  [Procs -> Usable] \cup [Procs -> {Region("other", s) : s \in Usable}]
=============================================================================
