----------------------------- MODULE FileStore ------------------------------
(***************************************************************************)
(* What fs/fat16.c promises its callers: a tree of directories and files.  *)
(* A file is a sequence; it is read from an offset that moves, and written *)
(* at its end.  No blocks, no clusters, no table.                          *)
(***************************************************************************)
EXTENDS Integers, Sequences, SequencesExt, FiniteSetsExt

CONSTANTS Paths, Handles, Flags, ReadSizes, MaxSize, NULL, DIR,
          Data \* the pieces of text that are written

VARIABLES files,   \* by path: NULL, DIR, or the text of a file
          handles, \* by handle: NULL, or a path, an offset and the mode
          ret,     \* what the last operation returned, and the text it read
          stopped  \* the machine has stopped

vars == <<files, handles, ret, stopped>>

Returns(code) == ret' = [code |-> code, text |-> <<>>]

\* The directory that holds p exists.
HasParent(p) == Len(p) = 1 \/ (Front(p) \in Paths /\ files[Front(p)] = DIR)

Open(h, p, flag) ==
  LET offset == IF "APPEND" \in flag /\ files'[p] # DIR THEN Len(files'[p]) ELSE 0
  IN  /\ ~stopped /\ handles[h] = NULL
      /\ files' = IF files[p] = NULL /\ "CREATE" \in flag /\ HasParent(p)
                    THEN [files EXCEPT ![p] = IF "DIR" \in flag THEN DIR ELSE <<>>] ELSE files
      /\ Returns(IF files'[p] = NULL THEN 0 ELSE 1)
      /\ handles' = IF files'[p] = NULL THEN handles
                    ELSE [handles EXCEPT ![h] = [path |-> p, offset |-> offset, append |-> "APPEND" \in flag]]
      /\ UNCHANGED stopped

Close(h) ==
  /\ ~stopped /\ handles[h] # NULL
  /\ handles' = [handles EXCEPT ![h] = NULL]
  /\ UNCHANGED <<files, ret, stopped>>

Read(h, n) ==
  /\ ~stopped /\ handles[h] # NULL /\ files[handles[h].path] # DIR
  /\ LET f    == handles[h]
         left == SubSeq(files[f.path], f.offset + 1, Len(files[f.path]))
         got  == SubSeq(left, 1, Min({n, Len(left)}))
     IN  IF left = <<>> THEN Returns(-1) /\ UNCHANGED handles
         ELSE /\ ret' = [code |-> Len(got), text |-> got]
              /\ handles' = [handles EXCEPT ![h].offset = @ + Len(got)]
  /\ UNCHANGED <<files, stopped>>

Write(h, data) ==
  /\ ~stopped /\ handles[h] # NULL
  /\ LET f == handles[h]
     IN  IF files[f.path] = DIR \/ ~f.append
           THEN Returns(-2) /\ UNCHANGED <<files, handles>>
         ELSE /\ files' = [files EXCEPT ![f.path] = @ \o data]
              /\ handles' = [handles EXCEPT ![h].offset = Len(files'[f.path])]
              /\ Returns(Len(data))
  /\ UNCHANGED stopped

Delete(p) ==
  /\ ~stopped
  /\ IF files[p] = NULL THEN Returns(-1) /\ UNCHANGED files
     ELSE files' = [q \in Paths |-> IF IsPrefix(p, q) THEN NULL ELSE files[q]] /\ Returns(1)
  /\ UNCHANGED <<handles, stopped>>

\* The machine stops for want of space or with its power; what was there remains.
Stop ==
  /\ ~stopped /\ stopped'
  /\ UNCHANGED <<files, handles>>

Init ==
  /\ files = [p \in Paths |-> NULL] /\ handles = [h \in Handles |-> NULL]
  /\ ret = [code |-> 0, text |-> <<>>] /\ ~stopped

Next ==
  \/ \E h \in Handles : \/ \E p \in Paths, flag \in Flags : Open(h, p, flag)
                        \/ \E n \in ReadSizes : Read(h, n)
                        \/ \E data \in Data : Write(h, data)
                        \/ Close(h)
  \/ \E p \in Paths : Delete(p)
  \/ Stop

Spec == Init /\ [][Next]_vars

=============================================================================
