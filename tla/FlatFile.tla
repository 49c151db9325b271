------------------------------ MODULE FlatFile ------------------------------
(***************************************************************************)
(* What the file system promises to those who read and write: a file is a  *)
(* sequence of bytes that changes only where somebody writes, an open file *)
(* has a position in it, and a file without a name lives until nobody has  *)
(* it open.                                                                *)
(***************************************************************************)
EXTENDS Integers, Sequences

CONSTANTS Inums, Files, Bytes, Piece, MaxSize, NoFile

VARIABLES dir,      \* the files that have a name
          content,  \* the bytes of each file; NoFile if there is no such file
          ip, off,  \* what an open file is, and its position
          out       \* what the last read returned

fvars == <<dir, content, ip, off, out>>

FInit ==
    /\ dir \subseteq Inums
    /\ content \in [Inums -> UNION {[1 .. n -> Bytes] : n \in 0 .. MaxSize} \cup {NoFile}]
    /\ \A i \in Inums : content[i] # NoFile <=> i \in dir
    /\ ip = [f \in Files |-> NoFile] /\ off = [f \in Files |-> 0]
    /\ out = <<>>

Overwrite(old, at, new) ==
    [k \in 1 .. IF at + Len(new) > Len(old) THEN at + Len(new) ELSE Len(old) |->
        IF k \in at + 1 .. at + Len(new) THEN new[k - at] ELSE old[k]]

\* What becomes of the open file f.
Position(f, i, at) ==
    /\ ip' = [ip EXCEPT ![f] = i]
    /\ off' = [off EXCEPT ![f] = at]

Create(f, i) ==
    /\ ip[f] = NoFile /\ out' = <<>>
    /\ Position(f, i, 0)
    /\ dir' = dir \cup {i}
    /\ content[i] = NoFile
    /\ content' = [content EXCEPT ![i] = <<>>]

Open(f, i) ==
    /\ ip[f] = NoFile /\ out' = <<>>
    /\ Position(f, i, 0)
    /\ i \in dir
    /\ UNCHANGED <<dir, content>>

\* A file goes when it has lost its name and its last user.
Without(i) == IF i \notin dir' /\ ~\E f \in Files : ip'[f] = i
              THEN [content EXCEPT ![i] = NoFile] ELSE content

Unlink(i) ==
    /\ out' = <<>>
    /\ UNCHANGED <<ip, off>>
    /\ i \in dir
    /\ dir' = dir \ {i}
    /\ content' = Without(i)

Close(f) ==
    /\ ip[f] # NoFile /\ out' = <<>>
    /\ Position(f, NoFile, 0)
    /\ UNCHANGED dir
    /\ content' = Without(ip[f])

Write(f, n, v) ==
    /\ ip[f] # NoFile /\ out' = <<>>
    /\ off[f] + n <= MaxSize
    /\ Position(f, ip[f], off[f] + n)
    /\ UNCHANGED dir
    /\ content' = [content EXCEPT ![ip[f]] = Overwrite(@, off[f], [k \in 1 .. n |-> v])]

Read(f, n) ==
    /\ ip[f] # NoFile /\ Len(out') <= n
    /\ Position(f, ip[f], off[f] + Len(out'))
    /\ LET rest == SubSeq(content[ip[f]], off[f] + 1, Len(content[ip[f]]))
       IN out' = SubSeq(rest, 1, IF n > Len(rest) THEN Len(rest) ELSE n)
    /\ UNCHANGED <<dir, content>>

FNext ==
    \/ \E f \in Files :
        \/ \E i \in Inums : Create(f, i) \/ Open(f, i)
        \/ Close(f)
        \/ \E n \in 1 .. Piece, v \in Bytes : Write(f, n, v)
        \/ \E n \in 0 .. MaxSize : Read(f, n)
    \/ \E i \in Inums : Unlink(i)
    \/ out' = <<>> /\ UNCHANGED <<dir, content, ip, off>>

FSpec == FInit /\ [][FNext]_fvars
=============================================================================
