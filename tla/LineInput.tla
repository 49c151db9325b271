----------------------------- MODULE LineInput ------------------------------
(***************************************************************************)
(* What the console promises its readers: typed characters form a line     *)
(* that can be edited until it is committed; committed characters are read *)
(* once each, in the order they were typed, and are never edited.          *)
(***************************************************************************)
EXTENDS Naturals, Sequences

CONSTANTS Size, Typed

VARIABLES line,  \* typed and still editable
          ready  \* committed and not yet read

lvars == <<line, ready>>

LInit == line = <<>> /\ ready = <<>>

LType(c) ==
    /\ Len(ready) + Len(line) < Size
    /\ \/ line' = Append(line, c) /\ UNCHANGED ready
       \/ line' = <<>> /\ ready' = ready \o Append(line, c)

\* Backspace, or the whole line.
LErase ==
    /\ \E k \in 0 .. Len(line) : line' = SubSeq(line, 1, k)
    /\ UNCHANGED ready

LRead ==
    /\ ready # <<>>
    /\ ready' = Tail(ready)
    /\ UNCHANGED line

LNext == LErase \/ LRead \/ \E c \in Typed : LType(c)

LSpec == LInit /\ [][LNext]_lvars
=============================================================================
