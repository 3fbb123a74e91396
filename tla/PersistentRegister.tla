---------------------------- MODULE PersistentRegister ----------------------------
(***************************************************************************)
(* What the application persistent library promises, whatever happens      *)
(* while it writes: the area holds one whole content or none.  A write     *)
(* first loses the old content, then makes the new one valid in one step;  *)
(* cut by a reset it leaves the old content, none, or the new one.         *)
(***************************************************************************)
EXTENDS Naturals

CONSTANTS
    Contents,   \* what can be written: records with a value v and a length len
    Cells,      \* what a unit of the flash can hold
    Room,       \* the number of units for data
    NoContent   \* there is no valid content, nothing is being written

VARIABLES
    content,    \* what a read returns, a function from the units, or NoContent
    writing     \* the member of Contents being written, or NoContent

\* What is read back after c was written: c, then anything up to the end.
Stores(f, c) == \A i \in 1 .. c.len : f[i] = c.v

Init == content = NoContent /\ writing = NoContent

Start == writing = NoContent /\ writing' \in Contents /\ UNCHANGED content

\* A write that starts may lose the old content in the same step, and one that
\* ends may be cut before it has lost or stored anything.
Lose == writing # NoContent /\ content' = NoContent /\ UNCHANGED writing

Commit ==
    /\ writing # NoContent
    /\ content' \in [1 .. Room -> Cells]
    /\ Stores(content', writing)
    /\ writing' \in {writing, NoContent}

End == writing # NoContent /\ writing' = NoContent /\ content' \in {content, NoContent}

Next == Start \/ Lose \/ Commit \/ End

Spec == Init /\ [][Next]_<<content, writing>>
====================================================================================
