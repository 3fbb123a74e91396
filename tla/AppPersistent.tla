------------------------------- MODULE AppPersistent -------------------------------
(***************************************************************************)
(* The application persistent storage (libraries/app_persistent): one      *)
(* content in a flash area, behind a magic that says that it is valid.     *)
(* App_Persistent_write erases, writes the data, then writes the magic, and*)
(* waits for the driver after each with a timeout; the driver goes on when *)
(* the library has given up, and a reset may come at any point.            *)
(*                                                                         *)
(* One unit of the model is one aligned write of the flash.  The magic     *)
(* takes MagicSize units at the beginning of the area.                     *)
(***************************************************************************)
EXTENDS Integers

CONSTANTS
    Values,        \* the contents; every unit of a content is its value
    Lens,          \* the lengths the application writes and reads, in units
    MagicSize,     \* m_magic_size, in units
    SectorSize,    \* erase_sector_size, in units
    AreaSize,      \* area_size, in units
    Accepted,      \* outcomes of a driver that is not busy: TRUE it starts, FALSE it reports an error
    ErasesAll,     \* TRUE: startErase takes all the sectors asked for, FALSE: it may take fewer
    NoContent,     \* no content, the value of stored while there is no magic
    MaxWrites      \* bound: writes that reach the flash

Magic == "magic"
Erased == "erased"
Garbage == "garbage"

ASSUME SizesAssumption ==
    /\ MagicSize \in Nat \ {0} /\ SectorSize \in Nat \ {0} /\ AreaSize \in Nat
    /\ MagicSize <= SectorSize /\ MagicSize < AreaSize /\ AreaSize % SectorSize = 0
    /\ Lens \subseteq Nat \ {0} /\ MaxWrites \in Nat
    /\ Accepted \subseteq BOOLEAN /\ TRUE \in Accepted /\ ErasesAll \in BOOLEAN
    /\ {Magic, Erased, Garbage, NoContent} \cap Values = {}

VARIABLES
    flash,          \* the units of the area
    op,             \* what the driver is doing: kind, the next unit or sector, the end, the value
    pc,             \* where App_Persistent_write waits, "idle" outside of it
    job,            \* the arguments of the last write whose erase was accepted
    m_initialized,
    out,            \* the last call that returned: call, code, and what a read returned
    stored,         \* the content the magic stands for (ghost)
    writes          \* writes that reached the flash (bound)

vars == <<flash, op, pc, job, m_initialized, out, stored, writes>>

Units == 0 .. AreaSize - 1
Cells == Values \cup {Magic, Erased, Garbage}
m_usable_memory_size == AreaSize - MagicSize
Contents == [v : Values, len : Lens \cap 0 .. m_usable_memory_size]

ASSUME NoContentAssumption == NoContent \notin Contents

NoOp == [kind |-> "none", next |-> 0, end |-> 0, v |-> Erased]
Busy == op.kind # "none"
Sector(s) == {u \in Units : u \div SectorSize = s}

\* What the area holds, as App_Persistent_read finds it.
MagicValid == \A u \in 0 .. MagicSize - 1 : flash[u] = Magic
DataOf == [i \in 1 .. m_usable_memory_size |-> flash[MagicSize + i - 1]]
Holds(c) == \A i \in 1 .. c.len : flash[MagicSize + i - 1] = c.v

Init ==
    /\ flash = [u \in Units |-> Erased]
    /\ op = NoOp /\ pc = "idle"
    /\ job = NoContent /\ stored = NoContent
    /\ m_initialized = FALSE
    /\ out = [call |-> "none", code |-> "OK", data |-> NoContent]
    /\ writes = 0

(***************************************************************************)
(* The flash driver (external): an erase takes sector after sector, a      *)
(* write unit after unit; it turns down every call while it is busy.       *)
(***************************************************************************)

\* A unit can only be programmed once after an erase: writing over it mixes the two.
Programmed(old, new) == IF old \in {Erased, new} THEN new ELSE Garbage

DriverErases ==
    /\ op.kind = "erase"
    /\ flash' = [u \in Units |-> IF u \in Sector(op.next) THEN Erased ELSE flash[u]]
    /\ stored' = IF op.next = 0 THEN NoContent ELSE stored
    /\ op' = IF op.next + 1 = op.end THEN NoOp ELSE [op EXCEPT !.next = @ + 1]
    /\ UNCHANGED <<pc, job, m_initialized, out, writes>>

DriverWrites ==
    /\ op.kind = "write"
    /\ flash' = [flash EXCEPT ![op.next] = Programmed(@, op.v)]
    /\ op' = IF op.next + 1 = op.end THEN NoOp ELSE [op EXCEPT !.next = @ + 1]
    /\ stored' = IF op.v = Magic /\ op.next + 1 = op.end THEN job ELSE stored
    /\ UNCHANGED <<pc, job, m_initialized, out, writes>>

(***************************************************************************)
(* The library                                                             *)
(***************************************************************************)

Returns(call, code) ==
    /\ out' = [call |-> call, code |-> code, data |-> NoContent]
    /\ pc' = "idle"

App_Persistent_init ==
    /\ ~m_initialized
    /\ m_initialized' = TRUE
    /\ UNCHANGED <<flash, op, pc, job, out, stored, writes>>

\* Nothing can change the area while the library waits for its own read, so
\* the two reads and their waits are one step.  A driver that is still busy
\* with a write that timed out turns the read down.
App_Persistent_read(len) ==
    /\ pc = "idle"
    /\ IF ~m_initialized THEN Returns("read", "UNINITIALIZED")
       ELSE IF len > m_usable_memory_size THEN Returns("read", "TOO_BIG")
       ELSE IF Busy THEN Returns("read", "FLASH_ERROR")
       ELSE IF ~MagicValid THEN Returns("read", "INVALID_CONTENT")
       ELSE /\ out' = [call |-> "read", code |-> "OK",
                       data |-> [i \in 1 .. len |-> flash[MagicSize + i - 1]]]
            /\ pc' = pc
    /\ UNCHANGED <<flash, op, job, m_initialized, stored, writes>>

\* The sectors to erase, from the length alone: the magic that comes first is
\* not counted.
num_block(len) == (len + SectorSize - 1) \div SectorSize

\* The driver says how many of the n sectors it has not taken, and the caller
\* does not look at it.
startErase(n, taken) == op' = [kind |-> "erase", next |-> 0, end |-> taken, v |-> Erased]

startWrite(to, v, amount) == op' = [kind |-> "write", next |-> to, end |-> to + amount, v |-> v]

\* The checks and the erase.
App_Persistent_write(v, len) ==
    /\ pc = "idle"
    /\ IF ~m_initialized THEN Returns("write", "UNINITIALIZED") /\ UNCHANGED <<op, job, writes>>
       ELSE IF len > m_usable_memory_size
            THEN Returns("write", "TOO_BIG") /\ UNCHANGED <<op, job, writes>>
       ELSE \/ /\ ~Busy /\ writes < MaxWrites
               /\ LET n == num_block(len)
                  IN  \E taken \in IF ErasesAll THEN {n} ELSE 1 .. n : startErase(n, taken)
               /\ job' = [v |-> v, len |-> len]
               /\ writes' = writes + 1
               /\ pc' = "erase" /\ UNCHANGED out
            \/ /\ Busy \/ FALSE \in Accepted
               /\ Returns("write", "FLASH_ERROR") /\ UNCHANGED <<op, job, writes>>
    /\ UNCHANGED <<flash, m_initialized, stored>>

\* active_wait_for_end_of_operation gave up: the driver goes on with what it does.
WaitTimesOut ==
    /\ pc # "idle" /\ Busy
    /\ Returns("write", "ACCESS_TIMEOUT")
    /\ UNCHANGED <<flash, op, job, m_initialized, stored, writes>>

\* Mutant: the magic is written before the data.
AfterErase_magic ==
    /\ pc = "erase" /\ ~Busy
    /\ startWrite(0, Magic, MagicSize) /\ pc' = "data" /\ UNCHANGED out
    /\ UNCHANGED <<flash, job, m_initialized, stored, writes>>

\* The erase has ended: write the data behind the room of the magic.
AfterErase ==
    /\ pc = "erase" /\ ~Busy
    /\ \E ok \in Accepted :
          IF ok THEN startWrite(MagicSize, job.v, job.len) /\ pc' = "data" /\ UNCHANGED out
                ELSE Returns("write", "FLASH_ERROR") /\ UNCHANGED op
    /\ UNCHANGED <<flash, job, m_initialized, stored, writes>>

\* Mutant: the data is in the flash, so the write is reported before the magic is.
AfterData_early ==
    /\ pc = "data" /\ ~Busy
    /\ startWrite(0, Magic, MagicSize) /\ Returns("write", "OK")
    /\ UNCHANGED <<flash, job, m_initialized, stored, writes>>

\* The data is written: write the magic.
AfterData ==
    /\ pc = "data" /\ ~Busy
    /\ \E ok \in Accepted :
          IF ok THEN startWrite(0, Magic, MagicSize) /\ pc' = "magic" /\ UNCHANGED out
                ELSE Returns("write", "FLASH_ERROR") /\ UNCHANGED op
    /\ UNCHANGED <<flash, job, m_initialized, stored, writes>>

AfterMagic ==
    /\ pc = "magic" /\ ~Busy
    /\ Returns("write", "OK")
    /\ UNCHANGED <<flash, op, job, m_initialized, stored, writes>>

(***************************************************************************)
(* A reset (external): what is in RAM is lost, and the unit or sector being*)
(* programmed is left as it was or as garbage.                             *)
(***************************************************************************)
BeingProgrammed ==
    CASE op.kind = "none"  -> {}
      [] op.kind = "erase" -> Sector(op.next)
      [] op.kind = "write" -> {op.next}

Reset ==
    /\ \E cut \in BOOLEAN :
          LET hit == IF cut THEN BeingProgrammed ELSE {}
          IN  /\ flash' = [u \in Units |-> IF u \in hit THEN Garbage ELSE flash[u]]
              /\ stored' = IF 0 \in hit THEN NoContent ELSE stored
    /\ op' = NoOp /\ pc' = "idle" /\ m_initialized' = FALSE
    /\ out' = [call |-> "none", code |-> "OK", data |-> NoContent]
    /\ UNCHANGED <<job, writes>>

Next ==
    \/ DriverErases \/ DriverWrites
    \/ App_Persistent_init
    \/ \E len \in Lens : App_Persistent_read(len)
    \/ \E v \in Values, len \in Lens : App_Persistent_write(v, len)
    \/ WaitTimesOut
    \/ AfterErase \/ AfterData \/ AfterMagic
    \/ Reset

Spec == Init /\ [][Next]_vars

(***************************************************************************)
(* Properties                                                              *)
(***************************************************************************)

TypeOK ==
    /\ flash \in [Units -> Cells]
    /\ op \in [kind : {"none", "erase", "write"}, next : Nat, end : Nat, v : Cells]
    /\ pc \in {"idle", "erase", "data", "magic"}
    /\ job \in Contents \cup {NoContent} /\ stored \in Contents \cup {NoContent}
    /\ m_initialized \in BOOLEAN
    /\ out.call \in {"none", "read", "write"}
    /\ writes \in 0 .. MaxWrites

\* What a valid magic stands for is whole: after any number of writes, of
\* timeouts the driver outlives and of resets at any point, every unit of the
\* content is of the one write that wrote the magic.
NothingTorn == MagicValid => stored # NoContent /\ Holds(stored)

\* What the callers are told is true: a write that returned OK is what the
\* area holds, and a read that returned OK returned the stored content as far
\* as it was written.
ToldIsStored ==
    (pc = "idle" /\ out.code = "OK") =>
        /\ out.call = "write" => MagicValid /\ stored = job /\ Holds(job)
        /\ out.call = "read" => /\ MagicValid /\ stored # NoContent
                                /\ \A i \in DOMAIN out.data : i <= stored.len => out.data[i] = stored.v

\* The register: what a read would find, and the write that is not over.
content == IF MagicValid THEN DataOf ELSE NoContent
writing == IF pc # "idle" \/ Busy THEN job ELSE NoContent

Register == INSTANCE PersistentRegister WITH Room <- m_usable_memory_size

\* The area is a register that loses its content when a write begins and gets
\* the new one whole, in one step, when the write of the magic ends.
ImplementsRegister == Register!Spec
====================================================================================
