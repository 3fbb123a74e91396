--------------------------- MODULE AppPersistentProofs ---------------------------
(***************************************************************************)
(* Proofs about AppPersistent, for any sizes of the area, the sectors and  *)
(* the magic, under what the code leaves to its surroundings: that the     *)
(* driver takes all the sectors it is asked to erase, and that the sectors *)
(* counted from the length alone reach the end of the data behind the      *)
(* magic.                                                                  *)
(***************************************************************************)
EXTENDS AppPersistent, TLAPS

EraseReaches ==
    /\ ErasesAll
    /\ \A len \in Lens : len <= m_usable_memory_size =>
          MagicSize + len <= num_block(len) * SectorSize

(***************************************************************************)
(* The inductive invariant: what the area holds at each point of a write,  *)
(* whether the library still waits for the driver or has given up.         *)
(***************************************************************************)
ErasedTo(s) == \A u \in Units : u \div SectorSize < s => flash[u] = Erased
NoMagic == \A u \in 0 .. MagicSize - 1 : flash[u] = Erased

Erasing ==
    op.kind = "erase" =>
        /\ pc \in {"idle", "erase"} /\ job \in Contents
        /\ op.next < op.end /\ op.end = num_block(job.len)
        /\ ErasedTo(op.next)

WritingData ==
    op.kind = "write" /\ op.v # Magic =>
        /\ pc \in {"idle", "data"} /\ job \in Contents /\ op.v = job.v
        /\ op.end = MagicSize + job.len /\ MagicSize <= op.next /\ op.next < op.end
        /\ NoMagic
        /\ \A u \in MagicSize .. op.end - 1 :
              flash[u] = IF u < op.next THEN job.v ELSE Erased

WritingMagic ==
    op.kind = "write" /\ op.v = Magic =>
        /\ pc \in {"idle", "magic"} /\ job \in Contents
        /\ op.end = MagicSize /\ op.next < op.end
        /\ \A u \in 0 .. MagicSize - 1 : flash[u] = IF u < op.next THEN Magic ELSE Erased
        /\ Holds(job)

DriverDone ==
    ~Busy => /\ pc # "idle" => job \in Contents
             /\ pc = "erase" => ErasedTo(num_block(job.len))
             /\ pc = "data" => NoMagic /\ Holds(job)
             /\ pc = "magic" => MagicValid /\ stored = job

\* A call that returned OK has left the driver idle
ToldIsQuiet == pc = "idle" /\ out.code = "OK" /\ out.call # "none" => ~Busy

PersistInv ==
    /\ TypeOK /\ Erasing /\ WritingData /\ WritingMagic /\ DriverDone
    /\ NothingTorn /\ ToldIsQuiet /\ ToldIsStored

-----------------------------------------------------------------------------
(* Sizes, sectors and contents.                                            *)
USE SizesAssumption

LEMMA DivBelow ==
    ASSUME NEW u \in Nat, NEW k \in Nat \ {0}, NEW n \in Nat, u < n * k
    PROVE  u \div k < n
<1>1. /\ u \div k \in Nat /\ u % k \in 0 .. k - 1 /\ u = k * (u \div k) + (u % k)
  OBVIOUS
<1> DEFINE q == u \div k
<1> HIDE DEF q
<1>2. q \in Nat /\ q * k <= u
  BY <1>1 DEF q
<1>3. q >= n => q * k >= n * k
  BY <1>2
<1>4. n * k \in Nat /\ q * k \in Nat
  BY <1>2
<1>5. q < n
  BY <1>2, <1>3, <1>4
<1>6. QED
  BY <1>5 DEF q

LEMMA DivBelowOne ==
    ASSUME NEW u \in Nat, u < SectorSize
    PROVE  u \div SectorSize = 0
<1>1. u \div SectorSize < 1 /\ u \div SectorSize \in Nat
  BY DivBelow
<1>2. QED
  BY <1>1

LEMMA BlocksPositive ==
    ASSUME NEW len \in Nat \ {0}
    PROVE  num_block(len) \in Nat /\ num_block(len) > 0
<1> DEFINE a == len + SectorSize - 1
<1>1. a \in Nat /\ a >= SectorSize
  OBVIOUS
<1> HIDE DEF a
<1>2. a \div SectorSize \in Nat /\ a % SectorSize \in 0 .. SectorSize - 1
      /\ a = SectorSize * (a \div SectorSize) + (a % SectorSize)
  BY <1>1
<1>3. a \div SectorSize # 0
  BY <1>1, <1>2
<1>4. QED
  BY <1>2, <1>3 DEF num_block, a

\* The length and the units of a content
LEMMA ContentSizes ==
    ASSUME NEW c \in Contents
    PROVE  /\ c.v \in Values /\ c.len \in Lens /\ c.len \in Nat \ {0} /\ c.len <= m_usable_memory_size
           /\ MagicSize + c.len <= AreaSize /\ c # NoContent
           /\ c.v \notin {Magic, Erased, Garbage}
BY NoContentAssumption DEF Contents, m_usable_memory_size

LEMMA SectorZero == 0 \in Units /\ 0 \in Sector(0) /\ \A s \in Nat \ {0} : 0 \notin Sector(s)
<1>1. 0 \div SectorSize = 0 /\ 0 \in Units
  BY DivBelowOne DEF Units
<1>2. QED
  BY <1>1 DEF Sector

\* The sectors counted for a content reach its end
LEMMA ErasedReaches ==
    ASSUME EraseReaches, NEW c \in Contents, ErasedTo(num_block(c.len))
    PROVE  NoMagic /\ \A u \in MagicSize .. MagicSize + c.len - 1 : flash[u] = Erased
<1>1. /\ c.len \in Lens /\ c.len \in Nat \ {0} /\ c.len <= m_usable_memory_size
      /\ MagicSize + c.len <= AreaSize
  BY ContentSizes
<1>2. num_block(c.len) \in Nat /\ MagicSize + c.len <= num_block(c.len) * SectorSize
  BY <1>1, BlocksPositive DEF EraseReaches
<1>3. ASSUME NEW u \in 0 .. MagicSize + c.len - 1 PROVE flash[u] = Erased
  <2>1. u \in Units /\ u \in Nat /\ u < MagicSize + c.len
    BY <1>1 DEF Units
  <2> DEFINE k == num_block(c.len)
  <2> HIDE DEF k
  <2>2. k \in Nat /\ MagicSize + c.len <= k * SectorSize /\ k * SectorSize \in Nat
    BY <1>2 DEF k
  <2>3. u < k * SectorSize
    BY <1>1, <2>1, <2>2
  <2>4. u \div SectorSize < k
    BY <2>1, <2>2, <2>3, DivBelow
  <2>5. QED
    BY <2>1, <2>4 DEF ErasedTo, k
<1>4. QED
  BY <1>1, <1>3 DEF NoMagic

LEMMA NoMagicInvalid == NoMagic \/ (flash[0] # Magic) => ~MagicValid
BY DEF NoMagic, MagicValid, Magic, Erased

-----------------------------------------------------------------------------
(* Every step keeps the invariant.                                         *)

LEMMA InitPersist == Init => PersistInv
<1> SUFFICES ASSUME Init PROVE PersistInv
  OBVIOUS
<1>1. TypeOK
  <2>1. flash \in [Units -> Cells]
    BY DEF Init, Cells
  <2>2. op \in [kind : {"none", "erase", "write"}, next : Nat, end : Nat, v : Cells]
    BY DEF Init, NoOp, Cells
  <2>3. writes \in 0 .. MaxWrites /\ out.call = "none"
    BY DEF Init
  <2>4. QED
    BY <2>1, <2>2, <2>3 DEF Init, TypeOK
<1>2. flash[0] = Erased
  BY SectorZero DEF Init
<1>3. ~MagicValid
  BY <1>2, NoMagicInvalid DEF Magic, Erased
<1>4. QED
  BY <1>1, <1>3 DEF Init, NoOp, PersistInv, Erasing, WritingData, WritingMagic, DriverDone, Busy,
     NothingTorn, ToldIsQuiet, ToldIsStored

LEMMA ErasesPersist == PersistInv /\ DriverErases => PersistInv'
<1> SUFFICES ASSUME PersistInv, DriverErases PROVE PersistInv'
  OBVIOUS
<1>1. /\ op.kind = "erase" /\ job \in Contents /\ op.next < op.end /\ op.end = num_block(job.len)
      /\ op.next \in Nat /\ op.end \in Nat /\ pc \in {"idle", "erase"} /\ Busy
      /\ ErasedTo(op.next) /\ flash \in [Units -> Cells]
  BY DEF PersistInv, TypeOK, Erasing, DriverErases, Busy
<1>2. UNCHANGED <<pc, job, m_initialized, out, writes>>
  BY DEF DriverErases
<1>3. flash' \in [Units -> Cells]
  BY <1>1 DEF DriverErases, Cells
<1>4. \A u \in Units : u \div SectorSize < op.next + 1 => flash'[u] = Erased
  <2> SUFFICES ASSUME NEW u \in Units, u \div SectorSize < op.next + 1 PROVE flash'[u] = Erased
    OBVIOUS
  <2>1. u \div SectorSize \in Int
    BY DEF Units
  <2>2. CASE u \in Sector(op.next)
    BY <2>2 DEF DriverErases
  <2>3. CASE u \notin Sector(op.next)
    BY <1>1, <2>1, <2>3 DEF DriverErases, Sector, ErasedTo
  <2>4. QED
    BY <2>2, <2>3
<1>5. flash'[0] = Erased
  <2>1. 0 \in Units /\ 0 \div SectorSize = 0
    BY SectorZero DEF Sector
  <2>2. QED
    BY <1>1, <1>4, <2>1
<1>6. ~MagicValid'
  BY <1>5 DEF MagicValid, Magic, Erased
<1>7. ~(pc = "idle" /\ out.code = "OK" /\ out.call # "none")
  BY <1>1 DEF PersistInv, ToldIsQuiet
<1>8. stored' \in Contents \cup {NoContent}
  BY DEF DriverErases, PersistInv, TypeOK
<1>9. CASE op.next + 1 = op.end
  <2>1. op' = NoOp
    BY <1>9 DEF DriverErases
  <2>2. TypeOK'
    BY <1>2, <1>3, <1>8, <2>1 DEF PersistInv, TypeOK, NoOp, Cells
  <2>3. Erasing' /\ WritingData' /\ WritingMagic'
    BY <2>1 DEF Erasing, WritingData, WritingMagic, NoOp
  <2>4. DriverDone'
    BY <1>1, <1>2, <1>4, <1>9 DEF DriverDone, ErasedTo
  <2>5. QED
    BY <1>2, <1>6, <1>7, <2>2, <2>3, <2>4 DEF PersistInv, NothingTorn, ToldIsQuiet, ToldIsStored
<1>10. CASE op.next + 1 # op.end
  <2>1. op' = [op EXCEPT !.next = op.next + 1]
    BY <1>10 DEF DriverErases
  <2>2. /\ op'.kind = "erase" /\ op'.next = op.next + 1 /\ op'.end = op.end
        /\ op' \in [kind : {"none", "erase", "write"}, next : Nat, end : Nat, v : Cells]
    BY <1>1, <2>1 DEF PersistInv, TypeOK
  <2>3. TypeOK'
    BY <1>2, <1>3, <1>8, <2>2 DEF PersistInv, TypeOK
  <2>4. Erasing'
    BY <1>1, <1>2, <1>4, <1>10, <2>2 DEF Erasing, ErasedTo
  <2>5. WritingData' /\ WritingMagic' /\ DriverDone'
    BY <2>2 DEF WritingData, WritingMagic, DriverDone, Busy
  <2>6. QED
    BY <1>2, <1>6, <1>7, <2>3, <2>4, <2>5 DEF PersistInv, NothingTorn, ToldIsQuiet, ToldIsStored
<1>11. QED
  BY <1>9, <1>10

\* A unit of the data
LEMMA WriteDataPersist == PersistInv /\ DriverWrites /\ op.v # Magic => PersistInv'
<1> SUFFICES ASSUME PersistInv, DriverWrites, op.v # Magic PROVE PersistInv'
  OBVIOUS
<1>1. /\ op.kind = "write" /\ pc \in {"idle", "data"} /\ job \in Contents /\ op.v = job.v
      /\ op.end = MagicSize + job.len /\ MagicSize <= op.next /\ op.next < op.end
      /\ NoMagic /\ Busy /\ op.next \in Nat /\ op.end \in Nat /\ flash \in [Units -> Cells]
      /\ \A u \in MagicSize .. op.end - 1 : flash[u] = IF u < op.next THEN job.v ELSE Erased
  BY DEF PersistInv, TypeOK, WritingData, DriverWrites, Busy
<1>2. job.len \in Nat \ {0} /\ MagicSize + job.len <= AreaSize /\ job.v \in Cells
  BY <1>1, ContentSizes DEF Cells
<1>3. UNCHANGED <<pc, job, m_initialized, out, writes, stored>>
  BY DEF DriverWrites
<1>4. op.next \in Units /\ flash[op.next] = Erased
  BY <1>1, <1>2 DEF Units
<1>5. flash' = [flash EXCEPT ![op.next] = job.v]
  BY <1>1, <1>4 DEF DriverWrites, Programmed
<1>6. /\ flash' \in [Units -> Cells] /\ flash'[op.next] = job.v
      /\ \A u \in Units \ {op.next} : flash'[u] = flash[u]
  BY <1>1, <1>2, <1>4, <1>5
<1>7. 0 .. MagicSize - 1 \subseteq Units \ {op.next} /\ MagicSize .. op.end - 1 \subseteq Units
  BY <1>1, <1>2 DEF Units
<1>8. NoMagic'
  BY <1>1, <1>6, <1>7 DEF NoMagic
<1>9. \A u \in MagicSize .. op.end - 1 : flash'[u] = IF u < op.next + 1 THEN job.v ELSE Erased
  <2> SUFFICES ASSUME NEW u \in MagicSize .. op.end - 1
               PROVE  flash'[u] = IF u < op.next + 1 THEN job.v ELSE Erased
    OBVIOUS
  <2>1. CASE u = op.next
    BY <1>1, <1>6, <2>1
  <2>2. CASE u # op.next
    BY <1>1, <1>6, <1>7, <2>2
  <2>3. QED
    BY <2>1, <2>2
<1>10. ~MagicValid'
  BY <1>8 DEF NoMagic, MagicValid, Magic, Erased
<1>11. ~(pc = "idle" /\ out.code = "OK" /\ out.call # "none")
  BY <1>1 DEF PersistInv, ToldIsQuiet
<1>12. CASE op.next + 1 = op.end
  <2>1. op' = NoOp
    BY <1>12 DEF DriverWrites
  <2>2. TypeOK'
    BY <1>3, <1>6, <2>1 DEF PersistInv, TypeOK, NoOp, Cells
  <2>3. Erasing' /\ WritingData' /\ WritingMagic'
    BY <2>1 DEF Erasing, WritingData, WritingMagic, NoOp
  <2>4. Holds(job)'
    <3> SUFFICES ASSUME NEW i \in 1 .. job.len PROVE flash'[MagicSize + i - 1] = job.v
      BY <1>3 DEF Holds
    <3>1. MagicSize + i - 1 \in MagicSize .. op.end - 1 /\ MagicSize + i - 1 < op.next + 1
      BY <1>1, <1>2, <1>12
    <3>2. QED
      BY <1>9, <3>1
  <2>5. DriverDone'
    BY <1>1, <1>3, <1>8, <2>4 DEF DriverDone
  <2>6. QED
    BY <1>3, <1>10, <1>11, <2>2, <2>3, <2>5 DEF PersistInv, NothingTorn, ToldIsQuiet, ToldIsStored
<1>13. CASE op.next + 1 # op.end
  <2>1. op' = [op EXCEPT !.next = op.next + 1]
    BY <1>13 DEF DriverWrites
  <2>2. /\ op'.kind = "write" /\ op'.next = op.next + 1 /\ op'.end = op.end /\ op'.v = op.v
        /\ op' \in [kind : {"none", "erase", "write"}, next : Nat, end : Nat, v : Cells]
    BY <1>1, <2>1 DEF PersistInv, TypeOK
  <2>3. TypeOK'
    BY <1>3, <1>6, <2>2 DEF PersistInv, TypeOK
  <2>4. WritingData'
    BY <1>1, <1>3, <1>8, <1>9, <1>13, <2>2 DEF WritingData
  <2>5. Erasing' /\ WritingMagic' /\ DriverDone'
    BY <2>2 DEF Erasing, WritingMagic, DriverDone, Busy
  <2>6. QED
    BY <1>3, <1>10, <1>11, <2>3, <2>4, <2>5 DEF PersistInv, NothingTorn, ToldIsQuiet, ToldIsStored
<1>14. QED
  BY <1>12, <1>13

\* A unit of the magic: the last one makes it valid
LEMMA WriteMagicPersist == PersistInv /\ DriverWrites /\ op.v = Magic => PersistInv'
<1> SUFFICES ASSUME PersistInv, DriverWrites, op.v = Magic PROVE PersistInv'
  OBVIOUS
<1>1. /\ op.kind = "write" /\ pc \in {"idle", "magic"} /\ job \in Contents
      /\ op.end = MagicSize /\ op.next < op.end /\ Holds(job)
      /\ Busy /\ op.next \in Nat /\ op.end \in Nat /\ flash \in [Units -> Cells]
      /\ \A u \in 0 .. MagicSize - 1 : flash[u] = IF u < op.next THEN Magic ELSE Erased
  BY DEF PersistInv, TypeOK, WritingMagic, DriverWrites, Busy
<1>2. job.len \in Nat \ {0} /\ MagicSize + job.len <= AreaSize /\ Magic \in Cells /\ job # NoContent
  BY <1>1, ContentSizes DEF Cells
<1>3. UNCHANGED <<pc, job, m_initialized, out, writes>>
  BY DEF DriverWrites
<1>4. op.next \in Units /\ flash[op.next] = Erased
  BY <1>1, <1>2 DEF Units
<1>5. flash' = [flash EXCEPT ![op.next] = Magic]
  BY <1>1, <1>4 DEF DriverWrites, Programmed
<1>6. /\ flash' \in [Units -> Cells] /\ flash'[op.next] = Magic
      /\ \A u \in Units \ {op.next} : flash'[u] = flash[u]
  BY <1>1, <1>2, <1>4, <1>5
<1>7. \A u \in 0 .. MagicSize - 1 : flash'[u] = IF u < op.next + 1 THEN Magic ELSE Erased
  <2> SUFFICES ASSUME NEW u \in 0 .. MagicSize - 1
               PROVE  flash'[u] = IF u < op.next + 1 THEN Magic ELSE Erased
    OBVIOUS
  <2>1. CASE u = op.next
    BY <1>1, <1>6, <2>1
  <2>2. CASE u # op.next
    <3>1. u \in Units \ {op.next}
      BY <1>2, <2>2 DEF Units
    <3>2. QED
      BY <1>1, <1>6, <2>2, <3>1
  <2>3. QED
    BY <2>1, <2>2
<1>8. Holds(job)'
  <2> SUFFICES ASSUME NEW i \in 1 .. job.len PROVE flash'[MagicSize + i - 1] = job.v
    BY <1>3 DEF Holds
  <2>1. MagicSize + i - 1 \in Units \ {op.next}
    BY <1>1, <1>2 DEF Units
  <2>2. QED
    BY <1>1, <1>6, <2>1 DEF Holds
<1>9. ~(pc = "idle" /\ out.code = "OK" /\ out.call # "none")
  BY <1>1 DEF PersistInv, ToldIsQuiet
<1>10. CASE op.next + 1 = op.end
  <2>1. op' = NoOp /\ stored' = job
    BY <1>10 DEF DriverWrites
  <2>2. TypeOK'
    BY <1>3, <1>6, <2>1 DEF PersistInv, TypeOK, NoOp, Cells
  <2>3. Erasing' /\ WritingData' /\ WritingMagic'
    BY <2>1 DEF Erasing, WritingData, WritingMagic, NoOp
  <2>4. MagicValid'
    BY <1>1, <1>7, <1>10 DEF MagicValid
  <2>5. DriverDone'
    BY <1>1, <1>3, <2>1, <2>4 DEF DriverDone
  <2>6. NothingTorn'
    BY <1>2, <1>3, <1>8, <2>1 DEF NothingTorn, Holds
  <2>7. QED
    BY <1>3, <1>9, <2>2, <2>3, <2>5, <2>6 DEF PersistInv, ToldIsQuiet, ToldIsStored, TypeOK
<1>11. CASE op.next + 1 # op.end
  <2>1. op' = [op EXCEPT !.next = op.next + 1] /\ stored' = stored
    BY <1>11 DEF DriverWrites
  <2>2. /\ op'.kind = "write" /\ op'.next = op.next + 1 /\ op'.end = op.end /\ op'.v = Magic
        /\ op' \in [kind : {"none", "erase", "write"}, next : Nat, end : Nat, v : Cells]
    BY <1>1, <2>1 DEF PersistInv, TypeOK
  <2>3. TypeOK'
    BY <1>3, <1>6, <2>1, <2>2 DEF PersistInv, TypeOK
  <2>4. WritingMagic'
    BY <1>1, <1>3, <1>7, <1>8, <1>11, <2>2 DEF WritingMagic
  <2>5. Erasing' /\ WritingData' /\ DriverDone'
    BY <2>2 DEF Erasing, WritingData, DriverDone, Busy
  <2>6. ~MagicValid'
    <3>1. MagicSize - 1 \in 0 .. MagicSize - 1 /\ ~(MagicSize - 1 < op.next + 1)
      BY <1>1, <1>11
    <3>2. flash'[MagicSize - 1] = Erased
      BY <1>7, <3>1
    <3>3. QED
      BY <3>1, <3>2 DEF MagicValid, Magic, Erased
  <2>7. QED
    BY <1>3, <1>9, <2>3, <2>4, <2>5, <2>6 DEF PersistInv, NothingTorn, ToldIsQuiet, ToldIsStored, TypeOK
<1>12. QED
  BY <1>10, <1>11

(***************************************************************************)
(* The steps of the library, which leave the flash and the content alone.  *)
(* When they return, they tell nothing new or what the area holds.         *)
(***************************************************************************)
LEMMA SameFlash ==
    ASSUME PersistInv, UNCHANGED <<flash, stored>>
    PROVE  flash' \in [Units -> Cells] /\ stored' \in Contents \cup {NoContent} /\ NothingTorn'
BY DEF PersistInv, TypeOK, NothingTorn, MagicValid, Holds

LEMMA InitializePersist == PersistInv /\ App_Persistent_init => PersistInv'
<1> SUFFICES ASSUME PersistInv, App_Persistent_init PROVE PersistInv'
  OBVIOUS
<1>1. UNCHANGED <<flash, op, pc, job, out, stored, writes>> /\ m_initialized' = TRUE
  BY DEF App_Persistent_init
<1>2. TypeOK' /\ NothingTorn'
  BY <1>1, SameFlash DEF PersistInv, TypeOK
<1>3. Erasing' /\ WritingData' /\ WritingMagic' /\ DriverDone'
  BY <1>1 DEF PersistInv, Erasing, WritingData, WritingMagic, DriverDone, ErasedTo, NoMagic, Holds,
     MagicValid, Busy
<1>4. ToldIsQuiet' /\ ToldIsStored'
  BY <1>1 DEF PersistInv, ToldIsQuiet, ToldIsStored, Busy, MagicValid, Holds
<1>5. QED
  BY <1>2, <1>3, <1>4 DEF PersistInv

\* A call that returns with an error tells nothing
LEMMA ErrorPersist ==
    ASSUME PersistInv, NEW call \in {"read", "write"}, NEW code, code # "OK", Returns(call, code),
           UNCHANGED <<flash, op, job, m_initialized, stored, writes>>
    PROVE  PersistInv'
<1>1. pc' = "idle" /\ out' = [call |-> call, code |-> code, data |-> NoContent]
  BY DEF Returns
<1>2. out'.call = call /\ out'.code # "OK"
  BY <1>1
<1>3. TypeOK' /\ NothingTorn'
  BY <1>1, <1>2, SameFlash DEF PersistInv, TypeOK
<1>4. Erasing'
  BY <1>1 DEF PersistInv, Erasing, ErasedTo
<1>5. WritingData' /\ WritingMagic' /\ DriverDone'
  BY <1>1 DEF PersistInv, WritingData, WritingMagic, DriverDone, NoMagic, Holds
<1>6. ToldIsQuiet' /\ ToldIsStored'
  BY <1>2 DEF ToldIsQuiet, ToldIsStored
<1>7. QED
  BY <1>3, <1>4, <1>5, <1>6 DEF PersistInv

LEMMA ReadPersist ==
    ASSUME PersistInv, NEW len \in Lens, App_Persistent_read(len)
    PROVE  PersistInv'
<1>1. UNCHANGED <<flash, op, job, m_initialized, stored, writes>> /\ pc = "idle"
  BY DEF App_Persistent_read
<1>2. CASE \E code \in {"UNINITIALIZED", "TOO_BIG", "FLASH_ERROR", "INVALID_CONTENT"} : Returns("read", code)
  BY <1>1, <1>2, ErrorPersist
<1>3. CASE /\ ~Busy /\ MagicValid /\ pc' = pc
           /\ out' = [call |-> "read", code |-> "OK",
                      data |-> [i \in 1 .. len |-> flash[MagicSize + i - 1]]]
  <2> DEFINE d == [i \in 1 .. len |-> flash[MagicSize + i - 1]]
  <2>1. out'.call = "read" /\ out'.code = "OK" /\ out'.data = d /\ pc' = "idle" /\ ~Busy'
    BY <1>1, <1>3 DEF Busy
  <2>2. TypeOK' /\ NothingTorn'
    BY <1>1, <2>1, SameFlash DEF PersistInv, TypeOK
  <2>3. Erasing' /\ WritingData' /\ WritingMagic' /\ DriverDone' /\ ToldIsQuiet'
    BY <2>1 DEF Erasing, WritingData, WritingMagic, DriverDone, Busy, ToldIsQuiet
  <2>4. MagicValid' /\ stored' # NoContent /\ Holds(stored)
    BY <1>1, <1>3 DEF PersistInv, NothingTorn, MagicValid
  <2>5. \A i \in DOMAIN d : i <= stored.len => d[i] = stored.v
    <3> SUFFICES ASSUME NEW i \in 1 .. len, i <= stored.len PROVE d[i] = stored.v
      OBVIOUS
    <3>1. stored \in Contents /\ stored.len \in Nat
      BY <1>1, <2>4, ContentSizes DEF PersistInv, TypeOK
    <3>2. i \in 1 .. stored.len /\ d[i] = flash[MagicSize + i - 1]
      BY <3>1
    <3>3. QED
      BY <2>4, <3>2 DEF Holds
  <2>6. ToldIsStored'
    BY <1>1, <2>1, <2>4, <2>5 DEF ToldIsStored
  <2>7. QED
    BY <2>2, <2>3, <2>6 DEF PersistInv
<1>4. QED
  BY <1>2, <1>3 DEF App_Persistent_read

LEMMA WritePersist ==
    ASSUME EraseReaches, PersistInv, NEW v \in Values, NEW len \in Lens, App_Persistent_write(v, len)
    PROVE  PersistInv'
<1>1. pc = "idle" /\ UNCHANGED <<flash, m_initialized, stored>>
  BY DEF App_Persistent_write
<1>2. CASE /\ \E code \in {"UNINITIALIZED", "TOO_BIG", "FLASH_ERROR"} : Returns("write", code)
           /\ UNCHANGED <<op, job, writes>>
  BY <1>1, <1>2, ErrorPersist
<1>3. CASE /\ ~(len > m_usable_memory_size) /\ ~Busy /\ writes < MaxWrites
           /\ startErase(num_block(len), num_block(len))
           /\ job' = [v |-> v, len |-> len] /\ writes' = writes + 1 /\ pc' = "erase" /\ out' = out
  <2>1. len \in Nat \ {0} /\ num_block(len) \in Nat /\ num_block(len) > 0
    BY BlocksPositive
  <2>2. job' \in Contents /\ job'.len = len
    BY <1>3, <2>1 DEF Contents, m_usable_memory_size
  <2>3. /\ op' = [kind |-> "erase", next |-> 0, end |-> num_block(len), v |-> Erased]
    BY <1>3 DEF startErase
  <2>4. /\ op' \in [kind : {"none", "erase", "write"}, next : Nat, end : Nat, v : Cells]
        /\ op'.kind = "erase" /\ op'.next = 0 /\ op'.end = num_block(len)
    BY <2>1, <2>3 DEF Cells
  <2>5. TypeOK' /\ NothingTorn'
    BY <1>1, <1>3, <2>2, <2>4, SameFlash DEF PersistInv, TypeOK
  <2>6. ErasedTo(0)'
    BY DEF ErasedTo, Units
  <2>7. Erasing'
    BY <1>3, <2>1, <2>2, <2>4, <2>6 DEF Erasing, ErasedTo
  <2>8. WritingData' /\ WritingMagic' /\ DriverDone' /\ ToldIsQuiet' /\ ToldIsStored'
    BY <1>3, <2>4 DEF WritingData, WritingMagic, DriverDone, Busy, ToldIsQuiet, ToldIsStored
  <2>9. QED
    BY <2>5, <2>7, <2>8 DEF PersistInv
<1>4. QED
  BY <1>2, <1>3 DEF App_Persistent_write, EraseReaches

\* The driver is asked to write; the call that waits goes on to next
LEMMA StartPersist ==
    ASSUME PersistInv, pc \in {"erase", "data"}, UNCHANGED <<flash, job, m_initialized, stored, writes, out>>,
           NEW to \in Nat, NEW amount \in Nat, NEW v \in Cells, startWrite(to, v, amount),
           pc' # "idle", pc' \in {"data", "magic"}, WritingData', WritingMagic'
    PROVE  PersistInv'
<1>1. /\ op' \in [kind : {"none", "erase", "write"}, next : Nat, end : Nat, v : Cells]
      /\ op'.kind = "write"
  BY DEF startWrite
<1>2. TypeOK' /\ NothingTorn'
  BY <1>1, SameFlash DEF PersistInv, TypeOK
<1>3. Erasing' /\ DriverDone' /\ ToldIsQuiet' /\ ToldIsStored'
  BY <1>1 DEF Erasing, DriverDone, Busy, ToldIsQuiet, ToldIsStored
<1>4. QED
  BY <1>2, <1>3 DEF PersistInv

LEMMA AfterErasePersist == EraseReaches /\ PersistInv /\ AfterErase => PersistInv'
<1> SUFFICES ASSUME EraseReaches, PersistInv, AfterErase PROVE PersistInv'
  OBVIOUS
<1>1. /\ pc = "erase" /\ ~Busy /\ UNCHANGED <<flash, job, m_initialized, stored, writes>>
      /\ job \in Contents /\ ErasedTo(num_block(job.len))
  BY DEF AfterErase, PersistInv, DriverDone
<1>2. CASE Returns("write", "FLASH_ERROR") /\ UNCHANGED op
  BY <1>1, <1>2, ErrorPersist
<1>3. CASE startWrite(MagicSize, job.v, job.len) /\ pc' = "data" /\ UNCHANGED out
  <2>1. job.len \in Nat \ {0} /\ job.v \in Cells /\ job.v # Magic
    BY <1>1, ContentSizes DEF Cells
  <2>2. /\ op'.kind = "write" /\ op'.next = MagicSize /\ op'.end = MagicSize + job.len
        /\ op'.v = job.v
    BY <1>3 DEF startWrite
  <2>3. NoMagic /\ \A u \in MagicSize .. MagicSize + job.len - 1 : flash[u] = Erased
    BY <1>1, ErasedReaches
  <2>4. WritingMagic'
    BY <2>1, <2>2 DEF WritingMagic
  <2>5. WritingData'
    BY <1>1, <1>3, <2>1, <2>2, <2>3 DEF WritingData, NoMagic
  <2>6. QED
    BY <1>1, <1>3, <2>1, <2>4, <2>5, StartPersist
<1>4. QED
  BY <1>2, <1>3 DEF AfterErase

LEMMA AfterDataPersist == PersistInv /\ AfterData => PersistInv'
<1> SUFFICES ASSUME PersistInv, AfterData PROVE PersistInv'
  OBVIOUS
<1>1. /\ pc = "data" /\ ~Busy /\ UNCHANGED <<flash, job, m_initialized, stored, writes>>
      /\ job \in Contents /\ NoMagic /\ Holds(job)
  BY DEF AfterData, PersistInv, DriverDone
<1>2. CASE Returns("write", "FLASH_ERROR") /\ UNCHANGED op
  BY <1>1, <1>2, ErrorPersist
<1>3. CASE startWrite(0, Magic, MagicSize) /\ pc' = "magic" /\ UNCHANGED out
  <2>1. /\ op'.kind = "write" /\ op'.next = 0 /\ op'.end = MagicSize /\ op'.v = Magic
    BY <1>3 DEF startWrite
  <2>2. WritingData'
    BY <2>1 DEF WritingData
  <2>3. WritingMagic'
    <3>1. Holds(job)'
      BY <1>1 DEF Holds
    <3>2. \A u \in 0 .. MagicSize - 1 : flash'[u] = Erased /\ ~(u < 0)
      BY <1>1 DEF NoMagic
    <3>3. QED
      BY <1>1, <1>3, <2>1, <3>1, <3>2 DEF WritingMagic
  <2>4. Magic \in Cells
    BY DEF Cells
  <2>5. QED
    BY <1>1, <1>3, <2>2, <2>3, <2>4, StartPersist
<1>4. QED
  BY <1>2, <1>3 DEF AfterData

LEMMA AfterMagicPersist == PersistInv /\ AfterMagic => PersistInv'
<1> SUFFICES ASSUME PersistInv, AfterMagic PROVE PersistInv'
  OBVIOUS
<1>1. /\ ~Busy /\ UNCHANGED <<flash, op, job, m_initialized, stored, writes>>
      /\ job \in Contents /\ MagicValid /\ stored = job
      /\ pc' = "idle" /\ out' = [call |-> "write", code |-> "OK", data |-> NoContent]
  BY DEF AfterMagic, PersistInv, DriverDone, Returns
<1>2. out'.call = "write" /\ ~Busy' /\ MagicValid' /\ stored' = job'
  BY <1>1 DEF Busy, MagicValid
<1>3. TypeOK' /\ NothingTorn'
  BY <1>1, <1>2, SameFlash DEF PersistInv, TypeOK
<1>4. Erasing' /\ WritingData' /\ WritingMagic' /\ DriverDone' /\ ToldIsQuiet'
  BY <1>1, <1>2 DEF Erasing, WritingData, WritingMagic, DriverDone, Busy, ToldIsQuiet
<1>5. ToldIsStored'
  BY <1>2, <1>3 DEF ToldIsStored, NothingTorn
<1>6. QED
  BY <1>3, <1>4, <1>5 DEF PersistInv

(***************************************************************************)
(* A reset that cuts what the driver is doing leaves no valid magic: it    *)
(* hits a unit of it, or the first was erased already.                     *)
(***************************************************************************)
CutIsInvalid(hit) == \E u \in 0 .. MagicSize - 1 : u \in hit \/ flash[u] = Erased

LEMMA CutInvalid ==
    ASSUME PersistInv, Busy
    PROVE  CutIsInvalid(BeingProgrammed)
<1>1. 0 \in 0 .. MagicSize - 1
  OBVIOUS
<1>2. CASE op.kind = "erase"
  <2>1. BeingProgrammed = Sector(op.next) /\ ErasedTo(op.next) /\ op.next \in Nat
    BY <1>2 DEF BeingProgrammed, PersistInv, Erasing, TypeOK
  <2>2. CASE op.next = 0
    BY <1>1, <2>1, <2>2, SectorZero DEF CutIsInvalid
  <2>3. CASE op.next # 0
    BY <1>1, <2>1, <2>3, SectorZero DEF CutIsInvalid, ErasedTo, Sector
  <2>4. QED
    BY <2>2, <2>3
<1>3. CASE op.kind = "write" /\ op.v # Magic
  BY <1>1, <1>3 DEF PersistInv, WritingData, NoMagic, CutIsInvalid
<1>4. CASE op.kind = "write" /\ op.v = Magic
  <2>1. BeingProgrammed = {op.next} /\ op.next \in 0 .. MagicSize - 1
    BY <1>4 DEF BeingProgrammed, PersistInv, WritingMagic, TypeOK
  <2>2. QED
    BY <2>1 DEF CutIsInvalid
<1>5. QED
  BY <1>2, <1>3, <1>4 DEF PersistInv, TypeOK, Busy

LEMMA ResetPersist == PersistInv /\ Reset => PersistInv'
<1> SUFFICES ASSUME PersistInv, Reset PROVE PersistInv'
  OBVIOUS
<1>1. /\ op' = NoOp /\ pc' = "idle" /\ m_initialized' = FALSE /\ UNCHANGED <<job, writes>>
      /\ out' = [call |-> "none", code |-> "OK", data |-> NoContent]
  BY DEF Reset
<1>2. PICK cut \in BOOLEAN :
         LET hit == IF cut THEN BeingProgrammed ELSE {}
         IN  /\ flash' = [u \in Units |-> IF u \in hit THEN Garbage ELSE flash[u]]
             /\ stored' = IF 0 \in hit THEN NoContent ELSE stored
  BY DEF Reset
<1> DEFINE hit == IF cut THEN BeingProgrammed ELSE {}
<1>3. /\ flash' = [u \in Units |-> IF u \in hit THEN Garbage ELSE flash[u]]
      /\ stored' = IF 0 \in hit THEN NoContent ELSE stored
  BY <1>2
<1>4. hit = {} \/ (Busy /\ hit = BeingProgrammed)
  BY DEF BeingProgrammed, Busy
<1> HIDE DEF hit
<1>5. /\ flash' \in [Units -> Cells] /\ stored' \in Contents \cup {NoContent}
      /\ out'.call = "none"
  BY <1>1, <1>3 DEF PersistInv, TypeOK, Cells
<1>6. TypeOK'
  BY <1>1, <1>5 DEF PersistInv, TypeOK, NoOp, Cells
<1>7. Erasing' /\ WritingData' /\ WritingMagic' /\ DriverDone' /\ ToldIsQuiet' /\ ToldIsStored'
  BY <1>1, <1>5 DEF Erasing, WritingData, WritingMagic, DriverDone, Busy, NoOp, ToldIsQuiet, ToldIsStored
<1>8. NothingTorn'
  <2>1. CASE hit = {}
    <3>1. flash' = flash /\ stored' = stored
      BY <1>3, <2>1 DEF PersistInv, TypeOK
    <3>2. QED
      BY <3>1, SameFlash
  <2>2. CASE Busy /\ hit = BeingProgrammed
    <3>1. CutIsInvalid(hit)
      BY <2>2, CutInvalid
    <3>2. PICK u \in 0 .. MagicSize - 1 : u \in hit \/ flash[u] = Erased
      BY <3>1 DEF CutIsInvalid
    <3>3. flash'[u] \in {Garbage, Erased}
      BY <1>3, <3>2 DEF Units
    <3>4. ~MagicValid'
      BY <3>3 DEF MagicValid, Garbage, Erased, Magic
    <3>5. QED
      BY <3>4 DEF NothingTorn
  <2>3. QED
    BY <1>4, <2>1, <2>2
<1>9. QED
  BY <1>6, <1>7, <1>8 DEF PersistInv

LEMMA NextPersist ==
    ASSUME EraseReaches, PersistInv, [Next]_vars
    PROVE  PersistInv'
<1>1. CASE DriverWrites
  BY <1>1, WriteDataPersist, WriteMagicPersist
<1>2. CASE WaitTimesOut
  BY <1>2, ErrorPersist DEF WaitTimesOut
<1>3. CASE UNCHANGED vars
  BY <1>3 DEF vars, PersistInv, TypeOK, Erasing, WritingData, WritingMagic, DriverDone, ErasedTo,
     NoMagic, Holds, MagicValid, Busy, NothingTorn, ToldIsQuiet, ToldIsStored
<1>4. QED
  BY <1>1, <1>2, <1>3, ErasesPersist, InitializePersist, ReadPersist, WritePersist, AfterErasePersist,
     AfterDataPersist, AfterMagicPersist, ResetPersist DEF Next

(***************************************************************************)
(* Whatever timeouts the driver outlives and wherever resets come, the     *)
(* area is in one of the states of a write that the invariant lists.       *)
(***************************************************************************)
THEOREM StorageInvariant == EraseReaches => (Spec => []PersistInv)
<1>1. ASSUME EraseReaches PROVE PersistInv /\ [Next]_vars => PersistInv'
  BY <1>1, NextPersist
<1>2. ASSUME EraseReaches PROVE Spec => []PersistInv
  BY <1>1, <1>2, InitPersist, PTL DEF Spec
<1>3. QED
  BY <1>2

(***************************************************************************)
(* A write that returned OK is what the area holds, and a read that        *)
(* returned OK returned the content as it was written.                     *)
(***************************************************************************)
THEOREM CallersAreToldTheTruth == EraseReaches => (Spec => []ToldIsStored)
<1>1. PersistInv => ToldIsStored
  BY DEF PersistInv
<1>2. ASSUME EraseReaches PROVE Spec => []ToldIsStored
  BY <1>1, <1>2, StorageInvariant, PTL
<1>3. QED
  BY <1>2

-----------------------------------------------------------------------------
(***************************************************************************)
(* The refinement.  Most steps lose the content, or find none and leave    *)
(* none: a step that ends with no content, while a write is going on,      *)
(* is Lose or End.                                                         *)
(***************************************************************************)
AbstractStep == [Register!Next]_<<content, writing>>

LEMMA WritingIsJob ==
    ASSUME PersistInv, pc # "idle" \/ Busy
    PROVE  writing = job /\ writing # NoContent /\ job \in Contents
<1>1. job \in Contents
  BY DEF PersistInv, TypeOK, Erasing, WritingData, WritingMagic, DriverDone, Busy
<1>2. QED
  BY <1>1, NoContentAssumption DEF writing

LEMMA LoseStep ==
    ASSUME PersistInv, Busy, UNCHANGED job, ~MagicValid'
    PROVE  AbstractStep
<1>1. writing = job /\ writing # NoContent
  BY WritingIsJob
<1>2. content' = NoContent /\ writing' \in {job, NoContent}
  BY DEF content, writing
<1>3. CASE writing' = job
  BY <1>1, <1>2, <1>3 DEF AbstractStep, Register!Next, Register!Lose
<1>4. CASE writing' = NoContent
  BY <1>1, <1>2, <1>4 DEF AbstractStep, Register!Next, Register!End
<1>5. QED
  BY <1>2, <1>3, <1>4

LEMMA SameContent == ASSUME UNCHANGED flash PROVE content' = content
BY DEF content, MagicValid, DataOf

\* A call that waited is over
LEMMA EndStep ==
    ASSUME PersistInv, pc # "idle" \/ Busy, pc' = "idle", ~Busy', content' \in {content, NoContent}
    PROVE  AbstractStep
<1>1. writing # NoContent
  BY WritingIsJob
<1>2. writing' = NoContent
  BY DEF writing
<1>3. QED
  BY <1>1, <1>2 DEF AbstractStep, Register!Next, Register!End

LEMMA StutterStep ==
    ASSUME UNCHANGED <<flash, job, pc>>, Busy' <=> Busy
    PROVE  AbstractStep
<1>1. content' = content /\ writing' = writing
  BY SameContent DEF writing
<1>2. QED
  BY <1>1 DEF AbstractStep

LEMMA ErasesStep == PersistInv /\ DriverErases => AbstractStep
<1> SUFFICES ASSUME PersistInv, DriverErases PROVE AbstractStep
  OBVIOUS
<1>1. Busy /\ UNCHANGED job /\ op.next \in Nat /\ ErasedTo(op.next)
  BY DEF DriverErases, Busy, PersistInv, Erasing, TypeOK
<1>2. flash'[0] = Erased
  <2>1. CASE op.next = 0
    BY <2>1, SectorZero DEF DriverErases
  <2>2. CASE op.next # 0
    <3>1. flash[0] = Erased
      BY <1>1, <2>2, SectorZero DEF ErasedTo, Sector
    <3>2. QED
      BY <3>1, SectorZero DEF DriverErases
  <2>3. QED
    BY <2>1, <2>2
<1>3. ~MagicValid'
  BY <1>2 DEF MagicValid, Magic, Erased
<1>4. QED
  BY <1>1, <1>3, LoseStep

LEMMA WritesStep == PersistInv /\ DriverWrites /\ PersistInv' => AbstractStep
<1> SUFFICES ASSUME PersistInv, DriverWrites, PersistInv' PROVE AbstractStep
  OBVIOUS
<1>1. Busy /\ UNCHANGED <<job, pc>> /\ op.kind = "write"
  BY DEF DriverWrites, Busy
<1>2. CASE ~MagicValid'
  BY <1>1, <1>2, LoseStep
<1>3. CASE MagicValid'
  <2>1. writing = job /\ writing # NoContent /\ job \in Contents
    BY <1>1, WritingIsJob
  <2>2. content' = DataOf' /\ writing' \in {writing, NoContent}
    BY <1>1, <1>3, <2>1 DEF content, writing
  <2>3. DataOf' \in [1 .. m_usable_memory_size -> Cells]
    <3>1. flash' \in [Units -> Cells]
      BY DEF PersistInv, TypeOK
    <3>2. \A i \in 1 .. m_usable_memory_size : MagicSize + i - 1 \in Units
      BY DEF m_usable_memory_size, Units
    <3>3. QED
      BY <3>1, <3>2 DEF DataOf
  <2>4. op.v = Magic
    <3>1. ASSUME op.v # Magic PROVE FALSE
      <4>1. MagicSize <= op.next /\ flash[0] = Erased /\ op.next \in Nat
        BY <1>1, <3>1 DEF PersistInv, TypeOK, WritingData, NoMagic
      <4>2. flash'[0] = Erased
        BY <4>1, SectorZero DEF DriverWrites, PersistInv, TypeOK
      <4>3. QED
        BY <1>3, <4>2 DEF MagicValid, Magic, Erased
    <3>2. QED
      BY <3>1
  <2>5. Holds(job)
    BY <1>1, <2>4 DEF PersistInv, WritingMagic
  <2>6. \A i \in 1 .. job.len : DataOf'[i] = job.v
    <3> SUFFICES ASSUME NEW i \in 1 .. job.len PROVE DataOf'[i] = job.v
      OBVIOUS
    <3>1. job.len \in Nat /\ job.len <= m_usable_memory_size /\ MagicSize + job.len <= AreaSize
      BY <2>1, ContentSizes
    <3>2. op.next < MagicSize /\ op.next \in Nat
      BY <1>1, <2>4 DEF PersistInv, TypeOK, WritingMagic
    <3>3. /\ i \in 1 .. m_usable_memory_size /\ MagicSize + i - 1 \in Units
          /\ MagicSize + i - 1 # op.next
      BY <3>1, <3>2 DEF Units, m_usable_memory_size
    <3>4. DataOf'[i] = flash'[MagicSize + i - 1]
      BY <3>3 DEF DataOf
    <3>5. flash'[MagicSize + i - 1] = flash[MagicSize + i - 1]
      BY <3>3 DEF DriverWrites, PersistInv, TypeOK
    <3>6. QED
      BY <2>5, <3>4, <3>5 DEF Holds
  <2>7. Register!Commit
    BY <2>1, <2>2, <2>3, <2>6 DEF Register!Commit, Register!Stores
  <2>8. QED
    BY <2>7 DEF AbstractStep, Register!Next
<1>4. QED
  BY <1>2, <1>3

LEMMA WriteStep ==
    ASSUME PersistInv, NEW v \in Values, NEW len \in Lens, App_Persistent_write(v, len)
    PROVE  AbstractStep
<1>1. pc = "idle" /\ UNCHANGED flash
  BY DEF App_Persistent_write
<1>2. CASE UNCHANGED <<op, job, writes>> /\ \E code : Returns("write", code)
  <2>1. pc' = pc /\ Busy' = Busy
    BY <1>1, <1>2 DEF Returns, Busy
  <2>2. QED
    BY <1>1, <1>2, <2>1, StutterStep
<1>3. CASE /\ ~(len > m_usable_memory_size) /\ ~Busy
           /\ job' = [v |-> v, len |-> len] /\ pc' = "erase"
  <2>1. job' \in Contents
    BY <1>3 DEF Contents, m_usable_memory_size
  <2>2. writing = NoContent /\ writing' = job' /\ content' = content
    BY <1>1, <1>3, SameContent DEF writing
  <2>3. QED
    BY <2>1, <2>2 DEF AbstractStep, Register!Next, Register!Start
<1>4. QED
  BY <1>2, <1>3 DEF App_Persistent_write

\* The steps after a wait: the write goes on, or it is over
LEMMA AfterStep ==
    ASSUME PersistInv, AfterErase \/ AfterData \/ AfterMagic
    PROVE  AbstractStep
<1>1. pc # "idle" /\ ~Busy /\ UNCHANGED <<flash, job>> /\ content' = content
  BY SameContent DEF AfterErase, AfterData, AfterMagic
<1>2. CASE pc' = "idle" /\ UNCHANGED op
  BY <1>1, <1>2, EndStep DEF Busy
<1>3. CASE pc' # "idle"
  <2>1. writing' = writing
    BY <1>1, <1>3 DEF writing
  <2>2. QED
    BY <1>1, <2>1 DEF AbstractStep
<1>4. QED
  BY <1>2, <1>3 DEF AfterErase, AfterData, AfterMagic, Returns

LEMMA ResetStep == PersistInv /\ Reset => AbstractStep
<1> SUFFICES ASSUME PersistInv, Reset PROVE AbstractStep
  OBVIOUS
<1>1. pc' = "idle" /\ op' = NoOp /\ UNCHANGED job /\ ~Busy'
  BY DEF Reset, Busy, NoOp
<1>2. PICK cut \in BOOLEAN :
         flash' = [u \in Units |-> IF u \in IF cut THEN BeingProgrammed ELSE {}
                                   THEN Garbage ELSE flash[u]]
  BY DEF Reset
<1> DEFINE hit == IF cut THEN BeingProgrammed ELSE {}
<1>3. flash' = [u \in Units |-> IF u \in hit THEN Garbage ELSE flash[u]]
  BY <1>2
<1>4. hit = {} \/ (Busy /\ hit = BeingProgrammed)
  BY DEF BeingProgrammed, Busy
<1> HIDE DEF hit
<1>5. CASE hit = {}
  <2>1. UNCHANGED flash
    BY <1>3, <1>5 DEF PersistInv, TypeOK
  <2>2. CASE pc # "idle" \/ Busy
    BY <1>1, <2>1, <2>2, SameContent, EndStep
  <2>3. CASE ~(pc # "idle" \/ Busy)
    BY <1>1, <2>1, <2>3, StutterStep DEF PersistInv, TypeOK
  <2>4. QED
    BY <2>2, <2>3
<1>6. CASE Busy /\ hit = BeingProgrammed
  <2>1. CutIsInvalid(hit)
    BY <1>6, CutInvalid
  <2>2. PICK u \in 0 .. MagicSize - 1 : u \in hit \/ flash[u] = Erased
    BY <2>1 DEF CutIsInvalid
  <2>3. flash'[u] \in {Garbage, Erased}
    BY <1>3, <2>2 DEF Units
  <2>4. ~MagicValid'
    BY <2>3 DEF MagicValid, Garbage, Erased, Magic
  <2>5. QED
    BY <1>1, <1>6, <2>4, LoseStep
<1>7. QED
  BY <1>4, <1>5, <1>6

(***************************************************************************)
(* The area is a register that gets each new content whole, in one step,   *)
(* and loses at most the old one before, wherever the driver and the       *)
(* library are when a reset comes.                                         *)
(***************************************************************************)
THEOREM StorageIsRegister == EraseReaches => (Spec => ImplementsRegister)
<1>1. Init => Register!Init
  <2> SUFFICES ASSUME Init PROVE Register!Init
    OBVIOUS
  <2>1. flash[0] = Erased /\ ~Busy /\ pc = "idle"
    BY SectorZero DEF Init, Busy, NoOp
  <2>2. ~MagicValid
    BY <2>1 DEF MagicValid, Magic, Erased
  <2>3. QED
    BY <2>1, <2>2 DEF Register!Init, content, writing
<1>2. PersistInv /\ PersistInv' /\ [Next]_vars => AbstractStep
  <2> SUFFICES ASSUME PersistInv, PersistInv', [Next]_vars PROVE AbstractStep
    OBVIOUS
  <2>1. CASE App_Persistent_init
    BY <2>1, StutterStep DEF App_Persistent_init, Busy
  <2>2. ASSUME NEW len \in Lens, App_Persistent_read(len) PROVE AbstractStep
    <3>1. UNCHANGED <<flash, job, op, pc>>
      BY <2>2 DEF App_Persistent_read, Returns
    <3>2. QED
      BY <3>1, StutterStep DEF Busy
  <2>3. CASE WaitTimesOut
    <3>1. Busy' /\ Busy /\ UNCHANGED <<flash, job>>
      BY <2>3 DEF WaitTimesOut, Busy
    <3>2. content' = content /\ writing' = writing
      BY <3>1, SameContent DEF writing
    <3>3. QED
      BY <3>2 DEF AbstractStep
  <2>4. CASE UNCHANGED vars
    BY <2>4, StutterStep DEF vars, Busy
  <2>5. QED
    BY <2>1, <2>2, <2>3, <2>4, ErasesStep, WritesStep, WriteStep, AfterStep, ResetStep DEF Next
<1>3. ASSUME EraseReaches PROVE Spec => ImplementsRegister
  BY <1>1, <1>2, <1>3, StorageInvariant, PTL DEF Spec, ImplementsRegister, Register!Spec, AbstractStep
<1>4. QED
  BY <1>3
====================================================================================
