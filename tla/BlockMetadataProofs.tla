------------------------ MODULE BlockMetadataProofs ------------------------
(***************************************************************************)
(* Proofs about BlockMetadata, for any number of epochs, of slots in them,  *)
(* of identities and of redundant nodes, every leader schedule, row limit   *)
(* and look-back: no block is written off while a node knows it, counts     *)
(* never shrink, and a record that is not looked at again is exact.         *)
(***************************************************************************)
EXTENDS BlockMetadata, WellOrder

RowStates == {"absent", "Created", "Done", "BlockDNE"}
Rows == [state : RowStates, mapped : BOOLEAN]
Entry == [blocks : SUBSET AllSlots, leader_slots : SUBSET AllSlots, at : Int]

There(s) == db[s].state # "absent"
Done(s) == db[s].state = "Done"

\* What the proofs need of the types, and where the operation has got to.
Typed ==
  /\ produced \in SUBSET AllSlots /\ finalized \in AllSlots
  /\ records \in [Identities -> [AllEpochs -> Entry]]
  /\ db \in [AllSlots -> Rows]
  /\ pc \in {"idle", "start", "schedule", "blocks", "submit"}
  /\ st.epoch \in AllEpochs /\ st.newest \in AllSlots
  /\ fin \in Nat /\ faults \in Nat /\ crashed \in BOOLEAN
  /\ pc = "schedule" => todo \in SUBSET EpochRange
  /\ pc \in {"blocks", "submit"} => todo = {}

\* The epoch that the next insertions count back from.
Base == IF pc = "idle" THEN Clock ELSE st.epoch

\* Rows of the table, whatever fails: what is done has a block, only rows that are
\* there are mapped, and no row is ahead of the operation.
RowsSound ==
  /\ \A s \in AllSlots : Done(s) => s \in produced
  /\ \A s \in AllSlots : db[s].mapped => There(s)
  /\ \A s \in AllSlots : There(s) => EpochOf(s) <= Base
  /\ Base <= Clock

\* What a record counts is in the table, done and mapped: it will be counted again.
CountedInTable ==
  \A i \in Identities, e \in AllEpochs : \A s \in records[i][e].blocks :
    s \in SlotsOf(e) /\ Leader[s] = i /\ Done(s) /\ db[s].mapped

Clean == faults = 0 /\ ~crashed
Whole(e) == \A s \in SlotsOf(e) : There(s)

\* Without faults an epoch is inserted as a whole, and mapped leader by leader.
EpochsWhole ==
  /\ \A e \in AllEpochs : (\E s \in SlotsOf(e) : There(s)) => Whole(e)
  /\ \A s, t \in AllSlots :
       EpochOf(s) = EpochOf(t) /\ Leader[s] = Leader[t] => db[s].mapped = db[t].mapped
  /\ pc \in {"schedule", "blocks", "submit"} =>
       \A e \in AllEpochs : e \in EpochRange /\ e \notin todo => Whole(e)

\* Rows are filled in order: behind a row that is done no epoch is still to be
\* inserted, and no block still to be fetched.
FilledInOrder ==
  /\ \A s \in AllSlots, e \in AllEpochs :
       Done(s) /\ Base - Lookback <= e /\ e <= EpochOf(s) => Whole(e)
  /\ \A s \in AllSlots, t \in produced :
       Done(s) /\ t < s /\ There(t) => Done(t)

Exact(i, e) ==
  /\ records[i][e].blocks = SlotsLedBy(i, e) \cap produced
  /\ records[i][e].leader_slots = SlotsLedBy(i, e)

TableInv == Typed /\ RowsSound /\ CountedInTable /\ NoBlockWrittenOff
CleanInv ==
  Clean => EpochsWhole /\ FilledInOrder
           /\ \A i \in Identities, e \in AllEpochs : Final(i, e) => Exact(i, e)
-----------------------------------------------------------------------------
(* Slots and epochs. *)

\* Division by the length of an epoch.
LEMMA EpochOfSlot ==
  ASSUME NEW n \in Nat \ {0}, NEW s \in Nat
  PROVE  /\ s \div n \in Nat
         /\ (s \div n) * n <= s
         /\ s < (s \div n + 1) * n
OBVIOUS

\* A larger multiple has a larger factor.
LEMMA FactorOrder ==
  ASSUME NEW n \in Nat \ {0}, NEW x \in Nat, NEW y \in Nat, x * n < y * n
  PROVE  x < y
<1> SUFFICES ASSUME y <= x PROVE FALSE
  OBVIOUS
<1>1. x - y \in Nat /\ x * n = y * n + (x - y) * n
  OBVIOUS
<1>2. (x - y) * n \in Nat
  BY <1>1
<1> QED BY <1>1, <1>2

\* A larger factor gives at least one more n.
LEMMA FactorStep ==
  ASSUME NEW n \in Nat \ {0}, NEW x \in Nat, NEW y \in Nat, x < y
  PROVE  x * n + n <= y * n
<1>1. y - x - 1 \in Nat /\ y * n = x * n + n + (y - x - 1) * n
  OBVIOUS
<1>2. (y - x - 1) * n \in Nat
  BY <1>1
<1> QED BY <1>1, <1>2

\* The slots of an epoch are the ones EpochOf gives it.
LEMMA SlotFacts ==
  /\ \A e \in Nat : FirstSlot(e) \in Nat /\ FirstSlot(e + 1) = FirstSlot(e) + SlotsPerEpoch
  /\ \A s \in AllSlots : s \in Nat /\ EpochOf(s) \in AllEpochs /\ s \in SlotsOf(EpochOf(s))
  /\ \A e \in AllEpochs : \A s \in SlotsOf(e) : s \in AllSlots /\ EpochOf(s) = e
<1> DEFINE n == SlotsPerEpoch
<1>0. n \in Nat \ {0} /\ MaxEpoch \in Nat
  BY BlockMetadataAssumption
<1> HIDE DEF n
<1>1. \A e \in Nat : FirstSlot(e) \in Nat /\ FirstSlot(e + 1) = FirstSlot(e) + SlotsPerEpoch
  BY <1>0 DEF FirstSlot, n
<1>2. ASSUME NEW s \in AllSlots
      PROVE  s \in Nat /\ EpochOf(s) \in AllEpochs /\ s \in SlotsOf(EpochOf(s))
  <2>1. s \in Nat /\ s < (MaxEpoch + 1) * n
    BY <1>0 DEF AllSlots, n
  <2>2. /\ EpochOf(s) \in Nat /\ EpochOf(s) * n <= s /\ s < (EpochOf(s) + 1) * n
    BY <1>0, <2>1, EpochOfSlot DEF EpochOf, n
  <2>3. EpochOf(s) * n < (MaxEpoch + 1) * n
    BY <1>0, <2>1, <2>2
  <2>4. EpochOf(s) < MaxEpoch + 1
    BY <1>0, <2>2, <2>3, FactorOrder
  <2> QED BY <1>0, <1>1, <2>1, <2>2, <2>4 DEF AllEpochs, SlotsOf, FirstSlot, n
<1>3. ASSUME NEW e \in AllEpochs, NEW s \in SlotsOf(e)
      PROVE  s \in AllSlots /\ EpochOf(s) = e
  <2>1. e \in Nat /\ e <= MaxEpoch
    BY <1>0 DEF AllEpochs
  <2>2. s \in Nat /\ e * n <= s /\ s < (e + 1) * n
    BY <2>1, <1>0, <1>1 DEF SlotsOf, FirstSlot, n
  <2>3. /\ EpochOf(s) \in Nat /\ EpochOf(s) * n <= s /\ s < (EpochOf(s) + 1) * n
    BY <1>0, <2>2, EpochOfSlot DEF EpochOf, n
  <2>4. EpochOf(s) < e + 1 /\ e < EpochOf(s) + 1
    BY <1>0, <2>1, <2>2, <2>3, FactorOrder
  <2>5. (e + 1) * n <= (MaxEpoch + 1) * n
    BY <2>1, <1>0, FactorStep
  <2> QED BY <1>0, <2>1, <2>2, <2>3, <2>4, <2>5 DEF AllSlots, n
<1> QED BY <1>1, <1>2, <1>3

\* Epochs follow the slots, and what is before the first slot of the next epoch is
\* before every slot from there on.
LEMMA EpochOrder ==
  ASSUME NEW s \in AllSlots, NEW t \in AllSlots, s <= t
  PROVE  EpochOf(s) <= EpochOf(t)
<1> DEFINE n == SlotsPerEpoch
<1>0. n \in Nat \ {0}
  BY BlockMetadataAssumption
<1>1. /\ EpochOf(s) \in Nat /\ EpochOf(t) \in Nat /\ s \in Nat /\ t \in Nat
  BY SlotFacts DEF AllEpochs
<1> HIDE DEF n
<1>2. EpochOf(s) * n <= s /\ t < (EpochOf(t) + 1) * n
  BY <1>0, <1>1, EpochOfSlot DEF EpochOf, n
<1>3. EpochOf(s) * n < (EpochOf(t) + 1) * n
  BY <1>0, <1>1, <1>2
<1>4. EpochOf(s) < EpochOf(t) + 1
  BY <1>0, <1>1, <1>3, FactorOrder
<1> QED BY <1>1, <1>4

\* The clock is an epoch.
LEMMA ClockTyped == Typed => Clock \in AllEpochs /\ Base \in AllEpochs
BY SlotFacts DEF Typed, Clock, Base

\* Epochs are integers, and so are the numbers the operation counts with.
LEMMA EpochsAreNumbers ==
  /\ AllEpochs \subseteq Nat /\ Lookback \in Nat /\ Redundant \in Nat /\ BlockLimit \in Nat
  /\ 0 \in AllEpochs /\ 0 \in AllSlots /\ FirstEpoch \in AllEpochs
  /\ FirstSlot(FirstEpoch) \in AllSlots
<1>1. /\ AllEpochs \subseteq Nat /\ Lookback \in Nat /\ Redundant \in Nat /\ BlockLimit \in Nat
      /\ 0 \in AllEpochs /\ FirstEpoch \in AllEpochs
  BY BlockMetadataAssumption DEF AllEpochs
<1>2. \A e \in AllEpochs : FirstSlot(e) \in SlotsOf(e)
  BY <1>1, SlotFacts, BlockMetadataAssumption DEF SlotsOf
<1>3. FirstSlot(0) = 0
  BY BlockMetadataAssumption DEF FirstSlot
<1> QED BY <1>1, <1>2, <1>3, SlotFacts

\* Looking back from a later epoch does not reach further.
LEMMA BackFrom ==
  ASSUME NEW a \in Nat, NEW b \in Nat, NEW l \in Nat, NEW e \in Nat, a <= b, b - l <= e
  PROVE  a - l <= e
OBVIOUS
-----------------------------------------------------------------------------
(* Initial states. *)

\* An empty table and records that are not set.
LEMMA InitInv == Init => TableInv /\ CleanInv
<1> SUFFICES ASSUME Init PROVE TableInv /\ CleanInv
  OBVIOUS
<1>1. /\ db = [s \in AllSlots |-> [state |-> "absent", mapped |-> FALSE]]
      /\ records = [i \in Identities |-> [e \in AllEpochs |-> Unset]]
      /\ pc = "idle" /\ st = NoState /\ finalized = FirstSlot(FirstEpoch)
      /\ produced \in ProducedChoices
      /\ fin = 0 /\ todo = {} /\ faults = 0 /\ crashed = FALSE
  BY DEF Init
<1>2. Typed
  <2>1. Unset \in Entry
    BY DEF Unset, Entry
  <2>2. records \in [Identities -> [AllEpochs -> Entry]]
    BY <1>1, <2>1
  <2>3. db \in [AllSlots -> Rows]
    BY <1>1 DEF Rows, RowStates
  <2>4. st.epoch = 0 /\ st.newest = 0
    BY <1>1 DEF NoState
  <2>5. produced \in SUBSET AllSlots
    BY <1>1, BlockMetadataAssumption
  <2> QED BY <1>1, <2>2, <2>3, <2>4, <2>5, EpochsAreNumbers DEF Typed
<1>3. \A s \in AllSlots : ~There(s) /\ ~Done(s) /\ ~db[s].mapped
  BY <1>1 DEF There, Done
<1>4. Base = Clock /\ Clock \in Nat
  BY <1>1, <1>2, ClockTyped, EpochsAreNumbers DEF Base
<1>5. RowsSound
  BY <1>3, <1>4 DEF RowsSound
<1>6. CountedInTable
  BY <1>1 DEF CountedInTable, Unset
<1>7. NoBlockWrittenOff
  BY <1>1, <1>2 DEF NoBlockWrittenOff, Typed
<1>8. EpochsWhole
  <2>1. \A e \in AllEpochs : \A s \in SlotsOf(e) : ~There(s)
    BY <1>3, SlotFacts
  <2>2. \A s, t \in AllSlots : db[s].mapped = db[t].mapped
    BY <1>1
  <2> QED BY <2>1, <2>2, <1>1 DEF EpochsWhole
<1>9. FilledInOrder
  BY <1>3 DEF FilledInOrder
<1>10. \A i \in Identities, e \in AllEpochs : ~Final(i, e)
  BY <1>1, SlotFacts, EpochsAreNumbers DEF Final, Unset
<1> QED BY <1>2, <1>5, <1>6, <1>7, <1>8, <1>9, <1>10 DEF TableInv, CleanInv
-----------------------------------------------------------------------------
(* Steps that leave the table and the records alone. *)

\* The table's invariant only looks at how far the operation is.
LEMMA QuietTable ==
  ASSUME TableInv, Typed', UNCHANGED <<produced, records, db>>,
         Base <= Base', Base' <= Clock', faults <= faults'
  PROVE  TableInv'
<1>1. Typed /\ RowsSound /\ CountedInTable /\ NoBlockWrittenOff
  BY DEF TableInv
<1>2. Base \in Nat /\ Base' \in Nat /\ \A s \in AllSlots : EpochOf(s) \in Nat
  BY <1>1, ClockTyped, SlotFacts, EpochsAreNumbers DEF Typed, Base, Clock
<1>3. RowsSound'
  BY <1>1, <1>2 DEF RowsSound, There, Done
<1>4. CountedInTable'
  BY <1>1 DEF CountedInTable, Done
<1>5. NoBlockWrittenOff'
  BY <1>1, EpochsAreNumbers DEF NoBlockWrittenOff, Typed
<1> QED BY <1>3, <1>4, <1>5 DEF TableInv

\* Without faults the same, once the epochs that were looked at are whole.
LEMMA QuietClean ==
  ASSUME TableInv, CleanInv, Typed', UNCHANGED <<produced, records, db>>,
         Base <= Base', Clean' => Clean,
         Clean' /\ pc' \in {"schedule", "blocks", "submit"} =>
           \A e \in AllEpochs : e \in EpochRange' /\ e \notin todo' => Whole(e)
  PROVE  CleanInv'
<1> SUFFICES ASSUME Clean' 
             PROVE  /\ EpochsWhole' /\ FilledInOrder'
                    /\ \A i \in Identities, e \in AllEpochs : Final(i, e)' => Exact(i, e)'
  BY DEF CleanInv
<1>1. /\ EpochsWhole /\ FilledInOrder /\ Typed
      /\ \A i \in Identities, e \in AllEpochs : Final(i, e) => Exact(i, e)
  BY DEF CleanInv, TableInv
<1>2. Base \in Nat /\ Base' \in Nat /\ \A s \in AllSlots : EpochOf(s) \in Nat
  BY <1>1, ClockTyped, SlotFacts, EpochsAreNumbers DEF Typed, Base, Clock
<1>3. /\ \A s : There(s)' = There(s) /\ Done(s)' = Done(s)
      /\ \A e : Whole(e)' = Whole(e)
  BY DEF There, Done, Whole
<1>4. EpochsWhole'
  BY <1>1, <1>3 DEF EpochsWhole
<1>7. \A e \in AllEpochs : Base' - Lookback <= e => Base - Lookback <= e
  <2> SUFFICES ASSUME NEW e \in AllEpochs, Base' - Lookback <= e
               PROVE  Base - Lookback <= e
    OBVIOUS
  <2>1. e \in Nat /\ Lookback \in Nat
    BY EpochsAreNumbers
  <2> QED BY <1>2, <2>1, BackFrom
<1>5. FilledInOrder'
  BY <1>1, <1>3, <1>7 DEF FilledInOrder
<1>6. \A i \in Identities, e \in AllEpochs : Final(i, e)' => Exact(i, e)'
  BY <1>1 DEF Final, Exact
<1> QED BY <1>4, <1>5, <1>6

\* The operation starts from the epoch of the clock.
LEMMA FetchStep ==
  ASSUME TableInv, CleanInv, Fetch
  PROVE  TableInv' /\ CleanInv'
<1>0. Typed /\ RowsSound
  BY DEF TableInv
<1>1. /\ UNCHANGED <<produced, finalized, records, db, fin, todo, faults, crashed>>
      /\ pc = "idle" /\ pc' = "start" /\ st'.epoch = Clock /\ st'.newest = finalized
  BY DEF Fetch, chain
<1>2. Base' = Clock /\ Base = Clock /\ Clock' = Clock /\ Clock \in AllEpochs
  BY <1>0, <1>1, ClockTyped DEF Base, Clock
<1>3. Typed'
  BY <1>0, <1>1, <1>2 DEF Typed
<1>4. Base <= Base' /\ Base' <= Clock' /\ faults <= faults' /\ (Clean' => Clean)
  BY <1>0, <1>1, <1>2, EpochsAreNumbers DEF Typed, Clean
<1> QED BY <1>1, <1>3, <1>4, QuietTable, QuietClean

\* No epoch has been looked at yet.
LEMMA StartStep ==
  ASSUME TableInv, CleanInv, Start
  PROVE  TableInv' /\ CleanInv'
<1>0. Typed /\ RowsSound
  BY DEF TableInv
<1>1. /\ UNCHANGED <<produced, finalized, records, db, st, faults, crashed>>
      /\ pc = "start" /\ pc' = "schedule" /\ todo' = EpochRange /\ fin' = finalized
  BY DEF Start, chain
<1>2. /\ Base' = Base /\ Clock' = Clock /\ EpochRange' = EpochRange
      /\ Base \in Nat /\ finalized \in Nat
  BY <1>0, <1>1, ClockTyped, EpochsAreNumbers, SlotFacts DEF Base, Clock, EpochRange, Typed
<1>3. Typed'
  BY <1>0, <1>1, <1>2 DEF Typed
<1>4. Base <= Base' /\ Base' <= Clock' /\ faults <= faults' /\ (Clean' => Clean)
  BY <1>0, <1>1, <1>2 DEF RowsSound, Typed, Clean
<1> QED BY <1>1, <1>2, <1>3, <1>4, QuietTable, QuietClean

\* One row that is there stands for its whole epoch, as long as nothing failed.
LEMMA EpochKnownStep ==
  ASSUME TableInv, CleanInv, NEW e \in AllEpochs, EpochKnown(e)
  PROVE  TableInv' /\ CleanInv'
<1>0. Typed /\ RowsSound
  BY DEF TableInv
<1>1. /\ UNCHANGED <<produced, finalized, records, db, pc, st, fin, faults, crashed>>
      /\ pc = "schedule" /\ todo' = todo \ {e}
      /\ \E s \in SlotsOf(e) : There(s)
  BY DEF EpochKnown, chain, There
<1>2. Base' = Base /\ Clock' = Clock /\ EpochRange' = EpochRange /\ Base \in Nat
  BY <1>0, <1>1, ClockTyped, EpochsAreNumbers DEF Base, Clock, EpochRange
<1>3. Typed'
  BY <1>0, <1>1, <1>2 DEF Typed
<1>4. Base <= Base' /\ Base' <= Clock' /\ faults <= faults' /\ (Clean' => Clean)
  BY <1>0, <1>1, <1>2 DEF RowsSound, Typed, Clean
<1>5. Clean => \A d \in AllEpochs : d \in EpochRange' /\ d \notin todo' => Whole(d)
  <2> SUFFICES ASSUME Clean, NEW d \in AllEpochs, d \in EpochRange', d \notin todo'
               PROVE  Whole(d)
    OBVIOUS
  <2>1. EpochsWhole
    BY DEF CleanInv
  <2>2. CASE d = e
    BY <2>1, <2>2, <1>1 DEF EpochsWhole
  <2>3. CASE d # e
    BY <2>1, <2>3, <1>1, <1>2 DEF EpochsWhole
  <2> QED BY <2>2, <2>3
<1> QED BY <1>1, <1>3, <1>4, <1>5, QuietTable, QuietClean

\* Slots pass, identities and entries appear, or nothing happens.
LEMMA WorldStep ==
  ASSUME TableInv, CleanInv,
         \/ NextSlot \/ UNCHANGED vars
         \/ \E i \in Identities : Appear(i) \/ \E e \in AllEpochs : NewEntry(i, e)
  PROVE  TableInv' /\ CleanInv'
<1>0. Typed /\ RowsSound
  BY DEF TableInv
<1>1. UNCHANGED <<produced, records, db, pc, st, fin, todo, faults, crashed>>
  BY DEF NextSlot, Appear, NewEntry, vars, chain
<1>2. finalized' \in AllSlots /\ finalized <= finalized'
  <2>1. finalized \in Nat
    BY <1>0, SlotFacts DEF Typed
  <2>2. \/ finalized + 1 \in AllSlots /\ finalized' = finalized + 1
        \/ finalized' = finalized
    BY DEF NextSlot, Appear, NewEntry, vars, chain
  <2> QED BY <1>0, <2>1, <2>2 DEF Typed
<1>3. EpochRange' = EpochRange
  BY <1>1 DEF EpochRange
<1>4. Typed'
  BY <1>0, <1>1, <1>2, <1>3 DEF Typed
<1>5. Clock <= Clock' /\ Clock \in Nat /\ Clock' \in Nat /\ Base \in Nat
  BY <1>0, <1>2, <1>4, EpochOrder, ClockTyped, EpochsAreNumbers, SlotFacts
     DEF Clock, Typed
<1>6. Base <= Base' /\ Base' <= Clock' /\ faults <= faults' /\ (Clean' => Clean)
  <2>1. Base' = IF pc = "idle" THEN Clock' ELSE Base
    BY <1>1 DEF Base
  <2>2. Base <= Clock /\ (pc = "idle" => Base = Clock)
    BY <1>0 DEF RowsSound, Base
  <2> QED BY <1>0, <1>1, <1>5, <2>1, <2>2 DEF Typed, Clean
<1>7. Clean' /\ pc' \in {"schedule", "blocks", "submit"} =>
        \A e \in AllEpochs : e \in EpochRange' /\ e \notin todo' => Whole(e)
  BY <1>1, <1>3, <1>6 DEF CleanInv, EpochsWhole
<1> QED BY <1>1, <1>4, <1>6, <1>7, QuietTable, QuietClean
-----------------------------------------------------------------------------
(* Steps that write to the table. *)

\* The parts of the table's invariant that a growing table keeps.
LEMMA RowsKept ==
  ASSUME TableInv, Typed', UNCHANGED <<produced, records>>,
         \A s \in AllSlots : Done(s) => Done(s)',
         \A s \in AllSlots : db[s].mapped => db'[s].mapped
  PROVE  CountedInTable'
<1>1. Typed /\ CountedInTable
  BY DEF TableInv
<1> SUFFICES ASSUME NEW i \in Identities, NEW e \in AllEpochs, NEW s \in records[i][e].blocks
             PROVE  s \in SlotsOf(e) /\ Leader[s] = i /\ Done(s)' /\ db'[s].mapped
  BY DEF CountedInTable
<1>2. s \in SlotsOf(e) /\ Leader[s] = i /\ Done(s) /\ db[s].mapped
  BY <1>1 DEF CountedInTable
<1>3. s \in AllSlots
  BY <1>2, SlotFacts
<1> QED BY <1>2, <1>3

\* insert_leader_schedule touches only what is not there.
LEMMA InsertedRows ==
  ASSUME Typed, NEW S, InsertSlots(S)
  PROVE  /\ db' \in [AllSlots -> Rows]
         /\ \A s \in AllSlots : There(s) \/ s \notin S => db'[s] = db[s]
         /\ \A s \in AllSlots : ~There(s) /\ s \in S =>
              db'[s] = [state |-> "Created", mapped |-> FALSE]
<1>1. [state |-> "Created", mapped |-> FALSE] \in Rows
  BY DEF Rows, RowStates
<1> QED BY <1>1 DEF Typed, InsertSlots, There

\* New rows of an epoch up to the one the operation is in.
LEMMA InsertTable ==
  ASSUME TableInv, Typed', NEW e \in AllEpochs, NEW S \in SUBSET SlotsOf(e), InsertSlots(S),
         UNCHANGED <<produced, records>>, faults <= faults',
         e <= Base', Base <= Base', Base' <= Clock'
  PROVE  TableInv'
<1>1. Typed /\ RowsSound /\ NoBlockWrittenOff
  BY DEF TableInv
<1>2. /\ \A s \in AllSlots : There(s) \/ s \notin S => db'[s] = db[s]
      /\ \A s \in AllSlots : ~There(s) /\ s \in S =>
           db'[s] = [state |-> "Created", mapped |-> FALSE]
  BY <1>1, InsertedRows
<1>3. \A s \in AllSlots : Done(s)' <=> Done(s)
  BY <1>2 DEF Done, There
<1>4. \A s \in AllSlots : There(s)' <=> There(s) \/ s \in S
  BY <1>2 DEF There
<1>5. \A s \in AllSlots : db'[s].mapped = db[s].mapped \/ (~There(s) /\ ~db'[s].mapped)
  BY <1>2
<1>6. CountedInTable'
  <2>1. \A s \in AllSlots : db[s].mapped => db'[s].mapped
    BY <1>1, <1>5 DEF RowsSound
  <2> QED BY <1>3, <2>1, RowsKept
<1>7. RowsSound'
  <2>1. \A s \in AllSlots : EpochOf(s) \in Nat /\ (s \in S => EpochOf(s) = e)
    BY SlotFacts, EpochsAreNumbers
  <2>2. Base \in Nat /\ Base' \in Nat /\ e \in Nat
    BY <1>1, ClockTyped, SlotFacts, EpochsAreNumbers DEF Typed, Base, Clock
  <2>3. \A s \in AllSlots : There(s)' => EpochOf(s) <= Base'
    BY <1>1, <1>4, <2>1, <2>2 DEF RowsSound
  <2>4. \A s \in AllSlots : db'[s].mapped => There(s)'
    BY <1>1, <1>4, <1>5 DEF RowsSound
  <2>5. \A s \in AllSlots : Done(s)' => s \in produced'
    BY <1>1, <1>3 DEF RowsSound
  <2> QED BY <2>3, <2>4, <2>5 DEF RowsSound
<1>8. NoBlockWrittenOff'
  <2>1. \A s \in AllSlots : db'[s].state = "BlockDNE" => db[s].state = "BlockDNE"
    BY <1>2
  <2> QED BY <1>1, <2>1, EpochsAreNumbers DEF NoBlockWrittenOff, Typed
<1> QED BY <1>6, <1>7, <1>8 DEF TableInv

\* A whole epoch is inserted: if any of its rows was missing, all were, and no row
\* after it was done.
LEMMA InsertClean ==
  ASSUME TableInv, CleanInv, Clean, NEW e \in todo, e \in AllEpochs, pc = "schedule",
         InsertSlots(SlotsOf(e)), todo' = todo \ {e},
         UNCHANGED <<produced, finalized, records, pc, st, faults, crashed>>
  PROVE  CleanInv'
<1>1. /\ Typed /\ RowsSound /\ EpochsWhole /\ FilledInOrder
      /\ \A i \in Identities, d \in AllEpochs : Final(i, d) => Exact(i, d)
  BY DEF TableInv, CleanInv
<1>2. /\ \A s \in AllSlots : There(s) \/ s \notin SlotsOf(e) => db'[s] = db[s]
      /\ \A s \in AllSlots : ~There(s) /\ s \in SlotsOf(e) =>
           db'[s] = [state |-> "Created", mapped |-> FALSE]
  BY <1>1, InsertedRows
<1>3. \A s \in AllSlots : (Done(s)' <=> Done(s)) /\ (There(s) => There(s)')
  BY <1>2 DEF Done, There
<1>4. \A d \in AllEpochs : Whole(d) => Whole(d)'
  BY <1>3, SlotFacts DEF Whole
<1>5. Whole(e)'
  BY <1>2, SlotFacts DEF Whole, There
<1>6. Base' = Base /\ EpochRange' = EpochRange /\ Base = st.epoch /\ e \in EpochRange
  BY <1>1 DEF Base, EpochRange, Clock, Typed
<1>7. EpochsWhole'
  <2>1. ASSUME NEW d \in AllEpochs, NEW s \in SlotsOf(d), There(s)'
        PROVE  Whole(d)'
    <3>1. s \in AllSlots /\ EpochOf(s) = d
      BY SlotFacts
    <3>2. CASE d = e
      BY <3>2, <1>5
    <3>3. CASE d # e
      <4>1. s \notin SlotsOf(e)
        BY <3>1, <3>3, SlotFacts
      <4>2. There(s)
        BY <4>1, <3>1, <1>2, <2>1 DEF There
      <4> QED BY <4>2, <1>1, <1>4 DEF EpochsWhole
    <3> QED BY <3>2, <3>3
  <2>2. ASSUME NEW s \in AllSlots, NEW t \in AllSlots,
               EpochOf(s) = EpochOf(t), Leader[s] = Leader[t]
        PROVE  db'[s].mapped = db'[t].mapped
    <3>1. s \in SlotsOf(EpochOf(s)) /\ t \in SlotsOf(EpochOf(s)) /\ EpochOf(s) \in AllEpochs
      BY <2>2, SlotFacts
    <3>2. There(s) <=> There(t)
      BY <3>1, <1>1 DEF EpochsWhole, Whole
    <3>3. s \in SlotsOf(e) <=> t \in SlotsOf(e)
      BY <3>1, <2>2, SlotFacts
    <3>4. db[s].mapped = db[t].mapped
      BY <1>1, <2>2 DEF EpochsWhole
    <3> QED BY <3>2, <3>3, <3>4, <1>2
  <2>3. ASSUME NEW d \in AllEpochs, d \in EpochRange', d \notin todo'
        PROVE  Whole(d)'
    BY <2>3, <1>1, <1>4, <1>5, <1>6 DEF EpochsWhole
  <2> QED BY <2>1, <2>2, <2>3 DEF EpochsWhole
<1>8. FilledInOrder'
  <2>1. ASSUME NEW s \in AllSlots, NEW d \in AllEpochs, Done(s)', Base' - Lookback <= d,
               d <= EpochOf(s)
        PROVE  Whole(d)'
    BY <2>1, <1>1, <1>3, <1>4, <1>6 DEF FilledInOrder
  <2>2. ASSUME NEW s \in AllSlots, NEW t \in produced', Done(s)', t < s, There(t)'
        PROVE  Done(t)'
    <3>1. t \in AllSlots /\ t \in produced /\ Done(s)
      BY <2>2, <1>1, <1>3 DEF Typed
    <3>2. CASE There(t)
      BY <3>1, <3>2, <2>2, <1>1, <1>3 DEF FilledInOrder
    <3>3. CASE ~There(t)
      <4>1. t \in SlotsOf(e) /\ EpochOf(t) = e
        BY <3>1, <3>3, <2>2, <1>2, SlotFacts DEF There
      <4>2. e <= EpochOf(s)
        BY <3>1, <4>1, <2>2, EpochOrder, SlotFacts
      <4>3. Base - Lookback <= e
        BY <1>1, <1>6, EpochsAreNumbers DEF EpochRange, Typed
      <4>4. Whole(e)
        BY <3>1, <4>2, <4>3, <1>1 DEF FilledInOrder
      <4> QED BY <4>1, <4>4, <3>3 DEF Whole
    <3> QED BY <3>2, <3>3
  <2> QED BY <2>1, <2>2 DEF FilledInOrder
<1>9. \A i \in Identities, d \in AllEpochs : Final(i, d)' => Exact(i, d)'
  BY <1>1 DEF Final, Exact
<1> QED BY <1>7, <1>8, <1>9 DEF CleanInv

\* The process is idle after a crash, and nothing is claimed of a clean run.
LEMMA Stopped ==
  ASSUME Typed, Stop, UNCHANGED finalized, db' \in [AllSlots -> Rows],
         records' \in [Identities -> [AllEpochs -> Entry]], UNCHANGED produced,
         faults' \in Nat, crashed' \in BOOLEAN
  PROVE  Typed' /\ Base' = Clock' /\ Clock' = Clock
<1>1. /\ pc' = "idle" /\ st'.epoch = 0 /\ st'.newest = 0 /\ todo' = {} /\ fin' = 0
  BY DEF Stop, NoState
<1>2. Typed'
  BY <1>1, EpochsAreNumbers DEF Typed
<1> QED BY <1>1, <1>2 DEF Base, Clock

\* get_leader_schedule and the insertion of its slots: all of them, none because the
\* schedule is not to be had, or those of some leaders before a crash.
LEMMA InsertStep ==
  ASSUME TableInv, CleanInv, NEW e \in AllEpochs, InsertLeaderSchedule(e)
  PROVE  TableInv' /\ CleanInv'
<1>0. /\ Typed /\ RowsSound /\ pc = "schedule" /\ e \in todo /\ e \in EpochRange
      /\ UNCHANGED <<produced, finalized, records>>
  BY DEF TableInv, InsertLeaderSchedule, Typed, chain
<1>1. Clock' = Clock /\ Base = st.epoch /\ Base \in Nat /\ Clock \in Nat /\ e \in Nat
  BY <1>0, ClockTyped, EpochsAreNumbers DEF Clock, Base
<1>2. e <= Base /\ Base <= Clock
  BY <1>0, <1>1, EpochsAreNumbers DEF EpochRange, RowsSound
<1>3. CASE /\ InsertSlots(SlotsOf(e)) /\ todo' = todo \ {e}
           /\ UNCHANGED <<pc, st, fin, faults, crashed>>
  <2>1. Base' = Base /\ EpochRange' = EpochRange
    BY <1>0, <1>1, <1>3 DEF Base, EpochRange
  <2>2. Typed'
    BY <1>0, <1>3, <2>1, InsertedRows DEF Typed
  <2>3. faults <= faults'
    BY <1>0, <1>3 DEF Typed
  <2>4. TableInv'
    BY <1>0, <1>1, <1>2, <1>3, <2>1, <2>2, <2>3, InsertTable
  <2>5. CleanInv'
    <3>1. CASE Clean
      BY <1>0, <1>3, <3>1, InsertClean
    <3>2. CASE ~Clean
      BY <1>3, <3>2 DEF CleanInv, Clean
    <3> QED BY <3>1, <3>2
  <2> QED BY <2>4, <2>5
<1>4. CASE /\ Fault(1) /\ todo' = todo \ {e}
           /\ UNCHANGED <<db, pc, st, fin, crashed>>
  <2>1. Base' = Base /\ EpochRange' = EpochRange
    BY <1>0, <1>1, <1>4 DEF Base, EpochRange
  <2>2. faults' = faults + 1 /\ faults \in Nat
    BY <1>0, <1>4 DEF Fault, Typed
  <2>3. Typed'
    BY <1>0, <1>4, <2>1, <2>2 DEF Typed
  <2>4. TableInv'
    BY <1>0, <1>1, <1>2, <1>4, <2>1, <2>2, <2>3, QuietTable
  <2>5. CleanInv'
    BY <2>2 DEF CleanInv, Clean
  <2> QED BY <2>4, <2>5
<1>5. CASE \E leaders \in SUBSET Identities :
             /\ InsertSlots({s \in SlotsOf(e) : Leader[s] \in leaders})
             /\ Crash
  <2>1. PICK leaders \in SUBSET Identities :
          InsertSlots({s \in SlotsOf(e) : Leader[s] \in leaders}) /\ Crash
    BY <1>5
  <2> DEFINE S == {s \in SlotsOf(e) : Leader[s] \in leaders}
  <2>2. crashed' = TRUE /\ faults' = faults /\ Stop /\ faults \in Nat
    BY <1>0, <2>1 DEF Crash, Typed
  <2>3. db' \in [AllSlots -> Rows]
    BY <1>0, <2>1, InsertedRows
  <2>4. Typed' /\ Base' = Clock' /\ Clock' = Clock
    BY <1>0, <2>2, <2>3, Stopped DEF Typed
  <2>5. S \in SUBSET SlotsOf(e) /\ InsertSlots(S)
    BY <2>1
  <2>6. faults <= faults' /\ e <= Base' /\ Base <= Base' /\ Base' <= Clock'
    BY <1>1, <1>2, <2>2, <2>4
  <2> HIDE DEF S
  <2>7. TableInv'
    BY <1>0, <2>4, <2>5, <2>6, InsertTable
  <2>8. CleanInv'
    BY <2>2 DEF CleanInv, Clean
  <2> QED BY <2>7, <2>8
<1> QED BY <1>3, <1>4, <1>5 DEF InsertLeaderSchedule

\* upsert_vote_identity_mapping maps all rows of a leader that are there.
LEMMA MapStep ==
  ASSUME TableInv, CleanInv, MapIdentities
  PROVE  TableInv' /\ CleanInv'
<1>0. /\ Typed /\ RowsSound /\ NoBlockWrittenOff /\ pc = "schedule" /\ todo = {} /\ pc' = "blocks"
      /\ UNCHANGED <<produced, finalized, records, st, fin, todo, faults, crashed>>
  BY DEF TableInv, MapIdentities, chain
<1>1. db' = [s \in AllSlots |-> IF db[s].state # "absent" /\ Leader[s] \in st.visible
                                THEN [db[s] EXCEPT !.mapped = TRUE] ELSE db[s]]
  BY DEF MapIdentities
<1>2. \A s \in AllSlots : /\ db'[s] \in Rows /\ db'[s].state = db[s].state
                          /\ db'[s].mapped <=> db[s].mapped \/ (There(s) /\ Leader[s] \in st.visible)
  <2> SUFFICES ASSUME NEW s \in AllSlots
               PROVE  /\ db'[s] \in Rows /\ db'[s].state = db[s].state
                      /\ db'[s].mapped <=> db[s].mapped \/ (There(s) /\ Leader[s] \in st.visible)
    OBVIOUS
  <2>1. db[s] \in Rows
    BY <1>0 DEF Typed
  <2>2. CASE There(s) /\ Leader[s] \in st.visible
    <3>1. db'[s] = [db[s] EXCEPT !.mapped = TRUE]
      BY <2>2, <1>1 DEF There
    <3> QED BY <3>1, <2>1, <2>2 DEF Rows
  <2>3. CASE ~(There(s) /\ Leader[s] \in st.visible)
    <3>1. db'[s] = db[s]
      BY <2>3, <1>1 DEF There
    <3> QED BY <3>1, <2>1, <2>3 DEF Rows
  <2> QED BY <2>2, <2>3
<1>3. \A s \in AllSlots : (There(s)' <=> There(s)) /\ (Done(s)' <=> Done(s))
  BY <1>2 DEF There, Done
<1>4. Base' = Base /\ Clock' = Clock /\ EpochRange' = EpochRange
  BY <1>0 DEF Base, Clock, EpochRange
<1>5. Typed'
  <2>1. db' \in [AllSlots -> Rows]
    BY <1>1, <1>2
  <2> QED BY <1>0, <1>4, <2>1 DEF Typed
<1>6. TableInv'
  <2>1. CountedInTable'
    BY <1>0, <1>2, <1>3, <1>5, RowsKept
  <2>2. RowsSound'
    BY <1>0, <1>2, <1>3, <1>4 DEF RowsSound
  <2>3. NoBlockWrittenOff'
    BY <1>0, <1>2 DEF NoBlockWrittenOff, Typed
  <2> QED BY <1>5, <2>1, <2>2, <2>3 DEF TableInv
<1>7. CleanInv'
  <2> SUFFICES ASSUME Clean'
               PROVE  /\ EpochsWhole' /\ FilledInOrder'
                      /\ \A i \in Identities, e \in AllEpochs : Final(i, e)' => Exact(i, e)'
    BY DEF CleanInv
  <2>1. /\ EpochsWhole /\ FilledInOrder
        /\ \A i \in Identities, e \in AllEpochs : Final(i, e) => Exact(i, e)
    BY <1>0 DEF CleanInv, Clean
  <2>2. \A e \in AllEpochs : Whole(e)' <=> Whole(e)
    BY <1>3, SlotFacts DEF Whole
  <2>3. EpochsWhole'
    <3>1. ASSUME NEW e \in AllEpochs, NEW s \in SlotsOf(e), There(s)'
          PROVE  Whole(e)'
      BY <3>1, <1>3, <2>1, <2>2, SlotFacts DEF EpochsWhole
    <3>2. ASSUME NEW s \in AllSlots, NEW t \in AllSlots,
                 EpochOf(s) = EpochOf(t), Leader[s] = Leader[t]
          PROVE  db'[s].mapped = db'[t].mapped
      <4>1. s \in SlotsOf(EpochOf(s)) /\ t \in SlotsOf(EpochOf(s)) /\ EpochOf(s) \in AllEpochs
        BY <3>2, SlotFacts
      <4>2. There(s) <=> There(t)
        BY <4>1, <2>1 DEF EpochsWhole, Whole
      <4>3. db[s].mapped = db[t].mapped
        BY <2>1, <3>2 DEF EpochsWhole
      <4>4. db'[s].mapped <=> db'[t].mapped
        BY <4>2, <4>3, <3>2, <1>2
      <4>5. db'[s].mapped \in BOOLEAN /\ db'[t].mapped \in BOOLEAN
        BY <1>2 DEF Rows
      <4> QED BY <4>4, <4>5
    <3>3. \A e \in AllEpochs : e \in EpochRange' /\ e \notin todo' => Whole(e)'
      BY <1>0, <1>4, <2>1, <2>2 DEF EpochsWhole
    <3> QED BY <3>1, <3>2, <3>3 DEF EpochsWhole
  <2>4. FilledInOrder'
    <3>1. produced' \in SUBSET AllSlots
      BY <1>5 DEF Typed
    <3> QED BY <3>1, <1>0, <1>3, <1>4, <2>1, <2>2 DEF FilledInOrder
  <2>5. \A i \in Identities, e \in AllEpochs : Final(i, e)' => Exact(i, e)'
    BY <1>0, <2>1 DEF Final, Exact
  <2> QED BY <2>3, <2>4, <2>5
<1> QED BY <1>6, <1>7

Answer(s, lies) == [db[s] EXCEPT !.state = GetBlockSafe(s, lies)]
Filled(S) == [s \in AllSlots |-> IF s \in S THEN Answer(s, 0) ELSE db[s]]

\* What get_block_safe makes of a row.
LEMMA Answers ==
  ASSUME Typed, NEW s \in AllSlots, NEW lies \in Nat
  PROVE  /\ Answer(s, lies) \in Rows /\ Answer(s, lies).mapped = db[s].mapped
         /\ Answer(s, lies).state # "absent"
         /\ Answer(s, lies).state = "Done" => s \in produced
         /\ s \in produced /\ lies <= Redundant => Answer(s, lies).state # "BlockDNE"
         /\ s \in produced => Answer(s, 0).state = "Done"
<1>1. db[s] \in Rows
  BY DEF Typed
<1>2. GetBlockSafe(s, lies) \in {"Done", "Created", "BlockDNE"}
  BY DEF GetBlockSafe
<1>3. \A l : Answer(s, l).state = GetBlockSafe(s, l) /\ Answer(s, l).mapped = db[s].mapped
  BY <1>1 DEF Answer, Rows
<1>4. Answer(s, lies) \in Rows
  BY <1>1, <1>2 DEF Answer, Rows, RowStates
<1>5. /\ GetBlockSafe(s, lies) = "Done" => s \in produced
      /\ s \in produced /\ lies <= Redundant => GetBlockSafe(s, lies) # "BlockDNE"
      /\ s \in produced => GetBlockSafe(s, 0) = "Done"
  BY EpochsAreNumbers DEF GetBlockSafe
<1> QED BY <1>2, <1>3, <1>4, <1>5

\* A row is filled from one answer or stays as it is; at most as many nodes were
\* wrong about it as faults have happened.
LEMMA UpdatedRows ==
  ASSUME Typed, UpdateBlocks
  PROVE  /\ db' \in [AllSlots -> Rows]
         /\ \A s \in AllSlots :
              \/ db'[s] = db[s]
              \/ /\ s \in SlotsNeedingBlocks
                 /\ \E lies \in Nat : lies <= faults' /\ db'[s] = Answer(s, lies)
         /\ faults' \in Nat /\ faults <= faults' /\ crashed' \in BOOLEAN
         /\ Clean' => Clean /\ db' = Filled(SlotsNeedingBlocks)
         /\ \/ pc' = "submit" /\ UNCHANGED <<st, fin, todo>>
            \/ Stop
<1> DEFINE need == SlotsNeedingBlocks
<1>0. faults \in Nat /\ crashed \in BOOLEAN /\ db \in [AllSlots -> Rows] /\ need \subseteq AllSlots
  BY DEF Typed, SlotsNeedingBlocks, Waiting
<1>1. ASSUME NEW S \in SUBSET need
      PROVE  /\ Filled(S) \in [AllSlots -> Rows]
             /\ \A s \in AllSlots : Filled(S)[s] = IF s \in S THEN Answer(s, 0) ELSE db[s]
  BY <1>0, Answers DEF Filled
<1>2. CASE /\ db' = Filled(need) /\ pc' = "submit"
           /\ UNCHANGED <<st, fin, todo, faults, crashed>>
  <2>1. Clean' => Clean
    BY <1>2 DEF Clean
  <2> QED BY <1>0, <1>1, <1>2, <2>1
<1>3. CASE \E bad \in need, lies \in 0 .. Redundant + 1 :
              /\ Fault(IF lies = 0 THEN 1 ELSE lies)
              /\ db' = IF lies = 0 THEN Filled(need \ {bad})
                       ELSE [Filled(need \ {bad}) EXCEPT ![bad] = Answer(bad, lies)]
              /\ pc' = "submit"
              /\ UNCHANGED <<st, fin, todo, crashed>>
  <2>1. PICK bad \in need, lies \in 0 .. Redundant + 1 :
              /\ Fault(IF lies = 0 THEN 1 ELSE lies)
              /\ db' = IF lies = 0 THEN Filled(need \ {bad})
                       ELSE [Filled(need \ {bad}) EXCEPT ![bad] = Answer(bad, lies)]
              /\ pc' = "submit"
              /\ UNCHANGED <<st, fin, todo, crashed>>
    BY <1>3
  <2>2. lies \in Nat
    BY EpochsAreNumbers
  <2>3. faults' \in Nat /\ faults' > faults /\ lies <= faults' /\ faults <= faults' /\ 0 <= faults'
    BY <2>1, <2>2, <1>0 DEF Fault
  <2>4. bad \in AllSlots /\ Answer(bad, lies) \in Rows
    BY <1>0, <2>2, Answers
  <2>5. need \ {bad} \in SUBSET need
    OBVIOUS
  <2>6. ~Clean'
    BY <2>3, <1>0 DEF Clean
  <2>7. CASE lies = 0
    BY <2>1, <2>3, <2>5, <2>6, <2>7, <1>0, <1>1
  <2>8. CASE lies # 0
    <3>1. db' = [Filled(need \ {bad}) EXCEPT ![bad] = Answer(bad, lies)]
      BY <2>1, <2>8
    <3>2. db' \in [AllSlots -> Rows]
      BY <3>1, <2>4, <2>5, <1>1
    <3>3. \A s \in AllSlots : db'[s] = IF s = bad THEN Answer(bad, lies) ELSE Filled(need \ {bad})[s]
      BY <3>1, <2>5, <1>1
    <3>4. \A s \in AllSlots : \/ db'[s] = db[s]
                              \/ s \in need /\ db'[s] = Answer(s, 0)
                              \/ s \in need /\ db'[s] = Answer(s, lies)
      BY <3>3, <2>5, <1>1
    <3> QED BY <2>1, <2>2, <2>3, <2>6, <3>2, <3>4, <1>0
  <2> QED BY <2>7, <2>8
<1>4. CASE \E S \in SUBSET need : db' = Filled(S) /\ Crash
  <2>1. PICK S \in SUBSET need : db' = Filled(S) /\ Crash
    BY <1>4
  <2>2. crashed' = TRUE /\ faults' = faults /\ Stop
    BY <2>1 DEF Crash
  <2>3. ~Clean'
    BY <2>2 DEF Clean
  <2> QED BY <2>1, <2>2, <2>3, <1>0, <1>1
<1> QED BY <1>2, <1>3, <1>4 DEF UpdateBlocks, Filled, Answer

\* The rows that wait are filled oldest first: with one that is in the limit all
\* earlier ones are.
LEMMA OldestFirst ==
  ASSUME NEW s \in SlotsNeedingBlocks, NEW t \in Waiting, t < s
  PROVE  t \in SlotsNeedingBlocks
<1> DEFINE Before(x) == {u \in Waiting : u < x}
<1>1. Waiting \subseteq AllSlots /\ s \in Waiting
  BY DEF Waiting, SlotsNeedingBlocks
<1>2. IsFiniteSet(AllSlots)
  BY EpochsAreNumbers, BlockMetadataAssumption, FS_Interval DEF AllSlots
<1>3. Before(s) \subseteq AllSlots /\ IsFiniteSet(Before(s))
  BY <1>1, <1>2, FS_Subset
<1>4. Before(t) \subseteq Before(s)
  BY <1>1, SlotFacts
<1>5. /\ Cardinality(Before(t)) <= Cardinality(Before(s))
      /\ Cardinality(Before(t)) \in Nat /\ Cardinality(Before(s)) \in Nat
  BY <1>3, <1>4, FS_Subset, FS_CardinalityType
<1>6. Cardinality(Before(s)) < BlockLimit
  BY DEF SlotsNeedingBlocks
<1>7. Cardinality(Before(t)) < BlockLimit
  BY <1>5, <1>6, EpochsAreNumbers
<1> QED BY <1>7 DEF SlotsNeedingBlocks

\* get_block_safe for every slot that needs one, whatever the nodes answer and
\* whenever the process dies.
LEMMA UpdateTable ==
  ASSUME TableInv, UpdateBlocks
  PROVE  TableInv' /\ Base <= Base'
<1>0. /\ Typed /\ RowsSound /\ NoBlockWrittenOff /\ pc = "blocks"
      /\ UNCHANGED <<produced, finalized, records>>
  BY DEF TableInv, UpdateBlocks, chain
<1>1. /\ db' \in [AllSlots -> Rows]
      /\ \A s \in AllSlots :
           \/ db'[s] = db[s]
           \/ /\ s \in SlotsNeedingBlocks
              /\ \E lies \in Nat : lies <= faults' /\ db'[s] = Answer(s, lies)
      /\ faults' \in Nat /\ faults <= faults' /\ crashed' \in BOOLEAN
      /\ \/ pc' = "submit" /\ UNCHANGED <<st, fin, todo>>
         \/ Stop
  BY <1>0, UpdatedRows
<1>2. \A s \in SlotsNeedingBlocks : s \in AllSlots /\ db[s].state = "Created"
  BY DEF SlotsNeedingBlocks, Waiting
<1>3. Typed' /\ Base <= Base' /\ Base' <= Clock'
  <2>1. Clock' = Clock /\ Clock \in Nat /\ Base \in Nat /\ Base <= Clock
    BY <1>0, ClockTyped, EpochsAreNumbers DEF Clock, RowsSound
  <2>2. CASE pc' = "submit" /\ UNCHANGED <<st, fin, todo>>
    <3>1. Base' = Base
      BY <1>0, <2>2 DEF Base
    <3>2. Typed'
      BY <1>0, <1>1, <2>2 DEF Typed
    <3> QED BY <2>1, <3>1, <3>2
  <2>3. CASE Stop
    <3>1. records' \in [Identities -> [AllEpochs -> Entry]]
      BY <1>0 DEF Typed
    <3>2. Typed' /\ Base' = Clock'
      BY <1>0, <1>1, <2>3, <3>1, Stopped
    <3> QED BY <2>1, <3>2
  <2> QED BY <1>1, <2>2, <2>3
<1>4. \A s \in AllSlots :
        /\ There(s)' <=> There(s)
        /\ db'[s].mapped = db[s].mapped
        /\ Done(s) => Done(s)'
        /\ Done(s)' => s \in produced
  <2> SUFFICES ASSUME NEW s \in AllSlots
               PROVE  /\ There(s)' <=> There(s)
                      /\ db'[s].mapped = db[s].mapped
                      /\ Done(s) => Done(s)'
                      /\ Done(s)' => s \in produced
    OBVIOUS
  <2>1. CASE db'[s] = db[s]
    BY <2>1, <1>0 DEF There, Done, RowsSound
  <2>2. CASE /\ s \in SlotsNeedingBlocks
             /\ \E lies \in Nat : lies <= faults' /\ db'[s] = Answer(s, lies)
    BY <2>2, <1>0, <1>2, Answers DEF There, Done
  <2> QED BY <2>1, <2>2, <1>1
<1>5. CountedInTable'
  BY <1>0, <1>3, <1>4, RowsKept
<1>6. RowsSound'
  <2>1. Base \in Nat /\ Base' \in Nat /\ \A s \in AllSlots : EpochOf(s) \in Nat
    BY <1>0, <1>3, ClockTyped, SlotFacts, EpochsAreNumbers DEF Typed, Base, Clock
  <2>2. \A s \in AllSlots : There(s)' => EpochOf(s) <= Base'
    BY <1>0, <1>3, <1>4, <2>1 DEF RowsSound
  <2>3. \A s \in AllSlots : db'[s].mapped => There(s)'
    BY <1>0, <1>4 DEF RowsSound
  <2> QED BY <1>0, <1>3, <1>4, <2>2, <2>3 DEF RowsSound
<1>7. NoBlockWrittenOff'
  <2> SUFFICES ASSUME faults' <= Redundant, NEW s \in produced
               PROVE  db'[s].state # "BlockDNE"
    BY <1>0 DEF NoBlockWrittenOff
  <2>1. s \in AllSlots /\ faults \in Nat
    BY <1>0 DEF Typed
  <2>2. CASE db'[s] = db[s]
    BY <1>0, <1>1, <2>1, <2>2, EpochsAreNumbers DEF NoBlockWrittenOff
  <2>3. CASE \E lies \in Nat : lies <= faults' /\ db'[s] = Answer(s, lies)
    <3>1. PICK lies \in Nat : lies <= faults' /\ db'[s] = Answer(s, lies)
      BY <2>3
    <3>2. lies <= Redundant
      BY <3>1, <1>1, EpochsAreNumbers
    <3> QED BY <3>1, <3>2, <1>0, <2>1, Answers
  <2> QED BY <2>1, <2>2, <2>3, <1>1
<1> QED BY <1>3, <1>5, <1>6, <1>7 DEF TableInv

\* A row that becomes done is in an epoch whose predecessors were looked at in this
\* pass, and every earlier block is fetched with it at the latest.
LEMMA UpdateClean ==
  ASSUME TableInv, CleanInv, UpdateBlocks
  PROVE  CleanInv'
<1> SUFFICES ASSUME Clean'
             PROVE  /\ EpochsWhole' /\ FilledInOrder'
                    /\ \A i \in Identities, e \in AllEpochs : Final(i, e)' => Exact(i, e)'
  BY DEF CleanInv
<1>0. /\ Typed /\ RowsSound /\ NoBlockWrittenOff /\ pc = "blocks" /\ todo = {}
      /\ UNCHANGED <<produced, finalized, records>>
  BY DEF TableInv, UpdateBlocks, chain, Typed
<1>1. /\ Clean /\ db' = Filled(SlotsNeedingBlocks) /\ faults' = 0 /\ ~crashed'
      /\ pc' = "submit" \/ Stop
      /\ pc' = "submit" => UNCHANGED <<st, fin, todo>>
  BY <1>0, UpdatedRows DEF Clean, Stop
<1>2. /\ EpochsWhole /\ FilledInOrder
      /\ \A i \in Identities, e \in AllEpochs : Final(i, e) => Exact(i, e)
  BY <1>1 DEF CleanInv
<1>3. \A s \in SlotsNeedingBlocks : s \in AllSlots /\ db[s].state = "Created" /\ s \in Waiting
  BY DEF SlotsNeedingBlocks, Waiting
<1>4. \A s \in AllSlots :
        /\ s \in SlotsNeedingBlocks => db'[s] = Answer(s, 0)
        /\ s \notin SlotsNeedingBlocks => db'[s] = db[s]
  BY <1>1 DEF Filled
<1>5. \A s \in AllSlots :
        /\ There(s)' <=> There(s)
        /\ db'[s].mapped = db[s].mapped
        /\ Done(s) => Done(s)'
        /\ Done(s)' => Done(s) \/ s \in SlotsNeedingBlocks
        /\ s \in SlotsNeedingBlocks /\ s \in produced => Done(s)'
  BY <1>0, <1>3, <1>4, Answers DEF There, Done
<1>6. \A e \in AllEpochs : Whole(e)' <=> Whole(e)
  BY <1>5, SlotFacts DEF Whole
<1>7. TableInv' /\ Base <= Base' /\ Base \in Nat /\ Base' \in Nat
  <2>1. TableInv' /\ Base <= Base'
    BY UpdateTable
  <2>2. Base' \in Nat
    BY <2>1, ClockTyped, EpochsAreNumbers, SlotFacts DEF TableInv, Typed, Base, Clock
  <2> QED BY <1>0, <2>1, <2>2, ClockTyped, EpochsAreNumbers
<1>8. EpochsWhole'
  <2>1. \A e \in AllEpochs : (\E s \in SlotsOf(e) : There(s)') => Whole(e)'
    BY <1>2, <1>5, <1>6, SlotFacts DEF EpochsWhole
  <2>2. \A s, t \in AllSlots :
          EpochOf(s) = EpochOf(t) /\ Leader[s] = Leader[t] => db'[s].mapped = db'[t].mapped
    BY <1>2, <1>5 DEF EpochsWhole
  <2>3. pc' \in {"schedule", "blocks", "submit"} =>
          \A e \in AllEpochs : e \in EpochRange' /\ e \notin todo' => Whole(e)'
    BY <1>0, <1>1, <1>2, <1>6 DEF EpochsWhole, EpochRange, Stop
  <2> QED BY <2>1, <2>2, <2>3 DEF EpochsWhole
<1>9. FilledInOrder'
  <2>1. ASSUME NEW s \in AllSlots, NEW e \in AllEpochs, Done(s)', Base' - Lookback <= e,
               e <= EpochOf(s)
        PROVE  Whole(e)'
    <3>1. Base - Lookback <= e
      BY <2>1, <1>7, EpochsAreNumbers, BackFrom
    <3>2. CASE Done(s)
      BY <2>1, <3>1, <3>2, <1>2, <1>6 DEF FilledInOrder
    <3>3. CASE s \in SlotsNeedingBlocks
      <4>1. There(s)
        BY <3>3, <1>3 DEF There
      <4>2. EpochOf(s) <= Base /\ EpochOf(s) \in Nat /\ e \in Nat
        BY <4>1, <1>0, SlotFacts, EpochsAreNumbers DEF RowsSound
      <4>3. Base = st.epoch /\ e <= Base
        BY <1>0, <1>7, <2>1, <4>2 DEF Base
      <4>4. e \in EpochRange
        BY <3>1, <4>2, <4>3, <1>7, EpochsAreNumbers DEF EpochRange
      <4> QED BY <4>4, <1>0, <1>2, <1>6 DEF EpochsWhole
    <3> QED BY <3>2, <3>3, <2>1, <1>5
  <2>2. ASSUME NEW s \in AllSlots, NEW t \in produced', Done(s)', t < s, There(t)'
        PROVE  Done(t)'
    <3>1. t \in AllSlots /\ t \in produced /\ There(t)
      BY <2>2, <1>0, <1>5 DEF Typed
    <3>2. CASE Done(s)
      BY <3>1, <3>2, <2>2, <1>2, <1>5 DEF FilledInOrder
    <3>3. CASE s \in SlotsNeedingBlocks
      <4>1. db[t].state # "BlockDNE"
        BY <3>1, <1>0, <1>1, EpochsAreNumbers DEF NoBlockWrittenOff, Clean
      <4>2. db[t].state \in {"Created", "Done"}
        BY <3>1, <4>1, <1>0 DEF Typed, Rows, RowStates, There
      <4>3. CASE db[t].state = "Done"
        BY <4>3, <3>1, <1>5 DEF Done
      <4>4. CASE db[t].state = "Created"
        <5>1. s < fin /\ s \in Nat /\ t \in Nat /\ fin \in Nat
          BY <3>1, <3>3, <1>0, SlotFacts DEF SlotsNeedingBlocks, Waiting, Typed
        <5>2. t \in Waiting
          BY <5>1, <4>4, <3>1, <2>2 DEF Waiting
        <5>3. t \in SlotsNeedingBlocks
          BY <5>2, <3>3, <2>2, OldestFirst
        <5> QED BY <5>3, <3>1, <1>5
      <4> QED BY <4>2, <4>3, <4>4
    <3> QED BY <3>2, <3>3, <2>2, <1>5
  <2> QED BY <2>1, <2>2 DEF FilledInOrder
<1>10. \A i \in Identities, e \in AllEpochs : Final(i, e)' => Exact(i, e)'
  BY <1>0, <1>2 DEF Final, Exact
<1> QED BY <1>8, <1>9, <1>10
-----------------------------------------------------------------------------
(* The upload. *)

\* The highest slot that is done is one of them, if there is any.
LEMMA HighestIsDone ==
  /\ HighestDoneSlot \in Nat
  /\ HighestDoneSlot # 0 => HighestDoneSlot \in AllSlots /\ Done(HighestDoneSlot)
<1> DEFINE N == (MaxEpoch + 1) * SlotsPerEpoch - 1
           D == {s \in AllSlots : db[s].state = "Done"}
<1>1. AllSlots = 0 .. N /\ N \in Nat
  <2>1. N \in Int
    BY BlockMetadataAssumption
  <2> QED BY <2>1, EpochsAreNumbers DEF AllSlots
<1> HIDE DEF N
<1>2. HighestDoneSlot = IF D = {} THEN 0 ELSE Max(D)
  BY DEF HighestDoneSlot
<1>3. D \in SUBSET (0 .. N)
  BY <1>1
<1>4. \A s \in D : s \in AllSlots /\ s \in Nat /\ Done(s)
  BY <1>1 DEF Done
<1> HIDE DEF D
<1>5. D # {} => Max(D) \in D
  BY <1>1, <1>3, MaxBelow
<1> QED BY <1>2, <1>4, <1>5

\* What an entry counts.
LEMMA EntryFacts ==
  ASSUME Typed, NEW i \in Identities, NEW e \in AllEpochs
  PROVE  /\ EntryOf(i, e) \in Entry
         /\ EntryOf(i, e).at = HighestDoneSlot
         /\ \A s : s \in EntryOf(i, e).leader_slots <=>
              s \in SlotsLedBy(i, e) /\ db[s].mapped
         /\ \A s : s \in EntryOf(i, e).blocks <=>
              s \in SlotsLedBy(i, e) /\ db[s].mapped /\ Done(s)
<1> DEFINE mine == {s \in SlotsOf(e) : Leader[s] = i /\ db[s].mapped}
           counted == {s \in mine : db[s].state = "Done"}
<1>1. EntryOf(i, e) = [blocks |-> counted, leader_slots |-> mine, at |-> HighestDoneSlot]
  BY DEF EntryOf
<1>2. mine \in SUBSET AllSlots /\ counted \in SUBSET AllSlots
  BY SlotFacts
<1>3. HighestDoneSlot \in Int
  BY HighestIsDone
<1>4. \A s : s \in mine <=> s \in SlotsLedBy(i, e) /\ db[s].mapped
  BY DEF SlotsLedBy
<1>5. \A s : s \in counted <=> s \in SlotsLedBy(i, e) /\ db[s].mapped /\ Done(s)
  BY DEF SlotsLedBy, Done
<1> HIDE DEF mine, counted
<1> QED BY <1>1, <1>2, <1>3, <1>4, <1>5 DEF Entry

\* Without faults an entry that would be final is exact: its epoch was inserted and
\* mapped before the block that makes it final was fetched, and filled before it.
LEMMA FinalEntryExact ==
  ASSUME TableInv, CleanInv, Clean, NEW i \in Identities, NEW e \in AllEpochs,
         EntryOf(i, e).leader_slots # {}, EntryOf(i, e).at >= FirstSlot(e + 1)
  PROVE  /\ EntryOf(i, e).blocks = SlotsLedBy(i, e) \cap produced
         /\ EntryOf(i, e).leader_slots = SlotsLedBy(i, e)
<1>0. Typed /\ RowsSound /\ EpochsWhole /\ FilledInOrder
  BY DEF TableInv, CleanInv
<1>1. \A s \in SlotsLedBy(i, e) : s \in AllSlots /\ EpochOf(s) = e /\ Leader[s] = i
  BY SlotFacts DEF SlotsLedBy
<1>2. PICK m \in SlotsLedBy(i, e) : db[m].mapped
  BY <1>0, EntryFacts
<1>3. \A s \in SlotsLedBy(i, e) : db[s].mapped
  BY <1>0, <1>1, <1>2 DEF EpochsWhole
<1>4. EntryOf(i, e).leader_slots = SlotsLedBy(i, e)
  BY <1>0, <1>3, EntryFacts
<1>5. e \in Nat /\ SlotsPerEpoch \in Nat \ {0}
  BY EpochsAreNumbers, BlockMetadataAssumption
<1>6. /\ FirstSlot(e + 1) \in Nat /\ FirstSlot(e + 1) # 0
      /\ \A s \in SlotsOf(e) : s \in Nat /\ s < FirstSlot(e + 1)
  BY <1>5, SlotFacts DEF SlotsOf
<1>7. HighestDoneSlot \in AllSlots /\ Done(HighestDoneSlot) /\ HighestDoneSlot \in Nat
  BY <1>0, <1>6, EntryFacts, HighestIsDone
<1>8. ASSUME NEW s \in SlotsLedBy(i, e), s \in produced
      PROVE  Done(s)
  <2>1. s < HighestDoneSlot
    BY <1>0, <1>6, <1>7, EntryFacts DEF SlotsLedBy
  <2>2. There(s)
    BY <1>0, <1>1, <1>3 DEF RowsSound
  <2> QED BY <1>0, <1>7, <1>8, <2>1, <2>2 DEF FilledInOrder
<1>9. \A s \in SlotsLedBy(i, e) : Done(s) => s \in produced
  BY <1>0, <1>1 DEF RowsSound
<1>10. EntryOf(i, e).blocks = SlotsLedBy(i, e) \cap produced
  BY <1>0, <1>3, <1>8, <1>9, EntryFacts
<1> QED BY <1>4, <1>10

\* update_priority_fee_history for some of the entries, all of them unless a request
\* fails.
LEMMA SubmitStep ==
  ASSUME TableInv, CleanInv, Submit
  PROVE  /\ TableInv' /\ CleanInv'
         /\ \A i \in Identities, e \in AllEpochs : records[i][e].blocks \subseteq records'[i][e].blocks
<1>0. /\ Typed /\ RowsSound /\ CountedInTable /\ NoBlockWrittenOff /\ pc = "submit" /\ Stop
      /\ UNCHANGED <<produced, finalized, db, crashed>>
  BY DEF TableInv, Submit
<1>1. /\ faults' = faults \/ faults' = faults + 1
      /\ faults' \in Nat /\ faults <= faults' /\ faults \in Nat
  BY <1>0 DEF Submit, Fault, Typed
<1>2. PICK U \in SUBSET Updates : Upload(U)
  BY DEF Submit
<1>3. \A i \in Identities, e \in AllEpochs :
        records'[i][e] = IF <<i, e>> \in U THEN EntryOf(i, e) ELSE records[i][e]
  BY <1>2 DEF Upload
<1>4. records' \in [Identities -> [AllEpochs -> Entry]]
  <2>1. \A i \in Identities, e \in AllEpochs :
          (IF <<i, e>> \in U THEN EntryOf(i, e) ELSE records[i][e]) \in Entry
    BY <1>0, EntryFacts DEF Typed
  <2> QED BY <1>2, <2>1 DEF Upload
<1>5. Typed' /\ Base' = Clock' /\ Clock' = Clock
  <2>1. db' \in [AllSlots -> Rows] /\ crashed' \in BOOLEAN
    BY <1>0 DEF Typed
  <2> QED BY <1>0, <1>1, <1>4, <2>1, Stopped
<1>6. Base \in Nat /\ Base' \in Nat /\ Base <= Base' /\ \A s \in AllSlots : EpochOf(s) \in Nat
  BY <1>0, <1>5, ClockTyped, EpochsAreNumbers, SlotFacts DEF RowsSound
<1>7. \A s : (There(s)' <=> There(s)) /\ (Done(s)' <=> Done(s))
  BY <1>0 DEF There, Done
<1>8. RowsSound'
  <2>1. \A s \in AllSlots : There(s)' => EpochOf(s) <= Base'
    BY <1>0, <1>6, <1>7 DEF RowsSound
  <2> QED BY <1>0, <1>5, <1>6, <1>7, <2>1 DEF RowsSound
<1>9. CountedInTable'
  <2> SUFFICES ASSUME NEW i \in Identities, NEW e \in AllEpochs, NEW s \in records'[i][e].blocks
               PROVE  s \in SlotsOf(e) /\ Leader[s] = i /\ Done(s) /\ db[s].mapped
    BY <1>0, <1>7 DEF CountedInTable
  <2>1. CASE <<i, e>> \in U
    BY <2>1, <1>0, <1>3, EntryFacts DEF SlotsLedBy
  <2>2. CASE <<i, e>> \notin U
    BY <2>2, <1>0, <1>3 DEF CountedInTable
  <2> QED BY <2>1, <2>2
<1>10. NoBlockWrittenOff'
  BY <1>0, <1>1, EpochsAreNumbers DEF NoBlockWrittenOff
<1>11. TableInv'
  BY <1>5, <1>8, <1>9, <1>10 DEF TableInv
<1>12. ASSUME NEW i \in Identities, NEW e \in AllEpochs
       PROVE  records[i][e].blocks \subseteq records'[i][e].blocks
  <2>1. CASE <<i, e>> \in U
    BY <2>1, <1>0, <1>3, EntryFacts DEF CountedInTable, SlotsLedBy
  <2>2. CASE <<i, e>> \notin U
    BY <2>2, <1>3
  <2> QED BY <2>1, <2>2
<1>13. CleanInv'
  <2> SUFFICES ASSUME Clean'
               PROVE  /\ EpochsWhole' /\ FilledInOrder'
                      /\ \A i \in Identities, e \in AllEpochs : Final(i, e)' => Exact(i, e)'
    BY DEF CleanInv
  <2>1. Clean
    BY <1>0, <1>1 DEF Clean
  <2>2. /\ EpochsWhole /\ FilledInOrder
        /\ \A i \in Identities, e \in AllEpochs : Final(i, e) => Exact(i, e)
    BY <2>1 DEF CleanInv
  <2>3. \A e : Whole(e)' <=> Whole(e)
    BY <1>7 DEF Whole
  <2>4. pc' = "idle"
    BY <1>0 DEF Stop
  <2>5. EpochsWhole'
    BY <1>0, <1>7, <2>2, <2>3, <2>4 DEF EpochsWhole
  <2>6. FilledInOrder'
    <3>1. ASSUME NEW s \in AllSlots, NEW e \in AllEpochs, Done(s)', Base' - Lookback <= e,
                 e <= EpochOf(s)
          PROVE  Whole(e)'
      <4>1. Base - Lookback <= e
        BY <3>1, <1>6, EpochsAreNumbers, BackFrom
      <4> QED BY <3>1, <4>1, <1>7, <2>2, <2>3 DEF FilledInOrder
    <3> QED BY <3>1, <1>0, <1>7, <2>2 DEF FilledInOrder
  <2>7. ASSUME NEW i \in Identities, NEW e \in AllEpochs, Final(i, e)'
        PROVE  Exact(i, e)'
    <3>1. CASE <<i, e>> \in U
      <4>1. EntryOf(i, e).leader_slots # {}
        BY <3>1 DEF Updates, NeedsUpdate
      <4>2. records'[i][e] = EntryOf(i, e) /\ EntryOf(i, e).at >= FirstSlot(e + 1)
        BY <3>1, <1>3, <2>7 DEF Final
      <4> QED BY <4>1, <4>2, <2>1, <1>0, FinalEntryExact DEF Exact
    <3>2. CASE <<i, e>> \notin U
      <4>1. records'[i][e] = records[i][e]
        BY <3>2, <1>3
      <4>2. Exact(i, e)
        BY <4>1, <2>2, <2>7 DEF Final
      <4> QED BY <4>1, <4>2, <1>0 DEF Exact
    <3> QED BY <3>1, <3>2
  <2> QED BY <2>5, <2>6, <2>7
<1> QED BY <1>11, <1>12, <1>13
-----------------------------------------------------------------------------
\* Both invariants together are inductive.
LEMMA MetadataInductive ==
  TableInv /\ CleanInv /\ [Next]_vars => TableInv' /\ CleanInv'
<1> SUFFICES ASSUME TableInv, CleanInv, [Next]_vars PROVE TableInv' /\ CleanInv'
  OBVIOUS
<1>1. CASE \/ NextSlot \/ UNCHANGED vars
           \/ \E i \in Identities : Appear(i) \/ \E e \in AllEpochs : NewEntry(i, e)
  BY <1>1, WorldStep
<1>2. CASE Keeper
  BY <1>2, FetchStep, StartStep, MapStep, UpdateTable, UpdateClean, SubmitStep, InsertStep,
     EpochKnownStep DEF Keeper, Insertions
<1> QED BY <1>1, <1>2 DEF Next

\* No block is written off as skipped while one of the RPC nodes knows it, whatever
\* the slot history says and whenever the keeper is restarted.
THEOREM SpecNoBlockWrittenOff == Spec => []NoBlockWrittenOff
<1>1. Init => TableInv /\ CleanInv
  BY InitInv
<1>2. TableInv /\ CleanInv /\ [Next]_vars => TableInv' /\ CleanInv'
  BY MetadataInductive
<1>3. TableInv => NoBlockWrittenOff
  BY DEF TableInv
<1> QED BY <1>1, <1>2, <1>3, PTL DEF Spec

\* A record that is not looked at again counts every block of its epoch, unless
\* something failed: in spite of the row limit, of slots that are newer than the slot
\* history, of epochs that change in the middle of the operation, and of identities
\* that appear late.
THEOREM SpecFinalIsExact == Spec => []FinalIsExact
<1>1. Init => TableInv /\ CleanInv
  BY InitInv
<1>2. TableInv /\ CleanInv /\ [Next]_vars => TableInv' /\ CleanInv'
  BY MetadataInductive
<1>3. CleanInv => FinalIsExact
  BY DEF CleanInv, Clean, FinalIsExact, Exact
<1> QED BY <1>1, <1>2, <1>3, PTL DEF Spec

\* What was counted once stays counted, across crashes, repeated insertions of the
\* leader schedule and failed uploads.
THEOREM SpecCountsNeverShrink == Spec => CountsNeverShrink
<1>1. Init => TableInv /\ CleanInv
  BY InitInv
<1>2. TableInv /\ CleanInv /\ [Next]_vars => TableInv' /\ CleanInv'
  BY MetadataInductive
<1>3. TableInv /\ CleanInv /\ [Next]_vars =>
        [\A i \in Identities, e \in AllEpochs :
           records[i][e].blocks \subseteq records'[i][e].blocks]_vars
  <2> SUFFICES ASSUME TableInv, CleanInv, Next
               PROVE  \A i \in Identities, e \in AllEpochs :
                        records[i][e].blocks \subseteq records'[i][e].blocks
    OBVIOUS
  <2>1. CASE Submit
    BY <2>1, SubmitStep
  <2>2. CASE UNCHANGED records
    BY <2>2
  <2>3. Submit \/ UNCHANGED records
    BY DEF Next, Keeper, Insertions, Fetch, Start, MapIdentities, UpdateBlocks,
       InsertLeaderSchedule, EpochKnown, NextSlot, Appear, NewEntry, chain
  <2> QED BY <2>1, <2>2, <2>3
<1> QED BY <1>1, <1>2, <1>3, PTL DEF Spec, CountsNeverShrink
=============================================================================
