--------------------------- MODULE ClusterHistory ---------------------------
(***************************************************************************)
(* The ClusterHistory account beside a validator's: how many blocks the     *)
(* cluster produced in an epoch, counted from the SlotHistory sysvar by     *)
(* whoever calls copy_cluster_info, the epoch before included, and filled   *)
(* in by the oracle before that.  Its ring buffer is that of               *)
(* ValidatorHistory without the insertions.                                 *)
(***************************************************************************)
EXTENDS ValidatorHistory

CONSTANTS
  SlotsPerEpoch,
  BlockSize,      \* BITVEC_BLOCK_SIZE: slots in a word of the bit vector
  MaxEntries      \* MAX_ENTRIES: slots that SlotHistory remembers

ASSUME ClusterAssumption ==
  /\ SlotsPerEpoch \in Nat \ {0} /\ BlockSize \in Nat \ {0}
  /\ MaxEntries \in Nat /\ MaxEntries % BlockSize = 0
  /\ MaxEntries >= 2 * SlotsPerEpoch

VARIABLES
  cluster,    \* the ClusterHistory account
  slot,       \* Clock::slot
  produced,   \* slots with a block
  seen        \* auxiliary: seen[e]: slots of e before seen[e].to were counted,
              \* some of them, seen[e].gap, before SlotHistory had them

clusterVars == <<cluster, slot, produced, seen>>

FirstSlot(e) == e * SlotsPerEpoch
LastSlot(e) == FirstSlot(e + 1) - 1

DefaultClusterEntry == [epoch |-> NoEpoch, total_blocks |-> Unset, start |-> Unset]

\* The account after realloc_cluster_history_account has initialized it.
ClusterInit ==
  /\ cluster = [arr |-> [k \in Positions |-> DefaultClusterEntry], idx |-> MaxItems - 1,
                is_empty |-> TRUE, last_update_slot |-> 0]
  /\ slot = 0 /\ produced = {}
  /\ seen = [e \in 0 .. MaxEpoch |-> [to |-> FirstSlot(e), gap |-> FALSE]]
-----------------------------------------------------------------------------
(* SlotHistory: a slot enters it when its block is complete, and the slots that *)
(* were skipped before it are cleared then, not earlier.                        *)

NextSlot == IF produced = {} THEN 0 ELSE Max(produced) + 1
Remembered == {s \in produced : s >= NextSlot - MaxEntries}

Found(s) == s \in Remembered
TooOld(s) == s < NextSlot - MaxEntries

\* Whole words of the bit vector are counted at once, without a look at NextSlot.
CountOnes(i) ==
  Cardinality({s \in Remembered :
                 (s % MaxEntries) \div BlockSize = (i % MaxEntries) \div BlockSize})

FirstFullBlock(from, to) ==
  IF from % BlockSize = 0 THEN from
  ELSE Min({from + BlockSize - (from % BlockSize), to})

LastFullBlock(from, to) == Max({to - (to % BlockSize), FirstFullBlock(from, to)})

FullBlocks(from, to) ==
  {i \in FirstFullBlock(from, to) .. LastFullBlock(from, to) - 1 :
     (i - FirstFullBlock(from, to)) % BlockSize = 0}

Partial(from, to) ==
  (from .. FirstFullBlock(from, to) - 1) \cup (LastFullBlock(from, to) .. to)

\* Mutant: the last slot is left out.
ConfirmedBlocksBefore(from, to) ==
  Cardinality({s \in Partial(from, to) \ {to} : Found(s)})
    + MapThenSumSet(CountOnes, FullBlocks(from, to))

\* confirmed_blocks_in_epoch
ConfirmedBlocksInEpoch(from, to) ==
  Cardinality({s \in Partial(from, to) : Found(s)})
    + MapThenSumSet(CountOnes, FullBlocks(from, to))

\* SlotHistoryOutOfDate
OutOfDate(from, to) == \E s \in Partial(from, to) : TooOld(s)
-----------------------------------------------------------------------------
(* Instructions *)

SetTotalBlocks(c, e, blocks) ==
  IF IsNew(c, e)
  THEN Push(c, [DefaultClusterEntry EXCEPT !.epoch = e, !.total_blocks = blocks])
  ELSE IF Holds(c, e) THEN [c EXCEPT !.arr[PositionOf(c, e)].total_blocks = blocks]
  ELSE c

\* only the latest entry
SetEpochStartTimestamp(c, e) ==
  IF Newest(c).epoch = e THEN [c EXCEPT !.arr[c.idx].start = e] ELSE c

\* Mutant: the epoch before is not looked at again.
CopyCurrentOnly ==
  LET end == Min({LastSlot(epoch), slot})
      counted == SetTotalBlocks(cluster, epoch, ConfirmedBlocksInEpoch(FirstSlot(epoch), end))
  IN  /\ ~OutOfDate(FirstSlot(epoch), end)
      /\ cluster' = [SetEpochStartTimestamp(counted, epoch) EXCEPT !.last_update_slot = slot]
      /\ seen' = [seen EXCEPT ![epoch] = [to |-> Min({LastSlot(epoch) + 1, slot}), gap |-> FALSE]]
      /\ UNCHANGED <<vars, slot, produced>>

\* The epoch before is final now, this one is counted so far.
CopyClusterInfo ==
  LET ends == [e \in {d \in {epoch - 1, epoch} : d >= 0} |-> Min({LastSlot(e), slot})]
      count(c, e) == SetTotalBlocks(c, e, ConfirmedBlocksInEpoch(FirstSlot(e), ends[e]))
      before == IF epoch > 0 THEN count(cluster, epoch - 1) ELSE cluster
  IN  /\ \A e \in DOMAIN ends : ~OutOfDate(FirstSlot(e), ends[e])
      /\ cluster' = [SetEpochStartTimestamp(count(before, epoch), epoch)
                      EXCEPT !.last_update_slot = slot]
      /\ seen' = [e \in DOMAIN seen |->
                    IF e \in DOMAIN ends
                    THEN [to  |-> Min({LastSlot(e) + 1, slot}),
                          gap |-> LastFullBlock(FirstSlot(e), ends[e]) > NextSlot]
                    ELSE seen[e]]
      /\ UNCHANGED <<vars, slot, produced>>

\* The oracle fills in a finished epoch, the first one or the next one.
BackfillTotalBlocks(e) ==
  /\ e < epoch
  /\ cluster.is_empty \/ e = Newest(cluster).epoch + 1
  /\ cluster' = SetTotalBlocks(cluster, e,
                  Cardinality({s \in produced : s >= FirstSlot(e) /\ s <= LastSlot(e)}))
  /\ seen' = [seen EXCEPT ![e] = [to |-> LastSlot(e) + 1, gap |-> FALSE]]
  /\ UNCHANGED <<vars, slot, produced>>

\* The slot ends, with a block or skipped; epochs follow from slots.
Slot(block) ==
  /\ slot < LastSlot(setup.epochs)
  /\ slot' = slot + 1
  /\ epoch' = slot' \div SlotsPerEpoch
  /\ produced' = IF block THEN produced \cup {slot} ELSE produced
  /\ UNCHANGED <<cluster, seen, setup, account, now, voted, reclaimed, since, missed>>
-----------------------------------------------------------------------------
(* The program: one of the two accounts per setup *)

ClusterNext ==
  \/ CopyClusterInfo
  \/ \E e \in 0 .. MaxEpoch : BackfillTotalBlocks(e)
  \/ \E block \in BOOLEAN : Slot(block)

ProgramNext ==
  \/ "cluster" \notin setup.uploads /\ Next /\ UNCHANGED clusterVars
  \/ "cluster" \in setup.uploads /\ ClusterNext

\* The blocks of an entry are those its epoch had before the last copy, and all of
\* the epoch's once a copy was made in the next one, however words of the bit
\* vector and epochs overlap, copies are missed and the oracle fills in. A copy
\* made right after skipped slots is exempt: see AlwaysCounted.
BlocksCounted ==
  \A k \in Positions :
    LET e == cluster.arr[k].epoch
    IN  e # NoEpoch /\ ~seen[e].gap =>
          cluster.arr[k].total_blocks =
            Cardinality({s \in produced : s >= FirstSlot(e) /\ s < seen[e].to})

\* "It contains the last 1,048,576 slots": the same of every copy. The words that
\* the slots skipped before the copy fall on still hold the bits of slots that are
\* MAX_ENTRIES older.
AlwaysCounted ==
  \A k \in Positions :
    LET e == cluster.arr[k].epoch
    IN  e # NoEpoch =>
          cluster.arr[k].total_blocks =
            Cardinality({s \in produced : s >= FirstSlot(e) /\ s < seen[e].to})
=============================================================================
