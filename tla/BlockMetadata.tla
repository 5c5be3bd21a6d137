---------------------------- MODULE BlockMetadata ----------------------------
(***************************************************************************)
(* The keeper's block metadata operation: it keeps a table of leader slots  *)
(* in SQLite, fills it block by block from RPC nodes, adds the rows up per  *)
(* vote account and epoch and uploads the sums to the validator history.    *)
(* The table survives a crash of the keeper; its snapshot does not.         *)
(*                                                                          *)
(* A sum is kept as the set of slots it counts, so fees need no numbers of  *)
(* their own.  Every identity has one vote account.                         *)
(***************************************************************************)
EXTENDS Integers, FiniteSets, FiniteSetsExt

CONSTANTS
  SlotsPerEpoch,
  MaxEpoch,          \* bound on the clock
  FirstEpoch,        \* the epoch the keeper is started in
  Lookback,          \* lookback_epochs; lookback_start_offset_epochs is 0
  Identities,
  Leader,            \* Leader[s]: the identity that leads slot s
  ProducedChoices,   \* possible sets of slots with a block
  VisibleChoices,    \* identities get_vote_accounts may name at first
  EntryChoices,      \* entries <<i, e>> the validator history may have at first,
                     \* or has as soon as it is asked for them: a bound
  BlockLimit,        \* LIMIT of get_slots_needing_blocks: 100000
  Redundant,         \* number of redundant RPC nodes
  MaxFaults          \* bound on failed or wrong answers

AllEpochs == 0 .. MaxEpoch
AllSlots == 0 .. (MaxEpoch + 1) * SlotsPerEpoch - 1
EpochOf(s) == s \div SlotsPerEpoch
FirstSlot(e) == e * SlotsPerEpoch
SlotsOf(e) == FirstSlot(e) .. FirstSlot(e + 1) - 1

ASSUME BlockMetadataAssumption ==
  /\ SlotsPerEpoch \in Nat \ {0} /\ MaxEpoch \in Nat
  /\ Lookback \in Nat /\ FirstEpoch \in Lookback .. MaxEpoch
  /\ Leader \in [AllSlots -> Identities]
  /\ ProducedChoices \subseteq SUBSET AllSlots
  /\ VisibleChoices \subseteq SUBSET Identities
  /\ EntryChoices \subseteq SUBSET (Identities \X AllEpochs)
  /\ BlockLimit \in Nat \ {0} /\ Redundant \in Nat /\ MaxFaults \in Nat

VARIABLES
  produced,    \* slots with a block: fixed
  finalized,   \* the newest finalized slot
  visible,     \* identities that get_vote_accounts names
  entries,     \* entries <<i, e>> of the validator history
  records,     \* their block metadata: records[i][e]
  db,          \* the table: db[s].state ("absent" without a row), db[s].mapped
  pc,
  st,          \* what the operation uses of keeper_state
  fin,         \* current_finalized_slot, read when the operation starts
  todo,        \* epochs whose leader schedule is still to be looked at
  faults,
  crashed      \* the keeper has been restarted: once

chain == <<produced, finalized, visible, entries, records>>
vars  == <<chain, db, pc, st, fin, todo, faults, crashed>>

Clock == EpochOf(finalized)
Unset == [blocks |-> {}, leader_slots |-> {}, at |-> -1]    \* u64::MAX
NoState == [epoch |-> 0, newest |-> 0, visible |-> {}, entries |-> {}, records |-> <<>>]
EpochRange == st.epoch - Lookback .. st.epoch

Init ==
  /\ produced \in ProducedChoices
  /\ finalized = FirstSlot(FirstEpoch)
  /\ visible \in VisibleChoices
  /\ entries \in EntryChoices
  /\ records = [i \in Identities |-> [e \in AllEpochs |-> Unset]]
  /\ db = [s \in AllSlots |-> [state |-> "absent", mapped |-> FALSE]]
  /\ pc = "idle" /\ st = NoState /\ fin = 0 /\ todo = {}
  /\ faults = 0 /\ crashed = FALSE

Fault(n) == faults + n <= MaxFaults /\ faults' = faults + n

Stop == pc' = "idle" /\ st' = NoState /\ fin' = 0 /\ todo' = {}

\* The process dies: transactions of the table that are committed stay.
Crash == ~crashed /\ crashed' = TRUE /\ Stop /\ UNCHANGED faults
-----------------------------------------------------------------------------
(* The operation *)

\* the tick's fetch; the slot history may be older than the slot fetched next
Fetch ==
  /\ pc = "idle"
  /\ pc' = "start"
  /\ st' = [epoch |-> Clock, newest |-> finalized, visible |-> visible,
            entries |-> entries, records |-> records]
  /\ UNCHANGED <<chain, db, fin, todo, faults, crashed>>

Start ==
  /\ pc = "start"
  /\ pc' = "schedule"
  /\ fin' = finalized
  /\ todo' = EpochRange
  /\ UNCHANGED <<chain, db, st, faults, crashed>>

\* Mutant: INSERT OR REPLACE, without a look at the slots that are there.
InsertOrReplace(slots) ==
  db' = [s \in AllSlots |-> IF s \in slots
                            THEN [state |-> "Created", mapped |-> FALSE] ELSE db[s]]

\* insert_leader_schedule: rows that are there are left alone
InsertSlots(slots) ==
  db' = [s \in AllSlots |-> IF s \in slots /\ db[s].state = "absent"
                            THEN [state |-> "Created", mapped |-> FALSE] ELSE db[s]]

\* check_random_slot_exists_in_epoch finds a row
EpochKnown(e) ==
  /\ pc = "schedule" /\ e \in todo
  /\ \E random \in SlotsOf(e) : db[random].state # "absent"
  /\ todo' = todo \ {e}
  /\ UNCHANGED <<chain, db, pc, st, fin, faults, crashed>>

\* it does not, and the schedule is there
InsertLeaderSchedule(e) ==
  /\ pc = "schedule" /\ e \in todo
  /\ \E random \in SlotsOf(e) : db[random].state = "absent"
  /\ \/ /\ InsertSlots(SlotsOf(e))
        /\ todo' = todo \ {e}
        /\ UNCHANGED <<pc, st, fin, faults, crashed>>
     \/ /\ Fault(1)                      \* leader schedule unavailable
        /\ todo' = todo \ {e}
        /\ UNCHANGED <<db, pc, st, fin, crashed>>
     \/ \E leaders \in SUBSET Identities :     \* each leader is committed
          /\ InsertSlots({s \in SlotsOf(e) : Leader[s] \in leaders})
          /\ Crash
  /\ UNCHANGED chain

\* upsert_vote_identity_mapping
MapIdentities ==
  /\ pc = "schedule" /\ todo = {}
  /\ pc' = "blocks"
  /\ db' = [s \in AllSlots |-> IF db[s].state # "absent" /\ Leader[s] \in st.visible
                               THEN [db[s] EXCEPT !.mapped = TRUE] ELSE db[s]]
  /\ UNCHANGED <<chain, st, fin, todo, faults, crashed>>

Waiting == {s \in AllSlots : db[s].state = "Created" /\ s < fin}

\* Mutant: newest first.
NewestSlots ==
  {s \in Waiting : Cardinality({t \in Waiting : t > s}) < BlockLimit}

\* get_slots_needing_blocks: the oldest first
SlotsNeedingBlocks ==
  {s \in Waiting : Cardinality({t \in Waiting : t < s}) < BlockLimit}

\* Mutant: what the first node calls skipped is skipped.
TrustFirst(s, lies) ==
  IF s \in produced /\ lies = 0 THEN "Done" ELSE "BlockDNE"

\* get_block_safe when the first `lies` nodes call a slot skipped that is not:
\* the slot history decides, or the next node is asked
GetBlockSafe(s, lies) ==
  IF s \in produced /\ lies = 0 THEN "Done"
  ELSE IF s > st.newest THEN "Created"               \* Check::Future
  ELSE IF s \in produced /\ lies <= Redundant THEN "Done"
  ELSE "BlockDNE"

\* Answers of the nodes: at most one slot has wrong ones or an error.
UpdateBlocks ==
  /\ pc = "blocks"
  /\ LET need == SlotsNeedingBlocks
         done(s, lies) == [db[s] EXCEPT !.state = GetBlockSafe(s, lies)]
         fill(S) == [s \in AllSlots |-> IF s \in S THEN done(s, 0) ELSE db[s]]
     IN  \/ /\ db' = fill(need)
            /\ pc' = "submit"
            /\ UNCHANGED <<st, fin, todo, faults, crashed>>
         \/ \E bad \in need, lies \in 0 .. Redundant + 1 :
              /\ Fault(IF lies = 0 THEN 1 ELSE lies)
              /\ db' = IF lies = 0 THEN fill(need \ {bad})
                       ELSE [fill(need \ {bad}) EXCEPT ![bad] = done(bad, lies)]
              /\ pc' = "submit"
              /\ UNCHANGED <<st, fin, todo, crashed>>
         \/ \E S \in SUBSET need : db' = fill(S) /\ Crash
  /\ UNCHANGED chain

HighestDoneSlot ==
  LET done == {s \in AllSlots : db[s].state = "Done"}
  IN  IF done = {} THEN 0 ELSE Max(done)

\* Mutant: the highest done slot of the validator's own epoch.
EntryOwnSlot(i, e) ==
  LET mine == {s \in SlotsOf(e) : Leader[s] = i /\ db[s].mapped}
      done == {s \in mine : db[s].state = "Done"}
  IN  [blocks |-> done, leader_slots |-> mine, at |-> IF done = {} THEN 0 ELSE Max(done)]

\* get_priority_fee_and_block_metadata_entries
EntryOf(i, e) ==
  LET mine == {s \in SlotsOf(e) : Leader[s] = i /\ db[s].mapped}
  IN  [blocks |-> {s \in mine : db[s].state = "Done"}, leader_slots |-> mine,
       at |-> HighestDoneSlot]

\* nothing is sent for an entry that the history does not have
NeedsUpdate(i, e) ==
  /\ <<i, e>> \in st.entries
  /\ EntryOf(i, e).leader_slots # {}
  /\ \/ st.records[i][e].at < FirstSlot(e + 1)
     \/ st.records[i][e] = Unset

Updates == {p \in Identities \X EpochRange : NeedsUpdate(p[1], p[2])}

\* update_priority_fee_history: any epoch up to the current one is overwritten
Upload(U) ==
  records' = [i \in Identities |-> [e \in AllEpochs |->
                IF <<i, e>> \in U THEN EntryOf(i, e) ELSE records[i][e]]]

Submit ==
  /\ pc = "submit"
  /\ \/ Upload(Updates) /\ UNCHANGED faults
     \/ \E U \in SUBSET Updates : Upload(U) /\ Fault(1)
  /\ Stop
  /\ UNCHANGED <<produced, finalized, visible, entries, db, crashed>>
-----------------------------------------------------------------------------
(* The world *)

NextSlot ==
  /\ finalized + 1 \in AllSlots
  /\ finalized' = finalized + 1
  /\ UNCHANGED <<produced, visible, entries, records, db, pc, st, fin, todo, faults, crashed>>

Appear(i) ==
  /\ i \notin visible
  /\ visible' = visible \cup {i}
  /\ UNCHANGED <<produced, finalized, entries, records, db, pc, st, fin, todo, faults, crashed>>

\* copy_vote_account and the other uploads make the entry of an epoch
NewEntry(i, e) ==
  /\ <<i, e>> \notin entries /\ e <= Clock
  /\ entries' = entries \cup {<<i, e>>}
  /\ UNCHANGED <<produced, finalized, visible, records, db, pc, st, fin, todo, faults, crashed>>

Insertions == \E e \in AllEpochs : InsertLeaderSchedule(e)
Keeper == \/ Fetch \/ Start \/ MapIdentities \/ UpdateBlocks \/ Submit
          \/ Insertions \/ (\E e \in AllEpochs : EpochKnown(e))

Next == \/ Keeper \/ NextSlot
        \/ \E i \in Identities : Appear(i) \/ \E e \in AllEpochs : NewEntry(i, e)

\* The keeper's loop goes on and slots are finalized.  The random slot is drawn
\* afresh every time, so one that has no row is drawn in the end.
Spec ==
  /\ Init /\ [][Next]_vars
  /\ WF_vars(Keeper) /\ WF_vars(NextSlot)
  /\ SF_vars(Insertions)
-----------------------------------------------------------------------------
(* Properties *)

\* No row is ever in the state Error, which nothing would take it out of.
TypeOK ==
  /\ finalized \in AllSlots /\ visible \subseteq Identities
  /\ db \in [AllSlots -> [state : {"absent", "Created", "Done", "BlockDNE"}, mapped : BOOLEAN]]
  /\ \A i \in Identities, e \in AllEpochs :
       records[i][e].blocks \subseteq records[i][e].leader_slots
  /\ faults \in 0 .. MaxFaults

SlotsLedBy(i, e) == {s \in SlotsOf(e) : Leader[s] = i}
Final(i, e) == records[i][e].at >= FirstSlot(e + 1)

\* A record is not looked at again once a block of the next epoch has been seen.
\* Unless something failed it then counts every block of its epoch, in spite of
\* the row limit, of slots that are newer than the slot history, and of
\* identities that appear late.
FinalIsExact ==
  \A i \in Identities, e \in AllEpochs :
    Final(i, e) /\ faults = 0 /\ ~crashed =>
      /\ records[i][e].blocks = SlotsLedBy(i, e) \cap produced
      /\ records[i][e].leader_slots = SlotsLedBy(i, e)

\* No block is written off as skipped while one of the RPC nodes knows it.
NoBlockWrittenOff ==
  faults <= Redundant => \A s \in produced : db[s].state # "BlockDNE"

\* What was counted once stays counted, across crashes, repeated insertions of
\* the leader schedule and failed uploads.
CountsNeverShrink ==
  [][\A i \in Identities, e \in AllEpochs :
       records[i][e].blocks \subseteq records'[i][e].blocks]_vars

\* Every validator's record of a past epoch becomes final once the identity is
\* known, the history has an entry and a block of the next epoch is there.
EventuallyFinal ==
  \A i \in Identities, e \in MaxEpoch - Lookback .. MaxEpoch - 1 :
    (<>[](i \in visible /\ <<i, e>> \in entries)) /\ SlotsLedBy(i, e) # {}
      /\ (\E s \in produced : s \in SlotsOf(e + 1) /\ s + 1 \in SlotsOf(e + 1))
    => <>[]Final(i, e)

\* A record that is not looked at again is right.
FinalIsAlwaysExact ==
  \A i \in Identities, e \in AllEpochs :
    Final(i, e) => records[i][e].blocks = SlotsLedBy(i, e) \cap produced
=============================================================================
