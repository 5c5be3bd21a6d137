--------------------------- MODULE ValidatorHistory ---------------------------
(***************************************************************************)
(* The ValidatorHistory account of one validator: a ring buffer with one   *)
(* entry per epoch, written by ten instructions in any order and for late *)
(* epochs too, the validator's age counted from it, and the timestamps     *)
(* that keep old gossip out.                                               *)
(*                                                                         *)
(* Abstractions:                                                           *)
(*  - a fact about an epoch (commission, mev, stake, block metadata, bam,  *)
(*    credits) is written as that epoch's number, so that an entry shows   *)
(*    which epoch its facts are about; fields one setter writes together   *)
(*    are one fact;                                                        *)
(*  - the vote account is the set of epochs the validator voted in, of     *)
(*    which its epoch_credits hold the last CreditHistory;                 *)
(*  - the priority fee distribution accounts of the epochs up to reclaimed *)
(*    are closed, and read as "none";                                      *)
(*  - signature and owner checks of the instructions are left out, and     *)
(*    time advances in units of the ten minutes that gossip may be ahead.  *)
(***************************************************************************)
EXTENDS Integers, Sequences, FiniteSets, SequencesExt

CONSTANTS
  MaxItems,       \* MAX_ITEMS
  MaxEpoch,       \* bound on the clock, over all setups
  CreditHistory,  \* length of a vote account's epoch_credits
  MaxTime,        \* bound on wall-clock time, over all setups
  Unset,          \* the default of a field
  Setups          \* the instructions in use and the bounds they are explored to

AllUploads == {"mev", "tips", "stake", "blocks", "bam", "age", "gossip", "cluster", "score"}

ASSUME HistoryAssumption ==
  /\ MaxItems \in Nat \ {0, 1}
  /\ MaxEpoch \in Nat
  /\ CreditHistory \in 1 .. MaxItems
  /\ MaxTime \in Nat
  /\ Unset \notin Int
  /\ Setups \subseteq [uploads : SUBSET AllUploads, epochs : 0 .. MaxEpoch,
                      time : 0 .. MaxTime]

VARIABLES
  setup,      \* the member of Setups this behaviour explores
  account,    \* the ValidatorHistory account
  epoch,      \* Clock::epoch
  now,        \* Clock::unix_timestamp
  voted,      \* epochs in which the validator earned credits
  reclaimed,  \* priority fee accounts are closed up to this epoch
  since,      \* auxiliary: epoch from which the age is counted
  missed      \* auxiliary: more epochs went uncounted than epoch_credits hold

vars == <<setup, account, epoch, now, voted, reclaimed, since, missed>>

Positions == 0 .. MaxItems - 1
Ever == -1                       \* the age is counted from the first epoch of all
NoEpoch == MaxEpoch + 1          \* u16::MAX, the epoch of an unused entry

DefaultEntry ==
  [epoch |-> NoEpoch, credits |-> Unset, commission |-> Unset, mev |-> Unset,
   tips |-> Unset, stake |-> Unset, blocks |-> Unset, bam |-> Unset,
   ip |-> Unset, version |-> Unset]

Blank(e) == [DefaultEntry EXCEPT !.epoch = e]
-----------------------------------------------------------------------------
(* CircBuf *)

Push(h, entry) ==
  LET next == (h.idx + 1) % MaxItems
  IN  [h EXCEPT !.idx = next, !.arr[next] = entry, !.is_empty = FALSE]

Newest(h) == h.arr[h.idx]

Holds(h, e) == \E k \in Positions : h.arr[k].epoch = e
PositionOf(h, e) == CHOOSE k \in Positions : h.arr[k].epoch = e /\
                      \A j \in 0 .. k - 1 : h.arr[j].epoch # e

\* The entries from the oldest to the newest, unused ones included.
Chain(h) == [k \in 1 .. MaxItems |-> h.arr[(h.idx + k) % MaxItems]]

\* epoch_range: the entries that are asked for come off the chain one after the other
\* as the epoch counts up, so one that is not behind its predecessor is never reached,
\* and nor is what follows it.
EpochRange(h, first, last) ==
  LET chain == Chain(h)
      asked == {k \in 1 .. MaxItems : chain[k].epoch \in first .. last}
      rising(m) == \A i, j \in asked : i < j /\ j <= m => chain[i].epoch < chain[j].epoch
  IN  {chain[k] : k \in {m \in asked : rising(m)}}

\* The binary search of find_insert_position: the first of size places that holds an
\* epoch not below e, where epochs[k] is the epoch at the k-th of them.
Search(epochs, e, size) ==
  LET mid(p) == (p[1] + p[2]) \div 2
      find[p \in (0 .. size) \X (0 .. size)] ==
        IF p[1] >= p[2] THEN p[1]
        ELSE IF epochs[mid(p)] < e THEN find[<<mid(p) + 1, p[2]>>]
                                   ELSE find[<<p[1], mid(p)>>]
  IN  find[<<0, size>>]

\* Without wraparound while unused entries follow idx.
FindInsertPosition(h, e) ==
  IF h.idx # MaxItems - 1 /\ h.arr[(h.idx + 1) % MaxItems].epoch = NoEpoch
  THEN Search([k \in Positions |-> h.arr[k].epoch], e, h.idx + 1) % MaxItems
  ELSE (h.idx + 1 + Search([k \in Positions |-> h.arr[(h.idx + 1 + k) % MaxItems].epoch],
                           e, MaxItems)) % MaxItems

MinEpoch(h) ==
  LET next == (h.idx + 1) % MaxItems
  IN  IF h.arr[next].epoch = NoEpoch THEN h.arr[0].epoch ELSE h.arr[next].epoch

\* Mutant: the search forgets that the buffer wraps around.
InsertUnwrapped(h, e) ==
  LET pos == Search([k \in Positions |-> h.arr[k].epoch], e, h.idx + 1) % MaxItems
      far == IF h.idx < pos THEN h.idx + MaxItems ELSE h.idx
      shifted == [k \in Positions |->
                    IF \E i \in pos .. far : (i + 1) % MaxItems = k
                    THEN h.arr[(k + MaxItems - 1) % MaxItems] ELSE h.arr[k]]
  IN  IF h.is_empty \/ e < MinEpoch(h) \/ e > Newest(h).epoch \/ Holds(h, e) THEN h
      ELSE [h EXCEPT !.arr = [shifted EXCEPT ![pos] = Blank(e)],
                     !.idx = (h.idx + 1) % MaxItems]

\* insert of a blank entry; epochs out of range and duplicates are skipped.
Insert(h, e) ==
  LET pos == FindInsertPosition(h, e)
      far == IF h.idx < pos THEN h.idx + MaxItems ELSE h.idx
      shifted == [k \in Positions |->
                    IF \E i \in pos .. far : (i + 1) % MaxItems = k
                    THEN h.arr[(k + MaxItems - 1) % MaxItems] ELSE h.arr[k]]
  IN  IF h.is_empty \/ e < MinEpoch(h) \/ e > Newest(h).epoch \/ h.arr[pos].epoch = e THEN h
      ELSE [h EXCEPT !.arr = [shifted EXCEPT ![pos] = Blank(e)],
                     !.idx = (h.idx + 1) % MaxItems]
-----------------------------------------------------------------------------
(* The setters: they all find the entry of an epoch in the same way. *)

\* An epoch after the latest gets an entry of its own.
IsNew(h, e) == h.is_empty \/ Newest(h).epoch < e

\* A record with some of its fields replaced.
With(record, fields) ==
  [f \in DOMAIN record |-> IF f \in DOMAIN fields THEN fields[f] ELSE record[f]]

\* The entry of epoch e gets the facts; a late epoch without an entry is ignored.
SetEntry(h, e, facts) ==
  IF IsNew(h, e) THEN Push(h, With(Blank(e), facts))
  ELSE IF Newest(h).epoch = e THEN [h EXCEPT !.arr[h.idx] = With(@, facts)]
  ELSE IF Holds(h, e) THEN [h EXCEPT !.arr[PositionOf(h, e)] = With(@, facts)]
  ELSE h

\* set_stake, set_total_priority_fees_and_block_metadata and set_is_bam_connected
\* refuse such an epoch.
InHistory(h, e) == IsNew(h, e) \/ Holds(h, e)

SetMevCommission(h, e) == SetEntry(h, e, [mev |-> e])
SetTips(h, e, tips) == SetEntry(h, e, [tips |-> tips])
SetStake(h, e) == SetEntry(h, e, [stake |-> e])
SetBlocks(h, e) == SetEntry(h, e, [blocks |-> e])
SetIsBamConnected(h, e) == SetEntry(h, e, [bam |-> e])
SetCommissionAndSlot(h, e) == SetEntry(h, e, [commission |-> e])

\* Mutant: only the latest epoch with credits gets an entry.
InsertLatestEntry(h, credits) == Insert(h, Max(credits))

\* insert_missing_entries: blank entries for the epochs with credits, in order.
InsertMissingEntries(h, credits) ==
  LET present == {entry.epoch : entry \in EpochRange(h, Min(credits), Max(credits))}
      insert(e, ring) == Insert(ring, e)
      itself(e) == e
  IN  MapThenFoldSet(insert, h, itself, Max, credits \ present)

\* set_epoch_credits walks back from the latest entry to the lowest epoch with credits.
SetEpochCredits(h, credits) ==
  LET place(i) == (h.idx + MaxItems - i) % MaxItems
      walked(i) == \A j \in 0 .. i - 1 : h.arr[place(j)].epoch # Min(credits)
      reached == {place(i) : i \in {j \in Positions : walked(j)}}
  IN  [h EXCEPT !.arr = [k \in Positions |->
         IF k \in reached /\ h.arr[k].epoch \in credits
         THEN [h.arr[k] EXCEPT !.credits = h.arr[k].epoch] ELSE h.arr[k]]]

\* Mutant: the current, unfinished epoch is counted.
UpdateAgeEarly(h, current) ==
  LET counted(entries) == Cardinality({entry \in entries : entry.credits # Unset})
  IN  IF h.age_epoch = 0
      THEN [h EXCEPT !.age = counted({h.arr[k] : k \in Positions}),
                     !.age_epoch = current]
      ELSE IF current <= h.age_epoch THEN h
      ELSE [h EXCEPT !.age = @ + counted(EpochRange(h, h.age_epoch + 1, current)),
                     !.age_epoch = current]

\* update_validator_age and initialize_validator_age (0 is the default epoch).
UpdateValidatorAge(h, current) ==
  LET end == IF current = 0 THEN 0 ELSE current - 1
      counted(entries) == Cardinality({entry \in entries : entry.credits # Unset})
      known == {entry \in {h.arr[k] : k \in Positions} : entry.epoch <= end}
  IN  IF h.age_epoch = 0
      THEN [h EXCEPT !.age = IF current = 0 THEN 0 ELSE counted(known),
                     !.age_epoch = end]
      ELSE IF end <= h.age_epoch THEN h
      ELSE [h EXCEPT !.age = @ + counted(EpochRange(h, h.age_epoch + 1, end)),
                     !.age_epoch = end]
-----------------------------------------------------------------------------
(* The instructions *)

\* The epochs in the vote account's epoch_credits.
EpochCredits == {e \in voted : Cardinality({f \in voted : f > e}) < CreditHistory}

\* Every instruction leaves what is outside of the account alone.
Writes(h) ==
  /\ account' = h
  /\ since' = IF since = NoEpoch /\ ~h.is_empty THEN Newest(h).epoch ELSE since
  /\ UNCHANGED <<setup, epoch, now, voted, reclaimed>>

\* More epochs are still to be counted than the vote account remembers.
Uncounted ==
  LET from == IF account.age_epoch > 0 THEN account.age_epoch + 1 ELSE since
  IN  ~account.is_empty /\ epoch - from >= CreditHistory

CopyVoteAccount ==
  LET written == SetCommissionAndSlot(account, epoch)
      filled  == InsertMissingEntries(written, EpochCredits)
  IN  /\ EpochCredits # {}
      /\ Writes(UpdateValidatorAge(SetEpochCredits(filled, EpochCredits), epoch))
      /\ missed' = (missed \/ Uncounted)

CopyTipDistributionAccount(e) ==
  /\ "mev" \in setup.uploads
  /\ e <= epoch
  /\ Writes(SetMevCommission(account, e))
  /\ UNCHANGED missed

\* Mutant: the check for what was copied already is dropped.
CopyTipsAgain(e) ==
  /\ "tips" \in setup.uploads
  /\ e < epoch
  /\ Writes(SetTips(account, e, IF e <= reclaimed THEN "none" ELSE "paid"))
  /\ UNCHANGED missed

CopyPriorityFeeDistribution(e) ==
  /\ "tips" \in setup.uploads
  /\ e < epoch
  /\ Holds(account, e) => account.arr[PositionOf(account, e)].tips = Unset
  /\ Writes(SetTips(account, e, IF e <= reclaimed THEN "none" ELSE "paid"))
  /\ UNCHANGED missed

UpdateStakeHistory(e) ==
  /\ "stake" \in setup.uploads
  /\ e <= epoch
  /\ InHistory(account, e)
  /\ Writes(SetStake(account, e))
  /\ UNCHANGED missed

UpdatePriorityFeeHistory(e) ==
  /\ "blocks" \in setup.uploads
  /\ e <= epoch
  /\ InHistory(account, e)
  /\ Writes(SetBlocks(account, e))
  /\ UNCHANGED missed

CopyIsBamConnected(e) ==
  /\ "bam" \in setup.uploads
  /\ e <= epoch
  /\ InHistory(account, e)
  /\ Writes(SetIsBamConnected(account, e))
  /\ UNCHANGED missed

\* upload_validator_age with what the backfill command computes: the epochs before
\* the first one on chain from its own records, the rest from the account. The
\* current epoch, not the first of the cluster, is noted as counted.
UploadValidatorAge ==
  LET onchain == {account.arr[k].epoch :
                    k \in {j \in Positions : account.arr[j].credits # Unset}}
      before == {e \in voted : \A f \in onchain : e < f}
      age == Cardinality(before) + Cardinality(onchain)
  IN  /\ "age" \in setup.uploads
      /\ epoch > 0
      /\ age > 0
      /\ account' = [account EXCEPT !.age = age, !.age_epoch = epoch]
      /\ since' = Ever
      /\ UNCHANGED <<setup, epoch, now, voted, reclaimed, missed>>

\* Gossip signed at time ts: contact info (ip and version), the legacy contact
\* info (ip), the version and its legacy form.
Signed(ts) == "gossip" \in setup.uploads /\ ts <= now + 1

CopyContactInfo(ts) ==
  LET h == SetEntry(account, epoch, [ip |-> ts, version |-> ts])
  IN  /\ Signed(ts)
      /\ account.last_ip_timestamp <= ts
      /\ account.last_version_timestamp <= ts
      /\ Writes([h EXCEPT !.last_ip_timestamp = ts, !.last_version_timestamp = ts])
      /\ UNCHANGED missed

\* Mutant: contact info is checked against the time of the last version only.
CopyLegacyUnchecked(ts) ==
  LET h == SetEntry(account, epoch, [ip |-> ts])
  IN  /\ Signed(ts)
      /\ account.last_version_timestamp <= ts
      /\ Writes([h EXCEPT !.last_ip_timestamp = ts])
      /\ UNCHANGED missed

CopyLegacyContactInfo(ts) ==
  LET h == SetEntry(account, epoch, [ip |-> ts])
  IN  /\ Signed(ts)
      /\ account.last_ip_timestamp <= ts
      /\ Writes([h EXCEPT !.last_ip_timestamp = ts])
      /\ UNCHANGED missed

CopyVersion(ts) ==
  LET h == SetEntry(account, epoch, [version |-> ts])
  IN  /\ Signed(ts)
      /\ account.last_version_timestamp <= ts
      /\ Writes([h EXCEPT !.last_version_timestamp = ts])
      /\ UNCHANGED missed
-----------------------------------------------------------------------------
(* The cluster around the program *)

NextEpoch ==
  /\ epoch < setup.epochs
  /\ epoch' = epoch + 1
  /\ UNCHANGED <<setup, account, now, voted, reclaimed, since, missed>>

Tick ==
  /\ now < setup.time
  /\ now' = now + 1
  /\ UNCHANGED <<setup, account, epoch, voted, reclaimed, since, missed>>

Vote ==
  /\ voted' = voted \cup {epoch}
  /\ UNCHANGED <<setup, account, epoch, now, reclaimed, since, missed>>

ReclaimRent ==
  /\ "tips" \in setup.uploads
  /\ reclaimed < epoch - 1
  /\ reclaimed' = reclaimed + 1
  /\ UNCHANGED <<setup, account, epoch, now, voted, since, missed>>
-----------------------------------------------------------------------------
(* The specification *)

\* The account after realloc_validator_history_account has initialized it.
Init ==
  /\ setup \in Setups
  /\ account = [arr |-> [k \in Positions |-> DefaultEntry], idx |-> MaxItems - 1,
                is_empty |-> TRUE, age |-> 0, age_epoch |-> 0,
                last_ip_timestamp |-> 0, last_version_timestamp |-> 0]
  /\ epoch = 0
  /\ now = 0
  /\ voted = {}
  /\ reclaimed = -1
  /\ since = NoEpoch
  /\ missed = FALSE

Next ==
  \/ CopyVoteAccount
  \/ \E e \in 0 .. MaxEpoch :
        \/ CopyTipDistributionAccount(e)
        \/ CopyPriorityFeeDistribution(e)
        \/ UpdateStakeHistory(e)
        \/ UpdatePriorityFeeHistory(e)
        \/ CopyIsBamConnected(e)
  \/ UploadValidatorAge
  \/ \E ts \in 1 .. MaxTime + 1 :
        CopyContactInfo(ts) \/ CopyLegacyContactInfo(ts) \/ CopyVersion(ts)
  \/ NextEpoch
  \/ Tick
  \/ Vote
  \/ ReclaimRent

Spec == Init /\ [][Next]_vars
-----------------------------------------------------------------------------
(* Properties *)

Known == {k \in Positions : account.arr[k].epoch # NoEpoch}

\* Every field has its type, and a fact in an entry is about the entry's epoch.
TypeOK ==
  /\ account.idx \in Positions
  /\ account.age \in 0 .. MaxEpoch + 1
  /\ account.age_epoch \in 0 .. MaxEpoch
  /\ account.last_ip_timestamp \in 0 .. MaxTime + 1
  /\ account.last_version_timestamp \in 0 .. MaxTime + 1
  /\ \A k \in Positions :
       LET entry == account.arr[k]
       IN  /\ entry.epoch \in 0 .. NoEpoch
           /\ \A f \in {"credits", "commission", "mev", "stake", "blocks", "bam"} :
                entry[f] \in {Unset, entry.epoch}
           /\ entry.tips \in {Unset, "paid", "none"}

\* "in sorted order": from the oldest place round to idx the epochs rise, unused
\* entries come in one piece, and what epoch_range finds of any range is what the
\* buffer holds of it.
SortedByEpoch ==
  /\ account.is_empty = (Known = {})
  /\ ~account.is_empty => Newest(account).epoch # NoEpoch
  /\ \A j, k \in 1 .. MaxItems :
       LET a == Chain(account)[j].epoch
           b == Chain(account)[k].epoch
       IN  j < k /\ a # NoEpoch => b # NoEpoch /\ a < b
  /\ \A first, last \in 0 .. MaxEpoch : first <= last =>
       EpochRange(account, first, last) =
         {account.arr[k] : k \in {j \in Known : account.arr[j].epoch \in first .. last}}

\* validator_age is the number of epochs with credits since the first entry (or
\* ever, after a backfill) up to the last one counted, unless more epochs went by
\* without a copy than a vote account remembers.
BackfillCountsCredits ==
  ~missed /\ ~account.is_empty /\ 0 < account.age_epoch /\ account.age_epoch < epoch =>
    account.age = Cardinality({e \in voted : since <= e /\ e <= account.age_epoch})

\* "Only counts completed epochs": the same of an age that no backfill replaced.
AgeCountsCredits == since # Ever => BackfillCountsCredits

\* Gossip that was signed earlier never replaces later gossip, nor follows it in a
\* later epoch.
GossipFresh ==
  \A j, k \in Known :
    LET a == account.arr[j]
        b == account.arr[k]
    IN  a.epoch <= b.epoch =>
          /\ a.ip # Unset /\ b.ip # Unset => a.ip <= b.ip
          /\ a.version # Unset /\ b.version # Unset => a.version <= b.version
          /\ b.ip # Unset => b.ip <= account.last_ip_timestamp
          /\ b.version # Unset => b.version <= account.last_version_timestamp

\* The account implements the bounded log of the latest epochs: nothing recorded
\* is lost but with the oldest entry of a full buffer, and the priority fees of an
\* epoch, "no possibility to overwrite", are final.
LogOf(h) ==
  [e \in {h.arr[k].epoch : k \in {j \in Positions : h.arr[j].epoch # NoEpoch}} |->
     h.arr[PositionOf(h, e)]]

Log == INSTANCE EpochLog
         WITH Capacity <- MaxItems, log <- LogOf(account),
              Facts <- {"credits", "commission", "mev", "stake", "blocks", "bam"},
              Final <- {"tips"}

ImplementsLog == Log!Spec
=============================================================================
