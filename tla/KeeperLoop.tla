----------------------------- MODULE KeeperLoop -----------------------------
(***************************************************************************)
(* run_keeper: every tick fetches the accounts in three steps, fires the    *)
(* operations whose interval has come, one after the other, from what was   *)
(* fetched, and goes on to the next tick.  How often an operation has run   *)
(* this epoch decides whether it runs again.  The keeper's state is lost in *)
(* a crash; the slots go on during every step and every cooldown.           *)
(*                                                                          *)
(* An operation's transactions keep the contract of Submission; packing     *)
(* leaves out an instruction whose simulation fails without an error (see   *)
(* Transactions): a drop.                                                   *)
(***************************************************************************)
EXTENDS Integers, Sequences, FiniteSets, FiniteSetsExt, SequencesExt

CONSTANTS
  Votes,             \* vote accounts with stake
  SlotsPerEpoch,
  Instants,          \* slots of an epoch at which something may happen: a bound
  FirstEpoch, StartSlot, \* when the keeper starts
  MaxEpoch,
  Recent,            \* 50000 slots of vote_account_uploaded_recently
  RunFlags,          \* run_flags to check: sets of operations
  FullStartup,       \* values of the full_startup option to check
  HistoryInterval, StewardInterval,
  TickPeriod,        \* ticks are counted modulo this
  MaxTroubles        \* faults, drops, restarts and copies by others, together: a bound

HistoryOps == <<"ClusterHistory", "VoteAccount", "MevCommission", "MevEarned",
  "StakeUpload", "GossipUpload", "PriorityFeeCommission", "CopyIsBamConnected">>
Ops == ToSet(HistoryOps) \cup {"Steward"}
Cluster == "cluster"

ASSUME KeeperLoopAssumption ==
  /\ IsFiniteSet(Votes) /\ Cluster \notin Votes
  /\ SlotsPerEpoch \in Nat /\ Recent \in Nat \ {0}
  /\ Instants \subseteq 0 .. SlotsPerEpoch - 1 /\ {0, StartSlot} \subseteq Instants
  /\ FirstEpoch \in Nat \ {0} /\ MaxEpoch \in Nat /\ FirstEpoch <= MaxEpoch
  /\ \A f \in RunFlags : f \subseteq Ops
  /\ FullStartup \subseteq BOOLEAN
  /\ \A i \in {HistoryInterval, StewardInterval,
               1 + Max({HistoryInterval, StewardInterval})} : TickPeriod % i = 0

VARIABLES
  clock,       \* [epoch, slot]: slot is the index in the epoch
  hist,        \* vote accounts with a validator history account
  recorded,    \* what was put into the history: [op, item, epoch, from], where
               \* from is the bank that stake was read from
  updated,     \* updated[i]: slot of the last copy of a vote account, of the
               \* cluster history; -1 for none
  targets,     \* targets[v]: slot of the last copy of v's directed target
  tips, roots, \* epochs with tip distribution accounts, with merkle roots
  steps,       \* steps of the steward: <<"score", e>>, <<"unstake", e>>
  run_flags,
  tick, pc, todo,
  st,          \* epoch_info, runs_for_epoch and the flags
  snap,        \* the accounts fetched
  faults, drops, restarts, others

chain == <<hist, recorded, updated, targets, tips, roots, steps>>
loop  == <<tick, pc, todo, st, snap>>
env   == <<clock, restarts, others>>
vars  == <<chain, loop, env, run_flags, faults, drops>>

FirstSlot(e) == e * SlotsPerEpoch
Now == FirstSlot(clock.epoch) + clock.slot
Epochs == FirstEpoch - 1 .. MaxEpoch

\* No threshold tells more runs apart, and some runs only go to the metrics.
MaxRuns == 3
Counted == {"ClusterHistory", "VoteAccount", "StakeUpload", "GossipUpload", "CopyIsBamConnected"}

NoBank == [epoch |-> 0, slot |-> 0]
NoSnap == [live |-> {}, bank |-> NoBank, hist |-> {}, recorded |-> {},
           updated |-> [v \in Votes |-> -1], tips |-> {}, roots |-> {}]
NoState(startup) == [epoch |-> 0, slot |-> 0, runs |-> [op \in Counted |-> 0],
                     Startup |-> startup, RerunVote |-> FALSE]

Init ==
  /\ clock = [epoch |-> FirstEpoch, slot |-> StartSlot]
  /\ hist \in SUBSET Votes
  /\ recorded = {} /\ tips = {FirstEpoch - 1} /\ roots = {} /\ steps = {}
  /\ updated = [i \in Votes \cup {Cluster} |-> -1]
  /\ targets = [v \in Votes |-> -1]
  /\ run_flags \in RunFlags
  /\ tick = HistoryInterval /\ pc = "pre" /\ todo = <<>> /\ snap = NoSnap
  /\ st \in {NoState(s) : s \in FullStartup}
  /\ faults = 0 /\ drops = 0 /\ restarts = 0 /\ others = 0
-----------------------------------------------------------------------------
(* The loop *)

Troubles == faults + drops + restarts + others
Fault == Troubles < MaxTroubles /\ faults' = faults + 1

ShouldUpdate(t) == t % HistoryInterval = 0 \/ t % StewardInterval = 0

\* operations of a tick; a run flag that is not set makes one do nothing
OpsOf(t) ==
  SelectSeq((IF t % HistoryInterval = 0 THEN HistoryOps ELSE <<>>)
              \o (IF t % StewardInterval = 0 THEN <<"Steward">> ELSE <<>>),
            LAMBDA op : op \in run_flags)

AdvanceTick ==
  /\ tick' = (tick + 1) % TickPeriod
  /\ pc' = "pre"
  /\ todo' = <<>>
  /\ snap' = NoSnap          \* every tick that fires fetches first

\* a fetch that fails skips the operations of the tick, without a pause
FetchFails ==
  /\ Fault
  /\ AdvanceTick

\* Mutant: counters are kept.
EpochInfoKeeping ==
  [st EXCEPT !.epoch = clock.epoch, !.slot = clock.slot]

\* get_epoch_info; a new epoch clears the counters
EpochInfo ==
  [st EXCEPT !.epoch = clock.epoch, !.slot = clock.slot,
             !.runs = IF clock.epoch # st.epoch THEN [op \in Counted |-> 0] ELSE @]

PreCreateUpdate ==
  /\ pc = "pre"
  /\ ShouldUpdate(tick)
  /\ \/ /\ st' = EpochInfo
        /\ pc' = "votes"
        /\ UNCHANGED <<tick, todo, snap, faults>>
     \/ FetchFails /\ st' \in {st, EpochInfo}
  /\ UNCHANGED <<chain, env, run_flags, drops>>

\* The banks a node answers from: the last one, or, as an epoch begins, the one
\* before.
Banks ==
  {clock} \cup IF clock.slot > 0 THEN {}
               ELSE {[epoch |-> clock.epoch - 1, slot |-> SlotsPerEpoch - 1]}

\* The accounts' activated stake is that of the bank's epoch; nothing else is read
\* from it.
VoteAccountsOf(bank) ==
  [snap EXCEPT !.live = Votes, !.bank = IF "StakeUpload" \in run_flags THEN bank ELSE NoBank]

\* Vote accounts come later than the epoch.
GetVoteAccountMap ==
  /\ pc = "votes"
  /\ \/ /\ \E bank \in Banks : snap' = VoteAccountsOf(bank)
        /\ pc' = "create"
        /\ UNCHANGED <<tick, todo, faults>>
     \/ FetchFails
  /\ UNCHANGED <<chain, env, run_flags, drops, st>>

\* create_missing_accounts: the results of the transactions are not looked at
CreateMissingAccounts ==
  /\ pc = "create"
  /\ \/ /\ hist' = hist \cup snap.live
        /\ pc' = "post"
        /\ UNCHANGED <<tick, todo, snap, faults>>
     \/ /\ Fault
        /\ \E S \in SUBSET snap.live : hist' = hist \cup S
        /\ pc' = "post"
        /\ UNCHANGED <<tick, todo, snap>>
     \/ FetchFails /\ UNCHANGED hist
  /\ UNCHANGED <<recorded, updated, targets, tips, roots, steps, env, run_flags, drops, st>>

PostCreateUpdate ==
  /\ pc = "post"
  /\ \/ /\ snap' = [snap EXCEPT !.hist = hist, !.recorded = recorded,
                      !.updated = [v \in Votes |-> updated[v]], !.tips = tips, !.roots = roots]
        /\ pc' = "fire"
        /\ todo' = OpsOf(tick)
        /\ UNCHANGED <<tick, faults>>
     \/ FetchFails
  /\ UNCHANGED <<chain, env, run_flags, drops, st>>

ShouldClearStartupFlag(t) == t % (1 + Max({HistoryInterval, StewardInterval})) = 0

SleepAndTick ==
  /\ \/ pc = "fire" /\ todo = <<>>
     \/ pc = "pre" /\ ~ShouldUpdate(tick)
  /\ AdvanceTick
  /\ st' = IF ShouldClearStartupFlag(tick) THEN [st EXCEPT !.Startup = FALSE] ELSE st
  /\ UNCHANGED <<chain, env, run_flags, faults, drops>>
-----------------------------------------------------------------------------
(* Operations *)

\* Run at 0.1%, 50% and 90% of the epoch
ThreeTimes(runs) ==
  \/ st.slot > SlotsPerEpoch \div 1000 /\ runs < 1
  \/ st.slot > (SlotsPerEpoch * 5) \div 10 /\ runs < 2
  \/ st.slot > (SlotsPerEpoch * 9) \div 10 /\ runs < 3

\* One operation: the items that land enter the history, and the run counts if
\* no error was reported.
Fire(op, should, due, mayDrop, Land(_)) ==
  /\ pc = "fire" /\ todo # <<>> /\ Head(todo) = op
  /\ todo' = Tail(todo)
  /\ LET cleared == IF op = "VoteAccount" THEN [st EXCEPT !.RerunVote = FALSE] ELSE st
     IN  \/ /\ ~should
            /\ st' = cleared
            /\ UNCHANGED <<recorded, updated, faults, drops>>
         \/ /\ should
            /\ \E lost \in {S \in SUBSET due : Troubles + Cardinality(S) <= MaxTroubles} :
                 /\ lost # {} => mayDrop
                 /\ Land(due \ lost)
                 /\ drops' = drops + Cardinality(lost)
            /\ st' = IF op \in Counted THEN [cleared EXCEPT !.runs[op] = Min({@ + 1, MaxRuns})]
                     ELSE cleared
            /\ UNCHANGED faults
         \/ /\ should
            /\ Fault
            /\ \E S \in SUBSET due : Land(S)
            /\ st' = cleared
            /\ UNCHANGED drops
  /\ snap' = IF todo' \in {<<>>, <<"Steward">>} THEN NoSnap ELSE snap  \* not read again
  /\ UNCHANGED <<hist, targets, tips, roots, steps, env, run_flags, tick, pc>>

Entries(op, items, e, from) ==
  {[op |-> op, item |-> i, epoch |-> e, from |-> from] : i \in items}
Has(r, op, i, e) == \E x \in r : x.op = op /\ x.item = i /\ x.epoch = e

\* There is an entry to write to, or one is pushed: an epoch that was passed over
\* is not inserted.  Without room the instruction has no effect, or fails and is
\* packed into no transaction.
Room(i, e) ==
  \/ \E x \in recorded : x.item = i /\ x.epoch = e
  \/ \A x \in recorded : x.item = i => x.epoch <= e

Record(op, items, e, from) ==
  /\ recorded' = recorded \cup Entries(op, {i \in items : Room(i, e)}, e, from)
  /\ UNCHANGED updated

\* copies what the chain knows when the transaction lands
Copy(op, items) ==
  /\ recorded' = recorded \cup Entries(op, items \ {Cluster}, clock.epoch, NoBank)
  /\ updated' = [i \in DOMAIN updated |-> IF i \in items THEN Now ELSE updated[i]]

\* the history's last entry is of the epoch and has the field set
LastHas(op, i, e) ==
  Has(snap.recorded, op, i, e) /\ \A x \in snap.recorded : x.item = i => x.epoch <= e

ClusterHistory ==
  Fire("ClusterHistory", ThreeTimes(st.runs["ClusterHistory"]), {Cluster}, FALSE,
       LAMBDA S : Copy("ClusterHistory", S))

\* Mutant: in this epoch, whatever the slot.
UploadedThisEpoch(v) == snap.updated[v] >= FirstSlot(st.epoch)

\* vote_account_uploaded_recently
UploadedRecently(v) ==
  /\ snap.updated[v] >= FirstSlot(st.epoch)
  /\ snap.updated[v] > FirstSlot(st.epoch) + st.slot - Recent

UpdateVoteAccounts ==
  {v \in snap.hist : st.Startup \/ st.RerunVote \/ ~UploadedRecently(v)}

VoteAccount ==
  Fire("VoteAccount", ThreeTimes(st.runs["VoteAccount"]) \/ st.RerunVote,
       UpdateVoteAccounts, TRUE, LAMBDA S : Copy("VoteAccount", S))

\* update_mev_commission: tip distribution accounts of this epoch that are not
\* recorded yet
UpdateMevCommission ==
  {v \in snap.hist : st.epoch \in snap.tips /\ ~LastHas("MevCommission", v, st.epoch)}

MevCommission ==
  Fire("MevCommission", TRUE, UpdateMevCommission, TRUE,
       LAMBDA S : Record("MevCommission", S, st.epoch, NoBank))

\* update_mev_earned: those of the last epoch that have their merkle root
UpdateMevEarned ==
  {v \in snap.hist :
     st.epoch - 1 \in snap.roots /\ ~Has(snap.recorded, "MevEarned", v, st.epoch - 1)}

MevEarned ==
  Fire("MevEarned", TRUE, UpdateMevEarned, TRUE,
       LAMBDA S : Record("MevEarned", S, st.epoch - 1, NoBank))

\* The last epoch anybody has voted in: nobody has in an epoch's first slot.
LastVoted(bank) == IF bank.slot = 0 THEN bank.epoch - 1 ELSE bank.epoch

\* Mutant: without a look at the epoch the vote accounts are of.
MismatchNever == FALSE

\* EpochMismatch: nothing is sent and the run does not count
EpochMismatch == LastVoted(snap.bank) # st.epoch

\* update_stake_history
UpdateStakeHistory ==
  {v \in snap.live \cap snap.hist : ~EpochMismatch /\ ~LastHas("StakeUpload", v, st.epoch)}

StakeUpload ==
  Fire("StakeUpload", ThreeTimes(st.runs["StakeUpload"]) /\ ~EpochMismatch,
       UpdateStakeHistory, TRUE,
       LAMBDA S : Record("StakeUpload", S, st.epoch, snap.bank))

\* upload_gossip_values, for every validator with a vote account and a history
\* account; one that gossip has not discovered in time is left out, as by a drop
UploadGossipValues == snap.live \cap snap.hist

GossipUpload ==
  Fire("GossipUpload",
       st.runs["GossipUpload"] < 1 \/ ThreeTimes(st.runs["GossipUpload"]),
       UploadGossipValues, TRUE,
       LAMBDA S : Record("GossipUpload", S, clock.epoch, NoBank))

\* update_priority_fee_commission, with a look-back of one epoch; an entry whose
\* fees are zero is sent again every time, to the same effect
UpdatePriorityFeeCommission ==
  {v \in snap.hist : /\ \E x \in snap.recorded : x.item = v /\ x.epoch = st.epoch - 1
                     /\ ~Has(snap.recorded, "PriorityFeeCommission", v, st.epoch - 1)}

\* not packed
PriorityFeeCommission ==
  Fire("PriorityFeeCommission", TRUE, UpdatePriorityFeeCommission, FALSE,
       LAMBDA S : Record("PriorityFeeCommission", S, st.epoch - 1, NoBank))

\* once, after 10% of the epoch, for the last one
CopyIsBamConnected ==
  Fire("CopyIsBamConnected",
       st.slot > (SlotsPerEpoch * 10) \div 100 /\ st.runs["CopyIsBamConnected"] < 1,
       snap.hist, TRUE,
       LAMBDA S : Record("CopyIsBamConnected", S, st.epoch - 1, NoBank))
-----------------------------------------------------------------------------
(* The steward's operation *)

\* The slot is fetched now, the epoch is that of the tick.
ShouldCopyDirectedStakeTargets ==
  /\ 2 * (Now - FirstSlot(st.epoch)) > SlotsPerEpoch
  /\ \A v \in Votes : targets[v] \div SlotsPerEpoch # st.epoch

\* the program stamps a target with its own clock
CopyDirectedStakeTargets ==
  \/ /\ ShouldCopyDirectedStakeTargets
     /\ targets' = [v \in Votes |-> Now]
     /\ UNCHANGED faults
  \/ /\ ShouldCopyDirectedStakeTargets
     /\ Fault
     /\ \E S \in SUBSET Votes : targets' = [v \in Votes |-> IF v \in S THEN Now ELSE targets[v]]
  \/ ~ShouldCopyDirectedStakeTargets /\ UNCHANGED <<targets, faults>>

\* Scoring needs vote accounts of this epoch; instant unstake needs vote accounts
\* and the cluster history of its second half, and comes after 90%.
Wanted ==
  LET done(s) == <<s, clock.epoch>> \in steps
  IN  IF ~done("score") THEN {"score"}
      ELSE IF ~done("unstake") /\ 10 * clock.slot >= 9 * SlotsPerEpoch THEN {"unstake"}
      ELSE {}

RecentEnough(step, i) ==
  updated[i] >= FirstSlot(clock.epoch) + (IF step = "unstake" THEN SlotsPerEpoch \div 2 ELSE 0)

\* Mutant: VoteHistoryNotRecentEnough is reported and nothing else.
RerunNever == st

\* VoteHistoryNotRecentEnough in a preflight failure asks for another copy
Rerun == [st EXCEPT !.RerunVote = TRUE]

Steward ==
  /\ pc = "fire" /\ todo # <<>> /\ Head(todo) = "Steward"
  /\ todo' = Tail(todo)
  /\ CopyDirectedStakeTargets
  /\ \/ Wanted = {} /\ UNCHANGED <<st, steps>>
     \/ \E step \in Wanted :
          /\ \E v \in hist : ~RecentEnough(step, v)
          /\ st' = Rerun
          /\ UNCHANGED steps
     \/ \E step \in Wanted :
          /\ \A v \in hist : RecentEnough(step, v)
          /\ steps' = IF step = "unstake" /\ ~RecentEnough(step, Cluster)
                      THEN steps ELSE steps \cup {<<step, clock.epoch>>}
          /\ UNCHANGED st
  /\ UNCHANGED <<hist, recorded, updated, tips, roots, env, run_flags, tick, pc, snap, drops>>
-----------------------------------------------------------------------------
(* The world *)

NextInstant ==
  /\ LET later == {s \in Instants : s > clock.slot}
     IN  \/ later # {} /\ clock' = [clock EXCEPT !.slot = Min(later)]
         \/ /\ later = {} /\ clock.epoch < MaxEpoch
            /\ clock' = [epoch |-> clock.epoch + 1, slot |-> 0]
  /\ UNCHANGED <<chain, loop, run_flags, faults, drops, restarts, others>>

\* copy_vote_account is permissionless
OthersCopy(v) ==
  /\ Troubles < MaxTroubles /\ others' = others + 1
  /\ {"VoteAccount", "StakeUpload"} \cap run_flags # {}
  /\ v \in hist
  /\ Copy("VoteAccount", {v})
  /\ UNCHANGED <<hist, targets, tips, roots, steps, clock, restarts, loop, run_flags, faults, drops>>

TipAccounts ==
  /\ "MevCommission" \in run_flags
  /\ \/ tips' = tips \cup {clock.epoch} /\ UNCHANGED roots
     \/ /\ clock.epoch - 1 \in tips
        /\ roots' = roots \cup {clock.epoch - 1}
        /\ UNCHANGED tips
  /\ UNCHANGED <<hist, recorded, updated, targets, steps, loop, env, run_flags, faults, drops>>

Crash ==
  /\ Troubles < MaxTroubles /\ restarts' = restarts + 1
  /\ tick' = HistoryInterval /\ pc' = "pre" /\ todo' = <<>> /\ snap' = NoSnap
  /\ st' \in {NoState(s) : s \in FullStartup}
  /\ UNCHANGED <<chain, clock, others, run_flags, faults, drops>>

Keeper ==
  \/ PreCreateUpdate \/ GetVoteAccountMap \/ CreateMissingAccounts \/ PostCreateUpdate
  \/ ClusterHistory \/ VoteAccount \/ MevCommission \/ MevEarned \/ StakeUpload
  \/ GossipUpload \/ PriorityFeeCommission \/ CopyIsBamConnected \/ Steward
  \/ SleepAndTick

Next == Keeper \/ NextInstant \/ (\E v \in Votes : OthersCopy(v)) \/ TipAccounts \/ Crash

\* The loop never stops and slots go on.
Spec == Init /\ [][Next]_vars /\ WF_vars(Keeper) /\ WF_vars(NextInstant)
-----------------------------------------------------------------------------
(* Properties *)

Stakes == {x \in recorded : x.op = "StakeUpload"}

\* read in its epoch, or in the slot in which the next one began
OfItsEpoch(x) ==
  x.from.epoch = x.epoch \/ x.from = [epoch |-> x.epoch + 1, slot |-> 0]

\* The stake recorded for an epoch is that epoch's, however the epoch changes between
\* the requests of one fetch and between fetch and upload, unless the vote accounts
\* were read in the very slot in which the next epoch began and nobody had voted.  And
\* it is recorded once: that slot's stake does not replace what is recorded, unless
\* somebody else's copy has given the history an entry of the new epoch (or a
\* transaction that was given up on lands late).
StakeOfItsEpoch ==
  \A x \in Stakes :
    /\ OfItsEpoch(x)
    /\ others = 0 /\ faults = 0 /\ restarts = 0 =>
         \A y \in Stakes : y.item = x.item /\ y.epoch = x.epoch => y = x

\* The comment in update_stake_history: the response contains the stake of the
\* current epoch.
StakeIsFresh == \A x \in Stakes : x.from.epoch = x.epoch

\* What was right is not made wrong.
StakeStaysRight ==
  \A x, y \in Stakes : x.item = y.item /\ x.epoch = y.epoch => x.from.epoch = y.from.epoch

LateCopies ==
  st.epoch = clock.epoch /\ st.runs["VoteAccount"] >= 3 /\ drops = 0 =>
    \A v \in Votes : updated[v] > FirstSlot(st.epoch) + (SlotsPerEpoch * 9) \div 10 - Recent

\* Three counted runs of the vote account copy mean a copy from about the last
\* tenth of the epoch, whoever else copies, and though the reruns that the steward
\* asks for count as runs: unless packing dropped one, or a failed request left out
\* an account that is created, and asks for a rerun, later.
ThirdRunIsLate ==
  /\ hist = Votes => []LateCopies
  /\ [](faults = 0 => LateCopies)

\* What an epoch should leave behind: three-run feeds of the epoch itself, the
\* others of the epoch before.
Feeds == {[op |-> "StakeUpload", epoch |-> MaxEpoch], [op |-> "GossipUpload", epoch |-> MaxEpoch],
          [op |-> "VoteAccount", epoch |-> MaxEpoch], [op |-> "MevCommission", epoch |-> MaxEpoch],
          [op |-> "MevEarned", epoch |-> MaxEpoch - 1],
          [op |-> "PriorityFeeCommission", epoch |-> MaxEpoch - 1],
          [op |-> "CopyIsBamConnected", epoch |-> MaxEpoch - 1]}

Missing(f, v) ==
  /\ f.op \in run_flags
  /\ ~Has(recorded, f.op, v, f.epoch)
  /\ Room(v, f.epoch)
  /\ CASE f.op = "MevCommission" -> f.epoch \in tips
       [] f.op = "MevEarned" -> f.epoch \in roots
       [] f.op = "PriorityFeeCommission" ->
            \E x \in recorded : x.item = v /\ x.epoch = f.epoch
       [] OTHER -> TRUE

\* Every feed of every validator that the history has room for is recorded in spite
\* of failed fetches, failed transactions, a restart, and an instruction that packing
\* dropped.  The one operation with a single run needs the history account to be there
\* before it, and nothing dropped.
EveryFeedRecorded ==
  /\ <>[](\A f \in Feeds, v \in Votes : Missing(f, v) => f.op = "CopyIsBamConnected")
  /\ hist = Votes => <>[](drops = 0 => \A f \in Feeds, v \in Votes : ~Missing(f, v))

\* An instant unstake that meets vote accounts which are too old (another copy
\* made the keeper skip its own, or packing dropped it) is unblocked by a rerun.
StewardUnblocked ==
  <>[]({"ClusterHistory", "VoteAccount", "Steward"} \subseteq run_flags
         => <<"unstake", MaxEpoch>> \in steps)

\* The documentation of should_copy_directed_stake_targets: the epoch is more
\* than 50% complete.
TargetsAreLate ==
  \A v \in Votes : targets[v] >= 0 => 2 * (targets[v] % SlotsPerEpoch) > SlotsPerEpoch
=============================================================================
