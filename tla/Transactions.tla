---------------------------- MODULE Transactions ----------------------------
(***************************************************************************)
(* parallel_execute_transactions of the SDK and the packing that feeds it:  *)
(* instructions are grouped into transactions, signed with one blockhash,   *)
(* sent, confirmed after a pause, and signed again when the blockhash is no *)
(* longer valid.  The chain (which transactions land, when a blockhash      *)
(* expires) and the RPC node (which requests fail) are the environment.     *)
(*                                                                          *)
(* A signature is a pair <<index of the transaction, blockhash>>; the       *)
(* blockhashes are numbered from the one the first signing uses.            *)
(***************************************************************************)
EXTENDS Integers, Sequences, FiniteSets, SequencesExt

CONSTANTS Calls,        \* calls to check: the instructions and retry_count of each
          GroupSizes,   \* instructions of one kind that fit a transaction
          ChunkSize,    \* chunk_size of submit_chunk_instructions
          MaxHash       \* blockhashes the chain produces: a bound

ASSUME TransactionsAssumption ==
  /\ GroupSizes \subseteq Nat \ {0}
  /\ ChunkSize \in Nat \ {0}
  /\ \A c \in Calls : c.retry_count \in Nat /\ c.instructions \in Seq(ToSet(c.instructions))
  /\ MaxHash \in Nat /\ MaxHash > 1

VARIABLES
  call,        \* the call: [instructions, retry_count]
  dropped,     \* instructions left out because their simulation failed
  txs,         \* the transactions, each a sequence of instructions
  phase,       \* "start", "send", "confirm", "check" or "done"
  idx,         \* the next transaction of this pass
  results,     \* results[t]: "ok", "retries", "error" or "preflight"
  signed,      \* the blockhash signed_txs carry
  submitted,   \* the transactions this pass submitted
  notFound,    \* is_blockhash_not_found of this pass
  retries,
  outcome,     \* "none", "ok" or "client_error"
  net,         \* net[s]: "unsent", "sent", "landed" or "failed"
  oldest,      \* blockhashes below this one have expired
  latest,      \* the newest blockhash
  everLost     \* a send was answered with BlockhashNotFound

caller == <<call, dropped, txs, phase, idx, results, signed, submitted, notFound, retries,
            outcome, everLost>>
ledger == <<net, oldest, latest>>
execVars == <<caller, ledger>>

Txs == 1 .. Len(txs)
FirstHash == 1
Sigs == Txs \X (FirstHash .. MaxHash)

-----------------------------------------------------------------------------
(* Packing. *)

\* Mutant: chunks_exact: the rest of a group is lost
ChunksExact(s, k) ==
  [j \in 1 .. (Len(s) \div k) |-> SubSeq(s, (j - 1) * k + 1, j * k)]

\* Rust's slice::chunks
Chunks(s, k) ==
  [j \in 1 .. ((Len(s) + k - 1) \div k) |->
     SubSeq(s, (j - 1) * k + 1, IF j * k < Len(s) THEN j * k ELSE Len(s))]

\* find_ix_per_tx for each: as many as fit, or 0 when the simulation fails
FindIxPerTx(ixs) == [ToSet(ixs) -> GroupSizes \cup {0}]

\* the instructions of which k fit a transaction, pushed one after the other
Group(ixs, f, k) ==
  LET pushed[n \in 0 .. Len(ixs)] ==
        IF n = 0 THEN <<>>
        ELSE IF f[ixs[n]] = k THEN Append(pushed[n - 1], ixs[n]) ELSE pushed[n - 1]
  IN  pushed[Len(ixs)]

\* pack_instructions: an instruction whose simulation failed is left out, the
\* others are grouped by size; the map's groups come in any order
PackInstructions(ixs, f) ==
  LET sizes == {f[i] : i \in DOMAIN f} \ {0}
  IN  {FlattenSeq([j \in DOMAIN order |-> Chunks(Group(ixs, f, order[j]), order[j])]) :
         order \in SetToSeqs(sizes)}

\* chunk_size of submit_chunk_instructions, and 1 for no_pack: no simulation
ParallelExecuteChunkInstructions(ixs) == Chunks(ixs, ChunkSize)
NoPack(ixs) == Chunks(ixs, 1)

-----------------------------------------------------------------------------
(* The caller. *)

ExecInit ==
  /\ call \in Calls
  /\ LET ixs == call.instructions IN
     \/ \E fits \in FindIxPerTx(ixs) :
          /\ txs \in PackInstructions(ixs, fits)
          /\ dropped = {i \in ToSet(ixs) : fits[i] = 0}
     \/ /\ txs \in {ParallelExecuteChunkInstructions(ixs), NoPack(ixs)}
        /\ dropped = {}
  /\ phase = "start"
  /\ idx = 1
  /\ results = [t \in Txs |-> "retries"]
  /\ signed = FirstHash
  /\ submitted = {}
  /\ notFound = FALSE
  /\ retries = 0
  /\ outcome = "none"
  /\ everLost = FALSE
  /\ net = [s \in Sigs |-> "unsent"]
  /\ oldest = FirstHash
  /\ latest = FirstHash

Return(o) ==
  /\ phase' = "done"
  /\ outcome' = o

\* the head of the while loop: submitted_signatures and the flag are new
NewPass(r) ==
  /\ idx' = 1
  /\ submitted' = {}
  /\ notFound' = FALSE
  /\ IF r < call.retry_count
       THEN phase' = "send" /\ UNCHANGED outcome
       ELSE Return("ok")

\* an empty batch returns at once; else get_latest_blockhash_with_retry and sign
Start ==
  /\ phase = "start"
  /\ \/ /\ Txs = {}
        /\ Return("ok")
        /\ UNCHANGED <<idx, submitted, notFound>>
     \/ /\ Txs # {}
        /\ Return("client_error")
        /\ UNCHANGED <<idx, submitted, notFound>>
     \/ /\ Txs # {}
        /\ NewPass(retries)
  /\ UNCHANGED <<call, dropped, txs, results, signed, retries, everLost, ledger>>

Skipped(t) == results[t] \in {"ok", "preflight"}

Sig(t) == <<t, signed>>

\* a signature the network has not seen before is now on its way
Forward(s) == net' = [net EXCEPT ![s] = IF @ = "unsent" THEN "sent" ELSE @]

\* One round of the for loop.  Whatever the node answers, the request may have
\* been forwarded when the answer is an error of the transport.
Send ==
  /\ phase = "send"
  /\ idx \in Txs
  /\ idx' = idx + 1
  /\ \/ /\ Skipped(idx)
        /\ UNCHANGED <<results, submitted, notFound, everLost, net>>
     \/ /\ ~Skipped(idx)
        /\ Forward(Sig(idx))
        /\ submitted' = submitted \cup {idx}
        /\ UNCHANGED <<results, notFound, everLost>>
     \/ /\ ~Skipped(idx)
        /\ notFound' = TRUE
        /\ everLost' = TRUE
        /\ UNCHANGED <<results, submitted, net>>
     \/ /\ ~Skipped(idx)
        /\ net[Sig(idx)] \in {"landed", "failed"}     \* AlreadyProcessed
        /\ submitted' = submitted \cup {idx}
        /\ UNCHANGED <<results, notFound, everLost, net>>
     \/ /\ ~Skipped(idx)
        /\ results' = [results EXCEPT ![idx] = "preflight"]
        /\ UNCHANGED <<submitted, notFound, everLost, net>>
     \/ /\ ~Skipped(idx)
        /\ results' = [results EXCEPT ![idx] = "error"]
        /\ Forward(Sig(idx)) \/ UNCHANGED net
        /\ UNCHANGED <<submitted, notFound, everLost>>
  /\ UNCHANGED <<call, dropped, txs, phase, signed, retries, outcome, oldest, latest>>

\* after the loop: all failed preflight, or nothing to confirm
EndOfPass ==
  /\ phase = "send"
  /\ idx \notin Txs
  /\ IF (\A t \in Txs : results[t] = "preflight") \/ submitted = {}
       THEN Return("ok")
       ELSE phase' = "confirm" /\ UNCHANGED outcome
  /\ UNCHANGED <<call, dropped, txs, idx, results, signed, submitted, notFound, retries,
                 everLost, ledger>>

\* Mutant: any status counts, also one with an error
ConfirmedAny(answered) == {t \in answered : net[Sig(t)] \in {"landed", "failed"}}

\* a signature counts when its status is there and carries no error
Confirmed(answered) == {t \in answered : net[Sig(t)] = "landed"}

\* parallel_confirm_transactions; a batch whose request fails confirms nothing
Confirm ==
  /\ phase = "confirm"
  /\ \E answered \in SUBSET submitted :
       LET r == [t \in Txs |-> IF t \in Confirmed(answered) THEN "ok" ELSE results[t]]
       IN  /\ results' = r
           /\ IF \A t \in Txs : r[t] = "ok"
                THEN Return("ok")
                ELSE phase' = "check" /\ UNCHANGED outcome
  /\ UNCHANGED <<call, dropped, txs, idx, signed, submitted, notFound, retries, everLost,
                 ledger>>

\* Mutant: sign again after every pass
ResignAnyway == TRUE

\* Mutant: never ask whether the blockhash is valid
KeepSigning == notFound

\* is_blockhash_valid is always asked about the first blockhash: the fresh one
\* is bound to a name of its own inside the if
MustResign == notFound \/ FirstHash < oldest

Check ==
  /\ phase = "check"
  /\ \/ /\ MustResign
        /\ signed' = latest
        /\ retries' = retries + 1
        /\ NewPass(retries')
     \/ /\ ~MustResign
        /\ NewPass(retries)
        /\ UNCHANGED <<signed, retries>>
     \/ /\ Return("client_error")
        /\ UNCHANGED <<idx, submitted, notFound, signed, retries>>
  /\ UNCHANGED <<call, dropped, txs, results, everLost, ledger>>

-----------------------------------------------------------------------------
(* The chain. *)

\* what was sent lands, or fails on chain, while its blockhash is recent
Land(s) ==
  /\ net[s] = "sent"
  /\ s[2] >= oldest
  /\ \E how \in {"landed", "failed"} : net' = [net EXCEPT ![s] = how]
  /\ UNCHANGED <<caller, oldest, latest>>

Produce ==
  /\ phase # "start"
  /\ latest < MaxHash
  /\ latest' = latest + 1
  /\ UNCHANGED <<caller, net, oldest>>

Expire ==
  /\ oldest < latest
  /\ oldest' = oldest + 1
  /\ UNCHANGED <<caller, net, latest>>

Caller == Start \/ Send \/ EndOfPass \/ Confirm \/ Check
ExecNext == Caller \/ (\E s \in Sigs : Land(s)) \/ Produce \/ Expire

\* The caller's loop goes on by itself; blockhashes are produced and expire.
\* Nothing makes a transaction land.
ExecSpec ==
  /\ ExecInit /\ [][ExecNext]_execVars
  /\ WF_execVars(Caller) /\ WF_execVars(Produce) /\ WF_execVars(Expire)

-----------------------------------------------------------------------------
(* Properties. *)

Landings(t) == {h \in FirstHash .. MaxHash : net[<<t, h>>] = "landed"}
Effective == {t \in Txs : Landings(t) # {}}

\* stats.errors: every keeper operation counts its run by it
Errors == Cardinality({t \in Txs : results[t] # "ok"})

TypeOK ==
  /\ phase \in {"start", "send", "confirm", "check", "done"}
  /\ idx \in 1 .. Len(txs) + 1
  /\ results \in [Txs -> {"ok", "retries", "error", "preflight"}]
  /\ signed \in FirstHash .. MaxHash
  /\ submitted \subseteq Txs
  /\ retries \in 0 .. call.retry_count
  /\ outcome \in {"none", "ok", "client_error"}
  /\ net \in [Sigs -> {"unsent", "sent", "landed", "failed"}]
  /\ oldest <= latest /\ latest <= MaxHash

\* The executor implements the contract of Submission: what it reports as a
\* success has landed without an error, however late the status arrived and
\* whichever signature the pass that confirmed it had sent.
Submitted == INSTANCE Submission WITH
  effective <- Effective,
  report    <- IF phase = "done" THEN {{t \in Txs : results[t] = "ok"}} ELSE {}
ImplementsSubmission == Submitted!Spec

\* A call that reports no error has executed every instruction that passed its
\* simulation: packing puts each one into a transaction.  (The ones
\* that failed simulation are dropped without counting as errors.)
CleanRunExecutedAll ==
  phase = "done" /\ outcome = "ok" /\ Errors = 0 =>
    \A i \in ToSet(call.instructions) \ dropped :
      \E t \in Effective : i \in ToSet(txs[t])

\* Up to the second signing no two signatures of a transaction can land, unless
\* the node claimed not to know a blockhash: the first one is dead by the time
\* the second one is made.
Live(t) == {h \in oldest .. MaxHash : net[<<t, h>>] = "sent"}
OneLiveSignature ==
  ~everLost /\ retries <= 1 => \A t \in Txs : Cardinality(Live(t)) <= 1

\* retries only counts signings, yet the loop ends: the first blockhash expires,
\* and from then on every pass signs again.
Terminates == <>(phase = "done")

\* What the name of the error says: retries were exceeded.
ExceededMeansExceeded ==
  phase = "done" /\ outcome = "ok" =>
    \A t \in Txs : results[t] = "retries" => retries = call.retry_count

\* What is_blockhash_valid is there for: no new signature while an earlier one
\* may still land.
ResignedOnlyDead ==
  ~everLost => \A t \in Txs : Cardinality(Live(t)) <= 1
=============================================================================
