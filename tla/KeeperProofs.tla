---------------------------- MODULE KeeperProofs ----------------------------
(***************************************************************************)
(* Proofs about the keeper's executor of transactions and its main loop.    *)
(*                                                                          *)
(* Transactions, for every set of calls, every way to pack them and any     *)
(* number of blockhashes: the executor implements Submission, a call        *)
(* without errors has executed what it was given, and up to its second      *)
(* signing it has one live signature per transaction.                       *)
(*                                                                          *)
(* KeeperLoop, for any set of vote accounts, length of epoch, intervals,    *)
(* operations that run, and any number of faults, drops, restarts and       *)
(* copies by others: stake is recorded once and under its own epoch, up to  *)
(* the slot in which the next one begins, and three runs of the vote        *)
(* account copy mean a late copy.                                           *)
(***************************************************************************)
EXTENDS KeeperLoop, Transactions, WellOrder, SequenceTheorems
-----------------------------------------------------------------------------
(* The executor *)

Hashes == FirstHash .. MaxHash

\* What the proofs need of the types.
ExecTyped ==
  /\ phase \in {"start", "send", "confirm", "check", "done"}
  /\ results \in [Txs -> {"ok", "retries", "error", "preflight"}]
  /\ submitted \in SUBSET Txs
  /\ notFound \in BOOLEAN /\ everLost \in BOOLEAN
  /\ signed \in Hashes /\ oldest \in Hashes /\ latest \in Hashes
  /\ retries \in Nat
  /\ net \in [Sigs -> {"unsent", "sent", "landed", "failed"}]

\* A transaction is reported as a success only when one of its signatures landed.
OkLanded == \A t \in Txs : results[t] = "ok" => Landings(t) # {}

\* The signatures there are: all carry the first blockhash or the current one, as
\* long as no more than one signing followed the first; and a blockhash that no
\* node has disowned is replaced only after it has expired.
SignedOnce ==
  /\ notFound => everLost
  /\ retries = 0 => signed = FirstHash
  /\ retries <= 1 =>
       \A s \in Sigs : net[s] # "unsent" => s[2] \in {FirstHash, signed}
  /\ retries = 1 /\ ~everLost => FirstHash < oldest

ExecutorInv == ExecTyped /\ OkLanded /\ SignedOnce
-----------------------------------------------------------------------------
\* The bounds of the constants, as the proofs use them.
LEMMA HashRange ==
  /\ MaxHash \in Nat /\ FirstHash \in Hashes
  /\ \A h \in Hashes : h \in Nat /\ FirstHash <= h /\ h <= MaxHash
BY TransactionsAssumption DEF Hashes, FirstHash

\* The signature of a transaction is one the chain knows.
LEMMA SigTyped ==
  ASSUME ExecTyped, NEW t \in Txs
  PROVE  Sig(t) \in Sigs /\ Sig(t)[1] = t /\ Sig(t)[2] = signed
BY DEF ExecTyped, Sig, Sigs, Hashes

\* Before anything is signed and sent nothing is reported.
LEMMA InitExecutor == ExecInit => ExecutorInv
<1> SUFFICES ASSUME ExecInit PROVE ExecutorInv
  OBVIOUS
<1>1. ExecTyped
  BY HashRange DEF ExecInit, ExecTyped, FirstHash
<1>2. OkLanded
  BY DEF ExecInit, OkLanded
<1>3. SignedOnce
  BY DEF ExecInit, SignedOnce
<1> QED BY <1>1, <1>2, <1>3 DEF ExecutorInv

\* What a send does: the set of transactions stays, a signature is forwarded or
\* not, and no result becomes a success.
LEMMA SendStep ==
  ASSUME ExecutorInv, Send
  PROVE  ExecutorInv' /\ Effective' = Effective
<1>0. /\ ExecTyped /\ OkLanded /\ SignedOnce /\ idx \in Txs
      /\ Txs' = Txs /\ Sigs' = Sigs /\ UNCHANGED <<phase, signed, retries, oldest, latest>>
  BY DEF ExecutorInv, Send, Txs, Sigs
<1>1. /\ results' \in [Txs -> {"ok", "retries", "error", "preflight"}]
      /\ \A t \in Txs : results'[t] = "ok" => results[t] = "ok"
  BY <1>0 DEF Send, ExecTyped
<1>2. \/ net' = net
      \/ net' = [net EXCEPT ![Sig(idx)] = IF @ = "unsent" THEN "sent" ELSE @]
  BY DEF Send, Forward
<1>3. /\ net' \in [Sigs -> {"unsent", "sent", "landed", "failed"}]
      /\ \A s \in Sigs : net'[s] = "landed" <=> net[s] = "landed"
      /\ \A s \in Sigs : net'[s] # "unsent" => net[s] # "unsent" \/ s = Sig(idx)
  BY <1>0, <1>2, SigTyped DEF ExecTyped
<1>4. ExecTyped'
  BY <1>0, <1>1, <1>3 DEF Send, ExecTyped
<1>5. \A t \in Txs : Landings(t)' = Landings(t)
  BY <1>0, <1>3 DEF Landings, Sigs, Hashes
<1>6. OkLanded'
  BY <1>0, <1>1, <1>5 DEF OkLanded
<1>7. notFound' => everLost'
  BY <1>0 DEF Send, SignedOnce
<1>8. everLost => everLost'
  BY <1>0 DEF Send, ExecTyped
<1>9. SignedOnce'
  BY <1>0, <1>3, <1>7, <1>8, SigTyped DEF SignedOnce
<1> QED BY <1>0, <1>4, <1>5, <1>6, <1>9 DEF ExecutorInv, Effective

\* A flag that stays or is cleared.
LEMMA FlagStep ==
  ASSUME notFound \in BOOLEAN, notFound' = notFound \/ notFound' = FALSE
  PROVE  notFound' \in BOOLEAN /\ (notFound' => notFound)
<1>1. notFound' \in BOOLEAN
  OBVIOUS
<1>2. notFound' => notFound
  OBVIOUS
<1> QED BY <1>1, <1>2

\* The first blockhash, the end of a pass, the confirmation and the check of the
\* blockhash: nothing moves on the chain, and what becomes a success has landed.
LEMMA CallerStep ==
  ASSUME ExecutorInv, Start \/ EndOfPass \/ Confirm \/ Check
  PROVE  ExecutorInv' /\ Effective' = Effective
<1>0. /\ ExecTyped /\ OkLanded /\ SignedOnce /\ Txs' = Txs /\ Sigs' = Sigs
      /\ UNCHANGED <<txs, everLost, net, oldest, latest>>
  BY DEF ExecutorInv, Start, EndOfPass, Confirm, Check, Txs, Sigs, ledger
<1>1. \A t \in Txs : Landings(t)' = Landings(t)
  BY <1>0 DEF Landings
<1>2. CASE Start
  <2>1. /\ phase' \in {"send", "done"} /\ submitted' \in {submitted, {}}
        /\ UNCHANGED <<results, signed, retries>>
    BY <1>2 DEF Start, NewPass, Return
  <2>4. notFound' = notFound \/ notFound' = FALSE
    BY <1>2 DEF Start, NewPass
  <2>3. notFound' \in BOOLEAN /\ (notFound' => notFound)
    BY <2>4, <1>0, FlagStep DEF ExecTyped
  <2>2. ExecTyped' /\ OkLanded' /\ SignedOnce'
    BY <2>1, <2>3, <1>0, <1>1 DEF ExecTyped, OkLanded, SignedOnce
  <2> QED BY <2>2, <1>0, <1>1 DEF ExecutorInv, Effective
<1>3. CASE EndOfPass
  <2>1. /\ phase' \in {"confirm", "done"}
        /\ UNCHANGED <<results, signed, submitted, notFound, retries>>
    BY <1>3 DEF EndOfPass, Return
  <2>2. ExecTyped' /\ OkLanded' /\ SignedOnce'
    BY <2>1, <1>0, <1>1 DEF ExecTyped, OkLanded, SignedOnce
  <2> QED BY <2>2, <1>0, <1>1 DEF ExecutorInv, Effective
<1>4. CASE Confirm
  <2>1. PICK answered \in SUBSET submitted :
          results' = [t \in Txs |-> IF t \in Confirmed(answered) THEN "ok" ELSE results[t]]
    BY <1>4 DEF Confirm
  <2>2. /\ phase' \in {"check", "done"}
        /\ UNCHANGED <<signed, submitted, notFound, retries>>
    BY <1>4 DEF Confirm, Return
  <2>3. \A t \in Txs : t \in Confirmed(answered) => signed \in Landings(t)
    BY <1>0 DEF Confirmed, Sig, Landings, ExecTyped, Hashes
  <2>4. ExecTyped'
    BY <2>1, <2>2, <1>0 DEF ExecTyped
  <2>5. OkLanded'
    BY <2>1, <2>3, <1>0, <1>1 DEF OkLanded
  <2>6. SignedOnce'
    BY <2>2, <1>0 DEF SignedOnce
  <2> QED BY <2>4, <2>5, <2>6, <1>0, <1>1 DEF ExecutorInv, Effective
<1>5. CASE Check
  <2>1. /\ phase' \in {"send", "done"} /\ submitted' \in {submitted, {}}
        /\ UNCHANGED results
    BY <1>5 DEF Check, NewPass, Return
  <2>2. \/ UNCHANGED <<signed, retries>>
        \/ MustResign /\ signed' = latest /\ retries' = retries + 1
    BY <1>5 DEF Check
  <2>6. notFound' \in BOOLEAN /\ (notFound' => notFound)
    <3>1. notFound' = notFound \/ notFound' = FALSE
      BY <1>5 DEF Check, NewPass
    <3> QED BY <3>1, <1>0, FlagStep DEF ExecTyped
  <2>3. ExecTyped' /\ OkLanded'
    BY <2>1, <2>2, <2>6, <1>0, <1>1 DEF ExecTyped, OkLanded
  <2>4. CASE UNCHANGED <<signed, retries>>
    <3>1. SignedOnce'
      BY <2>6, <2>4, <1>0 DEF SignedOnce
    <3> QED BY <3>1, <2>3, <1>0, <1>1 DEF ExecutorInv, Effective
  <2>5. CASE MustResign /\ signed' = latest /\ retries' = retries + 1
    <3>1. /\ retries \in Nat /\ retries' # 0
          /\ retries' <= 1 => retries = 0 /\ signed = FirstHash
      BY <2>5, <1>0 DEF ExecTyped, SignedOnce
    <3>2. ~everLost' => FirstHash < oldest'
      BY <2>5, <1>0 DEF MustResign, SignedOnce
    <3>3. SignedOnce'
      BY <3>1, <3>2, <2>5, <2>6, <1>0 DEF SignedOnce
    <3> QED BY <3>3, <2>3, <1>0, <1>1 DEF ExecutorInv, Effective
  <2> QED BY <2>2, <2>4, <2>5
<1> QED BY <1>2, <1>3, <1>4, <1>5

\* A signature lands or fails: the one it belongs to may take effect by it, no
\* other does.
LEMMA LandStep ==
  ASSUME ExecutorInv, NEW s \in Sigs, Land(s)
  PROVE  /\ ExecutorInv'
         /\ Effective' = Effective \/ Effective' = Effective \cup {s[1]}
<1>0. /\ ExecTyped /\ OkLanded /\ SignedOnce /\ Txs' = Txs /\ Sigs' = Sigs
      /\ UNCHANGED <<phase, results, submitted, notFound, everLost, signed, retries, oldest, latest>>
      /\ net[s] = "sent"
  BY DEF ExecutorInv, Land, Txs, Sigs, caller
<1>1. PICK how \in {"landed", "failed"} : net' = [net EXCEPT ![s] = how]
  BY DEF Land
<1>2. /\ net' \in [Sigs -> {"unsent", "sent", "landed", "failed"}]
      /\ \A q \in Sigs : q # s => net'[q] = net[q]
      /\ net'[s] = how
  BY <1>0, <1>1 DEF ExecTyped
<1>3. /\ s[1] \in Txs /\ s[2] \in Hashes /\ s = <<s[1], s[2]>>
      /\ \A t \in Txs, h \in Hashes : <<t, h>> \in Sigs
  BY DEF Sigs, Hashes
<1>4. \A t \in Txs : Landings(t) \subseteq Landings(t)'
  BY <1>0, <1>2, <1>3 DEF Landings, Hashes
<1>5. \A t \in Txs : t # s[1] => Landings(t)' = Landings(t)
  BY <1>2, <1>3 DEF Landings, Hashes
<1>6. \A q \in Sigs : net'[q] # "unsent" => net[q] # "unsent"
  BY <1>0, <1>2
<1>7. ExecTyped' /\ OkLanded'
  BY <1>0, <1>2, <1>4 DEF ExecTyped, OkLanded
<1>8. SignedOnce'
  BY <1>0, <1>6 DEF SignedOnce
<1>9. Effective' = Effective \/ Effective' = Effective \cup {s[1]}
  BY <1>0, <1>3, <1>4, <1>5 DEF Effective
<1> QED BY <1>7, <1>8, <1>9 DEF ExecutorInv

\* A blockhash is produced or expires; expiry only helps.
LEMMA ClockStep ==
  ASSUME ExecutorInv, Produce \/ Expire
  PROVE  ExecutorInv' /\ Effective' = Effective
<1>0. /\ ExecTyped /\ OkLanded /\ SignedOnce /\ Txs' = Txs /\ Sigs' = Sigs
      /\ UNCHANGED <<phase, results, submitted, notFound, everLost, signed, retries, net>>
  BY DEF ExecutorInv, Produce, Expire, Txs, Sigs, caller
<1>1. oldest' \in Hashes /\ latest' \in Hashes /\ oldest <= oldest'
  BY <1>0, HashRange DEF Produce, Expire, ExecTyped, Hashes, FirstHash
<1>2. \A t \in Txs : Landings(t)' = Landings(t)
  BY <1>0 DEF Landings
<1>3. ExecTyped' /\ OkLanded'
  BY <1>0, <1>1, <1>2 DEF ExecTyped, OkLanded
<1>4. FirstHash < oldest => FirstHash < oldest'
  BY <1>0, <1>1 DEF ExecTyped, Hashes, FirstHash
<1>5. SignedOnce'
  BY <1>0, <1>4 DEF SignedOnce
<1> QED BY <1>0, <1>2, <1>3, <1>5 DEF ExecutorInv, Effective

\* A step that changes nothing.
LEMMA IdleStep ==
  ASSUME ExecutorInv, UNCHANGED execVars
  PROVE  ExecutorInv' /\ Effective' = Effective
<1>0. /\ Txs' = Txs /\ Sigs' = Sigs
      /\ UNCHANGED <<txs, phase, results, submitted, notFound, everLost, signed, retries, net,
                     oldest, latest>>
  BY DEF execVars, caller, ledger, Txs, Sigs
<1>1. \A t \in Txs : Landings(t)' = Landings(t)
  BY <1>0 DEF Landings
<1> QED BY <1>0, <1>1 DEF ExecutorInv, ExecTyped, OkLanded, SignedOnce, Effective

\* The invariant is inductive.
LEMMA ExecutorInductive == ExecutorInv /\ [ExecNext]_execVars => ExecutorInv'
<1> SUFFICES ASSUME ExecutorInv, [ExecNext]_execVars PROVE ExecutorInv'
  OBVIOUS
<1>1. CASE ExecNext
  BY <1>1, SendStep, CallerStep, LandStep, ClockStep DEF ExecNext, Caller
<1>2. CASE UNCHANGED execVars
  BY <1>2, IdleStep
<1> QED BY <1>1, <1>2
-----------------------------------------------------------------------------
\* The invariant leaves room for one live signature of a transaction.
LEMMA AtMostTheSignedOne ==
  ASSUME ExecutorInv
  PROVE  OneLiveSignature
<1> SUFFICES ASSUME ~everLost, retries <= 1, NEW t \in Txs
             PROVE  Cardinality(Live(t)) <= 1
  BY DEF OneLiveSignature
<1>1. ExecTyped /\ SignedOnce
  BY DEF ExecutorInv
<1>2. Live(t) \subseteq {signed}
  <2> SUFFICES ASSUME NEW h \in oldest .. MaxHash, net[<<t, h>>] = "sent"
               PROVE  h = signed
    BY DEF Live
  <2>1. h \in Hashes /\ oldest <= h
    BY <1>1, HashRange DEF ExecTyped, Hashes, FirstHash
  <2>2. <<t, h>> \in Sigs /\ <<t, h>>[2] = h
    BY <2>1 DEF Sigs, Hashes
  <2>3. h \in {FirstHash, signed}
    BY <1>1, <2>2 DEF SignedOnce
  <2>4. CASE retries = 0
    BY <2>3, <2>4, <1>1 DEF SignedOnce
  <2>5. CASE retries = 1
    BY <2>1, <2>3, <2>5, <1>1, HashRange DEF SignedOnce, ExecTyped, Hashes, FirstHash
  <2> QED BY <2>4, <2>5, <1>1 DEF ExecTyped
<1>3. IsFiniteSet({signed}) /\ Cardinality({signed}) = 1
  BY FS_Singleton
<1>4. Cardinality(Live(t)) <= Cardinality({signed})
  BY <1>2, <1>3, FS_Subset
<1> QED BY <1>3, <1>4

\* parallel_execute_transactions never has two signatures of one transaction that
\* can both land, up to its second signing and unless a node claimed not to know a
\* blockhash: for every call, packing, number of transactions and of blockhashes.
THEOREM SpecOneLiveSignature == ExecSpec => []OneLiveSignature
<1>1. ExecInit => ExecutorInv
  BY InitExecutor
<1>2. ExecutorInv /\ [ExecNext]_execVars => ExecutorInv'
  BY ExecutorInductive
<1>3. ExecutorInv => OneLiveSignature
  BY AtMostTheSignedOne
<1> QED BY <1>1, <1>2, <1>3, PTL DEF ExecSpec
-----------------------------------------------------------------------------
(* Packing *)

\* Every instruction is pushed to the group of its size.
LEMMA GroupHolds ==
  ASSUME NEW S, NEW ixs \in Seq(S), NEW f, NEW k
  PROVE  /\ Group(ixs, f, k) \in Seq(S)
         /\ \A n \in 1 .. Len(ixs) : f[ixs[n]] = k =>
              \E m \in 1 .. Len(Group(ixs, f, k)) : Group(ixs, f, k)[m] = ixs[n]
<1> DEFINE N == Len(ixs)
           T == Seq(S)
           step(p, n) == IF n = 0 THEN <<>>
                         ELSE IF f[ixs[n]] = k THEN Append(p[n - 1], ixs[n]) ELSE p[n - 1]
           pushed == CHOOSE p : p = [n \in 0 .. N |-> step(p, n)]
           g == [x \in (1 .. N) \X T |-> IF f[ixs[x[1]]] = k THEN Append(x[2], ixs[x[1]]) ELSE x[2]]
<1>1. Group(ixs, f, k) = pushed[N]
  BY DEF Group
<1>2. N \in Nat
  BY LenProperties
<1>3. \A n \in 1 .. N : ixs[n] \in S
  BY ElementOfSeq
<1> HIDE DEF N
<1>4. \E p \in [0 .. N -> T] : Along(p, <<>>, g, N)
  <2>1. <<>> \in T
    BY EmptySeq
  <2>2. ASSUME NEW x \in (1 .. N) \X T
        PROVE  (IF f[ixs[x[1]]] = k THEN Append(x[2], ixs[x[1]]) ELSE x[2]) \in T
    <3>1. x[1] \in 1 .. N /\ x[2] \in T /\ ixs[x[1]] \in S
      BY <1>3
    <3>2. Append(x[2], ixs[x[1]]) \in T
      BY <3>1, AppendProperties
    <3> QED BY <3>1, <3>2
  <2>3. g \in [(1 .. N) \X T -> T]
    BY <2>2
  <2> DEFINE base == <<>>
  <2>4. base \in T
    BY <2>1
  <2> HIDE DEF g, T, base
  <2>5. \E p \in [0 .. N -> T] : Along(p, base, g, N)
    BY <1>2, <2>4, <2>3, Recursion
  <2> QED BY <2>5 DEF base
<1>5. PICK p \in [0 .. N -> T] : p[0] = <<>> /\ \A n \in 1 .. N : p[n] = g[<<n, p[n - 1]>>]
  <2> HIDE DEF g
  <2> QED BY <1>4 DEF Along
<1>6. p = [n \in 0 .. N |-> step(p, n)]
  <2>1. ASSUME NEW n \in 0 .. N PROVE p[n] = step(p, n)
    <3>1. CASE n = 0
      BY <1>5, <3>1
    <3>2. CASE n # 0
      <4>1. n \in 1 .. N /\ n - 1 \in 0 .. N
        BY <1>2, <3>2
      <4>2. p[n] = g[<<n, p[n - 1]>>] /\ p[n - 1] \in T
        BY <1>5, <4>1
      <4>3. g[<<n, p[n - 1]>>] = IF f[ixs[n]] = k THEN Append(p[n - 1], ixs[n]) ELSE p[n - 1]
        BY <4>1, <4>2
      <4> QED BY <3>2, <4>2, <4>3
    <3> QED BY <3>1, <3>2
  <2> HIDE DEF step
  <2> QED BY <2>1
<1>7. pushed = [n \in 0 .. N |-> step(pushed, n)]
  <2> HIDE DEF step
  <2> QED BY <1>6
<1> HIDE DEF pushed
<1>8. \A n \in 0 .. N : pushed[n] = step(pushed, n)
  <2> HIDE DEF step
  <2> QED BY <1>7
\* the first n instructions are in it
<1> DEFINE Right(n) == /\ pushed[n] \in Seq(S)
                       /\ \A i \in 1 .. n : f[ixs[i]] = k =>
                            \E m \in 1 .. Len(pushed[n]) : pushed[n][m] = ixs[i]
           Bad == {n \in 0 .. N : ~Right(n)}
<1>9. ASSUME Bad # {} PROVE FALSE
  <2>1. Bad \in SUBSET Nat
    OBVIOUS
  <2>2. PICK n \in Bad : \A j \in Bad : n <= j
    <3> HIDE DEF Bad
    <3> QED BY <1>9, <2>1, LeastNatural
  <2>3. n \in 0 .. N /\ ~Right(n)
    OBVIOUS
  <2>4. CASE n = 0
    <3>1. pushed[n] = <<>>
      BY <1>8, <2>3, <2>4
    <3>2. <<>> \in Seq(S)
      BY EmptySeq
    <3>3. 1 .. n = {}
      BY <2>4
    <3>4. pushed[n] \in Seq(S)
      BY <3>1, <3>2
    <3>5. Right(n)
      BY <3>3, <3>4
    <3> QED BY <2>3, <3>5
  <2>5. CASE n # 0
    <3>0. n \in 1 .. N /\ n - 1 \in 0 .. N /\ ~(n <= n - 1)
      BY <1>2, <2>3, <2>5
    <3>9. n - 1 \notin Bad
      <4> HIDE DEF Bad
      <4> QED BY <2>2, <3>0
    <3>1. n \in 1 .. N /\ n - 1 \in 0 .. N /\ n - 1 \notin Bad
      BY <3>0, <3>9
    <3> DEFINE q == pushed[n - 1]
               r == pushed[n]
    <3>2. Right(n - 1)
      BY <3>1
    <3>3. r = IF f[ixs[n]] = k THEN Append(q, ixs[n]) ELSE q
      BY <1>8, <2>3, <2>5
    <3>4. q \in Seq(S) /\ Len(q) \in Nat /\ ixs[n] \in S
      BY <1>3, <3>1, <3>2, LenProperties
    <3>5. \A i \in 1 .. n - 1 : f[ixs[i]] = k => \E m \in 1 .. Len(q) : q[m] = ixs[i]
      BY <3>2
    <3> HIDE DEF q, r
    <3>6. CASE f[ixs[n]] = k
      <4>1. r = Append(q, ixs[n])
        BY <3>3, <3>6
      <4>2. /\ r \in Seq(S) /\ Len(r) = Len(q) + 1 /\ \A m \in 1 .. Len(q) : r[m] = q[m]
            /\ r[Len(q) + 1] = ixs[n]
        BY <3>4, <4>1, AppendProperties
      <4>3. ASSUME NEW i \in 1 .. n, f[ixs[i]] = k PROVE \E m \in 1 .. Len(r) : r[m] = ixs[i]
        <5>1. CASE i = n
          <6>1. Len(q) + 1 \in 1 .. Len(r)
            BY <3>4, <4>2
          <6> QED BY <4>2, <5>1, <6>1
        <5>2. CASE i # n
          <6>1. i \in 1 .. n - 1
            BY <3>1, <5>2
          <6>2. PICK m \in 1 .. Len(q) : q[m] = ixs[i]
            BY <3>5, <4>3, <6>1
          <6>3. m \in 1 .. Len(r) /\ r[m] = ixs[i]
            BY <3>4, <4>2, <6>2
          <6> QED BY <6>3
        <5> QED BY <5>1, <5>2
      <4>4. Right(n)
        BY <4>2, <4>3 DEF r
      <4> QED BY <2>3, <4>4
    <3>7. CASE f[ixs[n]] # k
      <4>1. r = q
        BY <3>3, <3>7
      <4>2. ASSUME NEW i \in 1 .. n, f[ixs[i]] = k PROVE \E m \in 1 .. Len(r) : r[m] = ixs[i]
        <5>1. i # n
          BY <3>7, <4>2
        <5>2. i \in 1 .. n - 1
          BY <3>1, <5>1
        <5> QED BY <3>5, <4>1, <4>2, <5>2
      <4>3. r \in Seq(S)
        BY <3>4, <4>1
      <4>4. Right(n)
        BY <4>2, <4>3 DEF r
      <4> QED BY <2>3, <4>4
    <3> QED BY <3>6, <3>7
  <2> QED BY <2>4, <2>5
<1>10. N \in 0 .. N /\ N \notin Bad
  <2>1. Bad = {}
    BY <1>9
  <2>2. N \in 0 .. N
    BY <1>2
  <2> HIDE DEF Bad
  <2> QED BY <2>1, <2>2
<1>11. Right(N)
  BY <1>10
<1> QED BY <1>1, <1>11 DEF N

\* What is given for each of the first n numbers is a sequence of length n.
LEMMA AsSequence ==
  ASSUME NEW T, NEW n \in Nat, NEW c \in [1 .. n -> T]
  PROVE  c \in Seq(T) /\ Len(c) = n
<1>1. c \in Seq(T)
  BY SeqDef
<1>2. DOMAIN c = 1 .. n /\ DOMAIN c = 1 .. Len(c) /\ Len(c) \in Nat
  BY <1>1, LenProperties
<1> QED BY <1>1, <1>2

\* The chunks of a sequence hold all of its elements.
LEMMA ChunksHold ==
  ASSUME NEW S, NEW s \in Seq(S), NEW k \in Nat \ {0}
  PROVE  /\ Chunks(s, k) \in Seq(Seq(S))
         /\ \A m \in 1 .. Len(s) : \E j \in 1 .. Len(Chunks(s, k)) : s[m] \in ToSet(Chunks(s, k)[j])
<1> DEFINE L == Len(s)
           q == (L + k - 1) \div k
           lo(j) == (j - 1) * k + 1
           hi(j) == IF j * k < L THEN j * k ELSE L
           c == [j \in 1 .. q |-> SubSeq(s, lo(j), hi(j))]
<1>1. L \in Nat /\ \A i \in 1 .. L : s[i] \in S
  BY LenProperties, ElementOfSeq
<1>2. Chunks(s, k) = c
  BY DEF Chunks
<1> HIDE DEF L
<1>3. q \in Int /\ k * q >= L
  <2>1. L + k - 1 \in Int
    BY <1>1
  <2> DEFINE x == L + k - 1
  <2> HIDE DEF x
  <2>2. x \div k \in Int /\ x % k \in 0 .. k - 1 /\ x = k * (x \div k) + (x % k)
    BY <2>1, Divided DEF x
  <2>3. x \div k = q /\ x = L + k - 1
    BY DEF x
  <2> HIDE DEF q
  <2> DEFINE y == k * q
             z == x % k
  <2>4. q \in Int /\ z \in 0 .. k - 1 /\ x = y + z
    BY <2>2, <2>3
  <2>5. y \in Int
    BY <2>4, Multiples
  <2> HIDE DEF y, z
  <2>6. y >= L
    BY <1>1, <2>3, <2>4, <2>5
  <2> QED BY <2>4, <2>6 DEF y
<1> HIDE DEF q
<1>4. q \in Nat
  <2>1. k * q \in Int /\ (q <= -1 => k * q <= -k)
    BY <1>3, Multiples
  <2> QED BY <1>1, <1>3, <2>1
<1>5. ASSUME NEW j \in 1 .. q
      PROVE  /\ lo(j) \in Int /\ hi(j) \in Int
             /\ SubSeq(s, lo(j), hi(j)) \in Seq(S)
             /\ Len(SubSeq(s, lo(j), hi(j))) = IF lo(j) <= hi(j) THEN hi(j) - lo(j) + 1 ELSE 0
             /\ \A i \in 1 .. hi(j) - lo(j) + 1 : SubSeq(s, lo(j), hi(j))[i] = s[lo(j) + i - 1]
  <2>1. j - 1 \in Int /\ j - 1 >= 0 /\ j \in Int
    BY <1>4
  <2>2. (j - 1) * k \in Int /\ (j - 1) * k >= 0 /\ j * k \in Int
    <3>1. k * (j - 1) \in Int /\ (j - 1 >= 1 => k * (j - 1) >= k) /\ k * j \in Int
      BY <2>1, Multiples
    <3>2. k * (j - 1) = (j - 1) * k /\ k * j = j * k /\ (j = 1 => (j - 1) * k = 0)
      BY <2>1
    <3> QED BY <2>1, <3>1, <3>2
  <2>3. lo(j) \in Int /\ hi(j) \in Int /\ lo(j) >= 1 /\ hi(j) <= L
    BY <1>1, <2>2
  <2> DEFINE a == lo(j)
             b == hi(j)
  <2>4. a \in Int /\ b \in Int /\ a >= 1 /\ b <= L
    BY <2>3
  <2> HIDE DEF a, b
  <2>5. \A i \in a .. b : s[i] \in S
    BY <1>1, <2>4
  <2>6. /\ SubSeq(s, a, b) \in Seq(S)
        /\ Len(SubSeq(s, a, b)) = IF a <= b THEN b - a + 1 ELSE 0
        /\ \A i \in 1 .. b - a + 1 : SubSeq(s, a, b)[i] = s[a + i - 1]
    BY <2>4, <2>5, SubSeqProperties
  <2> QED BY <2>4, <2>6 DEF a, b
<1>6. c \in [1 .. q -> Seq(S)]
  <2> HIDE DEF lo, hi
  <2> QED BY <1>5
<1>7. c \in Seq(Seq(S)) /\ Len(c) = q
  <2> HIDE DEF c
  <2> QED BY <1>4, <1>6, AsSequence
<1>8. ASSUME NEW m \in 1 .. L
      PROVE  \E j \in 1 .. q : s[m] \in ToSet(c[j])
  <2> DEFINE x == m - 1
             a == x \div k
             b == x % k
  <2>1. x \in Int /\ x >= 0 /\ x < L /\ m = x + 1
    BY <1>1
  <2> HIDE DEF x
  <2>2. a \in Int /\ b \in 0 .. k - 1 /\ x = k * a + b
    BY <2>1, Divided
  <2> HIDE DEF a, b
  <2>3. a >= 0
    <3>1. k * a \in Int /\ (a <= -1 => k * a <= -k)
      BY <2>2, Multiples
    <3> QED BY <2>1, <2>2, <3>1
  <2>4. a + 1 <= q
    <3> DEFINE d == q - a
    <3>1. d \in Int
      BY <1>3, <2>2
    <3>2. k * d = k * q - k * a /\ k * q \in Int /\ k * a \in Int
      BY <1>3, <2>2
    <3>3. d <= 0 => d = 0 \/ d <= -1
      BY <3>1
    <3>4. d = 0 => k * d = 0
      OBVIOUS
    <3> HIDE DEF d
    <3>5. d <= -1 => k * d <= -k
      BY <3>1, Multiples
    <3>6. k * d >= 1
      BY <1>1, <1>3, <2>1, <2>2, <3>2
    <3>7. ~(d <= 0)
      BY <3>1, <3>3, <3>4, <3>5, <3>6
    <3> QED BY <1>3, <2>2, <3>1, <3>7 DEF d
  <2> DEFINE j == a + 1
  <2>5. j \in 1 .. q
    BY <1>4, <2>2, <2>3, <2>4
  <2>6. lo(j) = k * a + 1 /\ j * k = k * a + k /\ k * a \in Int
    BY <2>2
  <2>7. hi(j) >= m /\ lo(j) = m - b /\ lo(j) \in Int /\ hi(j) \in Int
    BY <1>1, <2>1, <2>2, <2>6
  <2>8. b + 1 \in 1 .. hi(j) - lo(j) + 1 /\ lo(j) + (b + 1) - 1 = m /\ lo(j) <= hi(j)
    <3> DEFINE y == lo(j)
               z == hi(j)
    <3>1. z >= m /\ y = m - b /\ y \in Int /\ z \in Int
      BY <2>7
    <3> HIDE DEF y, z
    <3>2. b + 1 \in 1 .. z - y + 1 /\ y + (b + 1) - 1 = m /\ y <= z
      BY <2>1, <2>2, <3>1
    <3> QED BY <3>2 DEF y, z
  <2> DEFINE e == c[j]
  <2>9. e = SubSeq(s, lo(j), hi(j))
    <3> HIDE DEF lo, hi, j
    <3> QED BY <2>5
  <2> HIDE DEF lo, hi, j
  <2>10. e \in Seq(S) /\ Len(e) = hi(j) - lo(j) + 1 /\ e[b + 1] = s[lo(j) + (b + 1) - 1]
    <3> HIDE DEF e
    <3> QED BY <1>5, <2>5, <2>8, <2>9
  <2>11. b + 1 \in DOMAIN e /\ e[b + 1] = s[m]
    <3>1. DOMAIN e = 1 .. Len(e)
      BY <2>10, LenProperties
    <3> HIDE DEF e
    <3> QED BY <2>8, <2>10, <3>1
  <2>12. s[m] \in ToSet(e)
    <3> HIDE DEF e
    <3> QED BY <2>11 DEF ToSet
  <2> QED BY <2>5, <2>12
<1> HIDE DEF c
<1> QED BY <1>2, <1>7, <1>8 DEF L

\* Sequences put one after the other hold what each of them holds.
LEMMA FlattenHolds ==
  ASSUME NEW T, NEW seqs \in Seq(Seq(T))
  PROVE  /\ Len(FlattenSeq(seqs)) \in Nat
         /\ \A n \in 1 .. Len(seqs) : \A i \in 1 .. Len(seqs[n]) :
              \E m \in 1 .. Len(FlattenSeq(seqs)) : FlattenSeq(seqs)[m] = seqs[n][i]
<1> DEFINE N == Len(seqs)
           U == Seq(T)
           step(p, n) == IF n = 1 THEN seqs[n] ELSE p[n - 1] \o seqs[n]
           flatten == CHOOSE p : p = [n \in 1 .. N |-> step(p, n)]
           g == [x \in (1 .. N) \X U |-> IF x[1] = 1 THEN seqs[x[1]] ELSE x[2] \o seqs[x[1]]]
<1>1. FlattenSeq(seqs) = IF N = 0 THEN seqs ELSE flatten[N]
  BY DEF FlattenSeq
<1>2. N \in Nat
  BY LenProperties
<1>3. \A n \in 1 .. N : seqs[n] \in U
  BY ElementOfSeq
<1> HIDE DEF N
<1>4. \E p \in [0 .. N -> U] : Along(p, <<>>, g, N)
  <2>1. <<>> \in U
    BY EmptySeq
  <2>2. ASSUME NEW x \in (1 .. N) \X U
        PROVE  (IF x[1] = 1 THEN seqs[x[1]] ELSE x[2] \o seqs[x[1]]) \in U
    <3>1. x[1] \in 1 .. N /\ x[2] \in U /\ seqs[x[1]] \in U
      BY <1>3
    <3>2. x[2] \o seqs[x[1]] \in U
      BY <3>1, ConcatProperties
    <3> QED BY <3>1, <3>2
  <2>3. g \in [(1 .. N) \X U -> U]
    BY <2>2
  <2> DEFINE base == <<>>
  <2>4. base \in U
    BY <2>1
  <2> HIDE DEF g, U, base
  <2>5. \E p \in [0 .. N -> U] : Along(p, base, g, N)
    BY <1>2, <2>4, <2>3, Recursion
  <2> QED BY <2>5 DEF base
<1>5. PICK p \in [0 .. N -> U] : \A n \in 1 .. N : p[n] = g[<<n, p[n - 1]>>]
  <2> HIDE DEF g
  <2> QED BY <1>4 DEF Along
<1> DEFINE r == [n \in 1 .. N |-> p[n]]
<1>6. r = [n \in 1 .. N |-> step(r, n)]
  <2>1. ASSUME NEW n \in 1 .. N PROVE p[n] = step(r, n)
    <3>1. n - 1 \in 0 .. N
      BY <1>2
    <3>2. p[n] = g[<<n, p[n - 1]>>] /\ p[n - 1] \in U
      BY <1>5, <3>1
    <3>3. g[<<n, p[n - 1]>>] = IF n = 1 THEN seqs[n] ELSE p[n - 1] \o seqs[n]
      BY <3>2
    <3>4. n # 1 => n - 1 \in 1 .. N
      BY <1>2
    <3>5. n # 1 => r[n - 1] = p[n - 1]
      BY <3>4
    <3> HIDE DEF r, g
    <3> QED BY <3>2, <3>3, <3>5
  <2> HIDE DEF step
  <2> QED BY <2>1
<1>7. flatten = [n \in 1 .. N |-> step(flatten, n)]
  <2> HIDE DEF step, r
  <2> QED BY <1>6
<1> HIDE DEF flatten
<1>8. \A n \in 1 .. N : flatten[n] = step(flatten, n)
  <2> HIDE DEF step
  <2> QED BY <1>7
\* the first n sequences are in it
<1> DEFINE Right(n) == /\ flatten[n] \in U
                       /\ \A l \in 1 .. n : \A i \in 1 .. Len(seqs[l]) :
                            \E m \in 1 .. Len(flatten[n]) : flatten[n][m] = seqs[l][i]
           Bad == {n \in 1 .. N : ~Right(n)}
<1>9. ASSUME Bad # {} PROVE FALSE
  <2>1. Bad \in SUBSET Nat
    OBVIOUS
  <2>2. PICK n \in Bad : \A j \in Bad : n <= j
    <3> HIDE DEF Bad
    <3> QED BY <1>9, <2>1, LeastNatural
  <2>3. n \in 1 .. N /\ ~Right(n)
    OBVIOUS
  <2> DEFINE w == flatten[n]
             v == seqs[n]
  <2>4. v \in U /\ Len(v) \in Nat
    BY <1>3, <2>3, LenProperties
  <2>5. CASE n = 1
    <3>1. w = v
      BY <1>8, <2>3, <2>5
    <3>2. \A l \in 1 .. n : l = n
      BY <2>5
    <3>3. Right(n)
      BY <2>4, <3>1, <3>2
    <3> QED BY <2>3, <3>3
  <2>6. CASE n # 1
    <3>0. n - 1 \in 1 .. N /\ ~(n <= n - 1)
      BY <1>2, <2>3, <2>6
    <3>1. n - 1 \notin Bad
      <4> HIDE DEF Bad
      <4> QED BY <2>2, <3>0
    <3>2. Right(n - 1)
      BY <3>0, <3>1
    <3> DEFINE u == flatten[n - 1]
    <3>3. w = u \o v
      BY <1>8, <2>3, <2>6
    <3>4. u \in Seq(T)
      BY <3>2
    <3>5. \A l \in 1 .. n - 1 : \A i \in 1 .. Len(seqs[l]) : \E m \in 1 .. Len(u) : u[m] = seqs[l][i]
      BY <3>2
    <3> HIDE DEF u, v, w
    <3>6. /\ w \in Seq(T) /\ Len(w) = Len(u) + Len(v)
          /\ \A i \in 1 .. Len(u) + Len(v) : w[i] = IF i <= Len(u) THEN u[i] ELSE v[i - Len(u)]
      BY <2>4, <3>3, <3>4, ConcatProperties
    <3>7. Len(u) \in Nat
      BY <3>4, LenProperties
    <3>8. ASSUME NEW l \in 1 .. n, NEW i \in 1 .. Len(seqs[l])
          PROVE  \E m \in 1 .. Len(w) : w[m] = seqs[l][i]
      <4>1. CASE l = n
        <5>1. seqs[l] = v /\ i \in 1 .. Len(v)
          BY <4>1 DEF v
        <5>2. /\ Len(u) + i \in 1 .. Len(w) /\ Len(u) + i \in 1 .. Len(u) + Len(v)
              /\ ~(Len(u) + i <= Len(u)) /\ (Len(u) + i) - Len(u) = i
          BY <2>4, <3>6, <3>7, <5>1
        <5>3. w[Len(u) + i] = v[i]
          BY <3>6, <5>2
        <5> QED BY <5>1, <5>2, <5>3
      <4>2. CASE l # n
        <5>1. l \in 1 .. n - 1
          BY <2>3, <4>2
        <5>2. PICK m \in 1 .. Len(u) : u[m] = seqs[l][i]
          BY <3>5, <5>1
        <5>3. m \in 1 .. Len(w) /\ m \in 1 .. Len(u) + Len(v) /\ m <= Len(u)
          BY <2>4, <3>6, <3>7
        <5>4. w[m] = u[m]
          BY <3>6, <5>3
        <5> QED BY <5>2, <5>3, <5>4
      <4> QED BY <4>1, <4>2
    <3>9. Right(n)
      BY <3>6, <3>8 DEF w
    <3> QED BY <2>3, <3>9
  <2> QED BY <2>5, <2>6
<1>10. Bad = {}
  BY <1>9
<1>11. CASE N = 0
  <2>1. Len(FlattenSeq(seqs)) = 0 /\ 1 .. N = {}
    BY <1>1, <1>11 DEF N
  <2>2. 1 .. Len(seqs) = {}
    BY <2>1 DEF N
  <2> QED BY <2>1, <2>2
<1>12. CASE N # 0
  <2>1. N \in 1 .. N
    BY <1>2, <1>12
  <2>2. N \notin Bad
    <3> HIDE DEF Bad
    <3> QED BY <1>10
  <2>3. Right(N)
    BY <2>1, <2>2
  <2>4. FlattenSeq(seqs) = flatten[N] /\ flatten[N] \in Seq(T)
    BY <1>1, <1>12, <2>3
  <2>5. Len(flatten[N]) \in Nat
    BY <2>4, LenProperties
  <2> QED BY <2>3, <2>4, <2>5 DEF N
<1> QED BY <1>11, <1>12

\* An order of a finite set holds all of it.
LEMMA OrderHolds ==
  ASSUME NEW S, IsFiniteSet(S), NEW order \in SetToSeqs(S)
  PROVE  /\ order \in [1 .. Cardinality(S) -> S] /\ Cardinality(S) \in Nat
         /\ \A x \in S : \E j \in 1 .. Cardinality(S) : order[j] = x
<1> DEFINE n == Cardinality(S)
           D == 1 .. n
<1>1. n \in Nat
  BY FS_CardinalityType
<1>2. order \in [D -> S] /\ \A i, j \in D : i # j => order[i] # order[j]
  BY DEF SetToSeqs
<1>3. IsFiniteSet(D) /\ Cardinality(D) = n
  <2> HIDE DEF n
  <2>1. 1 \in Int /\ n \in Int
    BY <1>1
  <2>2. Cardinality(1 .. n) = IF 1 > n THEN 0 ELSE n - 1 + 1
    BY <2>1, FS_Interval
  <2>3. IsFiniteSet(1 .. n)
    BY <2>1, FS_Interval
  <2> DEFINE c == Cardinality(1 .. n)
  <2>4. c = IF 1 > n THEN 0 ELSE n - 1 + 1
    BY <2>2
  <2> HIDE DEF c
  <2>5. c = n
    BY <1>1, <2>4
  <2> QED BY <2>3, <2>5 DEF c
<1> HIDE DEF D
<1>4. order \in Injection(D, S)
  BY <1>2 DEF Injection, IsInjective
<1>5. order \in Surjection(D, S)
  BY <1>3, <1>4, FS_Injection
<1>6. \A x \in S : \E j \in D : order[j] = x
  BY <1>5 DEF Surjection
<1> QED BY <1>1, <1>2, <1>6 DEF D

\* The elements of a sequence are finitely many.
LEMMA ElementsFinite ==
  ASSUME NEW S, NEW s \in Seq(S)
  PROVE  IsFiniteSet(ToSet(s)) /\ \A i \in ToSet(s) : \E n \in 1 .. Len(s) : s[n] = i
<1>1. DOMAIN s = 1 .. Len(s) /\ Len(s) \in Nat
  BY LenProperties
<1>2. IsFiniteSet(1 .. Len(s))
  <2>1. 1 \in Int /\ Len(s) \in Int
    BY <1>1
  <2> QED BY <2>1, FS_Interval
<1>3. IsFiniteSet({s[n] : n \in 1 .. Len(s)})
  BY <1>2, ImageFinite
<1> QED BY <1>1, <1>3 DEF ToSet

\* pack_instructions leaves out only what failed its simulation.
LEMMA PackHolds ==
  ASSUME NEW ixs, ixs \in Seq(ToSet(ixs)), NEW f \in FindIxPerTx(ixs),
         NEW packed \in PackInstructions(ixs, f)
  PROVE  /\ Len(packed) \in Nat
         /\ \A i \in ToSet(ixs) : f[i] # 0 => \E t \in 1 .. Len(packed) : i \in ToSet(packed[t])
<1> DEFINE S == ToSet(ixs)
           sizes == {f[i] : i \in DOMAIN f} \ {0}
           part(k) == Chunks(Group(ixs, f, k), k)
           T == Seq(S)
<1>1. f \in [S -> GroupSizes \cup {0}] /\ DOMAIN f = S
  BY DEF FindIxPerTx
<1>2. sizes \subseteq Nat \ {0}
  BY <1>1, TransactionsAssumption
<1>3. IsFiniteSet(sizes)
  <2>1. IsFiniteSet(S)
    BY ElementsFinite
  <2>2. IsFiniteSet({f[i] : i \in S})
    <3> HIDE DEF S
    <3> QED BY <2>1, ImageFinite
  <2>3. sizes \subseteq {f[i] : i \in S}
    BY <1>1
  <2> HIDE DEF sizes
  <2> QED BY <2>2, <2>3, FS_Subset
<1>4. PICK order \in SetToSeqs(sizes) : packed = FlattenSeq([j \in DOMAIN order |-> part(order[j])])
  BY DEF PackInstructions
<1> DEFINE n == Cardinality(sizes)
           parts == [j \in DOMAIN order |-> part(order[j])]
<1>5. /\ order \in [1 .. n -> sizes] /\ n \in Nat
      /\ \A k \in sizes : \E j \in 1 .. n : order[j] = k
  <2> HIDE DEF sizes
  <2> QED BY <1>3, OrderHolds
<1> HIDE DEF n
<1>6. ASSUME NEW k \in sizes
      PROVE  /\ part(k) \in Seq(T)
             /\ \A i \in S : f[i] = k => \E j \in 1 .. Len(part(k)) : i \in ToSet(part(k)[j])
  <2> DEFINE gr == Group(ixs, f, k)
  <2>1. k \in Nat \ {0}
    BY <1>2
  <2>2. gr \in Seq(S) /\ \A m \in 1 .. Len(ixs) : f[ixs[m]] = k => \E l \in 1 .. Len(gr) : gr[l] = ixs[m]
    <3> HIDE DEF S
    <3>1. ixs \in Seq(S)
      BY DEF S
    <3> QED BY <3>1, GroupHolds
  <2> HIDE DEF gr
  <2>3. /\ Chunks(gr, k) \in Seq(Seq(S))
        /\ \A l \in 1 .. Len(gr) : \E j \in 1 .. Len(Chunks(gr, k)) : gr[l] \in ToSet(Chunks(gr, k)[j])
    <3> HIDE DEF S
    <3> QED BY <2>1, <2>2, ChunksHold
  <2> DEFINE ch == Chunks(gr, k)
  <2>4. part(k) = ch
    BY DEF gr
  <2>5. ch \in Seq(Seq(S)) /\ \A l \in 1 .. Len(gr) : \E j \in 1 .. Len(ch) : gr[l] \in ToSet(ch[j])
    BY <2>3
  <2> HIDE DEF ch, part
  <2>6. ASSUME NEW i \in S, f[i] = k PROVE \E j \in 1 .. Len(ch) : i \in ToSet(ch[j])
    <3>1. PICK m \in 1 .. Len(ixs) : ixs[m] = i
      BY ElementsFinite
    <3>2. PICK l \in 1 .. Len(gr) : gr[l] = i
      BY <2>2, <2>6, <3>1
    <3> QED BY <2>5, <3>2
  <2> QED BY <2>4, <2>5, <2>6
<1> HIDE DEF part
<1>7. parts \in [1 .. n -> Seq(T)]
  <2> HIDE DEF sizes, T
  <2> QED BY <1>5, <1>6
<1>8. parts \in Seq(Seq(T)) /\ Len(parts) = n
  <2> HIDE DEF parts, T
  <2> QED BY <1>5, <1>7, AsSequence
<1>9. /\ Len(packed) \in Nat
      /\ \A j \in 1 .. n : \A l \in 1 .. Len(parts[j]) : \E t \in 1 .. Len(packed) : packed[t] = parts[j][l]
  <2>1. packed = FlattenSeq(parts)
    BY <1>4
  <2> HIDE DEF parts, T
  <2>2. /\ Len(FlattenSeq(parts)) \in Nat
        /\ \A j \in 1 .. Len(parts) : \A l \in 1 .. Len(parts[j]) :
             \E t \in 1 .. Len(FlattenSeq(parts)) : FlattenSeq(parts)[t] = parts[j][l]
    BY <1>8, FlattenHolds
  <2> QED BY <1>8, <2>1, <2>2
<1>10. ASSUME NEW i \in S, f[i] # 0 PROVE \E t \in 1 .. Len(packed) : i \in ToSet(packed[t])
  <2>1. f[i] \in sizes
    BY <1>1, <1>10
  <2>2. PICK j \in 1 .. n : order[j] = f[i]
    <3> HIDE DEF sizes
    <3> QED BY <1>5, <2>1
  <2>3. parts[j] = part(f[i])
    <3>1. j \in DOMAIN order
      BY <1>5
    <3> QED BY <2>2, <3>1
  <2>4. PICK l \in 1 .. Len(parts[j]) : i \in ToSet(parts[j][l])
    <3> HIDE DEF sizes, parts
    <3> QED BY <1>6, <2>1, <2>3
  <2> HIDE DEF parts
  <2>5. PICK t \in 1 .. Len(packed) : packed[t] = parts[j][l]
    BY <1>9, <2>4
  <2> QED BY <2>4, <2>5
<1> QED BY <1>9, <1>10
-----------------------------------------------------------------------------
\* Every instruction that passed its simulation is in a transaction.
Packed ==
  /\ Len(txs) \in Nat
  /\ \A i \in ToSet(call.instructions) \ dropped : \E t \in Txs : i \in ToSet(txs[t])

\* Whichever of the three ways to pack the call takes.
LEMMA InitPacked == ExecInit => Packed
<1> SUFFICES ASSUME ExecInit PROVE Packed
  OBVIOUS
<1> DEFINE ixs == call.instructions
<1>1. ixs \in Seq(ToSet(ixs))
  BY TransactionsAssumption DEF ExecInit
<1>2. ASSUME NEW k \in Nat \ {0}, txs = Chunks(ixs, k) PROVE Packed
  <2>1. /\ Chunks(ixs, k) \in Seq(Seq(ToSet(ixs)))
        /\ \A m \in 1 .. Len(ixs) : \E j \in 1 .. Len(Chunks(ixs, k)) : ixs[m] \in ToSet(Chunks(ixs, k)[j])
    <3> HIDE DEF ixs
    <3> QED BY <1>1, ChunksHold
  <2>2. Len(txs) \in Nat
    BY <1>2, <2>1, LenProperties
  <2>3. ASSUME NEW i \in ToSet(ixs) PROVE \E t \in Txs : i \in ToSet(txs[t])
    <3> HIDE DEF ixs
    <3>1. PICK m \in 1 .. Len(ixs) : ixs[m] = i
      BY <1>1, ElementsFinite
    <3> QED BY <1>2, <2>1, <3>1 DEF Txs
  <2> QED BY <2>2, <2>3 DEF Packed
<1>3. ASSUME NEW fits \in FindIxPerTx(ixs), txs \in PackInstructions(ixs, fits),
             dropped = {i \in ToSet(ixs) : fits[i] = 0}
      PROVE  Packed
  <2>1. /\ Len(txs) \in Nat
        /\ \A i \in ToSet(ixs) : fits[i] # 0 => \E t \in 1 .. Len(txs) : i \in ToSet(txs[t])
    <3> HIDE DEF ixs
    <3> QED BY <1>1, <1>3, PackHolds
  <2> QED BY <1>3, <2>1 DEF Packed, Txs
<1>4. \/ \E fits \in FindIxPerTx(ixs) : /\ txs \in PackInstructions(ixs, fits)
                                        /\ dropped = {i \in ToSet(ixs) : fits[i] = 0}
      \/ txs \in {Chunks(ixs, ChunkSize), Chunks(ixs, 1)}
  BY DEF ExecInit, ParallelExecuteChunkInstructions, NoPack
<1>5. ChunkSize \in Nat \ {0} /\ 1 \in Nat \ {0}
  BY TransactionsAssumption
<1> HIDE DEF ixs
<1> QED BY <1>2, <1>3, <1>4, <1>5

\* The transactions are made once.
LEMMA StepPacked == Packed /\ [ExecNext]_execVars => Packed'
<1> SUFFICES ASSUME Packed, [ExecNext]_execVars PROVE Packed'
  OBVIOUS
<1>1. UNCHANGED <<call, dropped, txs>>
  BY DEF ExecNext, Caller, Start, Send, EndOfPass, Confirm, Check, Land, Produce, Expire, execVars, caller
<1> QED BY <1>1 DEF Packed, Txs

\* No errors counted: every transaction is a success.
LEMMA NoErrors ==
  ASSUME Packed, Errors = 0
  PROVE  \A t \in Txs : results[t] = "ok"
<1> DEFINE E == {t \in Txs : results[t] # "ok"}
<1>1. IsFiniteSet(Txs)
  <2>1. 1 \in Int /\ Len(txs) \in Int
    BY DEF Packed
  <2> QED BY <2>1, FS_Interval DEF Txs
<1>2. IsFiniteSet(E)
  BY <1>1, FS_Subset
<1>3. Cardinality(E) = 0
  BY DEF Errors
<1>4. E = {}
  <2> HIDE DEF E
  <2> QED BY <1>2, <1>3, FS_EmptySet
<1> QED BY <1>4

\* A call that reports no error has executed every instruction that passed its
\* simulation: for every list of instructions, whatever their sizes, however they
\* are grouped and chunked, and however many passes and signings it takes.
THEOREM SpecCleanRunExecutedAll == ExecSpec => []CleanRunExecutedAll
<1>1. ExecInit => ExecutorInv /\ Packed
  BY InitExecutor, InitPacked
<1>2. ExecutorInv /\ Packed /\ [ExecNext]_execVars => ExecutorInv' /\ Packed'
  BY ExecutorInductive, StepPacked
<1>3. ExecutorInv /\ Packed => CleanRunExecutedAll
  <2> SUFFICES ASSUME ExecutorInv, Packed, Errors = 0,
                      NEW i \in ToSet(call.instructions) \ dropped
               PROVE  \E t \in Effective : i \in ToSet(txs[t])
    BY DEF CleanRunExecutedAll
  <2>1. PICK t \in Txs : i \in ToSet(txs[t])
    BY DEF Packed
  <2>2. t \in Effective
    BY NoErrors DEF ExecutorInv, OkLanded, Effective
  <2> QED BY <2>1, <2>2
<1> QED BY <1>1, <1>2, <1>3, PTL DEF ExecSpec
-----------------------------------------------------------------------------
\* What the abstract specification sees of a state.
Reported == IF phase = "done" THEN {{t \in Txs : results[t] = "ok"}} ELSE {}

\* Nothing has taken effect and nothing is reported at first.
LEMMA InitSubmission == ExecInit => Submitted!Init
<1> SUFFICES ASSUME ExecInit PROVE Effective = {} /\ Reported = {}
  BY DEF Submitted!Init, Reported
<1>1. \A t \in Txs, h \in FirstHash .. MaxHash : net[<<t, h>>] = "unsent"
  BY DEF ExecInit, Sigs
<1>2. Effective = {}
  BY <1>1 DEF Effective, Landings
<1> QED BY <1>2 DEF ExecInit, Reported

\* Every step of the executor and of the chain is one of the contract's, or shows
\* nothing of itself.
LEMMA StepSubmission ==
  ASSUME ExecutorInv, [ExecNext]_execVars
  PROVE  [Submitted!Next]_<<Effective, Reported>>
<1>1. CASE Caller
  <2>0. Txs' = Txs /\ phase # "done"
    BY <1>1 DEF Caller, Start, Send, EndOfPass, Confirm, Check, Txs
  <2>1. ExecutorInv' /\ Effective' = Effective
    BY <1>1, SendStep, CallerStep DEF Caller
  <2>2. Reported = {}
    BY <2>0 DEF Reported
  <2>3. CASE phase' = "done"
    <3>1. Reported' = {{t \in Txs : results'[t] = "ok"}}
      BY <2>0, <2>3 DEF Reported
    <3>2. {t \in Txs : results'[t] = "ok"} \in SUBSET Effective
      BY <2>0, <2>1 DEF ExecutorInv, OkLanded, Effective
    <3> QED BY <2>1, <2>2, <3>1, <3>2 DEF Submitted!Next, Submitted!Report, Reported
  <2>4. CASE phase' # "done"
    BY <2>1, <2>2, <2>4 DEF Reported
  <2> QED BY <2>3, <2>4
<1>2. CASE \E s \in Sigs : Land(s)
  <2>1. PICK s \in Sigs : Land(s)
    BY <1>2
  <2>2. Effective' = Effective \/ Effective' = Effective \cup {s[1]}
    BY <2>1, LandStep
  <2>3. Reported' = Reported
    BY <2>1 DEF Land, caller, Reported, Txs
  <2>4. CASE Effective' = Effective
    BY <2>3, <2>4
  <2>5. CASE Effective' = Effective \cup {s[1]} /\ s[1] \notin Effective
    BY <2>3, <2>5 DEF Submitted!Next, Submitted!TakeEffect, Reported
  <2> QED BY <2>2, <2>4, <2>5
<1>3. CASE Produce \/ Expire
  BY <1>3, ClockStep DEF Produce, Expire, caller, Reported, Txs
<1>4. CASE UNCHANGED execVars
  BY <1>4, IdleStep DEF execVars, caller, Reported, Txs
<1> QED BY <1>1, <1>2, <1>3, <1>4 DEF ExecNext

\* What the executor reports as a success has landed without an error: it
\* implements Submission, the contract the keepers count their runs by, in every
\* interleaving of sends, confirmations, landings and expiring blockhashes.
THEOREM SpecImplementsSubmission == ExecSpec => ImplementsSubmission
<1>1. ExecInit => ExecutorInv /\ Submitted!Init
  BY InitExecutor, InitSubmission
<1>2. ExecutorInv /\ [ExecNext]_execVars => ExecutorInv'
  BY ExecutorInductive
<1>3. ExecutorInv /\ [ExecNext]_execVars => [Submitted!Next]_<<Effective, Reported>>
  BY StepSubmission
<1> QED BY <1>1, <1>2, <1>3, PTL DEF ExecSpec, ImplementsSubmission, Submitted!Spec, Reported
-----------------------------------------------------------------------------
(* The main loop *)

StateType == [epoch : Nat, slot : Nat, runs : [Counted -> Nat], Startup : BOOLEAN,
              RerunVote : BOOLEAN]
SnapFields == {"live", "bank", "hist", "recorded", "updated", "tips", "roots"}

\* What the proofs need of the types, and how the keeper's view lags: its epoch and
\* slot are not ahead of the clock, nor are the copies it knows of ahead of the
\* accounts.
Typed ==
  /\ clock \in [epoch : Nat, slot : Nat] /\ clock.epoch > 0 /\ clock.slot < SlotsPerEpoch
  /\ st \in StateType /\ st.epoch <= clock.epoch
  /\ st.epoch = clock.epoch => st.slot <= clock.slot
  /\ hist \in SUBSET Votes /\ faults \in Nat /\ drops \in Nat
  /\ updated \in [Votes \cup {Cluster} -> Int]
  /\ \A i \in Votes \cup {Cluster} : -1 <= updated[i] /\ updated[i] <= Now
  /\ DOMAIN snap = SnapFields
  /\ snap.live \in SUBSET Votes /\ snap.hist \in SUBSET Votes
  /\ snap.updated \in [Votes -> Int]
  /\ \A v \in Votes : snap.updated[v] <= updated[v]

\* Operations that read the snapshot find the history accounts in it.
SnapCurrent ==
  /\ pc = "create" => snap.live = Votes
  /\ pc = "fire" => snap.hist = hist \/ todo \in {<<>>, <<"Steward">>}

Runs == st.runs["VoteAccount"]

\* One counted run of this epoch has copied every vote account in it; so a rerun that
\* is asked for after it is one for instant unstaking, late in the epoch.
RunsMeanCopies ==
  drops = 0 /\ st.epoch = clock.epoch /\ Runs >= 1 =>
    /\ \A v \in Votes : updated[v] >= FirstSlot(clock.epoch)
    /\ st.RerunVote => 10 * clock.slot >= 9 * SlotsPerEpoch

RunInv == RunsMeanCopies /\ LateCopies

\* As long as no request has failed every account is there when operations fire.
AllCreated == pc \in {"post", "fire"} => hist = Votes

LoopInv == Typed /\ SnapCurrent

\* The two invariants of the theorem, for its two premises.
KnownInv == LoopInv /\ RunInv /\ hist = Votes
FaultFreeInv == faults \in Nat /\ (faults = 0 => LoopInv /\ RunInv /\ AllCreated)
-----------------------------------------------------------------------------
\* The numbers the loop computes with.
LEMMA Numbers ==
  /\ SlotsPerEpoch \in Nat /\ Recent \in Nat \ {0}
  /\ \A e \in Nat : FirstSlot(e) \in Nat /\ FirstSlot(e + 1) = FirstSlot(e) + SlotsPerEpoch
  /\ (SlotsPerEpoch * 9) \div 10 \in Nat
  /\ \A x \in Nat : 10 * x >= 9 * SlotsPerEpoch => x >= (SlotsPerEpoch * 9) \div 10
  /\ IsFiniteSet(Votes) /\ Cluster \notin Votes
<1>1. SlotsPerEpoch \in Nat /\ Recent \in Nat \ {0} /\ IsFiniteSet(Votes) /\ Cluster \notin Votes
  BY KeeperLoopAssumption
<1>2. \A e \in Nat : FirstSlot(e) \in Nat /\ FirstSlot(e + 1) = FirstSlot(e) + SlotsPerEpoch
  BY <1>1 DEF FirstSlot
<1>3. (SlotsPerEpoch * 9) \div 10 \in Nat
  BY <1>1
<1>4. \A x \in Nat : 10 * x >= 9 * SlotsPerEpoch => x >= (SlotsPerEpoch * 9) \div 10
  BY <1>1
<1> QED BY <1>1, <1>2, <1>3, <1>4

\* Counting a run: up to MaxRuns.
LEMMA CountRun ==
  ASSUME NEW n \in Nat
  PROVE  /\ Min({n + 1, MaxRuns}) \in Nat
         /\ Min({n + 1, MaxRuns}) >= 3 => n >= 2
<1>1. {n + 1, MaxRuns} \in SUBSET Nat /\ {n + 1, MaxRuns} # {}
  BY DEF MaxRuns
<1>2. /\ Min({n + 1, MaxRuns}) \in {n + 1, MaxRuns}
      /\ \A y \in {n + 1, MaxRuns} : Min({n + 1, MaxRuns}) <= y
  BY <1>1, MinNatural
<1>3. Min({n + 1, MaxRuns}) \in Nat /\ Min({n + 1, MaxRuns}) <= n + 1
  BY <1>1, <1>2
<1> QED BY <1>3

\* The snapshot of a keeper that has fetched nothing.
LEMMA NoSnapFacts ==
  /\ DOMAIN NoSnap = SnapFields /\ NoSnap.live = {} /\ NoSnap.hist = {}
  /\ NoSnap.updated = [v \in Votes |-> -1]
BY DEF NoSnap, SnapFields

\* The state of a keeper that has just been started.
LEMMA NoStateFacts ==
  ASSUME NEW b \in FullStartup
  PROVE  /\ NoState(b) \in StateType /\ NoState(b).epoch = 0
         /\ NoState(b).runs["VoteAccount"] = 0
<1>1. b \in BOOLEAN
  BY KeeperLoopAssumption
<1>2. [op \in Counted |-> 0] \in [Counted -> Nat] /\ "VoteAccount" \in Counted
  BY DEF Counted
<1> QED BY <1>1, <1>2 DEF NoState, StateType

\* The clock is what Now and the thresholds are taken from.
LEMMA NowTyped ==
  ASSUME Typed
  PROVE  /\ clock.epoch \in Nat /\ clock.slot \in Nat /\ FirstSlot(clock.epoch) \in Nat
         /\ Now = FirstSlot(clock.epoch) + clock.slot /\ Now \in Nat
BY Numbers DEF Typed, Now

\* Nothing has been fetched, copied or counted.
LEMMA InitLoop == Init => LoopInv /\ RunInv /\ (faults = 0 => AllCreated)
<1> SUFFICES ASSUME Init PROVE LoopInv /\ RunInv /\ AllCreated
  OBVIOUS
<1>1. /\ clock = [epoch |-> FirstEpoch, slot |-> StartSlot] /\ hist \in SUBSET Votes
      /\ updated = [i \in Votes \cup {Cluster} |-> -1]
      /\ pc = "pre" /\ todo = <<>> /\ snap = NoSnap
      /\ st \in {NoState(s) : s \in FullStartup}
      /\ faults = 0 /\ drops = 0
  BY DEF Init
<1>2. FirstEpoch \in Nat \ {0} /\ StartSlot \in 0 .. SlotsPerEpoch - 1
  BY KeeperLoopAssumption
<1>3. /\ clock \in [epoch : Nat, slot : Nat] /\ clock.epoch > 0 /\ clock.slot < SlotsPerEpoch
  BY <1>1, <1>2, Numbers
<1>4. st \in StateType /\ st.epoch = 0 /\ Runs = 0
  BY <1>1, NoStateFacts DEF Runs
<1>5. Now \in Nat
  BY <1>3, Numbers DEF Now
<1>6. Typed
  BY <1>1, <1>3, <1>4, <1>5, NoSnapFacts DEF Typed
<1>7. RunInv
  BY <1>3, <1>4 DEF RunInv, RunsMeanCopies, LateCopies, Runs
<1> QED BY <1>1, <1>6, <1>7 DEF LoopInv, SnapCurrent, AllCreated
-----------------------------------------------------------------------------
(* One operation. *)

\* What any operation leaves alone, and that troubles only add up.
Frame ==
  /\ UNCHANGED <<hist, clock, pc>>
  /\ pc = "fire" /\ todo # <<>> /\ todo' = Tail(todo)
  /\ \/ snap' = snap
     \/ snap' = NoSnap /\ todo' \in {<<>>, <<"Steward">>}
  /\ faults' \in {faults, faults + 1}
  /\ \E n \in Nat : drops' = drops + n

\* An operation other than the vote account copy touches neither the copies of vote
\* accounts nor the count of their runs.
OtherEffect ==
  /\ Frame
  /\ st' = st \/ \E op \in Counted \ {"VoteAccount"} :
                   st' = [st EXCEPT !.runs[op] = Min({@ + 1, MaxRuns})]
  /\ \/ updated' = updated
     \/ updated' = [i \in DOMAIN updated |-> IF i \in {Cluster} THEN Now ELSE updated[i]]

\* The troubles of an operation.
LEMMA LostAreCounted ==
  ASSUME NEW lost \in SUBSET (Votes \cup {Cluster})
  PROVE  Cardinality(lost) \in Nat /\ (Cardinality(lost) = 0 => lost = {})
<1>1. IsFiniteSet(Votes \cup {Cluster})
  BY Numbers, FS_AddElement
<1>2. IsFiniteSet(lost)
  BY <1>1, FS_Subset
<1> QED BY <1>2, FS_CardinalityType, FS_EmptySet

\* The cluster history, which may be the only thing that is copied.
LEMMA ClusterEffect ==
  ASSUME Typed, ClusterHistory
  PROVE  OtherEffect
<1>1. ASSUME NEW S \in SUBSET {Cluster}
      PROVE  [i \in DOMAIN updated |-> IF i \in S THEN Now ELSE updated[i]]
               \in {updated, [i \in DOMAIN updated |-> IF i \in {Cluster} THEN Now ELSE updated[i]]}
  <2>1. updated = [i \in DOMAIN updated |-> updated[i]]
    BY DEF Typed
  <2>2. CASE S = {}
    BY <2>1, <2>2
  <2>3. CASE S = {Cluster}
    BY <2>3
  <2> QED BY <2>2, <2>3
<1>2. updated' \in {updated, [i \in DOMAIN updated |-> IF i \in {Cluster} THEN Now ELSE updated[i]]}
  BY <1>1 DEF ClusterHistory, Fire, Copy
<1>3. \E n \in Nat : drops' = drops + n
  <2>1. ASSUME NEW lost \in SUBSET {Cluster} PROVE Cardinality(lost) \in Nat
    BY LostAreCounted
  <2>2. drops = drops + 0
    BY DEF Typed
  <2> QED BY <2>1, <2>2 DEF ClusterHistory, Fire
<1>4. /\ UNCHANGED <<hist, clock, pc>>
      /\ pc = "fire" /\ todo # <<>> /\ todo' = Tail(todo)
      /\ snap' = snap \/ (snap' = NoSnap /\ todo' \in {<<>>, <<"Steward">>})
      /\ faults' \in {faults, faults + 1}
  BY DEF ClusterHistory, Fire, Fault, env
<1>5. st' = st \/ st' = [st EXCEPT !.runs["ClusterHistory"] = Min({@ + 1, MaxRuns})]
  BY DEF ClusterHistory, Fire
<1> QED BY <1>2, <1>3, <1>4, <1>5 DEF OtherEffect, Frame, Counted

\* The uploads that only add entries: what is due is a set of vote accounts.
LEMMA RecordEffect ==
  ASSUME Typed,
         \/ MevCommission \/ MevEarned \/ StakeUpload \/ GossipUpload
         \/ PriorityFeeCommission \/ CopyIsBamConnected
  PROVE  OtherEffect
<1> DEFINE Drops == \E n \in Nat : drops' = drops + n
           Rest == /\ UNCHANGED <<hist, clock, pc, updated>>
                   /\ pc = "fire" /\ todo # <<>> /\ todo' = Tail(todo)
                   /\ snap' = snap \/ (snap' = NoSnap /\ todo' \in {<<>>, <<"Steward">>})
                   /\ faults' \in {faults, faults + 1}
           Counts(op) == st' = st \/ st' = [st EXCEPT !.runs[op] = Min({@ + 1, MaxRuns})]
<1>0. snap.hist \subseteq Votes /\ snap.live \subseteq Votes /\ drops = drops + 0
  BY DEF Typed
<1>1. ASSUME NEW due \in SUBSET Votes, NEW lost \in SUBSET due
      PROVE  Cardinality(lost) \in Nat
  BY LostAreCounted
<1>2. CASE MevCommission
  <2>1. UpdateMevCommission \in SUBSET Votes
    BY <1>0 DEF UpdateMevCommission
  <2>2. Drops
    BY <1>0, <1>1, <1>2, <2>1 DEF MevCommission, Fire
  <2>3. Rest
    BY <1>2 DEF MevCommission, Fire, Record, Fault, env
  <2>4. st' = st
    BY <1>2 DEF MevCommission, Fire, Counted
  <2> QED BY <2>2, <2>3, <2>4 DEF OtherEffect, Frame
<1>3. CASE MevEarned
  <2>1. UpdateMevEarned \in SUBSET Votes
    BY <1>0 DEF UpdateMevEarned
  <2>2. Drops
    BY <1>0, <1>1, <1>3, <2>1 DEF MevEarned, Fire
  <2>3. Rest
    BY <1>3 DEF MevEarned, Fire, Record, Fault, env
  <2>4. st' = st
    BY <1>3 DEF MevEarned, Fire, Counted
  <2> QED BY <2>2, <2>3, <2>4 DEF OtherEffect, Frame
<1>4. CASE StakeUpload
  <2>1. UpdateStakeHistory \in SUBSET Votes
    BY <1>0 DEF UpdateStakeHistory
  <2>2. Drops
    BY <1>0, <1>1, <1>4, <2>1 DEF StakeUpload, Fire
  <2>3. Rest
    BY <1>4 DEF StakeUpload, Fire, Record, Fault, env
  <2>4. Counts("StakeUpload")
    BY <1>4 DEF StakeUpload, Fire
  <2> QED BY <2>2, <2>3, <2>4 DEF OtherEffect, Frame, Counted
<1>5. CASE GossipUpload
  <2>1. UploadGossipValues \in SUBSET Votes
    BY <1>0 DEF UploadGossipValues
  <2>2. Drops
    BY <1>0, <1>1, <1>5, <2>1 DEF GossipUpload, Fire
  <2>3. Rest
    BY <1>5 DEF GossipUpload, Fire, Record, Fault, env
  <2>4. Counts("GossipUpload")
    BY <1>5 DEF GossipUpload, Fire
  <2> QED BY <2>2, <2>3, <2>4 DEF OtherEffect, Frame, Counted
<1>6. CASE PriorityFeeCommission
  <2>1. UpdatePriorityFeeCommission \in SUBSET Votes
    BY <1>0 DEF UpdatePriorityFeeCommission
  <2>2. Drops
    BY <1>0, <1>1, <1>6, <2>1 DEF PriorityFeeCommission, Fire
  <2>3. Rest
    BY <1>6 DEF PriorityFeeCommission, Fire, Record, Fault, env
  <2>4. st' = st
    BY <1>6 DEF PriorityFeeCommission, Fire, Counted
  <2> QED BY <2>2, <2>3, <2>4 DEF OtherEffect, Frame
<1>7. CASE CopyIsBamConnected
  <2>1. snap.hist \in SUBSET Votes
    BY <1>0
  <2>2. Drops
    BY <1>0, <1>1, <1>7, <2>1 DEF CopyIsBamConnected, Fire
  <2>3. Rest
    BY <1>7 DEF CopyIsBamConnected, Fire, Record, Fault, env
  <2>4. Counts("CopyIsBamConnected")
    BY <1>7 DEF CopyIsBamConnected, Fire
  <2> QED BY <2>2, <2>3, <2>4 DEF OtherEffect, Frame, Counted
<1> QED BY <1>2, <1>3, <1>4, <1>5, <1>6, <1>7

\* The vote account copy: it asks for no more than the history accounts it knows of,
\* and counts when nothing was reported as an error.
VoteEffect ==
  /\ Frame
  /\ Head(todo) = "VoteAccount"
  /\ \E S \in SUBSET UpdateVoteAccounts :
       /\ updated' = [i \in DOMAIN updated |-> IF i \in S THEN Now ELSE updated[i]]
       /\ \/ st' = [st EXCEPT !.RerunVote = FALSE]
          \/ /\ ThreeTimes(Runs) \/ st.RerunVote
             /\ drops' = 0 => S = UpdateVoteAccounts
             /\ st' = [st EXCEPT !.RerunVote = FALSE, !.runs["VoteAccount"] = Min({Runs + 1, MaxRuns})]

\* The vote account copy has this effect.
LEMMA VoteHasEffect ==
  ASSUME Typed, VoteAccount
  PROVE  VoteEffect
<1> DEFINE due == UpdateVoteAccounts
           Copied(S) == updated' = [i \in DOMAIN updated |-> IF i \in S THEN Now ELSE updated[i]]
           cleared == [st EXCEPT !.RerunVote = FALSE]
<1>0. due \in SUBSET Votes /\ drops \in Nat
  BY DEF Typed, UpdateVoteAccounts
<1>1. ASSUME NEW lost \in SUBSET due
      PROVE  Cardinality(lost) \in Nat /\ (Cardinality(lost) = 0 => lost = {})
  BY <1>0, LostAreCounted
<1>2. /\ UNCHANGED <<hist, clock, pc>> /\ Head(todo) = "VoteAccount"
      /\ pc = "fire" /\ todo # <<>> /\ todo' = Tail(todo)
      /\ snap' = snap \/ (snap' = NoSnap /\ todo' \in {<<>>, <<"Steward">>})
      /\ faults' \in {faults, faults + 1}
  BY DEF VoteAccount, Fire, Fault, env
<1>3. CASE st' = cleared /\ UNCHANGED <<updated, drops>>
  <2>1. updated' = [i \in DOMAIN updated |-> IF i \in {} THEN Now ELSE updated[i]]
    BY <1>3 DEF Typed
  <2>2. Frame
    <3>1. drops' = drops + 0
      BY <1>0, <1>3
    <3> QED BY <1>2, <3>1 DEF Frame
  <2>3. {} \in SUBSET UpdateVoteAccounts
    OBVIOUS
  <2>4. /\ updated' = [i \in DOMAIN updated |-> IF i \in {} THEN Now ELSE updated[i]]
        /\ st' = [st EXCEPT !.RerunVote = FALSE]
    BY <2>1, <1>3
  <2> QED BY <1>2, <2>2, <2>3, <2>4 DEF VoteEffect
<1>4. CASE /\ ThreeTimes(Runs) \/ st.RerunVote
           /\ \E lost \in SUBSET due : Copied(due \ lost) /\ drops' = drops + Cardinality(lost)
           /\ st' = [cleared EXCEPT !.runs["VoteAccount"] = Min({@ + 1, MaxRuns})]
  <2>1. PICK lost \in SUBSET due : Copied(due \ lost) /\ drops' = drops + Cardinality(lost)
    BY <1>4
  <2>2. drops' = 0 => due \ lost = due
    BY <1>0, <1>1, <2>1
  <2>3. st' = [st EXCEPT !.RerunVote = FALSE, !.runs["VoteAccount"] = Min({Runs + 1, MaxRuns})]
    BY <1>4 DEF Runs, Typed, StateType
  <2>4. \E n \in Nat : drops' = drops + n
    BY <1>1, <2>1
  <2>5. due \ lost \in SUBSET due
    OBVIOUS
  <2> QED BY <1>2, <1>4, <2>1, <2>2, <2>3, <2>4, <2>5 DEF VoteEffect, Frame
<1>5. CASE st' = cleared /\ UNCHANGED drops /\ \E S \in SUBSET due : Copied(S)
  <2>1. drops' = drops + 0
    BY <1>0, <1>5
  <2> QED BY <1>2, <1>5, <2>1 DEF VoteEffect, Frame
<1> QED BY <1>3, <1>4, <1>5 DEF VoteAccount, Fire, Copy, Runs, Counted
-----------------------------------------------------------------------------
(* Steps that copy no vote account. *)

\* The snapshot stays or is given up; the keeper's view of the clock lags at most.
LEMMA TypedKept ==
  ASSUME Typed, UNCHANGED clock,
         updated' \in [Votes \cup {Cluster} -> Int],
         \A i \in Votes \cup {Cluster} : updated'[i] \in {updated[i], Now},
         hist' \in SUBSET Votes, faults' \in Nat, drops' \in Nat,
         st' \in StateType, st'.epoch <= clock.epoch,
         st'.epoch = clock.epoch => st'.slot <= clock.slot,
         snap' \in {snap, NoSnap}
  PROVE  Typed' /\ \A i \in Votes \cup {Cluster} : updated[i] <= updated'[i]
<1>1. Now' = Now /\ Now \in Nat
  BY NowTyped DEF Now
<1>2. \A i \in Votes \cup {Cluster} : /\ updated[i] \in Int /\ updated[i] <= updated'[i]
                                      /\ -1 <= updated'[i] /\ updated'[i] <= Now'
  BY <1>1 DEF Typed
<1>3. /\ DOMAIN snap' = SnapFields
      /\ snap'.live \in SUBSET Votes /\ snap'.hist \in SUBSET Votes
      /\ snap'.updated \in [Votes -> Int]
      /\ \A v \in Votes : snap'.updated[v] <= updated'[v]
  <2>1. CASE snap' = snap
    BY <2>1, <1>2 DEF Typed
  <2>2. CASE snap' = NoSnap
    BY <2>2, <1>2, NoSnapFacts
  <2> QED BY <2>1, <2>2
<1> QED BY <1>2, <1>3 DEF Typed

\* The runs of this epoch and the copies they stand for stay.
LEMMA RunsKept ==
  ASSUME Typed, Typed', RunInv, UNCHANGED clock, drops' = 0 => drops = 0,
         \A v \in Votes : updated[v] <= updated'[v],
         st'.epoch = clock.epoch /\ Runs' >= 1 =>
           st.epoch = clock.epoch /\ Runs' = Runs /\ (st'.RerunVote => st.RerunVote)
  PROVE  RunInv'
<1> SUFFICES ASSUME drops' = 0, st'.epoch = clock.epoch, Runs' >= 1
             PROVE  /\ \A v \in Votes : updated'[v] >= FirstSlot(clock.epoch)
                    /\ st'.RerunVote => 10 * clock.slot >= 9 * SlotsPerEpoch
                    /\ Runs' >= 3 => \A v \in Votes :
                         updated'[v] > FirstSlot(st'.epoch) + (SlotsPerEpoch * 9) \div 10 - Recent
  <2>1. Runs' \in Nat
    BY DEF Typed, StateType, Counted, Runs
  <2> QED BY <2>1 DEF RunInv, RunsMeanCopies, LateCopies, Runs
<1>1. st.epoch = clock.epoch /\ Runs' = Runs /\ (st'.RerunVote => st.RerunVote) /\ drops = 0
  OBVIOUS
<1>2. \A v \in Votes : updated[v] \in Int /\ updated'[v] \in Int
  BY DEF Typed
<1>3. FirstSlot(clock.epoch) \in Nat
  BY NowTyped
<1>4. \A v \in Votes : updated'[v] >= FirstSlot(clock.epoch)
  BY <1>1, <1>2, <1>3 DEF RunInv, RunsMeanCopies
<1>5. st'.RerunVote => 10 * clock.slot >= 9 * SlotsPerEpoch
  BY <1>1 DEF RunInv, RunsMeanCopies
<1>6. Runs' >= 3 => \A v \in Votes :
        updated'[v] > FirstSlot(st'.epoch) + (SlotsPerEpoch * 9) \div 10 - Recent
  <2> SUFFICES ASSUME Runs' >= 3, NEW v \in Votes
               PROVE  updated'[v] > FirstSlot(st'.epoch) + (SlotsPerEpoch * 9) \div 10 - Recent
    OBVIOUS
  <2>1. updated[v] > FirstSlot(st.epoch) + (SlotsPerEpoch * 9) \div 10 - Recent
    BY <1>1 DEF RunInv, LateCopies, Runs
  <2> QED BY <2>1, <1>1, <1>2, <1>3, Numbers
<1> QED BY <1>4, <1>5, <1>6

\* get_epoch_info: a new epoch starts its runs afresh.
LEMMA EpochInfoFacts ==
  ASSUME Typed
  PROVE  /\ EpochInfo \in StateType /\ EpochInfo.epoch = clock.epoch
         /\ EpochInfo.slot = clock.slot /\ EpochInfo.RerunVote = st.RerunVote
         /\ EpochInfo.runs["VoteAccount"] = IF clock.epoch # st.epoch THEN 0 ELSE Runs
<1>1. [op \in Counted |-> 0] \in [Counted -> Nat] /\ "VoteAccount" \in Counted
  BY DEF Counted
<1> QED BY <1>1 DEF Typed, EpochInfo, StateType, Runs

\* A tick that ends keeps or gives up what was fetched.
LEMMA FetchSteps ==
  ASSUME LoopInv, RunInv, PreCreateUpdate \/ SleepAndTick
  PROVE  LoopInv' /\ RunInv' /\ hist' = hist /\ (faults = 0 /\ faults' = 0 => AllCreated')
<1>0. Typed /\ SnapCurrent
  BY DEF LoopInv
<1>1. /\ UNCHANGED <<clock, updated, hist, drops>> /\ faults' \in {faults, faults + 1}
      /\ snap' \in {snap, NoSnap} /\ pc' \in {"pre", "votes"}
  BY DEF PreCreateUpdate, SleepAndTick, FetchFails, AdvanceTick, Fault, chain, env
<1>2. \/ st' = st \/ st' = EpochInfo \/ st' = [st EXCEPT !.Startup = FALSE]
  BY DEF PreCreateUpdate, SleepAndTick
<1>3. /\ st' \in StateType /\ st'.epoch <= clock.epoch
      /\ st'.epoch = clock.epoch => st'.slot <= clock.slot
      /\ st'.epoch = clock.epoch /\ Runs' >= 1 =>
           st.epoch = clock.epoch /\ Runs' = Runs /\ (st'.RerunVote => st.RerunVote)
  <2>1. CASE st' = st
    BY <2>1, <1>0 DEF Typed, Runs
  <2>2. CASE st' = EpochInfo
    <3>1. clock.epoch \in Nat /\ clock.slot \in Nat
      BY <1>0 DEF Typed
    <3>2. Runs' = IF clock.epoch # st.epoch THEN 0 ELSE Runs
      BY <2>2, <1>0, EpochInfoFacts DEF Runs
    <3> QED BY <2>2, <3>1, <3>2, <1>0, EpochInfoFacts
  <2>3. CASE st' = [st EXCEPT !.Startup = FALSE]
    BY <2>3, <1>0 DEF Typed, StateType, Runs
  <2> QED BY <1>2, <2>1, <2>2, <2>3
<1>4. /\ updated' \in [Votes \cup {Cluster} -> Int] /\ hist' \in SUBSET Votes
      /\ faults' \in Nat /\ drops' \in Nat
      /\ \A i \in Votes \cup {Cluster} : updated'[i] \in {updated[i], Now}
  BY <1>0, <1>1 DEF Typed
<1>5. Typed' /\ \A i \in Votes \cup {Cluster} : updated[i] <= updated'[i]
  BY <1>0, <1>1, <1>3, <1>4, TypedKept
<1>6. RunInv'
  BY <1>0, <1>1, <1>3, <1>5, RunsKept
<1>7. SnapCurrent' /\ AllCreated'
  BY <1>1 DEF SnapCurrent, AllCreated
<1> QED BY <1>1, <1>5, <1>6, <1>7 DEF LoopInv

\* The three requests in the middle of a fetch: what enters the snapshot is what the
\* chain has now, and accounts are only created.
LEMMA SnapshotSteps ==
  ASSUME LoopInv, RunInv, GetVoteAccountMap \/ CreateMissingAccounts \/ PostCreateUpdate
  PROVE  /\ LoopInv' /\ RunInv' /\ hist \subseteq hist'
         /\ AllCreated /\ faults' = 0 /\ faults = 0 => AllCreated'
<1>0. Typed /\ SnapCurrent
  BY DEF LoopInv
<1>1. /\ UNCHANGED <<clock, updated, drops, st>> /\ faults' \in {faults, faults + 1}
  <2>1. CASE GetVoteAccountMap
    BY <2>1 DEF GetVoteAccountMap, FetchFails, AdvanceTick, Fault, chain, env
  <2>2. CASE CreateMissingAccounts \/ PostCreateUpdate
    BY <2>2 DEF CreateMissingAccounts, PostCreateUpdate, FetchFails, AdvanceTick, Fault, chain, env
  <2> QED BY <2>1, <2>2
<1>2. /\ updated' \in [Votes \cup {Cluster} -> Int] /\ faults' \in Nat /\ drops' \in Nat
      /\ \A i \in Votes \cup {Cluster} : updated'[i] \in {updated[i], Now}
      /\ st' \in StateType /\ st'.epoch <= clock.epoch
      /\ st'.epoch = clock.epoch => st'.slot <= clock.slot
  BY <1>0, <1>1 DEF Typed
<1>3. CASE FetchFails /\ UNCHANGED hist
  <2>1. snap' = NoSnap /\ pc' = "pre" /\ faults' = faults + 1
    BY <1>3 DEF FetchFails, AdvanceTick, Fault
  <2>2. hist' \in SUBSET Votes
    BY <1>0, <1>3 DEF Typed
  <2>3. Typed' /\ \A i \in Votes \cup {Cluster} : updated[i] <= updated'[i]
    BY <1>0, <1>1, <1>2, <2>1, <2>2, TypedKept
  <2>4. RunInv'
    BY <1>0, <1>1, <2>3, RunsKept DEF Runs
  <2> QED BY <1>3, <2>1, <2>3, <2>4 DEF LoopInv, SnapCurrent, AllCreated
<1>4. CASE /\ pc = "votes" /\ pc' = "create" /\ UNCHANGED <<hist, faults>>
           /\ \E bank \in Banks : snap' = VoteAccountsOf(bank)
  <2>1. /\ DOMAIN snap' = SnapFields /\ snap'.live = Votes /\ snap'.hist = snap.hist
        /\ snap'.updated = snap.updated
    BY <1>0, <1>4 DEF VoteAccountsOf, Typed, SnapFields
  <2>2. Now' = Now
    BY <1>1 DEF Now
  <2>3. Typed'
    BY <1>0, <1>1, <1>4, <2>1, <2>2 DEF Typed
  <2>4. \A v \in Votes : updated[v] <= updated'[v]
    BY <1>0, <1>1 DEF Typed
  <2>5. RunInv'
    BY <1>0, <1>1, <2>3, <2>4, RunsKept DEF Runs
  <2> QED BY <1>4, <2>1, <2>3, <2>5 DEF LoopInv, SnapCurrent, AllCreated
<1>5. CASE CreateMissingAccounts /\ pc' = "post"
  <2>1. /\ pc = "create" /\ snap' = snap
        /\ \/ hist' = hist \cup snap.live
           \/ faults' = faults + 1 /\ \E S \in SUBSET snap.live : hist' = hist \cup S
    BY <1>5 DEF CreateMissingAccounts, FetchFails, AdvanceTick, Fault
  <2>2. hist' \in SUBSET Votes /\ hist \subseteq hist' /\ snap.live = Votes
    BY <1>0, <2>1 DEF Typed, SnapCurrent
  <2>3. Typed' /\ \A i \in Votes \cup {Cluster} : updated[i] <= updated'[i]
    BY <1>0, <1>1, <1>2, <2>1, <2>2, TypedKept
  <2>4. RunInv'
    BY <1>0, <1>1, <2>3, RunsKept DEF Runs
  <2>5. faults = 0 /\ faults' = 0 => hist' = Votes
    BY <2>1, <2>2
  <2> QED BY <1>5, <2>2, <2>3, <2>4, <2>5 DEF LoopInv, SnapCurrent, AllCreated
<1>6. CASE /\ pc = "post" /\ pc' = "fire" /\ UNCHANGED <<hist, faults>>
           /\ snap' = [snap EXCEPT !.hist = hist, !.recorded = recorded,
                         !.updated = [v \in Votes |-> updated[v]], !.tips = tips, !.roots = roots]
  <2>1. /\ DOMAIN snap' = SnapFields /\ snap'.live = snap.live /\ snap'.hist = hist
        /\ snap'.updated = [v \in Votes |-> updated[v]]
    BY <1>0, <1>6 DEF Typed, SnapFields
  <2>2. Now' = Now
    BY <1>1 DEF Now
  <2>3. \A v \in Votes : updated[v] \in Int /\ snap'.updated[v] = updated[v]
    BY <1>0, <2>1 DEF Typed
  <2>4. Typed'
    BY <1>0, <1>1, <1>6, <2>1, <2>2, <2>3 DEF Typed
  <2>5. \A v \in Votes : updated[v] <= updated'[v]
    BY <1>0, <1>1 DEF Typed
  <2>6. RunInv'
    BY <1>0, <1>1, <2>4, <2>5, RunsKept DEF Runs
  <2> QED BY <1>6, <2>1, <2>4, <2>6 DEF LoopInv, SnapCurrent, AllCreated
<1>7. \/ FetchFails /\ UNCHANGED hist
      \/ /\ pc = "votes" /\ pc' = "create" /\ UNCHANGED <<hist, faults>>
         /\ \E bank \in Banks : snap' = VoteAccountsOf(bank)
      \/ CreateMissingAccounts /\ pc' = "post"
      \/ /\ pc = "post" /\ pc' = "fire" /\ UNCHANGED <<hist, faults>>
         /\ snap' = [snap EXCEPT !.hist = hist, !.recorded = recorded,
                       !.updated = [v \in Votes |-> updated[v]], !.tips = tips, !.roots = roots]
  <2>1. CASE GetVoteAccountMap
    BY <2>1 DEF GetVoteAccountMap, chain
  <2>2. CASE CreateMissingAccounts \/ PostCreateUpdate
    BY <2>2 DEF CreateMissingAccounts, PostCreateUpdate, chain
  <2> QED BY <2>1, <2>2
<1> QED BY <1>3, <1>4, <1>5, <1>6, <1>7

\* Operations find what they were given, down to the last one.
LEMMA FrameCurrent ==
  ASSUME SnapCurrent, Frame
  PROVE  SnapCurrent'
<1>1. CASE snap' = snap
  <2>1. CASE snap.hist = hist
    BY <1>1, <2>1 DEF Frame, SnapCurrent
  <2>2. CASE todo \in {<<>>, <<"Steward">>}
    <3>2. Tail(<<"Steward">>) = <<>>
      OBVIOUS
    <3>1. todo' = <<>>
      BY <2>2, <3>2 DEF Frame
    <3> QED BY <3>1 DEF Frame, SnapCurrent
  <2> QED BY <2>1, <2>2 DEF Frame, SnapCurrent
<1>2. CASE snap' = NoSnap /\ todo' \in {<<>>, <<"Steward">>}
  BY <1>2 DEF Frame, SnapCurrent
<1> QED BY <1>1, <1>2 DEF Frame

\* The operations that copy no vote account.
LEMMA OtherStep ==
  ASSUME LoopInv, RunInv, OtherEffect
  PROVE  LoopInv' /\ RunInv' /\ hist' = hist /\ (faults' = 0 /\ AllCreated => AllCreated')
<1>0. Typed /\ SnapCurrent
  BY DEF LoopInv
<1>1. /\ UNCHANGED <<hist, clock, pc>> /\ snap' \in {snap, NoSnap}
      /\ faults' \in {faults, faults + 1} /\ \E n \in Nat : drops' = drops + n
  BY DEF OtherEffect, Frame
<1>2. drops' \in Nat /\ (drops' = 0 => drops = 0) /\ faults' \in Nat
  BY <1>0, <1>1 DEF Typed
<1>3. /\ st' \in StateType /\ st'.epoch = st.epoch /\ st'.slot = st.slot
      /\ Runs' = Runs /\ st'.RerunVote = st.RerunVote
  <2>1. CASE st' = st
    BY <2>1, <1>0 DEF Typed, Runs
  <2>2. CASE \E op \in Counted \ {"VoteAccount"} :
               st' = [st EXCEPT !.runs[op] = Min({@ + 1, MaxRuns})]
    <3>1. PICK op \in Counted \ {"VoteAccount"} :
            st' = [st EXCEPT !.runs[op] = Min({st.runs[op] + 1, MaxRuns})]
      BY <2>2
    <3>2. Min({st.runs[op] + 1, MaxRuns}) \in Nat
      BY <1>0, CountRun DEF Typed, StateType
    <3>3. st'.runs = [st.runs EXCEPT ![op] = Min({st.runs[op] + 1, MaxRuns})]
      BY <3>1, <1>0 DEF Typed, StateType
    <3>4. st'.runs \in [Counted -> Nat] /\ st'.runs["VoteAccount"] = st.runs["VoteAccount"]
      BY <3>2, <3>3, <1>0 DEF Typed, StateType, Counted
    <3> QED BY <3>1, <3>4, <1>0 DEF Typed, StateType, Runs
  <2> QED BY <2>1, <2>2 DEF OtherEffect
<1>4. /\ updated' \in [Votes \cup {Cluster} -> Int]
      /\ \A i \in Votes \cup {Cluster} : updated'[i] \in {updated[i], Now}
  BY <1>0, NowTyped DEF OtherEffect, Typed
<1>5. st'.epoch <= clock.epoch /\ (st'.epoch = clock.epoch => st'.slot <= clock.slot)
  BY <1>0, <1>3 DEF Typed
<1>6. Typed' /\ \A i \in Votes \cup {Cluster} : updated[i] <= updated'[i]
  <2>1. hist' \in SUBSET Votes
    BY <1>0, <1>1 DEF Typed
  <2> QED BY <1>0, <1>1, <1>2, <1>3, <1>4, <1>5, <2>1, TypedKept
<1>7. RunInv'
  BY <1>0, <1>1, <1>2, <1>3, <1>6, RunsKept
<1>8. SnapCurrent' /\ (AllCreated => AllCreated')
  BY <1>0, <1>1, FrameCurrent DEF OtherEffect, AllCreated
<1> QED BY <1>1, <1>6, <1>7, <1>8 DEF LoopInv
-----------------------------------------------------------------------------
(* The vote account copy, the steward, the world. *)

\* A run that counts has copied every vote account, or known a recent copy; a third
\* one is due late or was asked for late.
LEMMA VoteStep ==
  ASSUME LoopInv, RunInv, VoteEffect, hist = Votes
  PROVE  LoopInv' /\ RunInv' /\ hist' = hist /\ (AllCreated => AllCreated')
<1>0. Typed /\ SnapCurrent
  BY DEF LoopInv
<1>1. /\ Frame /\ UNCHANGED <<hist, clock, pc>> /\ snap' \in {snap, NoSnap} /\ pc = "fire"
      /\ faults' \in {faults, faults + 1} /\ \E n \in Nat : drops' = drops + n
      /\ todo # <<>> /\ Head(todo) = "VoteAccount"
  BY DEF VoteEffect, Frame
<1>2. drops' \in Nat /\ (drops' = 0 => drops = 0) /\ faults' \in Nat
  BY <1>0, <1>1 DEF Typed
<1>3. snap.hist = Votes
  <2>1. todo \notin {<<>>, <<"Steward">>}
    BY <1>1
  <2> QED BY <1>0, <1>1, <2>1 DEF SnapCurrent
<1>4. PICK S \in SUBSET UpdateVoteAccounts :
        /\ updated' = [i \in DOMAIN updated |-> IF i \in S THEN Now ELSE updated[i]]
        /\ \/ st' = [st EXCEPT !.RerunVote = FALSE]
           \/ /\ ThreeTimes(Runs) \/ st.RerunVote
              /\ drops' = 0 => S = UpdateVoteAccounts
              /\ st' = [st EXCEPT !.RerunVote = FALSE, !.runs["VoteAccount"] = Min({Runs + 1, MaxRuns})]
  BY DEF VoteEffect
<1>5. /\ updated' \in [Votes \cup {Cluster} -> Int]
      /\ \A i \in Votes \cup {Cluster} : updated'[i] = IF i \in S THEN Now ELSE updated[i]
  BY <1>0, <1>4, NowTyped DEF Typed
<1>6. Runs \in Nat /\ Min({Runs + 1, MaxRuns}) \in Nat
  BY <1>0, CountRun DEF Typed, StateType, Runs, Counted
<1>7. /\ st' \in StateType /\ st'.epoch = st.epoch /\ st'.slot = st.slot /\ ~st'.RerunVote
      /\ Runs' \in {Runs, Min({Runs + 1, MaxRuns})}
  <2>1. CASE st' = [st EXCEPT !.RerunVote = FALSE]
    BY <2>1, <1>0 DEF Typed, StateType, Runs
  <2>2. CASE st' = [st EXCEPT !.RerunVote = FALSE, !.runs["VoteAccount"] = Min({Runs + 1, MaxRuns})]
    <3>1. st'.runs = [st.runs EXCEPT !["VoteAccount"] = Min({Runs + 1, MaxRuns})]
      BY <2>2, <1>0 DEF Typed, StateType
    <3>2. st'.runs \in [Counted -> Nat] /\ Runs' = Min({Runs + 1, MaxRuns})
      BY <3>1, <1>0, <1>6 DEF Typed, StateType, Counted, Runs
    <3> QED BY <2>2, <3>2, <1>0 DEF Typed, StateType
  <2> QED BY <1>4, <2>1, <2>2
<1>8. Typed' /\ \A i \in Votes \cup {Cluster} : updated[i] <= updated'[i]
  <2>1. st'.epoch <= clock.epoch /\ (st'.epoch = clock.epoch => st'.slot <= clock.slot)
    BY <1>0, <1>7 DEF Typed
  <2>2. \A i \in Votes \cup {Cluster} : updated'[i] \in {updated[i], Now}
    BY <1>5
  <2>3. hist' \in SUBSET Votes
    BY <1>0, <1>1 DEF Typed
  <2> QED BY <1>0, <1>1, <1>2, <1>5, <1>7, <2>1, <2>2, <2>3, TypedKept
<1>9. RunInv'
  <2>1. CASE st' = [st EXCEPT !.RerunVote = FALSE]
    <3>1. Runs' = Runs
      BY <2>1, <1>0 DEF Runs, Typed, StateType
    <3> QED BY <3>1, <1>0, <1>1, <1>2, <1>7, <1>8, RunsKept
  <2>2. CASE /\ ThreeTimes(Runs) \/ st.RerunVote
             /\ drops' = 0 => S = UpdateVoteAccounts
             /\ st' = [st EXCEPT !.RerunVote = FALSE, !.runs["VoteAccount"] = Min({Runs + 1, MaxRuns})]
    <3> DEFINE F == FirstSlot(clock.epoch)
               late == (SlotsPerEpoch * 9) \div 10
    <3> SUFFICES ASSUME drops' = 0, st'.epoch = clock.epoch, NEW v \in Votes
                 PROVE  updated'[v] >= F /\ (Runs' >= 3 => updated'[v] > F + late - Recent)
      BY <1>1, <1>7 DEF RunInv, RunsMeanCopies, LateCopies, Runs
    <3>1. /\ st.epoch = clock.epoch /\ st.slot \in Nat /\ st.slot <= clock.slot
          /\ clock.slot \in Nat /\ F \in Nat /\ late \in Nat /\ Recent \in Nat \ {0}
          /\ Now = F + clock.slot /\ S = UpdateVoteAccounts /\ drops = 0
      BY <2>2, <1>0, <1>2, <1>7, NowTyped, Numbers DEF Typed, StateType
    <3>2. /\ updated[v] \in Int /\ snap.updated[v] \in Int /\ snap.updated[v] <= updated[v]
          /\ updated'[v] = IF v \in S THEN Now ELSE updated[v]
      BY <1>0, <1>5 DEF Typed
    <3>3. v \notin S => /\ ~st.RerunVote /\ snap.updated[v] >= F
                        /\ snap.updated[v] > F + st.slot - Recent
      BY <3>1, <1>3 DEF UpdateVoteAccounts, UploadedRecently
    <3> HIDE DEF F, late
    <3>4. updated'[v] >= F
      BY <3>1, <3>2, <3>3
    <3>5. ASSUME Runs' >= 3 PROVE updated'[v] > F + late - Recent
      <4>1. Runs >= 2
        BY <3>5, <1>6, <2>2, CountRun, <1>0 DEF Runs, Typed, StateType, Counted
      <4>2. CASE st.RerunVote
        <5>1. 10 * clock.slot >= 9 * SlotsPerEpoch
          BY <3>1, <4>1, <4>2, <1>6 DEF RunInv, RunsMeanCopies
        <5>2. clock.slot >= late
          BY <5>1, <3>1, Numbers DEF late
        <5> QED BY <5>2, <4>2, <3>1, <3>2, <3>3
      <4>3. CASE ~st.RerunVote
        <5>1. st.slot > late
          BY <2>2, <4>1, <4>3, <1>6 DEF ThreeTimes, late
        <5> QED BY <5>1, <3>1, <3>2, <3>3
      <4> QED BY <4>2, <4>3
    <3> QED BY <3>4, <3>5
  <2> QED BY <1>4, <2>1, <2>2
<1>10. SnapCurrent' /\ (AllCreated => AllCreated')
  BY <1>0, <1>1, FrameCurrent DEF AllCreated
<1> QED BY <1>1, <1>8, <1>9, <1>10 DEF LoopInv

\* The steward asks for a rerun when it misses vote accounts of this epoch, which it
\* does not after a counted run, or of its second half, which it wants late.
LEMMA StewardStep ==
  ASSUME LoopInv, RunInv, Steward
  PROVE  LoopInv' /\ RunInv' /\ hist' = hist /\ (AllCreated => AllCreated')
<1>0. Typed /\ SnapCurrent
  BY DEF LoopInv
<1>1. /\ UNCHANGED <<hist, updated, clock, pc, snap, drops>>
      /\ pc = "fire" /\ todo # <<>> /\ todo' = Tail(todo)
      /\ faults' \in {faults, faults + 1}
  BY DEF Steward, CopyDirectedStakeTargets, Fault, env
<1>2. \/ st' = st
      \/ /\ st' = Rerun
         /\ \E step \in Wanted, v \in hist : ~RecentEnough(step, v)
  BY DEF Steward
<1>3. /\ st' \in StateType /\ st'.epoch = st.epoch /\ st'.slot = st.slot /\ Runs' = Runs
  BY <1>0, <1>2 DEF Typed, StateType, Rerun, Runs
<1>4. Typed'
  <2>1. /\ updated' \in [Votes \cup {Cluster} -> Int] /\ hist' \in SUBSET Votes
        /\ faults' \in Nat /\ drops' \in Nat
        /\ \A i \in Votes \cup {Cluster} : updated'[i] \in {updated[i], Now}
        /\ st'.epoch <= clock.epoch /\ (st'.epoch = clock.epoch => st'.slot <= clock.slot)
    BY <1>0, <1>1, <1>3 DEF Typed
  <2> QED BY <1>0, <1>1, <1>3, <2>1, TypedKept
<1>5. SnapCurrent' /\ (AllCreated => AllCreated')
  <2>1. drops' = drops + 0
    BY <1>0, <1>1 DEF Typed
  <2>2. Frame
    BY <1>1, <2>1 DEF Frame
  <2> QED BY <1>0, <1>1, <2>2, FrameCurrent DEF AllCreated
<1>6. RunInv'
  <2>1. LateCopies'
    BY <1>1, <1>3 DEF RunInv, LateCopies, Runs
  <2>2. RunsMeanCopies'
    <3>1. CASE st' = st
      BY <1>1, <3>1 DEF RunInv, RunsMeanCopies, Runs
    <3>2. CASE /\ st' = Rerun
               /\ \E step \in Wanted, v \in hist : ~RecentEnough(step, v)
      <4> SUFFICES ASSUME drops = 0, st.epoch = clock.epoch, Runs >= 1
                   PROVE  /\ \A v \in Votes : updated[v] >= FirstSlot(clock.epoch)
                          /\ 10 * clock.slot >= 9 * SlotsPerEpoch
        BY <1>1, <1>3 DEF RunsMeanCopies
      <4>1. \A v \in Votes : updated[v] >= FirstSlot(clock.epoch)
        BY DEF RunInv, RunsMeanCopies
      <4>2. PICK step \in Wanted, v \in hist : ~RecentEnough(step, v)
        BY <3>2
      <4>3. v \in Votes /\ updated[v] \in Int /\ FirstSlot(clock.epoch) \in Nat
        BY <1>0, NowTyped DEF Typed
      <4>4. step # "score"
        BY <4>1, <4>2, <4>3 DEF RecentEnough
      <4>5. 10 * clock.slot >= 9 * SlotsPerEpoch
        BY <4>2, <4>4 DEF Wanted
      <4> QED BY <4>1, <4>5
    <3> QED BY <1>2, <3>1, <3>2
  <2> QED BY <2>1, <2>2 DEF RunInv
<1> QED BY <1>1, <1>4, <1>5, <1>6 DEF LoopInv

\* The clock moves on within an epoch, which makes late later, or into the next one.
LEMMA InstantStep ==
  ASSUME LoopInv, RunInv, NextInstant
  PROVE  LoopInv' /\ RunInv' /\ hist' = hist /\ (AllCreated => AllCreated')
<1>0. Typed /\ SnapCurrent
  BY DEF LoopInv
<1>1. UNCHANGED <<hist, updated, pc, todo, snap, st, faults, drops>>
  BY DEF NextInstant, chain, loop
<1>2. /\ clock.epoch \in Nat /\ clock.slot \in Nat /\ clock.slot < SlotsPerEpoch
      /\ SlotsPerEpoch \in Nat
      /\ clock = [epoch |-> clock.epoch, slot |-> clock.slot]
  BY <1>0, Numbers DEF Typed
<1>3. \/ /\ clock'.epoch = clock.epoch /\ clock'.slot \in Nat /\ clock'.slot < SlotsPerEpoch
         /\ clock'.slot > clock.slot /\ clock' \in [epoch : Nat, slot : Nat]
      \/ /\ clock'.epoch = clock.epoch + 1 /\ clock'.slot = 0
         /\ clock' \in [epoch : Nat, slot : Nat]
  <2> DEFINE later == {s \in Instants : s > clock.slot}
  <2>1. later \in SUBSET Nat /\ \A s \in later : s < SlotsPerEpoch /\ s > clock.slot
    BY <1>2, KeeperLoopAssumption
  <2>2. CASE later # {} /\ clock' = [clock EXCEPT !.slot = Min(later)]
    <3>1. Min(later) \in later
      BY <2>1, <2>2, MinNatural
    <3>2. clock'.epoch = clock.epoch /\ clock'.slot = Min(later)
      BY <2>2, <1>2
    <3>3. clock' \in [epoch : Nat, slot : Nat]
      BY <2>1, <2>2, <3>1, <1>2
    <3> QED BY <2>1, <3>1, <3>2, <3>3
  <2>3. CASE clock' = [epoch |-> clock.epoch + 1, slot |-> 0]
    BY <2>3, <1>2
  <2> QED BY <2>2, <2>3 DEF NextInstant
<1>4. clock'.slot < SlotsPerEpoch /\ clock'.epoch > 0
  BY <1>0, <1>2, <1>3 DEF Typed
<1>5. Now <= Now' /\ Now \in Nat /\ Now' \in Nat
  <2>1. FirstSlot(clock.epoch) \in Nat /\ FirstSlot(clock.epoch + 1) = FirstSlot(clock.epoch) + SlotsPerEpoch
    BY <1>2, Numbers
  <2> QED BY <1>2, <1>3, <2>1 DEF Now
<1>6. /\ st.epoch \in Nat /\ st.slot \in Nat /\ st.epoch <= clock'.epoch
      /\ st.epoch = clock'.epoch =>
           clock'.epoch = clock.epoch /\ clock.slot <= clock'.slot /\ st.slot <= clock'.slot
  BY <1>0, <1>2, <1>3 DEF Typed, StateType
<1>7. Typed'
  <2>1. \A i \in Votes \cup {Cluster} : -1 <= updated'[i] /\ updated'[i] <= Now'
    BY <1>0, <1>1, <1>5 DEF Typed
  <2> QED BY <1>0, <1>1, <1>3, <1>4, <1>6, <2>1 DEF Typed
<1>8. RunInv'
  <2> SUFFICES ASSUME drops = 0, st.epoch = clock'.epoch, Runs >= 1
               PROVE  /\ \A v \in Votes : updated[v] >= FirstSlot(clock'.epoch)
                      /\ st.RerunVote => 10 * clock'.slot >= 9 * SlotsPerEpoch
                      /\ Runs >= 3 => \A v \in Votes :
                           updated[v] > FirstSlot(st.epoch) + (SlotsPerEpoch * 9) \div 10 - Recent
    <3>1. Runs \in Nat
      BY <1>0 DEF Typed, StateType, Counted, Runs
    <3> QED BY <1>1, <3>1 DEF RunInv, RunsMeanCopies, LateCopies, Runs
  <2>1. clock'.epoch = clock.epoch /\ clock.slot <= clock'.slot /\ clock'.slot \in Nat
    BY <1>3, <1>6
  <2>2. /\ \A v \in Votes : updated[v] >= FirstSlot(clock.epoch)
        /\ st.RerunVote => 10 * clock.slot >= 9 * SlotsPerEpoch
        /\ Runs >= 3 => \A v \in Votes :
             updated[v] > FirstSlot(st.epoch) + (SlotsPerEpoch * 9) \div 10 - Recent
    BY <2>1 DEF RunInv, RunsMeanCopies, LateCopies, Runs
  <2> QED BY <2>1, <2>2, <1>2
<1>9. SnapCurrent' /\ (AllCreated => AllCreated')
  BY <1>0, <1>1 DEF SnapCurrent, AllCreated
<1> QED BY <1>1, <1>7, <1>8, <1>9 DEF LoopInv

\* Somebody else copies, tip accounts appear, the keeper is restarted, or nothing
\* happens.
LEMMA WorldStep ==
  ASSUME LoopInv, RunInv,
         (\E v \in Votes : OthersCopy(v)) \/ TipAccounts \/ Crash \/ UNCHANGED vars
  PROVE  LoopInv' /\ RunInv' /\ hist' = hist /\ (AllCreated => AllCreated')
<1>0. Typed /\ SnapCurrent
  BY DEF LoopInv
<1>1. /\ UNCHANGED <<hist, clock, faults, drops>> /\ snap' \in {snap, NoSnap}
      /\ \/ UNCHANGED <<snap, st, pc, todo>>
         \/ pc' = "pre" /\ st' \in {NoState(s) : s \in FullStartup}
  BY DEF OthersCopy, TipAccounts, Crash, vars, chain, env, loop
<1>2. /\ updated' \in [Votes \cup {Cluster} -> Int]
      /\ \A i \in Votes \cup {Cluster} : updated'[i] \in {updated[i], Now}
  <2>1. \/ updated' = updated
        \/ \E v \in Votes : updated' = [i \in DOMAIN updated |-> IF i \in {v} THEN Now ELSE updated[i]]
    BY DEF OthersCopy, Copy, TipAccounts, Crash, vars, chain
  <2> QED BY <2>1, <1>0, NowTyped DEF Typed
<1>3. /\ st' \in StateType /\ st'.epoch <= clock.epoch
      /\ st'.epoch = clock.epoch => st'.slot <= clock.slot
      /\ st'.epoch = clock.epoch /\ Runs' >= 1 =>
           st.epoch = clock.epoch /\ Runs' = Runs /\ (st'.RerunVote => st.RerunVote)
  <2>1. CASE st' = st
    BY <2>1, <1>0 DEF Typed, Runs
  <2>2. CASE st' \in {NoState(s) : s \in FullStartup}
    <3>1. st' \in StateType /\ st'.epoch = 0 /\ Runs' = 0
      BY <2>2, NoStateFacts DEF Runs
    <3> QED BY <3>1, <1>0 DEF Typed
  <2> QED BY <1>1, <2>1, <2>2
<1>4. Typed' /\ \A i \in Votes \cup {Cluster} : updated[i] <= updated'[i]
  <2>1. hist' \in SUBSET Votes /\ faults' \in Nat /\ drops' \in Nat
    BY <1>0, <1>1 DEF Typed
  <2> QED BY <1>0, <1>1, <1>2, <1>3, <2>1, TypedKept
<1>5. RunInv'
  BY <1>0, <1>1, <1>3, <1>4, RunsKept
<1>6. SnapCurrent' /\ (AllCreated => AllCreated')
  BY <1>0, <1>1 DEF SnapCurrent, AllCreated
<1> QED BY <1>1, <1>4, <1>5, <1>6 DEF LoopInv
-----------------------------------------------------------------------------
(* The third run *)

\* Any step, if the vote account copy meets all history accounts.
LEMMA LoopStep ==
  ASSUME LoopInv, RunInv, [Next]_vars, VoteAccount => hist = Votes
  PROVE  /\ LoopInv' /\ RunInv' /\ hist \subseteq hist'
         /\ AllCreated /\ faults = 0 /\ faults' = 0 => AllCreated'
<1>0. Typed
  BY DEF LoopInv
<1>1. CASE PreCreateUpdate \/ SleepAndTick
  BY <1>1, FetchSteps
<1>2. CASE GetVoteAccountMap \/ CreateMissingAccounts \/ PostCreateUpdate
  BY <1>2, SnapshotSteps
<1>3. CASE ClusterHistory
  BY <1>0, <1>3, ClusterEffect, OtherStep
<1>4. CASE VoteAccount
  BY <1>0, <1>4, VoteHasEffect, VoteStep
<1>5. CASE \/ MevCommission \/ MevEarned \/ StakeUpload \/ GossipUpload
           \/ PriorityFeeCommission \/ CopyIsBamConnected
  BY <1>0, <1>5, RecordEffect, OtherStep
<1>6. CASE Steward
  BY <1>6, StewardStep
<1>7. CASE NextInstant
  BY <1>7, InstantStep
<1>8. CASE (\E v \in Votes : OthersCopy(v)) \/ TipAccounts \/ Crash \/ UNCHANGED vars
  BY <1>8, WorldStep
<1> QED BY <1>1, <1>2, <1>3, <1>4, <1>5, <1>6, <1>7, <1>8 DEF Next, Keeper

\* Faults are only counted up.
LEMMA FaultsAddUp ==
  ASSUME [Next]_vars
  PROVE  faults' \in {faults, faults + 1}
<1>0. CASE GetVoteAccountMap
  BY <1>0 DEF GetVoteAccountMap, FetchFails, Fault
<1>1. CASE Keeper
  BY <1>0, <1>1 DEF Keeper, PreCreateUpdate, CreateMissingAccounts,
     PostCreateUpdate, SleepAndTick, FetchFails, Fault, ClusterHistory, VoteAccount,
     MevCommission, MevEarned, StakeUpload, GossipUpload, PriorityFeeCommission,
     CopyIsBamConnected, Fire, Steward, CopyDirectedStakeTargets
<1>2. CASE UNCHANGED faults
  BY <1>2
<1> QED BY <1>1, <1>2 DEF Next, NextInstant, OthersCopy, TipAccounts, Crash, vars

\* Three counted runs of the vote account copy in an epoch mean a copy of every vote
\* account from about the last tenth of it (run_operation in vote_account.rs counts
\* the runs that the steward asked for as well), however the clock, the copies of
\* others and restarts fall between: when every history account was there from the
\* start, and as long as no request failed.
THEOREM SpecThirdRunIsLate == Spec => ThirdRunIsLate
<1>1. Init /\ hist = Votes => KnownInv
  BY InitLoop DEF KnownInv
<1>2. KnownInv /\ [Next]_vars => KnownInv'
  <2> SUFFICES ASSUME KnownInv, [Next]_vars PROVE KnownInv'
    OBVIOUS
  <2>1. LoopInv' /\ RunInv' /\ hist \subseteq hist'
    BY LoopStep DEF KnownInv
  <2>2. hist' \subseteq Votes
    BY <2>1 DEF LoopInv, Typed
  <2> QED BY <2>1, <2>2 DEF KnownInv
<1>3. Init => FaultFreeInv
  BY InitLoop DEF FaultFreeInv, Init
<1>4. FaultFreeInv /\ [Next]_vars => FaultFreeInv'
  <2> SUFFICES ASSUME FaultFreeInv, [Next]_vars PROVE FaultFreeInv'
    OBVIOUS
  <2>1. faults' \in Nat /\ (faults' = 0 => faults = 0)
    BY FaultsAddUp DEF FaultFreeInv
  <2>2. ASSUME faults' = 0 PROVE LoopInv' /\ RunInv' /\ AllCreated'
    <3>1. LoopInv /\ RunInv /\ AllCreated /\ faults = 0
      BY <2>1, <2>2 DEF FaultFreeInv
    <3>2. VoteAccount => hist = Votes
      BY <3>1 DEF AllCreated, VoteAccount, Fire
    <3> QED BY <2>2, <3>1, <3>2, LoopStep
  <2> QED BY <2>1, <2>2 DEF FaultFreeInv
<1>5. KnownInv => LateCopies
  BY DEF KnownInv, RunInv
<1>6. FaultFreeInv => (faults = 0 => LateCopies)
  BY DEF FaultFreeInv, RunInv
<1> QED BY <1>1, <1>2, <1>3, <1>4, <1>5, <1>6, PTL DEF Spec, ThirdRunIsLate
-----------------------------------------------------------------------------
(* Stake of its epoch *)

Quiet == others = 0 /\ faults = 0 /\ restarts = 0

\* What the proof needs of the types.
StakeTyped ==
  /\ clock \in [epoch : Nat, slot : Nat] /\ clock.epoch > 0
  /\ DOMAIN st = {"epoch", "slot", "runs", "Startup", "RerunVote"}
  /\ st.epoch \in Nat /\ st.epoch <= clock.epoch
  /\ DOMAIN snap = SnapFields /\ snap.bank \in [epoch : Nat, slot : Nat]
  /\ others \in Nat /\ faults \in Nat /\ restarts \in Nat
  /\ \A x \in recorded : /\ x.epoch \in Int /\ x.epoch <= clock.epoch
                         /\ x = [op |-> x.op, item |-> x.item, epoch |-> x.epoch, from |-> x.from]

\* Undisturbed, the keeper meets no entries of a later epoch than its own, and what it
\* has recorded of the stake of its epoch it has seen or is recording in this tick.
KeeperKnows ==
  /\ pc \in {"votes", "create", "post"} => \A x \in recorded : x.epoch <= st.epoch
  /\ pc = "fire" => \A x \in snap.recorded : x.epoch <= st.epoch
  /\ pc = "fire" /\ snap.live # {} =>
       \A x \in Stakes : x.epoch = st.epoch => x \in snap.recorded \/ x.from = snap.bank

\* Where stake is from, and that it is recorded once.
FromItsEpoch == \A x \in Stakes : OfItsEpoch(x)
RecordedOnce ==
  \A x, y \in Stakes : y.item = x.item /\ y.epoch = x.epoch => y = x

StakeInv == StakeTyped /\ FromItsEpoch /\ (Quiet => KeeperKnows /\ RecordedOnce)

\* The snapshot of a keeper that has fetched nothing.
LEMMA NoSnapStake ==
  /\ DOMAIN NoSnap = SnapFields /\ NoSnap.live = {} /\ NoSnap.recorded = {}
  /\ NoSnap.bank \in [epoch : Nat, slot : Nat]
BY DEF NoSnap, SnapFields, NoBank

\* The state of a keeper that has just been started.
LEMMA NoStateStake ==
  ASSUME NEW s
  PROVE  /\ DOMAIN NoState(s) = {"epoch", "slot", "runs", "Startup", "RerunVote"}
         /\ NoState(s).epoch = 0
BY DEF NoState

\* Nothing is recorded at first.
LEMMA InitStake == Init => StakeInv
<1> SUFFICES ASSUME Init PROVE StakeInv
  OBVIOUS
<1>1. recorded = {} /\ Stakes = {}
  BY DEF Init, Stakes
<1>2. DOMAIN st = {"epoch", "slot", "runs", "Startup", "RerunVote"} /\ st.epoch = 0
  BY NoStateStake DEF Init
<1>3. clock \in [epoch : Nat, slot : Nat] /\ clock.epoch > 0
  <2>1. FirstEpoch \in Nat \ {0} /\ StartSlot \in 0 .. SlotsPerEpoch - 1 /\ SlotsPerEpoch \in Nat
    BY KeeperLoopAssumption
  <2> QED BY <2>1 DEF Init
<1>4. snap = NoSnap /\ pc = "pre" /\ others = 0 /\ faults = 0 /\ restarts = 0
  BY DEF Init
<1>5. StakeTyped
  BY <1>1, <1>2, <1>3, <1>4, NoSnapStake DEF StakeTyped
<1> QED BY <1>1, <1>4, <1>5 DEF StakeInv, FromItsEpoch, RecordedOnce, KeeperKnows

\* Troubles are not forgotten.
QuietKept ==
  /\ others' \in {others, others + 1} /\ faults' \in {faults, faults + 1}
  /\ restarts' \in {restarts, restarts + 1}

LEMMA QuietBefore ==
  ASSUME StakeTyped, QuietKept
  PROVE  /\ others' \in Nat /\ faults' \in Nat /\ restarts' \in Nat
         /\ Quiet' => Quiet
BY DEF StakeTyped, QuietKept, Quiet

\* What an operation may add: entries of no later epoch than the clock's; and stake only
\* from the bank of the snapshot, for the keeper's epoch, where it is due.
MayAdd(op, items, e, from) ==
  /\ e \in Int /\ e <= clock.epoch
  /\ op = "StakeUpload" => items \subseteq UpdateStakeHistory /\ e = st.epoch /\ from = snap.bank

\* Stake that is due is of the keeper's epoch, or of the slot in which the next began;
\* and an undisturbed keeper has recorded nothing else for it.
LEMMA DueStake ==
  ASSUME StakeTyped, NEW v \in UpdateStakeHistory
  PROVE  /\ snap.bank.epoch = st.epoch \/ snap.bank = [epoch |-> st.epoch + 1, slot |-> 0]
         /\ pc = "fire" /\ KeeperKnows =>
              \A x \in Stakes : x.item = v /\ x.epoch = st.epoch => x.from = snap.bank
<1>1. v \in snap.live /\ LastVoted(snap.bank) = st.epoch /\ ~LastHas("StakeUpload", v, st.epoch)
  BY DEF UpdateStakeHistory, EpochMismatch
<1>2. /\ st.epoch \in Nat /\ snap.bank.epoch \in Nat
      /\ snap.bank = [epoch |-> snap.bank.epoch, slot |-> snap.bank.slot]
  BY DEF StakeTyped
<1>3. snap.bank.epoch = st.epoch \/ snap.bank = [epoch |-> st.epoch + 1, slot |-> 0]
  <2>1. CASE snap.bank.slot = 0
    <3>1. snap.bank.epoch = st.epoch + 1
      BY <1>1, <1>2, <2>1 DEF LastVoted
    <3> QED BY <1>2, <2>1, <3>1
  <2>2. CASE snap.bank.slot # 0
    BY <1>1, <2>2 DEF LastVoted
  <2> QED BY <2>1, <2>2
<1>4. ASSUME pc = "fire", KeeperKnows, NEW x \in Stakes, x.item = v, x.epoch = st.epoch
      PROVE  x.from = snap.bank
  <2>1. \A y \in snap.recorded : y.epoch <= st.epoch
    BY <1>4 DEF KeeperKnows
  <2>2. ~Has(snap.recorded, "StakeUpload", v, st.epoch)
    BY <1>1, <2>1 DEF LastHas
  <2>3. x \notin snap.recorded
    BY <2>2, <1>4 DEF Has, Stakes
  <2> QED BY <1>1, <1>4, <2>3 DEF KeeperKnows
<1> QED BY <1>3, <1>4

\* Entries keep their types, and stake stays of its epoch.
LEMMA AddTyped ==
  ASSUME StakeTyped, FromItsEpoch, NEW op, NEW items, NEW e, NEW from,
         MayAdd(op, items, e, from), recorded' = recorded \cup Entries(op, items, e, from),
         UNCHANGED clock, st'.epoch = st.epoch, DOMAIN st' = DOMAIN st,
         snap' \in {snap, NoSnap}, QuietKept
  PROVE  /\ StakeTyped' /\ FromItsEpoch'
         /\ \A x \in Stakes' :
              \/ x \in Stakes
              \/ /\ x = [op |-> "StakeUpload", item |-> x.item, epoch |-> st.epoch,
                         from |-> snap.bank]
                 /\ x.item \in UpdateStakeHistory
<1>1. \A x \in Entries(op, items, e, from) :
        /\ x.op = op /\ x.item \in items /\ x.epoch = e /\ x.from = from
        /\ x = [op |-> op, item |-> x.item, epoch |-> e, from |-> from]
  BY DEF Entries
<1>2. \A x \in recorded' : x \in recorded \/ x \in Entries(op, items, e, from)
  OBVIOUS
<1>3. StakeTyped'
  <2>1. \A x \in recorded' :
          /\ x.epoch \in Int /\ x.epoch <= clock.epoch
          /\ x = [op |-> x.op, item |-> x.item, epoch |-> x.epoch, from |-> x.from]
    BY <1>1, <1>2 DEF StakeTyped, MayAdd
  <2>2. others' \in Nat /\ faults' \in Nat /\ restarts' \in Nat
    BY QuietBefore
  <2>3. DOMAIN snap' = SnapFields /\ snap'.bank \in [epoch : Nat, slot : Nat]
    BY NoSnapStake DEF StakeTyped
  <2> QED BY <2>1, <2>2, <2>3 DEF StakeTyped
<1>4. ASSUME NEW x \in Stakes'
      PROVE  \/ x \in Stakes
             \/ /\ x = [op |-> "StakeUpload", item |-> x.item, epoch |-> st.epoch,
                        from |-> snap.bank]
                /\ x.item \in UpdateStakeHistory
  <2>1. x \in recorded' /\ x.op = "StakeUpload"
    BY DEF Stakes
  <2>2. CASE x \in recorded
    BY <2>1, <2>2 DEF Stakes
  <2>3. CASE x \in Entries(op, items, e, from)
    <3>1. op = "StakeUpload"
      BY <1>1, <2>1, <2>3
    <3>2. items \subseteq UpdateStakeHistory /\ e = st.epoch /\ from = snap.bank
      BY <3>1 DEF MayAdd
    <3> QED BY <1>1, <2>3, <3>1, <3>2
  <2> QED BY <1>2, <2>1, <2>2, <2>3
<1>5. ASSUME NEW x \in Stakes' PROVE OfItsEpoch(x)
  <2>1. CASE x \in Stakes
    BY <2>1 DEF FromItsEpoch
  <2>2. CASE /\ x = [op |-> "StakeUpload", item |-> x.item, epoch |-> st.epoch,
                     from |-> snap.bank]
             /\ x.item \in UpdateStakeHistory
    <3>1. x.epoch = st.epoch /\ x.from = snap.bank
      BY <2>2
    <3> QED BY <2>2, <3>1, DueStake DEF OfItsEpoch
  <2> QED BY <1>4, <2>1, <2>2
<1>6. FromItsEpoch'
  BY <1>5 DEF FromItsEpoch
<1> QED BY <1>3, <1>4, <1>6

\* An operation of a tick: what it records keeps the invariant.
LEMMA AddStep ==
  ASSUME StakeInv, NEW op, NEW items, NEW e, NEW from,
         MayAdd(op, items, e, from), recorded' = recorded \cup Entries(op, items, e, from),
         UNCHANGED <<clock, pc>>, pc = "fire", st'.epoch = st.epoch, DOMAIN st' = DOMAIN st,
         snap' \in {snap, NoSnap}, QuietKept
  PROVE  StakeInv'
<1>1. StakeTyped /\ FromItsEpoch
  BY DEF StakeInv
<1>2. /\ StakeTyped' /\ FromItsEpoch'
      /\ \A x \in Stakes' :
           \/ x \in Stakes
           \/ /\ x = [op |-> "StakeUpload", item |-> x.item, epoch |-> st.epoch,
                      from |-> snap.bank]
              /\ x.item \in UpdateStakeHistory
  BY <1>1, AddTyped
<1>3. ASSUME Quiet' PROVE KeeperKnows' /\ RecordedOnce'
  <2>1. KeeperKnows /\ RecordedOnce
    BY <1>1, <1>3, QuietBefore DEF StakeInv
  <2>2. \A x \in Stakes' : x.epoch = st.epoch => x \in Stakes \/ x.from = snap.bank
    BY <1>2
  <2>3. KeeperKnows'
    <3>1. \A x \in snap'.recorded : x.epoch <= st.epoch
      BY <2>1, NoSnapStake DEF KeeperKnows
    <3>2. ASSUME snap'.live # {}, NEW x \in Stakes', x.epoch = st.epoch
          PROVE  x \in snap'.recorded \/ x.from = snap'.bank
      <4>1. snap' = snap
        BY <3>2, NoSnapStake
      <4> QED BY <2>1, <2>2, <3>2, <4>1 DEF KeeperKnows
    <3> QED BY <3>1, <3>2 DEF KeeperKnows
  <2>4. ASSUME NEW v \in UpdateStakeHistory, NEW y \in Stakes, y.item = v, y.epoch = st.epoch
        PROVE  y = [op |-> "StakeUpload", item |-> v, epoch |-> st.epoch, from |-> snap.bank]
    <3>1. y.from = snap.bank
      BY <1>1, <2>1, <2>4, DueStake
    <3>2. y = [op |-> y.op, item |-> y.item, epoch |-> y.epoch, from |-> y.from]
          /\ y.op = "StakeUpload"
      BY <1>1 DEF StakeTyped, Stakes
    <3> QED BY <2>4, <3>1, <3>2
  <2>5. ASSUME NEW x \in Stakes', NEW y \in Stakes', y.item = x.item, y.epoch = x.epoch
        PROVE  y = x
    <3> DEFINE Added(z) == /\ z = [op |-> "StakeUpload", item |-> z.item, epoch |-> st.epoch,
                                   from |-> snap.bank]
                           /\ z.item \in UpdateStakeHistory
    <3>1. (x \in Stakes \/ Added(x)) /\ (y \in Stakes \/ Added(y))
      BY <1>2
    <3>2. CASE x \in Stakes /\ y \in Stakes
      BY <2>1, <2>5, <3>2 DEF RecordedOnce
    <3>3. CASE Added(x) /\ Added(y)
      BY <2>5, <3>3
    <3>4. CASE Added(x) /\ y \in Stakes
      <4>1. x.epoch = st.epoch /\ x.item \in UpdateStakeHistory
        BY <3>4
      <4> QED BY <2>4, <2>5, <3>4, <4>1
    <3>5. CASE Added(y) /\ x \in Stakes
      <4>1. y.epoch = st.epoch /\ y.item \in UpdateStakeHistory
        BY <3>5
      <4> QED BY <2>4, <2>5, <3>5, <4>1
    <3> QED BY <3>1, <3>2, <3>3, <3>4, <3>5
  <2>6. RecordedOnce'
    BY <2>5 DEF RecordedOnce
  <2> QED BY <2>3, <2>6
<1> QED BY <1>2, <1>3 DEF StakeInv

\* What the operations have in common.
Operating ==
  /\ UNCHANGED <<clock, pc>> /\ pc = "fire" /\ st'.epoch = st.epoch /\ DOMAIN st' = DOMAIN st
  /\ snap' \in {snap, NoSnap} /\ QuietKept

Adds ==
  \E op, items, e, from :
    /\ MayAdd(op, items, e, from)
    /\ recorded' = recorded \cup Entries(op, items, e, from)

LEMMA OperatingAdds ==
  ASSUME StakeInv, Operating, Adds
  PROVE  StakeInv'
<1>1. PICK op, items, e, from :
        MayAdd(op, items, e, from) /\ recorded' = recorded \cup Entries(op, items, e, from)
  BY DEF Adds
<1> QED BY <1>1, AddStep DEF Operating

\* Nothing, or a feed other than stake of an epoch that has begun.
LEMMA NothingAdds ==
  ASSUME StakeTyped, UNCHANGED recorded
  PROVE  Adds
<1>1. Entries("none", {}, st.epoch, NoBank) = {}
  BY DEF Entries
<1>2. MayAdd("none", {}, st.epoch, NoBank)
  BY DEF MayAdd, StakeTyped
<1> QED BY <1>1, <1>2 DEF Adds

LEMMA RecordAdds ==
  ASSUME StakeTyped, NEW op, op # "StakeUpload", NEW e \in Int, e <= clock.epoch, NEW S,
         Record(op, S, e, NoBank)
  PROVE  Adds
<1> DEFINE Landing == {i \in S : Room(i, e)}
<1>1. recorded' = recorded \cup Entries(op, Landing, e, NoBank)
  BY DEF Record
<1>2. MayAdd(op, Landing, e, NoBank)
  BY DEF MayAdd
<1> HIDE DEF Landing
<1> QED BY <1>1, <1>2 DEF Adds

LEMMA CopyAdds ==
  ASSUME StakeTyped, NEW op, op # "StakeUpload", NEW S, Copy(op, S)
  PROVE  Adds
<1>1. recorded' = recorded \cup Entries(op, S \ {Cluster}, clock.epoch, NoBank)
  BY DEF Copy
<1>2. clock.epoch \in Int /\ clock.epoch <= clock.epoch
  BY DEF StakeTyped
<1>3. MayAdd(op, S \ {Cluster}, clock.epoch, NoBank)
  BY <1>2 DEF MayAdd
<1> QED BY <1>1, <1>3 DEF Adds

\* What is left after packing dropped some is still a part of what was due.
LEMMA WithoutLost ==
  ASSUME NEW due, NEW lost
  PROVE  due \ lost \in SUBSET due
OBVIOUS

\* The operations that copy.
LEMMA CopyStep ==
  ASSUME StakeInv, ClusterHistory \/ VoteAccount
  PROVE  StakeInv'
<1>1. StakeTyped
  BY DEF StakeInv
<1>3. CASE ClusterHistory
  <2>0. st'.epoch = st.epoch /\ DOMAIN st' = DOMAIN st
    BY <1>1, <1>3 DEF ClusterHistory, Fire, StakeTyped
  <2>4. UNCHANGED <<clock, pc, others, restarts>> /\ pc = "fire" /\ snap' \in {snap, NoSnap}
    BY <1>3 DEF ClusterHistory, Fire, env
  <2>5. faults' \in {faults, faults + 1}
    BY <1>3 DEF ClusterHistory, Fire, Fault, Copy
  <2>1. Operating
    BY <2>0, <2>4, <2>5 DEF Operating, QuietKept
  <2>2. \/ UNCHANGED recorded
        \/ \E S \in SUBSET {Cluster} : Copy("ClusterHistory", S)
    BY <1>3, WithoutLost DEF ClusterHistory, Fire
  <2>3. Adds
    BY <1>1, <2>2, NothingAdds, CopyAdds
  <2> QED BY <2>1, <2>3, OperatingAdds
<1>4. CASE VoteAccount
  <2>0. st'.epoch = st.epoch /\ DOMAIN st' = DOMAIN st
    BY <1>1, <1>4 DEF VoteAccount, Fire, StakeTyped
  <2>4. UNCHANGED <<clock, pc, others, restarts>> /\ pc = "fire" /\ snap' \in {snap, NoSnap}
    BY <1>4 DEF VoteAccount, Fire, env
  <2>5. faults' \in {faults, faults + 1}
    BY <1>4 DEF VoteAccount, Fire, Fault, Copy
  <2>1. Operating
    BY <2>0, <2>4, <2>5 DEF Operating, QuietKept
  <2>2. \/ UNCHANGED recorded
        \/ \E S \in SUBSET UpdateVoteAccounts : Copy("VoteAccount", S)
    BY <1>4, WithoutLost DEF VoteAccount, Fire
  <2>3. Adds
    BY <1>1, <2>2, NothingAdds, CopyAdds
  <2> QED BY <2>1, <2>3, OperatingAdds
<1> QED BY <1>3, <1>4

\* The uploads other than that of stake.
LEMMA FeedStep ==
  ASSUME StakeInv,
         \/ MevCommission \/ MevEarned \/ GossipUpload \/ PriorityFeeCommission
         \/ CopyIsBamConnected
  PROVE  StakeInv'
<1>1. StakeTyped
  BY DEF StakeInv
<1>2. \A e \in {st.epoch, st.epoch - 1, clock.epoch} : e \in Int /\ e <= clock.epoch
  BY <1>1 DEF StakeTyped
<1>3. CASE MevCommission
  <2>0. st'.epoch = st.epoch /\ DOMAIN st' = DOMAIN st
    BY <1>1, <1>3 DEF MevCommission, Fire, StakeTyped
  <2>4. UNCHANGED <<clock, pc, others, restarts>> /\ pc = "fire" /\ snap' \in {snap, NoSnap}
    BY <1>3 DEF MevCommission, Fire, env
  <2>5. faults' \in {faults, faults + 1}
    BY <1>3 DEF MevCommission, Fire, Fault
  <2>1. Operating
    BY <2>0, <2>4, <2>5 DEF Operating, QuietKept
  <2>2. \/ UNCHANGED recorded
        \/ \E S \in SUBSET UpdateMevCommission : Record("MevCommission", S, st.epoch, NoBank)
    BY <1>3, WithoutLost DEF MevCommission, Fire
  <2>3. Adds
    BY <1>1, <1>2, <2>2, NothingAdds, RecordAdds
  <2> QED BY <2>1, <2>3, OperatingAdds
<1>4. CASE MevEarned
  <2>0. st'.epoch = st.epoch /\ DOMAIN st' = DOMAIN st
    BY <1>1, <1>4 DEF MevEarned, Fire, StakeTyped
  <2>4. UNCHANGED <<clock, pc, others, restarts>> /\ pc = "fire" /\ snap' \in {snap, NoSnap}
    BY <1>4 DEF MevEarned, Fire, env
  <2>5. faults' \in {faults, faults + 1}
    BY <1>4 DEF MevEarned, Fire, Fault
  <2>1. Operating
    BY <2>0, <2>4, <2>5 DEF Operating, QuietKept
  <2>2. \/ UNCHANGED recorded
        \/ \E S \in SUBSET UpdateMevEarned : Record("MevEarned", S, st.epoch - 1, NoBank)
    BY <1>4, WithoutLost DEF MevEarned, Fire
  <2>3. Adds
    BY <1>1, <1>2, <2>2, NothingAdds, RecordAdds
  <2> QED BY <2>1, <2>3, OperatingAdds
<1>5. CASE GossipUpload
  <2>0. st'.epoch = st.epoch /\ DOMAIN st' = DOMAIN st
    BY <1>1, <1>5 DEF GossipUpload, Fire, StakeTyped
  <2>4. UNCHANGED <<clock, pc, others, restarts>> /\ pc = "fire" /\ snap' \in {snap, NoSnap}
    BY <1>5 DEF GossipUpload, Fire, env
  <2>5. faults' \in {faults, faults + 1}
    BY <1>5 DEF GossipUpload, Fire, Fault
  <2>1. Operating
    BY <2>0, <2>4, <2>5 DEF Operating, QuietKept
  <2>2. \/ UNCHANGED recorded
        \/ \E S \in SUBSET UploadGossipValues : Record("GossipUpload", S, clock.epoch, NoBank)
    BY <1>5, WithoutLost DEF GossipUpload, Fire
  <2>3. Adds
    BY <1>1, <1>2, <2>2, NothingAdds, RecordAdds
  <2> QED BY <2>1, <2>3, OperatingAdds
<1>6. CASE PriorityFeeCommission
  <2>0. st'.epoch = st.epoch /\ DOMAIN st' = DOMAIN st
    BY <1>1, <1>6 DEF PriorityFeeCommission, Fire, StakeTyped
  <2>4. UNCHANGED <<clock, pc, others, restarts>> /\ pc = "fire" /\ snap' \in {snap, NoSnap}
    BY <1>6 DEF PriorityFeeCommission, Fire, env
  <2>5. faults' \in {faults, faults + 1}
    BY <1>6 DEF PriorityFeeCommission, Fire, Fault
  <2>1. Operating
    BY <2>0, <2>4, <2>5 DEF Operating, QuietKept
  <2>2. \/ UNCHANGED recorded
        \/ \E S \in SUBSET UpdatePriorityFeeCommission : Record("PriorityFeeCommission", S, st.epoch - 1, NoBank)
    BY <1>6, WithoutLost DEF PriorityFeeCommission, Fire
  <2>3. Adds
    BY <1>1, <1>2, <2>2, NothingAdds, RecordAdds
  <2> QED BY <2>1, <2>3, OperatingAdds
<1>7. CASE CopyIsBamConnected
  <2>0. st'.epoch = st.epoch /\ DOMAIN st' = DOMAIN st
    BY <1>1, <1>7 DEF CopyIsBamConnected, Fire, StakeTyped
  <2>4. UNCHANGED <<clock, pc, others, restarts>> /\ pc = "fire" /\ snap' \in {snap, NoSnap}
    BY <1>7 DEF CopyIsBamConnected, Fire, env
  <2>5. faults' \in {faults, faults + 1}
    BY <1>7 DEF CopyIsBamConnected, Fire, Fault
  <2>1. Operating
    BY <2>0, <2>4, <2>5 DEF Operating, QuietKept
  <2>2. \/ UNCHANGED recorded
        \/ \E S \in SUBSET snap.hist : Record("CopyIsBamConnected", S, st.epoch - 1, NoBank)
    BY <1>7, WithoutLost DEF CopyIsBamConnected, Fire
  <2>3. Adds
    BY <1>1, <1>2, <2>2, NothingAdds, RecordAdds
  <2> QED BY <2>1, <2>3, OperatingAdds
<1> QED BY <1>3, <1>4, <1>5, <1>6, <1>7

\* The upload of stake.
LEMMA UploadStep ==
  ASSUME StakeInv, StakeUpload
  PROVE  StakeInv'
<1>1. StakeTyped
  BY DEF StakeInv
<1>2. st'.epoch = st.epoch /\ DOMAIN st' = DOMAIN st
  BY <1>1 DEF StakeUpload, Fire, StakeTyped
<1>3. UNCHANGED <<clock, pc, others, restarts>> /\ pc = "fire" /\ snap' \in {snap, NoSnap}
  BY DEF StakeUpload, Fire, env
<1>4. faults' \in {faults, faults + 1}
  BY DEF StakeUpload, Fire, Fault
<1>5. Operating
  BY <1>2, <1>3, <1>4 DEF Operating, QuietKept
<1>6. \/ UNCHANGED recorded
      \/ \E S \in SUBSET UpdateStakeHistory : Record("StakeUpload", S, st.epoch, snap.bank)
  BY WithoutLost DEF StakeUpload, Fire
<1>7. ASSUME NEW S \in SUBSET UpdateStakeHistory, Record("StakeUpload", S, st.epoch, snap.bank)
      PROVE  Adds
  <2> DEFINE Landing == {i \in S : Room(i, st.epoch)}
  <2>1. recorded' = recorded \cup Entries("StakeUpload", Landing, st.epoch, snap.bank)
    BY <1>7 DEF Record
  <2>2. Landing \subseteq UpdateStakeHistory
    OBVIOUS
  <2> HIDE DEF Landing
  <2>3. MayAdd("StakeUpload", Landing, st.epoch, snap.bank)
    BY <1>1, <2>2 DEF MayAdd, StakeTyped
  <2> QED BY <2>1, <2>3 DEF Adds
<1>8. Adds
  BY <1>1, <1>6, <1>7, NothingAdds
<1> QED BY <1>5, <1>8, OperatingAdds

\* Somebody else's copy ends the undisturbed part.
LEMMA OthersStep ==
  ASSUME StakeInv, NEW v \in Votes, OthersCopy(v)
  PROVE  StakeInv'
<1>1. StakeTyped /\ FromItsEpoch
  BY DEF StakeInv
<1>2. /\ UNCHANGED <<clock, st, snap, faults, restarts>> /\ others' = others + 1
      /\ Copy("VoteAccount", {v})
  BY DEF OthersCopy, loop
<1>3. QuietKept /\ ~Quiet'
  BY <1>1, <1>2 DEF QuietKept, Quiet, StakeTyped
<1>4. Adds
  BY <1>1, <1>2, CopyAdds
<1>5. PICK op, items, e, from :
        MayAdd(op, items, e, from) /\ recorded' = recorded \cup Entries(op, items, e, from)
  BY <1>4 DEF Adds
<1>6. StakeTyped' /\ FromItsEpoch'
  BY <1>1, <1>2, <1>3, <1>5, AddTyped
<1> QED BY <1>3, <1>6 DEF StakeInv

\* A step that records nothing.
LEMMA StillStep ==
  ASSUME StakeInv, UNCHANGED recorded, StakeTyped', QuietKept,
         Quiet /\ KeeperKnows => KeeperKnows'
  PROVE  StakeInv'
<1>1. Stakes' = Stakes
  BY DEF Stakes
<1>2. FromItsEpoch'
  BY <1>1 DEF StakeInv, FromItsEpoch
<1>3. Quiet' => RecordedOnce' /\ KeeperKnows'
  BY <1>1, QuietBefore DEF StakeInv, RecordedOnce
<1> QED BY <1>2, <1>3 DEF StakeInv

\* The beginning and the end of a tick, and a restart: nothing has been fetched yet, or
\* the keeper has just learnt the epoch.
LEMMA TickStep ==
  ASSUME StakeInv,
         \/ PreCreateUpdate \/ SleepAndTick \/ Crash
         \/ FetchFails /\ UNCHANGED <<recorded, clock, st, others, restarts>>
  PROVE  StakeInv'
<1>1. StakeTyped
  BY DEF StakeInv
<1>2. /\ UNCHANGED <<recorded, clock, others>> /\ snap' \in {snap, NoSnap}
      /\ pc' = "pre" \/ (pc' = "votes" /\ st' = EpochInfo)
      /\ st' \in {st, EpochInfo, [st EXCEPT !.Startup = FALSE]}
         \/ \E b \in FullStartup : st' = NoState(b)
  BY DEF PreCreateUpdate, SleepAndTick, Crash, FetchFails, AdvanceTick, chain, env
<1>3. faults' \in {faults, faults + 1} /\ restarts' \in {restarts, restarts + 1}
  BY DEF PreCreateUpdate, SleepAndTick, Crash, FetchFails, Fault, env
<1>4. QuietKept
  BY <1>2, <1>3 DEF QuietKept
<1>5. /\ DOMAIN EpochInfo = DOMAIN st /\ EpochInfo.epoch = clock.epoch
      /\ LET s == [st EXCEPT !.Startup = FALSE] IN DOMAIN s = DOMAIN st /\ s.epoch = st.epoch
  BY <1>1 DEF EpochInfo, StakeTyped
<1>6. /\ DOMAIN st' = {"epoch", "slot", "runs", "Startup", "RerunVote"}
      /\ st'.epoch \in {0, st.epoch, clock.epoch}
  BY <1>1, <1>2, <1>5, NoStateStake DEF StakeTyped
<1>7. StakeTyped'
  <2>1. others' \in Nat /\ faults' \in Nat /\ restarts' \in Nat
    BY <1>1, <1>4, QuietBefore
  <2>2. DOMAIN snap' = SnapFields /\ snap'.bank \in [epoch : Nat, slot : Nat]
    BY <1>1, <1>2, NoSnapStake DEF StakeTyped
  <2>3. st'.epoch \in Nat /\ st'.epoch <= clock.epoch
    BY <1>1, <1>6 DEF StakeTyped
  <2> QED BY <1>1, <1>2, <1>6, <2>1, <2>2, <2>3 DEF StakeTyped
<1>8. KeeperKnows'
  <2>1. CASE pc' = "pre"
    BY <2>1 DEF KeeperKnows
  <2>2. CASE pc' = "votes" /\ st' = EpochInfo
    BY <1>1, <1>2, <1>5, <2>2 DEF KeeperKnows, StakeTyped
  <2> QED BY <1>2, <2>1, <2>2
<1> QED BY <1>2, <1>4, <1>7, <1>8, StillStep

\* The other requests of a fetch: entries are as old as the keeper's epoch, and are
\* what enters the snapshot.
LEMMA RequestStep ==
  ASSUME StakeInv, GetVoteAccountMap \/ CreateMissingAccounts \/ PostCreateUpdate
  PROVE  StakeInv'
<1>1. StakeTyped
  BY DEF StakeInv
<1>2. CASE FetchFails /\ UNCHANGED <<recorded, clock, st, others, restarts>>
  BY <1>2, TickStep
<1>3. CASE pc = "votes" /\ pc' = "create" /\ (\E bank \in Banks : snap' = VoteAccountsOf(bank))
           /\ UNCHANGED <<recorded, clock, st, others, restarts, faults>>
  <2>1. \A bank \in Banks : bank \in [epoch : Nat, slot : Nat]
    <3>1. SlotsPerEpoch \in Nat \ {0}
      <4>1. SlotsPerEpoch \in Nat /\ Instants \subseteq 0 .. SlotsPerEpoch - 1 /\ 0 \in Instants
        BY KeeperLoopAssumption
      <4> QED BY <4>1
    <3> QED BY <1>1, <3>1 DEF Banks, StakeTyped
  <2>2. NoBank \in [epoch : Nat, slot : Nat]
    BY DEF NoBank
  <2>3. DOMAIN snap' = SnapFields /\ snap'.bank \in [epoch : Nat, slot : Nat]
    BY <1>1, <1>3, <2>1, <2>2 DEF VoteAccountsOf, StakeTyped, SnapFields
  <2>4. StakeTyped'
    BY <1>1, <1>3, <2>3 DEF StakeTyped
  <2>5. KeeperKnows => KeeperKnows'
    BY <1>3 DEF KeeperKnows
  <2> QED BY <1>3, <2>4, <2>5, StillStep DEF QuietKept
<1>4. CASE /\ pc = "create" /\ pc' = "post" /\ snap' = snap
           /\ UNCHANGED <<recorded, clock, st, others, restarts>> /\ faults' \in {faults, faults + 1}
  <2>1. QuietKept
    BY <1>4 DEF QuietKept
  <2>2. StakeTyped'
    BY <1>1, <1>4, <2>1, QuietBefore DEF StakeTyped
  <2>3. KeeperKnows => KeeperKnows'
    BY <1>4 DEF KeeperKnows
  <2> QED BY <1>4, <2>1, <2>2, <2>3, StillStep
<1>5. CASE /\ pc = "post" /\ pc' = "fire"
           /\ snap' = [snap EXCEPT !.hist = hist, !.recorded = recorded,
                         !.updated = [v \in Votes |-> updated[v]], !.tips = tips, !.roots = roots]
           /\ UNCHANGED <<recorded, clock, st, others, restarts, faults>>
  <2>1. DOMAIN snap' = SnapFields /\ snap'.bank = snap.bank /\ snap'.recorded = recorded
    BY <1>1, <1>5 DEF StakeTyped, SnapFields
  <2>2. StakeTyped'
    BY <1>1, <1>5, <2>1 DEF StakeTyped
  <2>3. \A x \in Stakes' : x \in recorded
    BY <1>5 DEF Stakes
  <2>4. KeeperKnows => KeeperKnows'
    BY <1>5, <2>1, <2>3 DEF KeeperKnows
  <2> QED BY <1>5, <2>2, <2>4, StillStep DEF QuietKept
<1>6. CASE GetVoteAccountMap
  BY <1>2, <1>3, <1>6 DEF GetVoteAccountMap, chain, env
<1>7. CASE CreateMissingAccounts
  BY <1>2, <1>4, <1>7 DEF CreateMissingAccounts, Fault, env
<1>8. CASE PostCreateUpdate
  BY <1>2, <1>5, <1>8 DEF PostCreateUpdate, chain, env
<1> QED BY <1>6, <1>7, <1>8

\* The steward's operation, the clock, tip accounts, or nothing.
LEMMA AsideStep ==
  ASSUME StakeInv, Steward \/ NextInstant \/ TipAccounts \/ UNCHANGED vars
  PROVE  StakeInv'
<1>1. StakeTyped
  BY DEF StakeInv
<1>2. UNCHANGED <<recorded, snap, pc, others, restarts>>
  BY DEF Steward, NextInstant, TipAccounts, vars, chain, env, loop
<1>3. faults' \in {faults, faults + 1}
  BY DEF Steward, CopyDirectedStakeTargets, Fault, NextInstant, TipAccounts, vars
<1>4. st' \in {st, Rerun}
  BY DEF Steward, NextInstant, TipAccounts, vars, loop
<1>5. st'.epoch = st.epoch /\ DOMAIN st' = DOMAIN st
  BY <1>1, <1>4 DEF Rerun, StakeTyped
<1>6. clock' \in [epoch : Nat, slot : Nat] /\ clock.epoch <= clock'.epoch
  <2>1. CASE clock' = clock
    BY <1>1, <2>1 DEF StakeTyped
  <2>2. CASE NextInstant
    <3> DEFINE later == {s \in Instants : s > clock.slot}
    <3>1. Instants \subseteq Nat
      BY KeeperLoopAssumption
    <3>2. CASE later # {} /\ clock' = [clock EXCEPT !.slot = Min(later)]
      <4>1. later \in SUBSET Nat
        BY <3>1
      <4>2. Min(later) \in later
        BY <3>2, <4>1, MinNatural
      <4>3. Min(later) \in Nat
        BY <4>1, <4>2
      <4> HIDE DEF later
      <4> QED BY <1>1, <3>2, <4>3 DEF StakeTyped
    <3>3. CASE clock' = [epoch |-> clock.epoch + 1, slot |-> 0]
      BY <1>1, <3>3 DEF StakeTyped
    <3> QED BY <2>2, <3>2, <3>3 DEF NextInstant
  <2> QED BY <2>1, <2>2 DEF Steward, TipAccounts, vars, env
<1>7. QuietKept
  BY <1>2, <1>3 DEF QuietKept
<1>8. StakeTyped'
  <2>1. others' \in Nat /\ faults' \in Nat /\ restarts' \in Nat
    BY <1>1, <1>7, QuietBefore
  <2>2. /\ clock.epoch \in Nat /\ clock'.epoch \in Nat /\ st.epoch \in Nat
        /\ clock.epoch > 0 /\ st.epoch <= clock.epoch
    BY <1>1, <1>6 DEF StakeTyped
  <2>3. clock'.epoch > 0 /\ st'.epoch \in Nat /\ st'.epoch <= clock'.epoch
    BY <1>5, <1>6, <2>2
  <2>4. \A x \in recorded : x.epoch \in Int /\ x.epoch <= clock'.epoch
    BY <1>1, <1>6, <2>2 DEF StakeTyped
  <2> QED BY <1>1, <1>2, <1>5, <1>6, <2>1, <2>3, <2>4 DEF StakeTyped
<1>9. KeeperKnows => KeeperKnows'
  <2>1. Stakes' = Stakes
    BY <1>2 DEF Stakes
  <2> QED BY <1>2, <1>5, <2>1 DEF KeeperKnows
<1> QED BY <1>2, <1>7, <1>8, <1>9, StillStep

\* The stake that update_stake_history records for an epoch is read from a bank of that
\* epoch, or from the first of the next one, in which nobody has voted yet and which its
\* look at the last epoch voted in cannot tell; and unless somebody else copies, a
\* request fails or the keeper restarts, it is recorded once, so that such a bank
\* replaces nothing.  Whatever the clock does between the requests of a fetch and before
\* the upload, for every length of the epoch and any number of vote accounts.
THEOREM SpecStakeOfItsEpoch == Spec => []StakeOfItsEpoch
<1>1. Init => StakeInv
  BY InitStake
<1>2. StakeInv /\ [Next]_vars => StakeInv'
  BY CopyStep, FeedStep, UploadStep, OthersStep, TickStep, RequestStep, AsideStep DEF Next, Keeper
<1>3. StakeInv => StakeOfItsEpoch
  BY DEF StakeInv, FromItsEpoch, RecordedOnce, Quiet, StakeOfItsEpoch
<1> QED BY <1>1, <1>2, <1>3, PTL DEF Spec
=============================================================================
