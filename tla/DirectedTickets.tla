--------------------------- MODULE DirectedTickets ---------------------------
(***************************************************************************)
(* Where the targets of DirectedStake come from: stakers on a whitelist     *)
(* hold tickets that split their JitoSOL between whitelisted validators,    *)
(* and the keeper adds the tickets up, balance by balance, to the targets    *)
(* that CopyDirectedStakeTargets uploads, and Coinbase's after them.        *)
(*                                                                         *)
(* Abstractions: whitelists, of which nothing reads the order, are sets;    *)
(* the whole is TotalBps; the admin and the whitelist authority always      *)
(* sign; the pool's exchange rate does not move; tickets, which the keeper  *)
(* reads at once, and whitelists do not change while it computes targets.   *)
(***************************************************************************)
EXTENDS DirectedStake

CONSTANTS
  Stakers,          \* keys that can hold a ticket
  Admin,
  MaxPreferences,   \* MAX_PREFERENCES_PER_TICKET
  MaxStakers,       \* MAX_PERMISSIONED_DIRECTED_STAKERS, of each kind
  TotalBps,         \* 10_000 basis points
  RateBps,          \* lamports per TotalBps tokens
  Tokens,           \* all the JitoSOL there is
  CoinbaseBalance,  \* lamports that Coinbase has directed
  Offers,           \* lists of preferences that stakers ask for
  Parts,            \* what is explored: "amounts", "seats", "tickets"
  SeatLamports,     \* bound on the pool's stake where seats are explored
  MaxAstray         \* bound on the indices astray there

ASSUME TicketAssumption ==
  /\ Admin \notin Stakers
  /\ {MaxPreferences, MaxStakers, CoinbaseBalance} \subseteq Nat
  /\ TotalBps \in Nat \ {0} /\ RateBps \in Nat /\ Tokens \in Nat
  /\ IsFiniteSet(Stakers)
  /\ Offers \subseteq Seq([vote : Votes, bps : Nat])
  /\ Parts \subseteq {"amounts", "seats", "tickets"}
  /\ {SeatLamports, MaxAstray} \subseteq Nat

VARIABLES
  part,       \* the member of Parts this behaviour explores
  whitelist,  \* DirectedStakeWhitelist
  override,   \* directed_stake_ticket_override_authority
  tickets,    \* by ticket_update_authority
  balances,   \* JitoSOL of the stakers
  crank       \* the keeper's: its step, the balances read, the targets sent

ticketVars == <<whitelist, override, tickets, balances, crank>>

NoPreference == [vote |-> NoVote, bps |-> 0]
NoTicket == <<>>
NoBalances == [s \in {} |-> 0]
Idle == [step |-> "idle", read |-> NoBalances, plan |-> NoBalances]

Signers == Stakers \cup {Admin}
Holds(s) == tickets[s] # NoTicket
-----------------------------------------------------------------------------
(* The whitelist and the override authority *)

IsStakerPermissioned(s) == s \in whitelist.users \cup whitelist.protocols

\* "users" or "protocols"
AddStaker(list, s) ==
  /\ Cardinality(whitelist[list]) < MaxStakers
  /\ ~IsStakerPermissioned(s)
  /\ whitelist' = [whitelist EXCEPT ![list] = @ \cup {s}]
  /\ UNCHANGED <<override, tickets, balances, crank>>

AddValidatorToWhitelist(v) ==
  /\ InList(v)
  /\ Cardinality(whitelist.validators) < MaxValidators
  /\ v \notin whitelist.validators
  /\ whitelist' = [whitelist EXCEPT !.validators = @ \cup {v}]
  /\ UNCHANGED <<override, tickets, balances, crank>>

RemoveFromDirectedStakeWhitelist(list, x) ==
  /\ x \in whitelist[list]
  /\ whitelist' = [whitelist EXCEPT ![list] = @ \ {x}]
  /\ UNCHANGED <<override, tickets, balances, crank>>

SetNewAuthority(key) ==
  /\ override' = key
  /\ UNCHANGED <<whitelist, tickets, balances, crank>>
-----------------------------------------------------------------------------
(* Tickets *)

\* The signer is whitelisted and the holder, or has the override.
Auth(signer, s) ==
  /\ IsStakerPermissioned(signer) \/ signer = override
  /\ signer = s \/ signer = override

InitializeDirectedStakeTicket(signer, s) ==
  /\ ~Holds(s)
  /\ Auth(signer, s)
  /\ tickets' = [tickets EXCEPT ![s] = [k \in 1 .. MaxPreferences |-> NoPreference]]
  /\ UNCHANGED <<whitelist, override, balances, crank>>

Shares(preferences) == [k \in DOMAIN preferences |-> preferences[k].bps]

Permitted(signer, s, preferences) ==
  /\ Holds(s)
  /\ Auth(signer, s)
  /\ \A k \in DOMAIN preferences : preferences[k].vote \in whitelist.validators
  /\ Len(preferences) <= MaxPreferences
  /\ Total(Shares(preferences)) <= TotalBps

\* Mutant: preferences of before that are not overwritten stay.
UpdateKeepingOld(signer, s, preferences) ==
  /\ Permitted(signer, s, preferences)
  /\ tickets' = [tickets EXCEPT ![s] = preferences @@ @]
  /\ UNCHANGED <<whitelist, override, balances, crank>>

UpdateDirectedStakeTicket(signer, s, preferences) ==
  /\ Permitted(signer, s, preferences)
  /\ tickets' = [tickets EXCEPT ![s] =
                   [k \in 1 .. MaxPreferences |->
                      IF k \in DOMAIN preferences THEN preferences[k] ELSE NoPreference]]
  /\ UNCHANGED <<whitelist, override, balances, crank>>

CloseDirectedStakeTicket(signer, s) ==
  /\ Holds(s)
  /\ Auth(signer, s)
  /\ tickets' = [tickets EXCEPT ![s] = NoTicket]
  /\ UNCHANGED <<whitelist, override, balances, crank>>

Transfer(from, to) ==
  /\ from # to
  /\ balances[from] > 0
  /\ balances' = [balances EXCEPT ![from] = @ - 1, ![to] = @ + 1]
  /\ UNCHANGED <<whitelist, override, tickets, crank>>
-----------------------------------------------------------------------------
(* The keeper: compute_directed_stake_meta *)

\* get_allocation, converted to lamports; both divisions round down.
Allocation(balance, preference) ==
  (((balance * preference.bps) \div TotalBps) * RateBps) \div TotalBps

\* aggregate_validator_targets looks at all places of a ticket.
AggregateValidatorTargets(held, read) ==
  LET all == {sk \in (DOMAIN read) \X (1 .. MaxPreferences) :
                read[sk[1]] > 0 /\ held[sk[1]][sk[2]].vote # NoVote}
      amount(v, sk) == IF held[sk[1]][sk[2]].vote = v
                       THEN Allocation(read[sk[1]], held[sk[1]][sk[2]]) ELSE 0
  IN  [v \in {held[sk[1]][sk[2]].vote : sk \in all} |->
         Total([sk \in all |-> amount(v, sk)])]

GetDirectedStakeTickets ==
  /\ \E s \in Stakers : Holds(s)
  /\ crank' = [Idle EXCEPT !.step = "read"]
  /\ UNCHANGED <<whitelist, override, tickets, balances>>

\* One holder's balance after the other; the last one completes the sums.
GetTokenBalance(s) ==
  LET holders == {x \in Stakers : Holds(x)}
      read == (s :> balances[s]) @@ crank.read
  IN  /\ s \in holders \ (DOMAIN crank.read)
      /\ crank' = IF DOMAIN read = holders
                  THEN [Idle EXCEPT !.step = "tickets",
                                    !.plan = AggregateValidatorTargets(tickets, read)]
                  ELSE [crank EXCEPT !.read = read]
      /\ UNCHANGED <<whitelist, override, tickets, balances>>

\* compute_coinbase_targets: the target of Coinbase's validator is set once more.
ComputeCoinbaseTargets(v) ==
  /\ InList(v)
  /\ crank' = [crank EXCEPT !.step = "coinbase", !.plan = (v :> CoinbaseBalance) @@ @]
  /\ UNCHANGED <<whitelist, override, tickets, balances>>

TargetsCopied ==
  /\ crank' = Idle
  /\ UNCHANGED <<whitelist, override, tickets, balances>>
-----------------------------------------------------------------------------
(* The specification *)

TicketInit ==
  /\ part \in Parts
  /\ IF part = "seats" THEN Init ELSE InitFrom(SetToSeq(Votes))
  /\ whitelist = [users |-> {}, protocols |-> {}, validators |-> {}]
  /\ override = Admin
  /\ tickets = [s \in Stakers |-> NoTicket]
  /\ balances \in {b \in [Stakers -> 0 .. Tokens] :
                     Total(b) = IF part = "tickets" THEN Tokens ELSE 0}
  /\ crank = Idle

Change ==
  \/ \E s \in Stakers :
        \/ AddStaker("users", s)
        \/ AddStaker("protocols", s)
        \/ RemoveFromDirectedStakeWhitelist("users", s)
        \/ RemoveFromDirectedStakeWhitelist("protocols", s)
        \/ \E signer \in Signers :
              \/ InitializeDirectedStakeTicket(signer, s)
              \/ \E p \in Offers : UpdateDirectedStakeTicket(signer, s, p)
              \/ CloseDirectedStakeTicket(signer, s)
  \/ \E v \in Votes :
        AddValidatorToWhitelist(v) \/ RemoveFromDirectedStakeWhitelist("validators", v)
  \/ \E key \in Signers : SetNewAuthority(key)

TicketNext ==
  \/ crank.step = "idle" /\ (Change \/ GetDirectedStakeTickets)
  \/ crank.step = "read" /\ \E s \in Stakers : GetTokenBalance(s)
  \/ crank.step = "tickets" /\ \E v \in Votes : ComputeCoinbaseTargets(v)
  \/ crank.step \in {"tickets", "coinbase"} /\ TargetsCopied
  \/ \E from, to \in Stakers : Transfer(from, to)

\* Bounds: where amounts are explored the pool stays as it is; where seats are explored,
\* stake is less, no target is lowered to zero, cycles start on time, and few indices
\* are astray once a removal is over.
Bounds ==
  \/ part = "amounts" /\ leaving = Nobody
  \/ /\ part = "seats"
     /\ due # "after"
     /\ Cardinality(astray) <= MaxAstray \/ leaving # Nobody
     /\ PoolLamports <= SeatLamports
     /\ \A t \in Indices : targets[t].vote # NoVote => targets[t].goal > 0

DirectedNext ==
  \/ part # "tickets" /\ Next /\ UNCHANGED <<part, ticketVars>> /\ Bounds'
  \/ part = "tickets" /\ TicketNext /\ UNCHANGED <<part, vars>>

DirectedSpec == TicketInit /\ [][DirectedNext]_<<vars, part, ticketVars>>
-----------------------------------------------------------------------------
(* Properties *)

\* The tickets as they are never direct more than their holders' JitoSOL is worth,
\* however often they were rewritten, shortened, closed and opened again.
TicketsWithinHoldings ==
  LET holders == {s \in Stakers : Holds(s)}
      held == [s \in holders |-> balances[s]]
  IN  Total(AggregateValidatorTargets(tickets, held)) * TotalBps <= Total(held) * RateBps

\* The same of the targets that a run of the keeper computes, against all the
\* JitoSOL there is. A transfer while the balances are read counts twice.
PlanWithinSupply ==
  crank.step = "tickets" => Total(crank.plan) * TotalBps <= Tokens * RateBps

\* What Coinbase directs comes on top of what tickets direct to its validator.
\* The instruction carries Coinbase's balance alone.
CoinbaseAdds ==
  [][crank'.step = "coinbase" =>
       \A v \in DOMAIN crank.plan : crank'.plan[v] >= crank.plan[v]]_crank
=============================================================================
