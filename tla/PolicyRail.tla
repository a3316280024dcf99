----------------------------- MODULE PolicyRail -----------------------------
(***************************************************************************)
(* The Soroban contract contracts/policy-rail: an account that holds a      *)
(* principal's money and lets a delegated key spend it, up to per_tx in one *)
(* transfer and per_day in one UTC day, until valid_until.                  *)
(*                                                                          *)
(* What was spent in a day is a temporary ledger entry: it vanishes when    *)
(* its time to live, counted in ledgers, runs out.  Time is counted in the  *)
(* shortest time a ledger takes, so a ledger closes after 1 or more units.  *)
(* Names that TenantPurchase also has carry the rail's name here.           *)
(***************************************************************************)
EXTENDS Integers

CONSTANTS
    RailKeys,       \* Ed25519 keys that may sign
    PerTx,          \* Config.per_tx
    RailPerDay,     \* Config.per_day
    ValidUntil,     \* Config.valid_until
    Day,            \* SECONDS_PER_DAY
    MinTtl,         \* ledgers a new temporary entry lives
    Threshold,      \* SPEND_ENTRY_TTL_THRESHOLD
    ExtendTo,       \* SPEND_ENTRY_TTL_EXTEND_TO
    MaxFunds,       \* bound on what the principal ever funds
    MaxTime,        \* bound on the clock
    MaxClose        \* longest a ledger takes

(* The constructor's checks; and the two sides of the entry's life: a new one
   is under the threshold, so its first write extends it, and ExtendTo
   ledgers, however short, outlast a day.                                   *)
ASSUME RailAssumption ==
    /\ PerTx \in Nat \ {0} /\ RailPerDay \in Nat \ {0}
    /\ MaxFunds \in Nat /\ MaxTime \in Nat \ {0} /\ MaxClose \in Nat \ {0}
    /\ Day \in Nat \ {0}
    /\ ValidUntil \in Nat \ {0}
    /\ MinTtl \in Nat /\ Threshold \in Nat /\ ExtendTo \in Nat
    /\ MinTtl < Threshold
    /\ Day <= ExtendTo

VARIABLES
    now,      \* env.ledger().timestamp()
    seq,      \* env.ledger().sequence()
    owner,    \* Config.owner: the key __check_auth accepts
    railBalance,  \* the asset's balance of this contract
    spent,    \* DataKey::SpentOn(day), 0 when there is no entry
    liveUntil,  \* the last ledger in which that entry exists
    funded,     \* history: all the principal funded
    sent,       \* history: what each day's transfers really moved
    returned    \* history: what withdraw took back

clock == <<now, seq>>
railVars == <<clock, owner, railBalance, spent, liveUntil, funded, sent, returned>>

Today == now \div Day
Days == 0..MaxTime

RailInit ==
    /\ now = 0
    /\ seq = 0
    /\ owner \in RailKeys
    /\ railBalance = 0
    /\ spent = [d \in Days |-> 0]
    /\ liveUntil = [d \in Days |-> 0]
    /\ funded = 0
    /\ sent = [d \in Days |-> 0]
    /\ returned = 0

(* What spent_on answers: nothing once the entry is gone. *)
SpentOn(d) == IF liveUntil[d] < seq THEN 0 ELSE spent[d]

ExtendedNever(d) == IF liveUntil[d] < seq THEN seq + MinTtl ELSE liveUntil[d]
(* set then extend_ttl: an entry with less than Threshold ledgers to live, as
   a new one has, is given ExtendTo.                                        *)
Extended(d) ==
    LET until == IF liveUntil[d] < seq THEN seq + MinTtl ELSE liveUntil[d]
    IN  IF until - seq < Threshold THEN seq + ExtendTo ELSE until

(* The transfer and what __check_auth records of it: all or nothing. *)
Debit(amount) ==
    /\ amount <= railBalance
    /\ railBalance' = railBalance - amount
    /\ spent' = [spent EXCEPT ![Today] = SpentOn(Today) + amount]
    /\ liveUntil' = [liveUntil EXCEPT ![Today] = Extended(Today)]
    /\ sent' = [sent EXCEPT ![Today] = @ + amount]
    /\ UNCHANGED <<clock, owner, funded, returned>>

(* __check_auth accepts one transfer of this rail's asset, signed by the
   owner key, and the token moves it; if the token refuses, nothing happened. *)
Spend(key, amount) ==
    /\ now <= ValidUntil
    /\ key = owner
    /\ 0 < amount /\ amount <= PerTx
    /\ SpentOn(Today) + amount <= RailPerDay
    /\ Debit(amount)

(* Principal only, expired or not, and no limit applies. *)
Withdraw(amount) ==
    /\ 0 < amount /\ amount <= railBalance
    /\ railBalance' = railBalance - amount
    /\ returned' = returned + amount
    /\ UNCHANGED <<clock, owner, spent, liveUntil, funded, sent>>

(* Principal only. *)
SetOwner(key) ==
    /\ owner' = key
    /\ UNCHANGED <<clock, railBalance, spent, liveUntil, funded, sent, returned>>

(* A plain transfer of the asset to this address. *)
Fund(amount) ==
    /\ funded + amount <= MaxFunds
    /\ funded' = funded + amount
    /\ railBalance' = railBalance + amount
    /\ UNCHANGED <<clock, owner, spent, liveUntil, sent, returned>>

(* A ledger closes. *)
Close(time) ==
    /\ now + time <= MaxTime
    /\ now' = now + time
    /\ seq' = seq + 1
    /\ UNCHANGED <<owner, railBalance, spent, liveUntil, funded, sent, returned>>

RailNext ==
    \/ \E key \in RailKeys, amount \in 0..MaxFunds : Spend(key, amount)
    \/ \E amount \in 0..MaxFunds : Withdraw(amount) \/ Fund(amount)
    \/ \E key \in RailKeys : SetOwner(key)
    \/ \E time \in 1..MaxClose : Close(time)

RailSpec == RailInit /\ [][RailNext]_railVars

-----------------------------------------------------------------------------
RailTypeOK ==
    /\ now \in 0..MaxTime
    /\ seq \in Nat
    /\ owner \in RailKeys
    /\ railBalance \in Nat
    /\ spent \in [Days -> Nat]
    /\ liveUntil \in [Days -> Nat]
    /\ funded \in Nat
    /\ sent \in [Days -> Nat]
    /\ returned \in Nat

(* The delegated key never moves more than per_day in a UTC day, over any
   sequence of payments, fundings and key rotations, although the record of
   what it spent is an entry the ledger will forget (lib.rs:42-53, 416-420):
   it is never forgotten before its day is over.                            *)
DailyLimit == \A d \in Days : sent[d] <= RailPerDay

(* The counter is what was really moved today: the contract checks and
   records in the same transaction as the transfer (lib.rs:409-414).        *)
CounterIsWhatMoved == SpentOn(Today) = sent[Today]
=============================================================================
