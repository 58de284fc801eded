-------------------------------- MODULE Escrow --------------------------------
(***************************************************************************)
(* What a vault promises about money, without saying how: entries held for *)
(* someone, fees set aside, and the rest.  There is no counter; what is    *)
(* held is added up from the entries.                                      *)
(***************************************************************************)
EXTENDS Integers, Sequences, Sums

CONSTANTS Tokens, Amounts, UINT128_MAX, MAX_FEE_BPS, BPS

VARIABLES
  entries,  \* every entry ever made: its token, its amount, whether it is still held
  fees,     \* fees set aside per token
  cash      \* what there is of a token

vars == <<entries, fees, cash>>

Held(t) ==
  Total([i \in 1..Len(entries) |->
           IF entries[i].held /\ entries[i].token = t THEN entries[i].amount ELSE 0],
        Len(entries))

\* What is nobody's: neither held for an entry nor set aside as fees.
Surplus(t) == cash[t] - Held(t) - fees[t]

Release(S) ==
  entries' = [i \in 1..Len(entries) |-> IF i \in S THEN [entries[i] EXCEPT !.held = FALSE]
                                        ELSE entries[i]]

Init ==
  /\ entries = <<>>
  /\ fees = [t \in Tokens |-> 0]
  /\ cash = [t \in Tokens |-> 0]

Deposit(t, amount) ==
  /\ entries' = Append(entries, [token |-> t, amount |-> amount, held |-> TRUE])
  /\ cash' = [cash EXCEPT ![t] = @ + amount]
  /\ UNCHANGED fees

\* An entry goes back whole; no fee.
Return(i) ==
  /\ entries[i].held
  /\ Release({i})
  /\ cash' = [cash EXCEPT ![entries[i].token] = @ - entries[i].amount]
  /\ UNCHANGED fees

AmountOf(S) ==
  Total([i \in 1..Len(entries) |-> IF i \in S THEN entries[i].amount ELSE 0], Len(entries))

\* The most a claim of `gross` may leave behind as a fee.
FeeCap(gross) == (gross * MAX_FEE_BPS) \div BPS

\* Held entries of one token are claimed together, with all of the surplus or none of it.
\* A fee of at most the cap stays behind.
Claim(t, S, extra, fee) ==
  LET gross == AmountOf(S) + extra
  IN  /\ \A i \in S : entries[i].token = t
      /\ extra \in {0, Surplus(t)}
      /\ fee <= FeeCap(gross)
      /\ Release(S)
      /\ fees' = [fees EXCEPT ![t] = @ + fee]
      /\ cash' = [cash EXCEPT ![t] = @ - (gross - fee)]

PayFees(t, amount) ==
  /\ fees' = [fees EXCEPT ![t] = @ - amount]
  /\ cash' = [cash EXCEPT ![t] = @ - amount]
  /\ UNCHANGED entries

Donate(t, amount) ==
  /\ cash' = [cash EXCEPT ![t] = @ + amount]
  /\ UNCHANGED <<entries, fees>>

Next ==
  \E t \in Tokens :
    \/ \E amount \in Amounts \cap 1..UINT128_MAX : Deposit(t, amount)
    \/ \E i \in 1..Len(entries) : Return(i)
    \/ \E S \in SUBSET {i \in 1..Len(entries) : entries[i].held}, extra \in {0, Surplus(t)} :
         \E fee \in 0..FeeCap(AmountOf(S) + extra) : Claim(t, S, extra, fee)
    \/ \E amount \in 0..fees[t] : PayFees(t, amount)
    \/ \E amount \in Amounts : Donate(t, amount)

Spec == Init /\ [][Next]_vars
=============================================================================
