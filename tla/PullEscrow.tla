----------------------------- MODULE PullEscrow -----------------------------
(***************************************************************************)
(* What the gacha program promises about money, without accounts, clocks   *)
(* or registries.  A pull of a pool is sold once; its fee is held until    *)
(* the pull is revealed, when it becomes the pool's revenue, or returned,  *)
(* when it never does.  Only revenue can be drawn.                         *)
(***************************************************************************)
EXTENDS Integers

CONSTANTS
  Pools,
  Indices           \* the pulls a pool can sell

VARIABLES
  phase,            \* the life of each pull
  fee,              \* what each pool charges, 0 before it is launched
  revenue           \* what each pool's owner may draw

evars == <<phase, fee, revenue>>

Init ==
  /\ phase = [p \in Pools |-> [i \in Indices |-> "unsold"]]
  /\ fee = [p \in Pools |-> 0]
  /\ revenue = [p \in Pools |-> 0]

\* A function that changes at p only.
ChangesAt(f, g, p) == g = [f EXCEPT ![p] = g[p]]

\* A pool is launched; what its vault already held is revenue.
Launch(p) ==
  /\ fee[p] = 0
  /\ fee'[p] > 0 /\ ChangesAt(fee, fee', p)
  /\ revenue'[p] >= 0 /\ ChangesAt(revenue, revenue', p)
  /\ UNCHANGED phase

Move(p, i, from, to) ==
  /\ phase[p][i] = from
  /\ phase' = [phase EXCEPT ![p][i] = to]
  /\ UNCHANGED fee

\* The first unsold pull is sold; its fee is held, not earned.
Open(p, i) ==
  /\ fee[p] > 0
  /\ \A j \in Indices : j < i => phase[p][j] # "unsold"
  /\ Move(p, i, "unsold", "open")
  /\ UNCHANGED revenue

\* The reveal earns the fee.
Reveal(p, i) ==
  /\ Move(p, i, "open", "revealed")
  /\ revenue' = [revenue EXCEPT ![p] = @ + fee[p]]

\* A refund gives the held fee back and costs the owner nothing.
Return(p, i) == Move(p, i, "open", "returned") /\ UNCHANGED revenue

Deliver(p, i) == Move(p, i, "revealed", "delivered") /\ UNCHANGED revenue

\* The owner draws revenue, and never more than there is; outsiders add to it.
Draw(p) ==
  /\ fee[p] > 0
  /\ revenue'[p] \in 0 .. revenue[p] - 1 /\ ChangesAt(revenue, revenue', p)
  /\ UNCHANGED <<phase, fee>>

Gift(p) ==
  /\ fee[p] > 0
  /\ revenue'[p] > revenue[p] /\ ChangesAt(revenue, revenue', p)
  /\ UNCHANGED <<phase, fee>>

Next ==
  \E p \in Pools :
    \/ Launch(p) \/ Draw(p) \/ Gift(p)
    \/ \E i \in Indices :
         Open(p, i) \/ Reveal(p, i) \/ Return(p, i) \/ Deliver(p, i)

Spec == Init /\ [][Next]_evars

\* No pull stays open, no revealed one stays without its prize.
Progress ==
  \A p \in Pools, i \in Indices :
    /\ phase[p][i] = "open" ~> phase[p][i] \in {"revealed", "delivered", "returned"}
    /\ phase[p][i] = "revealed" ~> phase[p][i] = "delivered"
=============================================================================
