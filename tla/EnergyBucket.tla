---------------------------- MODULE EnergyBucket ----------------------------
(***************************************************************************)
(* What the game of tokens/token-2022/nft-meta-data-pointer promises of a  *)
(* player's energy: it fills by itself, one unit every Refill seconds, to  *)
(* Capacity units, and each piece of wood costs one.  Here it fills with   *)
(* every second; the program works it out when the player next chops.      *)
(***************************************************************************)
EXTENDS Integers

CONSTANTS Players, Refill, Capacity

VARIABLES
  bucket,       \* seconds of refilling in stock, or Unjoined
  earned        \* wood each player got

Unjoined == -1
Full == Refill * Capacity

BucketInit ==
  /\ bucket = [p \in Players |-> Unjoined]
  /\ earned = [p \in Players |-> 0]

\* A player starts with a full bucket.
Join(p) ==
  /\ bucket[p] = Unjoined
  /\ bucket' = [bucket EXCEPT ![p] = Full]
  /\ UNCHANGED earned

\* Every second counts, until the bucket is full.
Drip ==
  /\ bucket' = [p \in Players |->
                  IF bucket[p] \in {Unjoined, Full} THEN bucket[p] ELSE bucket[p] + 1]
  /\ UNCHANGED earned

\* A piece of wood takes a whole unit.
Spend(p) ==
  /\ bucket[p] >= Refill
  /\ bucket' = [bucket EXCEPT ![p] = @ - Refill]
  /\ earned' = [earned EXCEPT ![p] = @ + 1]

BucketNext == Drip \/ \E p \in Players : Join(p) \/ Spend(p)

BucketSpec == BucketInit /\ [][BucketNext]_<<bucket, earned>>
=============================================================================
