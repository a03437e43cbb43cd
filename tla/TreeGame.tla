------------------------------ MODULE TreeGame ------------------------------
(***************************************************************************)
(* tokens/token-2022/nft-meta-data-pointer (Anchor): players chop trees    *)
(* for wood, which costs energy that comes back with time, and an NFT      *)
(* shows the wood.  A player's session lets another key chop for them.     *)
(*                                                                         *)
(* Names, levels, experience and the counter that tells transactions apart *)
(* are left out: nothing reads them.  A level's seed is any but that of    *)
(* the NFT authority.                                                      *)
(***************************************************************************)
EXTENDS Integers, FiniteSetsExt, Functions

CONSTANTS
  Players, SessionKeys,     \* wallets, and the keys they open sessions for
  Levels,                   \* seeds of game_data
  GameMints,                \* addresses of NFTs
  MAX_ENERGY, TIME_TO_REFILL_ENERGY, MAX_WOOD_PER_TREE,
  MaxTime,                  \* bound of the clock
  MaxWood                   \* bound of the wood a player has

ASSUME GameAssumption ==
  /\ MAX_ENERGY \in Nat \ {0} /\ TIME_TO_REFILL_ENERGY \in Nat \ {0}
  /\ MAX_WOOD_PER_TREE \in Nat /\ MaxTime \in Nat \ {0} /\ MaxWood \in Nat
  /\ IsFiniteSet(Players) /\ IsFiniteSet(Levels)

VARIABLES
  player,           \* PlayerData: joined, energy, wood, last_login
  game_data,        \* total_wood_collected of each level
  nft,              \* the NFTs: supply, and the wood their metadata shows
  session,          \* external: until when a key may sign for a player
  clock             \* unix_timestamp

gameVars == <<player, game_data, nft, session, clock>>

NoNFT == [supply |-> 0, wood |-> 0]
NoSession == 0

\* Slips: seconds left over that are dropped (Stamp), a loop without its second
\* condition (Refilled), a tree whose last piece counts for the next (Chopped).
StampNow(p, k) == clock
Uncapped(p) == (clock - player[p].last_login) \div TIME_TO_REFILL_ENERGY
OneForTheNext(total) == IF total >= MAX_WOOD_PER_TREE THEN 1 ELSE total + 1

\* update_energy's loop: one unit for each whole period, while there is room.
Refilled(p) ==
  Min({(clock - player[p].last_login) \div TIME_TO_REFILL_ENERGY,
       MAX_ENERGY - player[p].energy})

\* A full player's refilling starts anew; another's keeps the seconds left over.
Stamp(p, k) ==
  IF player[p].energy + k >= MAX_ENERGY
  THEN clock
  ELSE player[p].last_login + k * TIME_TO_REFILL_ENERGY

\* session_auth_or: the player, or a key whose session still runs.
Authorised(signer, p) ==
  signer = p \/ (signer \in SessionKeys /\ session[p][signer] > clock)

\* on_tree_chopped: a full tree is replaced instead of chopped further.
Chopped(total) == IF total >= MAX_WOOD_PER_TREE THEN 0 ELSE total + 1

GameInit ==
  /\ player = [p \in Players |-> [joined |-> FALSE, energy |-> 0, wood |-> 0,
                                  last_login |-> 0]]
  /\ game_data = [l \in Levels |-> 0]
  /\ nft = [m \in GameMints |-> NoNFT]
  /\ session = [p \in Players |-> [k \in SessionKeys |-> NoSession]]
  /\ clock = 1

\* The level's account is made here or by the first chop; it starts at zero.
InitPlayer(p) ==
  /\ ~player[p].joined
  /\ player' = [player EXCEPT ![p] = [joined |-> TRUE, energy |-> MAX_ENERGY,
                                      wood |-> 0, last_login |-> clock]]
  /\ UNCHANGED <<game_data, nft, session, clock>>

\* Chop a tree of level l.  The wood is written to whatever NFT is passed.
ChopTree(signer, p, l, m) ==
  LET k == Refilled(p)
      energy == player[p].energy + k
      wood == player[p].wood + 1
  IN /\ player[p].joined /\ Authorised(signer, p)
     /\ energy >= 1 /\ wood <= MaxWood
     /\ nft[m].supply > 0
     /\ player' = [player EXCEPT ![p] = [joined |-> TRUE, energy |-> energy - 1,
                                         wood |-> wood, last_login |-> Stamp(p, k)]]
     /\ game_data' = [game_data EXCEPT ![l] = Chopped(@)]
     /\ nft' = [nft EXCEPT ![m].wood = wood]
     /\ UNCHANGED <<session, clock>>

\* A mint with the program's PDA as authority, one token of it for the signer, and
\* the authority to mint more given up.
MintNft(m) ==
  /\ nft[m] = NoNFT
  /\ nft' = [nft EXCEPT ![m] = [supply |-> 1, wood |-> 0]]
  /\ UNCHANGED <<player, game_data, session, clock>>

\* session_keys: a player gives a key some time, and may take it back.
OpenSession(p, k, until) ==
  /\ session[p][k] = NoSession /\ until > clock
  /\ session' = [session EXCEPT ![p][k] = until]
  /\ UNCHANGED <<player, game_data, nft, clock>>

RevokeSession(p, k) ==
  /\ session[p][k] # NoSession
  /\ session' = [session EXCEPT ![p][k] = NoSession]
  /\ UNCHANGED <<player, game_data, nft, clock>>

PassTime ==
  /\ clock < MaxTime
  /\ clock' = clock + 1
  /\ UNCHANGED <<player, game_data, nft, session>>

GameNext ==
  \/ \E p \in Players : InitPlayer(p)
  \/ \E s \in Players \cup SessionKeys, p \in Players, l \in Levels, m \in GameMints :
       ChopTree(s, p, l, m)
  \/ \E m \in GameMints : MintNft(m)
  \/ \E p \in Players, k \in SessionKeys, t \in 1 .. MaxTime : OpenSession(p, k, t)
  \/ \E p \in Players, k \in SessionKeys : RevokeSession(p, k)
  \/ PassTime

GameSpec == GameInit /\ [][GameNext]_gameVars

-----------------------------------------------------------------------------

GameTypeOK ==
  /\ player \in [Players -> [joined: BOOLEAN, energy: 0 .. MAX_ENERGY,
                             wood: 0 .. MaxWood, last_login: 0 .. MaxTime]]
  /\ game_data \in [Levels -> 0 .. MAX_WOOD_PER_TREE]
  /\ nft \in [GameMints -> [supply: 0 .. 1, wood: 0 .. MaxWood]]
  /\ session \in [Players -> [SessionKeys -> 0 .. MaxTime]]
  /\ clock \in 1 .. MaxTime

\* Every piece of wood came off a tree: a tree that is felled gave one piece more than
\* MAX_WOOD_PER_TREE, so the players' wood and what was taken from the trees that
\* stand differ by whole trees (on_tree_chopped).
WoodFromTrees ==
  (SumFunction([p \in Players |-> player[p].wood]) - SumFunction(game_data))
    % (MAX_WOOD_PER_TREE + 1) = 0

\* An NFT shows no more wood than a player has: several may chop with one NFT, and it
\* shows what the last of them had then, never their sum (chop_tree).
WoodShown ==
  \A m \in GameMints : nft[m].wood > 0 => \E p \in Players : nft[m].wood <= player[p].wood

\* Wood is no cheaper and no dearer for when it is chopped: update_energy, which works
\* energy out afterwards, gives what filling by the second would, with no second lost
\* or counted twice, and none saved beyond MAX_ENERGY.
Bucket == INSTANCE EnergyBucket WITH
  Refill <- TIME_TO_REFILL_ENERGY, Capacity <- MAX_ENERGY,
  bucket <- [p \in Players |->
               IF player[p].joined
               THEN Min({TIME_TO_REFILL_ENERGY * player[p].energy
                           + clock - player[p].last_login,
                         TIME_TO_REFILL_ENERGY * MAX_ENERGY})
               ELSE -1],
  earned <- [p \in Players |-> player[p].wood]

EnergyByTheSecond == Bucket!BucketSpec
=============================================================================
