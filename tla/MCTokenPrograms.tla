-------------------------- MODULE MCTokenPrograms --------------------------
(* Small instances of the five token programs for TLC.                        *)
EXTENDS TokenPrograms, TLC

CONSTANTS x, y, ann, bob, tokA, tokB, u1, u2, k1, k2, acc1, acc2, accOut

DecimalsUsed == [m \in RaisedMints |-> 1]

\* Snapshots of one, three and six entries with an address, so that trees have one
\* node, a padded level, and two of them; wallets listed twice, for nothing, with
\* the same amount as another, and entries the tool skips.
Entry(w, n) == [wallet |-> w, amount |-> n]
SnapshotsUsed ==
  { <<Entry("bob", 2)>>,
    <<Entry("ann", 1), Entry("bob", 2), Entry("ann", 1)>>,
    <<Entry("ann", 2), Entry(NoWallet, 5), Entry("bob", 1), Entry("ann", 0),
      Entry("bob", 1), Entry("ann", NoNumber), Entry("eve", 2), Entry("bob", 3)>> }

\* Two user accounts with one token account each; somebody else's account.
Owners == (acc1 :> u1) @@ (acc2 :> u2) @@ (accOut :> NoAuthority)
Deposits == (acc1 :> 2) @@ (acc2 :> 1) @@ (accOut :> 0)

\* Transfers out of either account, for two nonces, by two keys, and one that its
\* user account could never make.
Signed(key, u, from, to, nonce) ==
  [key |-> key, digest |-> Digest(u, from, to, 1, nonce)]
SignableUsed ==
  { Signed(k1, u1, acc1, accOut, 0), Signed(k1, u1, acc1, acc1, 0),
    Signed(k1, u1, acc1, accOut, 1), Signed(k2, u1, acc1, acc2, 0),
    Signed(k1, u2, acc2, acc1, 0), Signed(k1, u2, acc1, acc2, 0) }
=============================================================================
