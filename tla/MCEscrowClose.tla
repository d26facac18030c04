--------------------------- MODULE MCEscrowClose ---------------------------
(* Instances of the subscription escrow for TLC.                            *)
EXTENDS EscrowClose, TLC

CONSTANTS s1, s2, s3, c1, c2, c3, ann, bob

\* ann's two payments to one address, and one of bob's.
TwoSubsThreeCoins == c1 :> s1 @@ c2 :> s2 @@ c3 :> s1
TwoSubsTwoCoins   == c1 :> s1 @@ c2 :> s2
OneSubTwoCoins    == c1 :> s1 @@ c3 :> s1
ThreeSubs         == c1 :> s1 @@ c2 :> s2 @@ c3 :> s3
Alone             == s1 :> ann
Apart             == s1 :> ann @@ s2 :> bob
TogetherOfThree   == s1 :> ann @@ s2 :> ann @@ s3 :> ann
\* Both subscriptions are ann's: her balance mixes their deliveries.
Together          == s1 :> ann @@ s2 :> ann

\* s1 subscribed first, then s2, then s3.
Created == s1 :> 1 @@ s2 :> 2 @@ s3 :> 3
InOrder == [s \in Subs |-> Created[s]]

Whole == [c \in Coins |-> 4]

Even   == [s \in Subs |-> 4]
=============================================================================
