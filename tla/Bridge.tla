-------------------------------- MODULE Bridge --------------------------------
(***************************************************************************)
(* VirtualSwap/Bridge.sol with its SynthSwapper clones: swaps between any  *)
(* Synthetix asset and the tokens of the pools, by way of the one synth a  *)
(* pool holds (its medium).  A swap leaves its synths in a clone of its    *)
(* own; an ERC721 token, numbered like the clone, owns the pending swap.   *)
(* After the waiting period of Synthetix the owner settles the synths,     *)
(* which may correct their amount, and takes them or sells them to the     *)
(* pool.                                                                   *)
(*                                                                         *)
(* The amount an exchange or a settlement results in is Synthetix's and is *)
(* any of a small set.  Prices and tokens of the pools are left out.       *)
(***************************************************************************)
EXTENDS Integers

CONSTANTS
  Users, Pools, Synths,
  Medium,        \* Medium[pool]: the synth the pool holds
  MaxItems,      \* bound: swaps begun
  Amounts,       \* what an exchange of synths may result in
  Corrections,   \* what a settlement may add (a rebate) or take (a reclaim)
  Requests,      \* amounts owners ask to withdraw or to sell
  NoSwap, NoOwner

Items == 0 .. MaxItems - 1

ASSUME BridgeAssumption ==
  /\ Medium \in [Pools -> Synths]
  /\ MaxItems \in Nat
  /\ Amounts \subseteq Nat /\ Requests \subseteq Nat
  /\ Corrections \subseteq Int
  /\ NoOwner \notin Users

VARIABLES
  registered,            \* pools with an entry in swapContracts
  pendingSwapsLength,
  pendingSwapType,       \* pendingSwapType[item]
  pendingToSynthSwaps,   \* [swapper, synthKey] or NoSwap
  pendingToTokenSwaps,   \* [swapper, synthKey, swap] or NoSwap
  ownerOf,               \* owner of the ERC721 token, or NoOwner
  clone                  \* clone[item]: [alive, key, held, settlement]

vars == <<registered, pendingSwapsLength, pendingSwapType, pendingToSynthSwaps,
          pendingToTokenSwaps, ownerOf, clone>>

SwapTypes == {"Null", "TokenToSynth", "SynthToToken", "TokenToToken"}
ToToken   == {"SynthToToken", "TokenToToken"}

(* A clone that holds amount of a synth it has just exchanged for.         *)
Exchanged(key, amount) ==
  [alive |-> TRUE, key |-> key, held |-> amount, settlement |-> "waiting"]

NoClone == [alive |-> FALSE, key |-> NoSwap, held |-> 0, settlement |-> "settled"]

-----------------------------------------------------------------------------
Init ==
  /\ registered = {}
  /\ pendingSwapsLength = 0
  /\ pendingSwapType = [item \in Items |-> "Null"]
  /\ pendingToSynthSwaps = [item \in Items |-> NoSwap]
  /\ pendingToTokenSwaps = [item \in Items |-> NoSwap]
  /\ ownerOf = [item \in Items |-> NoOwner]
  /\ clone = [item \in Items |-> NoClone]

SetSynthIndex(pool) ==
  /\ pool \notin registered
  /\ registered' = registered \cup {pool}
  /\ UNCHANGED <<pendingSwapsLength, pendingSwapType, pendingToSynthSwaps,
                 pendingToTokenSwaps, ownerOf, clone>>

(* A new pending swap of u, in a new clone that holds amount of key.       *)
Opens(u, type, key, amount) ==
  LET item == pendingSwapsLength
  IN  /\ item < MaxItems
      /\ pendingSwapsLength' = item + 1
      /\ pendingSwapType' = [pendingSwapType EXCEPT ![item] = type]
      /\ ownerOf' = [ownerOf EXCEPT ![item] = u]
      /\ clone' = [clone EXCEPT ![item] = Exchanged(key, amount)]
      /\ UNCHANGED registered

(* u sells a token of the pool for its medium and exchanges that.          *)
TokenToSynth(u, pool, synthOut, amount) ==
  /\ pool \in registered
  /\ synthOut # Medium[pool]
  /\ Opens(u, "TokenToSynth", synthOut, amount)
  /\ pendingToSynthSwaps' = [pendingToSynthSwaps EXCEPT ![pendingSwapsLength] =
                               [swapper |-> pendingSwapsLength, synthKey |-> synthOut]]
  /\ UNCHANGED pendingToTokenSwaps

OpensToToken(u, type, pool, amount) ==
  /\ Opens(u, type, Medium[pool], amount)
  /\ pendingToTokenSwaps' = [pendingToTokenSwaps EXCEPT ![pendingSwapsLength] =
                               [swapper |-> pendingSwapsLength,
                                synthKey |-> Medium[pool], swap |-> pool]]
  /\ UNCHANGED pendingToSynthSwaps

SynthToToken(u, synthIn, pool, amount) ==
  /\ pool \in registered
  /\ synthIn # Medium[pool]
  /\ OpensToToken(u, "SynthToToken", pool, amount)

(* A mutant: the pool of the first half is remembered.                     *)
TokenToTokenOfFirst(u, from, to, amount) ==
  /\ {from, to} \subseteq registered
  /\ Medium[from] # Medium[to]
  /\ Opens(u, "TokenToToken", Medium[to], amount)
  /\ pendingToTokenSwaps' = [pendingToTokenSwaps EXCEPT ![pendingSwapsLength] =
                               [swapper |-> pendingSwapsLength,
                                synthKey |-> Medium[to], swap |-> from]]
  /\ UNCHANGED pendingToSynthSwaps

(* u sells a token of one pool, to buy one of another.                     *)
TokenToToken(u, from, to, amount) ==
  /\ {from, to} \subseteq registered
  /\ Medium[from] # Medium[to]
  /\ OpensToToken(u, "TokenToToken", to, amount)

-----------------------------------------------------------------------------
(* The waiting period of a clone's exchange ends.                          *)
WaitingPeriodEnds(item) ==
  /\ clone[item].settlement = "waiting"
  /\ clone' = [clone EXCEPT ![item].settlement = "due"]
  /\ UNCHANGED <<registered, pendingSwapsLength, pendingSwapType, pendingToSynthSwaps,
                 pendingToTokenSwaps, ownerOf>>

(* What a clone may hold once its exchange is settled.  Exchanger.settle   *)
(* reverts during the waiting period, and settles an exchange once.        *)
SettledAmounts(item) ==
  CASE clone[item].settlement = "waiting" -> {}
    [] clone[item].settlement = "settled" -> {clone[item].held}
    [] clone[item].settlement = "due" ->
         {IF clone[item].held + c < 0 THEN 0 ELSE clone[item].held + c : c \in Corrections}

(* Anybody may settle a clone's exchange at Synthetix.                     *)
Settle(item) ==
  /\ clone[item].settlement = "due"
  /\ \E held \in SettledAmounts(item) :
       clone' = [clone EXCEPT ![item].held = held, ![item].settlement = "settled"]
  /\ UNCHANGED <<registered, pendingSwapsLength, pendingSwapType, pendingToSynthSwaps,
                 pendingToTokenSwaps, ownerOf>>

(* Amount leaves the clone, which is destroyed when the swap is over.      *)
Leaves(item, held, amount, isFinal) ==
  clone' = [clone EXCEPT ![item] = [@ EXCEPT !.held = held - amount,
                                             !.settlement = "settled",
                                             !.alive = ~isFinal]]

(* The ERC721 token is burned and the swap forgotten, if it is over.       *)
ClosesToToken(item, isFinal) ==
  /\ ownerOf' = [ownerOf EXCEPT ![item] = IF isFinal THEN NoOwner ELSE @]
  /\ pendingSwapType' = [pendingSwapType EXCEPT ![item] = IF isFinal THEN "Null" ELSE @]
  /\ pendingToTokenSwaps' = [pendingToTokenSwaps EXCEPT ![item] = IF isFinal THEN NoSwap ELSE @]
  /\ UNCHANGED <<registered, pendingSwapsLength, pendingToSynthSwaps>>

(* A mutant: the balance is read before the settlement.                    *)
TakesUnsettled(u, item, amount) ==
  /\ ownerOf[item] = u
  /\ pendingSwapType[item] \in ToToken
  /\ \E held \in SettledAmounts(item) :
       /\ amount <= held
       /\ ClosesToToken(item, amount >= clone[item].held)
       /\ Leaves(item, held, amount, amount >= clone[item].held)

(* The owner u settles a swap to a token and takes amount out of its       *)
(* clone; the swap is over when nothing is left.                           *)
Takes(u, item, amount) ==
  /\ ownerOf[item] = u
  /\ pendingSwapType[item] \in ToToken
  /\ \E held \in SettledAmounts(item) :
       /\ amount <= held
       /\ ClosesToToken(item, amount >= held)
       /\ Leaves(item, held, amount, amount >= held)

(* The synths go to the owner ...                                          *)
Withdraw(u, item, amount) == Takes(u, item, amount)

(* ... or are sold to the pool the swap remembers.                         *)
CompleteToToken(u, item, swapAmount) ==
  /\ swapAmount # 0
  /\ Takes(u, item, swapAmount)

(* A mutant: only swaps to tokens are completed.                           *)
CompleteToSynthOfToken(u, item) ==
  /\ ownerOf[item] = u
  /\ pendingSwapType[item] \in ToToken
  /\ \E held \in SettledAmounts(item) : Leaves(item, held, held, TRUE)
  /\ ownerOf' = [ownerOf EXCEPT ![item] = NoOwner]
  /\ pendingSwapType' = [pendingSwapType EXCEPT ![item] = "Null"]
  /\ pendingToTokenSwaps' = [pendingToTokenSwaps EXCEPT ![item] = NoSwap]
  /\ UNCHANGED <<registered, pendingSwapsLength, pendingToSynthSwaps>>

(* The owner u settles a swap to a synth and takes it.  The entry deleted  *)
(* is the one of the other mapping.                                        *)
CompleteToSynth(u, item) ==
  /\ ownerOf[item] = u
  /\ pendingSwapType[item] = "TokenToSynth"
  /\ \E held \in SettledAmounts(item) : Leaves(item, held, held, TRUE)
  /\ ownerOf' = [ownerOf EXCEPT ![item] = NoOwner]
  /\ pendingSwapType' = [pendingSwapType EXCEPT ![item] = "Null"]
  /\ pendingToTokenSwaps' = [pendingToTokenSwaps EXCEPT ![item] = NoSwap]
  /\ UNCHANGED <<registered, pendingSwapsLength, pendingToSynthSwaps>>

(* u gives a pending swap to v.                                            *)
TransferNFT(u, v, item) ==
  /\ ownerOf[item] = u
  /\ ownerOf' = [ownerOf EXCEPT ![item] = v]
  /\ UNCHANGED <<registered, pendingSwapsLength, pendingSwapType, pendingToSynthSwaps,
                 pendingToTokenSwaps, clone>>

Next ==
  \/ \E pool \in Pools : SetSynthIndex(pool)
  \/ \E u \in Users, pool \in Pools, synth \in Synths, amount \in Amounts :
        TokenToSynth(u, pool, synth, amount) \/ SynthToToken(u, synth, pool, amount)
  \/ \E u \in Users, from, to \in Pools, amount \in Amounts : TokenToToken(u, from, to, amount)
  \/ \E item \in Items : WaitingPeriodEnds(item) \/ Settle(item)
  \/ \E u \in Users, item \in Items, amount \in Requests :
        Withdraw(u, item, amount) \/ CompleteToToken(u, item, amount)
  \/ \E u \in Users, item \in Items : CompleteToSynth(u, item)
  \/ \E u, v \in Users, item \in Items : TransferNFT(u, v, item)

Spec == Init /\ [][Next]_vars

-----------------------------------------------------------------------------
Pending(item) == pendingSwapType[item] # "Null"

(* The four records of a pending swap agree: it has an owner exactly when  *)
(* its clone lives; the entry its type refers to names that clone and the  *)
(* synth it really holds; and a pool it is to be sold to is a registered   *)
(* one that takes that synth.                                              *)
RecordsAgree ==
  \A item \in Items :
    /\ Pending(item) <=> ownerOf[item] # NoOwner
    /\ Pending(item) <=> clone[item].alive
    /\ pendingSwapType[item] = "TokenToSynth" =>
         pendingToSynthSwaps[item] = [swapper |-> item, synthKey |-> clone[item].key]
    /\ pendingSwapType[item] \in ToToken =>
         LET swap == pendingToTokenSwaps[item]
         IN  /\ swap.swapper = item
             /\ swap.synthKey = clone[item].key
             /\ swap.swap \in registered /\ Medium[swap.swap] = clone[item].key

(* A clone is never destroyed with synths in it, whatever the settlement   *)
(* gave or took, and however often the owner took a part.                  *)
NothingLostWithClone == \A item \in Items : ~clone[item].alive => clone[item].held = 0

(* Once its waiting period is over, nothing but its owner keeps a pending  *)
(* swap from being finished: completed if it is one to a synth, withdrawn  *)
(* if it is one to a token.  (A request of all that is held, when the      *)
(* amount is settled.)                                                     *)
OwnerCanFinish ==
  \A item \in Items :
    Pending(item) /\ clone[item].settlement = "settled" =>
      \/ ENABLED CompleteToSynth(ownerOf[item], item)
      \/ ENABLED (Withdraw(ownerOf[item], item, clone[item].held) /\ ~clone'[item].alive)

(* "Burn the corresponding ERC721 token and delete storage for gas" (the   *)
(* comment in completeToSynth): a swap that is over leaves no entry.       *)
StorageIsDeleted ==
  \A item \in Items :
    ~Pending(item) => pendingToSynthSwaps[item] = NoSwap /\ pendingToTokenSwaps[item] = NoSwap
==============================================================================
