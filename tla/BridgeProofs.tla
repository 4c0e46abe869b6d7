----------------------------- MODULE BridgeProofs -----------------------------
(***************************************************************************)
(* Proofs about Bridge, for any users, pools and synths, any number of     *)
(* swaps and whatever exchanges and settlements result in: the records of  *)
(* a pending swap agree, and no synth is lost with a clone.                *)
(*                                                                         *)
(* Neither is inductive.  A new swap takes the next number, so the numbers *)
(* not yet given away must be blank; and a clone may only be settled while *)
(* it lives, or a rebate would reach one that is gone.                     *)
(***************************************************************************)
EXTENDS Bridge, TLAPS

Clones == [alive : BOOLEAN, key : Synths \cup {NoSwap}, held : Nat,
           settlement : {"waiting", "due", "settled"}]

(* The variables have their types.                                         *)
BridgeTypeOK ==
  /\ registered \subseteq Pools
  /\ pendingSwapsLength \in 0 .. MaxItems
  /\ pendingSwapType \in [Items -> SwapTypes]
  /\ pendingToSynthSwaps \in [Items -> [swapper : Items, synthKey : Synths] \cup {NoSwap}]
  /\ pendingToTokenSwaps \in
       [Items -> [swapper : Items, synthKey : Synths, swap : Pools] \cup {NoSwap}]
  /\ ownerOf \in [Items -> Users \cup {NoOwner}]
  /\ clone \in [Items -> Clones]

(* A number that has not been given to a swap has no record, ...           *)
NewItemsAreBlank ==
  \A item \in Items : item >= pendingSwapsLength => ~Pending(item)

(* ... and a clone that is gone has no exchange to settle.                 *)
GoneIsSettled ==
  \A item \in Items : ~clone[item].alive => clone[item].settlement = "settled"

BridgeInv ==
  /\ BridgeTypeOK /\ NewItemsAreBlank /\ GoneIsSettled
  /\ RecordsAgree /\ NothingLostWithClone

(* What the invariant says of one swap.                                    *)
SwapInv(item) ==
  /\ item >= pendingSwapsLength => pendingSwapType[item] = "Null"
  /\ ~clone[item].alive => clone[item].settlement = "settled" /\ clone[item].held = 0
  /\ pendingSwapType[item] # "Null" <=> ownerOf[item] # NoOwner
  /\ pendingSwapType[item] # "Null" <=> clone[item].alive
  /\ pendingSwapType[item] = "TokenToSynth" =>
       pendingToSynthSwaps[item] = [swapper |-> item, synthKey |-> clone[item].key]
  /\ pendingSwapType[item] \in ToToken =>
       /\ pendingToTokenSwaps[item].swapper = item
       /\ pendingToTokenSwaps[item].synthKey = clone[item].key
       /\ pendingToTokenSwaps[item].swap \in registered
       /\ Medium[pendingToTokenSwaps[item].swap] = clone[item].key

LEMMA InvBySwap == BridgeInv <=> BridgeTypeOK /\ \A item \in Items : SwapInv(item)
  BY DEF BridgeInv, NewItemsAreBlank, GoneIsSettled, RecordsAgree, NothingLostWithClone,
         SwapInv, Pending
LEMMA InvBySwapNext == BridgeInv' <=> BridgeTypeOK' /\ \A item \in Items : SwapInv(item)'
  BY DEF BridgeInv, NewItemsAreBlank, GoneIsSettled, RecordsAgree, NothingLostWithClone,
         SwapInv, Pending

(* The records of every swap other than `item` are kept.                   *)
OthersKept(item) ==
  /\ registered' = registered
  /\ \A other \in Items \ {item} :
       /\ pendingSwapType'[other] = pendingSwapType[other]
       /\ pendingToSynthSwaps'[other] = pendingToSynthSwaps[other]
       /\ pendingToTokenSwaps'[other] = pendingToTokenSwaps[other]
       /\ ownerOf'[other] = ownerOf[other]
       /\ clone'[other] = clone[other]

LEMMA OthersKeepInv ==
  ASSUME BridgeInv, NEW item \in Items, OthersKept(item),
         pendingSwapsLength' >= pendingSwapsLength, BridgeTypeOK'
  PROVE  \A other \in Items \ {item} : SwapInv(other)'
<1> SUFFICES ASSUME NEW other \in Items \ {item} PROVE SwapInv(other)'
  OBVIOUS
<1>1. SwapInv(other)
  BY InvBySwap
<1>2. other >= pendingSwapsLength' => other >= pendingSwapsLength
  BY DEF BridgeInv, BridgeTypeOK, Items
<1> QED BY <1>1, <1>2 DEF SwapInv, OthersKept

LEMMA BridgeInvInit == Init => BridgeInv
<1> SUFFICES ASSUME Init PROVE BridgeTypeOK /\ \A item \in Items : SwapInv(item)
  BY InvBySwap
<1>1. NoClone \in Clones
  BY DEF NoClone, Clones
<1>2. BridgeTypeOK
  BY <1>1, BridgeAssumption DEF Init, BridgeTypeOK, SwapTypes
<1>3. ASSUME NEW item \in Items PROVE SwapInv(item)
  BY DEF Init, SwapInv, NoClone, ToToken
<1> QED BY <1>2, <1>3

LEMMA MoreRegistered ==
  ASSUME BridgeInv, NEW pool \in Pools, SetSynthIndex(pool) PROVE BridgeInv'
<1>1. BridgeTypeOK'
  BY DEF BridgeInv, BridgeTypeOK, SetSynthIndex
<1>2. ASSUME NEW item \in Items PROVE SwapInv(item)'
  BY InvBySwap DEF SwapInv, SetSynthIndex
<1> QED BY <1>1, <1>2, InvBySwapNext

(* What opening a swap leaves: its own records, under a number that was    *)
(* blank, and the records of the others.                                   *)
LEMMA OpensInv ==
  ASSUME BridgeInv, NEW u \in Users, NEW type \in SwapTypes \ {"Null"}, NEW key \in Synths,
         NEW amount \in Amounts, Opens(u, type, key, amount)
  PROVE  /\ pendingSwapsLength \in Items
         /\ pendingSwapsLength' = pendingSwapsLength + 1
         /\ pendingSwapsLength' \in 0 .. MaxItems
         /\ pendingSwapType' \in [Items -> SwapTypes]
         /\ ownerOf' \in [Items -> Users \cup {NoOwner}]
         /\ clone' \in [Items -> Clones]
         /\ registered' = registered
         /\ pendingSwapType'[pendingSwapsLength] = type
         /\ ownerOf'[pendingSwapsLength] = u
         /\ clone'[pendingSwapsLength].alive /\ clone'[pendingSwapsLength].key = key
         /\ \A other \in Items \ {pendingSwapsLength} :
              /\ pendingSwapType'[other] = pendingSwapType[other]
              /\ ownerOf'[other] = ownerOf[other]
              /\ clone'[other] = clone[other]
<1>1. pendingSwapsLength \in Items /\ pendingSwapsLength' \in 0 .. MaxItems
      /\ pendingSwapsLength' = pendingSwapsLength + 1
  BY BridgeAssumption DEF BridgeInv, BridgeTypeOK, Opens, Items
<1>2. Exchanged(key, amount) \in Clones
  BY BridgeAssumption DEF Exchanged, Clones
<1>3. Exchanged(key, amount).alive /\ Exchanged(key, amount).key = key
  BY DEF Exchanged
<1> QED BY <1>1, <1>2, <1>3 DEF BridgeInv, BridgeTypeOK, Opens

LEMMA TokenToSynthInv ==
  ASSUME BridgeInv, NEW u \in Users, NEW pool \in Pools, NEW synth \in Synths,
         NEW amount \in Amounts, TokenToSynth(u, pool, synth, amount)
  PROVE  BridgeInv'
<1>1. Opens(u, "TokenToSynth", synth, amount) /\ "TokenToSynth" \in SwapTypes \ {"Null"}
  BY DEF TokenToSynth, SwapTypes
<1>2. PICK item \in Items : item = pendingSwapsLength
  BY <1>1, OpensInv
<1> DEFINE entry == [swapper |-> item, synthKey |-> synth]
<1>3. /\ pendingToSynthSwaps' = [pendingToSynthSwaps EXCEPT ![item] = entry]
      /\ pendingToTokenSwaps' = pendingToTokenSwaps
      /\ entry \in [swapper : Items, synthKey : Synths]
  BY <1>2 DEF TokenToSynth
<1>4. /\ pendingToSynthSwaps'[item] = entry
      /\ \A other \in Items \ {item} : pendingToSynthSwaps'[other] = pendingToSynthSwaps[other]
      /\ pendingToSynthSwaps' \in [Items -> [swapper : Items, synthKey : Synths] \cup {NoSwap}]
  <2> HIDE DEF entry
  <2> QED BY <1>3 DEF BridgeInv, BridgeTypeOK
<1>5. BridgeTypeOK'
  BY <1>1, <1>3, <1>4, OpensInv DEF BridgeInv, BridgeTypeOK
<1>6. OthersKept(item)
  BY <1>1, <1>2, <1>3, <1>4, OpensInv DEF OthersKept
<1>7. SwapInv(item)'
  <2>1. ~(item >= pendingSwapsLength')
    BY <1>1, <1>2, OpensInv DEF Items
  <2>2. /\ pendingSwapType'[item] = "TokenToSynth" /\ ownerOf'[item] = u
        /\ clone'[item].alive /\ clone'[item].key = synth /\ u # NoOwner
    BY <1>1, <1>2, OpensInv, BridgeAssumption
  <2> QED BY <1>4, <2>1, <2>2 DEF SwapInv, ToToken
<1>8. pendingSwapsLength' >= pendingSwapsLength
  BY <1>1, OpensInv DEF BridgeInv, BridgeTypeOK
<1> QED
  BY <1>5, <1>6, <1>7, <1>8, OthersKeepInv, InvBySwapNext

LEMMA ToTokenInv ==
  ASSUME BridgeInv, NEW u \in Users, NEW type \in ToToken, NEW pool \in registered,
         NEW amount \in Amounts, OpensToToken(u, type, pool, amount)
  PROVE  BridgeInv'
<1>1. /\ Opens(u, type, Medium[pool], amount) /\ type \in SwapTypes \ {"Null"}
      /\ pool \in Pools /\ Medium[pool] \in Synths
  BY BridgeAssumption DEF OpensToToken, SwapTypes, ToToken, BridgeInv, BridgeTypeOK
<1>2. PICK item \in Items : item = pendingSwapsLength
  BY <1>1, OpensInv
<1> DEFINE entry == [swapper |-> item, synthKey |-> Medium[pool], swap |-> pool]
<1>3. /\ pendingToTokenSwaps' = [pendingToTokenSwaps EXCEPT ![item] = entry]
      /\ pendingToSynthSwaps' = pendingToSynthSwaps
      /\ entry \in [swapper : Items, synthKey : Synths, swap : Pools]
  BY <1>1, <1>2 DEF OpensToToken
<1>4. /\ pendingToTokenSwaps'[item] = entry
      /\ \A other \in Items \ {item} : pendingToTokenSwaps'[other] = pendingToTokenSwaps[other]
      /\ pendingToTokenSwaps' \in
           [Items -> [swapper : Items, synthKey : Synths, swap : Pools] \cup {NoSwap}]
  <2> HIDE DEF entry
  <2> QED BY <1>3 DEF BridgeInv, BridgeTypeOK
<1>5. BridgeTypeOK'
  BY <1>1, <1>3, <1>4, OpensInv DEF BridgeInv, BridgeTypeOK
<1>6. OthersKept(item)
  BY <1>1, <1>2, <1>3, <1>4, OpensInv DEF OthersKept
<1>7. SwapInv(item)'
  <2>1. ~(item >= pendingSwapsLength')
    BY <1>1, <1>2, OpensInv DEF Items
  <2>2. /\ pendingSwapType'[item] = type /\ type # "TokenToSynth" /\ type # "Null"
        /\ ownerOf'[item] = u /\ clone'[item].alive /\ clone'[item].key = Medium[pool]
        /\ u # NoOwner /\ pool \in registered'
    BY <1>1, <1>2, OpensInv, BridgeAssumption DEF ToToken
  <2> QED BY <1>4, <2>1, <2>2 DEF SwapInv
<1>8. pendingSwapsLength' >= pendingSwapsLength
  BY <1>1, OpensInv DEF BridgeInv, BridgeTypeOK
<1> QED
  BY <1>5, <1>6, <1>7, <1>8, OthersKeepInv, InvBySwapNext

-----------------------------------------------------------------------------
(* A pending swap is settled and nothing else.                             *)
LEMMA SettledAmountsType ==
  ASSUME BridgeInv, NEW item \in Items PROVE SettledAmounts(item) \subseteq Nat
<1>1. clone[item].held \in Nat /\ clone[item].settlement \in {"waiting", "due", "settled"}
  BY DEF BridgeInv, BridgeTypeOK, Clones
<1> QED BY <1>1, BridgeAssumption DEF SettledAmounts

LEMMA WaitingPeriodEndsInv ==
  ASSUME BridgeInv, NEW item \in Items, WaitingPeriodEnds(item) PROVE BridgeInv'
<1>1. BridgeTypeOK'
  BY DEF BridgeInv, BridgeTypeOK, WaitingPeriodEnds, Clones
<1>2. OthersKept(item)
  BY DEF OthersKept, WaitingPeriodEnds, BridgeInv, BridgeTypeOK
<1>3. /\ clone'[item].alive = clone[item].alive /\ clone'[item].key = clone[item].key
      /\ clone[item].alive
  BY InvBySwap DEF SwapInv, WaitingPeriodEnds, BridgeInv, BridgeTypeOK, Clones
<1>4. SwapInv(item)'
  BY <1>3, InvBySwap DEF SwapInv, WaitingPeriodEnds
<1>5. pendingSwapsLength' >= pendingSwapsLength
  BY DEF WaitingPeriodEnds, BridgeInv, BridgeTypeOK
<1> QED BY <1>1, <1>2, <1>4, <1>5, OthersKeepInv, InvBySwapNext

LEMMA SettleInv ==
  ASSUME BridgeInv, NEW item \in Items, Settle(item) PROVE BridgeInv'
<1>1. PICK held \in SettledAmounts(item) :
        clone' = [clone EXCEPT ![item].held = held, ![item].settlement = "settled"]
  BY DEF Settle
<1>2. held \in Nat
  BY SettledAmountsType
<1>3. BridgeTypeOK'
  BY <1>1, <1>2 DEF BridgeInv, BridgeTypeOK, Settle, Clones
<1>4. OthersKept(item)
  BY <1>1 DEF OthersKept, Settle, BridgeInv, BridgeTypeOK
<1>5. /\ clone'[item].alive = clone[item].alive /\ clone'[item].key = clone[item].key
      /\ clone[item].alive
  BY <1>1, InvBySwap DEF SwapInv, Settle, BridgeInv, BridgeTypeOK, Clones
<1>6. SwapInv(item)'
  <2>1. UNCHANGED <<registered, pendingSwapsLength, pendingSwapType, pendingToSynthSwaps,
                    pendingToTokenSwaps, ownerOf>>
    BY DEF Settle
  <2>2. SwapInv(item)
    BY InvBySwap
  <2> QED BY <1>5, <2>1, <2>2 DEF SwapInv
<1>7. pendingSwapsLength' >= pendingSwapsLength
  BY DEF Settle, BridgeInv, BridgeTypeOK
<1> QED BY <1>3, <1>4, <1>6, <1>7, OthersKeepInv, InvBySwapNext

(* What leaves a clone leaves it in its type; a clone that is destroyed    *)
(* is empty if all it held has left.                                       *)
LEMMA LeavesInv ==
  ASSUME BridgeInv, NEW item \in Items, NEW held \in Nat, NEW amount \in 0 .. held,
         NEW isFinal \in BOOLEAN, Leaves(item, held, amount, isFinal)
  PROVE  /\ clone' \in [Items -> Clones]
         /\ clone'[item].alive = ~isFinal /\ clone'[item].key = clone[item].key
         /\ clone'[item].held = held - amount /\ clone'[item].settlement = "settled"
         /\ \A other \in Items \ {item} : clone'[other] = clone[other]
<1>1. held - amount \in Nat
  OBVIOUS
<1>2. clone[item] \in Clones
  BY DEF BridgeInv, BridgeTypeOK
<1> DEFINE left == [clone[item] EXCEPT !.held = held - amount, !.settlement = "settled",
                                       !.alive = ~isFinal]
<1>3. /\ left \in Clones /\ left.alive = ~isFinal /\ left.key = clone[item].key
      /\ left.held = held - amount /\ left.settlement = "settled"
  BY <1>1, <1>2 DEF Clones
<1>4. clone' = [clone EXCEPT ![item] = left]
  BY DEF Leaves
<1> HIDE DEF left
<1> QED BY <1>3, <1>4 DEF BridgeInv, BridgeTypeOK

LEMMA TakesInv ==
  ASSUME BridgeInv, NEW u \in Users, NEW item \in Items, NEW amount \in Requests,
         Takes(u, item, amount)
  PROVE  BridgeInv'
<1>1. PICK held \in SettledAmounts(item) :
        /\ amount <= held
        /\ ClosesToToken(item, amount >= held)
        /\ Leaves(item, held, amount, amount >= held)
  BY DEF Takes
<1>2. held \in Nat /\ amount \in 0 .. held /\ (amount >= held) \in BOOLEAN
  BY <1>1, SettledAmountsType, BridgeAssumption
<1>3. PICK isFinal \in BOOLEAN : isFinal = (amount >= held)
  BY <1>2
<1>4. ClosesToToken(item, isFinal) /\ Leaves(item, held, amount, isFinal)
  BY <1>1, <1>3
<1>5. /\ clone' \in [Items -> Clones]
      /\ clone'[item].alive = ~isFinal /\ clone'[item].key = clone[item].key
      /\ clone'[item].held = held - amount /\ clone'[item].settlement = "settled"
      /\ \A other \in Items \ {item} : clone'[other] = clone[other]
  BY <1>2, <1>4, LeavesInv
<1>6. BridgeTypeOK'
  BY <1>4, <1>5 DEF BridgeInv, BridgeTypeOK, ClosesToToken, SwapTypes
<1>7. OthersKept(item)
  BY <1>4, <1>5 DEF OthersKept, ClosesToToken, BridgeInv, BridgeTypeOK
<1>8. SwapInv(item)'
  <2>1. /\ ownerOf[item] = u /\ u # NoOwner /\ pendingSwapType[item] \in ToToken
        /\ pendingSwapType[item] # "Null" /\ item < pendingSwapsLength
    BY BridgeAssumption, InvBySwap DEF Takes, ToToken, SwapInv, Items, BridgeInv, BridgeTypeOK
  <2>2. CASE isFinal
    <3>1. pendingSwapType'[item] = "Null" /\ ownerOf'[item] = NoOwner
      BY <1>4, <2>2 DEF ClosesToToken, BridgeInv, BridgeTypeOK
    <3>2. amount >= held
      BY <1>3, <2>2
    <3>3. amount = held /\ held - amount = 0
      BY <1>2, <3>2
    <3>4. clone'[item].held = 0
      BY <1>5, <3>3
    <3> QED BY <1>5, <2>2, <3>1, <3>4 DEF SwapInv, ToToken
  <2>3. CASE ~isFinal
    <3>1. /\ pendingSwapType'[item] = pendingSwapType[item] /\ ownerOf'[item] = ownerOf[item]
          /\ pendingToTokenSwaps'[item] = pendingToTokenSwaps[item]
          /\ UNCHANGED <<registered, pendingSwapsLength, pendingToSynthSwaps>>
      BY <1>4, <2>3 DEF ClosesToToken, BridgeInv, BridgeTypeOK
    <3>2. SwapInv(item)
      BY InvBySwap
    <3> QED BY <1>5, <2>1, <2>3, <3>1, <3>2 DEF SwapInv
  <2> QED BY <2>2, <2>3
<1>9. pendingSwapsLength' >= pendingSwapsLength
  BY <1>4 DEF ClosesToToken, BridgeInv, BridgeTypeOK
<1> QED BY <1>6, <1>7, <1>8, <1>9, OthersKeepInv, InvBySwapNext

LEMMA CompleteToSynthInv ==
  ASSUME BridgeInv, NEW u \in Users, NEW item \in Items, CompleteToSynth(u, item)
  PROVE  BridgeInv'
<1>1. PICK held \in SettledAmounts(item) : Leaves(item, held, held, TRUE)
  BY DEF CompleteToSynth
<1>2. held \in Nat /\ held \in 0 .. held
  BY <1>1, SettledAmountsType
<1>3. /\ clone' \in [Items -> Clones]
      /\ ~clone'[item].alive /\ clone'[item].held = 0 /\ clone'[item].settlement = "settled"
      /\ \A other \in Items \ {item} : clone'[other] = clone[other]
  <2>1. TRUE \in BOOLEAN /\ held - held = 0
    BY <1>2
  <2>2. /\ clone' \in [Items -> Clones]
        /\ clone'[item].alive = ~TRUE /\ clone'[item].held = held - held
        /\ clone'[item].settlement = "settled"
        /\ \A other \in Items \ {item} : clone'[other] = clone[other]
    BY <1>1, <1>2, <2>1, LeavesInv
  <2> QED BY <2>1, <2>2
<1>4. BridgeTypeOK'
  BY <1>3 DEF BridgeInv, BridgeTypeOK, CompleteToSynth, SwapTypes
<1>5. OthersKept(item)
  BY <1>3 DEF OthersKept, CompleteToSynth, BridgeInv, BridgeTypeOK
<1>6. pendingSwapType'[item] = "Null" /\ ownerOf'[item] = NoOwner
  BY DEF CompleteToSynth, BridgeInv, BridgeTypeOK
<1>7. SwapInv(item)'
  BY <1>3, <1>6 DEF SwapInv, ToToken
<1>8. pendingSwapsLength' >= pendingSwapsLength
  BY DEF CompleteToSynth, BridgeInv, BridgeTypeOK
<1> QED BY <1>4, <1>5, <1>7, <1>8, OthersKeepInv, InvBySwapNext

LEMMA TransferInv ==
  ASSUME BridgeInv, NEW u \in Users, NEW v \in Users, NEW item \in Items,
         TransferNFT(u, v, item)
  PROVE  BridgeInv'
<1>1. BridgeTypeOK'
  BY DEF BridgeInv, BridgeTypeOK, TransferNFT
<1>2. OthersKept(item)
  BY DEF OthersKept, TransferNFT, BridgeInv, BridgeTypeOK
<1>3. ownerOf[item] # NoOwner /\ ownerOf'[item] = v /\ v # NoOwner
  BY BridgeAssumption DEF TransferNFT, BridgeInv, BridgeTypeOK
<1>4. SwapInv(item)'
  BY <1>3, InvBySwap DEF SwapInv, TransferNFT
<1>5. pendingSwapsLength' >= pendingSwapsLength
  BY DEF TransferNFT, BridgeInv, BridgeTypeOK
<1> QED BY <1>1, <1>2, <1>4, <1>5, OthersKeepInv, InvBySwapNext

-----------------------------------------------------------------------------
LEMMA BridgeInvNext == BridgeInv /\ [Next]_vars => BridgeInv'
<1> SUFFICES ASSUME BridgeInv, [Next]_vars PROVE BridgeInv'
  OBVIOUS
<1>1. CASE \E pool \in Pools : SetSynthIndex(pool)
  BY <1>1, MoreRegistered
<1>2. ASSUME NEW u \in Users, NEW pool \in Pools, NEW synth \in Synths, NEW amount \in Amounts,
             TokenToSynth(u, pool, synth, amount) \/ SynthToToken(u, synth, pool, amount)
      PROVE  BridgeInv'
  <2>1. "SynthToToken" \in ToToken
    BY DEF ToToken
  <2> QED BY <1>2, <2>1, TokenToSynthInv, ToTokenInv DEF SynthToToken
<1>3. ASSUME NEW u \in Users, NEW from \in Pools, NEW to \in Pools, NEW amount \in Amounts,
             TokenToToken(u, from, to, amount)
      PROVE  BridgeInv'
  <2>1. "TokenToToken" \in ToToken /\ to \in registered
    BY <1>3 DEF ToToken, TokenToToken
  <2> QED BY <1>3, <2>1, ToTokenInv DEF TokenToToken
<1>4. CASE \E item \in Items : WaitingPeriodEnds(item) \/ Settle(item)
  BY <1>4, WaitingPeriodEndsInv, SettleInv
<1>5. ASSUME NEW u \in Users, NEW item \in Items, NEW amount \in Requests,
             Withdraw(u, item, amount) \/ CompleteToToken(u, item, amount)
      PROVE  BridgeInv'
  BY <1>5, TakesInv DEF Withdraw, CompleteToToken
<1>6. CASE \E u \in Users, item \in Items : CompleteToSynth(u, item)
  BY <1>6, CompleteToSynthInv
<1>7. CASE \E u, v \in Users, item \in Items : TransferNFT(u, v, item)
  BY <1>7, TransferInv
<1>8. CASE UNCHANGED vars
  <2>1. BridgeTypeOK'
    BY <1>8 DEF vars, BridgeInv, BridgeTypeOK
  <2>2. ASSUME NEW item \in Items PROVE SwapInv(item)'
    BY <1>8, InvBySwap DEF vars, SwapInv
  <2> QED BY <2>1, <2>2, InvBySwapNext
<1> QED
  BY <1>1, <1>2, <1>3, <1>4, <1>5, <1>6, <1>7, <1>8 DEF Next

(* Whatever users call and in whatever order, every reachable state has    *)
(* the types and, for every swap, the invariant of its records.            *)
THEOREM BridgeInvariant == Spec => []BridgeInv
<1> QED BY BridgeInvInit, BridgeInvNext, PTL DEF Spec

(* At every moment the type of a pending swap, its owner, its clone and    *)
(* the entry it refers to tell the same story (the four records of         *)
(* Bridge.sol that are written one by one).                                *)
THEOREM RecordsAlwaysAgree == Spec => []RecordsAgree
<1>1. BridgeInv => RecordsAgree
  BY DEF BridgeInv
<1> QED BY <1>1, BridgeInvariant, PTL

(* A clone that destroys itself holds nothing (SynthSwapper.sol: destroy). *)
THEOREM NothingEverLost == Spec => []NothingLostWithClone
<1>1. BridgeInv => NothingLostWithClone
  BY DEF BridgeInv
<1> QED BY <1>1, BridgeInvariant, PTL

-----------------------------------------------------------------------------
(* Nothing but the owner's call is needed to end a swap whose exchange is  *)
(* settled to `held`: the token has an owner, and one of the two mappings  *)
(* names the swap.                                                         *)
CanFinish(item, held) ==
  /\ ownerOf[item] \in Users
  /\ pendingSwapType[item] = "TokenToSynth" \/ pendingSwapType[item] \in ToToken
  /\ held \in SettledAmounts(item)

(* What CanFinish says is all that the calls ask for: every choice of the  *)
(* next state that does what they do is such a step, and ends the clone.   *)
LEMMA FinishingIsAStep ==
  ASSUME BridgeInv, NEW item \in Items, NEW held, CanFinish(item, held),
         ownerOf' = [ownerOf EXCEPT ![item] = NoOwner],
         pendingSwapType' = [pendingSwapType EXCEPT ![item] = "Null"],
         pendingToTokenSwaps' = [pendingToTokenSwaps EXCEPT ![item] = NoSwap],
         Leaves(item, held, held, TRUE),
         UNCHANGED <<registered, pendingSwapsLength, pendingToSynthSwaps>>
  PROVE  /\ CompleteToSynth(ownerOf[item], item) \/ Withdraw(ownerOf[item], item, held)
         /\ ~clone'[item].alive
<1>1. held \in Nat /\ held <= held /\ (held >= held) = TRUE
  BY SettledAmountsType DEF CanFinish
<1>2. ~clone'[item].alive
  BY DEF Leaves, BridgeInv, BridgeTypeOK, Clones
<1>3. CASE pendingSwapType[item] = "TokenToSynth"
  BY <1>2, <1>3 DEF CompleteToSynth, CanFinish
<1>4. CASE pendingSwapType[item] \in ToToken
  <2>1. ClosesToToken(item, TRUE)
    BY DEF ClosesToToken
  <2>2. ClosesToToken(item, held >= held) /\ Leaves(item, held, held, held >= held)
    BY <1>1, <2>1
  <2>3. Withdraw(ownerOf[item], item, held)
    BY <1>1, <1>4, <2>2 DEF Withdraw, Takes, CanFinish
  <2> QED BY <1>2, <2>3
<1> QED BY <1>3, <1>4 DEF CanFinish

(* What OwnerCanFinish says with ENABLED, and also of an exchange that is  *)
(* not settled yet: whatever its settlement results in, the owner can end  *)
(* the swap as soon as the waiting period is over, and take all of it.     *)
FinishPossible ==
  \A item \in Items :
    Pending(item) /\ clone[item].settlement # "waiting" =>
      /\ \A held \in SettledAmounts(item) : CanFinish(item, held)
      /\ clone[item].settlement = "settled" => CanFinish(item, clone[item].held)
      /\ clone[item].settlement = "due" /\ Corrections # {} => SettledAmounts(item) # {}

(* In every reachable state each pending swap can be ended by its owner    *)
(* (completeToSynth, withdraw), whatever was taken of it before, whoever   *)
(* it was given to, and whatever Synthetix corrects.                       *)
THEOREM FinishingAlwaysPossible == Spec => []FinishPossible
<1>1. BridgeInv => FinishPossible
  <2> SUFFICES ASSUME BridgeInv, NEW item \in Items, Pending(item), clone[item].settlement # "waiting"
               PROVE  /\ \A held \in SettledAmounts(item) : CanFinish(item, held)
                      /\ clone[item].settlement = "settled" => CanFinish(item, clone[item].held)
                      /\ clone[item].settlement = "due" /\ Corrections # {} => SettledAmounts(item) # {}
    BY DEF FinishPossible
  <2>1. ownerOf[item] \in Users
    BY DEF BridgeInv, BridgeTypeOK, RecordsAgree
  <2>2. pendingSwapType[item] = "TokenToSynth" \/ pendingSwapType[item] \in ToToken
    BY DEF BridgeInv, BridgeTypeOK, Pending, SwapTypes, ToToken
  <2>3. \A held \in SettledAmounts(item) : CanFinish(item, held)
    BY <2>1, <2>2 DEF CanFinish
  <2>4. clone[item].settlement = "settled" => clone[item].held \in SettledAmounts(item)
    BY DEF SettledAmounts
  <2>5. clone[item].settlement = "due" /\ Corrections # {} => SettledAmounts(item) # {}
    BY DEF SettledAmounts
  <2> QED BY <2>3, <2>4, <2>5
<1> QED BY <1>1, BridgeInvariant, PTL
==============================================================================
