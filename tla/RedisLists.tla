----------------------------- MODULE RedisLists -----------------------------
(***************************************************************************)
(* The Redis list commands the relayer engine issues (IRedis in            *)
(* lib/relayer-engine/src/storage/index.ts), as operators on sequences.    *)
(* The head of the sequence is Redis's LEFT end.                           *)
(*                                                                         *)
(* LRem is a recursive function rather than SequencesExt!Remove so that *)
(* its properties can be proved (RedisListsProofs); MCWorkflowStorage      *)
(* has TLC check that the two agree.                                       *)
(***************************************************************************)
EXTENDS Integers, Sequences, Functions

\* LPUSH key element
LPush(list, x) == <<x>> \o list

\* The pop end of BLMOVE source destination LEFT RIGHT: what it takes from the
\* source, and what the source and the destination are afterwards.
LeftOf(list) == Head(list)
PopLeft(list) == Tail(list)
PushRight(list, x) == Append(list, x)

\* KeptPrefixes(list, x)[i] is the first i elements of list without any x.
KeptPrefixes(list, x) ==
  LET kept[i \in 0..Len(list)] ==
        IF i = 0 THEN <<>>
        ELSE IF list[i] = x THEN kept[i - 1] ELSE Append(kept[i - 1], list[i])
  IN  kept

\* LREM key 0 element: every occurrence goes, the others keep their order.
LRem(list, x) == KeptPrefixes(list, x)[Len(list)]
=============================================================================
