-------------------------------- MODULE Dedup --------------------------------
(***************************************************************************)
(* The LRU of src/src/dedup.rs, by which the run loop tells an update of a *)
(* message it has heard of from one it has not: a sequence of messages,    *)
(* least recently heard first, with room for cap of them. Relay and Album  *)
(* use it; text and media of every chat share the one cache.               *)
(***************************************************************************)
EXTENDS Naturals, Sequences, FiniteSets

Seen(lru, m) == \E i \in 1..Len(lru) : lru[i] = m

Without(s, i) == [k \in 1..(Len(s) - 1) |-> IF k < i THEN s[k] ELSE s[k + 1]]

(* A faulty variant: nothing is evicted. *)
TouchUnbounded(lru, m, cap) == IF Seen(lru, m) THEN lru ELSE Append(lru, m)

(* check_and_insert: put makes the key the most recent one, and evicts the *)
(* least recent key when a new one does not fit.                           *)
Touch(lru, m, cap) ==
    IF Seen(lru, m)
    THEN LET i == CHOOSE k \in 1..Len(lru) : lru[k] = m
         IN  Append(Without(lru, i), m)
    ELSE IF Len(lru) = cap THEN Append(Tail(lru), m) ELSE Append(lru, m)
-----------------------------------------------------------------------------
(* What the cache is for, said without it. heard[k] is the message of the  *)
(* k-th update of a life of the process.                                   *)

(* The messages of the updates a to b. *)
Burst(heard, a, b) == {heard[k] : k \in a..b}

(* Since the last update of its message before i, if there was one, more   *)
(* messages were heard of than the cache holds.                            *)
News(heard, i, cap) ==
    \A k \in 1..(i - 1) :
        heard[k] = heard[i] => Cardinality(Burst(heard, k, i - 1)) > cap
=============================================================================
